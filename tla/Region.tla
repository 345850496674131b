------------------------------- MODULE Region -------------------------------
(***************************************************************************)
(* Growth of a region by its owner (src/src/region.c): region_grow extends *)
(* the file and maps it again, keeping the old mappings, while other       *)
(* threads turn offsets into pointers with region_ptr, without a lock.     *)
(*                                                                         *)
(* A mapping is named by its place in the order of the mmap calls; offsets *)
(* and lengths are in units of one allocation.  Of an access only its end, *)
(* off + len, is kept.  Loads and stores happen in program order, as the   *)
(* comments of the code ask for.                                           *)
(***************************************************************************)
EXTENDS Naturals, Sequences

CONSTANTS
    Threads,     \* threads of the owning process
    NoThread,
    MinPos,      \* length of the header, the first position handed out
    DefaultLen,  \* region_default_len, the length of the first mapping
    MaxLen,      \* bound: ftruncate fails beyond it
    Sizes        \* lengths asked of region_grow

ASSUME ThreadAssumption == NoThread \notin Threads
ASSUME LenAssumption ==
    /\ MinPos \in Nat
    /\ DefaultLen \in Nat \ {0}
    /\ MaxLen \in Nat
    /\ MinPos <= DefaultLen
    /\ DefaultLen <= MaxLen
ASSUME SizesAssumption == Sizes \subseteq Nat \ {0}

VARIABLES
    file,       \* length of the shm file
    maps,       \* lengths of the mappings made so far: none is undone
    ptr,        \* region->vma.ptr
    len,        \* region->vma.len
    pos,        \* region->pos
    lock,       \* the thread inside region_grow
    pc,
    old_pos, new_pos, new_len,  \* locals of region_grow
    end,        \* per thread: the argument of region_ptr
    vma_ptr,    \* per thread: the mapping region_ptr loaded
    legit,      \* history: threads whose access was inside the region when it began
    extents     \* history: the extents region_grow handed out, in that order

growVars == <<file, maps, ptr, len, pos, lock, old_pos, new_pos, new_len, extents>>
readVars == <<end, vma_ptr, legit>>
regionVars == <<growVars, readVars, pc>>

Ends == 1 .. MaxLen + 1
PcStates == {"idle", "trunc", "map", "ptr", "pos", "load", "have", "null"}

RegionTypeOK ==
    /\ file \in 0 .. MaxLen
    /\ maps \in Seq(0 .. MaxLen)
    /\ ptr \in 1 .. Len(maps)
    /\ len \in 0 .. MaxLen
    /\ pos \in Nat
    /\ lock \in Threads \cup {NoThread}
    /\ pc \in [Threads -> PcStates]
    /\ old_pos \in Nat /\ new_pos \in Nat /\ new_len \in 0 .. MaxLen
    /\ end \in [Threads -> Nat]
    /\ vma_ptr \in [Threads -> Nat]
    /\ legit \subseteq Threads
    /\ extents \in Seq([from : Nat, to : Nat])

\* region_create, with the header in place.
RegionInit ==
    /\ file = DefaultLen
    /\ maps = <<DefaultLen>>
    /\ ptr = 1
    /\ len = DefaultLen
    /\ pos = MinPos
    /\ lock = NoThread
    /\ pc = [t \in Threads |-> "idle"]
    /\ old_pos = 0 /\ new_pos = 0 /\ new_len = 0
    /\ end = [t \in Threads |-> 0]
    /\ vma_ptr = [t \in Threads |-> 1]
    /\ legit = {}
    /\ extents = <<>>

Goto(t, s) == pc' = [pc EXCEPT ![t] = s]

-----------------------------------------------------------------------------
(* region_grow.                                                             *)

\* Faulty variant: the region is grown without taking the lock.
Unlocked_ignored == TRUE

\* slock_lock goes through.
Unlocked == lock = NoThread

\* The extent fits the current mapping: pos moves, under the lock.
grow_in_place(t) ==
    /\ pc[t] = "idle"
    /\ Unlocked
    /\ \E size \in Sizes :
        /\ pos + size <= len
        /\ pos' = pos + size
        /\ extents' = Append(extents, [from |-> pos, to |-> pos + size])
    /\ UNCHANGED <<file, maps, ptr, len, lock, old_pos, new_pos, new_len, readVars, pc>>

\* It does not: the lengths are worked out before the file is touched.
grow_begin(t) ==
    /\ pc[t] = "idle"
    /\ Unlocked
    /\ \E size \in Sizes :
        /\ pos + size > len
        /\ old_pos' = pos
        /\ new_pos' = pos + size
    /\ lock' = t
    /\ Goto(t, "trunc")
    /\ UNCHANGED <<file, maps, ptr, len, pos, new_len, extents, readVars>>

\* The lengths reached by doubling.
Doublings == {len * 2^k : k \in 0 .. MaxLen} \cap 0 .. MaxLen

\* while (new_len <= new_pos) new_len *= 2
FirstDoubling(n) ==
    /\ n \in Doublings
    /\ n > new_pos
    /\ \A m \in Doublings : m > new_pos => n <= m

\* The length of the file after ftruncate.
Truncated(n) == n

\* ftruncate to the new length.
grow_trunc(t) ==
    /\ pc[t] = "trunc"
    /\ \E n \in 0 .. MaxLen : FirstDoubling(n) /\ new_len' = n
    /\ file' = Truncated(new_len')
    /\ Goto(t, "map")
    /\ UNCHANGED <<maps, ptr, len, pos, lock, old_pos, new_pos, extents, readVars>>

\* ftruncate or mmap fails: region_grow returns 0, a longer file stays longer.
grow_fail(t) ==
    /\ pc[t] \in {"trunc", "map"}
    /\ lock' = NoThread
    /\ Goto(t, "idle")
    /\ UNCHANGED <<file, maps, ptr, len, pos, old_pos, new_pos, new_len, extents, readVars>>

\* mmap of the whole file; vma.next and vma.len are written.
grow_map(t) ==
    /\ pc[t] = "map"
    /\ maps' = Append(maps, new_len)
    /\ len' = new_len
    /\ Goto(t, "ptr")
    /\ UNCHANGED <<file, ptr, pos, lock, old_pos, new_pos, new_len, extents, readVars>>

\* Faulty variant: the new mapping is not put in use.
Newest_missing == ptr

\* The mapping region_grow has just made.
Newest == Len(maps)

\* The store of vma.ptr.
grow_ptr(t) ==
    /\ pc[t] = "ptr"
    /\ ptr' = Newest
    /\ Goto(t, "pos")
    /\ UNCHANGED <<file, maps, len, pos, lock, old_pos, new_pos, new_len, extents, readVars>>

\* The store of pos, after it; then the lock is released and old_pos returned.
grow_pos(t) ==
    /\ pc[t] = "pos"
    /\ pos' = new_pos
    /\ extents' = Append(extents, [from |-> old_pos, to |-> new_pos])
    /\ lock' = NoThread
    /\ Goto(t, "idle")
    /\ UNCHANGED <<file, maps, ptr, len, old_pos, new_pos, new_len, readVars>>

-----------------------------------------------------------------------------
(* region_ptr.                                                              *)

\* The load of vma.ptr.
ptr_load(t, e) ==
    /\ pc[t] = "idle"
    /\ end' = [end EXCEPT ![t] = e]
    /\ legit' = IF e <= pos THEN legit \cup {t} ELSE legit \ {t}
    /\ vma_ptr' = [vma_ptr EXCEPT ![t] = ptr]
    /\ Goto(t, "load")
    /\ UNCHANGED growVars

\* Faulty variant: an access that ends at pos is refused.
Outside_early(t) == end[t] >= pos

\* The bounds check of region_ptr_unsafe.
Outside(t) == end[t] > pos

\* The load of pos, and the pointer when the access ends inside it.
ptr_ok(t) ==
    /\ pc[t] = "load"
    /\ ~Outside(t)
    /\ Goto(t, "have")
    /\ UNCHANGED <<growVars, readVars>>

\* ... and NULL when it does not, an "out-of-region access".
ptr_fail(t) ==
    /\ pc[t] = "load"
    /\ Outside(t)
    /\ Goto(t, "null")
    /\ UNCHANGED <<growVars, readVars>>

\* The caller is done with the pointer, or saw the NULL and gave up.
ptr_return(t) ==
    /\ pc[t] \in {"have", "null"}
    /\ Goto(t, "idle")
    /\ end' = [end EXCEPT ![t] = 0]
    /\ vma_ptr' = [vma_ptr EXCEPT ![t] = 1]
    /\ legit' = legit \ {t}
    /\ UNCHANGED growVars

-----------------------------------------------------------------------------
Grow(t) ==
    \/ grow_in_place(t)
    \/ grow_begin(t)
    \/ grow_trunc(t)
    \/ grow_fail(t)
    \/ grow_map(t)
    \/ grow_ptr(t)
    \/ grow_pos(t)

Deref(t) ==
    \/ \E e \in Ends : ptr_load(t, e)
    \/ ptr_ok(t)
    \/ ptr_fail(t)
    \/ ptr_return(t)

RegionNext == \E t \in Threads : Grow(t) \/ Deref(t)

RegionSpec == RegionInit /\ [][RegionNext]_regionVars

-----------------------------------------------------------------------------
(* Properties.                                                              *)

\* A pointer obtained for memory that had been handed out when region_ptr was
\* called lies inside the mapping it points into, whatever grows meanwhile.
MappedAccess ==
    \A t \in Threads : pc[t] = "have" /\ t \in legit => end[t] <= maps[vma_ptr[t]]

\* region_ptr never refuses memory that had been handed out.
LegitResolves == \A t \in Threads : pc[t] = "null" => t \notin legit

\* Every mapping is backed by the file, so no access inside one faults.
Backed == \A i \in 1 .. Len(maps) : maps[i] <= file

\* The memory behind a pointer that region_ptr returns for what had been handed
\* out can be accessed: it is mapped, and the mapping is backed.
AccessSound == MappedAccess /\ Backed

\* Two calls of region_grow never hand out the same memory.
GrowDisjoint ==
    \A i, j \in 1 .. Len(extents) : i # j =>
        extents[i].to <= extents[j].from \/ extents[j].to <= extents[i].from

=============================================================================
