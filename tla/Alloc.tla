------------------------------- MODULE Alloc --------------------------------
(***************************************************************************)
(* One size class of the in-region allocator (src/src/alloc.c).  Blocks    *)
(* are allocated under alloc->lock from a list that only lock holders      *)
(* touch.  They are freed without it, by threads of the owner and by the   *)
(* polling process, onto a second, lock-free list that an allocation takes *)
(* over whole when the first runs dry.  When both are empty, a slab is     *)
(* grown outside the lock and its blocks pushed under it.                  *)
(*                                                                         *)
(* Classes share nothing but the lock, so one stands for all.  A locked    *)
(* section is one action: its only access to state others change without   *)
(* the lock is the single exchange of the free list.                       *)
(***************************************************************************)
EXTENDS Naturals

CONSTANTS
    Threads,  \* threads that allocate and free, the poller included
    Slabs,    \* slabs region_grow can still provide
    SlabLen,  \* blocks in a slab
    Null      \* offset 0

Blocks == Slabs \X (1 .. SlabLen)

\* alloc_fill_class asserts nodes > 2.
ASSUME SlabLenAssumption == SlabLen \in Nat /\ SlabLen > 2
ASSUME NullAssumption == Null \notin Blocks /\ Null \notin Slabs

VARIABLES
    alloc,     \* classes[class].alloc
    free,      \* classes[class].free
    link,      \* first word of a block that is on a list
    pc,
    off, old,  \* locals of alloc_free
    slab,      \* local of alloc_fill_class: the slab it was given
    grown,     \* slabs region_grow has handed out
    owned,     \* history: blocks handed out and not freed
    inAlloc, inFree  \* history: blocks put on the two lists

threadVars == <<pc, off, old, slab>>
vars == <<alloc, free, link, threadVars, grown, owned, inAlloc, inFree>>

BlockOrNull == Blocks \cup {Null}

TypeOK ==
    /\ alloc \in BlockOrNull
    /\ free \in BlockOrNull
    /\ link \in [Blocks -> BlockOrNull]
    /\ pc \in [Threads -> {"idle", "fill", "push", "cas"}]
    /\ off \in [Threads -> BlockOrNull]
    /\ old \in [Threads -> BlockOrNull]
    /\ slab \in [Threads -> Slabs \cup {Null}]
    /\ grown \subseteq Slabs
    /\ owned \subseteq Blocks
    /\ inAlloc \subseteq Blocks
    /\ inFree \subseteq Blocks

\* alloc_init.
Init ==
    /\ alloc = Null
    /\ free = Null
    /\ link = [b \in Blocks |-> Null]
    /\ pc = [t \in Threads |-> "idle"]
    /\ off = [t \in Threads |-> Null]
    /\ old = [t \in Threads |-> Null]
    /\ slab = [t \in Threads |-> Null]
    /\ grown = {}
    /\ owned = {}
    /\ inAlloc = {}
    /\ inFree = {}

-----------------------------------------------------------------------------
(* alloc_alloc.                                                             *)

\* The assertion "invalid alloc self-reference".
NotSelf(b) == link[b] # b

\* The list has a block: pop it, zeroed.
alloc_pop(t) ==
    /\ pc[t] = "idle"
    /\ alloc # Null
    /\ NotSelf(alloc)
    /\ alloc' = link[alloc]
    /\ link' = [link EXCEPT ![alloc] = Null]
    /\ owned' = owned \cup {alloc}
    /\ inAlloc' = inAlloc \ {alloc}
    /\ UNCHANGED <<free, threadVars, grown, inFree>>

\* Faulty variant: the free list is copied and not emptied.
Drained_copy == free

\* atomic_exchange leaves an empty free list.
Drained == Null

\* It is empty: take the whole free list and pop that.
alloc_drain(t) ==
    /\ pc[t] = "idle"
    /\ alloc = Null
    /\ free # Null
    /\ NotSelf(free)
    /\ free' = Drained
    /\ alloc' = link[free]
    /\ link' = [link EXCEPT ![free] = Null]
    /\ owned' = owned \cup {free}
    /\ inAlloc' = (inAlloc \cup inFree) \ {free}
    /\ inFree' = {}
    /\ UNCHANGED <<threadVars, grown>>

\* Both are empty: unlock and go for a slab.
alloc_empty(t) ==
    /\ pc[t] = "idle"
    /\ alloc = Null
    /\ free = Null
    /\ pc' = [pc EXCEPT ![t] = "fill"]
    /\ UNCHANGED <<alloc, free, link, off, old, slab, grown, owned, inAlloc, inFree>>

\* The loop of alloc_fill_class: each block but the first and the last is
\* linked to the one after it.
SlabLinks(s) ==
    [b \in Blocks |-> IF b[1] = s /\ b[2] > 1 /\ b[2] < SlabLen
                      THEN <<s, b[2] + 1>> ELSE link[b]]

\* region_grow provides a slab, private until it is pushed.
fill_grow(t) ==
    /\ pc[t] = "fill"
    /\ \E s \in Slabs \ grown :
        /\ grown' = grown \cup {s}
        /\ slab' = [slab EXCEPT ![t] = s]
        /\ link' = SlabLinks(s)
    /\ pc' = [pc EXCEPT ![t] = "push"]
    /\ UNCHANGED <<alloc, free, off, old, owned, inAlloc, inFree>>

\* region_grow fails, and so does the allocation.
fill_fail(t) ==
    /\ pc[t] = "fill"
    /\ Slabs \subseteq grown
    /\ pc' = [pc EXCEPT ![t] = "idle"]
    /\ UNCHANGED <<alloc, free, link, off, old, slab, grown, owned, inAlloc, inFree>>

\* What a slab adds to the list begins at its second block.
SlabHead(s) == <<s, 2>>

\* Under the lock again: the last block is linked to whatever the list holds
\* by now, the second becomes its head and the first is the allocation.
fill_push(t) ==
    /\ pc[t] = "push"
    /\ link' = [link EXCEPT ![<<slab[t], SlabLen>>] = alloc]
    /\ alloc' = SlabHead(slab[t])
    /\ owned' = owned \cup {<<slab[t], 1>>}
    /\ inAlloc' = inAlloc \cup {<<slab[t], i>> : i \in 2 .. SlabLen}
    /\ slab' = [slab EXCEPT ![t] = Null]
    /\ pc' = [pc EXCEPT ![t] = "idle"]
    /\ UNCHANGED <<free, off, old, grown, inFree>>

-----------------------------------------------------------------------------
(* alloc_free.                                                              *)

\* The block is overwritten and linked to the head just loaded.
free_load(t, b) ==
    /\ pc[t] = "idle"
    /\ b \in owned
    /\ owned' = owned \ {b}
    /\ off' = [off EXCEPT ![t] = b]
    /\ old' = [old EXCEPT ![t] = free]
    /\ link' = [link EXCEPT ![b] = free]
    /\ pc' = [pc EXCEPT ![t] = "cas"]
    /\ UNCHANGED <<alloc, free, slab, grown, inAlloc, inFree>>

\* The compare-and-swap publishes it.
free_cas(t) ==
    /\ pc[t] = "cas"
    /\ free = old[t]
    /\ free' = off[t]
    /\ inFree' = inFree \cup {off[t]}
    /\ off' = [off EXCEPT ![t] = Null]
    /\ old' = [old EXCEPT ![t] = Null]
    /\ pc' = [pc EXCEPT ![t] = "idle"]
    /\ UNCHANGED <<alloc, link, slab, grown, owned, inAlloc>>

\* Faulty variant: the new head is noted and the block not linked to it.
Relinked_not(t) == link

\* The block's first word takes the head the compare-and-swap found.
Relinked(t) == [link EXCEPT ![off[t]] = free]

\* It lost a race: link to the head it found and try again.
free_cas_fail(t) ==
    /\ pc[t] = "cas"
    /\ free # old[t]
    /\ old' = [old EXCEPT ![t] = free]
    /\ link' = Relinked(t)
    /\ UNCHANGED <<alloc, free, pc, off, slab, grown, owned, inAlloc, inFree>>

-----------------------------------------------------------------------------
Step(t) ==
    \/ alloc_pop(t)
    \/ alloc_drain(t)
    \/ alloc_empty(t)
    \/ fill_grow(t)
    \/ fill_fail(t)
    \/ fill_push(t)
    \/ \E b \in Blocks : free_load(t, b)
    \/ free_cas(t)
    \/ free_cas_fail(t)

Next == \E t \in Threads : Step(t)

Spec == Init /\ [][Next]_vars

-----------------------------------------------------------------------------
(* Properties.                                                              *)

Transit == {off[t] : t \in Threads} \ {Null}

\* The block a list would hand out next is in nobody's hands: it was not
\* handed out already, and nobody is in the middle of freeing it.
ExclusiveAlloc ==
    /\ alloc # Null => alloc \notin owned \cup Transit
    /\ free # Null => free \notin owned \cup Transit

\* The "invalid alloc self-reference" assertion holds for the next block.
NoSelfReference ==
    /\ alloc # Null => NotSelf(alloc)
    /\ free # Null => NotSelf(free)

\* What alloc_alloc would take next from either list is its to take.
NextBlockSound == ExclusiveAlloc /\ NoSelfReference

\* Blocks that can be reached from head: those in every set that holds head and
\* is closed under link.
Reachable(head) ==
    LET Closed(S) == head \in S \cup {Null} /\ \A b \in S : link[b] \in S \cup {Null}
    IN  {b \in Blocks : \A S \in SUBSET Blocks : Closed(S) => b \in S}

\* Every block of a slab that was pushed is handed out, being freed or on
\* exactly one of the two lists: none is leaked, none is in two places.
EveryBlockAccounted ==
    LET all == {b \in Blocks : b[1] \in grown /\ \A t \in Threads : slab[t] # b[1]}
        listed == Reachable(alloc)
        freed == Reachable(free)
    IN /\ all = owned \cup Transit \cup listed \cup freed
       /\ listed \cap freed = {}
       /\ (listed \cup freed) \cap (owned \cup Transit) = {}

=============================================================================
