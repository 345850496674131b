--------------------------- MODULE DistLensProofs ---------------------------
(***************************************************************************)
(* What lens_dist.c guarantees for any number of threads, any reservoir    *)
(* size and any number of records: the lens loses, doubles or mixes up     *)
(* nothing but through a straggler that takes the lock while the poller    *)
(* reads.                                                                  *)
(***************************************************************************)
EXTENDS DistLens, FiniteSetTheorems, WellFoundedInduction, TLAPS

(* Who is in the critical section of a slot is there alone, although the    *)
(* poller does not take its lock.                                           *)
Exclusive ==
    \A t \in Threads :
        pc[t] \in Locked =>
            /\ \A u \in Threads \ {t} : pc[u] \in Locked => ep[u] # ep[t]
            /\ ppc \in Reading => pep # ep[t]

(* The lock word of a slot says whether a thread is in its critical section. *)
LockHeld ==
    \A t \in Threads : pc[t] \in Locked => lock[ep[t]] = 1

(* The poller reads a slot whose lock is free.                              *)
ReadFree == ppc \in Reading => lock[pep] = 0

(* Inside the critical section the loaded n is the n of the slot.           *)
Loaded ==
    \A t \in Threads :
        /\ pc[t] \in {"store", "count"} => seen[t] = n[ep[t]]
        /\ pc[t] = "pick" => n[ep[t]] >= Samples

(* What the poller copied is still there when it resets the slot.           *)
Copied == ppc = "reset" => gotN = n[pep]

IInv ==
    /\ TypeOK
    /\ LockHeld
    /\ ReadFree
    /\ Exclusive
    /\ Loaded
    /\ Copied
    /\ NoEmptyRange
    /\ CountConserved

\* The invariant holds at first,
LEMMA InitIInv == Init => IInv
<1>1. Init => TypeOK
  <2>1. Init => value.n \in Nat /\ value.len \in Nat /\ DOMAIN value.samples = Indices
    BY DEF Init, NoValue, Empty
  <2>2. Init => samples \in [Epochs -> [Indices -> 0..MaxRecords]] /\ got \in [Indices -> 0..MaxRecords]
    BY RecordsAssumption DEF Init, Empty
  <2>3. Init => /\ pc \in [Threads -> {"idle", "lock", "fault", "dead"} \cup Locked]
                /\ ppc \in {"idle", "check"} \cup Reading
    BY DEF Init
  <2>4. Init => /\ lock \in [Epochs -> {0, 1}] /\ n \in [Epochs -> Nat]
                /\ max \in [Epochs -> 0..MaxRecords] /\ published \in [Values -> Nat]
                /\ val \in [Threads -> 0..MaxRecords]
    BY RecordsAssumption DEF Init
  <2>5. Init => /\ epoch \in Epochs /\ pep \in Epochs /\ ep \in [Threads -> Epochs]
                /\ i \in [Threads -> Nat] /\ seen \in [Threads -> Nat]
                /\ gotN \in Nat /\ gotMax \in 0..MaxRecords /\ started \in 0..MaxRecords
                /\ counted \in Nat /\ total \in Nat
    BY RecordsAssumption DEF Init, Epochs
  <2>6. Init => overlapped \in BOOLEAN
    BY Zenon DEF Init
  <2> QED
    BY <2>1, <2>2, <2>3, <2>4, <2>5, <2>6, Zenon DEF TypeOK
<1>2. Init => LockHeld /\ ReadFree /\ Exclusive /\ Loaded /\ Copied /\ NoEmptyRange
  BY DEF Init, LockHeld, ReadFree, Exclusive, Loaded, Copied, NoEmptyRange, Reading, Locked
<1>3. Init => CountConserved
  BY DEF Init, CountConserved, Epochs
<1> QED
  BY <1>1, <1>2, <1>3 DEF IInv

(* What a poll adds to the tally of a value is a number.                    *)
LEMMA TallyType ==
  ASSUME TypeOK, NEW v
  PROVE Cardinality({k \in Indices : got[k] = v}) \in Nat
<1>1. IsFiniteSet(Indices)
  BY FS_Interval, SamplesAssumption DEF Indices
<1>2. IsFiniteSet({k \in Indices : got[k] = v})
  BY <1>1, FS_Subset
<1> QED
  BY <1>2, FS_CardinalityType

(* A merge of two reservoirs yields a reservoir and its length.             *)
LEMMA MergeIntoType ==
  ASSUME NEW dst, NEW src, NEW dst_len \in Nat, NEW src_len \in Nat,
         NEW r \in MergeInto(dst, dst_len, src, src_len)
  PROVE r.len \in Nat /\ DOMAIN r.samples = Indices
<1> USE SamplesAssumption
<1> DEFINE copied == ToCopy(dst_len, src_len)
           left == src_len - copied
           full == [k \in Indices |-> IF k >= dst_len /\ k < dst_len + copied
                                      THEN src[k - dst_len] ELSE dst[k]]
           len == IF left = 0 THEN reservoir_len(dst_len + copied) ELSE Samples
           drawn == {Drawn(full, src, copied, left, d) : d \in Draws(dst_len + copied, left)}
           mixed == {[k \in Indices |-> IF k \in picked THEN src[k] ELSE full[k]] :
                        picked \in SUBSET Indices}
           results == IF left = 0 THEN {full} ELSE IF left <= Samples THEN drawn ELSE mixed
<1>1. len \in Nat
  BY DEF ToCopy, reservoir_len
<1>2. PICK result \in results : r = [len |-> len, samples |-> result]
  BY Zenon DEF MergeInto
<1>3. DOMAIN full = Indices
  OBVIOUS
<1>4. \A x \in drawn : DOMAIN x = Indices
  BY DEF Drawn
<1>5. \A x \in mixed : DOMAIN x = Indices
  OBVIOUS
<1>6. DOMAIN result = Indices
  <2> HIDE DEF left, full, drawn, mixed
  <2> QED
    BY <1>2, <1>3, <1>4, <1>5
<1> HIDE DEF len, results
<1> QED
  BY <1>1, <1>2, <1>6

\* What lens_dist_read merges and tallies at its end has the right types.
LEMMA UnlockType ==
  ASSUME TypeOK, read_unlock
  PROVE published' \in [Values -> Nat] /\ value'.n \in Nat /\ value'.len \in Nat
        /\ DOMAIN value'.samples = Indices
<1>1. published' \in [Values -> Nat]
  <2> DEFINE tally(v) == Cardinality({k \in Indices : got[k] = v})
  <2>1. \A v \in Values : tally(v) \in Nat
    BY TallyType
  <2>2. published' = [v \in Values |-> published[v] + tally(v)]
    BY DEF read_unlock
  <2> HIDE DEF tally
  <2> QED
    BY <2>1, <2>2 DEF TypeOK
<1>2. value'.n \in Nat /\ value'.len \in Nat /\ DOMAIN value'.samples = Indices
  <2>1. PICK m \in Others :
          IF gotN = 0 THEN value' = Other(m)
          ELSE \E r \in lens_dist_merge(got, gotN, Other(m).samples, m) :
                 value' = [n |-> m + gotN, len |-> r.len, samples |-> r.samples]
    BY DEF read_unlock
  <2>2. m \in Nat /\ gotN \in Nat
    BY OthersAssumption DEF TypeOK
  <2>3. CASE gotN = 0
    BY <2>1, <2>2, <2>3, SamplesAssumption DEF Other, reservoir_len
  <2>4. CASE gotN # 0
    <3>1. PICK r \in lens_dist_merge(got, gotN, Other(m).samples, m) :
              value' = [n |-> m + gotN, len |-> r.len, samples |-> r.samples]
      BY <2>1, <2>4
    <3>2. r.len \in Nat /\ DOMAIN r.samples = Indices
      BY <2>2, MergeIntoType DEF lens_dist_merge
    <3> QED
      BY <2>2, <3>1, <3>2
  <2> QED
    BY <2>3, <2>4
<1> QED
  BY <1>1, <1>2

\* and every step preserves it but the one that makes a record and a read
\* overlap.
LEMMA StepIInv == ASSUME IInv, [Next]_vars, ~overlapped' PROVE IInv'
<1> USE SamplesAssumption, RecordsAssumption
    DEF Epochs, Reading, Locked, Full, Larger, slock_unlock, Flipped, Busy, Skipped, Cleared
<1>1. CASE \E t \in Threads : record_epoch(t)
  <2> PICK t \in Threads : record_epoch(t)
    BY <1>1
  <2> QED
    BY DEF record_epoch, IInv, TypeOK, LockHeld, ReadFree, Exclusive, Loaded, Copied,
           NoEmptyRange, CountConserved, slotVars, pollVars, readVars
<1>2. CASE \E t \in Threads : slock_lock(t)
  <2> PICK t \in Threads : slock_lock(t)
    BY <1>2
  <2>1. ~(ppc \in Reading /\ pep = ep[t]) /\ overlapped' \in BOOLEAN
    BY DEF slock_lock
  <2> QED
    BY <2>1 DEF slock_lock, IInv, TypeOK, LockHeld, ReadFree, Exclusive, Loaded, Copied,
           NoEmptyRange, CountConserved, slotVars, pollVars, readVars
<1>3. CASE \E t \in Threads : record_load(t)
  <2> PICK t \in Threads : record_load(t)
    BY <1>3
  <2> QED
    BY DEF record_load, IInv, TypeOK, LockHeld, ReadFree, Exclusive, Loaded, Copied,
           NoEmptyRange, CountConserved, slotVars, pollVars, readVars
<1>4. CASE \E t \in Threads : record_pick(t)
  <2> PICK t \in Threads : record_pick(t)
    BY <1>4
  <2>1. n[ep[t]] \in Nat /\ n[ep[t]] # 0
    BY DEF record_pick, IInv, TypeOK, Loaded
  <2>2. PICK k \in 0..(n[ep[t]] - 1) : i' = [i EXCEPT ![t] = k]
    BY <2>1, Zenon DEF record_pick
  <2> QED
    BY <2>1, <2>2
       DEF record_pick, IInv, TypeOK, LockHeld, ReadFree, Exclusive, Loaded, Copied,
           NoEmptyRange, CountConserved, slotVars, pollVars, readVars
<1>5. CASE \E t \in Threads : record_store(t)
  <2> PICK t \in Threads : record_store(t)
    BY <1>5
  <2>1. samples' \in [Epochs -> [Indices -> 0..MaxRecords]]
    BY DEF record_store, IInv, TypeOK, Indices
  <2> QED
    BY <2>1
       DEF record_store, IInv, TypeOK, LockHeld, ReadFree, Exclusive, Loaded, Copied,
           NoEmptyRange, CountConserved, slotVars, pollVars, readVars
<1>6. CASE \E t \in Threads : record_count(t)
  <2> PICK t \in Threads : record_count(t)
    BY <1>6
  <2>1. n' = [n EXCEPT ![ep[t]] = n[ep[t]] + 1]
    BY DEF record_count, IInv, Loaded
  <2>2. max' \in [Epochs -> 0..MaxRecords]
    BY DEF record_count, IInv, TypeOK
  <2>3. TypeOK'
    BY <2>1, <2>2 DEF record_count, IInv, TypeOK, pollVars, readVars
  <2>4. CountConserved'
    <3>1. n \in [Epochs -> Nat] /\ ep[t] \in Epochs /\ gotN \in Nat /\ total \in Nat
      BY DEF IInv, TypeOK
    <3> QED
      BY <2>1, <3>1 DEF record_count, IInv, CountConserved, pollVars, readVars
  <2>5. Loaded' /\ Copied'
    BY <2>1 DEF record_count, IInv, TypeOK, Exclusive, Loaded, Copied, pollVars, readVars
  <2> QED
    BY <2>3, <2>4, <2>5
       DEF record_count, IInv, TypeOK, LockHeld, ReadFree, Exclusive, NoEmptyRange, pollVars, readVars
<1>7. CASE \E t \in Threads : record_unlock(t)
  <2> PICK t \in Threads : record_unlock(t)
    BY <1>7
  <2> QED
    BY DEF record_unlock, IInv, TypeOK, LockHeld, ReadFree, Exclusive, Loaded, Copied,
           NoEmptyRange, CountConserved, slotVars, pollVars, readVars
<1>8. CASE optics_epoch_inc \/ read_busy \/ read_free
  BY <1>8
     DEF optics_epoch_inc, read_busy, read_free, NoValue, Empty, IInv, TypeOK, LockHeld, ReadFree, Exclusive, Loaded,
         Copied, NoEmptyRange, CountConserved, slotVars, threadVars
<1>9. CASE read_copy
  <2>1. got' \in [Indices -> 0..MaxRecords]
    BY <1>9 DEF read_copy, IInv, TypeOK
  <2> QED
    BY <1>9, <2>1
       DEF read_copy, IInv, TypeOK, LockHeld, ReadFree, Exclusive, Loaded, Copied,
           NoEmptyRange, CountConserved, slotVars, threadVars
<1>10. CASE read_reset
  <2>1. n' = [n EXCEPT ![pep] = 0] /\ gotN = n[pep] /\ n \in [Epochs -> Nat] /\ pep \in Epochs
    BY <1>10 DEF read_reset, IInv, TypeOK, Copied
  <2>2. CountConserved'
    BY <1>10, <2>1 DEF read_reset, IInv, TypeOK, CountConserved, threadVars
  <2>3. Loaded' /\ Copied'
    BY <1>10 DEF read_reset, IInv, TypeOK, Exclusive, Loaded, Copied, threadVars
  <2> QED
    BY <1>10, <2>2, <2>3
       DEF read_reset, IInv, TypeOK, LockHeld, ReadFree, Exclusive, NoEmptyRange, threadVars
<1>11. CASE read_unlock
  <2>1. published' \in [Values -> Nat] /\ value'.n \in Nat /\ value'.len \in Nat
        /\ DOMAIN value'.samples = Indices
    BY <1>11, UnlockType DEF IInv
  <2>3. TypeOK'
    BY <1>11, <2>1 DEF read_unlock, IInv, TypeOK, Empty, threadVars
  <2>4. CountConserved'
    BY <1>11 DEF read_unlock, IInv, TypeOK, CountConserved, threadVars
  <2> QED
    BY <1>11, <2>3, <2>4
       DEF read_unlock, IInv, TypeOK, LockHeld, ReadFree, Exclusive, Loaded, Copied,
           NoEmptyRange, threadVars
<1>12. CASE client_dies
  BY <1>12
     DEF client_dies, IInv, TypeOK, LockHeld, ReadFree, Exclusive, Loaded, Copied,
         NoEmptyRange, CountConserved, slotVars, pollVars, readVars
<1>13. CASE UNCHANGED vars
  BY <1>13
     DEF vars, slotVars, threadVars, pollVars, readVars, IInv, TypeOK, LockHeld, ReadFree, Exclusive,
         Loaded, Copied, NoEmptyRange, CountConserved
<1> QED
  BY <1>1, <1>2, <1>3, <1>4, <1>5, <1>6, <1>7, <1>8, <1>9, <1>10, <1>11, <1>12, <1>13
     DEF Next, Record, Locking, Poll

-----------------------------------------------------------------------------
(* The samples.  Which of them are in use is what n says, whether or not    *)
(* they were reset: a value is in use in one place, or is on its way there, *)
(* or was collected.                                                        *)

\* The indices in use of the reservoir of a slot.
Used(e) == {k \in Indices : k < n[e]}

\* Thread t has a value that it has not stored or not counted yet.
Holds(t) == pc[t] \in {"lock", "load", "pick", "store", "count"}

\* A sample in use is the value of a record, and of none that was collected.
SampleInv ==
    /\ \A v \in Values : /\ published[v] <= 1
                         /\ v > started => published[v] = 0
    /\ \A e \in Epochs : \A k \in Used(e) :
          samples[e][k] \in 1..started /\ published[samples[e][k]] = 0

\* No value is in use twice.
DistinctInv ==
    \A e, f \in Epochs : \A k \in Used(e), m \in Used(f) :
        samples[e][k] = samples[f][m] => e = f /\ k = m

\* A value that is on its way belongs to one thread, ...
HolderInv ==
    \A t \in Threads : Holds(t) =>
        /\ val[t] \in 1..started /\ published[val[t]] = 0
        /\ \A u \in Threads : Holds(u) /\ u # t => val[u] # val[t]

\* ... and is in no reservoir but at the index where it was just stored.
FreshInv ==
    \A t \in Threads : Holds(t) =>
        \A e \in Epochs : \A k \in Used(e) :
            samples[e][k] = val[t] => pc[t] = "count" /\ e = ep[t] /\ k = i[t]

\* That index is the first that is not in use, until the reservoir is full.
IndexInv ==
    \A t \in Threads :
        /\ pc[t] \in {"store", "count"} => (n[ep[t]] < Samples => i[t] = n[ep[t]])
        /\ pc[t] = "count" => (i[t] < Samples => samples[ep[t]][i[t]] = val[t])

\* The maximum of a slot covers its samples, but for the one that a thread is
\* about to count.
Covered(e) == \A k \in Used(e) : samples[e][k] <= max[e]

MaxInv ==
    /\ \A e \in Epochs : lock[e] = 0 => Covered(e)
    /\ \A t \in Threads :
          /\ pc[t] \in {"load", "pick", "store", "unlock"} => Covered(ep[t])
          /\ pc[t] = "count" => \A k \in Used(ep[t]) : k # i[t] => samples[ep[t]][k] <= max[ep[t]]

\* What a read has copied: before the reset it is what the slot holds, after
\* it nobody else holds it.
GotInv ==
    /\ \A k \in Indices : got[k] <= gotMax
    /\ ppc \notin Reading => got = Empty
    /\ ppc = "reset" => \A k \in Indices : got[k] = IF k < n[pep] THEN samples[pep][k] ELSE 0
    /\ ppc = "unlock" =>
          /\ n[pep] = 0
          /\ \A k \in Indices :
                /\ got[k] # 0 <=> k < gotN
                /\ got[k] # 0 =>
                      /\ got[k] \in 1..started /\ published[got[k]] = 0
                      /\ \A m \in Indices : got[m] = got[k] => m = k
                      /\ \A e \in Epochs : \A m \in Used(e) : samples[e][m] # got[k]
                      /\ \A t \in Threads : Holds(t) => val[t] # got[k]

SInv ==
    /\ SampleInv /\ DistinctInv /\ HolderInv /\ FreshInv /\ IndexInv
    /\ MaxInv /\ GotInv /\ WholeValue

-----------------------------------------------------------------------------
(* What the steps that touch a reservoir come to.                           *)

\* The sample at the index of the thread is replaced, and no other.
Stores(t) ==
    /\ pc[t] = "store" /\ pc' = [pc EXCEPT ![t] = "count"]
    /\ samples' \in [Epochs -> [Indices -> 0..MaxRecords]]
    /\ \A e \in Epochs, k \in Indices :
          samples'[e][k] = IF e = ep[t] /\ k = i[t] THEN val[t] ELSE samples[e][k]
    /\ UNCHANGED <<epoch, lock, n, max, ep, i, seen, val, started, counted, pollVars>>

\* record_store does that.
LEMMA StoreOutcome ==
    ASSUME TypeOK, NEW t \in Threads, record_store(t)
    PROVE  Stores(t)
<1>1. /\ samples \in [Epochs -> [Indices -> 0..MaxRecords]] /\ val[t] \in 0..MaxRecords
      /\ ep[t] \in Epochs /\ i[t] \in Nat
  BY DEF TypeOK
<1>2. i[t] < Samples <=> i[t] \in Indices
  BY <1>1, SamplesAssumption DEF Indices
<1>3. samples' = IF i[t] \in Indices THEN [samples EXCEPT ![ep[t]][i[t]] = val[t]] ELSE samples
  BY <1>2 DEF record_store
<1>4. /\ samples' \in [Epochs -> [Indices -> 0..MaxRecords]]
      /\ \A e \in Epochs, k \in Indices :
            samples'[e][k] = IF e = ep[t] /\ k = i[t] THEN val[t] ELSE samples[e][k]
  BY <1>1, <1>3
<1> QED
  BY <1>4 DEF record_store, Stores

\* The index becomes one in use, if it was none; the maximum follows.
Counts(t) ==
    /\ pc[t] = "count" /\ pc' = [pc EXCEPT ![t] = "unlock"]
    /\ n' = [n EXCEPT ![ep[t]] = n[ep[t]] + 1]
    /\ max' = [max EXCEPT ![ep[t]] = Larger(t)]
    /\ Larger(t) >= val[t] /\ Larger(t) >= max[ep[t]] /\ Larger(t) \in Nat
    /\ UNCHANGED <<epoch, lock, samples, ep, i, seen, val, started, pollVars>>

\* record_count does that.
LEMMA CountOutcome ==
    ASSUME TypeOK, Loaded, NEW t \in Threads, record_count(t)
    PROVE  Counts(t)
<1>1. val[t] \in Nat /\ max[ep[t]] \in Nat
  BY DEF TypeOK
<1>2. Larger(t) >= val[t] /\ Larger(t) >= max[ep[t]] /\ Larger(t) \in Nat
  BY <1>1 DEF Larger
<1>3. n' = [n EXCEPT ![ep[t]] = n[ep[t]] + 1]
  BY DEF record_count, Loaded
<1> QED
  BY <1>2, <1>3 DEF record_count, Counts

\* What is in use once a record was counted.
LEMMA UsedCounted ==
    ASSUME TypeOK, IndexInv, NEW t \in Threads, Counts(t)
    PROVE  \A e \in Epochs : \A k \in Used(e)' :
              k \in Used(e) \/ (e = ep[t] /\ k = i[t] /\ samples[e][k] = val[t])
<1> SUFFICES ASSUME NEW e \in Epochs, NEW k \in Indices, k < n'[e], ~(k < n[e])
             PROVE  e = ep[t] /\ k = i[t] /\ samples[e][k] = val[t]
  BY DEF Used
<1>1. n \in [Epochs -> Nat] /\ k \in Nat /\ k < Samples /\ n[e] \in Nat
  <2>1. n \in [Epochs -> Nat]
    BY DEF TypeOK
  <2>2. k \in Nat /\ k < Samples
    BY SamplesAssumption DEF Indices
  <2> QED
    BY <2>1, <2>2
<1>2. e = ep[t]
  BY <1>1 DEF Counts
<1>3. k = n[e]
  BY <1>1, <1>2 DEF Counts
<1>4. i[t] = n[e]
  BY <1>1, <1>2, <1>3 DEF Counts, IndexInv
<1> QED
  BY <1>1, <1>2, <1>3, <1>4 DEF Counts, IndexInv

\* What is in use is known by the counts.
LEMMA UsedSame ==
    ASSUME n' = n
    PROVE  \A e : Used(e)' = Used(e)
BY DEF Used

\* ... and after the reset of a slot only the other has samples in use.
LEMMA UsedReset ==
    ASSUME TypeOK, n' = [n EXCEPT ![pep] = 0]
    PROVE  \A e \in Epochs : \A k \in Used(e)' : k \in Used(e) /\ e # pep
<1> SUFFICES ASSUME NEW e \in Epochs, NEW k \in Indices, k < n'[e]
             PROVE  k < n[e] /\ e # pep
  BY DEF Used
<1>1. n \in [Epochs -> Nat] /\ k \in Nat
  BY SamplesAssumption DEF TypeOK, Indices
<1>2. e # pep
  BY <1>1
<1> QED
  BY <1>1, <1>2

\* What a read collected is tallied once.
Collects ==
    /\ ppc = "unlock" /\ ppc' = "idle"
    /\ published' \in [Values -> Nat]
    /\ \A v \in Values :
          published'[v] = IF \E k \in Indices : got[k] = v THEN published[v] + 1 ELSE published[v]
    /\ got' = Empty /\ gotN' = 0 /\ gotMax' = 0
    /\ UNCHANGED <<epoch, n, max, samples, threadVars, pep>>

\* read_unlock does that.
LEMMA CollectOutcome ==
    ASSUME TypeOK, GotInv, read_unlock
    PROVE  Collects
<1> DEFINE tally(v) == Cardinality({k \in Indices : got[k] = v})
<1>1. published' = [v \in Values |-> published[v] + tally(v)] /\ ppc = "unlock"
  BY DEF read_unlock
<1>2. ASSUME NEW v \in Values, NEW k \in Indices, got[k] = v
      PROVE  tally(v) = 1
  <2>1. v # 0
    BY DEF Values
  <2>2. \A m \in Indices : got[m] = got[k] => m = k
    BY <1>1, <1>2, <2>1 DEF GotInv
  <2>3. {m \in Indices : got[m] = v} = {k}
    BY <1>2, <2>2
  <2> QED
    BY <2>3, FS_Singleton
<1>3. ASSUME NEW v \in Values, ~\E k \in Indices : got[k] = v
      PROVE  tally(v) = 0
  <2>1. {k \in Indices : got[k] = v} = {}
    BY <1>3
  <2> QED
    BY <2>1, FS_EmptySet
<1> HIDE DEF tally
<1>4. published \in [Values -> Nat]
  BY DEF TypeOK
<1>5. \A v \in Values : published'[v] = IF \E k \in Indices : got[k] = v
                                        THEN published[v] + 1 ELSE published[v]
  BY <1>1, <1>2, <1>3, <1>4
<1>6. published' \in [Values -> Nat]
  BY <1>1, <1>4, <1>5
<1> QED
  BY <1>5, <1>6 DEF read_unlock, Collects

-----------------------------------------------------------------------------
(* Every step preserves what is said of the samples.                        *)

\* A sample in use is a value that was not collected,
LEMMA SampleStep ==
    ASSUME TypeOK, Loaded, Exclusive, LockHeld, ReadFree, IndexInv, SampleInv, HolderInv, GotInv, [Next]_vars
    PROVE  SampleInv'
<1> USE DEF slotVars, threadVars, pollVars, readVars
<1>1. ASSUME NEW t \in Threads, record_epoch(t)
      PROVE  SampleInv'
  <2>1. started' = started + 1 /\ UNCHANGED <<published, samples, n>>
    BY <1>1 DEF record_epoch
  <2>2. started \in Nat
    BY DEF TypeOK
  <2> QED
    BY <2>1, <2>2 DEF SampleInv, Used, Values
<1>2. ASSUME NEW t \in Threads, slock_lock(t)
      PROVE  SampleInv'
  <2>1. UNCHANGED <<published, started, samples, n>>
    BY <1>2 DEF slock_lock
  <2> QED
    BY <2>1 DEF SampleInv, Used
<1>3. ASSUME NEW t \in Threads, record_load(t)
      PROVE  SampleInv'
  <2>1. UNCHANGED <<published, started, samples, n>>
    BY <1>3 DEF record_load
  <2> QED
    BY <2>1 DEF SampleInv, Used
<1>4. ASSUME NEW t \in Threads, record_pick(t)
      PROVE  SampleInv'
  <2>1. UNCHANGED <<published, started, samples, n>>
    BY <1>4 DEF record_pick
  <2> QED
    BY <2>1 DEF SampleInv, Used
<1>5. ASSUME NEW t \in Threads, record_store(t)
      PROVE  SampleInv'
  <2>1. Stores(t)
    BY <1>5, StoreOutcome
  <2>2. val[t] \in 1..started /\ published[val[t]] = 0
    BY <2>1 DEF Stores, HolderInv, Holds
  <2>3. \A e \in Epochs : \A k \in Used(e) :
            samples'[e][k] \in 1..started /\ published[samples'[e][k]] = 0
    BY <2>1, <2>2 DEF Stores, SampleInv, Used
  <2> QED
    BY <2>1, <2>3 DEF Stores, SampleInv, Used
<1>6. ASSUME NEW t \in Threads, record_count(t)
      PROVE  SampleInv'
  <2>1. Counts(t)
    BY <1>6, CountOutcome
  <2>2. \A e \in Epochs : \A k \in Used(e)' :
            k \in Used(e) \/ (e = ep[t] /\ k = i[t] /\ samples[e][k] = val[t])
    BY <2>1, UsedCounted
  <2>3. val[t] \in 1..started /\ published[val[t]] = 0
    BY <2>1 DEF Counts, HolderInv, Holds
  <2>4. UNCHANGED <<samples, started, published>>
    BY <2>1 DEF Counts
  <2>5. \A e \in Epochs : \A k \in Used(e)' :
            samples[e][k] \in 1..started /\ published[samples[e][k]] = 0
    BY <2>2, <2>3 DEF SampleInv
  <2> QED
    BY <2>4, <2>5 DEF SampleInv
<1>7. ASSUME NEW t \in Threads, record_unlock(t)
      PROVE  SampleInv'
  <2>1. UNCHANGED <<published, started, samples, n>>
    BY <1>7 DEF record_unlock, slock_unlock
  <2> QED
    BY <2>1 DEF SampleInv, Used
<1>8. ASSUME client_dies
      PROVE  SampleInv'
  <2>1. UNCHANGED <<published, started, samples, n>>
    BY <1>8 DEF client_dies
  <2> QED
    BY <2>1 DEF SampleInv, Used
<1>9. ASSUME optics_epoch_inc
      PROVE  SampleInv'
  <2>1. UNCHANGED <<published, started, samples, n>>
    BY <1>9 DEF optics_epoch_inc
  <2> QED
    BY <2>1 DEF SampleInv, Used
<1>10. ASSUME read_busy
       PROVE  SampleInv'
  <2>1. UNCHANGED <<published, started, samples, n>>
    BY <1>10 DEF read_busy
  <2> QED
    BY <2>1 DEF SampleInv, Used
<1>11. ASSUME read_copy
       PROVE  SampleInv'
  <2>1. UNCHANGED <<published, started, samples, n>>
    BY <1>11 DEF read_copy
  <2> QED
    BY <2>1 DEF SampleInv, Used
<1>12. ASSUME read_reset
       PROVE  SampleInv'
  <2>1. n' = [n EXCEPT ![pep] = 0]
    BY <1>12 DEF read_reset, Cleared
  <2>2. \A e \in Epochs : \A k \in Used(e)' : k \in Used(e) /\ e # pep
    BY <2>1, UsedReset
  <2>3. UNCHANGED <<samples, started, published>>
    BY <1>12 DEF read_reset
  <2> QED
    BY <2>2, <2>3 DEF SampleInv
<1>13. ASSUME read_unlock
       PROVE  SampleInv'
  <2>1. Collects
    BY <1>13, CollectOutcome
  <2>2. UNCHANGED <<samples, started, n>> /\ published \in [Values -> Nat]
        /\ started \in 0..MaxRecords
    BY <2>1 DEF Collects, TypeOK
  <2>3. ASSUME NEW k \in Indices, got[k] # 0
        PROVE  /\ published[got[k]] = 0 /\ got[k] \in 1..started
               /\ \A e \in Epochs : \A m \in Used(e) : samples[e][m] # got[k]
    BY <2>1, <2>3 DEF Collects, GotInv
  <2>4. ASSUME NEW v \in Values
        PROVE  published'[v] <= 1 /\ (v > started => published'[v] = 0)
    <3>1. v # 0 /\ v \in Nat /\ published[v] <= 1 /\ (v > started => published[v] = 0)
      BY DEF Values, SampleInv
    <3>2. CASE \E k \in Indices : got[k] = v
      <4>1. PICK k \in Indices : got[k] = v
        BY <3>2
      <4>2. published[v] = 0 /\ v \in 1..started
        BY <2>3, <3>1, <4>1
      <4>3. published'[v] = published[v] + 1
        BY <2>1, <3>2 DEF Collects
      <4> QED
        BY <2>2, <4>2, <4>3
    <3>3. CASE ~\E k \in Indices : got[k] = v
      BY <2>1, <3>1, <3>3 DEF Collects
    <3> QED
      BY <3>2, <3>3
  <2>5. ASSUME NEW e \in Epochs, NEW m \in Used(e)
        PROVE  samples[e][m] \in 1..started /\ published'[samples[e][m]] = 0
    <3>1. samples[e][m] \in 1..started /\ published[samples[e][m]] = 0
      BY DEF SampleInv
    <3>2. samples[e][m] \in Values /\ samples[e][m] # 0
      BY <2>2, <3>1, RecordsAssumption DEF Values
    <3>3. ~\E k \in Indices : got[k] = samples[e][m]
      BY <2>3, <3>2
    <3> QED
      BY <2>1, <3>1, <3>2, <3>3 DEF Collects
  <2> QED
    BY <2>2, <2>4, <2>5 DEF SampleInv, Used
<1>14. ASSUME UNCHANGED vars
       PROVE  SampleInv'
  <2>1. UNCHANGED <<published, started, samples, n>>
    BY <1>14 DEF vars
  <2> QED
    BY <2>1 DEF SampleInv, Used
<1>15. ASSUME read_free
       PROVE  SampleInv'
  <2>1. UNCHANGED <<published, started, samples, n>>
    BY <1>15 DEF read_free
  <2> QED
    BY <2>1 DEF SampleInv, Used
<1> QED
  BY <1>1, <1>2, <1>3, <1>4, <1>5, <1>6, <1>7, <1>8, <1>9, <1>10,
     <1>11, <1>12, <1>13, <1>14, <1>15
     DEF Next, Record, Locking, Poll

\* ... no value is in use twice,
LEMMA DistinctStep ==
    ASSUME TypeOK, Loaded, Exclusive, LockHeld, ReadFree, IndexInv, DistinctInv, FreshInv, GotInv, [Next]_vars
    PROVE  DistinctInv'
<1> USE DEF slotVars, threadVars, pollVars, readVars
<1>1. ASSUME NEW t \in Threads, record_epoch(t)
      PROVE  DistinctInv'
  <2>1. UNCHANGED <<samples, n>>
    BY <1>1 DEF record_epoch
  <2> QED
    BY <2>1 DEF DistinctInv, Used
<1>2. ASSUME NEW t \in Threads, slock_lock(t)
      PROVE  DistinctInv'
  <2>1. UNCHANGED <<samples, n>>
    BY <1>2 DEF slock_lock
  <2> QED
    BY <2>1 DEF DistinctInv, Used
<1>3. ASSUME NEW t \in Threads, record_load(t)
      PROVE  DistinctInv'
  <2>1. UNCHANGED <<samples, n>>
    BY <1>3 DEF record_load
  <2> QED
    BY <2>1 DEF DistinctInv, Used
<1>4. ASSUME NEW t \in Threads, record_pick(t)
      PROVE  DistinctInv'
  <2>1. UNCHANGED <<samples, n>>
    BY <1>4 DEF record_pick
  <2> QED
    BY <2>1 DEF DistinctInv, Used
<1>5. ASSUME NEW t \in Threads, record_store(t)
      PROVE  DistinctInv'
  <2>1. Stores(t)
    BY <1>5, StoreOutcome
  <2>2. \A e \in Epochs : \A k \in Used(e) : samples[e][k] # val[t]
    BY <2>1 DEF Stores, FreshInv, Holds
  <2>3. ASSUME NEW e \in Epochs, NEW f \in Epochs, NEW k \in Used(e), NEW m \in Used(f),
               samples'[e][k] = samples'[f][m]
        PROVE  e = f /\ k = m
    <3>1. /\ samples'[e][k] = IF e = ep[t] /\ k = i[t] THEN val[t] ELSE samples[e][k]
          /\ samples'[f][m] = IF f = ep[t] /\ m = i[t] THEN val[t] ELSE samples[f][m]
      BY <2>1 DEF Stores, Used
    <3>2. CASE ~(e = ep[t] /\ k = i[t]) /\ ~(f = ep[t] /\ m = i[t])
      <4>1. samples[e][k] = samples[f][m]
        BY <2>3, <3>1, <3>2
      <4> QED
        BY <4>1 DEF DistinctInv
    <3>3. CASE (e = ep[t] /\ k = i[t]) /\ (f = ep[t] /\ m = i[t])
      BY <3>3
    <3>4. CASE (e = ep[t] /\ k = i[t]) /\ ~(f = ep[t] /\ m = i[t])
      BY <2>2, <2>3, <3>1, <3>4
    <3>5. CASE ~(e = ep[t] /\ k = i[t]) /\ (f = ep[t] /\ m = i[t])
      BY <2>2, <2>3, <3>1, <3>5
    <3> QED
      BY <3>2, <3>3, <3>4, <3>5
  <2> QED
    BY <2>1, <2>3 DEF Stores, DistinctInv, Used
<1>6. ASSUME NEW t \in Threads, record_count(t)
      PROVE  DistinctInv'
  <2>1. Counts(t)
    BY <1>6, CountOutcome
  <2>2. \A e \in Epochs : \A k \in Used(e)' :
            k \in Used(e) \/ (e = ep[t] /\ k = i[t] /\ samples[e][k] = val[t])
    BY <2>1, UsedCounted
  <2>3. \A e \in Epochs : \A k \in Used(e) : samples[e][k] = val[t] => e = ep[t] /\ k = i[t]
    BY <2>1 DEF Counts, FreshInv, Holds
  <2>4. ASSUME NEW e \in Epochs, NEW f \in Epochs, NEW k \in Used(e)', NEW m \in Used(f)',
               samples[e][k] = samples[f][m]
        PROVE  e = f /\ k = m
    BY <2>2, <2>3, <2>4 DEF DistinctInv
  <2>5. samples' = samples
    BY <2>1 DEF Counts
  <2> QED
    BY <2>4, <2>5 DEF DistinctInv
<1>7. ASSUME NEW t \in Threads, record_unlock(t)
      PROVE  DistinctInv'
  <2>1. UNCHANGED <<samples, n>>
    BY <1>7 DEF record_unlock, slock_unlock
  <2> QED
    BY <2>1 DEF DistinctInv, Used
<1>8. ASSUME client_dies
      PROVE  DistinctInv'
  <2>1. UNCHANGED <<samples, n>>
    BY <1>8 DEF client_dies
  <2> QED
    BY <2>1 DEF DistinctInv, Used
<1>9. ASSUME optics_epoch_inc
      PROVE  DistinctInv'
  <2>1. UNCHANGED <<samples, n>>
    BY <1>9 DEF optics_epoch_inc
  <2> QED
    BY <2>1 DEF DistinctInv, Used
<1>10. ASSUME read_busy
       PROVE  DistinctInv'
  <2>1. UNCHANGED <<samples, n>>
    BY <1>10 DEF read_busy
  <2> QED
    BY <2>1 DEF DistinctInv, Used
<1>11. ASSUME read_copy
       PROVE  DistinctInv'
  <2>1. UNCHANGED <<samples, n>>
    BY <1>11 DEF read_copy
  <2> QED
    BY <2>1 DEF DistinctInv, Used
<1>12. ASSUME read_reset
       PROVE  DistinctInv'
  <2>1. n' = [n EXCEPT ![pep] = 0]
    BY <1>12 DEF read_reset, Cleared
  <2>2. \A e \in Epochs : \A k \in Used(e)' : k \in Used(e) /\ e # pep
    BY <2>1, UsedReset
  <2>3. samples' = samples
    BY <1>12 DEF read_reset
  <2> QED
    BY <2>2, <2>3 DEF DistinctInv
<1>13. ASSUME read_unlock
       PROVE  DistinctInv'
  <2>1. Collects
    BY <1>13, CollectOutcome
  <2>2. UNCHANGED <<samples, n>>
    BY <2>1 DEF Collects
  <2> QED
    BY <2>2 DEF DistinctInv, Used
<1>14. ASSUME UNCHANGED vars
       PROVE  DistinctInv'
  <2>1. UNCHANGED <<samples, n>>
    BY <1>14 DEF vars
  <2> QED
    BY <2>1 DEF DistinctInv, Used
<1>15. ASSUME read_free
       PROVE  DistinctInv'
  <2>1. UNCHANGED <<samples, n>>
    BY <1>15 DEF read_free
  <2> QED
    BY <2>1 DEF DistinctInv, Used
<1> QED
  BY <1>1, <1>2, <1>3, <1>4, <1>5, <1>6, <1>7, <1>8, <1>9, <1>10,
     <1>11, <1>12, <1>13, <1>14, <1>15
     DEF Next, Record, Locking, Poll

\* ... a value on its way belongs to one thread,
LEMMA HolderStep ==
    ASSUME TypeOK, Loaded, Exclusive, LockHeld, ReadFree, IndexInv, SampleInv, HolderInv, GotInv, [Next]_vars
    PROVE  HolderInv'
<1> USE DEF slotVars, threadVars, pollVars, readVars
<1>1. ASSUME NEW t \in Threads, record_epoch(t)
      PROVE  HolderInv'
  <2>1. /\ pc[t] = "idle" /\ started' = started + 1 /\ started < MaxRecords
        /\ val' = [val EXCEPT ![t] = started + 1] /\ pc' = [pc EXCEPT ![t] = "lock"]
        /\ UNCHANGED published /\ started \in Nat
        /\ DOMAIN pc = Threads /\ DOMAIN val = Threads
    BY <1>1 DEF record_epoch, TypeOK
  <2>2. started + 1 \in Values /\ published[started + 1] = 0
    <3>1. started + 1 \in Values
      BY <2>1, RecordsAssumption DEF Values
    <3> QED
      BY <2>1, <3>1 DEF SampleInv
  <2>3. \A u \in Threads : u # t /\ Holds(u)' => Holds(u) /\ val'[u] = val[u]
    BY <2>1 DEF Holds
  <2>4. \A u \in Threads : Holds(u) => val[u] \in 1..started /\ published[val[u]] = 0
    BY DEF HolderInv
  <2>5. \A u \in Threads : Holds(u) => val[u] # started + 1
    BY <2>1, <2>4
  <2>6. val'[t] = started + 1 /\ started + 1 \in 1..started'
    BY <2>1
  <2>7. \A u \in Threads : Holds(u) => val[u] \in 1..started'
    BY <2>1, <2>4
  <2> SUFFICES ASSUME NEW x \in Threads, Holds(x)'
               PROVE  /\ val'[x] \in 1..started' /\ published[val'[x]] = 0
                      /\ \A u \in Threads : Holds(u)' /\ u # x => val'[u] # val'[x]
    BY <2>1 DEF HolderInv
  <2>8. CASE x = t
    BY <2>2, <2>3, <2>5, <2>6, <2>8
  <2>9. CASE x # t
    <3>1. Holds(x) /\ val'[x] = val[x]
      BY <2>3, <2>9
    <3>2. ASSUME NEW u \in Threads, Holds(u)', u # x
          PROVE  val'[u] # val'[x]
      <4>1. CASE u = t
        BY <2>5, <2>6, <3>1, <4>1
      <4>2. CASE u # t
        BY <2>3, <3>1, <3>2, <4>2 DEF HolderInv
      <4> QED
        BY <4>1, <4>2
    <3> QED
      BY <2>4, <2>7, <3>1, <3>2
  <2> QED
    BY <2>8, <2>9
<1>2. ASSUME NEW t \in Threads, slock_lock(t)
      PROVE  HolderInv'
  <2>1. UNCHANGED <<val, started, published>> /\ \A u \in Threads : Holds(u)' => Holds(u)
    BY <1>2 DEF slock_lock, Holds, TypeOK
  <2> QED
    BY <2>1 DEF HolderInv
<1>3. ASSUME NEW t \in Threads, record_load(t)
      PROVE  HolderInv'
  <2>1. UNCHANGED <<val, started, published>> /\ \A u \in Threads : Holds(u)' => Holds(u)
    BY <1>3 DEF record_load, Holds, TypeOK
  <2> QED
    BY <2>1 DEF HolderInv
<1>4. ASSUME NEW t \in Threads, record_pick(t)
      PROVE  HolderInv'
  <2>1. UNCHANGED <<val, started, published>> /\ \A u \in Threads : Holds(u)' => Holds(u)
    BY <1>4 DEF record_pick, Holds, TypeOK
  <2> QED
    BY <2>1 DEF HolderInv
<1>5. ASSUME NEW t \in Threads, record_store(t)
      PROVE  HolderInv'
  <2>1. Stores(t)
    BY <1>5, StoreOutcome
  <2>2. UNCHANGED <<val, started, published>> /\ \A u \in Threads : Holds(u)' => Holds(u)
    BY <2>1 DEF Stores, Holds, TypeOK
  <2> QED
    BY <2>2 DEF HolderInv
<1>6. ASSUME NEW t \in Threads, record_count(t)
      PROVE  HolderInv'
  <2>1. Counts(t)
    BY <1>6, CountOutcome
  <2>2. UNCHANGED <<val, started, published>> /\ \A u \in Threads : Holds(u)' => Holds(u)
    BY <2>1 DEF Counts, Holds, TypeOK
  <2> QED
    BY <2>2 DEF HolderInv
<1>7. ASSUME NEW t \in Threads, record_unlock(t)
      PROVE  HolderInv'
  <2>1. /\ pc' = [pc EXCEPT ![t] = "idle"] /\ val' = [val EXCEPT ![t] = 0]
        /\ UNCHANGED <<started, published>> /\ DOMAIN pc = Threads /\ DOMAIN val = Threads
    BY <1>7 DEF record_unlock, TypeOK
  <2>2. \A u \in Threads : Holds(u)' => Holds(u) /\ val'[u] = val[u]
    BY <2>1 DEF Holds
  <2> QED
    BY <2>1, <2>2 DEF HolderInv
<1>8. ASSUME client_dies
      PROVE  HolderInv'
  <2>1. \A u \in Threads : ~Holds(u)'
    BY <1>8 DEF client_dies, Holds
  <2> QED
    BY <2>1 DEF HolderInv
<1>9. ASSUME optics_epoch_inc
      PROVE  HolderInv'
  <2>1. UNCHANGED <<val, started, published>> /\ \A u \in Threads : Holds(u)' => Holds(u)
    BY <1>9 DEF optics_epoch_inc, Holds, TypeOK
  <2> QED
    BY <2>1 DEF HolderInv
<1>10. ASSUME read_busy
       PROVE  HolderInv'
  <2>1. UNCHANGED <<val, started, published>> /\ \A u \in Threads : Holds(u)' => Holds(u)
    BY <1>10 DEF read_busy, Holds, TypeOK
  <2> QED
    BY <2>1 DEF HolderInv
<1>11. ASSUME read_copy
       PROVE  HolderInv'
  <2>1. UNCHANGED <<val, started, published>> /\ \A u \in Threads : Holds(u)' => Holds(u)
    BY <1>11 DEF read_copy, Holds, TypeOK
  <2> QED
    BY <2>1 DEF HolderInv
<1>12. ASSUME read_reset
       PROVE  HolderInv'
  <2>1. UNCHANGED <<val, started, published>> /\ \A u \in Threads : Holds(u)' => Holds(u)
    BY <1>12 DEF read_reset, Cleared, Holds, TypeOK
  <2> QED
    BY <2>1 DEF HolderInv
<1>13. ASSUME read_unlock
       PROVE  HolderInv'
  <2>1. Collects
    BY <1>13, CollectOutcome
  <2>2. UNCHANGED <<val, started, pc>> /\ started \in 0..MaxRecords
    BY <2>1 DEF Collects, TypeOK
  <2>3. ASSUME NEW u \in Threads, Holds(u)
        PROVE  published'[val[u]] = 0
    <3>1. val[u] \in 1..started /\ published[val[u]] = 0
      BY <2>3 DEF HolderInv
    <3>2. val[u] \in Values /\ val[u] # 0
      BY <2>2, <3>1, RecordsAssumption DEF Values
    <3>3. ~\E k \in Indices : got[k] = val[u]
      BY <2>1, <2>3, <3>2 DEF Collects, GotInv
    <3> QED
      BY <2>1, <3>1, <3>2, <3>3 DEF Collects
  <2> QED
    BY <2>2, <2>3 DEF HolderInv, Holds
<1>14. ASSUME UNCHANGED vars
       PROVE  HolderInv'
  <2>1. UNCHANGED <<val, started, published>> /\ \A u \in Threads : Holds(u)' => Holds(u)
    BY <1>14 DEF vars, Holds, TypeOK
  <2> QED
    BY <2>1 DEF HolderInv
<1>15. ASSUME read_free
       PROVE  HolderInv'
  <2>1. UNCHANGED <<val, started, published>> /\ \A u \in Threads : Holds(u)' => Holds(u)
    BY <1>15 DEF read_free, Holds, TypeOK
  <2> QED
    BY <2>1 DEF HolderInv
<1> QED
  BY <1>1, <1>2, <1>3, <1>4, <1>5, <1>6, <1>7, <1>8, <1>9, <1>10,
     <1>11, <1>12, <1>13, <1>14, <1>15
     DEF Next, Record, Locking, Poll

\* ... and is in no reservoir before it is stored,
LEMMA FreshStep ==
    ASSUME TypeOK, Loaded, Exclusive, LockHeld, ReadFree, IndexInv, SampleInv, HolderInv, FreshInv, GotInv, [Next]_vars
    PROVE  FreshInv'
<1> USE DEF slotVars, threadVars, pollVars, readVars
<1>1. ASSUME NEW t \in Threads, record_epoch(t)
      PROVE  FreshInv'
  <2>1. /\ pc[t] = "idle" /\ val' = [val EXCEPT ![t] = started + 1]
        /\ pc' = [pc EXCEPT ![t] = "lock"] /\ ep' = [ep EXCEPT ![t] = epoch]
        /\ UNCHANGED <<i, samples, n>> /\ started \in Nat
        /\ DOMAIN pc = Threads /\ DOMAIN val = Threads /\ DOMAIN ep = Threads
    BY <1>1 DEF record_epoch, TypeOK
  <2>2. \A e \in Epochs : \A k \in Used(e) : samples[e][k] # started + 1
    BY <2>1 DEF SampleInv
  <2>3. \A u \in Threads : u # t =>
            pc'[u] = pc[u] /\ val'[u] = val[u] /\ ep'[u] = ep[u] /\ (Holds(u)' => Holds(u))
    BY <2>1 DEF Holds
  <2>4. val'[t] = started + 1
    BY <2>1
  <2>5. ASSUME NEW u \in Threads, Holds(u)', NEW e \in Epochs, NEW k \in Used(e),
               samples[e][k] = val'[u]
        PROVE  pc'[u] = "count" /\ e = ep'[u] /\ k = i[u]
    <3>1. u # t
      BY <2>2, <2>4, <2>5
    <3>2. Holds(u) /\ val'[u] = val[u]
      BY <2>3, <2>5, <3>1
    <3>3. pc[u] = "count" /\ e = ep[u] /\ k = i[u]
      BY <2>5, <3>2 DEF FreshInv
    <3> QED
      BY <2>3, <3>1, <3>3
  <2> QED
    BY <2>1, <2>5 DEF FreshInv, Used
<1>2. ASSUME NEW t \in Threads, slock_lock(t)
      PROVE  FreshInv'
  <2>1. /\ \A u \in Threads : Holds(u)' => Holds(u) /\ val'[u] = val[u]
        /\ \A u \in Threads : pc[u] = "count" => pc'[u] = "count" /\ ep'[u] = ep[u] /\ i'[u] = i[u]
    BY <1>2 DEF slock_lock, Holds, TypeOK
  <2>2. UNCHANGED <<samples, n>>
    BY <1>2 DEF slock_lock
  <2> QED
    BY <2>1, <2>2 DEF FreshInv, Used
<1>3. ASSUME NEW t \in Threads, record_load(t)
      PROVE  FreshInv'
  <2>1. /\ \A u \in Threads : Holds(u)' => Holds(u) /\ val'[u] = val[u]
        /\ \A u \in Threads : pc[u] = "count" => pc'[u] = "count" /\ ep'[u] = ep[u] /\ i'[u] = i[u]
    BY <1>3 DEF record_load, Holds, TypeOK
  <2>2. UNCHANGED <<samples, n>>
    BY <1>3 DEF record_load
  <2> QED
    BY <2>1, <2>2 DEF FreshInv, Used
<1>4. ASSUME NEW t \in Threads, record_pick(t)
      PROVE  FreshInv'
  <2>1. /\ \A u \in Threads : Holds(u)' => Holds(u) /\ val'[u] = val[u]
        /\ \A u \in Threads : pc[u] = "count" => pc'[u] = "count" /\ ep'[u] = ep[u] /\ i'[u] = i[u]
    BY <1>4 DEF record_pick, Holds, TypeOK
  <2>2. UNCHANGED <<samples, n>>
    BY <1>4 DEF record_pick
  <2> QED
    BY <2>1, <2>2 DEF FreshInv, Used
<1>5. ASSUME NEW t \in Threads, record_store(t)
      PROVE  FreshInv'
  <2>1. Stores(t)
    BY <1>5, StoreOutcome
  <2>2. /\ UNCHANGED <<val, ep, i, n>> /\ pc[t] = "store" /\ pc'[t] = "count"
        /\ \A u \in Threads : u # t => pc'[u] = pc[u] /\ (Holds(u)' => Holds(u))
    BY <2>1 DEF Stores, Holds, TypeOK
  <2>3. Holds(t)
    BY <2>2 DEF Holds
  <2>4. ASSUME NEW u \in Threads, Holds(u)', NEW e \in Epochs, NEW k \in Used(e),
               samples'[e][k] = val[u]
        PROVE  pc'[u] = "count" /\ e = ep[u] /\ k = i[u]
    <3>1. samples'[e][k] = IF e = ep[t] /\ k = i[t] THEN val[t] ELSE samples[e][k]
      BY <2>1 DEF Stores, Used
    <3>2. CASE u = t
      <4>1. CASE e = ep[t] /\ k = i[t]
        BY <2>2, <3>2, <4>1
      <4>2. CASE ~(e = ep[t] /\ k = i[t])
        BY <2>2, <2>3, <2>4, <3>1, <3>2, <4>2 DEF FreshInv
      <4> QED
        BY <4>1, <4>2
    <3>3. CASE u # t
      <4>1. Holds(u) /\ val[u] # val[t]
        BY <2>2, <2>3, <2>4, <3>3 DEF HolderInv
      <4>2. samples[e][k] = val[u]
        BY <2>4, <3>1, <4>1
      <4> QED
        BY <2>2, <3>3, <4>1, <4>2 DEF FreshInv
    <3> QED
      BY <3>2, <3>3
  <2> QED
    BY <2>2, <2>4 DEF FreshInv, Used
<1>6. ASSUME NEW t \in Threads, record_count(t)
      PROVE  FreshInv'
  <2>1. Counts(t)
    BY <1>6, CountOutcome
  <2>2. \A e \in Epochs : \A k \in Used(e)' :
            k \in Used(e) \/ (e = ep[t] /\ k = i[t] /\ samples[e][k] = val[t])
    BY <2>1, UsedCounted
  <2>3. /\ UNCHANGED <<val, ep, i, samples>> /\ Holds(t) /\ ~Holds(t)'
        /\ \A u \in Threads : u # t => pc'[u] = pc[u] /\ (Holds(u)' => Holds(u))
    BY <2>1 DEF Counts, Holds, TypeOK
  <2>4. ASSUME NEW u \in Threads, Holds(u)', NEW e \in Epochs, NEW k \in Used(e)',
               samples[e][k] = val[u]
        PROVE  pc'[u] = "count" /\ e = ep[u] /\ k = i[u]
    <3>1. u # t /\ Holds(u) /\ val[u] # val[t] /\ pc'[u] = pc[u]
      BY <2>3, <2>4 DEF HolderInv
    <3>2. k \in Used(e)
      BY <2>2, <2>4, <3>1
    <3> QED
      BY <2>4, <3>1, <3>2 DEF FreshInv
  <2> QED
    BY <2>3, <2>4 DEF FreshInv
<1>7. ASSUME NEW t \in Threads, record_unlock(t)
      PROVE  FreshInv'
  <2>1. /\ \A u \in Threads : Holds(u)' => Holds(u) /\ val'[u] = val[u]
        /\ \A u \in Threads : pc[u] = "count" => pc'[u] = "count" /\ ep'[u] = ep[u] /\ i'[u] = i[u]
    BY <1>7 DEF record_unlock, slock_unlock, Holds, TypeOK
  <2>2. UNCHANGED <<samples, n>>
    BY <1>7 DEF record_unlock, slock_unlock
  <2> QED
    BY <2>1, <2>2 DEF FreshInv, Used
<1>8. ASSUME client_dies
      PROVE  FreshInv'
  <2>1. \A u \in Threads : ~Holds(u)'
    BY <1>8 DEF client_dies, Holds
  <2> QED
    BY <2>1 DEF FreshInv
<1>9. ASSUME optics_epoch_inc
      PROVE  FreshInv'
  <2>1. /\ \A u \in Threads : Holds(u)' => Holds(u) /\ val'[u] = val[u]
        /\ \A u \in Threads : pc[u] = "count" => pc'[u] = "count" /\ ep'[u] = ep[u] /\ i'[u] = i[u]
    BY <1>9 DEF optics_epoch_inc, Holds, TypeOK
  <2>2. UNCHANGED <<samples, n>>
    BY <1>9 DEF optics_epoch_inc
  <2> QED
    BY <2>1, <2>2 DEF FreshInv, Used
<1>10. ASSUME read_busy
       PROVE  FreshInv'
  <2>1. /\ \A u \in Threads : Holds(u)' => Holds(u) /\ val'[u] = val[u]
        /\ \A u \in Threads : pc[u] = "count" => pc'[u] = "count" /\ ep'[u] = ep[u] /\ i'[u] = i[u]
    BY <1>10 DEF read_busy, Holds, TypeOK
  <2>2. UNCHANGED <<samples, n>>
    BY <1>10 DEF read_busy
  <2> QED
    BY <2>1, <2>2 DEF FreshInv, Used
<1>11. ASSUME read_copy
       PROVE  FreshInv'
  <2>1. /\ \A u \in Threads : Holds(u)' => Holds(u) /\ val'[u] = val[u]
        /\ \A u \in Threads : pc[u] = "count" => pc'[u] = "count" /\ ep'[u] = ep[u] /\ i'[u] = i[u]
    BY <1>11 DEF read_copy, Holds, TypeOK
  <2>2. UNCHANGED <<samples, n>>
    BY <1>11 DEF read_copy
  <2> QED
    BY <2>1, <2>2 DEF FreshInv, Used
<1>12. ASSUME read_reset
       PROVE  FreshInv'
  <2>1. n' = [n EXCEPT ![pep] = 0]
    BY <1>12 DEF read_reset, Cleared
  <2>2. \A e \in Epochs : \A k \in Used(e)' : k \in Used(e) /\ e # pep
    BY <2>1, UsedReset
  <2>3. UNCHANGED <<samples, pc, val, ep, i>>
    BY <1>12 DEF read_reset
  <2>4. ASSUME NEW u \in Threads, Holds(u), NEW e \in Epochs, NEW k \in Used(e)',
               samples[e][k] = val[u]
        PROVE  pc[u] = "count" /\ e = ep[u] /\ k = i[u]
    BY <2>2, <2>4 DEF FreshInv
  <2> QED
    BY <2>3, <2>4 DEF FreshInv, Holds
<1>13. ASSUME read_unlock
       PROVE  FreshInv'
  <2>1. Collects
    BY <1>13, CollectOutcome
  <2>2. UNCHANGED <<samples, n, pc, val, ep, i>>
    BY <2>1 DEF Collects
  <2> QED
    BY <2>2 DEF FreshInv, Used, Holds
<1>14. ASSUME UNCHANGED vars
       PROVE  FreshInv'
  <2>1. /\ \A u \in Threads : Holds(u)' => Holds(u) /\ val'[u] = val[u]
        /\ \A u \in Threads : pc[u] = "count" => pc'[u] = "count" /\ ep'[u] = ep[u] /\ i'[u] = i[u]
    BY <1>14 DEF vars, Holds, TypeOK
  <2>2. UNCHANGED <<samples, n>>
    BY <1>14 DEF vars
  <2> QED
    BY <2>1, <2>2 DEF FreshInv, Used
<1>15. ASSUME read_free
       PROVE  FreshInv'
  <2>1. /\ \A u \in Threads : Holds(u)' => Holds(u) /\ val'[u] = val[u]
        /\ \A u \in Threads : pc[u] = "count" => pc'[u] = "count" /\ ep'[u] = ep[u] /\ i'[u] = i[u]
    BY <1>15 DEF read_free, Holds, TypeOK
  <2>2. UNCHANGED <<samples, n>>
    BY <1>15 DEF read_free
  <2> QED
    BY <2>1, <2>2 DEF FreshInv, Used
<1> QED
  BY <1>1, <1>2, <1>3, <1>4, <1>5, <1>6, <1>7, <1>8, <1>9, <1>10,
     <1>11, <1>12, <1>13, <1>14, <1>15
     DEF Next, Record, Locking, Poll

\* ... the index of a record,
LEMMA IndexStep ==
    ASSUME TypeOK, Loaded, Exclusive, LockHeld, ReadFree, IndexInv, GotInv, [Next]_vars
    PROVE  IndexInv'
<1> USE DEF slotVars, threadVars, pollVars, readVars
<1>1. ASSUME NEW t \in Threads, record_epoch(t)
      PROVE  IndexInv'
  <2>1. \A u \in Threads : pc'[u] \in {"store", "count"} =>
            pc[u] = pc'[u] /\ ep'[u] = ep[u] /\ i'[u] = i[u] /\ val'[u] = val[u]
    BY <1>1 DEF record_epoch, TypeOK
  <2>2. UNCHANGED <<samples, n>>
    BY <1>1 DEF record_epoch
  <2> QED
    BY <2>1, <2>2 DEF IndexInv
<1>2. ASSUME NEW t \in Threads, slock_lock(t)
      PROVE  IndexInv'
  <2>1. \A u \in Threads : pc'[u] \in {"store", "count"} =>
            pc[u] = pc'[u] /\ ep'[u] = ep[u] /\ i'[u] = i[u] /\ val'[u] = val[u]
    BY <1>2 DEF slock_lock, TypeOK
  <2>2. UNCHANGED <<samples, n>>
    BY <1>2 DEF slock_lock
  <2> QED
    BY <2>1, <2>2 DEF IndexInv
<1>3. ASSUME NEW t \in Threads, record_load(t)
      PROVE  IndexInv'
  <2>1. /\ i' = [i EXCEPT ![t] = n[ep[t]]]
        /\ pc' = [pc EXCEPT ![t] = IF Full(t) THEN "pick" ELSE "store"]
        /\ UNCHANGED <<samples, n, ep, val>>
        /\ DOMAIN pc = Threads /\ DOMAIN i = Threads
    BY <1>3 DEF record_load, TypeOK
  <2>2. \A u \in Threads : u # t => pc'[u] = pc[u] /\ i'[u] = i[u]
    BY <2>1
  <2>3. i'[t] = n[ep[t]] /\ pc'[t] # "count"
    BY <2>1
  <2> QED
    BY <2>1, <2>2, <2>3 DEF IndexInv
<1>4. ASSUME NEW t \in Threads, record_pick(t)
      PROVE  IndexInv'
  <2>1. /\ pc[t] = "pick" /\ UNCHANGED <<samples, n, ep, val>> /\ pc'[t] # "count"
        /\ \A u \in Threads : u # t => pc'[u] = pc[u] /\ i'[u] = i[u]
    BY <1>4 DEF record_pick, TypeOK
  <2>2. n[ep[t]] >= Samples /\ n[ep[t]] \in Nat
    BY <2>1 DEF Loaded, TypeOK
  <2>3. ~(n[ep[t]] < Samples)
    BY <2>2, SamplesAssumption
  <2> QED
    BY <2>1, <2>3 DEF IndexInv
<1>5. ASSUME NEW t \in Threads, record_store(t)
      PROVE  IndexInv'
  <2>1. Stores(t)
    BY <1>5, StoreOutcome
  <2>2. /\ UNCHANGED <<val, ep, i, n>> /\ pc[t] = "store"
        /\ \A u \in Threads : u # t => pc'[u] = pc[u]
    BY <2>1 DEF Stores, TypeOK
  <2>3. \A u \in Threads : ep[u] \in Epochs /\ (i[u] < Samples => i[u] \in Indices)
    BY SamplesAssumption DEF TypeOK, Indices
  <2>4. \A u \in Threads : u # t /\ pc[u] = "count" => ep[u] # ep[t]
    BY <2>2 DEF Exclusive, Locked
  <2>5. \A u \in Threads : pc'[u] = "count" /\ i[u] < Samples => samples'[ep[u]][i[u]] = val[u]
    BY <2>1, <2>2, <2>3, <2>4 DEF Stores, IndexInv
  <2>6. \A u \in Threads : pc'[u] \in {"store", "count"} => (n[ep[u]] < Samples => i[u] = n[ep[u]])
    BY <2>2 DEF IndexInv
  <2> QED
    BY <2>2, <2>5, <2>6 DEF IndexInv
<1>6. ASSUME NEW t \in Threads, record_count(t)
      PROVE  IndexInv'
  <2>1. Counts(t)
    BY <1>6, CountOutcome
  <2>2. /\ UNCHANGED <<val, ep, i, samples>> /\ pc[t] = "count" /\ pc'[t] = "unlock"
        /\ \A u \in Threads : u # t => pc'[u] = pc[u]
    BY <2>1 DEF Counts, TypeOK
  <2>3. \A u \in Threads : u # t /\ pc[u] \in {"store", "count"} => n'[ep[u]] = n[ep[u]]
    <3>1. \A u \in Threads : u # t /\ pc[u] \in {"store", "count"} => ep[u] # ep[t]
      BY <2>2 DEF Exclusive, Locked
    <3> QED
      BY <2>1, <3>1 DEF Counts, TypeOK
  <2> QED
    BY <2>2, <2>3 DEF IndexInv
<1>7. ASSUME NEW t \in Threads, record_unlock(t)
      PROVE  IndexInv'
  <2>1. \A u \in Threads : pc'[u] \in {"store", "count"} =>
            pc[u] = pc'[u] /\ ep'[u] = ep[u] /\ i'[u] = i[u] /\ val'[u] = val[u]
    BY <1>7 DEF record_unlock, slock_unlock, TypeOK
  <2>2. UNCHANGED <<samples, n>>
    BY <1>7 DEF record_unlock, slock_unlock
  <2> QED
    BY <2>1, <2>2 DEF IndexInv
<1>8. ASSUME client_dies
      PROVE  IndexInv'
  <2>1. \A u \in Threads : pc'[u] \in {"store", "count"} =>
            pc[u] = pc'[u] /\ ep'[u] = ep[u] /\ i'[u] = i[u] /\ val'[u] = val[u]
    BY <1>8 DEF client_dies, TypeOK
  <2>2. UNCHANGED <<samples, n>>
    BY <1>8 DEF client_dies
  <2> QED
    BY <2>1, <2>2 DEF IndexInv
<1>9. ASSUME optics_epoch_inc
      PROVE  IndexInv'
  <2>1. \A u \in Threads : pc'[u] \in {"store", "count"} =>
            pc[u] = pc'[u] /\ ep'[u] = ep[u] /\ i'[u] = i[u] /\ val'[u] = val[u]
    BY <1>9 DEF optics_epoch_inc, TypeOK
  <2>2. UNCHANGED <<samples, n>>
    BY <1>9 DEF optics_epoch_inc
  <2> QED
    BY <2>1, <2>2 DEF IndexInv
<1>10. ASSUME read_busy
       PROVE  IndexInv'
  <2>1. \A u \in Threads : pc'[u] \in {"store", "count"} =>
            pc[u] = pc'[u] /\ ep'[u] = ep[u] /\ i'[u] = i[u] /\ val'[u] = val[u]
    BY <1>10 DEF read_busy, TypeOK
  <2>2. UNCHANGED <<samples, n>>
    BY <1>10 DEF read_busy
  <2> QED
    BY <2>1, <2>2 DEF IndexInv
<1>11. ASSUME read_copy
       PROVE  IndexInv'
  <2>1. \A u \in Threads : pc'[u] \in {"store", "count"} =>
            pc[u] = pc'[u] /\ ep'[u] = ep[u] /\ i'[u] = i[u] /\ val'[u] = val[u]
    BY <1>11 DEF read_copy, TypeOK
  <2>2. UNCHANGED <<samples, n>>
    BY <1>11 DEF read_copy
  <2> QED
    BY <2>1, <2>2 DEF IndexInv
<1>12. ASSUME read_reset
       PROVE  IndexInv'
  <2>1. n' = [n EXCEPT ![pep] = 0]
    BY <1>12 DEF read_reset, Cleared
  <2>2. \A e \in Epochs : \A k \in Used(e)' : k \in Used(e) /\ e # pep
    BY <2>1, UsedReset
  <2>3. ppc = "reset" /\ UNCHANGED <<samples, pc, val, ep, i>>
    BY <1>12 DEF read_reset
  <2>4. \A u \in Threads : pc[u] \in {"store", "count"} => n'[ep[u]] = n[ep[u]]
    <3>1. \A u \in Threads : pc[u] \in {"store", "count"} => pep # ep[u]
      BY <2>3 DEF Exclusive, Locked, Reading
    <3> QED
      BY <2>1, <3>1 DEF TypeOK
  <2> QED
    BY <2>3, <2>4 DEF IndexInv
<1>13. ASSUME read_unlock
       PROVE  IndexInv'
  <2>1. Collects
    BY <1>13, CollectOutcome
  <2>2. UNCHANGED <<samples, n, pc, val, ep, i>>
    BY <2>1 DEF Collects
  <2> QED
    BY <2>2 DEF IndexInv
<1>14. ASSUME UNCHANGED vars
       PROVE  IndexInv'
  <2>1. \A u \in Threads : pc'[u] \in {"store", "count"} =>
            pc[u] = pc'[u] /\ ep'[u] = ep[u] /\ i'[u] = i[u] /\ val'[u] = val[u]
    BY <1>14 DEF vars, TypeOK
  <2>2. UNCHANGED <<samples, n>>
    BY <1>14 DEF vars
  <2> QED
    BY <2>1, <2>2 DEF IndexInv
<1>15. ASSUME read_free
       PROVE  IndexInv'
  <2>1. \A u \in Threads : pc'[u] \in {"store", "count"} =>
            pc[u] = pc'[u] /\ ep'[u] = ep[u] /\ i'[u] = i[u] /\ val'[u] = val[u]
    BY <1>15 DEF read_free, TypeOK
  <2>2. UNCHANGED <<samples, n>>
    BY <1>15 DEF read_free
  <2> QED
    BY <2>1, <2>2 DEF IndexInv
<1> QED
  BY <1>1, <1>2, <1>3, <1>4, <1>5, <1>6, <1>7, <1>8, <1>9, <1>10,
     <1>11, <1>12, <1>13, <1>14, <1>15
     DEF Next, Record, Locking, Poll

\* ... the maximum of a slot,
LEMMA MaxStep ==
    ASSUME TypeOK, Loaded, Exclusive, LockHeld, ReadFree, IndexInv, MaxInv, GotInv, [Next]_vars
    PROVE  MaxInv'
<1> USE DEF slotVars, threadVars, pollVars, readVars
<1>1. ASSUME NEW t \in Threads, record_epoch(t)
      PROVE  MaxInv'
  <2>1. /\ UNCHANGED <<samples, n, max, lock>>
        /\ \A u \in Threads :
              /\ pc'[u] \in {"load", "pick", "store", "unlock"} =>
                    pc[u] \in {"load", "pick", "store", "unlock"} /\ ep'[u] = ep[u]
              /\ pc'[u] = "count" => pc[u] = "count" /\ ep'[u] = ep[u] /\ i'[u] = i[u]
    BY <1>1 DEF record_epoch, TypeOK
  <2> QED
    BY <2>1 DEF MaxInv, Covered, Used
<1>2. ASSUME NEW t \in Threads, slock_lock(t)
      PROVE  MaxInv'
  <2>1. /\ pc' = [pc EXCEPT ![t] = "load"] /\ lock[ep[t]] = 0
        /\ lock' = [lock EXCEPT ![ep[t]] = 1]
        /\ UNCHANGED <<samples, n, max, ep, i>>
    BY <1>2 DEF slock_lock
  <2>2. /\ \A u \in Threads : u # t => pc'[u] = pc[u]
        /\ \A e \in Epochs : lock'[e] = 0 => lock[e] = 0
        /\ pc'[t] = "load" /\ ep[t] \in Epochs
    BY <2>1 DEF TypeOK
  <2>3. Covered(ep[t])
    BY <2>1, <2>2 DEF MaxInv
  <2> QED
    BY <2>1, <2>2, <2>3 DEF MaxInv, Covered, Used
<1>3. ASSUME NEW t \in Threads, record_load(t)
      PROVE  MaxInv'
  <2>1. /\ UNCHANGED <<samples, n, max, lock>>
        /\ \A u \in Threads :
              /\ pc'[u] \in {"load", "pick", "store", "unlock"} =>
                    pc[u] \in {"load", "pick", "store", "unlock"} /\ ep'[u] = ep[u]
              /\ pc'[u] = "count" => pc[u] = "count" /\ ep'[u] = ep[u] /\ i'[u] = i[u]
    BY <1>3 DEF record_load, TypeOK
  <2> QED
    BY <2>1 DEF MaxInv, Covered, Used
<1>4. ASSUME NEW t \in Threads, record_pick(t)
      PROVE  MaxInv'
  <2>1. /\ UNCHANGED <<samples, n, max, lock>>
        /\ \A u \in Threads :
              /\ pc'[u] \in {"load", "pick", "store", "unlock"} =>
                    pc[u] \in {"load", "pick", "store", "unlock"} /\ ep'[u] = ep[u]
              /\ pc'[u] = "count" => pc[u] = "count" /\ ep'[u] = ep[u] /\ i'[u] = i[u]
    BY <1>4 DEF record_pick, TypeOK
  <2> QED
    BY <2>1 DEF MaxInv, Covered, Used
<1>5. ASSUME NEW t \in Threads, record_store(t)
      PROVE  MaxInv'
  <2>1. Stores(t)
    BY <1>5, StoreOutcome
  <2>2. /\ UNCHANGED <<ep, i, n, max, lock>> /\ pc[t] = "store" /\ pc'[t] = "count"
        /\ \A u \in Threads : u # t => pc'[u] = pc[u]
        /\ \A u \in Threads : ep[u] \in Epochs
    BY <2>1 DEF Stores, TypeOK
  <2>3. /\ \A u \in Threads : u # t /\ pc[u] \in Locked => ep[u] # ep[t]
        /\ lock[ep[t]] = 1
    BY <2>2 DEF Exclusive, LockHeld, Locked
  <2>4. \A e \in Epochs : e # ep[t] => \A k \in Used(e) : samples'[e][k] = samples[e][k]
    BY <2>1 DEF Stores, Used
  <2>5. \A k \in Used(ep[t]) : k # i[t] => samples'[ep[t]][k] <= max[ep[t]]
    <3>1. \A k \in Used(ep[t]) : k # i[t] => samples'[ep[t]][k] = samples[ep[t]][k]
      BY <2>1, <2>2 DEF Stores, Used
    <3>2. \A k \in Used(ep[t]) : samples[ep[t]][k] <= max[ep[t]]
      BY <2>2 DEF MaxInv, Covered
    <3> QED
      BY <3>1, <3>2
  <2>6. \A e \in Epochs : e # ep[t] /\ Covered(e) => \A k \in Used(e) : samples'[e][k] <= max[e]
    BY <2>4 DEF Covered
  <2>7. \A e \in Epochs : lock[e] = 0 => \A k \in Used(e) : samples'[e][k] <= max[e]
    BY <2>3, <2>6 DEF MaxInv
  <2>8. \A u \in Threads : pc'[u] \in {"load", "pick", "store", "unlock"} =>
            \A k \in Used(ep[u]) : samples'[ep[u]][k] <= max[ep[u]]
    BY <2>2, <2>3, <2>6 DEF MaxInv, Locked
  <2>9. \A u \in Threads : pc'[u] = "count" =>
            \A k \in Used(ep[u]) : k # i[u] => samples'[ep[u]][k] <= max[ep[u]]
    BY <2>2, <2>3, <2>4, <2>5 DEF MaxInv, Locked
  <2> QED
    BY <2>2, <2>7, <2>8, <2>9 DEF MaxInv, Covered, Used
<1>6. ASSUME NEW t \in Threads, record_count(t)
      PROVE  MaxInv'
  <2>1. Counts(t)
    BY <1>6, CountOutcome
  <2>2. \A e \in Epochs : \A k \in Used(e)' :
            k \in Used(e) \/ (e = ep[t] /\ k = i[t] /\ samples[e][k] = val[t])
    BY <2>1, UsedCounted
  <2>3. /\ UNCHANGED <<ep, i, samples, lock>> /\ pc[t] = "count" /\ pc'[t] = "unlock"
        /\ \A u \in Threads : u # t => pc'[u] = pc[u]
        /\ \A u \in Threads : ep[u] \in Epochs
        /\ max'[ep[t]] = Larger(t) /\ \A e \in Epochs : e # ep[t] => max'[e] = max[e]
    BY <2>1 DEF Counts, TypeOK
  <2>4. /\ \A u \in Threads : u # t /\ pc[u] \in Locked => ep[u] # ep[t]
        /\ lock[ep[t]] = 1
    BY <2>3 DEF Exclusive, LockHeld, Locked
  <2>5. \A k \in Used(ep[t])' : samples[ep[t]][k] <= max'[ep[t]]
    <3> SUFFICES ASSUME NEW k \in Used(ep[t])'
                 PROVE  samples[ep[t]][k] <= Larger(t)
      BY <2>3
    <3>1. k \in Used(ep[t]) \/ (k = i[t] /\ samples[ep[t]][k] = val[t])
      BY <2>2, <2>3 DEF Used
    <3>2. /\ Larger(t) >= val[t] /\ Larger(t) >= max[ep[t]] /\ Larger(t) \in Nat
          /\ val[t] \in Nat /\ max[ep[t]] \in Nat
      BY <2>1 DEF Counts, TypeOK
    <3>3. CASE samples[ep[t]][k] = val[t]
      BY <3>2, <3>3
    <3>4. CASE k \in Used(ep[t]) /\ k = i[t]
      <4>1. k < Samples
        BY <3>4, SamplesAssumption DEF Used, Indices
      <4>2. samples[ep[t]][k] = val[t]
        BY <2>3, <3>4, <4>1 DEF IndexInv
      <4> QED
        BY <3>2, <4>2
    <3>5. CASE k \in Used(ep[t]) /\ k # i[t]
      <4>1. samples[ep[t]][k] <= max[ep[t]]
        BY <2>3, <3>5 DEF MaxInv
      <4>2. samples[ep[t]][k] \in Nat
        BY <2>3, <3>5 DEF TypeOK, Used
      <4> QED
        BY <3>2, <4>1, <4>2
    <3> QED
      BY <3>1, <3>3, <3>4, <3>5
  <2>6. \A e \in Epochs : e # ep[t] => \A k \in Used(e)' : k \in Used(e)
    BY <2>2
  <2>7. \A e \in Epochs : lock[e] = 0 => \A k \in Used(e)' : samples[e][k] <= max'[e]
    BY <2>3, <2>4, <2>6 DEF MaxInv, Covered
  <2>8. ASSUME NEW u \in Threads, pc'[u] \in {"load", "pick", "store", "unlock"}
        PROVE  \A k \in Used(ep[u])' : samples[ep[u]][k] <= max'[ep[u]]
    <3>1. CASE u = t
      BY <2>5, <3>1
    <3>2. CASE u # t
      <4>1. ep[u] # ep[t] /\ ep[u] \in Epochs /\ Covered(ep[u])
        BY <2>3, <2>4, <2>8, <3>2 DEF MaxInv, Locked
      <4>2. \A k \in Used(ep[u])' : k \in Used(ep[u])
        BY <2>3, <2>6, <4>1 DEF Used
      <4> QED
        BY <2>3, <4>1, <4>2 DEF Covered
    <3> QED
      BY <3>1, <3>2
  <2>9. ASSUME NEW u \in Threads, pc'[u] = "count"
        PROVE  \A k \in Used(ep[u])' : k # i[u] => samples[ep[u]][k] <= max'[ep[u]]
    <3>1. u # t /\ ep[u] # ep[t] /\ ep[u] \in Epochs /\ pc[u] = "count"
      BY <2>3, <2>4, <2>9 DEF Locked
    <3>2. \A k \in Used(ep[u])' : k \in Used(ep[u])
      BY <2>3, <2>6, <3>1 DEF Used
    <3> QED
      BY <2>3, <3>1, <3>2 DEF MaxInv
  <2> QED
    BY <2>3, <2>7, <2>8, <2>9 DEF MaxInv, Covered, Used
<1>7. ASSUME NEW t \in Threads, record_unlock(t)
      PROVE  MaxInv'
  <2>1. /\ pc' = [pc EXCEPT ![t] = "idle"] /\ pc[t] = "unlock"
        /\ lock' = [lock EXCEPT ![ep[t]] = 0] /\ i' = [i EXCEPT ![t] = 0]
        /\ ep' = [ep EXCEPT ![t] = 0] /\ UNCHANGED <<samples, n, max>>
    BY <1>7 DEF record_unlock, slock_unlock
  <2>2. /\ \A u \in Threads : u # t => pc'[u] = pc[u] /\ i'[u] = i[u] /\ ep'[u] = ep[u]
        /\ \A e \in Epochs : lock'[e] = 0 => lock[e] = 0 \/ e = ep[t]
        /\ pc'[t] = "idle"
    BY <2>1 DEF TypeOK
  <2>3. Covered(ep[t])
    BY <2>1 DEF MaxInv
  <2> QED
    BY <2>1, <2>2, <2>3 DEF MaxInv, Covered, Used
<1>8. ASSUME client_dies
      PROVE  MaxInv'
  <2>1. UNCHANGED <<samples, n, max, lock>> /\ \A u \in Threads : pc'[u] = "dead"
    BY <1>8 DEF client_dies
  <2> QED
    BY <2>1 DEF MaxInv, Covered, Used
<1>9. ASSUME optics_epoch_inc
      PROVE  MaxInv'
  <2>1. /\ UNCHANGED <<samples, n, max, lock>>
        /\ \A u \in Threads :
              /\ pc'[u] \in {"load", "pick", "store", "unlock"} =>
                    pc[u] \in {"load", "pick", "store", "unlock"} /\ ep'[u] = ep[u]
              /\ pc'[u] = "count" => pc[u] = "count" /\ ep'[u] = ep[u] /\ i'[u] = i[u]
    BY <1>9 DEF optics_epoch_inc, TypeOK
  <2> QED
    BY <2>1 DEF MaxInv, Covered, Used
<1>10. ASSUME read_busy
       PROVE  MaxInv'
  <2>1. /\ UNCHANGED <<samples, n, max, lock>>
        /\ \A u \in Threads :
              /\ pc'[u] \in {"load", "pick", "store", "unlock"} =>
                    pc[u] \in {"load", "pick", "store", "unlock"} /\ ep'[u] = ep[u]
              /\ pc'[u] = "count" => pc[u] = "count" /\ ep'[u] = ep[u] /\ i'[u] = i[u]
    BY <1>10 DEF read_busy, TypeOK
  <2> QED
    BY <2>1 DEF MaxInv, Covered, Used
<1>11. ASSUME read_copy
       PROVE  MaxInv'
  <2>1. /\ UNCHANGED <<samples, n, max, lock>>
        /\ \A u \in Threads :
              /\ pc'[u] \in {"load", "pick", "store", "unlock"} =>
                    pc[u] \in {"load", "pick", "store", "unlock"} /\ ep'[u] = ep[u]
              /\ pc'[u] = "count" => pc[u] = "count" /\ ep'[u] = ep[u] /\ i'[u] = i[u]
    BY <1>11 DEF read_copy, TypeOK
  <2> QED
    BY <2>1 DEF MaxInv, Covered, Used
<1>12. ASSUME read_reset
       PROVE  MaxInv'
  <2>1. n' = [n EXCEPT ![pep] = 0]
    BY <1>12 DEF read_reset, Cleared
  <2>2. \A e \in Epochs : \A k \in Used(e)' : k \in Used(e) /\ e # pep
    BY <2>1, UsedReset
  <2>3. /\ ppc = "reset" /\ UNCHANGED <<samples, pc, ep, i, lock>>
        /\ \A e \in Epochs : e # pep => max'[e] = max[e]
        /\ \A u \in Threads : ep[u] \in Epochs
    BY <1>12 DEF read_reset, TypeOK
  <2>4. \A e \in Epochs : Covered(e) => \A k \in Used(e)' : samples[e][k] <= max'[e]
    BY <2>2, <2>3 DEF Covered
  <2>5. \A u \in Threads : pc[u] = "count" =>
            \A k \in Used(ep[u])' : k # i[u] => samples[ep[u]][k] <= max'[ep[u]]
    <3>1. \A u \in Threads : \A k \in Used(ep[u])' : k \in Used(ep[u]) /\ ep[u] # pep
      BY <2>2, <2>3 DEF Used
    <3> QED
      BY <2>3, <3>1 DEF MaxInv, Used
  <2>6. \A u \in Threads : pc[u] \in {"load", "pick", "store", "unlock"} =>
            \A k \in Used(ep[u])' : samples[ep[u]][k] <= max'[ep[u]]
    BY <2>3, <2>4 DEF MaxInv, Used
  <2>7. \A e \in Epochs : lock[e] = 0 => \A k \in Used(e)' : samples[e][k] <= max'[e]
    BY <2>4 DEF MaxInv
  <2> QED
    BY <2>3, <2>5, <2>6, <2>7 DEF MaxInv, Covered, Used
<1>13. ASSUME read_unlock
       PROVE  MaxInv'
  <2>1. /\ ppc = "unlock" /\ lock' = [lock EXCEPT ![pep] = 0]
        /\ UNCHANGED <<samples, n, max, pc, ep, i>>
    BY <1>13 DEF read_unlock, slock_unlock, threadVars
  <2>2. lock' = lock
    BY <2>1 DEF ReadFree, Reading, TypeOK
  <2> QED
    BY <2>1, <2>2 DEF MaxInv, Covered, Used
<1>14. ASSUME UNCHANGED vars
       PROVE  MaxInv'
  <2>1. /\ UNCHANGED <<samples, n, max, lock>>
        /\ \A u \in Threads :
              /\ pc'[u] \in {"load", "pick", "store", "unlock"} =>
                    pc[u] \in {"load", "pick", "store", "unlock"} /\ ep'[u] = ep[u]
              /\ pc'[u] = "count" => pc[u] = "count" /\ ep'[u] = ep[u] /\ i'[u] = i[u]
    BY <1>14 DEF vars, TypeOK
  <2> QED
    BY <2>1 DEF MaxInv, Covered, Used
<1>15. ASSUME read_free
       PROVE  MaxInv'
  <2>1. /\ UNCHANGED <<samples, n, max, lock>>
        /\ \A u \in Threads :
              /\ pc'[u] \in {"load", "pick", "store", "unlock"} =>
                    pc[u] \in {"load", "pick", "store", "unlock"} /\ ep'[u] = ep[u]
              /\ pc'[u] = "count" => pc[u] = "count" /\ ep'[u] = ep[u] /\ i'[u] = i[u]
    BY <1>15 DEF read_free, TypeOK
  <2> QED
    BY <2>1 DEF MaxInv, Covered, Used
<1> QED
  BY <1>1, <1>2, <1>3, <1>4, <1>5, <1>6, <1>7, <1>8, <1>9, <1>10,
     <1>11, <1>12, <1>13, <1>14, <1>15
     DEF Next, Record, Locking, Poll

\* ... and what a read has copied.
LEMMA GotStep ==
    ASSUME TypeOK, Loaded, Exclusive, LockHeld, ReadFree, IndexInv, Copied,
           SampleInv, DistinctInv, HolderInv, FreshInv, MaxInv, GotInv, [Next]_vars
    PROVE  GotInv'
<1> USE DEF slotVars, threadVars, pollVars, readVars
<1>1. ASSUME NEW t \in Threads, record_epoch(t)
      PROVE  GotInv'
  <2>1. /\ UNCHANGED <<got, gotMax, gotN, ppc, pep, samples, n, published>>
        /\ started' = started + 1 /\ started \in Nat
        /\ val' = [val EXCEPT ![t] = started + 1] /\ DOMAIN val = Threads
        /\ \A u \in Threads : u # t => (Holds(u)' => Holds(u))
    BY <1>1 DEF record_epoch, Holds, TypeOK
  <2>2. ASSUME ppc = "unlock", NEW k \in Indices, got[k] # 0
        PROVE  /\ got[k] \in 1..started'
               /\ \A u \in Threads : Holds(u)' => val'[u] # got[k]
    <3>1. got[k] \in 1..started /\ \A u \in Threads : Holds(u) => val[u] # got[k]
      BY <2>2 DEF GotInv
    <3>2. val'[t] # got[k] /\ \A u \in Threads : u # t => val'[u] = val[u]
      BY <2>1, <3>1
    <3>3. got[k] \in 1..started'
      BY <2>1, <3>1
    <3> QED
      BY <2>1, <3>1, <3>2, <3>3
  <2> QED
    BY <2>1, <2>2 DEF GotInv, Used
<1>2. ASSUME NEW t \in Threads, slock_lock(t)
      PROVE  GotInv'
  <2>1. /\ UNCHANGED <<got, gotMax, gotN, ppc, pep, samples, n, started, published>>
        /\ \A u \in Threads : Holds(u)' => Holds(u) /\ val'[u] = val[u]
    BY <1>2 DEF slock_lock, Holds, TypeOK
  <2> QED
    BY <2>1 DEF GotInv, Used
<1>3. ASSUME NEW t \in Threads, record_load(t)
      PROVE  GotInv'
  <2>1. /\ UNCHANGED <<got, gotMax, gotN, ppc, pep, samples, n, started, published>>
        /\ \A u \in Threads : Holds(u)' => Holds(u) /\ val'[u] = val[u]
    BY <1>3 DEF record_load, Holds, TypeOK
  <2> QED
    BY <2>1 DEF GotInv, Used
<1>4. ASSUME NEW t \in Threads, record_pick(t)
      PROVE  GotInv'
  <2>1. /\ UNCHANGED <<got, gotMax, gotN, ppc, pep, samples, n, started, published>>
        /\ \A u \in Threads : Holds(u)' => Holds(u) /\ val'[u] = val[u]
    BY <1>4 DEF record_pick, Holds, TypeOK
  <2> QED
    BY <2>1 DEF GotInv, Used
<1>5. ASSUME NEW t \in Threads, record_store(t)
      PROVE  GotInv'
  <2>1. Stores(t)
    BY <1>5, StoreOutcome
  <2>2. /\ UNCHANGED <<got, gotMax, gotN, ppc, pep, val, n, started, published>>
        /\ pc[t] = "store" /\ Holds(t) /\ \A u \in Threads : Holds(u)' => Holds(u)
    BY <2>1 DEF Stores, Holds, TypeOK
  <2>3. ppc \in Reading => pep # ep[t]
    BY <2>2 DEF Exclusive, Locked
  <2>4. ppc = "reset" => \A k \in Indices : samples'[pep][k] = samples[pep][k]
    BY <2>1, <2>3 DEF Stores, Reading, TypeOK
  <2>5. ASSUME ppc = "unlock", NEW k \in Indices, got[k] # 0, NEW e \in Epochs, NEW m \in Used(e)
        PROVE  samples'[e][m] # got[k]
    <3>1. val[t] # got[k] /\ samples[e][m] # got[k]
      BY <2>2, <2>5 DEF GotInv
    <3>2. samples'[e][m] = IF e = ep[t] /\ m = i[t] THEN val[t] ELSE samples[e][m]
      BY <2>1 DEF Stores, Used
    <3> QED
      BY <3>1, <3>2
  <2> QED
    BY <2>2, <2>4, <2>5 DEF GotInv, Used
<1>6. ASSUME NEW t \in Threads, record_count(t)
      PROVE  GotInv'
  <2>1. Counts(t)
    BY <1>6, CountOutcome
  <2>2. \A e \in Epochs : \A k \in Used(e)' :
            k \in Used(e) \/ (e = ep[t] /\ k = i[t] /\ samples[e][k] = val[t])
    BY <2>1, UsedCounted
  <2>3. /\ UNCHANGED <<got, gotMax, gotN, ppc, pep, val, samples, started, published>>
        /\ pc[t] = "count" /\ Holds(t) /\ \A u \in Threads : Holds(u)' => Holds(u)
    BY <2>1 DEF Counts, Holds, TypeOK
  <2>4. ppc \in Reading => pep # ep[t]
    BY <2>3 DEF Exclusive, Locked
  <2>5. ppc \in Reading => n'[pep] = n[pep]
    BY <2>1, <2>4 DEF Counts, TypeOK
  <2>6. ASSUME ppc = "unlock", NEW k \in Indices, got[k] # 0, NEW e \in Epochs, NEW m \in Used(e)'
        PROVE  samples[e][m] # got[k]
    <3>1. val[t] # got[k] /\ \A j \in Used(e) : samples[e][j] # got[k]
      BY <2>3, <2>6 DEF GotInv
    <3>2. m \in Used(e) \/ samples[e][m] = val[t]
      BY <2>2
    <3> QED
      BY <3>1, <3>2
  <2> QED
    BY <2>3, <2>5, <2>6 DEF GotInv, Reading
<1>7. ASSUME NEW t \in Threads, record_unlock(t)
      PROVE  GotInv'
  <2>1. /\ UNCHANGED <<got, gotMax, gotN, ppc, pep, samples, n, started, published>>
        /\ \A u \in Threads : Holds(u)' => Holds(u) /\ val'[u] = val[u]
    BY <1>7 DEF record_unlock, slock_unlock, Holds, TypeOK
  <2> QED
    BY <2>1 DEF GotInv, Used
<1>8. ASSUME client_dies
      PROVE  GotInv'
  <2>1. /\ UNCHANGED <<got, gotMax, gotN, ppc, pep, samples, n, started, published>>
        /\ \A u \in Threads : Holds(u)' => Holds(u) /\ val'[u] = val[u]
    BY <1>8 DEF client_dies, Holds, TypeOK
  <2> QED
    BY <2>1 DEF GotInv, Used
<1>9. ASSUME optics_epoch_inc
      PROVE  GotInv'
  <2>1. /\ UNCHANGED <<got, gotMax>> /\ ppc = "idle" /\ ppc' = "check"
    BY <1>9 DEF optics_epoch_inc
  <2> QED
    BY <2>1 DEF GotInv, Reading, Empty
<1>10. ASSUME read_busy
       PROVE  GotInv'
  <2>1. /\ UNCHANGED <<got, gotMax>> /\ ppc = "check" /\ ppc' = "idle"
    BY <1>10 DEF read_busy, Skipped
  <2> QED
    BY <2>1 DEF GotInv, Reading, Empty
<1>11. ASSUME read_copy
       PROVE  GotInv'
  <2>1. /\ ppc' = "reset" /\ lock[pep] = 0 /\ gotMax' = max[pep]
        /\ got' = [k \in Indices |-> IF k < reservoir_len(n[pep]) THEN samples[pep][k] ELSE 0]
        /\ UNCHANGED <<pep, n, samples>> /\ pep \in Epochs /\ n[pep] \in Nat /\ max[pep] \in Nat
    BY <1>11 DEF read_copy, ReadFree, Reading, TypeOK
  <2>2. \A k \in Indices : k < reservoir_len(n[pep]) <=> k < n[pep]
    BY <2>1, SamplesAssumption DEF reservoir_len, Indices
  <2>3. \A k \in Indices : got'[k] = IF k < n[pep] THEN samples[pep][k] ELSE 0
    BY <2>1, <2>2
  <2>4. \A k \in Indices : k < n[pep] => samples[pep][k] <= max[pep]
    BY <2>1 DEF MaxInv, Covered, Used
  <2>5. \A k \in Indices : got'[k] <= gotMax'
    BY <2>1, <2>3, <2>4
  <2> QED
    BY <2>1, <2>3, <2>5 DEF GotInv, Reading
<1>12. ASSUME read_reset
       PROVE  GotInv'
  <2>1. n' = [n EXCEPT ![pep] = 0]
    BY <1>12 DEF read_reset, Cleared
  <2>2. \A e \in Epochs : \A k \in Used(e)' : k \in Used(e) /\ e # pep
    BY <2>1, UsedReset
  <2>3. /\ ppc = "reset" /\ ppc' = "unlock" /\ pep \in Epochs /\ n'[pep] = 0
        /\ UNCHANGED <<got, gotMax, gotN, pep, samples, pc, val, ep, started, published>>
    BY <1>12, <2>1 DEF read_reset, TypeOK
  <2>4. gotN = n[pep] /\ n[pep] \in Nat
    BY <2>3 DEF Copied, TypeOK
  <2>5. \A k \in Indices : got[k] = IF k < n[pep] THEN samples[pep][k] ELSE 0
    BY <2>3 DEF GotInv
  <2>6. \A k \in Used(pep) : samples[pep][k] \in 1..started /\ published[samples[pep][k]] = 0
    BY <2>3 DEF SampleInv
  <2>7. \A k \in Indices : got[k] # 0 <=> k < gotN
    BY <2>4, <2>5, <2>6 DEF Used
  <2>8. ASSUME NEW k \in Indices, got[k] # 0
        PROVE  /\ got[k] \in 1..started /\ published[got[k]] = 0
               /\ \A m \in Indices : got[m] = got[k] => m = k
               /\ \A e \in Epochs : \A m \in Used(e)' : samples[e][m] # got[k]
               /\ \A t \in Threads : Holds(t) => val[t] # got[k]
    <3>1. k \in Used(pep) /\ got[k] = samples[pep][k]
      BY <2>4, <2>5, <2>7, <2>8 DEF Used
    <3>2. ASSUME NEW m \in Indices, got[m] = got[k]
          PROVE  m = k
      <4>1. m \in Used(pep) /\ got[m] = samples[pep][m]
        BY <2>4, <2>5, <2>7, <2>8, <3>2 DEF Used
      <4>2. samples[pep][m] = samples[pep][k]
        BY <3>1, <3>2, <4>1
      <4>3. \A x, y \in Used(pep) : samples[pep][x] = samples[pep][y] => x = y
        BY <2>3 DEF DistinctInv
      <4> QED
        BY <3>1, <4>1, <4>2, <4>3
    <3>3. \A e \in Epochs : \A m \in Used(e)' : samples[e][m] # got[k]
      BY <2>2, <2>3, <3>1 DEF DistinctInv
    <3>4. ASSUME NEW t \in Threads, Holds(t), val[t] = got[k]
          PROVE  FALSE
      <4>1. pc[t] = "count" /\ pep = ep[t]
        BY <2>3, <3>1, <3>4 DEF FreshInv
      <4> QED
        BY <2>3, <4>1 DEF Exclusive, Locked, Reading
    <3> QED
      BY <2>6, <3>1, <3>2, <3>3, <3>4
  <2>9. \A t \in Threads : Holds(t)' => Holds(t)
    BY <2>3 DEF Holds
  <2>10. \A k \in Indices : got[k] <= gotMax
    BY DEF GotInv
  <2> QED
    BY <2>3, <2>7, <2>8, <2>9, <2>10 DEF GotInv, Reading
<1>13. ASSUME read_unlock
       PROVE  GotInv'
  <2>1. Collects
    BY <1>13, CollectOutcome
  <2> QED
    BY <2>1 DEF Collects, GotInv, Empty, Reading
<1>14. ASSUME UNCHANGED vars
       PROVE  GotInv'
  <2>1. /\ UNCHANGED <<got, gotMax, gotN, ppc, pep, samples, n, started, published>>
        /\ \A u \in Threads : Holds(u)' => Holds(u) /\ val'[u] = val[u]
    BY <1>14 DEF vars, Holds, TypeOK
  <2> QED
    BY <2>1 DEF GotInv, Used
<1>15. ASSUME read_free
       PROVE  GotInv'
  <2>1. /\ UNCHANGED <<got, gotMax>> /\ ppc = "check" /\ ppc' = "copy"
    BY <1>15 DEF read_free
  <2> QED
    BY <2>1 DEF GotInv, Reading, Empty
<1> QED
  BY <1>1, <1>2, <1>3, <1>4, <1>5, <1>6, <1>7, <1>8, <1>9, <1>10,
     <1>11, <1>12, <1>13, <1>14, <1>15
     DEF Next, Record, Locking, Poll

-----------------------------------------------------------------------------
(* What lens_dist_merge makes of two reservoirs.                            *)

\* Every set of natural numbers has a least member.
LEMMA Least ==
    ASSUME NEW S \in SUBSET Nat, S # {}
    PROVE  \E x \in S : \A y \in S : x <= y
<1>1. IsWellFoundedOn(OpToRel(<, Nat), Nat)
  BY NatLessThanWellFounded
<1>2. PICK x \in S : \A y \in S : ~(<<y, x>> \in OpToRel(<, Nat))
  BY <1>1, WFMin
<1>3. \A y \in S : ~(y < x)
  BY <1>2 DEF OpToRel
<1> QED
  BY <1>3

\* One of the m draws d took place k, and the last that did.
Taken(d, m, k) == \E j \in 0..(m - 1) : d[j] = k
Last(d, m, k) ==
    CHOOSE j \in 0..(m - 1) : d[j] = k /\ \A l \in (j + 1)..(m - 1) : d[l] # k

\* The last of the draws that took a place is one of them.
LEMMA LastDraw ==
    ASSUME NEW m \in Nat, NEW d, NEW k, Taken(d, m, k)
    PROVE  Last(d, m, k) \in 0..(m - 1) /\ d[Last(d, m, k)] = k
<1>0. PICK j0 \in 0..(m - 1) : d[j0] = k
  BY DEF Taken
<1> DEFINE S == {x \in 0..(m - 1) : d[m - 1 - x] = k}
<1>1. m - 1 - j0 \in S
  <2>1. m - 1 - (m - 1 - j0) = j0 /\ m - 1 - j0 \in 0..(m - 1)
    OBVIOUS
  <2> QED
    BY <1>0, <2>1
<1>2. S \in SUBSET Nat /\ S # {}
  <2>1. \A x \in 0..(m - 1) : x \in Nat
    OBVIOUS
  <2>2. S \subseteq 0..(m - 1)
    OBVIOUS
  <2> HIDE DEF S
  <2> QED
    BY <1>1, <2>1, <2>2
<1>3. PICK x \in S : \A y \in S : x <= y
  <2> HIDE DEF S
  <2> QED
    BY <1>2, Least
<1> DEFINE j == m - 1 - x
<1>4. x \in 0..(m - 1) /\ d[j] = k /\ j \in 0..(m - 1)
  BY <1>3
<1>5. ASSUME NEW l \in (j + 1)..(m - 1), d[l] = k
      PROVE  FALSE
  <2>1. m - 1 - l \in 0..(m - 1) /\ m - 1 - (m - 1 - l) = l /\ m - 1 - l < x
    BY <1>4
  <2>2. m - 1 - l \in S
    BY <1>5, <2>1
  <2> QED
    BY <1>3, <1>4, <2>1, <2>2
<1>6. \E y \in 0..(m - 1) : d[y] = k /\ \A l \in (y + 1)..(m - 1) : d[l] # k
  BY <1>4, <1>5
<1> QED
  BY <1>6 DEF Last

\* The first len of the samples s are of different records.
IsReservoir(s, len) ==
    \A k \in Indices : k < len => /\ s[k] # 0
                                  /\ \A m \in Indices : m < len /\ s[m] = s[k] => m = k

\* x is one of the first len samples of s.
From(x, s, len) == \E k \in Indices : k < len /\ x = s[k]

Apart(s, slen, r, rlen) ==
    \A k, m \in Indices : k < slen /\ m < rlen => s[k] # r[m]

\* A reservoir whose place k holds what the index at(k) of dst (left) or src
\* (right) has is one, if no two places take the same.
LEMMA Mixed ==
    ASSUME NEW dst, NEW dst_len \in Nat, NEW src, NEW src_len \in Nat,
           IsReservoir(dst, dst_len), IsReservoir(src, src_len),
           Apart(dst, dst_len, src, src_len),
           NEW len \in Nat, NEW s, NEW kept \in SUBSET Indices, NEW at \in [Indices -> Nat],
           \A k \in Indices : k < len =>
               IF k \in kept THEN k < dst_len /\ s[k] = dst[k]
               ELSE at[k] \in Indices /\ at[k] < src_len /\ s[k] = src[at[k]],
           \A k, m \in Indices \ kept : k < len /\ m < len /\ at[k] = at[m] => k = m
    PROVE  /\ IsReservoir(s, len)
           /\ \A k \in Indices : k < len => From(s[k], dst, dst_len) \/ From(s[k], src, src_len)
<1>1. ASSUME NEW k \in Indices, k < len
      PROVE  From(s[k], dst, dst_len) \/ From(s[k], src, src_len)
  BY <1>1 DEF From
<1>2. ASSUME NEW k \in Indices, k < len
      PROVE  s[k] # 0
  BY <1>2 DEF IsReservoir
<1>3. ASSUME NEW k \in Indices, k < len, NEW m \in Indices, m < len, s[m] = s[k]
      PROVE  m = k
  <2>1. CASE k \in kept /\ m \in kept
    BY <1>3, <2>1 DEF IsReservoir
  <2>2. CASE k \in kept /\ m \notin kept
    BY <1>3, <2>2 DEF Apart
  <2>3. CASE k \notin kept /\ m \in kept
    BY <1>3, <2>3 DEF Apart
  <2>4. CASE k \notin kept /\ m \notin kept
    <3>1. at[k] = at[m]
      BY <1>3, <2>4 DEF IsReservoir
    <3> QED
      BY <1>3, <2>4, <3>1
  <2> QED
    BY <2>1, <2>2, <2>3, <2>4
<1> QED
  BY <1>1, <1>2, <1>3 DEF IsReservoir

\* What lens_dist_merge makes of two reservoirs: one that is filled as far as
\* the records of both fill it, with samples of both.
LEMMA MergeIntoWhole ==
    ASSUME NEW dst, NEW dst_len \in Nat, NEW src, NEW src_len \in Nat, dst_len >= src_len,
           IsReservoir(dst, dst_len), IsReservoir(src, src_len),
           Apart(dst, dst_len, src, src_len),
           NEW r \in MergeInto(dst, dst_len, src, src_len)
    PROVE  /\ r.len = reservoir_len(dst_len + src_len)
           /\ IsReservoir(r.samples, r.len)
           /\ \A k \in Indices : k < r.len =>
                 From(r.samples[k], dst, dst_len) \/ From(r.samples[k], src, src_len)
<1> DEFINE copied == ToCopy(dst_len, src_len)
           left == src_len - copied
           full == [k \in Indices |-> IF k >= dst_len /\ k < dst_len + copied
                                      THEN src[k - dst_len] ELSE dst[k]]
           picks == {[k \in Indices |-> IF k \in picked THEN src[k] ELSE full[k]] :
                        picked \in SUBSET Indices}
           draws == {Drawn(full, src, copied, left, d) : d \in Draws(dst_len + copied, left)}
<1>1. /\ copied \in Nat /\ left \in Nat /\ copied <= src_len /\ left = src_len - copied
      /\ left = 0 => copied = src_len
      /\ left = 0 /\ dst_len >= Samples => src_len = 0
      /\ left = 0 => dst_len + src_len <= Samples \/ src_len = 0
      /\ left # 0 => dst_len + copied >= Samples
      /\ left # 0 /\ copied # 0 => dst_len + copied = Samples
      /\ left # 0 /\ left <= Samples => src_len <= Samples
      /\ left > Samples => src_len > Samples /\ dst_len > Samples /\ copied = 0
      /\ copied # 0 => dst_len + copied <= Samples
  BY SamplesAssumption DEF ToCopy
<1>2. \A k \in Indices : k \in Nat /\ k < Samples
  BY SamplesAssumption DEF Indices
<1>3. \A k \in Nat : k < Samples => k \in Indices
  BY SamplesAssumption DEF Indices
<1>4. CASE left = 0
  <2>1. r.len = reservoir_len(dst_len + src_len) /\ r.samples = full
    BY <1>1, <1>4 DEF MergeInto
  <2>2. r.len \in Nat /\ r.len <= dst_len + src_len
    BY <1>1, <2>1, SamplesAssumption DEF reservoir_len
  <2> DEFINE kept == {k \in Indices : k < dst_len}
             at == [k \in Indices |-> IF k < dst_len THEN 0 ELSE k - dst_len]
  <2>3. kept \in SUBSET Indices /\ at \in [Indices -> Nat]
    BY <1>2
  <2>4. ASSUME NEW k \in Indices, k < r.len
        PROVE  IF k \in kept THEN k < dst_len /\ r.samples[k] = dst[k]
               ELSE at[k] \in Indices /\ at[k] < src_len /\ r.samples[k] = src[at[k]]
    <3>1. k \in Nat /\ k < Samples /\ k < dst_len + src_len /\ copied = src_len
      BY <1>1, <1>2, <1>4, <2>2, <2>4
    <3> HIDE DEF copied, left
    <3>2. CASE k < dst_len
      BY <2>1, <3>1, <3>2
    <3>3. CASE ~(k < dst_len)
      <4>1. k - dst_len \in Nat /\ k - dst_len < src_len /\ k - dst_len < Samples
        <5> HIDE DEF full, kept, at, picks, draws
        <5> QED
          BY <3>1, <3>3, SamplesAssumption
      <4>2. k - dst_len \in Indices
        BY <4>1, <1>3
      <4> QED
        BY <2>1, <3>1, <3>3, <4>1, <4>2
    <3> QED
      BY <3>2, <3>3
  <2>5. \A k, m \in Indices \ kept : k < r.len /\ m < r.len /\ at[k] = at[m] => k = m
    BY <1>2
  <2> HIDE DEF kept, at
  <2>6. /\ IsReservoir(r.samples, r.len)
        /\ \A k \in Indices : k < r.len =>
              From(r.samples[k], dst, dst_len) \/ From(r.samples[k], src, src_len)
    BY <2>2, <2>3, <2>4, <2>5, Mixed
  <2> QED
    BY <2>1, <2>6
<1>5. CASE left # 0
  <2>1. r.len = Samples /\ reservoir_len(dst_len + src_len) = Samples
    <3>1. r.len = Samples
      <4> HIDE DEF copied
      <4> QED
        BY <1>5 DEF MergeInto, copied
    <3> QED
      BY <1>1, <1>5, <3>1, SamplesAssumption DEF reservoir_len
  <2>2. CASE left <= Samples
    <3>1. PICK d \in Draws(dst_len + copied, left) :
               r.samples = Drawn(full, src, copied, left, d)
      <4>1. r \in {[len |-> Samples, samples |-> result] : result \in draws}
        BY <1>5, <2>2 DEF MergeInto
      <4> HIDE DEF full, copied, left
      <4> QED
        BY <4>1
    <3> DEFINE drawn(k) == Taken(d, left, k)
               last(k) == Last(d, left, k)
               kept == {k \in Indices : ~drawn(k) /\ k < dst_len}
               at == [k \in Indices |-> IF drawn(k) THEN copied + last(k)
                                        ELSE IF k < dst_len THEN 0 ELSE k - dst_len]
    <3>2. \A k \in Indices : drawn(k) => last(k) \in 0..(left - 1) /\ d[last(k)] = k
      <4> HIDE DEF full, copied, left
      <4> QED
        BY <1>1, LastDraw
    <3>3. \A k \in Indices : r.samples[k] = IF drawn(k) THEN src[copied + last(k)] ELSE full[k]
      <4> HIDE DEF full, copied, left
      <4> QED
        BY <3>1 DEF Drawn, Taken, Last
    <3> HIDE DEF drawn, last
    <3>4. ASSUME NEW k \in Indices, drawn(k)
          PROVE  copied + last(k) \in Indices /\ copied + last(k) < src_len
      <4>1. last(k) \in Nat /\ last(k) < left
        <5> HIDE DEF full, copied, left
        <5> QED
          BY <1>1, <3>2, <3>4
      <4>2. copied + last(k) \in Nat /\ copied + last(k) < src_len /\ src_len <= Samples
        <5> HIDE DEF full, copied, left
        <5> QED
          BY <1>1, <1>5, <2>2, <4>1
      <4> QED
        BY <1>3, <4>2, SamplesAssumption
    <3>5. ASSUME NEW k \in Indices, ~drawn(k), ~(k < dst_len)
          PROVE  /\ k - dst_len \in Indices /\ k - dst_len < src_len /\ k - dst_len < copied
                 /\ full[k] = src[k - dst_len]
      <4>1. k \in Nat /\ k < Samples /\ k < dst_len + copied /\ k >= dst_len
        <5> HIDE DEF full, copied, left
        <5> QED
          BY <1>1, <1>2, <1>5, <3>5, SamplesAssumption
      <4>2. k - dst_len \in Nat /\ k - dst_len < copied /\ k - dst_len < src_len
        <5> HIDE DEF full, copied, left
        <5> QED
          BY <1>1, <4>1
      <4>3. k - dst_len < Samples
        BY <4>1, SamplesAssumption
      <4>4. full[k] = src[k - dst_len]
        <5> HIDE DEF copied, left
        <5> QED
          BY <4>1
      <4> QED
        BY <1>3, <4>2, <4>3, <4>4
    <3>6. kept \in SUBSET Indices /\ at \in [Indices -> Nat]
      <4>1. \A k \in Indices : k \in Nat
        BY <1>2
      <4> HIDE DEF full, copied, left
      <4> QED
        BY <3>4, <3>5, <4>1
    <3>7. ASSUME NEW k \in Indices
          PROVE  IF k \in kept THEN k < dst_len /\ r.samples[k] = dst[k]
                 ELSE at[k] \in Indices /\ at[k] < src_len /\ r.samples[k] = src[at[k]]
      <4>1. CASE drawn(k)
        <5> HIDE DEF full, copied, left
        <5> QED
          BY <3>3, <3>4, <4>1
      <4>2. CASE ~drawn(k) /\ k < dst_len
        <5>1. full[k] = dst[k]
          BY <1>2, <4>2
        <5> HIDE DEF full, copied, left
        <5> QED
          BY <3>3, <4>2, <5>1
      <4>3. CASE ~drawn(k) /\ ~(k < dst_len)
        <5> HIDE DEF full, copied, left
        <5> QED
          BY <3>3, <3>5, <4>3
      <4> QED
        BY <4>1, <4>2, <4>3
    <3>8. ASSUME NEW k \in Indices \ kept, NEW m \in Indices \ kept, at[k] = at[m]
          PROVE  k = m
      <4> HIDE DEF full, copied, left
      <4>1. \A x \in Indices : drawn(x) => last(x) \in Nat /\ copied + last(x) >= copied
        BY <1>1, <3>2
      <4>2. CASE drawn(k) /\ drawn(m)
        <5>1. last(k) = last(m)
          BY <1>1, <3>8, <4>1, <4>2
        <5> QED
          BY <3>2, <4>2, <5>1
      <4>3. CASE ~drawn(k) /\ ~drawn(m)
        BY <1>2, <3>8, <4>3
      <4>4. CASE drawn(k) /\ ~drawn(m)
        BY <1>1, <1>2, <3>5, <3>8, <4>1, <4>4
      <4>5. CASE ~drawn(k) /\ drawn(m)
        BY <1>1, <1>2, <3>5, <3>8, <4>1, <4>5
      <4> QED
        BY <4>2, <4>3, <4>4, <4>5
    <3> HIDE DEF kept, at, full, copied, left, draws, picks
    <3>9. /\ IsReservoir(r.samples, r.len)
          /\ \A k \in Indices : k < r.len =>
                From(r.samples[k], dst, dst_len) \/ From(r.samples[k], src, src_len)
      <4>1. r.len \in Nat
        BY <2>1, SamplesAssumption
      <4>2. \A k \in Indices : k < r.len =>
               IF k \in kept THEN k < dst_len /\ r.samples[k] = dst[k]
               ELSE at[k] \in Indices /\ at[k] < src_len /\ r.samples[k] = src[at[k]]
        BY <3>7
      <4>3. \A k, m \in Indices \ kept : k < r.len /\ m < r.len /\ at[k] = at[m] => k = m
        BY <3>8
      <4> QED
        BY <3>6, <4>1, <4>2, <4>3, Mixed
    <3> QED
      BY <2>1, <3>9
  <2>3. CASE left > Samples
    <3>1. PICK picked \in SUBSET Indices :
               r.samples = [k \in Indices |-> IF k \in picked THEN src[k] ELSE full[k]]
      <4>1. r \in {[len |-> Samples, samples |-> result] : result \in picks}
        <5>1. ~(left <= Samples)
          <6> HIDE DEF full, copied, left
          <6> QED
            BY <1>1, <2>3, SamplesAssumption
        <5> QED
          BY <1>5, <5>1 DEF MergeInto
      <4> HIDE DEF full, copied, left
      <4> QED
        BY <4>1
    <3> DEFINE kept == Indices \ picked
               at == [k \in Indices |-> k]
    <3>2. \A k \in Indices : k < dst_len /\ k < src_len
      <4> HIDE DEF full, copied, left
      <4> QED
        BY <1>1, <1>2, <2>3, SamplesAssumption
    <3>3. \A k \in Indices : full[k] = dst[k]
      BY <1>2, <3>2
    <3>4. kept \in SUBSET Indices /\ at \in [Indices -> Nat]
      BY <1>2
    <3> HIDE DEF full, copied, left, draws, picks
    <3>5. \A k \in Indices :
             IF k \in kept THEN k < dst_len /\ r.samples[k] = dst[k]
             ELSE at[k] \in Indices /\ at[k] < src_len /\ r.samples[k] = src[at[k]]
      BY <3>1, <3>2, <3>3
    <3>6. \A k, m \in Indices \ kept : at[k] = at[m] => k = m
      OBVIOUS
    <3> HIDE DEF kept, at
    <3>7. /\ IsReservoir(r.samples, r.len)
          /\ \A k \in Indices : k < r.len =>
                From(r.samples[k], dst, dst_len) \/ From(r.samples[k], src, src_len)
      <4>1. r.len \in Nat
        BY <2>1, SamplesAssumption
      <4>2. \A k \in Indices : k < r.len =>
               IF k \in kept THEN k < dst_len /\ r.samples[k] = dst[k]
               ELSE at[k] \in Indices /\ at[k] < src_len /\ r.samples[k] = src[at[k]]
        BY <3>5
      <4>3. \A k, m \in Indices \ kept : k < r.len /\ m < r.len /\ at[k] = at[m] => k = m
        BY <3>6
      <4> QED
        BY <3>4, <4>1, <4>2, <4>3, Mixed
    <3> QED
      BY <2>1, <3>7
  <2> QED
    <3> HIDE DEF full, copied, left, draws, picks
    <3> QED
      BY <1>1, <2>2, <2>3, SamplesAssumption
<1> QED
  BY <1>4, <1>5

\* What the other regions gave the poll is a reservoir, apart from this lens's.
LEMMA OtherReservoir ==
    ASSUME NEW m \in Nat
    PROVE  \A k \in Indices : k < m => Other(m).samples[k] = MaxRecords + k + 1
<1>1. \A k \in Indices : k < m => k < reservoir_len(m)
  BY SamplesAssumption DEF Indices, reservoir_len
<1> QED
  BY <1>1 DEF Other

\* The value a read leaves is one for the next region to be merged into.
LEMMA UnlockMerged ==
    ASSUME TypeOK, GotInv, read_unlock
    PROVE  WholeValue'
<1>1. Collects
  BY CollectOutcome
<1>2. PICK m \in Others :
           IF gotN = 0 THEN value' = Other(m)
           ELSE \E r \in lens_dist_merge(got, gotN, Other(m).samples, m) :
                   value' = [n |-> m + gotN, len |-> r.len, samples |-> r.samples]
  BY DEF read_unlock
<1>3. m \in Nat /\ gotN \in Nat /\ started \in 0..MaxRecords /\ MaxRecords \in Nat
  BY OthersAssumption, RecordsAssumption DEF TypeOK
<1>4. \A k \in Indices : k \in Nat /\ k < Samples
  BY SamplesAssumption DEF Indices
<1>5. \A k \in Nat : k < Samples => k \in Indices
  BY SamplesAssumption DEF Indices
<1>6. \A k \in Indices : k < m => Other(m).samples[k] = MaxRecords + k + 1
  BY <1>3, OtherReservoir
<1>7. ASSUME NEW k \in Indices, k < gotN
      PROVE  /\ got[k] \in Values /\ published'[got[k]] = 1
             /\ \A l \in Indices : got[l] = got[k] => l = k
  <2>1. /\ got[k] # 0 /\ got[k] \in 1..started /\ published[got[k]] = 0
        /\ \A l \in Indices : got[l] = got[k] => l = k
    BY <1>1, <1>7 DEF GotInv, Collects
  <2>2. got[k] \in Values
    BY <1>3, <2>1 DEF Values
  <2> QED
    BY <1>1, <2>1, <2>2 DEF Collects
<1>8. \A k \in Indices : k < m => Other(m).samples[k] # 0 /\ Other(m).samples[k] \notin Values
  BY <1>3, <1>4, <1>6 DEF Values
<1>9. IsReservoir(got, gotN)
  <2>1. 0 \notin Values
    BY DEF Values
  <2> QED
    BY <1>7, <2>1 DEF IsReservoir
<1>10. IsReservoir(Other(m).samples, m)
  BY <1>3, <1>4, <1>6, <1>8 DEF IsReservoir
<1>11. Apart(got, gotN, Other(m).samples, m) /\ Apart(Other(m).samples, m, got, gotN)
  BY <1>7, <1>8 DEF Apart
<1>12. ASSUME NEW s, NEW len \in Nat, len <= Samples, IsReservoir(s, len),
              \A k \in Indices : k < len => From(s[k], got, gotN) \/ From(s[k], Other(m).samples, m)
       PROVE  \A k \in 0..(len - 1) :
                 /\ s[k] # 0
                 /\ s[k] \in Values => published'[s[k]] = 1
                 /\ \A l \in 0..(len - 1) : s[l] = s[k] => l = k
  <2>1. \A k \in 0..(len - 1) : k \in Indices /\ k < len
    BY <1>5, <1>12, SamplesAssumption
  <2>2. ASSUME NEW k \in Indices, k < len, s[k] \in Values
        PROVE  published'[s[k]] = 1
    BY <1>7, <1>8, <1>12, <2>2 DEF From
  <2> QED
    BY <1>12, <2>1, <2>2 DEF IsReservoir
<1>13. \A l \in Nat : reservoir_len(l) \in Nat /\ reservoir_len(l) <= Samples /\ reservoir_len(l) <= l
  BY SamplesAssumption DEF reservoir_len
<1>14. CASE gotN = 0
  <2>1. value' = Other(m)
    BY <1>2, <1>14
  <2>2. value'.n = m /\ value'.len = reservoir_len(m) /\ value'.samples = Other(m).samples
    BY <2>1 DEF Other
  <2>3. IsReservoir(Other(m).samples, reservoir_len(m))
    BY <1>3, <1>4, <1>10, <1>13 DEF IsReservoir
  <2>4. \A k \in Indices : k < reservoir_len(m) => From(Other(m).samples[k], Other(m).samples, m)
    BY <1>3, <1>4, <1>13 DEF From
  <2> QED
    BY <1>3, <1>12, <1>13, <2>2, <2>3, <2>4 DEF WholeValue
<1>15. CASE gotN # 0
  <2>1. PICK r \in lens_dist_merge(got, gotN, Other(m).samples, m) :
             value' = [n |-> m + gotN, len |-> r.len, samples |-> r.samples]
    BY <1>2, <1>15
  <2>2. value'.n = m + gotN /\ value'.len = r.len /\ value'.samples = r.samples
    BY <2>1
  <2>3. /\ r.len = reservoir_len(m + gotN)
        /\ IsReservoir(r.samples, r.len)
        /\ \A k \in Indices : k < r.len =>
              From(r.samples[k], got, gotN) \/ From(r.samples[k], Other(m).samples, m)
    <3>1. CASE gotN >= m
      <4>1. r \in MergeInto(got, gotN, Other(m).samples, m)
        BY <3>1 DEF lens_dist_merge
      <4>2. gotN + m = m + gotN
        BY <1>3
      <4> QED
        BY <1>3, <1>9, <1>10, <1>11, <3>1, <4>1, <4>2, MergeIntoWhole
    <3>2. CASE ~(gotN >= m)
      <4>1. r \in MergeInto(Other(m).samples, m, got, gotN)
        BY <3>2 DEF lens_dist_merge
      <4>2. m >= gotN
        BY <1>3, <3>2
      <4> QED
        BY <1>3, <1>9, <1>10, <1>11, <4>1, <4>2, MergeIntoWhole
    <3> QED
      BY <3>1, <3>2
  <2>4. r.len \in Nat /\ r.len <= Samples
    BY <1>3, <1>13, <2>3
  <2> QED
    BY <1>12, <2>2, <2>3, <2>4 DEF WholeValue
<1> QED
  BY <1>14, <1>15

\* Every other step keeps the value of the last poll or starts one.
LEMMA MergedStep ==
    ASSUME TypeOK, GotInv, WholeValue, [Next]_vars
    PROVE  WholeValue'
<1> USE DEF slotVars, threadVars, pollVars, readVars
<1>1. ASSUME NEW t \in Threads, record_epoch(t)
      PROVE  WholeValue'
  <2>1. UNCHANGED <<value, published>>
    BY <1>1 DEF record_epoch
  <2> QED
    BY <2>1 DEF WholeValue
<1>2. ASSUME NEW t \in Threads, slock_lock(t)
      PROVE  WholeValue'
  <2>1. UNCHANGED <<value, published>>
    BY <1>2 DEF slock_lock
  <2> QED
    BY <2>1 DEF WholeValue
<1>3. ASSUME NEW t \in Threads, record_load(t)
      PROVE  WholeValue'
  <2>1. UNCHANGED <<value, published>>
    BY <1>3 DEF record_load
  <2> QED
    BY <2>1 DEF WholeValue
<1>4. ASSUME NEW t \in Threads, record_pick(t)
      PROVE  WholeValue'
  <2>1. UNCHANGED <<value, published>>
    BY <1>4 DEF record_pick
  <2> QED
    BY <2>1 DEF WholeValue
<1>5. ASSUME NEW t \in Threads, record_store(t)
      PROVE  WholeValue'
  <2>1. UNCHANGED <<value, published>>
    BY <1>5 DEF record_store
  <2> QED
    BY <2>1 DEF WholeValue
<1>6. ASSUME NEW t \in Threads, record_count(t)
      PROVE  WholeValue'
  <2>1. UNCHANGED <<value, published>>
    BY <1>6 DEF record_count
  <2> QED
    BY <2>1 DEF WholeValue
<1>7. ASSUME NEW t \in Threads, record_unlock(t)
      PROVE  WholeValue'
  <2>1. UNCHANGED <<value, published>>
    BY <1>7 DEF record_unlock, slock_unlock
  <2> QED
    BY <2>1 DEF WholeValue
<1>8. ASSUME client_dies
      PROVE  WholeValue'
  <2>1. UNCHANGED <<value, published>>
    BY <1>8 DEF client_dies
  <2> QED
    BY <2>1 DEF WholeValue
<1>9. ASSUME optics_epoch_inc
      PROVE  WholeValue'
  <2>1. value'.n = 0 /\ value'.len = 0
    BY <1>9 DEF optics_epoch_inc, NoValue
  <2>2. reservoir_len(0) = 0 /\ 0..(0 - 1) = {}
    BY SamplesAssumption DEF reservoir_len
  <2> QED
    BY <2>1, <2>2 DEF WholeValue
<1>10. ASSUME read_busy
       PROVE  WholeValue'
  <2>1. UNCHANGED <<value, published>>
    BY <1>10 DEF read_busy
  <2> QED
    BY <2>1 DEF WholeValue
<1>11. ASSUME read_copy
       PROVE  WholeValue'
  <2>1. UNCHANGED <<value, published>>
    BY <1>11 DEF read_copy
  <2> QED
    BY <2>1 DEF WholeValue
<1>12. ASSUME read_reset
       PROVE  WholeValue'
  <2>1. UNCHANGED <<value, published>>
    BY <1>12 DEF read_reset, Cleared
  <2> QED
    BY <2>1 DEF WholeValue
<1>13. ASSUME read_unlock
       PROVE  WholeValue'
  BY <1>13, UnlockMerged
<1>14. ASSUME UNCHANGED vars
       PROVE  WholeValue'
  <2>1. UNCHANGED <<value, published>>
    BY <1>14 DEF vars
  <2> QED
    BY <2>1 DEF WholeValue
<1>15. ASSUME read_free
       PROVE  WholeValue'
  <2>1. UNCHANGED <<value, published>>
    BY <1>15 DEF read_free
  <2> QED
    BY <2>1 DEF WholeValue
<1> QED
  BY <1>1, <1>2, <1>3, <1>4, <1>5, <1>6, <1>7, <1>8, <1>9, <1>10,
     <1>11, <1>12, <1>13, <1>14, <1>15
     DEF Next, Record, Locking, Poll

-----------------------------------------------------------------------------
(* Both invariants together.                                                *)

\* There is nothing in the reservoirs to begin with.
LEMMA InitSInv == Init => SInv
<1> SUFFICES ASSUME Init
             PROVE  SInv
  OBVIOUS
<1>1. \A e \in Epochs : Used(e) = {}
  BY SamplesAssumption DEF Init, Used, Indices
<1>2. \A t \in Threads : ~Holds(t) /\ pc[t] = "idle"
  BY DEF Init, Holds
<1>3. SampleInv /\ DistinctInv
  BY <1>1 DEF Init, SampleInv, DistinctInv
<1>4. HolderInv /\ FreshInv /\ IndexInv
  BY <1>2 DEF HolderInv, FreshInv, IndexInv
<1>5. MaxInv
  BY <1>1, <1>2 DEF MaxInv, Covered
<1>6. GotInv
  BY DEF Init, GotInv, Reading, Empty
<1>7. WholeValue
  <2>1. value.n = 0 /\ value.len = 0
    BY DEF Init, NoValue
  <2>2. reservoir_len(0) = 0 /\ 0..(0 - 1) = {}
    BY SamplesAssumption DEF reservoir_len
  <2> QED
    BY <2>1, <2>2 DEF WholeValue
<1> QED
  BY <1>3, <1>4, <1>5, <1>6, <1>7 DEF SInv

-----------------------------------------------------------------------------
(* The theorems.  They hold of every behaviour: an overlap is a step like   *)
(* any other, after which only the types and the lock's release are left.   *)

\* Every step keeps the types, also when a record and a read overlap.
LEMMA TypeStep == ASSUME TypeOK, [Next]_vars PROVE TypeOK'
<1> USE SamplesAssumption, RecordsAssumption
    DEF Epochs, Reading, Locked, slotVars, threadVars, pollVars, readVars
<1>1. ASSUME NEW t \in Threads, record_epoch(t)
      PROVE  TypeOK'
  BY <1>1 DEF record_epoch, TypeOK
<1>2. ASSUME NEW t \in Threads, slock_lock(t)
      PROVE  TypeOK'
  BY <1>2 DEF slock_lock, TypeOK
<1>3. ASSUME NEW t \in Threads, record_load(t)
      PROVE  TypeOK'
  BY <1>3 DEF record_load, TypeOK
<1>4. ASSUME NEW t \in Threads, record_pick(t)
      PROVE  TypeOK'
  <2>1. n[ep[t]] \in Nat
    BY DEF TypeOK
  <2>2. PICK k \in IF n[ep[t]] = 0 THEN {0} ELSE 0..(n[ep[t]] - 1) :
            i' = [i EXCEPT ![t] = k]
    BY <1>4 DEF record_pick
  <2>3. k \in Nat
    BY <2>1
  <2> QED
    BY <1>4, <2>1, <2>2, <2>3 DEF record_pick, TypeOK
<1>5. ASSUME NEW t \in Threads, record_store(t)
      PROVE  TypeOK'
  <2>1. samples' \in [Epochs -> [Indices -> 0..MaxRecords]]
    BY <1>5 DEF record_store, TypeOK, Indices
  <2> QED
    BY <1>5, <2>1 DEF record_store, TypeOK
<1>6. ASSUME NEW t \in Threads, record_count(t)
      PROVE  TypeOK'
  <2>1. PICK m \in {n[ep[t]], seen[t]} : n' = [n EXCEPT ![ep[t]] = m + 1]
    BY <1>6 DEF record_count
  <2>2. m \in Nat /\ max[ep[t]] \in 0..MaxRecords /\ val[t] \in 0..MaxRecords
    BY DEF TypeOK
  <2>3. Larger(t) \in 0..MaxRecords
    BY <2>2 DEF Larger
  <2> QED
    BY <1>6, <2>1, <2>2, <2>3 DEF record_count, TypeOK
<1>7. ASSUME NEW t \in Threads, record_unlock(t)
      PROVE  TypeOK'
  BY <1>7 DEF record_unlock, slock_unlock, TypeOK
<1>8. ASSUME client_dies
      PROVE  TypeOK'
  BY <1>8 DEF client_dies, TypeOK
<1>9. ASSUME optics_epoch_inc \/ read_busy \/ read_free
      PROVE  TypeOK'
  BY <1>9 DEF optics_epoch_inc, read_busy, read_free, Flipped, Skipped, NoValue, Empty, TypeOK
<1>10. ASSUME read_copy
       PROVE  TypeOK'
  <2>1. got' \in [Indices -> 0..MaxRecords]
    BY <1>10 DEF read_copy, TypeOK
  <2> QED
    BY <1>10, <2>1 DEF read_copy, TypeOK
<1>11. ASSUME read_reset
       PROVE  TypeOK'
  BY <1>11 DEF read_reset, Cleared, TypeOK
<1>12. ASSUME read_unlock
       PROVE  TypeOK'
  <2>1. published' \in [Values -> Nat] /\ value'.n \in Nat /\ value'.len \in Nat
        /\ DOMAIN value'.samples = Indices
    BY <1>12, UnlockType
  <2> QED
    BY <1>12, <2>1 DEF read_unlock, slock_unlock, TypeOK, Empty
<1>13. ASSUME UNCHANGED vars
       PROVE  TypeOK'
  BY <1>13 DEF vars, TypeOK
<1> QED
  BY <1>1, <1>2, <1>3, <1>4, <1>5, <1>6, <1>7, <1>8, <1>9, <1>10, <1>11, <1>12, <1>13
     DEF Next, Record, Locking, Poll

\* An overlap is not forgotten.
LEMMA OverlapStays == ASSUME overlapped, [Next]_vars PROVE overlapped'
<1> USE DEF slotVars, threadVars, pollVars, readVars
<1>1. ASSUME NEW t \in Threads, slock_lock(t)
      PROVE  overlapped'
  BY <1>1 DEF slock_lock
<1>2. ASSUME NEW t \in Threads, record_epoch(t) \/ Locking(t)
      PROVE  overlapped'
  BY <1>2
     DEF record_epoch, Locking, record_load, record_pick, record_store, record_count,
         record_unlock
<1>3. ASSUME client_dies \/ Poll
      PROVE  overlapped'
  BY <1>3
     DEF client_dies, Poll, optics_epoch_inc, read_busy, read_free, read_copy, read_reset,
         read_unlock
<1>4. ASSUME UNCHANGED vars
      PROVE  overlapped'
  BY <1>4 DEF vars
<1> QED
  BY <1>1, <1>2, <1>3, <1>4 DEF Next, Record

\* What is proved of every reachable state: counts and samples are where IInv
\* and SInv say, unless a record and a read have overlapped.
Undamaged == overlapped \/ (IInv /\ SInv)

\* The inductive invariant of lens_dist_record and lens_dist_read.
THEOREM IndInvariant == Spec => [](TypeOK /\ Undamaged)
<1>1. Init => TypeOK /\ Undamaged
  BY InitIInv, InitSInv DEF IInv, Undamaged
<1>2. (TypeOK /\ Undamaged) /\ [Next]_vars => (TypeOK /\ Undamaged)'
  <2> SUFFICES ASSUME TypeOK, Undamaged, [Next]_vars
               PROVE  TypeOK' /\ Undamaged'
    OBVIOUS
  <2>1. TypeOK'
    BY TypeStep
  <2>2. CASE overlapped
    BY <2>1, <2>2, OverlapStays DEF Undamaged
  <2>3. CASE overlapped'
    BY <2>1, <2>3 DEF Undamaged
  <2>4. CASE ~overlapped /\ ~overlapped'
    <3>1. IInv /\ SInv
      BY <2>4 DEF Undamaged
    <3>2. IInv'
      BY <2>4, <3>1, StepIInv
    <3>3. TypeOK /\ LockHeld /\ ReadFree /\ Exclusive /\ Loaded /\ Copied
      BY <3>1 DEF IInv
    <3>4. /\ SampleInv /\ DistinctInv /\ HolderInv /\ FreshInv /\ IndexInv
          /\ MaxInv /\ GotInv /\ WholeValue
      BY <3>1 DEF SInv
    <3>5. SampleInv' /\ DistinctInv' /\ HolderInv' /\ FreshInv'
      BY <3>3, <3>4, SampleStep, DistinctStep, HolderStep, FreshStep
    <3>6. IndexInv' /\ MaxInv' /\ GotInv' /\ WholeValue'
      BY <3>3, <3>4, IndexStep, MaxStep, GotStep, MergedStep
    <3> QED
      BY <2>1, <3>2, <3>5, <3>6 DEF SInv, Undamaged
  <2> QED
    BY <2>2, <2>3, <2>4
<1> QED
  BY <1>1, <1>2, PTL DEF Spec

(* The state of a distribution lens, of its recorders and of its reader     *)
(* stays well typed; every index lens_dist_record stores to is in bounds,   *)
(* also when stragglers overlap reads.                                      *)
THEOREM TypeCorrect == Spec => []TypeOK
<1>1. TypeOK /\ Undamaged => TypeOK
  OBVIOUS
<1> QED
  BY IndInvariant, <1>1, PTL

(* No count of lens_dist_record is lost or doubled by lens_dist_read, but   *)
(* through a straggler that takes the lock in the middle of the read.       *)
THEOREM CountsLostOnlyByOverlap == Spec => []LostOnlyByOverlap
<1>1. TypeOK /\ Undamaged => LostOnlyByOverlap
  BY DEF Undamaged, IInv, LostOnlyByOverlap
<1> QED
  BY IndInvariant, <1>1, PTL

(* lens_dist_record asks rng_gen_range for an empty range, and dies of it,  *)
(* only after some straggler overlapped a read.                             *)
THEOREM FaultsOnlyByOverlap == Spec => []FaultOnlyByOverlap
<1>1. TypeOK /\ Undamaged => FaultOnlyByOverlap
  BY DEF Undamaged, IInv, FaultOnlyByOverlap
<1> QED
  BY IndInvariant, <1>1, PTL

(* What lens_dist_read copies from a slot whose lock is free is a sound     *)
(* reservoir, and no record is among the samples of two polls, although the *)
(* reset leaves the samples where they are.                                 *)
THEOREM ReservoirIsSound == Spec => []ReservoirSound
<1>1. IInv /\ SInv => SoundSlots
  <2> SUFFICES ASSUME IInv, SInv
               PROVE  SoundSlots
    OBVIOUS
  <2>1. /\ n \in [Epochs -> Nat] /\ max \in [Epochs -> 0..MaxRecords]
        /\ started \in 0..MaxRecords /\ MaxRecords \in Nat
    BY RecordsAssumption DEF IInv, TypeOK
  <2>2. SampleInv /\ DistinctInv /\ MaxInv /\ GotInv
    BY DEF SInv
  <2>3. ASSUME NEW e \in Epochs, NEW k \in 0..(reservoir_len(n[e]) - 1)
        PROVE  k \in Used(e)
    <3>1. n[e] \in Nat
      BY <2>1
    <3> QED
      BY <2>3, <3>1, SamplesAssumption DEF reservoir_len, Used, Indices
  <2>4. ASSUME NEW e \in Epochs, lock[e] = 0, NEW k \in Used(e)
        PROVE  samples[e][k] \in 1..max[e] /\ published[samples[e][k]] = 0
    <3>1. samples[e][k] \in 1..started /\ published[samples[e][k]] = 0
      BY <2>2 DEF SampleInv
    <3>2. samples[e][k] <= max[e]
      BY <2>2, <2>4 DEF MaxInv, Covered
    <3>3. max[e] \in Nat
      BY <2>1
    <3> QED
      BY <2>1, <3>1, <3>2, <3>3
  <2>5. ASSUME NEW e \in Epochs, NEW k \in Used(e), NEW m \in Used(e), samples[e][m] = samples[e][k]
        PROVE  m = k
    BY <2>2, <2>5 DEF DistinctInv
  <2>6. \A k \in Indices : got[k] <= gotMax
    BY <2>2 DEF GotInv
  <2>7. \A v \in Values : published[v] <= 1
    BY <2>2 DEF SampleInv
  <2> QED
    BY <2>3, <2>4, <2>5, <2>6, <2>7 DEF SoundSlots
<1>2. TypeOK /\ Undamaged => ReservoirSound
  BY <1>1 DEF Undamaged, ReservoirSound
<1> QED
  BY IndInvariant, <1>2, PTL

(* The merge of any two reservoirs, however full, is a reservoir of the     *)
(* records of both: lens_dist_merge loses no place and doubles no sample.   *)
THEOREM MergedIsWhole == Spec => []MergedWhole
<1>1. TypeOK /\ Undamaged => MergedWhole
  BY DEF Undamaged, SInv, MergedWhole
<1> QED
  BY IndInvariant, <1>1, PTL
=============================================================================
