------------------------------ MODULE DistLens ------------------------------
(***************************************************************************)
(* The distribution lens of lens_dist.c: per epoch a spin-locked reservoir *)
(* of samples, their count n and their maximum.  Recording threads take    *)
(* the lock of the slot they read; the poller only looks whether the lock  *)
(* of the vacated slot is held (slock_is_locked), copies the reservoir,    *)
(* resets it and stores 0 in the lock.                                     *)
(*                                                                         *)
(* A straggler may therefore take the lock while the poller reads: between *)
(* its look at the lock and the store that frees it.  The two then work on *)
(* the slot together, and the store of the poller frees the straggler's    *)
(* lock.  The variable overlapped remembers that this has happened; what   *)
(* holds until then, and what holds all the same, are the properties.      *)
(*                                                                         *)
(* A poll merges the lenses of one key in all its regions into one value.  *)
(* What the other regions gave it before this lens is read is an input of  *)
(* the read.                                                               *)
(***************************************************************************)
EXTENDS Naturals, FiniteSets

CONSTANTS
    Threads,     \* recording threads
    Samples,     \* optics_dist_samples
    MaxRecords,  \* bound on the number of records
    Others       \* numbers of records that other regions may give the poll

ASSUME SamplesAssumption == Samples \in Nat \ {0}
ASSUME RecordsAssumption == MaxRecords \in Nat \ {0}
ASSUME OthersAssumption == Others \subseteq Nat /\ Others # {}

VARIABLES
    epoch,         \* header->epoch & 1
    lock, n, max, samples,  \* lens_dist.epochs[e]; an unused sample is 0
    pc, ep, i, seen, val,   \* locals of a record: epoch, index, loaded n, value
    ppc, pep,      \* poller: where it is, the epoch it vacated
    gotN, gotMax, got,      \* what the running read copied
    value,         \* struct optics_dist of the last read; len: result_len
    started,       \* values handed to record so far: the k-th record records k
    counted,       \* history: records that incremented n
    total,         \* sum of the n the poller collected
    published,     \* how often each value was among the samples collected
    overlapped     \* history: a thread took the lock of the slot that was read

slotVars == <<lock, n, max, samples>>
threadVars == <<pc, ep, i, seen, val, started, counted>>
readVars == <<ppc, pep, gotN, gotMax, got, value, total, published>>
pollVars == <<readVars, overlapped>>
vars == <<epoch, slotVars, threadVars, pollVars>>

Epochs == {0, 1}
Values == 1..MaxRecords
Indices == 0..(Samples - 1)
Reading == {"copy", "reset", "unlock"}
Locked == {"load", "pick", "store", "count", "unlock"}

\* lens_dist_reservoir_len
reservoir_len(len) == IF len > Samples THEN Samples ELSE len

TypeOK ==
    /\ epoch \in Epochs
    /\ lock \in [Epochs -> {0, 1}]
    /\ n \in [Epochs -> Nat]
    /\ max \in [Epochs -> 0..MaxRecords]
    /\ samples \in [Epochs -> [Indices -> 0..MaxRecords]]
    /\ pc \in [Threads -> {"idle", "lock", "fault", "dead"} \cup Locked]
    /\ ep \in [Threads -> Epochs]
    /\ i \in [Threads -> Nat]
    /\ seen \in [Threads -> Nat]
    /\ val \in [Threads -> 0..MaxRecords]
    /\ ppc \in {"idle", "check"} \cup Reading
    /\ pep \in Epochs
    /\ gotN \in Nat
    /\ gotMax \in 0..MaxRecords
    /\ got \in [Indices -> 0..MaxRecords]
    /\ value.n \in Nat /\ value.len \in Nat /\ DOMAIN value.samples = Indices
    /\ started \in 0..MaxRecords
    /\ counted \in Nat
    /\ total \in Nat
    /\ published \in [Values -> Nat]
    /\ overlapped \in BOOLEAN

Empty == [k \in Indices |-> 0]
NoValue == [n |-> 0, len |-> 0, samples |-> Empty]

Init ==
    /\ epoch = 0
    /\ lock = [e \in Epochs |-> 0]
    /\ n = [e \in Epochs |-> 0]
    /\ max = [e \in Epochs |-> 0]
    /\ samples = [e \in Epochs |-> Empty]
    /\ pc = [t \in Threads |-> "idle"]
    /\ ep = [t \in Threads |-> 0]
    /\ i = [t \in Threads |-> 0]
    /\ seen = [t \in Threads |-> 0]
    /\ val = [t \in Threads |-> 0]
    /\ ppc = "idle"
    /\ pep = 0
    /\ gotN = 0
    /\ gotMax = 0
    /\ got = Empty
    /\ value = NoValue
    /\ started = 0
    /\ counted = 0
    /\ total = 0
    /\ published = [v \in Values |-> 0]
    /\ overlapped = FALSE

-----------------------------------------------------------------------------
(* optics_dist_record                                                       *)

\* The epoch is read before the lock is taken.
record_epoch(t) ==
    /\ pc[t] = "idle"
    /\ started < MaxRecords
    /\ started' = started + 1
    /\ val' = [val EXCEPT ![t] = started + 1]
    /\ ep' = [ep EXCEPT ![t] = epoch]
    /\ pc' = [pc EXCEPT ![t] = "lock"]
    /\ UNCHANGED <<epoch, slotVars, i, seen, counted, pollVars>>

\* slock_lock: the compare-exchange that succeeds; the spin before it stutters.
slock_lock(t) ==
    /\ pc[t] = "lock"
    /\ lock[ep[t]] = 0
    /\ lock' = [lock EXCEPT ![ep[t]] = 1]
    /\ pc' = [pc EXCEPT ![t] = "load"]
    /\ overlapped' = (overlapped \/ (ppc \in Reading /\ pep = ep[t]))
    /\ UNCHANGED <<epoch, n, max, samples, ep, i, seen, val, started, counted, readVars>>

\* The bound of the reservoir.
Full(t) == n[ep[t]] >= Samples

\* i = dist->n; a full reservoir needs a random index.
record_load(t) ==
    /\ pc[t] = "load"
    /\ i' = [i EXCEPT ![t] = n[ep[t]]]
    /\ seen' = [seen EXCEPT ![t] = n[ep[t]]]
    /\ pc' = [pc EXCEPT ![t] = IF Full(t) THEN "pick" ELSE "store"]
    /\ UNCHANGED <<epoch, slotVars, ep, val, started, counted, pollVars>>

\* rng_gen_range(rng_global(), 0, dist->n): dist->n is loaded again after the
\* call of rng_global, and the range of an empty reservoir divides by zero.
record_pick(t) ==
    /\ pc[t] = "pick"
    /\ seen' = [seen EXCEPT ![t] = n[ep[t]]]
    /\ \E k \in IF n[ep[t]] = 0 THEN {0} ELSE 0..(n[ep[t]] - 1) :
           i' = [i EXCEPT ![t] = k]
    /\ pc' = [pc EXCEPT ![t] = IF n[ep[t]] = 0 THEN "fault" ELSE "store"]
    /\ UNCHANGED <<epoch, slotVars, ep, val, started, counted, pollVars>>

record_store(t) ==
    /\ pc[t] = "store"
    /\ samples' = IF i[t] < Samples
                  THEN [samples EXCEPT ![ep[t]][i[t]] = val[t]]
                  ELSE samples
    /\ pc' = [pc EXCEPT ![t] = "count"]
    /\ UNCHANGED <<epoch, lock, n, max, ep, i, seen, val, started, counted, pollVars>>

\* Faulty variant: the maximum is replaced by a smaller value as well.
Larger_last(t) == val[t]

Larger(t) == IF val[t] > max[ep[t]] THEN val[t] ELSE max[ep[t]]

\* dist->n++ is not atomic: it starts from n as it is or from the n loaded
\* earlier in the call.  The maximum follows.
record_count(t) ==
    /\ pc[t] = "count"
    /\ \E m \in {n[ep[t]], seen[t]} : n' = [n EXCEPT ![ep[t]] = m + 1]
    /\ max' = [max EXCEPT ![ep[t]] = Larger(t)]
    /\ counted' = counted + 1
    /\ pc' = [pc EXCEPT ![t] = "unlock"]
    /\ UNCHANGED <<epoch, lock, samples, ep, i, seen, val, started, pollVars>>

\* Faulty variant: the lock is not released.
slock_unlock_not(e) == lock

slock_unlock(e) == [lock EXCEPT ![e] = 0]

record_unlock(t) ==
    /\ pc[t] = "unlock"
    /\ lock' = slock_unlock(ep[t])
    /\ pc' = [pc EXCEPT ![t] = "idle"]
    /\ i' = [i EXCEPT ![t] = 0]
    /\ seen' = [seen EXCEPT ![t] = 0]
    /\ val' = [val EXCEPT ![t] = 0]
    /\ ep' = [ep EXCEPT ![t] = 0]
    /\ UNCHANGED <<epoch, n, max, samples, started, counted, pollVars>>

\* The client process dies: a lock that one of its threads holds stays taken
\* in the shared memory.
client_dies ==
    /\ \E t \in Threads : pc[t] # "dead"
    /\ pc' = [t \in Threads |-> "dead"]
    /\ ep' = [t \in Threads |-> 0]
    /\ i' = [t \in Threads |-> 0]
    /\ seen' = [t \in Threads |-> 0]
    /\ val' = [t \in Threads |-> 0]
    /\ UNCHANGED <<epoch, slotVars, started, counted, pollVars>>

-----------------------------------------------------------------------------
(* lens_dist_read, from the flip of the epoch on                            *)

Flipped == 1 - epoch

optics_epoch_inc ==
    /\ ppc = "idle"
    /\ epoch' = Flipped
    /\ pep' = epoch
    /\ ppc' = "check"
    /\ value' = NoValue
    /\ UNCHANGED <<slotVars, threadVars, gotN, gotMax, got, total, published, overlapped>>

\* Faulty variant: the lock is ignored.
Busy_never == FALSE

Busy == lock[pep] # 0

\* Faulty variant: the poller looks again until the lock is free.
Skipped_not == "check"

\* Where a busy lens leaves the poller: done with it.
Skipped == "idle"

\* slock_is_locked: the poll skips the lens, whose slot keeps what it holds.
read_busy ==
    /\ ppc = "check"
    /\ Busy
    /\ ppc' = Skipped
    /\ UNCHANGED <<epoch, slotVars, threadVars, pep, gotN, gotMax, got, value,
                   total, published, overlapped>>

\* The lock is free, and is not taken.
read_free ==
    /\ ppc = "check"
    /\ ~Busy
    /\ ppc' = "copy"
    /\ UNCHANGED <<epoch, slotVars, threadVars, pep, gotN, gotMax, got, value,
                   total, published, overlapped>>

\* n, max and the used part of the reservoir are copied.
read_copy ==
    /\ ppc = "copy"
    /\ gotN' = n[pep]
    /\ gotMax' = max[pep]
    /\ got' = [k \in Indices |-> IF k < reservoir_len(n[pep]) THEN samples[pep][k] ELSE 0]
    /\ ppc' = "reset"
    /\ UNCHANGED <<epoch, slotVars, threadVars, pep, value, total, published, overlapped>>

Cleared == [n EXCEPT ![pep] = 0]

read_reset ==
    /\ ppc = "reset"
    /\ max' = [max EXCEPT ![pep] = 0]
    /\ n' = Cleared
    /\ ppc' = "unlock"
    /\ UNCHANGED <<epoch, lock, samples, threadVars, pep, gotN, gotMax, got, value,
                   total, published, overlapped>>

\* What a poll holds that has merged m records of other regions: numbers beyond
\* those of this lens.
Other(m) ==
    [n |-> m, len |-> reservoir_len(m),
     samples |-> [k \in Indices |-> IF k < reservoir_len(m) THEN MaxRecords + k + 1 ELSE 0]]

\* Faulty variant: the last free place of the reservoir is not used.
ToCopy_short(len, m) ==
    IF len >= Samples THEN 0 ELSE IF Samples - len > m THEN m ELSE Samples - len - 1

\* How many of m samples fill up a reservoir of len.
ToCopy(len, m) ==
    IF len >= Samples THEN 0 ELSE IF Samples - len > m THEN m ELSE Samples - len

\* m samples are drawn one after the other for a reservoir that stands for len
\* records or more: the place of each, or Samples for none.
Draws(len, m) == {d \in [0..(m - 1) -> 0..Samples] : \A j \in 0..(m - 1) : d[j] < len + j}

\* The reservoir after such draws: a later one replaces an earlier.
Drawn(dst, src, from, m, d) ==
    [k \in Indices |->
        IF \E j \in 0..(m - 1) : d[j] = k
        THEN src[from + CHOOSE j \in 0..(m - 1) :
                            d[j] = k /\ \A l \in (j + 1)..(m - 1) : d[l] # k]
        ELSE dst[k]]

\* The larger reservoir is kept and the smaller merged into it: it fills up the
\* free places, then its samples are drawn for, or, when both are sampled, some
\* take the places of others.
MergeInto(dst, dst_len, src, src_len) ==
    LET copied == ToCopy(dst_len, src_len)
        left == src_len - copied
        full == [k \in Indices |-> IF k >= dst_len /\ k < dst_len + copied
                                   THEN src[k - dst_len] ELSE dst[k]]
        len == IF left = 0 THEN reservoir_len(dst_len + copied) ELSE Samples
        results == IF left = 0 THEN {full}
                   ELSE IF left <= Samples
                   THEN {Drawn(full, src, copied, left, d) : d \in Draws(dst_len + copied, left)}
                   ELSE {[k \in Indices |-> IF k \in picked THEN src[k] ELSE full[k]] :
                            picked \in SUBSET Indices}
    IN  {[len |-> len, samples |-> result] : result \in results}

lens_dist_merge(lhs, lhs_len, rhs, rhs_len) ==
    IF lhs_len >= rhs_len THEN MergeInto(lhs, lhs_len, rhs, rhs_len)
    ELSE MergeInto(rhs, rhs_len, lhs, lhs_len)

\* slock_unlock of a lock the poller does not hold; then, outside of the lock,
\* what was copied is merged into the value of the poll.
read_unlock ==
    /\ ppc = "unlock"
    /\ lock' = slock_unlock(pep)
    /\ \E m \in Others :
          IF gotN = 0 THEN value' = Other(m)
          ELSE \E r \in lens_dist_merge(got, gotN, Other(m).samples, m) :
                 value' = [n |-> m + gotN, len |-> r.len, samples |-> r.samples]
    /\ total' = total + gotN
    /\ published' = [v \in Values |->
                        published[v] + Cardinality({k \in Indices : got[k] = v})]
    /\ gotN' = 0
    /\ gotMax' = 0
    /\ got' = Empty
    /\ ppc' = "idle"
    /\ UNCHANGED <<epoch, n, max, samples, threadVars, pep, overlapped>>

-----------------------------------------------------------------------------
Locking(t) ==
    \/ record_load(t) \/ record_pick(t) \/ record_store(t)
    \/ record_count(t) \/ record_unlock(t)

Record(t) == record_epoch(t) \/ slock_lock(t) \/ Locking(t)

Poll ==
    \/ optics_epoch_inc \/ read_busy \/ read_free \/ read_copy \/ read_reset
    \/ read_unlock

Next == (\E t \in Threads : Record(t)) \/ client_dies \/ Poll

Spec == Init /\ [][Next]_vars

(* The poller polls for ever; a thread that holds the lock goes on, and one *)
(* that spins gets the lock once it stays free.                             *)
Fairness ==
    /\ WF_vars(Poll)
    /\ \A t \in Threads : WF_vars(Locking(t)) /\ WF_vars(slock_lock(t))

LiveSpec == Spec /\ Fairness

-----------------------------------------------------------------------------
(* Properties.                                                              *)

\* Every record that was counted is in one of the two slots, in the read that
\* is under way, or in what the poller collected: none is lost to the reset
\* that lens_dist_read does without the lock, and none is counted twice.
CountConserved ==
    total + (IF ppc = "unlock" THEN gotN ELSE 0) + n[0] + n[1] = counted

\* Only a straggler that takes the lock between the poller's look at it and the
\* poller's slock_unlock can make the lens lose a count or count it twice: a
\* lock that is held when the poller looks, a lock that is taken after the
\* read, and a client that dies with the lock are all harmless.
LostOnlyByOverlap == CountConserved \/ overlapped

\* The reservoir of a slot whose lock is free: the first n samples are values
\* of different records, at most the maximum, none collected before; the
\* maximum that is copied covers the samples that are copied with it; and a
\* value is among the samples of at most one poll.
SoundSlots ==
    /\ \A e \in Epochs :
           lock[e] = 0 =>
               \A k \in 0..(reservoir_len(n[e]) - 1) :
                   /\ samples[e][k] \in 1..max[e]
                   /\ published[samples[e][k]] = 0
                   /\ \A m \in 0..(reservoir_len(n[e]) - 1) :
                          samples[e][m] = samples[e][k] => m = k
    /\ \A k \in Indices : got[k] <= gotMax
    /\ \A v \in Values : published[v] <= 1

\* Until a straggler overlaps a read, the reservoirs are sound, although the
\* reset leaves the samples of the last poll where they are.
ReservoirSound == SoundSlots \/ overlapped

\* The value of a poll is filled as far as its count says, with samples of
\* different records that no earlier poll collected.
WholeValue ==
    /\ value.len = reservoir_len(value.n)
    /\ \A k \in 0..(value.len - 1) :
          /\ value.samples[k] # 0
          /\ value.samples[k] \in Values => published[value.samples[k]] = 1
          /\ \A l \in 0..(value.len - 1) : value.samples[l] = value.samples[k] => l = k

\* Until a straggler overlaps a read, lens_dist_merge yields a reservoir again,
\* so that the next region can be merged into it.
MergedWhole == WholeValue \/ overlapped

\* rng_gen_range is never asked for a number of an empty range.
NoEmptyRange == \A t \in Threads : pc[t] # "fault"

\* The count that lens_dist_record loads twice is reset in between, and the
\* client dies of a division by zero, only after a straggler overlapped a read.
\* The overlap may be an earlier one of another thread: its lock was freed by
\* the poller, so it frees in turn the lock of the thread that dies.
FaultOnlyByOverlap == NoEmptyRange \/ overlapped

\* A busy lens is only skipped: once clients stop recording, every record
\* reaches the poller, unless the client died or a read was overlapped.
AllCollected == <>[](\/ total = started \/ overlapped
                     \/ \E t \in Threads : pc[t] = "dead")

\* The poller does not wait for a lock: it comes out of every read, also when
\* a client died inside the critical section and the lock is never released,
\* and also when stragglers overlap its reads.
NeverStuck == []<>(ppc = "idle")

=============================================================================
