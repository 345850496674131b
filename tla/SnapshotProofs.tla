--------------------------- MODULE SnapshotProofs ---------------------------
(***************************************************************************)
(* Proofs about Snapshot, for any set of threads and cells and any number  *)
(* of records, of polls and of polls cut short.                                            *)
(***************************************************************************)
EXTENDS Snapshot, TLAPS

\* A poll drains the slot that the flip vacated, and holds nothing outside.
PollInv ==
    /\ ppc = "reading" => pep = 1 - epoch
    /\ ppc = "idle" => todo = {} /\ poll = Zero

\* How old the events in the two slots can be: see the README.
AgeInv ==
    \A c \in Cells :
        /\ mark2[c] <= mark[c] /\ mark[c] <= recorded[c]
        /\ value[epoch][c] + mark2[c] <= recorded[c]
        /\ c \notin todo => /\ value[1 - epoch][c] + mark[c] <= recorded[c]
                            /\ value[0][c] + value[1][c] + mark2[c] <= recorded[c]

IndInv == TypeOK /\ PollInv /\ Conservation

\* Every step preserves the type invariant,
LEMMA TypeStep ==
    ASSUME TypeOK, [Next]_vars
    PROVE  TypeOK'
<1> USE DEF TypeOK, Epochs, Zero, threadVars, pollVars, markVars, cutVars
<1>1. ASSUME NEW t \in Threads, NEW c \in Cells, record_epoch(t, c)
      PROVE  TypeOK'
  BY <1>1 DEF record_epoch
<1>2. ASSUME NEW t \in Threads, record_add(t)
      PROVE  TypeOK'
  BY <1>2 DEF record_add
<1>3. ASSUME optics_epoch_inc
      PROVE  TypeOK'
  BY <1>3 DEF optics_epoch_inc, Flipped, Vacated
<1>4. ASSUME NEW c \in Cells, read(c)
      PROVE  TypeOK'
  BY <1>4 DEF read, Drained
<1>5. ASSUME backend_record
      PROVE  TypeOK'
  BY <1>5 DEF backend_record
<1>6. ASSUME poller_killed
      PROVE  TypeOK'
  BY <1>6 DEF poller_killed
<1>7. ASSUME UNCHANGED vars
      PROVE  TypeOK'
  BY <1>7 DEF vars
<1>8. ASSUME foreach_broken
      PROVE  TypeOK'
  BY <1>8 DEF foreach_broken
<1> QED
  BY <1>1, <1>2, <1>3, <1>4, <1>5, <1>6, <1>7, <1>8 DEF Next, Record, Poll

\* ... and the poll's locals and the sum over all the places of an event,
LEMMA SumStep ==
    ASSUME IndInv, [Next]_vars
    PROVE  PollInv' /\ Conservation'
<1> USE DEF IndInv, TypeOK, PollInv, Conservation, Epochs, Zero, threadVars, pollVars, markVars, cutVars
<1>1. ASSUME NEW t \in Threads, NEW c \in Cells, record_epoch(t, c)
      PROVE  PollInv' /\ Conservation'
  BY <1>1 DEF record_epoch
<1>2. ASSUME NEW t \in Threads, record_add(t)
      PROVE  PollInv' /\ Conservation'
  BY <1>2 DEF record_add
<1>3. ASSUME optics_epoch_inc
      PROVE  PollInv' /\ Conservation'
  BY <1>3 DEF optics_epoch_inc, Flipped, Vacated
<1>4. ASSUME NEW c \in Cells, read(c)
      PROVE  PollInv' /\ Conservation'
  BY <1>4 DEF read, Drained
<1>5. ASSUME backend_record
      PROVE  PollInv' /\ Conservation'
  BY <1>5 DEF backend_record
<1>6. ASSUME poller_killed
      PROVE  PollInv' /\ Conservation'
  BY <1>6 DEF poller_killed
<1>7. ASSUME UNCHANGED vars
      PROVE  PollInv' /\ Conservation'
  BY <1>7 DEF vars
<1>8. ASSUME foreach_broken
      PROVE  PollInv' /\ Conservation'
  BY <1>8 DEF foreach_broken
<1> QED
  BY <1>1, <1>2, <1>3, <1>4, <1>5, <1>6, <1>7, <1>8 DEF Next, Record, Poll

\* ... so they hold throughout, wherever polls are cut short.
THEOREM IndInvariant == Spec => []IndInv
<1>1. Init => IndInv
  BY DEF Init, IndInv, TypeOK, PollInv, Conservation, Epochs, Zero
<1>2. IndInv /\ [Next]_vars => IndInv'
  BY TypeStep, SumStep DEF IndInv
<1> QED
  BY <1>1, <1>2, PTL DEF Spec

\* Every variable of the snapshot mechanism keeps its type.
THEOREM TypeCorrect == Spec => []TypeOK
<1>1. IndInv => TypeOK
  BY DEF IndInv
<1> QED
  BY <1>1, IndInvariant, PTL

\* Recorded events are never counted twice, and never lost but with a poll
\* that is killed.
THEOREM NothingLost == Spec => []Conservation
<1>1. IndInv => Conservation
  BY DEF IndInv
<1> QED
  BY <1>1, IndInvariant, PTL

\* The two slots, with stragglers and killed polls, deliver at most once.
THEOREM DeliversAtMostOnce == Spec => ImplementsDelivery
<1>1. Init => D!Init
  BY DEF Init, D!Init, Zero
<1>2. ASSUME IndInv, [Next]_vars
      PROVE  [D!Next]_(D!dvars)
  <2> USE <1>2 DEF IndInv, TypeOK, D!dvars, threadVars, pollVars, markVars, cutVars
  <2>1. ASSUME NEW t \in Threads, record_add(t)
        PROVE  D!Record(cell[t])
    BY <2>1 DEF record_add, D!Record
  <2>2. ASSUME backend_record
        PROVE  D!Publish
    BY <2>2 DEF backend_record, D!Publish, Conservation, Epochs
  <2>3. ASSUME NEW t \in Threads, NEW c \in Cells, record_epoch(t, c)
        PROVE  UNCHANGED D!dvars
    BY <2>3 DEF record_epoch
  <2>4. ASSUME optics_epoch_inc \/ (\E c \in Cells : read(c)) \/ foreach_broken \/ poller_killed
        PROVE  UNCHANGED D!dvars
    BY <2>4 DEF optics_epoch_inc, read, foreach_broken, poller_killed
  <2>5. ASSUME UNCHANGED vars
        PROVE  UNCHANGED D!dvars
    BY <2>5 DEF vars
  <2> QED
    BY <2>1, <2>2, <2>3, <2>4, <2>5 DEF Next, Record, Poll, D!Next
<1> QED
  BY <1>1, <1>2, IndInvariant, PTL DEF Spec, ImplementsDelivery, D!Spec

\* Every step preserves the bound on the age of unpublished events.
LEMMA AgeStep ==
    ASSUME IndInv, AgeInv, [Next]_vars
    PROVE  AgeInv'
<1> USE DEF IndInv, TypeOK, PollInv, Conservation, AgeInv, Epochs, Zero, threadVars, pollVars, markVars, cutVars
<1>1. ASSUME NEW t \in Threads, NEW c \in Cells, record_epoch(t, c)
      PROVE  AgeInv'
  BY <1>1 DEF record_epoch
<1>2. ASSUME NEW t \in Threads, record_add(t)
      PROVE  AgeInv'
  BY <1>2 DEF record_add
<1>3. ASSUME optics_epoch_inc
      PROVE  AgeInv'
  BY <1>3 DEF optics_epoch_inc, Flipped, Vacated
<1>4. ASSUME NEW c \in Cells, read(c)
      PROVE  AgeInv'
  BY <1>4 DEF read, Drained
<1>5. ASSUME backend_record
      PROVE  AgeInv'
  BY <1>5 DEF backend_record
<1>6. ASSUME poller_killed
      PROVE  AgeInv'
  BY <1>6 DEF poller_killed
<1>7. ASSUME UNCHANGED vars
      PROVE  AgeInv'
  BY <1>7 DEF vars
<1>8. ASSUME foreach_broken
      PROVE  AgeInv'
  BY <1>8 DEF foreach_broken
<1> QED
  BY <1>1, <1>2, <1>3, <1>4, <1>5, <1>6, <1>7, <1>8 DEF Next, Record, Poll

\* The age bound holds throughout.
LEMMA AgeInvariant == Spec => []AgeInv
<1>1. Init => AgeInv
  BY DEF Init, AgeInv, Zero, Epochs
<1>2. IndInv /\ AgeInv /\ [Next]_vars => AgeInv'
  BY AgeStep
<1> QED
  BY <1>1, <1>2, IndInvariant, PTL DEF Spec

\* A straggler's event is at most one poll late, counting from the last poll
\* that was killed or broke off before its cell.
THEOREM AtMostOnePollLate == Spec => []TwoPolls
<1>1. IndInv /\ AgeInv => TwoPolls
  <2> SUFFICES ASSUME IndInv, AgeInv, ppc = "idle", NEW c \in Cells
               PROVE  mark2[c] <= published[c] + lost[c]
    BY DEF TwoPolls
  <2>1. todo = {} /\ poll[c] = 0
    BY DEF IndInv, PollInv, Zero
  <2>2. value[0][c] + value[1][c] + mark2[c] <= recorded[c]
    BY <2>1 DEF AgeInv
  <2>3. recorded[c] = published[c] + lost[c] + value[0][c] + value[1][c]
    BY <2>1 DEF Conservation, IndInv, TypeOK, Epochs
  <2> QED
    BY <2>2, <2>3 DEF IndInv, TypeOK, Epochs
<1> QED
  BY <1>1, IndInvariant, AgeInvariant, PTL

\* An event that is not a straggler's is published by the next poll that
\* reaches its cell and is not killed.
THEOREM VacatedSlotDrained == Spec => []VacatedSlot
<1>1. IndInv /\ AgeInv => VacatedSlot
  <2> SUFFICES ASSUME IndInv, AgeInv, ppc = "idle", NEW c \in Cells
               PROVE  value[1 - epoch][c] <= recorded[c] - mark[c]
    BY DEF VacatedSlot
  <2>1. value[1 - epoch][c] + mark[c] <= recorded[c]
    BY DEF IndInv, PollInv, AgeInv
  <2>2. value[1 - epoch][c] \in Nat /\ mark[c] \in Nat /\ recorded[c] \in Nat
    BY DEF IndInv, TypeOK, Epochs
  <2> QED
    BY <2>1, <2>2
<1> QED
  BY <1>1, IndInvariant, AgeInvariant, PTL

\* Both bounds on the delay of an event, per cell and whatever walks break off.
THEOREM DelayBounded == Spec => []BoundedDelay
<1>1. VacatedSlot /\ TwoPolls => BoundedDelay
  BY DEF BoundedDelay
<1> QED
  BY <1>1, VacatedSlotDrained, AtMostOnePollLate, PTL
=============================================================================
