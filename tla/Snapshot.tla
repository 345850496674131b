------------------------------ MODULE Snapshot ------------------------------
(***************************************************************************)
(* The epoch snapshot of arch.md, as lens_counter.c, lens_histo.c and      *)
(* lens_quantile.c implement it: every counting cell has two slots; a      *)
(* record reads the epoch and then adds to that slot, and a poll flips the *)
(* epoch and then drains the slot it vacated, cell by cell.                *)
(*                                                                         *)
(* The two steps of a record are not atomic: a thread that read the epoch  *)
(* before a flip and adds after it is a straggler, and may be any number   *)
(* of polls late.  The poller's 1ms nap makes stragglers rare and promises *)
(* nothing, so the model does not rely on it.                              *)
(***************************************************************************)
EXTENDS Naturals

CONSTANTS
    Threads,     \* recording threads
    Cells,       \* atomic counters: value of a counter, below/above/counts of
                 \* a histogram, count of a quantile
    MaxRecords,  \* bound on the records of one cell
    MaxCuts      \* bound on the polls that are cut short: killed, or left by
                 \* the walk over the lenses before its end

ASSUME BoundAssumption == MaxRecords \in Nat /\ MaxCuts \in Nat

VARIABLES
    epoch,      \* header->epoch & 1
    value,      \* value[e][c]: the slot of cell c for epoch e
    pc, ep, cell,  \* locals of a record call: the epoch it read, its cell
    ppc,        \* poller: idle, reading
    pep,        \* the epoch the poll vacated (result of optics_epoch_inc)
    todo,       \* cells the poll has not drained yet
    poll,       \* values collected by the running poll
    published,  \* sum of what the backends were given
    recorded,   \* history: completed records per cell
    mark, mark2,\* history: recorded at the last flip, and at the one before,
                \* 0 for a flip before the last poll that was cut short before
                \* it read the cell
    lost,       \* history: what killed polls had taken from the slots
    cuts        \* history: number of polls cut short

threadVars == <<pc, ep, cell>>
markVars == <<mark, mark2>>
cutVars == <<lost, cuts>>
pollVars == <<ppc, pep, todo, poll, published, markVars, cutVars>>
vars == <<epoch, value, threadVars, pollVars, recorded>>

Epochs == {0, 1}
Zero == [c \in Cells |-> 0]

TypeOK ==
    /\ epoch \in Epochs
    /\ value \in [Epochs -> [Cells -> Nat]]
    /\ pc \in [Threads -> {"idle", "add"}]
    /\ ep \in [Threads -> Epochs]
    /\ cell \in [Threads -> Cells]
    /\ ppc \in {"idle", "reading"}
    /\ pep \in Epochs
    /\ todo \subseteq Cells
    /\ poll \in [Cells -> Nat]
    /\ published \in [Cells -> Nat]
    /\ recorded \in [Cells -> Nat]
    /\ mark \in [Cells -> Nat]
    /\ mark2 \in [Cells -> Nat]
    /\ lost \in [Cells -> Nat]
    /\ cuts \in Nat

Init ==
    /\ epoch = 0
    /\ value = [e \in Epochs |-> Zero]
    /\ pc = [t \in Threads |-> "idle"]
    /\ ep = [t \in Threads |-> 0]
    /\ cell \in [Threads -> Cells]
    /\ ppc = "idle"
    /\ pep = 0
    /\ todo = {}
    /\ poll = Zero
    /\ published = Zero
    /\ recorded = Zero
    /\ mark = Zero
    /\ mark2 = Zero
    /\ lost = Zero
    /\ cuts = 0

-----------------------------------------------------------------------------
\* optics_counter_inc and its like: the epoch is an argument of the lens's own
\* record function, read before the slot is reached.
record_epoch(t, c) ==
    /\ pc[t] = "idle"
    /\ recorded[c] < MaxRecords
    /\ ep' = [ep EXCEPT ![t] = epoch]
    /\ cell' = [cell EXCEPT ![t] = c]
    /\ pc' = [pc EXCEPT ![t] = "add"]
    /\ UNCHANGED <<epoch, value, pollVars, recorded>>

\* atomic_fetch_add on the slot.
record_add(t) ==
    /\ pc[t] = "add"
    /\ value' = [value EXCEPT ![ep[t]][cell[t]] = @ + 1]
    /\ recorded' = [recorded EXCEPT ![cell[t]] = @ + 1]
    /\ pc' = [pc EXCEPT ![t] = "idle"]
    /\ ep' = [ep EXCEPT ![t] = 0]
    /\ UNCHANGED <<epoch, cell, pollVars>>

-----------------------------------------------------------------------------
Flipped == 1 - epoch

\* Faulty variants: the poll reads the slot that records now go to, or always
\* the same one.
Vacated_new == 1 - epoch
Vacated_fixed == 0

\* The parity before the increment names the slot that is vacated.
Vacated == epoch

\* optics_epoch_inc.
optics_epoch_inc ==
    /\ ppc = "idle"
    /\ epoch' = Flipped
    /\ pep' = Vacated
    /\ todo' = Cells
    /\ poll' = Zero
    /\ mark' = recorded
    /\ mark2' = mark
    /\ ppc' = "reading"
    /\ UNCHANGED <<value, threadVars, published, recorded, cutVars>>

\* Faulty variant: the slot is read and not reset.
Drained_not(c) == value

\* The exchange leaves 0 in the slot.
Drained(c) == [value EXCEPT ![pep][c] = 0]

\* lens_counter_read, lens_histo_read, lens_quantile_read: one exchange.
read(c) ==
    /\ ppc = "reading"
    /\ c \in todo
    /\ poll' = [poll EXCEPT ![c] = @ + value[pep][c]]
    /\ value' = Drained(c)
    /\ todo' = todo \ {c}
    /\ UNCHANGED <<epoch, threadVars, ppc, pep, published, recorded, markVars, cutVars>>

\* optics_foreach_lens breaks off: it cannot map a lens, and returns without
\* the cells behind it.  The poller drops that result.
foreach_broken ==
    /\ cuts < MaxCuts
    /\ ppc = "reading"
    /\ todo # {}
    /\ cuts' = cuts + 1
    /\ mark' = [c \in Cells |-> IF c \in todo THEN 0 ELSE mark[c]]
    /\ mark2' = [c \in Cells |-> IF c \in todo THEN 0 ELSE mark2[c]]
    /\ todo' = {}
    /\ UNCHANGED <<epoch, value, threadVars, ppc, pep, poll, published, recorded, lost>>

\* The walk is over, whether it read every cell or broke off: the backends get
\* the values of the poll.
backend_record ==
    /\ ppc = "reading"
    /\ todo = {}
    /\ published' = [c \in Cells |-> published[c] + poll[c]]
    /\ poll' = Zero
    /\ ppc' = "idle"
    /\ UNCHANGED <<epoch, value, threadVars, pep, todo, recorded, markVars, cutVars>>

\* The process is killed: what the poll had collected is lost with it, and
\* what it had not read yet waits for another poll to vacate the slot.
poller_killed ==
    /\ cuts < MaxCuts
    /\ ppc = "reading"
    /\ cuts' = cuts + 1
    /\ lost' = [c \in Cells |-> lost[c] + poll[c]]
    /\ mark' = Zero /\ mark2' = Zero
    /\ todo' = {}
    /\ poll' = Zero
    /\ ppc' = "idle"
    /\ UNCHANGED <<epoch, value, threadVars, pep, published, recorded>>

-----------------------------------------------------------------------------
Record(t) == (\E c \in Cells : record_epoch(t, c)) \/ record_add(t)

Poll == optics_epoch_inc \/ (\E c \in Cells : read(c)) \/ backend_record

Next == (\E t \in Threads : Record(t)) \/ Poll \/ foreach_broken \/ poller_killed

Spec == Init /\ [][Next]_vars

(* The polling thread polls for ever, and a record call once begun ends.    *)
(* Polls cut short are finitely many: MaxCuts bounds them.                  *)
Fairness == WF_vars(Poll) /\ \A t \in Threads : WF_vars(record_add(t))

LiveSpec == Spec /\ Fairness

-----------------------------------------------------------------------------
(* Properties.                                                              *)

\* No event is counted twice, and none is lost but to a poll that was killed
\* with it: what was recorded is what was published or lost so, plus what the
\* poll holds, plus what is left in the two slots, however late a straggler
\* adds and wherever the poll stands.
Conservation ==
    \A c \in Cells :
        recorded[c] = published[c] + lost[c] + poll[c] + value[0][c] + value[1][c]

\* A straggler delays an event by one poll and never by more: between two
\* polls, whatever was recorded before the last poll but one is published,
\* counting from the last poll that was killed, or whose walk broke off before
\* it reached the cell.
TwoPolls == ppc = "idle" => \A c \in Cells : mark2[c] <= published[c] + lost[c]

\* An event that is not a straggler's is published by the very next poll that
\* reaches its cell and is not killed: at the end of such a poll the vacated
\* slot holds at most what was recorded since the flip.
VacatedSlot ==
    ppc = "idle" => \A c \in Cells : value[1 - epoch][c] <= recorded[c] - mark[c]

\* The delay of an event is bounded: none for one that was recorded before the
\* flip of optics_epoch_inc, one poll for a straggler's.  A poll that is killed
\* starts the count again for every cell, and a walk that breaks off for the
\* cells it did not reach, and for no other.
BoundedDelay == VacatedSlot /\ TwoPolls

D == INSTANCE Delivery WITH Cells <- Cells, recorded <- recorded, published <- published

\* The two-slot mechanism implements at-most-once delivery, also when polls
\* are cut short and take what they had read with them.
ImplementsDelivery == D!Spec

\* Once clients stop recording and polls are no longer cut short, everything
\* recorded gets published, also what a broken walk left in its slot, but for
\* what went down with a killed poll.
AllPublished == <>[](\A c \in Cells : recorded[c] = published[c] + lost[c])

=============================================================================
