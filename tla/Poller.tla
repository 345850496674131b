------------------------------- MODULE Poller -------------------------------
(***************************************************************************)
(* One polling process and the regions of several clients: poller_poll.c,  *)
(* poller.c, and the two loops that drive it, the thread of                *)
(* poller_thread.c (ended by cancellation) and the daemon of opticsd.c     *)
(* (ended by SIGINT).                                                      *)
(*                                                                         *)
(* A poll lists the regions, flips the epoch of all of them, naps, reads   *)
(* every lens into one table keyed by prefix.host.name, and hands each     *)
(* entry to one backend after the other.  Regions of different processes   *)
(* may hold lenses of the same key, and nothing makes them agree on its    *)
(* type.                                                                   *)
(*                                                                         *)
(* A lens is its type, its layout (bucket layout of a histogram, target of *)
(* a quantile, 0 otherwise) and the events its slots count.  Records are   *)
(* single steps: stragglers are the subject of Snapshot and DistLens.      *)
(***************************************************************************)
EXTENDS Integers, FiniteSets, SequencesExt

CONSTANTS
    Regions,      \* regions that can be in /dev/shm
    Keys,         \* full metric keys
    Lenses,       \* lenses a region can hold: [type, layout]
    Contents,     \* what the regions may hold: Regions -> Keys -> Lenses or None
    Backends,     \* the sequence of backends that the program registers
    MaxOptics,    \* poller_max_optics, 128 in the code
    MaxBackends,  \* poller_max_backends, 8 in the code
    Times,        \* what the wall clock can say at a poll
    Created,      \* what it said when a region was created
    MaxRecords,   \* bound on the events of a model run
    MaxPolls,     \* bound on the polls of a model run
    None          \* no lens, no value

ASSUME BoundsAssumption == MaxOptics \in Nat \ {0} /\ MaxBackends \in Nat
ASSUME RegionsAssumption == IsFiniteSet(Regions)
ASSUME TimesAssumption == Times \subseteq Nat /\ Created \in [Regions -> Nat]

VARIABLES
    lens,            \* the lens of each region for each key
    slot,            \* slot[r][e][k]: events in the slot of epoch e
    epoch,           \* header->epoch & 1
    epoch_last_inc,  \* header->epoch_last_inc
    backends,        \* poller->backends
    driver,          \* who runs the poller: thread or daemon
    stop,            \* pthread_cancel was called, or SIGINT arrived
    ppc, ts,
    dir,             \* directory entries not yet handed to the callback
    list,            \* to_poll: region, last_poll and epoch of each item
    at,              \* loop index i; while listing, 0 until an entry was met
    todo,            \* lenses of item i that are not read yet
    values,          \* the table of the poll
    heard,           \* backends that were told of the entry of a key so far
    \* history variables
    polls,
    recorded,        \* events recorded per region and key
    told,            \* events the i-th backend was told of, per key
    missed,          \* events it was not told of: the thread was cancelled
    lost,            \* events that were drained and dropped, per key
    met,             \* regions that this poll has read into the value of a key
    covered,         \* sum of the elapsed times a region was read with
    steady           \* every poll so far was later than the last_poll it met

regionVars == <<lens, slot, epoch, epoch_last_inc, recorded>>
pollVars == <<ts, dir, list, at, todo, values, heard>>
driverVars == <<driver, stop, backends>>
history == <<polls, told, missed, lost, met, covered, steady>>
vars == <<regionVars, ppc, pollVars, driverVars, history>>

Epochs == {0, 1}
Phases == {"setup", "sleep", "list", "flip", "nap", "read", "record", "ended", "aborted"}
Value == [type : {l.type : l \in Lenses}, layout : Nat, count : Nat, elapsed : Nat]
Item == [region : Regions, last_poll : Nat, epoch : Epochs]
LensTypes == {"counter", "gauge", "dist", "histo", "quantile"}

ASSUME LensesAssumption ==
    /\ Lenses \subseteq [type : LensTypes, layout : Nat]
    /\ Contents \subseteq [Regions -> [Keys -> Lenses \cup {None}]]
    /\ None \notin Lenses /\ None \notin Value
ASSUME BackendsAssumption == Backends \in Seq(Range(Backends))

TypeOK ==
    /\ lens \in [Regions -> [Keys -> Lenses \cup {None}]]
    /\ slot \in [Regions -> [Epochs -> [Keys -> Nat]]]
    /\ epoch \in [Regions -> Epochs]
    /\ epoch_last_inc \in [Regions -> Nat]
    /\ ppc \in Phases
    /\ dir \subseteq Regions
    /\ list \in Seq(Item)
    /\ todo \subseteq Keys
    /\ values \in [Keys -> Value \cup {None}]
    /\ heard \in [Keys -> Nat]

NoneMet == [k \in Keys |-> {}]

Init ==
    /\ lens \in Contents
    /\ slot = [r \in Regions |-> [e \in Epochs |-> [k \in Keys |-> 0]]]
    /\ epoch = [r \in Regions |-> 0]
    /\ epoch_last_inc = Created
    /\ backends = <<>>
    /\ driver \in {"thread", "daemon"}
    /\ stop = FALSE
    /\ ppc = "setup"
    /\ ts = 0
    /\ dir = {} /\ list = <<>> /\ at = 1 /\ todo = {}
    /\ values = [k \in Keys |-> None]
    /\ heard = [k \in Keys |-> 0]
    /\ polls = 0
    /\ recorded = [r \in Regions |-> [k \in Keys |-> 0]]
    /\ told = [i \in 1..MaxBackends |-> [k \in Keys |-> 0]]
    /\ missed = [i \in 1..MaxBackends |-> [k \in Keys |-> 0]]
    /\ lost = [k \in Keys |-> 0]
    /\ met = NoneMet
    /\ covered = [r \in Regions |-> 0]
    /\ steady = TRUE

-----------------------------------------------------------------------------
\* A client records one event; a gauge keeps one value outside the epochs.
Total(f) == FoldFunction(LAMBDA x, y : x + y, 0, f)
record(r, k) ==
    /\ lens[r][k] # None
    /\ Total([q \in Regions |-> Total(recorded[q])]) < MaxRecords
    /\ IF lens[r][k].type = "gauge"
       THEN slot' = [slot EXCEPT ![r] = [e \in Epochs |-> [slot[r][e] EXCEPT ![k] = 1]]]
       ELSE slot' = [slot EXCEPT ![r][epoch[r]][k] = @ + 1]
    /\ recorded' = [recorded EXCEPT ![r][k] = @ + 1]
    /\ UNCHANGED <<lens, epoch, epoch_last_inc, ppc, pollVars, driverVars, history>>

HasRoom == Len(backends) < MaxBackends

\* Backends are registered before the loop starts; one too many is refused.
optics_poller_backend ==
    /\ ppc = "setup"
    /\ IF at <= Len(Backends)
       THEN /\ backends' = IF HasRoom THEN Append(backends, Backends[at]) ELSE backends
            /\ at' = at + 1 /\ ppc' = ppc
       ELSE ppc' = "sleep" /\ at' = 1 /\ UNCHANGED backends
    /\ UNCHANGED <<regionVars, ts, dir, list, todo, values, heard, driver, stop, history>>

-----------------------------------------------------------------------------
\* A cancelled thread does not come out of a sleep.
Cancelled == driver = "thread" /\ stop

\* optics_poller_poll: shm_foreach opens the directory, which may be empty.  A
\* region that has gone, or is not complete yet, is one that does not open.
poll_at(now, entries) ==
    /\ ppc = "sleep" /\ ~Cancelled
    /\ polls < MaxPolls \/ stop
    /\ polls' = IF stop THEN polls ELSE polls + 1
    /\ ts' = now
    /\ dir' = entries
    /\ list' = <<>> /\ at' = 0
    /\ ppc' = "list"
    /\ UNCHANGED <<regionVars, todo, values, heard, driverVars, told, missed, lost, met, covered, steady>>

\* Faulty variant: the array is taken to be one item longer.
ListFull_late(items) == Len(items) > MaxOptics

\* poller_shm_cb breaks off the listing when the array is full.
ListFull(items) == Len(items) >= MaxOptics

\* poller_shm_cb: a region that does not open is skipped.
poller_shm_cb(r, opens) ==
    /\ ppc = "list"
    /\ r \in dir
    /\ LET items == IF opens
                    THEN Append(list, [region |-> r, last_poll |-> 0, epoch |-> 0])
                    ELSE list
       IN  /\ list' = items
           /\ dir' = IF opens /\ ListFull(items) THEN {} ELSE dir \ {r}
           /\ ppc' = IF dir' = {} /\ items # <<>> THEN "flip" ELSE ppc
           /\ at' = 1
    /\ UNCHANGED <<regionVars, ts, todo, values, heard, driverVars, history>>

\* Faulty variant: the daemon's loop does not look at the flag.
Interrupted_never == FALSE

Interrupted == driver = "daemon" /\ stop

\* The loop that called optics_poller_poll goes on: the daemon's looks at the
\* signal, the thread's sleeps.
Returned ==
    /\ ppc' = IF Interrupted THEN "ended" ELSE "sleep"
    /\ list' = <<>> /\ at' = 1 /\ ts' = 0

\* Nothing was opened.  When the directory had no entry at all, shm_foreach
\* returns an uninitialised value, which may read as shm_err; the daemon
\* aborts when a poll fails.
poll_nothing ==
    /\ ppc = "list"
    /\ dir = {} /\ list = <<>>
    /\ \/ Returned
       \/ at = 0 /\ driver = "daemon" /\ ppc' = "aborted" /\ UNCHANGED <<ts, list, at>>
    /\ UNCHANGED <<regionVars, dir, todo, values, heard, driverVars, history>>

\* Faulty variant: the time of the poll is not stored in the region.
LastInc_kept(r) == epoch_last_inc[r]

LastInc(r) == ts

\* optics_epoch_inc_at of one region; the others still count into the slot
\* that this poll will read.
optics_epoch_inc_at ==
    /\ ppc = "flip"
    /\ LET r == list[at].region
       IN  /\ list' = [list EXCEPT ![at].last_poll = epoch_last_inc[r],
                                   ![at].epoch = epoch[r]]
           /\ epoch_last_inc' = [epoch_last_inc EXCEPT ![r] = LastInc(r)]
           /\ epoch' = [epoch EXCEPT ![r] = 1 - @]
           /\ steady' = (steady /\ ts > epoch_last_inc[r])
    /\ IF at = Len(list) THEN ppc' = "nap" /\ at' = 1 ELSE ppc' = ppc /\ at' = at + 1
    /\ UNCHANGED <<lens, slot, recorded, ts, dir, todo, values, heard, driverVars,
                   polls, told, missed, lost, met, covered>>

\* The elapsed time of an item is never 0, whatever the clock did.
Elapsed(item) == IF ts > item.last_poll THEN ts - item.last_poll ELSE 1

\* poller_poll_optics starts on item i: optics_foreach_lens visits every lens.
Visit(i) ==
    LET r == list[i].region
    IN  /\ at' = i
        /\ todo' = {k \in Keys : lens[r][k] # None}
        /\ covered' = [covered EXCEPT ![r] = @ + Elapsed(list[i])]

nap ==
    /\ ppc = "nap" /\ ~Cancelled
    /\ ppc' = "read"
    /\ Visit(1)
    /\ UNCHANGED <<regionVars, ts, dir, list, values, heard, driverVars,
                   polls, told, missed, lost, met, steady>>

\* Faulty variant: the time of the first region is kept.
Longer_first(v, e) == v

\* A key that meets a longer elapsed time takes it.
Longer(v, e) == IF e > v.elapsed THEN [v EXCEPT !.elapsed = e] ELSE v

\* poller_get_value: the first lens of a key decides its type.
poller_get_value(k, l, e) ==
    IF values[k] = None
    THEN [type |-> l.type, layout |-> 0, count |-> 0, elapsed |-> e]
    ELSE Longer(values[k], e)

\* Faulty variant: the cell is exchanged before anything is compared.
Drains_early(l, v) == l.type # "gauge"

\* Whether a read of lens l for value v exchanges the cell with 0.  lens_sub_ptr
\* refuses another type, a histogram refuses another layout before it touches
\* the cell, a quantile has already exchanged it when it compares the target.
Drains(l, v) ==
    /\ l.type = v.type
    /\ l.type # "gauge"
    /\ l.type = "histo" => v.layout \in {0, l.layout}

\* The reads of the five lenses: what the value becomes when the lens holds n.
lens_counter_read(l, v, n) == [v EXCEPT !.count = @ + n]

lens_gauge_read(l, v, n) == [v EXCEPT !.count = n]

lens_dist_read(l, v, n) == [v EXCEPT !.count = @ + n]

\* The first histogram of a key lends it its buckets.
lens_histo_read(l, v, n) ==
    IF v.layout \in {0, l.layout}
    THEN [v EXCEPT !.layout = l.layout, !.count = @ + n] ELSE v

\* The first quantile is taken over; the others are counted if they agree on
\* the target.  Which sample is kept is left out.
lens_quantile_read(l, v, n) ==
    CASE v.layout = 0 -> [v EXCEPT !.layout = l.layout, !.count = n]
      [] v.layout # 0 /\ v.layout = l.layout -> [v EXCEPT !.count = @ + n]
      [] v.layout # 0 /\ v.layout # l.layout -> v

\* Each read refuses a lens of another type than the value's.
Merged(l, v, n) ==
    IF l.type # v.type THEN v ELSE
    CASE l.type = "counter" -> lens_counter_read(l, v, n)
      [] l.type = "gauge" -> lens_gauge_read(l, v, n)
      [] l.type = "dist" -> lens_dist_read(l, v, n)
      [] l.type = "histo" -> lens_histo_read(l, v, n)
      [] l.type = "quantile" -> lens_quantile_read(l, v, n)

\* poller_poll_lens; a distribution whose lock is held is left for later.
poller_poll_lens(k, busy) ==
    /\ ppc = "read"
    /\ k \in todo
    /\ LET item == list[at]
           r == item.region
           l == lens[r][k]
           n == slot[r][item.epoch][k]
           v == poller_get_value(k, l, Elapsed(item))
           m == IF busy THEN v ELSE Merged(l, v, n)
           drained == Drains(l, v) /\ ~busy
       IN  /\ busy => l.type = "dist" /\ v.type = "dist"
           /\ values' = [values EXCEPT ![k] = m]
           /\ slot' = [slot EXCEPT ![r][item.epoch][k] = IF drained THEN 0 ELSE @]
           /\ lost' = IF drained THEN [lost EXCEPT ![k] = @ + v.count + n - m.count] ELSE lost
           /\ met' = [met EXCEPT ![k] = @ \cup {r}]
    /\ todo' = todo \ {k}
    /\ UNCHANGED <<lens, epoch, epoch_last_inc, recorded, ppc, ts, dir, list, at,
                   heard, driverVars, polls, told, missed, covered, steady>>

\* The walk over the item is over, at its end or where optics_foreach_lens
\* breaks off because it cannot map a lens: the lenses behind that one keep
\* their slots, and the poll goes on with the next item, or the backends.
foreach_end ==
    /\ ppc = "read"
    /\ IF at < Len(list) THEN Visit(at + 1) /\ ppc' = ppc
       ELSE ppc' = "record" /\ todo' = {} /\ UNCHANGED <<at, covered>>
    /\ UNCHANGED <<regionVars, ts, dir, list, values, heard, driverVars,
                   polls, told, missed, lost, met, steady>>

\* Faulty variant: the loop over the backends is one short.
Loop_short == Len(backends) - 1

Loop == Len(backends)

\* The events that the i-th backend has yet to be told of under a key.
Untold(i, k) ==
    IF values[k] = None \/ heard[k] >= i \/ values[k].type = "gauge" THEN 0
    ELSE values[k].count

\* One turn of the loop of poller_backend_record: the next backend is told of
\* the key.  One key's loop ends before another's begins.
poller_backend_record(k) ==
    /\ ppc = "record"
    /\ values[k] # None
    /\ \A j \in Keys \ {k} : heard[j] = 0
    /\ heard[k] < Loop
    /\ told' = [told EXCEPT ![heard[k] + 1][k] = @ + Untold(heard[k] + 1, k)]
    /\ heard' = [heard EXCEPT ![k] = @ + 1]
    /\ UNCHANGED <<regionVars, ppc, ts, dir, list, at, todo, values, driverVars, polls,
                   missed, lost, met, covered, steady>>

\* The loop is done, and the entry is freed.
poll_freed(k) ==
    /\ ppc = "record"
    /\ values[k] # None
    /\ heard[k] >= Loop
    /\ values' = [values EXCEPT ![k] = None]
    /\ heard' = [heard EXCEPT ![k] = 0]
    /\ UNCHANGED <<regionVars, ppc, ts, dir, list, at, todo, driverVars, history>>

poll_done ==
    /\ ppc = "record"
    /\ \A k \in Keys : values[k] = None
    /\ Returned
    /\ met' = NoneMet
    /\ UNCHANGED <<regionVars, dir, todo, values, heard, driverVars,
                   polls, told, missed, lost, covered, steady>>

-----------------------------------------------------------------------------
\* optics_thread_stop, or SIGINT.
stop_requested ==
    /\ ~stop /\ ppc \notin {"setup", "ended", "aborted"}
    /\ stop' = TRUE
    /\ UNCHANGED <<regionVars, ppc, pollVars, driver, backends, history>>

\* The thread honours the cancellation at a sleep, between two polls or in the
\* nap of one, and in calls that may block (readdir, the send of a backend):
\* the poll ends there, and the values it had collected are dropped.  Of the
\* key at hand some backends have been told and others not.
thread_cancelled ==
    /\ Cancelled
    /\ ppc \in {"sleep", "list", "nap", "record"}
    /\ ppc' = "ended"
    /\ missed' = [i \in 1..MaxBackends |-> [k \in Keys |-> missed[i][k] + Untold(i, k)]]
    /\ values' = [k \in Keys |-> None]
    /\ heard' = [k \in Keys |-> 0]
    /\ met' = NoneMet
    /\ UNCHANGED <<regionVars, ts, dir, list, at, todo, driverVars,
                   polls, told, lost, covered, steady>>

PollStep ==
    \/ \E r \in Regions, opens \in BOOLEAN : poller_shm_cb(r, opens)
    \/ poll_nothing
    \/ optics_epoch_inc_at
    \/ nap
    \/ \E k \in Keys, busy \in BOOLEAN : poller_poll_lens(k, busy)
    \/ foreach_end
    \/ \E k \in Keys : poller_backend_record(k) \/ poll_freed(k)
    \/ poll_done

Next ==
    \/ \E r \in Regions, k \in Keys : record(r, k)
    \/ optics_poller_backend
    \/ \E now \in Times, entries \in {{}, Regions} : poll_at(now, entries)
    \/ PollStep
    \/ stop_requested
    \/ thread_cancelled

(* The polling thread runs: a poll goes on to its end, the sleep between    *)
(* two polls ends, and a cancellation is acted upon where it can be.        *)
Fairness ==
    /\ WF_vars(PollStep)
    /\ WF_vars(thread_cancelled)
    /\ WF_vars(\E now \in Times, entries \in {{}, Regions} : poll_at(now, entries))

Spec == Init /\ [][Next]_vars /\ Fairness

-----------------------------------------------------------------------------
(* Properties.                                                              *)

Counted(k) == \A r \in Regions : lens[r][k] = None \/ lens[r][k].type # "gauge"

\* Seen from each registered backend, every event of a key is in exactly one
\* place: told to this backend, in the value it has yet to be told of, in a
\* slot of some region, dropped by the read of a quantile, or missed when the
\* thread was cancelled, maybe after another backend was told.  Regions that
\* were not listed, did not open, came after the array was full or were refused
\* for their type keep theirs, and so do the lenses that a walk did not reach.
CountsConserved ==
    \A i \in 1..Len(backends), k \in Keys : Counted(k) =>
        Total([r \in Regions |-> recorded[r][k]]) =
            told[i][k] + missed[i][k] + lost[k] + Untold(i, k)
            + Total([r \in Regions |-> slot[r][0][k] + slot[r][1][k]])

\* Events are only dropped where two quantiles of one key disagree on their
\* target, or have the target 0 that reads as "no value yet"; and a backend
\* only misses events when the thread was cancelled, never more than one that
\* comes after it in the loop.
LossExplained ==
    \A k \in Keys :
        /\ lost[k] > 0 =>
              \E q, r \in Regions : q # r /\ \A x \in {q, r} :
                  /\ lens[x][k] # None
                  /\ lens[x][k].type = "quantile"
                  /\ lens[q][k].layout # lens[r][k].layout \/ lens[x][k].layout = 0
        /\ \A i \in 1..MaxBackends : missed[i][k] > 0 =>
              /\ ppc = "ended" /\ driver = "thread"
              /\ \A j \in i..MaxBackends : missed[j][k] >= missed[i][k]

\* The value of a key is normalised by the longest elapsed time of the regions
\* that were read into it: positive, so that the division is defined, and no
\* shorter than the window of any of them, so that a rate is not overstated.
ElapsedSound ==
    ppc \in {"read", "record"} => \A k \in Keys : values[k] # None =>
        /\ values[k].elapsed > 0
        /\ \A i \in 1..Len(list) : list[i].region \in met[k]
                                      => values[k].elapsed >= Elapsed(list[i])

\* As long as the clock moves forward, the elapsed times a region was read
\* with add up to the time from its creation to its last poll: a poll that
\* could not open it, or had no room for it, leaves no gap.
WindowsTile ==
    steady /\ ppc \in {"sleep", "list", "record"}
        => \A r \in Regions : covered[r] = epoch_last_inc[r] - Created[r]

\* The state of a poll is well formed: in particular neither array of the
\* poller is written beyond its end, and no elapsed time is negative.
ArraysBounded == TypeOK /\ Len(list) <= MaxOptics /\ Len(backends) <= MaxBackends

\* A stop request ends the loop: the cancelled thread is joined, and the
\* daemon leaves after the poll at hand or one more.
StopEnds == stop ~> ppc \in {"ended", "aborted"}

=============================================================================
