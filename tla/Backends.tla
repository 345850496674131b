------------------------------ MODULE Backends ------------------------------
(***************************************************************************)
(* What becomes of a poll: the stream of records that a poller hands to    *)
(* its backends (begin, one record per metric, done), the REST backend,    *)
(* which builds a table from it and answers HTTP requests from the table   *)
(* of the last finished poll (backend_rest.c), and the Carbon backend,     *)
(* which writes lines to a TCP stream (backend_carbon.c) as the stdout     *)
(* backend writes them to a terminal.                                      *)
(*                                                                         *)
(* Two threads: the polling thread, which runs all the callbacks in turn   *)
(* and may be cancelled inside a send, and the one thread of the HTTP      *)
(* server.  The Carbon server and the network are the outcomes of connect  *)
(* and send: what send takes in part stays in front of the next line.      *)
(***************************************************************************)
EXTENDS Integers, Sequences, Functions

CONSTANTS
    Keys,    \* metric keys, numbers in the order of strncmp
    Type,    \* the lens type behind each key
    Tables,  \* memory for struct metrics
    Times,   \* what the wall clock can say at a poll
    Null

ASSUME KeysAssumption == Keys \subseteq Nat
ASSUME TypeAssumption == Type \in [Keys -> {"counter", "gauge", "dist", "histo", "quantile"}]
ASSUME TimesAssumption == Times \subseteq Nat
ASSUME TablesAssumption == Null \notin Tables /\ \E t, u \in Tables : t # u

VARIABLES
    bpc, ts, todo, lines,          \* the polling thread
    heap, current, build, lock, to_delete,
    hpc, at, resp,                 \* the HTTP thread in rest_get
    fd, last_attempt, tail,        \* carbon; tail: the stream ends inside a line
    \* history variables
    gen,                           \* number of the poll, modulo 2
    built, served,                 \* metrics of this poll, and of the last finished one
    carbon                         \* what happened to the lines of this poll

pollVars == <<bpc, ts, todo, lines>>
restVars == <<heap, current, build, lock, to_delete, built, served>>
httpVars == <<hpc, at, resp>>
carbonVars == <<fd, last_attempt, tail, carbon>>
vars == <<pollVars, restVars, httpVars, carbonVars, gen>>

Metric == [key : Keys, value : 0 .. 1]
Names == {"", "count", "p50", "p90", "p99", "max", "below", "above", "bucket"}
NoStory == [attempts |-> 0, partials |-> 0, errors |-> 0, missed |-> 0,
            gaveup |-> FALSE, tail |-> FALSE]

TypeOK ==
    /\ bpc \in {"idle", "metric", "lines", "swap", "free", "freed"}
    /\ todo \subseteq Keys
    /\ lines \in Seq(Names) /\ IsInjective(lines)
    /\ heap \in [Tables -> [live : BOOLEAN, data : Seq(Metric)]]
    /\ {current, build, to_delete} \subseteq Tables \cup {Null}
    /\ lock \in {"free", "http"}
    /\ hpc \in {"idle", "writing", "stopped"}
    /\ fd \in {"none", "up"}
    /\ tail \in BOOLEAN
    /\ served \subseteq Metric

Init ==
    /\ bpc = "idle" /\ ts = 0 /\ todo = {} /\ lines = <<>>
    /\ heap = [t \in Tables |-> [live |-> FALSE, data |-> <<>>]]
    /\ current = Null /\ build = Null /\ to_delete = Null
    /\ lock = "free"
    /\ hpc = "idle" /\ at = 0 /\ resp = <<>>
    /\ fd = "none" /\ last_attempt = 0 /\ tail = FALSE
    /\ gen = 0 /\ built = {} /\ served = {}
    /\ carbon = NoStory

-----------------------------------------------------------------------------
(* The REST backend, from the polling thread.                               *)

metrics_free(t) ==
    IF t = Null THEN heap ELSE [heap EXCEPT ![t] = [live |-> FALSE, data |-> <<>>]]

\* Faulty variant: the table of a poll that was cut short is kept.
Rebegun_kept == UNCHANGED <<heap, build>>

Rebegun == heap' = metrics_free(build) /\ build' = Null

\* optics_poll_begin.
poll_begin(now, keys) ==
    /\ bpc = "idle"
    /\ bpc' = "metric" /\ ts' = now /\ todo' = keys
    /\ gen' = 1 - gen
    /\ Rebegun
    /\ built' = {}
    /\ carbon' = [NoStory EXCEPT !.gaveup = (now = last_attempt), !.tail = tail]
    /\ UNCHANGED <<lines, current, lock, to_delete, served, httpVars, fd, last_attempt, tail>>

\* The names under which the five kinds of lenses are normalised.
lens_counter_normalize == <<"">>
lens_gauge_normalize == <<"">>
lens_quantile_normalize == <<"">>
lens_dist_normalize == <<"count", "p50", "p90", "p99", "max">>

\* Of a histogram of one bucket.
lens_histo_normalize == <<"below", "above", "bucket">>

optics_poll_normalize(type) ==
    CASE type = "counter" -> lens_counter_normalize
      [] type = "gauge" -> lens_gauge_normalize
      [] type = "dist" -> lens_dist_normalize
      [] type = "histo" -> lens_histo_normalize
      [] type = "quantile" -> lens_quantile_normalize

\* metrics_append, into a new table if there is none; then the key is
\* Carbon's.
poll_metric(k) ==
    /\ bpc = "metric"
    /\ k \in todo
    /\ LET m == [key |-> k, value |-> gen]
       IN  /\ \E t \in Tables :
                /\ IF build # Null THEN t = build
                   ELSE t = CHOOSE u \in Tables : ~heap[u].live
                /\ build' = t
                /\ heap' = [heap EXCEPT ![t] = [live |-> TRUE, data |-> Append(@.data, m)]]
           /\ built' = built \cup {m}
    /\ todo' = todo \ {k}
    /\ lines' = optics_poll_normalize(Type[k])
    /\ bpc' = "lines"
    /\ UNCHANGED <<ts, current, lock, to_delete, served, httpVars, carbonVars, gen>>

\* metrics_sort: what qsort may make of the table, its entries in the order of
\* metrics_cmp.
metrics_sort(data) ==
    {[i \in DOMAIN data |-> data[p[i]]] :
        p \in {q \in Bijection(DOMAIN data, DOMAIN data) :
                 \A i, j \in DOMAIN data : i < j => data[q[i]].key <= data[q[j]].key}}

poll_done ==
    /\ bpc = "metric"
    /\ todo = {}
    /\ bpc' = "swap"
    /\ IF build = Null THEN UNCHANGED heap
       ELSE \E sorted \in metrics_sort(heap[build].data) :
                heap' = [heap EXCEPT ![build].data = sorted]
    /\ UNCHANGED <<ts, todo, lines, current, build, lock, to_delete, built, served,
                   httpVars, carbonVars, gen>>

slock_lock == lock = "free"

\* The critical section of swap_tables.
swap_tables ==
    /\ bpc = "swap"
    /\ slock_lock
    /\ to_delete' = current
    /\ current' = build
    /\ served' = built
    /\ bpc' = "free"
    /\ UNCHANGED <<ts, todo, lines, heap, build, lock, built, httpVars, carbonVars, gen>>

\* Faulty variant: the table that was replaced is not freed.
Replaced_leaked == heap

Replaced == metrics_free(to_delete)

PollOver == bpc' = "idle" /\ ts' = 0 /\ todo' = {} /\ lines' = <<>> /\ carbon' = NoStory

\* The rest of swap_tables, outside of the lock.
swap_free ==
    /\ bpc = "free"
    /\ heap' = Replaced
    /\ to_delete' = Null
    /\ build' = Null
    /\ PollOver
    /\ UNCHANGED <<current, lock, built, served, httpVars, fd, last_attempt, tail, gen>>

-----------------------------------------------------------------------------
(* The REST backend, from the HTTP thread.                                  *)

rest_get_lock ==
    /\ hpc = "idle"
    /\ slock_lock
    /\ lock' = "http"
    /\ hpc' = "writing" /\ at' = 1 /\ resp' = <<>>
    /\ UNCHANGED <<pollVars, heap, current, build, to_delete, built, served, carbonVars, gen>>

Listed == IF current = Null THEN <<>> ELSE heap[current].data

\* write_counter of one metric.
rest_get_write ==
    /\ hpc = "writing"
    /\ at <= Len(Listed)
    /\ resp' = Append(resp, Listed[at])
    /\ at' = at + 1
    /\ UNCHANGED <<pollVars, restVars, hpc, carbonVars, gen>>

\* Faulty variant: the handler returns with the lock held.
slock_unlock_not == lock

slock_unlock == "free"

rest_get_unlock ==
    /\ hpc = "writing"
    /\ at > Len(Listed)
    /\ lock' = slock_unlock
    /\ hpc' = "idle" /\ at' = 0 /\ resp' = <<>>
    /\ UNCHANGED <<pollVars, heap, current, build, to_delete, built, served, carbonVars, gen>>

\* crest_free: the HTTP thread is joined.
crest_free ==
    /\ hpc = "idle"
    /\ hpc' = "stopped"
    /\ UNCHANGED <<pollVars, restVars, at, resp, carbonVars, gen>>

\* rest_free and carbon_free, by optics_poller_free, once the polling thread
\* and the HTTP server have stopped; rest_free aborts when the lock is taken.
optics_poller_free ==
    /\ bpc = "idle" /\ hpc = "stopped"
    /\ bpc' = "freed"
    /\ heap' = [t \in Tables |-> IF t \in {current, build}
                                 THEN [live |-> FALSE, data |-> <<>>] ELSE heap[t]]
    /\ current' = Null /\ build' = Null
    /\ fd' = "none" /\ tail' = FALSE
    /\ UNCHANGED <<ts, todo, lines, lock, to_delete, built, served, httpVars,
                   last_attempt, carbon, gen>>

-----------------------------------------------------------------------------
(* The Carbon backend.                                                      *)

\* Faulty variant: only the first attempt ever is made.
MayAttempt_once == last_attempt = 0

\* One attempt per timestamp.
MayAttempt == last_attempt # ts

Attempted == last_attempt' = ts

\* What becomes of the line in a connection whose stream ends inside a line
\* or not: send takes it, takes a part of it, or fails.
Sent(broken, story) ==
    \/ /\ fd' = "up" /\ tail' = FALSE
       /\ carbon' = [story EXCEPT !.missed = @ + (IF broken THEN 1 ELSE 0)]
    \/ /\ fd' = "up" /\ tail' = TRUE
       /\ carbon' = [story EXCEPT !.partials = @ + 1, !.missed = @ + 1]
    \/ /\ fd' = "none" /\ tail' = FALSE
       /\ carbon' = [story EXCEPT !.errors = @ + 1, !.missed = @ + 1,
                                  !.gaveup = @ \/ story.attempts > 0]

NextLine ==
    /\ bpc = "lines" /\ lines # <<>>
    /\ lines' = Tail(lines)
    /\ UNCHANGED <<bpc, ts, todo, restVars, httpVars, gen>>

carbon_send ==
    /\ NextLine
    /\ fd = "up"
    /\ Sent(tail, carbon)
    /\ UNCHANGED last_attempt

carbon_connect ==
    /\ NextLine
    /\ fd # "up" /\ MayAttempt
    /\ Attempted
    /\ LET tried == [carbon EXCEPT !.attempts = @ + 1]
       IN  \/ Sent(FALSE, tried)
           \/ /\ carbon' = [tried EXCEPT !.missed = @ + 1, !.gaveup = TRUE]
              /\ UNCHANGED <<fd, tail>>

carbon_skip ==
    /\ NextLine
    /\ fd # "up" /\ ~MayAttempt
    /\ carbon' = [carbon EXCEPT !.missed = @ + 1]
    /\ UNCHANGED <<fd, last_attempt, tail>>

\* The callback returns.
metric_done ==
    /\ bpc = "lines" /\ lines = <<>>
    /\ bpc' = "metric"
    /\ UNCHANGED <<ts, todo, lines, restVars, httpVars, carbonVars, gen>>

\* The polling thread is in a connect or a send, which may block.
Sending == bpc = "lines" /\ lines # <<>> /\ (fd = "up" \/ MayAttempt)

\* It is cancelled there; another may be started.  The connect, if there was
\* one, has been counted as the attempt of this poll and may have succeeded;
\* the send may have passed on any part of its line.
cancelled ==
    /\ Sending
    /\ PollOver
    /\ \/ fd = "up" /\ UNCHANGED <<fd, last_attempt>> /\ tail' \in BOOLEAN
       \/ fd # "up" /\ Attempted /\ UNCHANGED <<fd, tail>>
       \/ fd # "up" /\ Attempted /\ fd' = "up" /\ tail' \in BOOLEAN
    /\ UNCHANGED <<restVars, httpVars, gen>>

Next ==
    \/ \E now \in Times, keys \in SUBSET Keys : poll_begin(now, keys)
    \/ \E k \in Keys : poll_metric(k)
    \/ poll_done \/ swap_tables \/ swap_free \/ metric_done \/ cancelled
    \/ rest_get_lock \/ rest_get_write \/ rest_get_unlock
    \/ crest_free \/ optics_poller_free
    \/ carbon_send \/ carbon_connect \/ carbon_skip

(* Both threads run.  But a connect or a send need not return, and the spin *)
(* lock is not fair: swap_tables is sure of it only when it stays free.     *)
Fairness ==
    /\ WF_vars(rest_get_write \/ rest_get_unlock)
    /\ WF_vars(\E k \in Keys : poll_metric(k))
    /\ WF_vars(poll_done \/ metric_done \/ swap_free)
    /\ WF_vars(carbon_skip)
    /\ WF_vars(swap_tables)

Spec == Init /\ [][Next]_vars /\ Fairness

-----------------------------------------------------------------------------
(* Properties.                                                              *)

\* A response holds every metric of exactly one poll, the last that finished,
\* in the order of the keys, while polls go on, are cut short and start again.
ResponseWhole ==
    hpc = "writing" /\ at > Len(Listed) =>
        /\ Range(resp) = served
        /\ \A i, j \in DOMAIN resp : i < j => resp[i].key < resp[j].key

\* The HTTP thread never reads a table that was freed, the tables that are not
\* freed are the ones that the backend still refers to, and what is in them are
\* metrics of the poll.
TablesOwned ==
    /\ TypeOK
    /\ hpc = "writing" /\ current # Null => heap[current].live
    /\ {t \in Tables : heap[t].live} = {current, build, to_delete} \ {Null}

\* The damage of a fault is bounded: the backend tries to connect at most once
\* per poll, so that a dead server does not hold it up; a line that send took in part costs
\* itself and the line that follows it, a send that failed costs its own
\* line, and nothing else is missed unless the one attempt of the poll was
\* spent.  So a poll after a fault makes up for it by connecting again.
DamageBounded ==
    /\ carbon.attempts <= 1
    /\ ~carbon.gaveup => carbon.missed <= 2 * carbon.partials + carbon.errors
                                          + (IF carbon.tail THEN 1 ELSE 0)

\* A poll that was begun ends, unless the Carbon server blocks a connect or a
\* send for ever (the backend sets no timeout), or HTTP requests never cease to
\* take the lock of the table.  Nothing else holds up the polling thread: not a
\* request under way, nor a server that is gone, nor a poll that was cancelled.
PollEnds ==
    \/ bpc = "metric" ~> bpc = "idle"
    \/ <>[]Sending
    \/ []<><<rest_get_lock>>_vars
=============================================================================
