--------------------------- MODULE BackendsProofs ---------------------------
(***************************************************************************)
(* Proofs about Backends, for any number of metrics, tables and polls: who *)
(* owns which table, what a response of the REST backend holds, and what a *)
(* fault of the network costs the Carbon backend.                          *)
(***************************************************************************)
EXTENDS Backends, SequenceTheorems, TLAPS

IsStory(s) ==
    /\ DOMAIN s = {"attempts", "partials", "errors", "missed", "gaveup", "tail"}
    /\ s.attempts \in Nat /\ s.partials \in Nat /\ s.errors \in Nat /\ s.missed \in Nat
    /\ s.gaveup \in BOOLEAN /\ s.tail \in BOOLEAN

InPoll == bpc \notin {"idle", "freed"}

Ascending(s) == \A i, j \in DOMAIN s : i < j => s[i].key < s[j].key

-----------------------------------------------------------------------------
(* The inductive invariant.                                                 *)

\* What TypeOK leaves out.
ValueInv ==
    /\ gen \in {0, 1}
    /\ built \subseteq Metric
    /\ resp \in Seq(Metric) /\ at \in Nat
    /\ ts \in Nat /\ last_attempt \in Nat
    /\ IsStory(carbon)

\* Which tables the polling thread refers to: to_delete is one it has replaced
\* and is about to free; until the swap build is its own.
RefInv ==
    /\ {t \in Tables : heap[t].live} = {current, build, to_delete} \ {Null}
    /\ \A t \in Tables : ~heap[t].live => heap[t].data = <<>>
    /\ bpc # "free" => to_delete = Null /\ (build # Null => build # current)
    /\ bpc = "free" => build = current /\ (to_delete # Null => to_delete # current)
    /\ bpc = "freed" => current = Null /\ build = Null /\ hpc = "stopped"
    /\ lock = "http" <=> hpc = "writing"

\* The table under construction holds what was recorded in this poll, each key
\* once, and is in order when it is swapped in.
BuildInv ==
    bpc \in {"metric", "lines", "swap"} =>
        /\ \A m \in built : m.key \notin todo
        /\ build = Null => built = {}
        /\ build # Null =>
              /\ Range(heap[build].data) = built
              /\ \A i, j \in DOMAIN heap[build].data :
                    i # j => heap[build].data[i].key # heap[build].data[j].key
              /\ bpc = "swap" => Ascending(heap[build].data)

\* The table that requests are answered from holds the last finished poll.
ServedInv ==
    bpc # "freed" =>
        /\ current = Null => served = {}
        /\ current # Null => Range(heap[current].data) = served
                             /\ Ascending(heap[current].data)

\* A response in the making is the beginning of that table.
RespInv ==
    hpc = "writing" =>
        /\ at = Len(resp) + 1 /\ Len(resp) <= Len(Listed)
        /\ \A i \in 1 .. Len(resp) : resp[i] = Listed[i]

\* The Carbon side of a poll: the attempt of a timestamp is made once, a poll
\* without a connection and without an attempt left has given up, and the
\* debt of a stream that ends inside a line is not spent yet.
CarbonInv ==
    IF ~InPoll THEN carbon = NoStory ELSE
        /\ carbon.attempts <= 1
        /\ carbon.attempts = 1 => last_attempt = ts
        /\ last_attempt = ts => carbon.gaveup \/ carbon.attempts = 1
        /\ last_attempt = ts /\ fd # "up" => carbon.gaveup
        /\ ~carbon.gaveup =>
              carbon.missed + (IF tail THEN 1 ELSE 0)
                  <= 2 * carbon.partials + carbon.errors + (IF carbon.tail THEN 1 ELSE 0)

IndInv ==
    /\ TypeOK /\ ValueInv
    /\ RefInv /\ BuildInv /\ ServedInv /\ RespInv
    /\ CarbonInv

-----------------------------------------------------------------------------
\* The rest of the lines of a metric is again a sequence without repetition.
LEMMA TailLines ==
    ASSUME NEW s \in Seq(Names), IsInjective(s), s # <<>>
    PROVE  Tail(s) \in Seq(Names) /\ IsInjective(Tail(s))
<1>1. /\ Tail(s) \in Seq(Names) /\ Len(Tail(s)) = Len(s) - 1
      /\ \A i \in 1 .. Len(Tail(s)) : Tail(s)[i] = s[i + 1]
  BY HeadTailProperties
<1>2. DOMAIN s = 1 .. Len(s) /\ DOMAIN Tail(s) = 1 .. Len(Tail(s)) /\ Len(s) \in Nat
  BY <1>1
<1> QED
  BY <1>1, <1>2 DEF IsInjective

\* The names of a metric are a sequence without repetition.
LEMMA LinesOfType ==
    ASSUME NEW k \in Keys
    PROVE  optics_poll_normalize(Type[k]) \in Seq(Names)
           /\ IsInjective(optics_poll_normalize(Type[k]))
<1> DEFINE names == optics_poll_normalize(Type[k])
<1>1. Type[k] \in {"counter", "gauge", "dist", "histo", "quantile"}
  BY TypeAssumption
<1>2. CASE Type[k] \in {"counter", "gauge", "quantile"}
  <2>1. names = <<"">>
    BY <1>2 DEF optics_poll_normalize, lens_counter_normalize, lens_gauge_normalize,
                lens_quantile_normalize
  <2>2. DOMAIN <<"">> = 1 .. 1 /\ <<"">> \in Seq(Names)
    BY DEF Names
  <2>3. DOMAIN names = 1 .. 1 /\ names \in Seq(Names)
    BY <2>1, <2>2
  <2> HIDE DEF names
  <2>4. IsInjective(names)
    BY <2>3 DEF IsInjective
  <2> QED
    BY <2>3, <2>4 DEF names
<1>3. CASE Type[k] = "dist"
  <2>1. names = <<"count", "p50", "p90", "p99", "max">>
    BY <1>3 DEF optics_poll_normalize, lens_dist_normalize
  <2>2. names \in Seq(Names)
    BY <2>1 DEF Names
  <2>3. IsInjective(<<"count", "p50", "p90", "p99", "max">>)
    BY DEF IsInjective
  <2> QED
    BY <2>1, <2>2, <2>3
<1>4. CASE Type[k] = "histo"
  <2>1. names = <<"below", "above", "bucket">>
    BY <1>4 DEF optics_poll_normalize, lens_histo_normalize
  <2>2. names \in Seq(Names)
    BY <2>1 DEF Names
  <2>3. IsInjective(<<"below", "above", "bucket">>)
    BY DEF IsInjective
  <2> QED
    BY <2>1, <2>2, <2>3
<1> QED
  BY <1>1, <1>2, <1>3, <1>4

\* A sorted table has the entries of the table, in order.
LEMMA Sorted ==
    ASSUME NEW data \in Seq(Metric), NEW s \in metrics_sort(data)
    PROVE  /\ s \in Seq(Metric)
           /\ Range(s) = Range(data)
           /\ (\A i, j \in DOMAIN data : i # j => data[i].key # data[j].key) => Ascending(s)
<1>1. PICK p \in Bijection(DOMAIN data, DOMAIN data) :
          /\ s = [i \in DOMAIN data |-> data[p[i]]]
          /\ \A i, j \in DOMAIN data : i < j => data[p[i]].key <= data[p[j]].key
  BY DEF metrics_sort
<1>2. /\ p \in [DOMAIN data -> DOMAIN data]
      /\ \A i, j \in DOMAIN data : i # j => p[i] # p[j]
      /\ \A j \in DOMAIN data : \E i \in DOMAIN data : p[i] = j
  BY <1>1 DEF Bijection, Injection, Surjection, IsInjective
<1>3. DOMAIN data = 1 .. Len(data) /\ Len(data) \in Nat /\ \A i \in DOMAIN data : data[i] \in Metric
  OBVIOUS
<1>4. s \in Seq(Metric) /\ DOMAIN s = DOMAIN data
  BY <1>1, <1>2, <1>3
<1>5. Range(s) = Range(data)
  BY <1>1, <1>2, <1>4 DEF Range
<1>6. ASSUME \A i, j \in DOMAIN data : i # j => data[i].key # data[j].key
      PROVE  Ascending(s)
  <2>1. ASSUME NEW i \in DOMAIN data, NEW j \in DOMAIN data, i < j
        PROVE  s[i].key < s[j].key
    <3>0. i # j
      BY <1>3, <2>1
    <3>1. p[i] # p[j] /\ p[i] \in DOMAIN data /\ p[j] \in DOMAIN data
      BY <1>2, <3>0
    <3>2. data[p[i]].key <= data[p[j]].key /\ data[p[i]].key # data[p[j]].key
      BY <1>1, <1>6, <2>1, <3>1
    <3>3. data[p[i]].key \in Nat /\ data[p[j]].key \in Nat
      BY <1>2, <1>3, KeysAssumption DEF Metric
    <3> QED
      BY <1>1, <3>2, <3>3
  <2> QED
    BY <1>4, <2>1 DEF Ascending
<1> QED
  BY <1>4, <1>5, <1>6

\* Before the first metric there is nothing to write, and nothing to tell.
LEMMA Nothing == <<>> \in Seq(Names) /\ IsInjective(<<>>) /\ IsStory(NoStory)
BY DEF IsInjective, IsStory, NoStory

Debt(broken) == IF broken THEN 1 ELSE 0

\* The lines missed, and the one that a broken stream is still going to cost,
\* are accounted for.
Owes(s, broken) ==
    ~s.gaveup => s.missed + Debt(broken) <= 2 * s.partials + s.errors + Debt(s.tail)

\* What send makes of a line: the debt of a broken line is paid by the line that
\* follows it, a part of a line makes a new one, and a connection that was
\* made in this poll and lost is not made again.
LEMMA SentOutcome ==
    ASSUME NEW broken \in BOOLEAN, NEW story, IsStory(story), Sent(broken, story)
    PROVE  /\ IsStory(carbon') /\ fd' \in {"none", "up"} /\ tail' \in BOOLEAN
           /\ carbon'.attempts = story.attempts /\ carbon'.tail = story.tail
           /\ story.gaveup => carbon'.gaveup
           /\ fd' # "up" /\ story.attempts > 0 => carbon'.gaveup
           /\ Owes(story, broken) => Owes(carbon', tail')
<1>0. Debt(broken) \in Nat /\ Debt(story.tail) \in Nat /\ Debt(FALSE) = 0 /\ Debt(TRUE) = 1
  BY DEF Debt
<1>1. CASE /\ fd' = "up" /\ tail' = FALSE
           /\ carbon' = [story EXCEPT !.missed = @ + (IF broken THEN 1 ELSE 0)]
  <2>1. carbon' = [story EXCEPT !.missed = @ + Debt(broken)]
    BY <1>1 DEF Debt
  <2>2. /\ DOMAIN carbon' = DOMAIN story
        /\ carbon'.attempts = story.attempts /\ carbon'.partials = story.partials
        /\ carbon'.errors = story.errors /\ carbon'.tail = story.tail
        /\ carbon'.gaveup = story.gaveup
    BY <2>1 DEF IsStory
  <2>3. carbon'.missed = story.missed + Debt(broken)
    BY <2>1 DEF IsStory
  <2>4. IsStory(carbon')
    BY <1>0, <2>2, <2>3 DEF IsStory
  <2>7. Debt(tail') = 0
    BY <1>0, <1>1
  <2>9. Owes(story, broken) => Owes(carbon', tail')
    BY <1>0, <2>7, <2>2, <2>3, <2>4 DEF IsStory, Owes
  <2> QED
    BY <1>1, <2>2, <2>3, <2>4, <2>9 DEF IsStory
<1>2. CASE /\ fd' = "up" /\ tail' = TRUE
           /\ carbon' = [story EXCEPT !.partials = @ + 1, !.missed = @ + 1]
  <2>1. /\ DOMAIN carbon' = DOMAIN story
        /\ carbon'.attempts = story.attempts /\ carbon'.partials = story.partials + 1
        /\ carbon'.errors = story.errors /\ carbon'.tail = story.tail
        /\ carbon'.gaveup = story.gaveup /\ carbon'.missed = story.missed + 1
    BY <1>2 DEF IsStory
  <2>2. IsStory(carbon')
    BY <2>1 DEF IsStory
  <2>7. Debt(tail') = 1
    BY <1>0, <1>2
  <2>9. Owes(story, broken) => Owes(carbon', tail')
    BY <1>0, <2>7, <2>1, <2>2 DEF IsStory, Owes
  <2> QED
    BY <1>2, <2>1, <2>2, <2>9 DEF IsStory
<1>3. CASE /\ fd' = "none" /\ tail' = FALSE
           /\ carbon' = [story EXCEPT !.errors = @ + 1, !.missed = @ + 1,
                                      !.gaveup = @ \/ story.attempts > 0]
  <2>1. /\ DOMAIN carbon' = DOMAIN story
        /\ carbon'.attempts = story.attempts /\ carbon'.partials = story.partials
        /\ carbon'.errors = story.errors + 1 /\ carbon'.tail = story.tail
        /\ carbon'.missed = story.missed + 1
    BY <1>3 DEF IsStory
  <2>2. carbon'.gaveup = (story.gaveup \/ story.attempts > 0)
    BY <1>3, Zenon DEF IsStory
  <2>3. IsStory(carbon')
    BY <2>1, <2>2 DEF IsStory
  <2>7. Debt(tail') = 0
    BY <1>0, <1>3
  <2>9. Owes(story, broken) => Owes(carbon', tail')
    BY <1>0, <2>7, <2>1, <2>2, <2>3 DEF IsStory, Owes
  <2> QED
    BY <1>3, <2>1, <2>2, <2>3, <2>9 DEF IsStory
<1> QED
  BY <1>1, <1>2, <1>3 DEF Sent

\* A new metric is appended to the table at hand, or to one that was free.
Appends(k, t) ==
    /\ bpc = "metric" /\ bpc' = "lines"
    /\ k \in todo /\ todo' = todo \ {k}
    /\ build # Null => t = build
    /\ build = Null => ~heap[t].live
    /\ build' = t
    /\ heap' = [heap EXCEPT ![t] = [live |-> TRUE,
                                    data |-> Append(heap[t].data, [key |-> k, value |-> gen])]]
    /\ built' = built \cup {[key |-> k, value |-> gen]}
    /\ lines' = optics_poll_normalize(Type[k])
    /\ UNCHANGED <<ts, current, lock, to_delete, served, httpVars, carbonVars, gen>>

\* poll_metric does that, whether or not the table exists already.
LEMMA MetricOutcome ==
    ASSUME TypeOK, RefInv, NEW k \in Keys, poll_metric(k)
    PROVE  \E t \in Tables : Appends(k, t)
<1>1. PICK t \in Tables :
          /\ IF build # Null THEN t = build
             ELSE t = CHOOSE u \in Tables : ~heap[u].live
          /\ build' = t
          /\ heap' = [heap EXCEPT ![t] = [live |-> TRUE,
                                          data |-> Append(@.data, [key |-> k, value |-> gen])]]
  BY DEF poll_metric
<1>2. build = Null => ~heap[t].live
  <2> SUFFICES ASSUME build = Null PROVE ~heap[t].live
    OBVIOUS
  <2>1. bpc = "metric"
    BY DEF poll_metric
  <2>2. \E u \in Tables : ~heap[u].live
    BY <2>1, TablesAssumption DEF RefInv
  <2> QED
    BY <1>1, <2>2
<1> QED
  BY <1>1, <1>2 DEF poll_metric, Appends

\* A metric with a new key leaves the keys of a table distinct.
LEMMA Appended ==
    ASSUME NEW old \in Seq(Metric), NEW m \in Metric,
           \A i, j \in DOMAIN old : i # j => old[i].key # old[j].key,
           \A x \in Range(old) : x.key # m.key
    PROVE  /\ Range(Append(old, m)) = Range(old) \cup {m}
           /\ \A i, j \in DOMAIN Append(old, m) :
                 i # j => Append(old, m)[i].key # Append(old, m)[j].key
<1> DEFINE new == Append(old, m)
<1>1. /\ DOMAIN old = 1 .. Len(old) /\ DOMAIN new = 1 .. (Len(old) + 1) /\ Len(old) \in Nat
      /\ \A i \in DOMAIN old : new[i] = old[i]
      /\ new[Len(old) + 1] = m
  OBVIOUS
<1> HIDE DEF new
<1>2. \A i \in DOMAIN new : i \in DOMAIN old \/ i = Len(old) + 1
  BY <1>1
<1>3. Len(old) + 1 \in DOMAIN new /\ DOMAIN old \subseteq DOMAIN new
  BY <1>1
<1>4. Range(new) = Range(old) \cup {m}
  BY <1>1, <1>2, <1>3 DEF Range
<1>5. \A i \in DOMAIN old : old[i].key # m.key
  BY DEF Range
<1>6. \A i, j \in DOMAIN new : i # j => new[i].key # new[j].key
  BY <1>1, <1>2, <1>5
<1> QED
  BY <1>4, <1>6 DEF new

\* What is in ascending order is distinct.
LEMMA AscendingDistinct ==
    ASSUME NEW s \in Seq(Metric), Ascending(s)
    PROVE  \A i, j \in DOMAIN s : i # j => s[i].key # s[j].key
<1>1. DOMAIN s = 1 .. Len(s) /\ Len(s) \in Nat /\ \A i \in DOMAIN s : s[i].key \in Nat
  <2>1. \A i \in 1 .. Len(s) : s[i] \in Metric
    OBVIOUS
  <2>2. \A x \in Metric : x.key \in Nat
    BY KeysAssumption DEF Metric
  <2> QED
    BY <2>1, <2>2
<1> SUFFICES ASSUME NEW i \in DOMAIN s, NEW j \in DOMAIN s, i # j
             PROVE  s[i].key # s[j].key
  OBVIOUS
<1>2. i < j \/ j < i
  BY <1>1
<1>3. s[i].key < s[j].key \/ s[j].key < s[i].key
  BY <1>2 DEF Ascending
<1> QED
  BY <1>1, <1>3

\* The table that poll_done leaves.
SortsTable(s) ==
    /\ build \in Tables /\ s \in Seq(Metric)
    /\ heap' = [heap EXCEPT ![build].data = s]
    /\ Range(s) = Range(heap[build].data)
    /\ (\A i, j \in DOMAIN heap[build].data :
            i # j => heap[build].data[i].key # heap[build].data[j].key) => Ascending(s)

\* The end of a poll that recorded anything puts its table in order.
LEMMA DoneOutcome ==
    ASSUME TypeOK, poll_done, build # Null
    PROVE  \E s : SortsTable(s)
<1>1. PICK s \in metrics_sort(heap[build].data) : heap' = [heap EXCEPT ![build].data = s]
  BY DEF poll_done
<1>2. build \in Tables /\ heap[build].data \in Seq(Metric)
  BY DEF TypeOK
<1> QED
  BY <1>1, <1>2, Sorted DEF SortsTable

\* Every step preserves the types,
LEMMA TypeStep ==
    ASSUME TypeOK, ValueInv, RefInv, RespInv, [Next]_vars
    PROVE  TypeOK' /\ ValueInv'
<1> USE TablesAssumption, TimesAssumption
    DEF pollVars, restVars, httpVars, carbonVars, TypeOK, ValueInv
<1>1. ASSUME NEW now \in Times, NEW keys \in SUBSET Keys, poll_begin(now, keys)
      PROVE  TypeOK' /\ ValueInv'
  <2>1. IsStory(carbon')
    BY <1>1 DEF poll_begin, IsStory, NoStory
  <2> QED
    BY <1>1, <2>1 DEF poll_begin, Rebegun, metrics_free
<1>2. ASSUME NEW k \in Keys, poll_metric(k)
      PROVE  TypeOK' /\ ValueInv'
  <2>1. PICK t \in Tables : Appends(k, t)
    BY <1>2, MetricOutcome
  <2>2. [key |-> k, value |-> gen] \in Metric
    BY DEF Metric
  <2>3. heap[t].data \in Seq(Metric)
    OBVIOUS
  <2>4. Append(heap[t].data, [key |-> k, value |-> gen]) \in Seq(Metric)
    BY <2>2, <2>3
  <2>5. heap' \in [Tables -> [live : BOOLEAN, data : Seq(Metric)]]
    BY <2>1, <2>4 DEF Appends
  <2> QED
    BY <2>1, <2>2, <2>5, LinesOfType DEF Appends
<1>3. ASSUME poll_done
      PROVE  TypeOK' /\ ValueInv'
  <2>1. heap' \in [Tables -> [live : BOOLEAN, data : Seq(Metric)]]
    <3>1. CASE build = Null
      BY <1>3, <3>1 DEF poll_done
    <3>2. CASE build # Null
      <4>1. PICK s \in metrics_sort(heap[build].data) : heap' = [heap EXCEPT ![build].data = s]
        BY <1>3, <3>2 DEF poll_done
      <4>2. heap[build].data \in Seq(Metric)
        BY <3>2
      <4>3. s \in Seq(Metric)
        BY <4>1, <4>2, Sorted
      <4> QED
        BY <3>2, <4>1, <4>3
    <3> QED
      BY <3>1, <3>2
  <2> QED
    BY <1>3, <2>1 DEF poll_done
<1>4. ASSUME swap_tables
      PROVE  TypeOK' /\ ValueInv'
  BY <1>4 DEF swap_tables, slock_lock
<1>5. ASSUME swap_free
      PROVE  TypeOK' /\ ValueInv'
  BY <1>5, Nothing DEF swap_free, Replaced, metrics_free, PollOver
<1>6. ASSUME metric_done
      PROVE  TypeOK' /\ ValueInv'
  BY <1>6 DEF metric_done
<1>7. ASSUME cancelled
      PROVE  TypeOK' /\ ValueInv'
  <2>1. fd' \in {"none", "up"} /\ tail' \in BOOLEAN
    BY <1>7, Zenon DEF cancelled, TypeOK
  <2>2. last_attempt' \in Nat
    BY <1>7 DEF cancelled, Attempted
  <2>3. UNCHANGED <<restVars, httpVars, gen>> /\ PollOver
    BY <1>7 DEF cancelled
  <2> QED
    BY <2>1, <2>2, <2>3, Nothing DEF PollOver
<1>8. ASSUME rest_get_lock
      PROVE  TypeOK' /\ ValueInv'
  BY <1>8 DEF rest_get_lock, slock_lock
<1>9. ASSUME rest_get_write
      PROVE  TypeOK' /\ ValueInv'
  <2>1. Listed \in Seq(Metric)
    BY DEF Listed
  <2>2. Listed[at] \in Metric
    BY <1>9, <2>1 DEF rest_get_write, RefInv, RespInv
  <2> QED
    BY <1>9, <2>1, <2>2 DEF rest_get_write
<1>10. ASSUME rest_get_unlock
       PROVE  TypeOK' /\ ValueInv'
  BY <1>10 DEF rest_get_unlock, slock_unlock
<1>11. ASSUME crest_free
       PROVE  TypeOK' /\ ValueInv'
  BY <1>11 DEF crest_free
<1>12. ASSUME optics_poller_free
       PROVE  TypeOK' /\ ValueInv'
  <2>1. heap' \in [Tables -> [live : BOOLEAN, data : Seq(Metric)]]
    BY <1>12 DEF optics_poller_free
  <2> QED
    BY <1>12, <2>1 DEF optics_poller_free
<1>13. ASSUME carbon_send
       PROVE  TypeOK' /\ ValueInv'
  <2>1. Tail(lines) \in Seq(Names) /\ IsInjective(Tail(lines))
    BY <1>13, TailLines DEF carbon_send, carbon_connect, carbon_skip, NextLine
  <2>2. IsStory(carbon') /\ fd' \in {"none", "up"} /\ tail' \in BOOLEAN
    BY <1>13, SentOutcome DEF carbon_send
  <2> QED
    BY <1>13, <2>1, <2>2 DEF carbon_send, NextLine
<1>14. ASSUME carbon_connect
       PROVE  TypeOK' /\ ValueInv'
  <2>1. Tail(lines) \in Seq(Names) /\ IsInjective(Tail(lines))
    BY <1>14, TailLines DEF carbon_send, carbon_connect, carbon_skip, NextLine
  <2>2. IsStory(carbon') /\ fd' \in {"none", "up"} /\ tail' \in BOOLEAN
    <3> DEFINE tried == [carbon EXCEPT !.attempts = @ + 1]
    <3>1. IsStory(tried)
      BY DEF IsStory
    <3>2. CASE Sent(FALSE, tried)
      BY <3>1, <3>2, SentOutcome
    <3>3. CASE /\ carbon' = [tried EXCEPT !.missed = @ + 1, !.gaveup = TRUE]
               /\ UNCHANGED <<fd, tail>>
      BY <3>1, <3>3 DEF IsStory
    <3>4. \/ Sent(FALSE, tried)
          \/ /\ carbon' = [tried EXCEPT !.missed = @ + 1, !.gaveup = TRUE]
             /\ UNCHANGED <<fd, tail>>
      BY <1>14 DEF carbon_connect
    <3> QED
      BY <3>2, <3>3, <3>4
  <2> QED
    BY <1>14, <2>1, <2>2 DEF carbon_connect, NextLine, Attempted
<1>15. ASSUME carbon_skip
       PROVE  TypeOK' /\ ValueInv'
  <2>1. Tail(lines) \in Seq(Names) /\ IsInjective(Tail(lines))
    BY <1>15, TailLines DEF carbon_send, carbon_connect, carbon_skip, NextLine
  <2>2. IsStory(carbon')
    BY <1>15 DEF carbon_skip, IsStory
  <2> QED
    BY <1>15, <2>1, <2>2 DEF carbon_skip, NextLine
<1>16. ASSUME UNCHANGED vars
       PROVE  TypeOK' /\ ValueInv'
  BY <1>16 DEF vars
<1> QED
  BY <1>1, <1>2, <1>3, <1>4, <1>5, <1>6, <1>7, <1>8, <1>9, <1>10,
     <1>11, <1>12, <1>13, <1>14, <1>15, <1>16
     DEF Next

\* ... who refers to which table,
LEMMA RefStep ==
    ASSUME TypeOK, ValueInv, RefInv, [Next]_vars
    PROVE  RefInv'
<1> USE TablesAssumption
    DEF pollVars, restVars, httpVars, carbonVars, TypeOK, RefInv
<1>1. ASSUME NEW now \in Times, NEW keys \in SUBSET Keys, poll_begin(now, keys)
      PROVE  RefInv'
  BY <1>1 DEF poll_begin, Rebegun, metrics_free
<1>2. ASSUME NEW k \in Keys, poll_metric(k)
      PROVE  RefInv'
  BY <1>2 DEF poll_metric
<1>3. ASSUME poll_done
      PROVE  RefInv'
  <2>1. CASE build = Null
    BY <1>3, <2>1 DEF poll_done
  <2>2. CASE build # Null
    <3>1. PICK s : SortsTable(s)
      BY <1>3, <2>2, DoneOutcome
    <3>2. \A t \in Tables : /\ heap'[t].live = heap[t].live
                            /\ t # build => heap'[t].data = heap[t].data
      BY <3>1 DEF SortsTable
    <3>3. heap[build].live
      BY <2>2
    <3> QED
      BY <1>3, <2>2, <3>2, <3>3 DEF poll_done
  <2> QED
    BY <2>1, <2>2
<1>4. ASSUME swap_tables
      PROVE  RefInv'
  BY <1>4 DEF swap_tables, slock_lock
<1>5. ASSUME swap_free
      PROVE  RefInv'
  BY <1>5 DEF swap_free, Replaced, metrics_free, PollOver
<1>6. ASSUME metric_done
      PROVE  RefInv'
  BY <1>6 DEF metric_done
<1>7. ASSUME cancelled
      PROVE  RefInv'
  BY <1>7 DEF cancelled, Sending, PollOver
<1>8. ASSUME rest_get_lock
      PROVE  RefInv'
  BY <1>8 DEF rest_get_lock, slock_lock
<1>9. ASSUME rest_get_write
      PROVE  RefInv'
  BY <1>9 DEF rest_get_write
<1>10. ASSUME rest_get_unlock
       PROVE  RefInv'
  BY <1>10 DEF rest_get_unlock, slock_unlock
<1>11. ASSUME crest_free
       PROVE  RefInv'
  BY <1>11 DEF crest_free
<1>12. ASSUME optics_poller_free
       PROVE  RefInv'
  BY <1>12 DEF optics_poller_free
<1>13. ASSUME carbon_send
       PROVE  RefInv'
  BY <1>13 DEF carbon_send, NextLine, Sent
<1>14. ASSUME carbon_connect
       PROVE  RefInv'
  BY <1>14 DEF carbon_connect, NextLine, Sent, MayAttempt, Attempted
<1>15. ASSUME carbon_skip
       PROVE  RefInv'
  BY <1>15 DEF carbon_skip, NextLine, MayAttempt
<1>16. ASSUME UNCHANGED vars
       PROVE  RefInv'
  BY <1>16 DEF vars
<1> QED
  BY <1>1, <1>2, <1>3, <1>4, <1>5, <1>6, <1>7, <1>8, <1>9, <1>10,
     <1>11, <1>12, <1>13, <1>14, <1>15, <1>16
     DEF Next

\* ... the table under construction,
LEMMA BuildStep ==
    ASSUME TypeOK, ValueInv, RefInv, BuildInv, [Next]_vars
    PROVE  BuildInv'
<1> USE TablesAssumption
    DEF pollVars, restVars, httpVars, carbonVars, TypeOK, RefInv, BuildInv
<1>1. ASSUME NEW now \in Times, NEW keys \in SUBSET Keys, poll_begin(now, keys)
      PROVE  BuildInv'
  BY <1>1 DEF poll_begin, Rebegun, metrics_free
<1>2. ASSUME NEW k \in Keys, poll_metric(k)
      PROVE  BuildInv'
  <2>1. PICK t \in Tables : Appends(k, t)
    BY <1>2, MetricOutcome
  <2> DEFINE m == [key |-> k, value |-> gen]
             old == heap[t].data
             new == heap'[t].data
  <2>2. old \in Seq(Metric) /\ new = Append(old, m) /\ build' = t /\ built' = built \cup {m}
    BY <2>1 DEF Appends
  <2>3. bpc' = "lines" /\ todo' = todo \ {k} /\ k \in todo /\ bpc = "metric"
    BY <2>1 DEF Appends
  <2>4. /\ Range(old) = built
        /\ \A i, j \in DOMAIN old : i # j => old[i].key # old[j].key
    <3>1. CASE build # Null
      BY <2>1, <2>3, <3>1 DEF Appends
    <3>2. CASE build = Null
      <4>1. old = <<>> /\ built = {}
        BY <2>1, <2>3, <3>2 DEF Appends
      <4> QED
        BY <4>1 DEF Range
    <3> QED
      BY <3>1, <3>2
  <2>5. m \in Metric /\ m.key = k
    BY DEF Metric, ValueInv
  <2>6. \A x \in built : x.key # k
    BY <2>3
  <2>7. \A x \in built' : x.key \notin todo'
    BY <2>2, <2>3, <2>5
  <2> HIDE DEF m, old, new, TypeOK, RefInv, BuildInv
  <2>8. /\ Range(new) = built'
        /\ \A i, j \in DOMAIN new : i # j => new[i].key # new[j].key
    BY <2>2, <2>4, <2>5, <2>6, Appended
  <2> QED
    BY <2>2, <2>3, <2>7, <2>8 DEF new, BuildInv
<1>3. ASSUME poll_done
      PROVE  BuildInv'
  <2>1. CASE build = Null
    BY <1>3, <2>1 DEF poll_done
  <2>2. CASE build # Null
    <3>1. PICK s : SortsTable(s)
      BY <1>3, <2>2, DoneOutcome
    <3>2. heap'[build].data = s /\ build' = build /\ built' = built /\ todo' = todo
      BY <1>3, <3>1 DEF poll_done, SortsTable
    <3>3. /\ Range(heap[build].data) = built
          /\ \A i, j \in DOMAIN heap[build].data :
                i # j => heap[build].data[i].key # heap[build].data[j].key
          /\ \A m \in built : m.key \notin todo
      BY <1>3, <2>2 DEF poll_done
    <3>4. s \in Seq(Metric) /\ Range(s) = built /\ Ascending(s)
      BY <3>1, <3>3 DEF SortsTable
    <3> HIDE DEF TypeOK, RefInv, BuildInv
    <3>5. \A i, j \in DOMAIN s : i # j => s[i].key # s[j].key
      BY <3>4, AscendingDistinct
    <3> QED
      BY <2>2, <3>2, <3>3, <3>4, <3>5 DEF BuildInv
  <2> QED
    BY <2>1, <2>2
<1>4. ASSUME swap_tables
      PROVE  BuildInv'
  BY <1>4 DEF swap_tables, slock_lock
<1>5. ASSUME swap_free
      PROVE  BuildInv'
  BY <1>5 DEF swap_free, Replaced, metrics_free, PollOver
<1>6. ASSUME metric_done
      PROVE  BuildInv'
  BY <1>6 DEF metric_done
<1>7. ASSUME cancelled
      PROVE  BuildInv'
  BY <1>7 DEF cancelled, Sending, PollOver
<1>8. ASSUME rest_get_lock
      PROVE  BuildInv'
  BY <1>8 DEF rest_get_lock, slock_lock
<1>9. ASSUME rest_get_write
      PROVE  BuildInv'
  BY <1>9 DEF rest_get_write
<1>10. ASSUME rest_get_unlock
       PROVE  BuildInv'
  BY <1>10 DEF rest_get_unlock, slock_unlock
<1>11. ASSUME crest_free
       PROVE  BuildInv'
  BY <1>11 DEF crest_free
<1>12. ASSUME optics_poller_free
       PROVE  BuildInv'
  BY <1>12 DEF optics_poller_free
<1>13. ASSUME carbon_send
       PROVE  BuildInv'
  BY <1>13 DEF carbon_send, NextLine, Sent
<1>14. ASSUME carbon_connect
       PROVE  BuildInv'
  BY <1>14 DEF carbon_connect, NextLine, Sent, MayAttempt, Attempted
<1>15. ASSUME carbon_skip
       PROVE  BuildInv'
  BY <1>15 DEF carbon_skip, NextLine, MayAttempt
<1>16. ASSUME UNCHANGED vars
       PROVE  BuildInv'
  BY <1>16 DEF vars
<1> QED
  BY <1>1, <1>2, <1>3, <1>4, <1>5, <1>6, <1>7, <1>8, <1>9, <1>10,
     <1>11, <1>12, <1>13, <1>14, <1>15, <1>16
     DEF Next

\* ... the table of the last finished poll,
LEMMA ServedStep ==
    ASSUME TypeOK, ValueInv, RefInv, BuildInv, ServedInv, [Next]_vars
    PROVE  ServedInv'
<1> USE TablesAssumption
    DEF pollVars, restVars, httpVars, carbonVars, TypeOK, RefInv, BuildInv, ServedInv
<1>1. ASSUME NEW now \in Times, NEW keys \in SUBSET Keys, poll_begin(now, keys)
      PROVE  ServedInv'
  BY <1>1 DEF poll_begin, Rebegun, metrics_free
<1>2. ASSUME NEW k \in Keys, poll_metric(k)
      PROVE  ServedInv'
  BY <1>2 DEF poll_metric
<1>3. ASSUME poll_done
      PROVE  ServedInv'
  BY <1>3 DEF poll_done
<1>4. ASSUME swap_tables
      PROVE  ServedInv'
  BY <1>4 DEF swap_tables, slock_lock
<1>5. ASSUME swap_free
      PROVE  ServedInv'
  BY <1>5 DEF swap_free, Replaced, metrics_free, PollOver
<1>6. ASSUME metric_done
      PROVE  ServedInv'
  BY <1>6 DEF metric_done
<1>7. ASSUME cancelled
      PROVE  ServedInv'
  BY <1>7 DEF cancelled, Sending, PollOver
<1>8. ASSUME rest_get_lock
      PROVE  ServedInv'
  BY <1>8 DEF rest_get_lock, slock_lock
<1>9. ASSUME rest_get_write
      PROVE  ServedInv'
  BY <1>9 DEF rest_get_write
<1>10. ASSUME rest_get_unlock
       PROVE  ServedInv'
  BY <1>10 DEF rest_get_unlock, slock_unlock
<1>11. ASSUME crest_free
       PROVE  ServedInv'
  BY <1>11 DEF crest_free
<1>12. ASSUME optics_poller_free
       PROVE  ServedInv'
  BY <1>12 DEF optics_poller_free
<1>13. ASSUME carbon_send
       PROVE  ServedInv'
  BY <1>13 DEF carbon_send, NextLine, Sent
<1>14. ASSUME carbon_connect
       PROVE  ServedInv'
  BY <1>14 DEF carbon_connect, NextLine, Sent, MayAttempt, Attempted
<1>15. ASSUME carbon_skip
       PROVE  ServedInv'
  BY <1>15 DEF carbon_skip, NextLine, MayAttempt
<1>16. ASSUME UNCHANGED vars
       PROVE  ServedInv'
  BY <1>16 DEF vars
<1> QED
  BY <1>1, <1>2, <1>3, <1>4, <1>5, <1>6, <1>7, <1>8, <1>9, <1>10,
     <1>11, <1>12, <1>13, <1>14, <1>15, <1>16
     DEF Next

\* ... the response in the making,
LEMMA RespStep ==
    ASSUME TypeOK, ValueInv, RefInv, RespInv, [Next]_vars
    PROVE  RespInv'
<1> USE TablesAssumption
    DEF pollVars, restVars, httpVars, carbonVars, TypeOK, RefInv, RespInv, Listed
<1>1. ASSUME NEW now \in Times, NEW keys \in SUBSET Keys, poll_begin(now, keys)
      PROVE  RespInv'
  BY <1>1 DEF poll_begin, Rebegun, metrics_free
<1>2. ASSUME NEW k \in Keys, poll_metric(k)
      PROVE  RespInv'
  BY <1>2 DEF poll_metric
<1>3. ASSUME poll_done
      PROVE  RespInv'
  BY <1>3 DEF poll_done
<1>4. ASSUME swap_tables
      PROVE  RespInv'
  BY <1>4 DEF swap_tables, slock_lock
<1>5. ASSUME swap_free
      PROVE  RespInv'
  BY <1>5 DEF swap_free, Replaced, metrics_free, PollOver
<1>6. ASSUME metric_done
      PROVE  RespInv'
  BY <1>6 DEF metric_done
<1>7. ASSUME cancelled
      PROVE  RespInv'
  BY <1>7 DEF cancelled, Sending, PollOver
<1>8. ASSUME rest_get_lock
      PROVE  RespInv'
  BY <1>8 DEF rest_get_lock, slock_lock
<1>9. ASSUME rest_get_write
      PROVE  RespInv'
  BY <1>9 DEF rest_get_write
<1>10. ASSUME rest_get_unlock
       PROVE  RespInv'
  BY <1>10 DEF rest_get_unlock, slock_unlock
<1>11. ASSUME crest_free
       PROVE  RespInv'
  BY <1>11 DEF crest_free
<1>12. ASSUME optics_poller_free
       PROVE  RespInv'
  BY <1>12 DEF optics_poller_free
<1>13. ASSUME carbon_send
       PROVE  RespInv'
  BY <1>13 DEF carbon_send, NextLine, Sent
<1>14. ASSUME carbon_connect
       PROVE  RespInv'
  BY <1>14 DEF carbon_connect, NextLine, Sent, MayAttempt, Attempted
<1>15. ASSUME carbon_skip
       PROVE  RespInv'
  BY <1>15 DEF carbon_skip, NextLine, MayAttempt
<1>16. ASSUME UNCHANGED vars
       PROVE  RespInv'
  BY <1>16 DEF vars
<1> QED
  BY <1>1, <1>2, <1>3, <1>4, <1>5, <1>6, <1>7, <1>8, <1>9, <1>10,
     <1>11, <1>12, <1>13, <1>14, <1>15, <1>16
     DEF Next

\* ... and the story of Carbon's lines.
LEMMA CarbonStep ==
    ASSUME TypeOK, ValueInv, CarbonInv, [Next]_vars
    PROVE  CarbonInv'
<1> USE DEF pollVars, restVars, httpVars, carbonVars, TypeOK, ValueInv, IsStory, NoStory, InPoll, CarbonInv
<1>1. ASSUME NEW now \in Times, NEW keys \in SUBSET Keys, poll_begin(now, keys)
      PROVE  CarbonInv'
  <2>1. /\ carbon'.attempts = 0 /\ carbon'.partials = 0 /\ carbon'.errors = 0
        /\ carbon'.missed = 0 /\ carbon'.gaveup = (now = last_attempt) /\ carbon'.tail = tail
    BY <1>1 DEF poll_begin
  <2>2. InPoll' /\ ts' = now /\ last_attempt' = last_attempt /\ fd' = fd /\ tail' = tail
    BY <1>1 DEF poll_begin
  <2> HIDE DEF TypeOK, ValueInv, IsStory, InPoll, NoStory, CarbonInv
  <2>3. Owes(carbon', tail')
    BY <2>1, <2>2 DEF Owes, Debt
  <2>4. last_attempt' = ts' => carbon'.gaveup
    BY <2>1, <2>2
  <2> QED
    BY <2>1, <2>2, <2>3, <2>4 DEF CarbonInv, Owes, Debt
<1>2. ASSUME NEW k \in Keys, poll_metric(k)
      PROVE  CarbonInv'
  BY <1>2 DEF poll_metric
<1>3. ASSUME poll_done
      PROVE  CarbonInv'
  BY <1>3 DEF poll_done
<1>4. ASSUME swap_tables
      PROVE  CarbonInv'
  BY <1>4 DEF swap_tables, slock_lock
<1>5. ASSUME swap_free
      PROVE  CarbonInv'
  BY <1>5 DEF swap_free, Replaced, metrics_free, PollOver
<1>6. ASSUME metric_done
      PROVE  CarbonInv'
  BY <1>6 DEF metric_done
<1>7. ASSUME cancelled
      PROVE  CarbonInv'
  BY <1>7 DEF cancelled, Sending, PollOver
<1>8. ASSUME rest_get_lock
      PROVE  CarbonInv'
  BY <1>8 DEF rest_get_lock, slock_lock
<1>9. ASSUME rest_get_write
      PROVE  CarbonInv'
  BY <1>9 DEF rest_get_write
<1>10. ASSUME rest_get_unlock
       PROVE  CarbonInv'
  BY <1>10 DEF rest_get_unlock, slock_unlock
<1>11. ASSUME crest_free
       PROVE  CarbonInv'
  BY <1>11 DEF crest_free
<1>12. ASSUME optics_poller_free
       PROVE  CarbonInv'
  BY <1>12 DEF optics_poller_free
<1>13. ASSUME carbon_send
       PROVE  CarbonInv'
  <2>1. InPoll /\ InPoll' /\ ts' = ts /\ last_attempt' = last_attempt /\ fd = "up"
    BY <1>13 DEF carbon_send, NextLine
  <2>2. Sent(tail, carbon)
    BY <1>13 DEF carbon_send
  <2> HIDE DEF InPoll, NoStory
  <2>3. Owes(carbon, tail) /\ carbon.attempts <= 1
        /\ (carbon.attempts = 1 => last_attempt = ts)
        /\ (last_attempt = ts => carbon.gaveup \/ carbon.attempts = 1)
    BY <2>1 DEF Owes, Debt
  <2> HIDE DEF CarbonInv, IsStory, TypeOK
  <2>4. tail \in BOOLEAN /\ IsStory(carbon)
    BY DEF TypeOK
  <2>5. /\ Owes(carbon', tail') /\ carbon'.attempts = carbon.attempts
        /\ (carbon.gaveup => carbon'.gaveup)
        /\ (fd' # "up" /\ carbon.attempts > 0 => carbon'.gaveup)
    BY <2>2, <2>3, <2>4, SentOutcome
  <2> HIDE DEF ValueInv
  <2>6. last_attempt = ts /\ fd' # "up" => carbon'.gaveup
    BY <2>3, <2>5
  <2> QED
    BY <2>1, <2>3, <2>5, <2>6 DEF CarbonInv, Owes, Debt
<1>14. ASSUME carbon_connect
       PROVE  CarbonInv'
  <2> DEFINE tried == [carbon EXCEPT !.attempts = @ + 1]
  <2>1. /\ InPoll /\ InPoll' /\ ts' = ts /\ last_attempt # ts /\ last_attempt' = ts
        /\ carbon.attempts = 0
    BY <1>14 DEF carbon_connect, NextLine, MayAttempt, Attempted
  <2>2. /\ IsStory(tried) /\ tried.attempts = 1 /\ tried.partials = carbon.partials
        /\ tried.errors = carbon.errors /\ tried.missed = carbon.missed
        /\ tried.gaveup = carbon.gaveup /\ tried.tail = carbon.tail
    BY <2>1
  <2>3. CASE Sent(FALSE, tried)
    <3> HIDE DEF tried, InPoll, NoStory
    <3>1. Owes(tried, FALSE)
      BY <2>1, <2>2 DEF Owes, Debt
    <3> HIDE DEF CarbonInv, IsStory, TypeOK, ValueInv
    <3>2. /\ Owes(carbon', tail') /\ carbon'.attempts = tried.attempts
          /\ (fd' # "up" /\ tried.attempts > 0 => carbon'.gaveup)
      BY <2>2, <2>3, <3>1, SentOutcome, Zenon
    <3>3. tried.attempts > 0
      BY <2>2
    <3> QED
      BY <2>1, <2>2, <3>2, <3>3 DEF CarbonInv, Owes, Debt
  <2>4. CASE /\ carbon' = [tried EXCEPT !.missed = @ + 1, !.gaveup = TRUE]
             /\ UNCHANGED <<fd, tail>>
    <3>1. carbon'.attempts = 1 /\ carbon'.gaveup
      BY <2>1, <2>4
    <3> QED
      BY <2>1, <3>1
  <2>5. \/ Sent(FALSE, tried)
        \/ /\ carbon' = [tried EXCEPT !.missed = @ + 1, !.gaveup = TRUE]
           /\ UNCHANGED <<fd, tail>>
    BY <1>14 DEF carbon_connect
  <2> QED
    BY <2>3, <2>4, <2>5
<1>15. ASSUME carbon_skip
       PROVE  CarbonInv'
  BY <1>15 DEF carbon_skip, NextLine, MayAttempt
<1>16. ASSUME UNCHANGED vars
       PROVE  CarbonInv'
  BY <1>16 DEF vars
<1> QED
  BY <1>1, <1>2, <1>3, <1>4, <1>5, <1>6, <1>7, <1>8, <1>9, <1>10,
     <1>11, <1>12, <1>13, <1>14, <1>15, <1>16
     DEF Next

-----------------------------------------------------------------------------
(* The theorems.                                                            *)

\* The invariant holds of every behaviour of the backends, whatever the keys,
\* the tables and the times of the polls.
THEOREM Invariant == Spec => []IndInv
<1>1. Init => IndInv
  <2> SUFFICES ASSUME Init PROVE IndInv
    OBVIOUS
  <2> USE TablesAssumption DEF Init
  <2>0. heap \in [Tables -> [live : BOOLEAN, data : Seq(Metric)]]
    <3>1. <<>> \in Seq(Metric)
      OBVIOUS
    <3> QED
      BY <3>1
  <2>1. TypeOK
    BY <2>0, Nothing DEF TypeOK
  <2>2. ValueInv
    BY Nothing DEF ValueInv
  <2>3. RefInv
    BY DEF RefInv
  <2>4. BuildInv /\ ServedInv /\ RespInv
    BY DEF BuildInv, ServedInv, RespInv
  <2>5. CarbonInv
    BY DEF CarbonInv, InPoll
  <2> QED
    BY <2>1, <2>2, <2>3, <2>4, <2>5 DEF IndInv
<1>2. IndInv /\ [Next]_vars => IndInv'
  BY TypeStep, RefStep, BuildStep, ServedStep, RespStep, CarbonStep DEF IndInv
<1> QED
  BY <1>1, <1>2, PTL DEF Spec

\* The table that the HTTP thread reads is never freed under it, and no table
\* is lost or kept, whatever becomes of the polls: metrics_free of begin and
\* of swap_tables frees exactly what nobody refers to.
THEOREM NoTableLost == Spec => []TablesOwned
<1>1. IndInv => TablesOwned
  BY TablesAssumption DEF IndInv, TypeOK, RefInv, TablesOwned
<1> QED
  BY <1>1, Invariant, PTL

\* A response of rest_get is the table of one poll, whole and in the order of
\* the keys.
THEOREM ResponseOfOnePoll == Spec => []ResponseWhole
<1>1. ASSUME IndInv PROVE ResponseWhole
  <2> SUFFICES ASSUME hpc = "writing", at > Len(Listed)
               PROVE  /\ Range(resp) = served
                      /\ \A i, j \in DOMAIN resp : i < j => resp[i].key < resp[j].key
    BY DEF ResponseWhole
  <2>1. Listed \in Seq(Metric) /\ resp \in Seq(Metric)
    BY <1>1 DEF IndInv, TypeOK, ValueInv, Listed
  <2>2. Range(Listed) = served /\ Ascending(Listed)
    <3>1. bpc # "freed"
      BY <1>1 DEF IndInv, RefInv
    <3>2. CASE current = Null
      BY <1>1, <3>1, <3>2 DEF IndInv, ServedInv, Listed, Range, Ascending
    <3>3. CASE current # Null
      BY <1>1, <3>1, <3>3 DEF IndInv, ServedInv, Listed
    <3> QED
      BY <3>2, <3>3
  <2>3. resp = Listed
    <3>1. /\ at = Len(resp) + 1 /\ Len(resp) <= Len(Listed)
          /\ \A i \in 1 .. Len(resp) : resp[i] = Listed[i]
      BY <1>1 DEF IndInv, RespInv
    <3>2. Len(resp) = Len(Listed)
      BY <2>1, <3>1
    <3> QED
      BY <2>1, <3>1, <3>2
  <2> QED
    BY <2>2, <2>3 DEF Ascending
<1> QED
  BY <1>1, Invariant, PTL

\* Carbon connects at most once in a poll, and a fault of the network costs no
\* more lines than the ones it broke and the ones that follow a broken line.
THEOREM DamageIsBounded == Spec => []DamageBounded
<1>1. ASSUME IndInv PROVE DamageBounded
  <2>1. CASE ~InPoll
    BY <1>1, <2>1 DEF IndInv, CarbonInv, NoStory, DamageBounded
  <2>2. CASE InPoll
    <3>1. /\ carbon.attempts <= 1
          /\ Owes(carbon, tail)
      BY <1>1, <2>2 DEF IndInv, CarbonInv, Owes, Debt
    <3>2. IsStory(carbon) /\ Debt(tail) \in {0, 1} /\ Debt(carbon.tail) \in {0, 1}
      BY <1>1 DEF IndInv, ValueInv, Debt
    <3>3. ~carbon.gaveup => carbon.missed <= 2 * carbon.partials + carbon.errors + Debt(carbon.tail)
      BY <3>1, <3>2 DEF IsStory, Owes
    <3> QED
      BY <3>1, <3>3 DEF DamageBounded, Debt
  <2> QED
    BY <2>1, <2>2
<1> QED
  BY <1>1, Invariant, PTL
=============================================================================
