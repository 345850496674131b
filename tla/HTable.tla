------------------------------- MODULE HTable -------------------------------
(***************************************************************************)
(* The hash table of utils/htable.c: open addressing in which a key lives  *)
(* in one of the ProbeWindow buckets that follow its hash, deletion leaves *)
(* a hole, and a full window doubles the table.  It holds the names of a   *)
(* region, the values of a poll and the headers of an HTTP response.       *)
(*                                                                         *)
(* A table is a function from bucket numbers to buckets.  Callers take     *)
(* turns; a call is one action, but for a htable_put that makes room       *)
(* and then calls itself, and for the loop over htable_next, in which each *)
(* call is an action.  An operation that needs more than MaxCap buckets    *)
(* has no successor: optics_assert_alloc ends the process.                 *)
(***************************************************************************)
EXTENDS Naturals, FiniteSets

CONSTANTS
    Keys,         \* keys, told apart by strncmp
    Values,       \* stored values
    Hash,         \* htable_hash of every key
    ProbeWindow,  \* probe_window, 8 in the code
    Reserves,     \* arguments htable_reserve is called with
    MaxCap,       \* bound: the largest table that calloc finds memory for
    Null          \* no key

ASSUME HashAssumption == Hash \in [Keys -> Nat]
ASSUME WindowAssumption == ProbeWindow \in Nat \ {0} /\ Reserves \subseteq Nat /\ MaxCap \in Nat
ASSUME NullAssumption == Null \notin Keys

VARIABLES
    ht,        \* struct htable: len, cap, table
    ret,       \* struct htable_ret of the last operation
    call,      \* arguments of the htable_put that is calling itself, or Zeroed
    it, met    \* the loop over htable_next: where the next call starts to look,
               \* and how often each key was met

vars == <<ht, ret, call, it, met>>

Bucket == [key : Keys \cup {Null}, value : Values \cup {0}]
Zeroed == [key |-> Null, value |-> 0]
Unmet == [k \in Keys |-> 0]

TypeOK ==
    /\ ht.len \in Nat
    /\ ht.cap \in Nat
    /\ ht.table \in [0..(ht.cap - 1) -> Bucket]
    /\ ret \in [ok : BOOLEAN, value : Values \cup {0}]
    /\ call \in Bucket
    /\ it \in 0..ht.cap
    /\ met \in [Keys -> Nat]

Empty == [len |-> 0, cap |-> 0, table |-> [i \in {} |-> Zeroed]]

Init ==
    /\ ht = Empty
    /\ ret = [ok |-> FALSE, value |-> 0]
    /\ call = Zeroed
    /\ it = 0 /\ met = Unmet

-----------------------------------------------------------------------------
\* The i-th bucket probed for k.
Probe(cap, k, i) == (Hash[k] + i) % cap

\* The window of k, as the probe numbers whose bucket holds key x.
Holding(t, k, x) ==
    {i \in 0..(ProbeWindow - 1) : t.table[Probe(t.cap, k, i)].key = x}

\* The bucket of the first of some probes of k.
First(t, k, probes) ==
    Probe(t.cap, k, CHOOSE i \in probes : \A j \in probes : i <= j)

Fill(t, b, k, v) == [t EXCEPT !.table[b] = [key |-> k, value |-> v]]

\* table_put of one bucket of the old table; Empty stands for "no room".
table_put(t, b) ==
    IF b.key = Null \/ t = Empty THEN t
    ELSE LET holes == Holding(t, b.key, Null)
         IN  IF holes = {} THEN Empty
             ELSE Fill(t, First(t, b.key, holes), b.key, b.value)

\* The capacities that htable_resize can come to: doublings, from want on.
Capacities(t, want) ==
    {c \in want..MaxCap : \E n \in 0..MaxCap : c = (IF t.cap = 0 THEN 1 ELSE t.cap) * 2^n}

Fresh(t, cap) == [len |-> t.len, cap |-> cap, table |-> [b \in 0..(cap - 1) |-> Zeroed]]

\* The buckets of t, put in their order into a table of the given capacity.
Rehashed(t, cap) ==
    LET moved[i \in 0..t.cap] ==
            IF i = 0 THEN Fresh(t, cap) ELSE table_put(moved[i - 1], t.table[i - 1])
    IN  moved[t.cap]

\* htable_resize, as the set of its outcomes: the capacity is doubled until it
\* suffices, and again for as long as the rehash overflows a window.
htable_resize(t, want) ==
    IF want <= t.cap THEN {t}
    ELSE LET fits == {c \in Capacities(t, want) : Rehashed(t, c) # Empty}
         IN  {Rehashed(t, c) : c \in {d \in fits : \A e \in fits : d <= e}}

\* Every operation first gives an empty table its buckets.
Sized(t) == htable_resize(t, ProbeWindow)

\* Faulty variant: the scan stops at the first hole.
PutSlot_early(t, k) ==
    IF Holding(t, k, Null) # {} THEN Holding(t, k, Null) ELSE Holding(t, k, k)

\* Where htable_put stops: at the key when the window has it, otherwise at
\* the first hole.
PutSlot(t, k) ==
    IF Holding(t, k, k) # {} THEN Holding(t, k, k) ELSE Holding(t, k, Null)

-----------------------------------------------------------------------------
\* An operation that is not part of a loop over htable_next.
Starts == call = Zeroed /\ it' = 0 /\ met' = Unmet

htable_reset ==
    /\ Starts
    /\ ht' = Empty
    /\ UNCHANGED <<ret, call>>

htable_reserve(items) ==
    /\ Starts
    /\ ht' \in htable_resize(ht, items * 4)
    /\ UNCHANGED <<ret, call>>

htable_get(k) ==
    /\ Starts
    /\ ht' \in Sized(ht)
    /\ LET at == Holding(ht', k, k)
       IN  ret' = IF at = {} THEN [ok |-> FALSE, value |-> 0]
                  ELSE [ok |-> TRUE, value |-> ht'.table[First(ht', k, at)].value]
    /\ UNCHANGED call

\* htable_put found the bucket b, with the key or as a hole.
PutAt(t, b, k, v) ==
    IF t.table[b].key = k
    THEN ht' = t /\ ret' = [ok |-> FALSE, value |-> t.table[b].value]
    ELSE /\ ht' = [Fill(t, b, k, v) EXCEPT !.len = @ + 1]
         /\ ret' = [ok |-> TRUE, value |-> 0]

htable_put(k, v) ==
    /\ call \in {Zeroed, [key |-> k, value |-> v]}
    /\ \E t \in Sized(ht) :
        IF PutSlot(t, k) # {}
        THEN PutAt(t, First(t, k, PutSlot(t, k)), k, v) /\ call' = Zeroed
        ELSE /\ ht' \in htable_resize(t, t.cap * 2)
             /\ call' = [key |-> k, value |-> v]
             /\ UNCHANGED ret
    /\ it' = 0 /\ met' = Unmet

htable_xchg(k, v) ==
    /\ Starts
    /\ \E t \in Sized(ht) :
        LET at == Holding(t, k, k)
            b == First(t, k, at)
        IN  IF at = {} THEN ht' = t /\ ret' = [ok |-> FALSE, value |-> 0]
            ELSE ht' = Fill(t, b, k, v) /\ ret' = [ok |-> TRUE, value |-> t.table[b].value]
    /\ UNCHANGED call

\* The bucket becomes a hole; its value stays behind.
Vacate(t, b) == [t EXCEPT !.len = @ - 1, !.table[b].key = Null]

htable_del(k) ==
    /\ Starts
    /\ \E t \in Sized(ht) :
        LET at == Holding(t, k, k)
            b == First(t, k, at)
        IN  IF at = {} THEN ht' = t /\ ret' = [ok |-> FALSE, value |-> 0]
            ELSE ht' = Vacate(t, b) /\ ret' = [ok |-> TRUE, value |-> t.table[b].value]
    /\ UNCHANGED call

\* Faulty variant: the bucket after the last one is skipped.
htable_next_skip(t, i) ==
    LET rest == {j \in (i + 1)..(t.cap - 1) : t.table[j].key # Null}
    IN  IF rest = {} THEN t.cap ELSE CHOOSE j \in rest : \A l \in rest : j <= l

\* htable_next: the first used bucket from i on, or cap for the end.
htable_next(t, i) ==
    LET rest == {j \in i..(t.cap - 1) : t.table[j].key # Null}
    IN  IF rest = {} THEN t.cap ELSE CHOOSE j \in rest : \A l \in rest : j <= l

\* One round of for (it = htable_next(ht, NULL); it; it = htable_next(ht, it)).
walk ==
    /\ call = Zeroed
    /\ LET j == htable_next(ht, it)
       IN  IF j = ht.cap THEN it' = 0 /\ met' = Unmet
           ELSE it' = j + 1 /\ met' = [met EXCEPT ![ht.table[j].key] = @ + 1]
    /\ UNCHANGED <<ht, ret, call>>

-----------------------------------------------------------------------------
Next ==
    \/ \E k \in Keys : htable_get(k) \/ htable_del(k)
    \/ \E k \in Keys, v \in Values : htable_put(k, v) \/ htable_xchg(k, v)
    \/ \E items \in Reserves : htable_reserve(items)
    \/ htable_reset
    \/ walk

Spec == Init /\ [][Next]_vars

-----------------------------------------------------------------------------
(* Properties.                                                              *)

Used(t) == {i \in 0..(t.cap - 1) : t.table[i].key # Null}
Names(t) == {t.table[i].key : i \in Used(t)}

\* What the buckets hold, read as a map.
Contents(t) ==
    [k \in Names(t) |-> t.table[CHOOSE i \in Used(t) : t.table[i].key = k].value]

Map == INSTANCE KeyMap WITH map <- Contents(ht), ret <- ret

\* Whatever collides, wraps around the end of the table, is deleted in front
\* of other keys or is moved by a resize, the table answers like a map.
ImplementsMap == Map!Spec

\* The table is well formed: len counts the keys, each key is in one bucket,
\* and the loop over htable_next that publishes a poll has met each key exactly
\* once, and nothing else, when it comes to its end.
TableSound ==
    /\ TypeOK
    /\ ht.len = Cardinality(Names(ht))
    /\ \A i, j \in Used(ht) : ht.table[i].key = ht.table[j].key => i = j
    /\ htable_next(ht, it) = ht.cap =>
        met = [k \in Keys |-> IF k \in Names(ht) THEN 1 ELSE 0]

=============================================================================
