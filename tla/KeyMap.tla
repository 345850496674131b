------------------------------- MODULE KeyMap -------------------------------
(***************************************************************************)
(* What a table of utils/htable.h promises its callers: a map from keys to *)
(* values in which put never replaces and xchg never inserts.              *)
(***************************************************************************)
EXTENDS Naturals

CONSTANTS Keys, Values

VARIABLES map, ret

mvars == <<map, ret>>

Present(k) == k \in DOMAIN map
Found(k) == [ok |-> TRUE, value |-> map[k]]
Refused == [ok |-> FALSE, value |-> 0]

With(k, v) == [x \in DOMAIN map \cup {k} |-> IF x = k THEN v ELSE map[x]]
Without(k) == [x \in DOMAIN map \ {k} |-> map[x]]

Init == map = [x \in {} |-> 0] /\ ret = Refused

Get(k) ==
    /\ ret' = IF Present(k) THEN Found(k) ELSE Refused
    /\ UNCHANGED map

Put(k, v) ==
    IF Present(k)
    THEN ret' = [ok |-> FALSE, value |-> map[k]] /\ UNCHANGED map
    ELSE ret' = [ok |-> TRUE, value |-> 0] /\ map' = With(k, v)

Xchg(k, v) ==
    IF Present(k)
    THEN ret' = Found(k) /\ map' = With(k, v)
    ELSE ret' = Refused /\ UNCHANGED map

Del(k) ==
    IF Present(k)
    THEN ret' = Found(k) /\ map' = Without(k)
    ELSE ret' = Refused /\ UNCHANGED map

Reset == map' = [x \in {} |-> 0] /\ UNCHANGED ret

Next ==
    \/ \E k \in Keys : Get(k) \/ Del(k)
    \/ \E k \in Keys, v \in Values : Put(k, v) \/ Xchg(k, v)
    \/ Reset

Spec == Init /\ [][Next]_mvars
=============================================================================
