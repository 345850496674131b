------------------------------ MODULE Delivery ------------------------------
(***************************************************************************)
(* What the snapshot mechanism promises of a set of counting cells: every  *)
(* recorded event is published at most once, never before it was recorded. *)
(***************************************************************************)
EXTENDS Naturals

CONSTANTS Cells  \* the counters of a region: one per counter, or histo bucket

VARIABLES recorded, published

dvars == <<recorded, published>>

Init ==
    /\ recorded = [c \in Cells |-> 0]
    /\ published = [c \in Cells |-> 0]

Record(c) ==
    /\ recorded' = [recorded EXCEPT ![c] = @ + 1]
    /\ UNCHANGED published

\* A poll publishes some of what was recorded and not published before.
Publish ==
    /\ published' \in [Cells -> Nat]
    /\ \A c \in Cells : published[c] <= published'[c] /\ published'[c] <= recorded[c]
    /\ UNCHANGED recorded

Next == (\E c \in Cells : Record(c)) \/ Publish

Spec == Init /\ [][Next]_dvars
=============================================================================
