------------------------------ MODULE MCPoller ------------------------------
(* An instance of Poller for TLC.  Three regions, two of which fit into the *)
(* list of a poll, hold lenses of one key that agree or do not.             *)
EXTENDS Poller, TLC

CONSTANTS r1, r2, r3, k1, b1, b2, b3

L(type, layout) == [type |-> type, layout |-> layout]
Counter == L("counter", 0)
Dist == L("dist", 0)
Gauge == L("gauge", 0)
SomeLenses == {Counter, Dist, Gauge, L("histo", 1), L("histo", 2),
               L("quantile", 0), L("quantile", 50), L("quantile", 90)}

Hold(x, y, z) == [r \in Regions |-> [k \in Keys |->
                    CASE r = r1 -> x [] r = r2 -> y [] OTHER -> z]]
SomeContents ==
    {Hold(Counter, Counter, Dist),
     Hold(L("histo", 1), L("histo", 2), Gauge),
     Hold(L("quantile", 0), L("quantile", 50), L("quantile", 90))}
SomeTimes == [r \in Regions |-> IF r = r2 THEN 2 ELSE 1]
ThreeBackends == <<b1, b2, b3>>
=============================================================================
