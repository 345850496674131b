------------------------------ MODULE MCHTable ------------------------------
(* An instance of HTable for TLC: a window of two, and hashes that collide   *)
(* modulo some capacities, share a bucket only after wrapping around the end *)
(* of the table, or overflow a window while a resize is under way.           *)
EXTENDS HTable, TLC

CONSTANTS k1, k2, k3, k4, k5

FiveKeys == {k1, k2, k3, k4, k5}
Hashes == k1 :> 0 @@ k2 :> 3 @@ k3 :> 4 @@ k4 :> 11 @@ k5 :> 7
=============================================================================
