---------------------------- MODULE MCRegionFile ----------------------------
(* An instance of RegionFile for TLC: two clients that use the same name.   *)
EXTENDS RegionFile, TLC

CONSTANTS c1, c2, n1

ClientSymmetry == Permutations({c1, c2})
=============================================================================
