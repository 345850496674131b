------------------------------ MODULE MCRegion ------------------------------
(* Instances of Region for TLC.                                             *)
EXTENDS Region, TLC

CONSTANTS t1, t2, t3

TwoThreads == {t1, t2}
ThreeThreads == {t1, t2, t3}
OneTwo == {1, 2}

Symmetry == Permutations(Threads)
=============================================================================
