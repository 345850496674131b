----------------------------- MODULE MCDistLens -----------------------------
(* Instances of DistLens for TLC.                                           *)
EXTENDS DistLens, TLC

CONSTANTS t1, t2

TwoThreads == {t1, t2}

Symmetry == Permutations(Threads)
=============================================================================
