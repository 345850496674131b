------------------------------- MODULE MCAlloc ------------------------------
(* Instances of Alloc for TLC.                                              *)
EXTENDS Alloc, TLC

CONSTANTS t1, t2, t3, s1, s2

TwoThreads == {t1, t2}
ThreeThreads == {t1, t2, t3}
TwoSlabs == {s1, s2}

Symmetry == Permutations(Threads) \cup Permutations(Slabs)
=============================================================================
