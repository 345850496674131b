----------------------------- MODULE MCSnapshot -----------------------------
(* Instances of Snapshot for TLC.                                           *)
EXTENDS Snapshot, TLC

CONSTANTS t1, t2, t3, c1, c2

ThreeThreads == {t1, t2, t3}
TwoThreads == {t1, t2}
TwoCells == {c1, c2}
OneCell == {c1}

Symmetry == Permutations(Threads) \cup Permutations(Cells)
=============================================================================
