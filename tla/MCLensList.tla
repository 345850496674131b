----------------------------- MODULE MCLensList -----------------------------
(* Instances of LensList for TLC.                                           *)
EXTENDS LensList, TLC

CONSTANTS t1, t2, l1, l2, l3, d1, d2, d3, n1, n2, n3

TwoThreads == {t1, t2}
OneThread == {t1}
TwoLenses == {l1, l2}
ThreeLenses == {l1, l2, l3}
OneNode == {d1}
TwoNodes == {d1, d2}
ThreeNodes == {d1, d2, d3}
TwoNames == {n1, n2}
ThreeNames == {n1, n2, n3}
OneName == {n1}

\* Nothing but the header is in the file at first: every block grows it.
EmptyFile == {}
\* Every block is in the file from the start: nothing grows.
WholeFile == Lenses \cup Nodes

\* Blocks, threads and names are interchangeable.
Symmetry == Permutations(Threads) \cup Permutations(Lenses)
            \cup Permutations(Nodes) \cup Permutations(Names)
=============================================================================
