----------------------------- MODULE MCBackends -----------------------------
(* An instance of Backends for TLC.                                         *)
EXTENDS Backends

CONSTANTS t1, t2, t3

SomeTypes == <<"counter", "histo">>
=============================================================================
