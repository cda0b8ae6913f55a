----------------------------- MODULE MCKeyQueue -----------------------------
(* An instance of KeyQueue for TLC.                                         *)
EXTENDS KeyQueue

CONSTANTS p1, p2, c1, c2, k1

TwoProducers == {p1, p2}
TwoConsumers == {c1, c2}
OneKey       == {k1}
=============================================================================
