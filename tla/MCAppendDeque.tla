---------------------------- MODULE MCAppendDeque ----------------------------
(* Instances of AppendDeque for TLC.                                        *)
EXTENDS AppendDeque

CONSTANTS w1, w2, r1

TwoWriters == {w1, w2}
OneReader  == {r1}
=============================================================================
