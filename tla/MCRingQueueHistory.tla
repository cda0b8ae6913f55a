-------------------------- MODULE MCRingQueueHistory --------------------------
(* Instances of RingQueueHistory for TLC.                                   *)
EXTENDS RingQueueHistory

CONSTANTS p1, p2, c1

TwoProducers == {p1, p2}
OneConsumer  == {c1}

(* Keys as the callers choose them: all different.                          *)
DistinctKey(n) == <<"key", n>>
=============================================================================
