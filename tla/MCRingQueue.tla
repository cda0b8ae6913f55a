----------------------------- MODULE MCRingQueue -----------------------------
(* Instances of RingQueue for TLC.                                          *)
EXTENDS RingQueue, TLC

CONSTANTS p1, p2, c1, c2

TwoProducers == {p1, p2}
OneConsumer  == {c1}
TwoConsumers == {c1, c2}

(* Keys as the callers choose them: all different.                          *)
DistinctKey(n) == <<"key", n>>

ThreadSymmetry == Permutations(Consumers) \cup Permutations(Producers)
=============================================================================
