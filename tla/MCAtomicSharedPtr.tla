-------------------------- MODULE MCAtomicSharedPtr --------------------------
(* Instance of AtomicSharedPtr for TLC.                                     *)
EXTENDS AtomicSharedPtr

CONSTANTS t1, t2, o1, o2

TwoThreads == {t1, t2}
TwoObjects == {o1, o2}
=============================================================================
