----------------------------- MODULE MCSpinLock -----------------------------
(* Instances of SpinLock for TLC.                                           *)
EXTENDS SpinLock

CONSTANTS t1, t2

TwoThreads == {t1, t2}
=============================================================================
