---------------------------- MODULE MCLockFreeList ----------------------------
(* Instance of LockFreeList for TLC.                                        *)
EXTENDS LockFreeList

CONSTANTS t1, t2, n1, n2, n3

TwoThreads == {t1, t2}
ThreeNodes == {n1, n2, n3}
=============================================================================
