------------------------------ MODULE MCHashSet ------------------------------
(* Instances of HashSet for TLC.  The run takes one key; two keys, for a    *)
(* longer check by hand, share the chains of the smaller tables.            *)
EXTENDS HashSet

CONSTANTS t1, t2, k1, k2

TwoThreads == {t1, t2}

OneKey  == {k1}
TwoKeys == {k1, k2}

(* k1 moves at every doubling, k2 at the first one only.                    *)
Hashes1 == [k \in OneKey |-> 12]
Hashes2 == [k \in TwoKeys |-> IF k = k1 THEN 12 ELSE 4]
=============================================================================
