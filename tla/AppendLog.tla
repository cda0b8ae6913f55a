------------------------------ MODULE AppendLog ------------------------------
(***************************************************************************)
(* What ConcurrentAppendDeque promises: a sequence that only grows, by one *)
(* appended element or by any number of default elements at once, and      *)
(* whose elements never change place or value.                             *)
(***************************************************************************)
EXTENDS Naturals, Sequences

CONSTANTS
  Values,       (* what is appended                                         *)
  Zero          (* the value-initialized element                            *)

VARIABLE log

Init == log = <<>>

Append1 == \E v \in Values : log' = Append(log, v)

(* Any number of default elements                                           *)
Grow ==
  /\ Len(log') > Len(log)
  /\ log' = [n \in 1 .. Len(log') |-> IF n <= Len(log) THEN log[n] ELSE Zero]

Next == Append1 \/ Grow

Spec == Init /\ [][Next]_log
=============================================================================
