---------------------------- MODULE BoundedQueue ----------------------------
(***************************************************************************)
(* A linearizable bounded queue: each operation takes effect, and finds    *)
(* its answer, in one step between its call and its return.                *)
(***************************************************************************)
EXTENDS Naturals, Sequences

CONSTANTS
  Producers, Consumers, Keys,
  Capacity

VARIABLES
  items,        (* the queue                                                *)
  arg,          (* the key each producer pushes                             *)
  answer        (* what each thread's operation will return                 *)

vars == <<items, arg, answer>>

(* The answers of push, pop and empty, and of an operation that has not     *)
(* taken effect.                                                            *)
Pushed    == <<"pushed">>
Refused   == <<"full">>
Popped(k) == <<"popped", k>>
PoppedNothing == <<"nothing">>
IsEmptyAnswer(b) == IF b THEN <<"empty">> ELSE <<"not empty">>
NoAnswer  == <<"pending">>

Init ==
  /\ items = <<>>
  /\ arg \in [Producers -> Keys]
  /\ answer = [t \in Producers \cup Consumers |-> NoAnswer]

Answer(t, a) ==
  /\ answer[t] = NoAnswer
  /\ answer' = [answer EXCEPT ![t] = a]

CallPush(p) ==
  /\ answer[p] = NoAnswer
  /\ \E k \in Keys : arg' = [arg EXCEPT ![p] = k]
  /\ UNCHANGED <<items, answer>>

Push(p) ==
  /\ \/ Len(items) < Capacity /\ items' = Append(items, arg[p]) /\ Answer(p, Pushed)
     \/ Len(items) = Capacity /\ UNCHANGED items /\ Answer(p, Refused)
  /\ UNCHANGED arg

Pop(c) ==
  /\ \/ items # <<>> /\ items' = Tail(items) /\ Answer(c, Popped(Head(items)))
     \/ items = <<>> /\ UNCHANGED items /\ Answer(c, PoppedNothing)
  /\ UNCHANGED arg

IsEmpty(c) ==
  /\ Answer(c, IsEmptyAnswer(items = <<>>))
  /\ UNCHANGED <<items, arg>>

Return(t) ==
  /\ answer' = [answer EXCEPT ![t] = NoAnswer]
  /\ UNCHANGED <<items, arg>>

Next ==
  \/ \E p \in Producers : CallPush(p) \/ Push(p)
  \/ \E c \in Consumers : Pop(c) \/ IsEmpty(c)
  \/ \E t \in Producers \cup Consumers : Return(t)

Spec == Init /\ [][Next]_vars
=============================================================================
