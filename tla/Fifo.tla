-------------------------------- MODULE Fifo --------------------------------
(***************************************************************************)
(* What the key-value queue promises: a bounded first-in first-out queue.  *)
(* An element takes its place when its push claims a slot and can be       *)
(* popped once the push has published it; only the oldest element is       *)
(* popped, by one consumer, which delivers it to its caller.               *)
(***************************************************************************)
EXTENDS Naturals, Sequences

CONSTANTS
  Capacity,     (* elements the queue holds                                 *)
  Elements,     (* what is pushed                                           *)
  Initial,      (* the queue at the start                                   *)
  Consumers,
  Nothing       (* what a consumer holds that is not in the middle of a pop *)

VARIABLES
  queue,        (* the elements in order: [elem, ready] records             *)
  holding       (* the element each consumer has taken and not delivered    *)

vars == <<queue, holding>>

Init ==
  /\ queue = Initial
  /\ holding = [c \in Consumers |-> Nothing]

Enter ==
  /\ Len(queue) < Capacity
  /\ \E e \in Elements : queue' = Append(queue, [elem |-> e, ready |-> FALSE])
  /\ UNCHANGED holding

Publish ==
  /\ \E i \in DOMAIN queue :
       /\ ~queue[i].ready
       /\ queue' = [queue EXCEPT ![i].ready = TRUE]
  /\ UNCHANGED holding

Take(c) ==
  /\ holding[c] = Nothing
  /\ queue # <<>>
  /\ Head(queue).ready
  /\ holding' = [holding EXCEPT ![c] = Head(queue).elem]
  /\ queue' = Tail(queue)

Deliver(c) ==
  /\ holding[c] # Nothing
  /\ holding' = [holding EXCEPT ![c] = Nothing]
  /\ UNCHANGED queue

Next == Enter \/ Publish \/ \E c \in Consumers : Take(c) \/ Deliver(c)

Spec == Init /\ [][Next]_vars
=============================================================================
