-------------------------- MODULE RingQueueHistory --------------------------
(***************************************************************************)
(* RingQueue with a history variable that records what a call of pop() in  *)
(* progress could have observed of the whole queue, to compare its answer  *)
(* with what the comments of concurrent_queue.h promise the caller.        *)
(***************************************************************************)
EXTENDS RingQueue

VARIABLES
  sawEmpty    (* consumer: no completed push was in the queue, at some      *)
              (* point of the current call                                  *)

hvars == <<vars, sawEmpty>>

(* Every element between the indices is of a push that has not returned.    *)
NoneCompleted ==
  \A i \in head_i .. (tail_i - 1) :
    \E p \in Producers :
      pc[p] \in {"push_construct", "push_publish", "push_done"} /\ at[p] = i

Begins(t) == pc[t] = "idle" /\ pc'[t] # "idle"

HInit ==
  /\ Init
  /\ sawEmpty = [c \in Consumers |-> FALSE]

HNext ==
  /\ Next
  /\ sawEmpty' = [c \in Consumers |->
                    (pc'[c] # "idle" /\ NoneCompleted') \/ (~Begins(c) /\ sawEmpty[c])]

HSpec == HInit /\ [][HNext]_hvars

(* "reporting "empty" is a correct, linearizable answer" (line 244): during *)
(* a pop that reports empty there was a moment when no completed push was   *)
(* in the queue.                                                            *)
EmptyIsLinearizable ==
  \A c \in Consumers : pc[c] = "pop_none" => sawEmpty[c]
=============================================================================
