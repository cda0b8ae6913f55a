------------------------------ MODULE Lockable ------------------------------
(***************************************************************************)
(* What the class SpinLock promises its callers, the containers of         *)
(* Chapter07 (through std::unique_lock and std::lock_guard): lock() comes  *)
(* back with the lock or not at all, try_lock() comes back with or without *)
(* it, nobody has it at the same time, and who has it gives it back.       *)
(***************************************************************************)
CONSTANT Threads

VARIABLE stage   (* of each thread: "outside", in one of the two Calls,      *)
                 (* "inside" with the lock, or "refused" by try_lock()       *)

Calls == {"lock", "try_lock"}

Moves(t, from, to) == stage[t] \in from /\ stage' = [stage EXCEPT ![t] = to]

(* A thread that has the lock does not ask for it again.                    *)
Asks(t) == \E call \in Calls : Moves(t, {"outside", "refused"}, call)

Enters(t) ==
  /\ \A u \in Threads : stage[u] # "inside"
  /\ Moves(t, Calls, "inside")

IsRefused(t) == Moves(t, {"try_lock"}, "refused")

Leaves(t) == Moves(t, {"inside"}, "outside")

Outside == stage = [t \in Threads |-> "outside"]

Step == \E t \in Threads : Asks(t) \/ Enters(t) \/ IsRefused(t) \/ Leaves(t)

LockableSpec == Outside /\ [][Step]_stage
=============================================================================
