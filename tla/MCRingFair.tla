------------------------------ MODULE MCRingFair ------------------------------
(***************************************************************************)
(* One instance for TLC of RingQueue under fair scheduling, in three       *)
(* environments that have one producer or one consumer; the ring of spsc   *)
(* gets full.  `env` is the environment that a behavior is in.             *)
(***************************************************************************)
EXTENDS Naturals, FiniteSets

CONSTANTS p1, p2, c1, c2, NoThread, NoKey, NoValue

VARIABLES env, key, busy, val, head_i, head_l, tail_i, tail_l, calls, pc, at, elem, tries,
          ret, got

all == <<env, key, busy, val, head_i, head_l, tail_i, tail_l, calls, pc, at, elem, tries,
         ret, got>>

(* Keys as the callers choose them: all different, or always the same.      *)
DistinctKey(n) == <<"key", n>>
SameKey(n)     == <<"key", 0>>

MPSC == INSTANCE RingQueue WITH
  Producers <- {p1, p2}, Consumers <- {c1}, KeyOf <- DistinctKey,
  Preloaded <- 6, MaxPush <- 9, Credits <- 8, Capacity <- 8, NTRY <- 1

SPMC == INSTANCE RingQueue WITH
  Producers <- {p1}, Consumers <- {c1, c2}, KeyOf <- DistinctKey,
  Preloaded <- 1, MaxPush <- 3, Credits <- 9, Capacity <- 8, NTRY <- 1

SPSC == INSTANCE RingQueue WITH
  Producers <- {p1}, Consumers <- {c1}, KeyOf <- SameKey,
  Preloaded <- 7, MaxPush <- 13, Credits <- 9, Capacity <- 8, NTRY <- 2

Init ==
  \/ env = "mpsc" /\ MPSC!Init
  \/ env = "spmc" /\ SPMC!Init
  \/ env = "spsc" /\ SPSC!Init

Next ==
  \/ env = "mpsc" /\ MPSC!Next /\ UNCHANGED env
  \/ env = "spmc" /\ SPMC!Next /\ UNCHANGED env
  \/ env = "spsc" /\ SPSC!Next /\ UNCHANGED env

(* A thread inside a call is scheduled (RingQueue's FairSpec).              *)
Spec ==
  /\ Init /\ [][Next]_all
  /\ \A p \in {p1, p2} : WF_all(env = "mpsc" /\ MPSC!PushStep(p) /\ UNCHANGED env)
  /\ WF_all(env = "mpsc" /\ MPSC!PopStep(c1) /\ UNCHANGED env)
  /\ WF_all(env = "mpsc" /\ MPSC!EmptyStep(c1) /\ UNCHANGED env)
  /\ WF_all(env = "spsc" /\ SPSC!PushStep(p1) /\ UNCHANGED env)
  /\ WF_all(env = "spsc" /\ SPSC!PopStep(c1) /\ UNCHANGED env)
  /\ WF_all(env = "spsc" /\ SPSC!EmptyStep(c1) /\ UNCHANGED env)

-----------------------------------------------------------------------------
(* In each of the environments the queue implements the bounded FIFO queue: *)
(* elements leave in the order in which their pushes claimed their slots,   *)
(* each once, whatever commits are in progress.                             *)
ImplementsFifo ==
  /\ env = "mpsc" => MPSC!F!Init
  /\ env = "spmc" => SPMC!F!Init
  /\ env = "spsc" => SPSC!F!Init
  /\ [][/\ env = "mpsc" => [MPSC!F!Next]_(MPSC!F!vars)
        /\ env = "spmc" => [SPMC!F!Next]_(SPMC!F!vars)
        /\ env = "spsc" => [SPSC!F!Next]_(SPSC!F!vars)]_all

(* A call that has its lock returns, whatever the other threads do: push()  *)
(* probes NTRY times and pop() waits only for a commit in progress; and     *)
(* consumers that poll drain the queue, so that no element is stranded      *)
(* behind a slot that is merely busy (lines 239-275).                       *)
CallsReturnAndDrain ==
  /\ (env = "spsc" /\ pc[p1] \in SPSC!HoldsTail) ~> (env = "spsc" /\ pc[p1] = "idle")
  /\ (env = "mpsc" /\ pc[c1] \in MPSC!HoldsHead) ~> (env = "mpsc" /\ pc[c1] = "idle")
  /\ SF_all(env = "mpsc" /\ MPSC!PopCall(c1) /\ UNCHANGED env) =>
       <>[](env = "mpsc" => head_i = tail_i /\ \A t \in {p1, p2, c1} : ~MPSC!Owns(t))
=============================================================================
