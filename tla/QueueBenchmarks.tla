--------------------------- MODULE QueueBenchmarks ---------------------------
(***************************************************************************)
(* The benchmarks that drive the ring queue of                             *)
(* Chapter07/06_concurrent_queue: throughput for a fixed time (mbm) or     *)
(* under Google Benchmark (gmbm, with its BALANCE variant), handoff        *)
(* latency with self-balancing roles (lmbm) and the ping-pong of two       *)
(* threads over two queues (ppmbm).  They create the queue in a buffer of  *)
(* their own, start and stop the threads, destroy both and add up what the *)
(* threads counted.                                                        *)
(*                                                                         *)
(* The queue is abstract here (RingQueue and KeyQueue are its models): a   *)
(* push or a pop is one step.  A pop of the key-value queue may miss       *)
(* although it holds something.  The barriers at the two ends of Google    *)
(* Benchmark's loop are external; clocks, affinity, output and the command *)
(* line are left out.                                                      *)
(***************************************************************************)
EXTENDS Integers, Sequences, FiniteSetsExt

CONSTANTS
  Workers,     (* number of threads (two in ppmbm)                         *)
  Slots,       (* capacity of the queue                                    *)
  Batch,       (* refill_batch                                             *)
  Warmup,      (* warmup_skip                                              *)
  Messages,    (* n_messages, and the iterations of gmbm                   *)
  MaxCalls     (* bound of the model: queue calls per thread of mbm, lmbm  *)

Team == 0 .. Workers - 1
TimedDrivers == {"mbm", "lmbm"}
GoogleDrivers == {"gmbm", "balanced"}

VARIABLES
  driver,
  queue,       (* the queue in its buffer: none, live, destroyed, freed    *)
  q1, q2,      (* what the queues hold (q2: the echo path of ppmbm)        *)
  latch, stop,
  boss,        (* run_once()                                               *)
  at,          (* each thread                                              *)
  round,       (* its iterations, or where it is in a batch                *)
  calls,
  hand,        (* ppmbm: the stamp that a thread works with                *)
  stats,       (* ThreadStats                                              *)
  total, rem   (* RunResult, and what was left in the queue                *)

vars == <<driver, queue, q1, q2, latch, stop, boss, at, round, calls, hand, stats, total, rem>>

ThreadStats == [p |-> 0, c |-> 0, pmiss |-> 0, cmiss |-> 0,
                lat_neg |-> 0, lat_count |-> 0, skipped |-> 0]

Init ==
  /\ driver \in TimedDrivers \cup GoogleDrivers \cup {"ppmbm"}
  /\ queue = "none" /\ q1 = <<>> /\ q2 = <<>>
  /\ latch = Workers + 1 /\ stop = FALSE
  /\ boss = IF driver \in GoogleDrivers THEN "google" ELSE "build"
  /\ at = [t \in Team |-> "start"]
  /\ round = [t \in Team |-> 0] /\ calls = [t \in Team |-> 0]
  /\ hand = [t \in Team |-> 0]
  /\ stats = [t \in Team |-> ThreadStats]
  /\ total = ThreadStats /\ rem = 0

Goto(t, l) == at' = [at EXCEPT ![t] = l]
Tally(t, field) == stats' = [stats EXCEPT ![t][field] = @ + 1]

Odd(t) == t % 2 = 1

-----------------------------------------------------------------------------
(* run_once(): the queue is built before the threads start,                 *)
Build ==
  /\ boss = "build"
  /\ queue' = "live" /\ boss' = "arrive"
  /\ UNCHANGED <<driver, q1, q2, latch, stop, at, round, calls, hand, stats, total, rem>>

BossArrives ==
  /\ boss = "arrive"
  /\ latch' = latch - 1 /\ boss' = "wait"
  /\ UNCHANGED <<driver, queue, q1, q2, stop, at, round, calls, hand, stats, total, rem>>

(* they run until the time is up (in ppmbm, until they are done),           *)
Stop ==
  /\ boss = "wait" /\ latch = 0
  /\ stop' = (driver # "ppmbm") /\ boss' = "join"
  /\ UNCHANGED <<driver, queue, q1, q2, latch, at, round, calls, hand, stats, total, rem>>

Join ==
  /\ boss = "join" /\ \A t \in Team : at[t] = "ended"
  /\ boss' = "destroy"
  /\ UNCHANGED <<driver, queue, q1, q2, latch, stop, at, round, calls, hand, stats, total, rem>>

(* and the queue, which drains what is left, goes before its buffer.        *)
Destroy ==
  /\ boss = "destroy"
  /\ queue' = "destroyed" /\ q1' = <<>> /\ q2' = <<>> /\ rem' = Len(q1) + Len(q2)
  /\ boss' = "free"
  /\ UNCHANGED <<driver, latch, stop, at, round, calls, hand, stats, total>>

Free ==
  /\ boss = "free"
  /\ queue' = "freed" /\ boss' = "reduce"
  /\ UNCHANGED <<driver, q1, q2, latch, stop, at, round, calls, hand, stats, total, rem>>

reduce ==
  /\ boss = "reduce"
  /\ total' = [f \in DOMAIN total |-> MapThenSumSet(LAMBDA t : stats[t][f], Team)]
  /\ boss' = "over"
  /\ UNCHANGED <<driver, queue, q1, q2, latch, stop, at, round, calls, hand, stats, rem>>

-----------------------------------------------------------------------------
Arrive(t) ==
  /\ at[t] = "start" /\ boss \notin {"google", "build"}
  /\ latch' = latch - 1 /\ Goto(t, "latched")
  /\ UNCHANGED <<driver, queue, q1, q2, stop, boss, round, calls, hand, stats, total, rem>>

Go(t) ==
  /\ at[t] = "latched" /\ latch = 0
  /\ Goto(t, "loop")
  /\ UNCHANGED <<driver, queue, q1, q2, latch, stop, boss, round, calls, hand, stats, total, rem>>

(* One push or pop of thread t                                              *)
MayCall(t) == driver \notin TimedDrivers \/ calls[t] < MaxCalls
Called(t) == calls' = IF driver \in TimedDrivers THEN [calls EXCEPT ![t] = @ + 1] ELSE calls

Push(t, x, hit, miss) ==
  /\ MayCall(t) /\ Called(t)
  /\ \/ Len(q1) < Slots /\ q1' = Append(q1, x) /\ Tally(t, "p") /\ Goto(t, hit)
     \/ Len(q1) = Slots /\ UNCHANGED q1 /\ Tally(t, "pmiss") /\ Goto(t, miss)

PopHit(t) == MayCall(t) /\ Called(t) /\ q1 # <<>> /\ q1' = Tail(q1)

PopMiss(t, miss) ==
  /\ MayCall(t) /\ Called(t)
  /\ q1 = <<>> \/ driver = "lmbm"
  /\ Tally(t, "cmiss") /\ UNCHANGED q1 /\ Goto(t, miss)

Leaves(t) == stop /\ Goto(t, "ended") /\ UNCHANGED <<q1, calls, stats>>

(* mbm: odd threads push, even ones pop.                                    *)
Throughput(t) ==
  /\ driver = "mbm" /\ at[t] = "loop"
  /\ \/ Leaves(t)
     \/ ~stop /\ Odd(t) /\ Push(t, 1, "loop", "loop")
     \/ ~stop /\ ~Odd(t) /\ PopHit(t) /\ Tally(t, "c") /\ UNCHANGED at
     \/ ~stop /\ ~Odd(t) /\ PopMiss(t, "loop")
  /\ UNCHANGED <<driver, queue, q2, latch, stop, boss, round, hand, total, rem>>

(* A latency is negative if the thread has changed cores; the first ones    *)
(* are skipped.                                                             *)
Sample(t) ==
  \/ stats' = [stats EXCEPT ![t].c = @ + 1, ![t].lat_neg = @ + 1]
  \/ /\ stats[t].skipped < Warmup
     /\ stats' = [stats EXCEPT ![t].c = @ + 1, ![t].skipped = @ + 1]
  \/ /\ stats[t].skipped = Warmup
     /\ stats' = [stats EXCEPT ![t].c = @ + 1, ![t].lat_count = @ + 1]

(* lmbm: a thread that finds nothing pushes a batch.                        *)
Handoff(t) ==
  /\ driver = "lmbm" /\ at[t] = "loop"
  /\ \/ Leaves(t)
     \/ ~stop /\ PopHit(t) /\ Sample(t) /\ UNCHANGED at
     \/ ~stop /\ PopMiss(t, "refill")
  /\ round' = [round EXCEPT ![t] = 0]
  /\ UNCHANGED <<driver, queue, q2, latch, stop, boss, hand, total, rem>>

Refill(t) ==
  /\ at[t] = "refill"
  /\ \/ /\ round[t] < Batch /\ ~stop
        /\ Push(t, 1, "refill", "loop")
     \/ /\ round[t] = Batch \/ stop
        /\ Goto(t, "loop")
        /\ UNCHANGED <<q1, calls, stats>>
  /\ round' = [round EXCEPT ![t] = IF at'[t] = "refill" THEN @ + 1 ELSE @]
  /\ UNCHANGED <<driver, queue, q2, latch, stop, boss, hand, total, rem>>

-----------------------------------------------------------------------------
(* ppmbm: thread 1 sends, thread 0 echoes.                                  *)
Echo ==
  /\ driver = "ppmbm"
  /\ \/ /\ at[0] = "loop" /\ round[0] < Messages /\ q1 # <<>>
        /\ hand' = [hand EXCEPT ![0] = Head(q1)] /\ q1' = Tail(q1)
        /\ Goto(0, "echo") /\ UNCHANGED <<q2, round>>
     \/ /\ at[0] = "echo" /\ Len(q2) < Slots
        /\ q2' = Append(q2, hand[0]) /\ hand' = [hand EXCEPT ![0] = 0]
        /\ round' = [round EXCEPT ![0] = @ + 1]
        /\ Goto(0, "loop") /\ UNCHANGED q1
     \/ /\ at[0] = "loop" /\ round[0] = Messages
        /\ Goto(0, "ended") /\ UNCHANGED <<q1, q2, hand, round>>
  /\ UNCHANGED <<driver, queue, latch, stop, boss, calls, stats, total, rem>>

Send ==
  /\ driver = "ppmbm" /\ at[1] = "loop"
  /\ \/ /\ round[1] < Messages /\ Len(q1) < Slots
        /\ hand' = [hand EXCEPT ![1] = round[1] + 1]
        /\ q1' = Append(q1, hand'[1])
        /\ Goto(1, "await") /\ UNCHANGED <<round, stats>>
     \/ /\ round[1] = Messages
        /\ stats' = [stats EXCEPT ![1].p = Messages]
        /\ Goto(1, "ended") /\ UNCHANGED <<q1, hand, round>>
  /\ UNCHANGED <<driver, queue, q2, latch, stop, boss, calls, total, rem>>

Await ==
  /\ at[1] = "await" /\ q2 # <<>>
  /\ q2' = Tail(q2) /\ Sample(1)
  /\ round' = [round EXCEPT ![1] = @ + 1]
  /\ Goto(1, "loop")
  /\ UNCHANGED <<driver, queue, q1, latch, stop, boss, calls, hand, total, rem>>

-----------------------------------------------------------------------------
(* gmbm: thread 0 creates the queue before the loop, whose start is a       *)
(* barrier,                                                                 *)
Setup(t) ==
  /\ boss = "google" /\ at[t] = "start"
  /\ queue' = IF t = 0 THEN "live" ELSE queue
  /\ Goto(t, "ready")
  /\ UNCHANGED <<driver, q1, q2, latch, stop, boss, round, calls, hand, stats, total, rem>>

Enter(t) ==
  /\ at[t] = "ready" /\ \A u \in Team : at[u] # "start"
  /\ Goto(t, "loop")
  /\ UNCHANGED <<driver, queue, q1, q2, latch, stop, boss, round, calls, hand, stats, total, rem>>

(* BALANCE: after a miss, the opposite operation                            *)
Iterate(t) ==
  /\ driver \in GoogleDrivers
  /\ LET balance == IF driver = "balanced" THEN "opposite" ELSE "loop" IN
       \/ /\ at[t] = "loop" /\ round[t] < Messages
          /\ round' = [round EXCEPT ![t] = @ + 1]
          /\ \/ Odd(t) /\ Push(t, 1, "loop", balance)
             \/ ~Odd(t) /\ PopHit(t) /\ Tally(t, "c") /\ UNCHANGED at
             \/ ~Odd(t) /\ PopMiss(t, balance)
       \/ /\ at[t] = "opposite"
          /\ UNCHANGED round
          /\ \/ Odd(t) /\ PopHit(t) /\ Tally(t, "c") /\ Goto(t, "loop")
             \/ Odd(t) /\ PopMiss(t, "loop")
             \/ ~Odd(t) /\ Push(t, 1, "loop", "loop")
       \/ /\ at[t] = "loop" /\ round[t] = Messages
          /\ Goto(t, "stopped")
          /\ UNCHANGED <<q1, calls, stats, round>>
  /\ UNCHANGED <<driver, queue, q2, latch, stop, boss, hand, total, rem>>

(* and drains and destroys it after the loop, whose end is one, too.        *)
Leave(t) ==
  /\ at[t] = "stopped" /\ \A u \in Team : at[u] \in {"stopped", "ended"}
  /\ IF t = 0 THEN rem' = Len(q1) /\ q1' = <<>> /\ queue' = "freed"
     ELSE UNCHANGED <<queue, q1, rem>>
  /\ Goto(t, "ended")
  /\ UNCHANGED <<driver, q2, latch, stop, boss, round, calls, hand, stats, total>>

Report ==
  /\ boss = "google" /\ \A t \in Team : at[t] = "ended"
  /\ total' = [f \in DOMAIN total |-> MapThenSumSet(LAMBDA t : stats[t][f], Team)]
  /\ boss' = "over"
  /\ UNCHANGED <<driver, queue, q1, q2, latch, stop, at, round, calls, hand, stats, rem>>

-----------------------------------------------------------------------------
Boss == Build \/ BossArrives \/ Stop \/ Join \/ Destroy \/ Free \/ reduce \/ Report

Worker(t) ==
  \/ Arrive(t) \/ Go(t) \/ Throughput(t) \/ Handoff(t) \/ Refill(t)
  \/ t = 0 /\ Echo
  \/ t = 1 /\ (Send \/ Await)
  \/ Setup(t) \/ Enter(t) \/ Iterate(t) \/ Leave(t)

Next == Boss \/ \E t \in Team : Worker(t)

Spec == Init /\ [][Next]_vars

-----------------------------------------------------------------------------
TypeOK ==
  /\ queue \in {"none", "live", "destroyed", "freed"}
  /\ q1 \in Seq(Nat) /\ q2 \in Seq(Nat) /\ {Len(q1), Len(q2)} \subseteq 0 .. Slots
  /\ latch \in 0 .. Workers + 1 /\ stop \in BOOLEAN
  /\ boss \in {"google", "build", "arrive", "wait", "join", "destroy", "free", "reduce", "over"}
  /\ at \in [Team -> {"start", "latched", "loop", "refill", "echo", "await", "ready",
                      "opposite", "stopped", "ended"}]
  /\ round \in [Team -> 0 .. Messages + Batch] /\ calls \in [Team -> 0 .. MaxCalls]
  /\ hand \in [Team -> Nat] /\ rem \in Nat
  /\ stats \in [Team -> [DOMAIN ThreadStats -> Nat]] /\ total \in [DOMAIN ThreadStats -> Nat]

(* No thread calls the queue before it is built or after it is destroyed.   *)
QueueOutlivesCalls ==
  \A t \in Team : at[t] \in {"loop", "refill", "echo", "await", "opposite"} => queue = "live"

(* The result accounts for every element: what was pushed was popped, or    *)
(* was left in the queue; and every pop for a sample that was recorded,     *)
(* skipped or discarded.                                                    *)
ResultAddsUp ==
  boss = "over" =>
    /\ total.p = total.c + (IF driver = "ppmbm" THEN 0 ELSE rem)
    /\ driver \in {"lmbm", "ppmbm"} =>
         total.c = total.lat_count + total.skipped + total.lat_neg

(* One stamp is under way at a time, the one that the sender waits for.     *)
PingPong ==
  driver = "ppmbm" =>
    /\ Len(q1) + Len(q2) + (IF hand[0] # 0 THEN 1 ELSE 0)
         = IF at[1] = "await" THEN 1 ELSE 0
    /\ \A i \in DOMAIN q2 : q2[i] = hand[1]

QueueRunsAreSound == QueueOutlivesCalls /\ ResultAddsUp /\ PingPong

(* The run is over: the workers saw the stop flag and were joined.          *)
Over == boss = "over"
=============================================================================
