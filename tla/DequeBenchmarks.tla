--------------------------- MODULE DequeBenchmarks ---------------------------
(***************************************************************************)
(* The four scenarios of Chapter07/05_concurrent_deque/                    *)
(* concurrent_deque_bm.C: a pool of threads that is started once, meets    *)
(* the benchmark thread at two barriers in every iteration, and leaves     *)
(* when it finds a stop request behind one more crossing of the first.     *)
(*                                                                         *)
(* The deque is abstract (AppendDeque is the model of                      *)
(* ConcurrentAppendDeque; each call of SpinlockDeque holds its lock): what *)
(* matters here is which deque exists, its size, and who touches it when.  *)
(* std::barrier and the stop token are external.                           *)
(***************************************************************************)
EXTENDS Integers, FiniteSets

CONSTANTS
  Crew,        (* number of threads                                        *)
  Rounds,      (* iterations of the benchmark loop                         *)
  Pushes,      (* writer_pushes                                            *)
  MaxPolls     (* bound of the model: size() calls of a reader per round   *)

Threads == 1 .. Crew
Main == 0

VARIABLES
  scenario,
  round,       (* iterations begun                                         *)
  deque,       (* the deque: the round that made it, 0 if there is none    *)
  size,
  wrote,       (* the round in which each thread's range was last written  *)
  arrived,     (* who waits at sync_start and at sync_end                  *)
  passed,      (* how often each barrier was crossed                       *)
  at, seen,    (* each thread, main too; the crossings it has seen         *)
  stop,        (* whether a stop was requested                             *)
  writer_done,
  mine,        (* the deque that a reader has in hand                      *)
  polls        (* size() calls: in this round, and in all                  *)

vars == <<scenario, round, deque, size, wrote, arrived, passed, at, seen,
          stop, writer_done, mine, polls>>

All == Threads \cup {Main}
Rebuilt == scenario \in {"resize", "poll"}   (* a new deque for each round *)

(* Each thread has one element: its range ends at its number.               *)
Init ==
  /\ scenario \in {"access", "sized", "resize", "poll"}
  /\ round = 0
  /\ deque = IF Rebuilt THEN 0 ELSE 1
  /\ size = IF Rebuilt THEN 0 ELSE Crew
  /\ wrote = [t \in Threads |-> 0]
  /\ arrived = [b \in {"start", "end"} |-> {}] /\ passed = [b \in {"start", "end"} |-> 0]
  /\ at = [t \in All |-> IF t = Main THEN "loop" ELSE "start"]
  /\ seen = [t \in All |-> 0]
  /\ stop = FALSE /\ writer_done = FALSE
  /\ mine = [t \in Threads |-> 0]
  /\ polls = [t \in Threads |-> [round |-> 0, total |-> 0]]

Goto(t, l) == at' = [at EXCEPT ![t] = l]

(* barrier.arrive_and_wait()                                                *)
Arrive(t, b) ==
  /\ seen' = [seen EXCEPT ![t] = passed[b]]
  /\ IF arrived[b] \cup {t} = All
     THEN /\ arrived' = [arrived EXCEPT ![b] = {}]
          /\ passed' = [passed EXCEPT ![b] = @ + 1]
     ELSE arrived' = [arrived EXCEPT ![b] = @ \cup {t}] /\ UNCHANGED passed

Passes(t, b) == passed[b] # seen[t]

-----------------------------------------------------------------------------
(* A thread of the pool                                                     *)
ArriveAtStart(t) ==
  /\ at[t] = "start"
  /\ Arrive(t, "start") /\ Goto(t, "at start")
  /\ UNCHANGED <<scenario, round, deque, size, wrote, stop, writer_done, mine, polls>>

PassStart(t) ==
  /\ at[t] = "at start" /\ Passes(t, "start")
  /\ IF stop THEN Goto(t, "ended") /\ UNCHANGED <<mine, polls>>
     ELSE /\ Goto(t, scenario)
          /\ mine' = [mine EXCEPT ![t] = deque]
          /\ polls' = [polls EXCEPT ![t].round = 0]
  /\ UNCHANGED <<scenario, round, deque, size, wrote, arrived, passed, seen, stop, writer_done>>

(* Disjoint writes                                                          *)
Write(t) ==
  /\ at[t] = "access"
  /\ wrote' = [wrote EXCEPT ![t] = round]
  /\ Goto(t, "end")
  /\ UNCHANGED <<scenario, round, deque, size, arrived, passed, seen, stop, writer_done, mine, polls>>

CheckSize(t) ==
  /\ at[t] = "sized"
  /\ Goto(t, IF size >= t THEN "access" ELSE "end")
  /\ UNCHANGED <<scenario, round, deque, size, wrote, arrived, passed, seen, stop, writer_done,
                 mine, polls>>

(* resize() never shrinks the deque.                                        *)
Resize(t) ==
  /\ at[t] = "resize"
  /\ size' = IF size < t THEN t ELSE size
  /\ Goto(t, "access")
  /\ UNCHANGED <<scenario, round, deque, wrote, arrived, passed, seen, stop, writer_done, mine, polls>>

Poll(t) ==
  /\ at[t] = "poll"
  /\ \/ writer_done /\ Goto(t, "end") /\ UNCHANGED polls
     \/ /\ ~writer_done /\ polls[t].round < MaxPolls
        /\ polls' = [polls EXCEPT ![t] = [round |-> @.round + 1, total |-> @.total + 1]]
        /\ UNCHANGED at
  /\ UNCHANGED <<scenario, round, deque, size, wrote, arrived, passed, seen, stop, writer_done, mine>>

ArriveAtEnd(t) ==
  /\ at[t] = "end"
  /\ Arrive(t, "end") /\ Goto(t, "at end")
  /\ UNCHANGED <<scenario, round, deque, size, wrote, stop, writer_done, mine, polls>>

PassEnd(t) ==
  /\ at[t] = "at end" /\ Passes(t, "end")
  /\ Goto(t, "start")
  /\ UNCHANGED <<scenario, round, deque, size, wrote, arrived, passed, seen, stop, writer_done,
                 mine, polls>>

Thread(t) ==
  \/ ArriveAtStart(t) \/ PassStart(t) \/ Write(t) \/ CheckSize(t) \/ Resize(t) \/ Poll(t)
  \/ ArriveAtEnd(t) \/ PassEnd(t)

-----------------------------------------------------------------------------
(* The benchmark thread: the state is reset before the start line,          *)
BeginRound ==
  /\ at[Main] = "loop" /\ round < Rounds
  /\ round' = round + 1
  /\ IF Rebuilt THEN deque' = round' /\ size' = 0 /\ writer_done' = FALSE
     ELSE UNCHANGED <<deque, size, writer_done>>
  /\ Goto(Main, "start")
  /\ UNCHANGED <<scenario, wrote, arrived, passed, seen, stop, mine, polls>>

Release ==
  /\ at[Main] \in {"start", "unblock"}
  /\ Arrive(Main, "start")
  /\ Goto(Main, IF stop THEN "last" ELSE "at start")
  /\ UNCHANGED <<scenario, round, deque, size, wrote, stop, writer_done, mine, polls>>

Released ==
  /\ at[Main] \in {"at start", "last"} /\ Passes(Main, "start")
  /\ Goto(Main, IF stop THEN "join" ELSE IF scenario = "poll" THEN "push" ELSE "end")
  /\ UNCHANGED <<scenario, round, deque, size, wrote, arrived, passed, seen, stop, writer_done,
                 mine, polls>>

(* it is the writer of the fourth scenario,                                 *)
Push ==
  /\ at[Main] = "push"
  /\ \/ size < Pushes /\ size' = size + 1 /\ UNCHANGED <<at, writer_done>>
     \/ size = Pushes /\ writer_done' = TRUE /\ Goto(Main, "end") /\ UNCHANGED size
  /\ UNCHANGED <<scenario, round, deque, wrote, arrived, passed, seen, stop, mine, polls>>

EndRound ==
  /\ at[Main] = "end"
  /\ Arrive(Main, "end") /\ Goto(Main, "at end")
  /\ UNCHANGED <<scenario, round, deque, size, wrote, stop, writer_done, mine, polls>>

RoundOver ==
  /\ at[Main] = "at end" /\ Passes(Main, "end")
  /\ Goto(Main, "loop")
  /\ UNCHANGED <<scenario, round, deque, size, wrote, arrived, passed, seen, stop, writer_done,
                 mine, polls>>

(* and it stops the pool with a last crossing of sync_start.                *)
RequestStop ==
  /\ at[Main] = "loop" /\ round = Rounds
  /\ stop' = TRUE /\ Goto(Main, "unblock")
  /\ UNCHANGED <<scenario, round, deque, size, wrote, arrived, passed, seen, writer_done, mine, polls>>

Join ==
  /\ at[Main] = "join" /\ \A t \in Threads : at[t] = "ended"
  /\ deque' = 0 /\ Goto(Main, "over")
  /\ UNCHANGED <<scenario, round, size, wrote, arrived, passed, seen, stop, writer_done, mine, polls>>

BenchmarkThread ==
  \/ BeginRound \/ Release \/ Released \/ Push \/ EndRound \/ RoundOver \/ RequestStop \/ Join

Next == BenchmarkThread \/ \E t \in Threads : Thread(t)

Spec == Init /\ [][Next]_vars

-----------------------------------------------------------------------------
TypeOK ==
  /\ scenario \in {"access", "sized", "resize", "poll"}
  /\ round \in 0 .. Rounds /\ deque \in 0 .. Rounds /\ size \in 0 .. Crew + Pushes
  /\ wrote \in [Threads -> 0 .. Rounds]
  /\ arrived \in [{"start", "end"} -> SUBSET All]
  /\ passed \in [{"start", "end"} -> 0 .. Rounds + 1] /\ seen \in [All -> 0 .. Rounds + 1]
  /\ at \in [All -> {"loop", "start", "at start", "access", "sized", "resize", "poll",
                     "push", "end", "at end", "unblock", "last", "join", "ended", "over"}]
  /\ stop \in BOOLEAN /\ writer_done \in BOOLEAN
  /\ mine \in [Threads -> 0 .. Rounds]
  /\ polls \in [Threads -> [round : 0 .. MaxPolls, total : 0 .. MaxPolls * Rounds]]

AtWork(t) == at[t] \in {"access", "sized", "resize", "poll"}

(* Whoever works on a deque works on the one of this round, within its      *)
(* size; a round is over only when all have written their ranges, or when   *)
(* all readers have seen the writer's pushes to the end.                    *)
RoundsStayApart ==
  /\ \A t \in Threads :
       /\ AtWork(t) => mine[t] = deque /\ deque # 0
       /\ at[t] = "access" => t <= size
       /\ scenario = "poll" /\ at[t] = "end" => size = Pushes
  /\ at[Main] = "loop" /\ scenario # "poll" => \A t \in Threads : wrote[t] = round

(* The benchmark is over once its main thread has joined the readers; that   *)
(* it gets there, through the barriers and the stop flags, is to be shown.  *)
Over == at[Main] = "over"
=============================================================================
