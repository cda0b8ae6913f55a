-------------------------------- MODULE Waits --------------------------------
(***************************************************************************)
(* The small programs of Chapter08 about waiting: a thread that is (06,    *)
(* 07) or is not joined, cancellation (08), atomic wait (11), a latch      *)
(* (12), a semaphore (13), and a coroutine that hops to two other threads  *)
(* (17).  Each is main(), its threads, and the locals that they share,     *)
(* which die with main's scope.  The primitives of the library are         *)
(* external; what a thread prints is left out, and so is the mutex that    *)
(* only orders the output.                                                 *)
(***************************************************************************)
EXTENDS Integers, FiniteSets

CONSTANTS
  WaitPrograms,  (* the programs to run                                    *)
  MaxPrints      (* bound of the model: rounds of the thread of 08         *)

(* How many threads a program starts                                        *)
Crew == [thread |-> 1, jthread |-> 1, cancel |-> 1, wait |-> 3, latch |-> 3,
         semaphore |-> 5, hop |-> 2]

VARIABLES
  prog,        (* the program                                              *)
  main, step,  (* main(), and each thread                                  *)
  word,        (* the atomic, the count of the latch, or the permits       *)
  stop,        (* the stop token                                           *)
  handle,      (* which jthread owns its thread (17 assigns them late)     *)
  dead,        (* jthreads that have been destroyed                        *)
  scope,       (* whether the locals exist                                 *)
  stale        (* history: the locals used when they were gone: a jthread, *)
               (* or 0 for the others                                      *)

vars == <<prog, main, step, word, stop, handle, dead, scope, stale>>

Threads == 1 .. Crew[prog]

FirstStep == [thread |-> "print", jthread |-> "print", cancel |-> "poll", wait |-> "wait",
              latch |-> "arrive", semaphore |-> "acquire", hop |-> "resume"]

Init ==
  /\ prog \in WaitPrograms
  /\ main = IF prog = "hop" THEN "coro" ELSE "start"
  /\ step = [t \in Threads |-> "unborn"]
  /\ word = (CASE prog = "latch" -> 3 [] prog = "semaphore" -> 2 [] OTHER -> 0)
  /\ stop = FALSE
  /\ handle = [t \in Threads |-> FALSE] /\ dead = {}
  /\ scope = TRUE /\ stale = {}

Goto(t, l) == step' = [step EXCEPT ![t] = l]

(* A thread uses the locals, or the jthread t.                              *)
Use == stale' = stale \cup IF scope THEN {} ELSE {0}
UseHandle(t) == stale' = stale \cup ({t} \cap dead)

Running == main # "terminated"

-----------------------------------------------------------------------------
(* The threads                                                              *)
PrintLine(t) ==
  /\ step[t] = "print" /\ Running
  /\ Goto(t, "ended")
  /\ UNCHANGED <<prog, main, word, stop, handle, dead, scope, stale>>

Poll(t) ==
  /\ step[t] = "poll"
  /\ \/ stop /\ Goto(t, "ended") /\ UNCHANGED word
     \/ ~stop /\ word < MaxPrints /\ word' = word + 1 /\ UNCHANGED step
  /\ UNCHANGED <<prog, main, stop, handle, dead, scope, stale>>

(* i.wait(0) compares and sleeps in one step.                               *)
Wait(t) ==
  /\ step[t] = "wait"
  /\ Goto(t, IF word = 0 THEN "asleep" ELSE "ended")
  /\ Use
  /\ UNCHANGED <<prog, main, word, stop, handle, dead, scope>>

Arrive(t) ==
  /\ step[t] = "arrive"
  /\ word' = word - 1
  /\ Goto(t, "latched")
  /\ Use
  /\ UNCHANGED <<prog, main, stop, handle, dead, scope>>

LatchOpens(t) ==
  /\ step[t] = "latched" /\ word = 0
  /\ Goto(t, "ended")
  /\ Use
  /\ UNCHANGED <<prog, main, word, stop, handle, dead, scope>>

AcquirePermit(t) ==
  /\ step[t] = "acquire" /\ word > 0
  /\ word' = word - 1
  /\ Goto(t, "inside")
  /\ Use
  /\ UNCHANGED <<prog, main, stop, handle, dead, scope>>

ReleasePermit(t) ==
  /\ step[t] = "inside"
  /\ word' = word + 1
  /\ Goto(t, "ended")
  /\ Use
  /\ UNCHANGED <<prog, main, stop, handle, dead, scope>>

(* The coroutine goes on on thread 1, where ~awaitable() reads t1; then     *)
(* await_suspend() makes thread 2, which resumes the coroutine, while this  *)
(* one has t2 still to assign.                                              *)
HopAgain ==
  /\ prog = "hop" /\ step[1] = "resume"
  /\ step' = [step EXCEPT ![1] = "assign", ![2] = "resume"]
  /\ UseHandle(1)
  /\ UNCHANGED <<prog, main, word, stop, handle, dead, scope>>

(* out = std::jthread(..), and TID(out)                                     *)
HopAssigns ==
  /\ prog = "hop" /\ step[1] = "assign"
  /\ handle' = [handle EXCEPT ![2] = TRUE]
  /\ Goto(1, "ended")
  /\ UseHandle(2)
  /\ UNCHANGED <<prog, main, word, stop, dead, scope>>

(* ~awaitable() reads t2.                                                   *)
CoroutineEnds ==
  /\ prog = "hop" /\ step[2] = "resume"
  /\ Goto(2, "ended")
  /\ UseHandle(2)
  /\ UNCHANGED <<prog, main, word, stop, handle, dead, scope>>

Thread(t) ==
  \/ PrintLine(t) \/ Poll(t) \/ Wait(t) \/ Arrive(t) \/ LatchOpens(t)
  \/ AcquirePermit(t) \/ ReleasePermit(t)

Hops == HopAgain \/ HopAssigns \/ CoroutineEnds

-----------------------------------------------------------------------------
(* main()                                                                   *)
Start(t) ==
  /\ main = "start" /\ step[t] = "unborn" /\ \A u \in 1 .. t - 1 : step[u] # "unborn"
  /\ Goto(t, FirstStep[prog])
  /\ handle' = [handle EXCEPT ![t] = TRUE]
  /\ main' = IF t < Crew[prog] THEN "start"
             ELSE IF prog = "wait" THEN "change" ELSE "leave"
  /\ UNCHANGED <<prog, word, stop, dead, scope, stale>>

Change ==
  /\ main = "change"
  /\ word' = 1 /\ main' = "notify"
  /\ UNCHANGED <<prog, step, stop, handle, dead, scope, stale>>

Notify ==
  /\ main = "notify"
  /\ step' = [t \in Threads |-> IF step[t] = "asleep" THEN "wait" ELSE step[t]]
  /\ main' = "leave"
  /\ UNCHANGED <<prog, word, stop, handle, dead, scope, stale>>

CallCoro ==
  /\ main = "coro"
  /\ Goto(1, "resume") /\ main' = "coro assigns"
  /\ UNCHANGED <<prog, word, stop, handle, dead, scope, stale>>

CoroAssigns ==
  /\ main = "coro assigns"
  /\ handle' = [handle EXCEPT ![1] = TRUE] /\ main' = "leave"
  /\ UNCHANGED <<prog, step, word, stop, dead, scope, stale>>

(* A std::thread that is not joined ends the program in its destructor.     *)
Terminate ==
  /\ main = "leave" /\ prog = "thread"
  /\ main' = "terminated"
  /\ UNCHANGED <<prog, step, word, stop, handle, dead, scope, stale>>

(* A jthread asks its thread to stop and joins it, the last one first.      *)
RequestStop ==
  /\ main = "leave" /\ prog # "thread" /\ ~stop
  /\ stop' = TRUE
  /\ UNCHANGED <<prog, main, step, word, handle, dead, scope, stale>>

DestroyThread(t) ==
  /\ main = "leave" /\ stop /\ t \notin dead /\ t + 1 \in dead \cup {Crew[prog] + 1}
  /\ handle[t] => step[t] = "ended"
  /\ dead' = dead \cup {t}
  /\ UNCHANGED <<prog, main, step, word, stop, handle, scope, stale>>

(* The other locals were declared before the threads, and die after them.   *)
LeaveScope ==
  /\ main = "leave" /\ dead = Threads
  /\ scope' = FALSE /\ main' = "over"
  /\ UNCHANGED <<prog, step, word, stop, handle, dead, stale>>

Main ==
  \/ \E t \in Threads : Start(t) \/ DestroyThread(t)
  \/ Change \/ Notify \/ CallCoro \/ CoroAssigns
  \/ Terminate \/ RequestStop \/ LeaveScope

Next == Main \/ Hops \/ \E t \in Threads : Thread(t)

Spec == Init /\ [][Next]_vars

-----------------------------------------------------------------------------
TypeOK ==
  /\ prog \in WaitPrograms
  /\ main \in {"start", "change", "notify", "coro", "coro assigns", "leave", "over",
               "terminated"}
  /\ step \in [Threads -> {"unborn", "print", "poll", "wait", "asleep", "arrive", "latched",
                           "acquire", "inside", "resume", "assign", "ended"}]
  /\ word \in 0 .. MaxPrints \cup 0 .. 3 /\ stop \in BOOLEAN
  /\ handle \in [Threads -> BOOLEAN] /\ dead \subseteq Threads
  /\ scope \in BOOLEAN /\ stale \subseteq 0 .. Crew[prog]

(* Nobody uses a local of main that is gone, with one exception, which is   *)
(* what the code does: in 17, thread 1 may assign t2, and both threads may  *)
(* read it, when main has destroyed it (awaitable::await_suspend(), line    *)
(* 31).  t1 is never used so, for main assigns it before it leaves and      *)
(* joins.  Unless that happened, all threads have ended when main has left  *)
(* the scope.  The permits bound who is inside, and the latch opens for all *)
(* when all have come.                                                      *)
LocalsOutliveThreads ==
  /\ stale \subseteq IF prog = "hop" THEN {2} ELSE {}
  /\ main = "over" => step[1] = "ended" /\ (stale = {} => \A t \in Threads : step[t] = "ended")
  /\ prog = "semaphore" => word + Cardinality({t \in Threads : step[t] = "inside"}) = 2
  /\ prog = "latch" /\ (\E t \in Threads : step[t] = "ended") =>
       \A t \in Threads : step[t] \in {"latched", "ended"}

(* The program has ended.  Every program gets there: no wait is for ever,   *)
(* wherever the store and the notification come between the steps of the    *)
(* waiters.                                                                 *)
Over == main \in {"over", "terminated"}
=============================================================================
