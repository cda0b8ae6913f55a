---------------------------- MODULE WorkStealing -----------------------------
(***************************************************************************)
(* run_test() of Chapter08/18_coroutines_work_stealing.C: two coroutines   *)
(* that each work through a range.  One that runs out suspends, and its    *)
(* thread ends; the other one may then give it half of what is left and    *)
(* resume it on a new thread, whose handle replaces the old one in         *)
(* SharedState, which joins the old thread.                                *)
(*                                                                         *)
(* A section under the mutex is one action, unless it starts a thread:     *)
(* then it is the actions from Share or WakeOther to Join.  An assignment  *)
(* to threads[i] is a read of the old pointer, a store and the join of the *)
(* old thread, since main makes one that no lock orders.                   *)
(***************************************************************************)
EXTENDS Integers

CONSTANTS
  N,           (* items of each worker (500000 in the source)              *)
  Chunk,       (* CHUNK_SIZE                                               *)
  Threshold,   (* THRESHOLD                                                *)
  MaxThreads,  (* bound of the model: threads that one test starts         *)
  None

WorkStealingAssumption ==
  /\ N \in Nat \ {0} /\ Chunk \in Nat \ {0} /\ Threshold \in Nat \ {0}
  /\ MaxThreads \in Nat /\ MaxThreads >= 2
  /\ None \notin Int

Workers == {0, 1}
OsThreads == 1 .. MaxThreads
RunTest == 2   (* run_test() assigns to threads[1], too                  *)

VARIABLES
  stealing,    (* enable_stealing                                          *)
  mutex,       (* who holds m between two actions                          *)
  waiting, remaining, threads, finished,   (* SharedState, by worker       *)
  pc, range,   (* the coroutine: where it is, and its [begin, end)         *)
  runsOn,      (* the thread that runs it                                  *)
  new, old,    (* in an assignment to threads: what it stores and replaces *)
  os,          (* the threads                                              *)
  main,        (* run_test()                                               *)
  worked       (* history: how often each item was worked on               *)

shared == <<stealing, mutex, waiting, remaining, threads, finished>>
vars   == <<shared, pc, range, runsOn, new, old, os, main, worked>>

Other(i) == 1 - i

Lesser(a, b) == IF a < b THEN a ELSE b

Items(r) == r.begin .. r.end - 1

Empty == [begin |-> 0, end |-> 0]

Init ==
  /\ stealing \in BOOLEAN
  /\ mutex = None
  /\ waiting = [i \in Workers |-> FALSE] /\ finished = [i \in Workers |-> FALSE]
  /\ remaining = [i \in Workers |-> Empty]
  /\ threads = [i \in Workers |-> None]
  /\ pc = [i \in Workers |-> "unborn"]
  /\ range = [i \in Workers |-> [begin |-> i * N, end |-> (i + 1) * N]]
  /\ runsOn = [i \in Workers |-> None]
  /\ new = [i \in Workers |-> None] /\ old = [i \in Workers \cup {RunTest} |-> None]
  /\ os = [k \in OsThreads |-> "unborn"]
  /\ main = "launch0"
  /\ worked = [x \in 0 .. 2 * N - 1 |-> 0]

-----------------------------------------------------------------------------
(* make_unique<jthread>: the thread runs at once.                           *)
Unborn(k) == os[k] = "unborn" /\ \A j \in 1 .. k - 1 : os[j] # "unborn"

Ended(k) == k \in {j \in OsThreads : os[j] = "ended"} \cup {None}

(* The thread of a coroutine that has suspended or returned goes on alone.  *)
ThreadLeaves(i) == os' = [os EXCEPT ![runsOn[i]] = "leaving"]

ThreadEnds(k) ==
  /\ os[k] = "leaving"
  /\ os' = [os EXCEPT ![k] = "ended"]
  /\ UNCHANGED <<shared, pc, range, runsOn, new, old, main, worked>>

-----------------------------------------------------------------------------
(* coro()                                                                   *)
Goto(i, l) == pc' = [pc EXCEPT ![i] = l]

Compute(i) ==
  /\ pc[i] = "compute" /\ range[i].begin < range[i].end
  /\ LET chunk == Lesser(range[i].begin + Chunk, range[i].end) IN
       /\ worked' = [x \in DOMAIN worked |->
                       worked[x] + (IF x \in range[i].begin .. chunk - 1 THEN 1 ELSE 0)]
       /\ range' = [range EXCEPT ![i].begin = chunk]
  /\ Goto(i, "look")
  /\ UNCHANGED <<shared, runsOn, new, old, os, main>>

(* The check without the lock                                               *)
Look(i) ==
  /\ pc[i] = "look"
  /\ Goto(i, IF stealing /\ waiting[Other(i)] THEN "share" ELSE "compute")
  /\ UNCHANGED <<shared, range, runsOn, new, old, os, main, worked>>

Left(i) == range[i].end - range[i].begin

(* Resumes the coroutine of the other worker on a new thread.               *)
Resume(i, after) ==
  /\ mutex' = i
  /\ waiting' = [waiting EXCEPT ![Other(i)] = FALSE]
  /\ \E k \in OsThreads :
       /\ Unborn(k)
       /\ os' = [os EXCEPT ![k] = "running"]
       /\ runsOn' = [runsOn EXCEPT ![Other(i)] = k]
       /\ new' = [new EXCEPT ![i] = k]
  /\ pc' = [pc EXCEPT ![Other(i)] = "resumed", ![i] = after]
  /\ UNCHANGED <<stealing, threads, finished, old, main, worked>>

Share_KeepsEnd(i) ==           \* mutant: the giver does not shrink its own range
  /\ pc[i] = "share" /\ mutex = None
  /\ waiting[Other(i)] /\ Left(i) > Threshold
  /\ remaining' = [remaining EXCEPT ![Other(i)] =
                     [begin |-> range[i].end - Left(i) \div 2, end |-> range[i].end]]
  /\ Resume(i, "assign_share")
  /\ UNCHANGED range

(* The second check, under the lock, and the gift of half of the rest       *)
Share(i) ==
  /\ pc[i] = "share" /\ mutex = None
  /\ waiting[Other(i)] /\ Left(i) > Threshold
  /\ LET end == range[i].end - Left(i) \div 2 IN
       /\ remaining' = [remaining EXCEPT ![Other(i)] = [begin |-> end, end |-> range[i].end]]
       /\ range' = [range EXCEPT ![i].end = end]
  /\ Resume(i, "assign_share")

ShareNot(i) ==
  /\ pc[i] = "share" /\ mutex = None
  /\ ~waiting[Other(i)] \/ Left(i) <= Threshold
  /\ Goto(i, "compute")
  /\ UNCHANGED <<shared, range, runsOn, new, old, os, main, worked>>

(* threads[1 - id] = ...                                                    *)
Assign(i) ==
  /\ pc[i] \in {"assign_share", "assign_wake"}
  /\ old' = [old EXCEPT ![i] = threads[Other(i)]]
  /\ Goto(i, IF pc[i] = "assign_share" THEN "store_share" ELSE "store_wake")
  /\ UNCHANGED <<shared, range, runsOn, new, os, main, worked>>

Store(i) ==
  /\ pc[i] \in {"store_share", "store_wake"}
  /\ threads' = [threads EXCEPT ![Other(i)] = new[i]]
  /\ Goto(i, IF pc[i] = "store_share" THEN "join_share" ELSE "join_wake")
  /\ UNCHANGED <<stealing, mutex, waiting, remaining, finished,
                 range, runsOn, new, old, os, main, worked>>

(* The old thread is joined under the lock, and the section ends.           *)
Join(i) ==
  /\ pc[i] \in {"join_share", "join_wake"} /\ Ended(old[i])
  /\ mutex' = None
  /\ new' = [new EXCEPT ![i] = None] /\ old' = [old EXCEPT ![i] = None]
  /\ \/ pc[i] = "join_share" /\ Goto(i, "compute") /\ UNCHANGED <<remaining, finished>>
     \/ /\ pc[i] = "join_wake" /\ Goto(i, "resumed")
        /\ remaining' = [remaining EXCEPT ![i] = Empty]
        /\ finished' = [finished EXCEPT ![i] = TRUE]
  /\ UNCHANGED <<stealing, waiting, threads, range, runsOn, os, main, worked>>

OutOfWork(i) ==
  /\ pc[i] = "compute" /\ range[i].begin >= range[i].end
  /\ Goto(i, IF stealing THEN "await" ELSE "finish")
  /\ UNCHANGED <<shared, range, runsOn, new, old, os, main, worked>>

(* await_suspend(): the other one is waiting too, and must be resumed to    *)
(* find that there is no work (that it has finished never happens here, see *)
(* LastTwoLeaveTogether),                                                   *)
WakeOther(i) ==
  /\ pc[i] = "await" /\ mutex = None /\ waiting[Other(i)]
  /\ remaining' = [remaining EXCEPT ![Other(i)] = Empty]
  /\ Resume(i, "assign_wake")
  /\ UNCHANGED range

Suspend_EvenIfBothIdle(i) ==   \* mutant: the other worker is not looked at
  /\ pc[i] = "await" /\ mutex = None
  /\ waiting' = [waiting EXCEPT ![i] = TRUE]
  /\ Goto(i, "suspended")
  /\ ThreadLeaves(i)
  /\ UNCHANGED <<stealing, mutex, remaining, threads, finished,
                 range, runsOn, new, old, main, worked>>

(* or is busy: the coroutine suspends.                                      *)
Suspend(i) ==
  /\ pc[i] = "await" /\ mutex = None /\ ~waiting[Other(i)]
  /\ waiting' = [waiting EXCEPT ![i] = TRUE]
  /\ Goto(i, "suspended")
  /\ ThreadLeaves(i)
  /\ UNCHANGED <<stealing, mutex, remaining, threads, finished,
                 range, runsOn, new, old, main, worked>>

(* The coroutine reads its new range without the lock.                      *)
Resumed(i) ==
  /\ pc[i] = "resumed"
  /\ range' = [range EXCEPT ![i] = remaining[i]]
  /\ Goto(i, IF remaining[i].begin >= remaining[i].end THEN "finish" ELSE "compute")
  /\ UNCHANGED <<shared, runsOn, new, old, os, main, worked>>

Finish(i) ==
  /\ pc[i] = "finish" /\ mutex = None
  /\ finished' = [finished EXCEPT ![i] = TRUE]
  /\ Goto(i, "returned")
  /\ ThreadLeaves(i)
  /\ UNCHANGED <<stealing, mutex, waiting, remaining, threads,
                 range, runsOn, new, old, main, worked>>

-----------------------------------------------------------------------------
(* run_test()                                                               *)
Start(i) ==
  /\ os' = [os EXCEPT ![i + 1] = "running"]
  /\ runsOn' = [runsOn EXCEPT ![i] = i + 1]
  /\ Goto(i, "compute")

(* Nobody else can assign to threads[0] before there is a second worker,    *)
Launch0 ==
  /\ main = "launch0" /\ Start(0)
  /\ threads' = [threads EXCEPT ![0] = 1]
  /\ main' = "launch1"
  /\ UNCHANGED <<stealing, mutex, waiting, remaining, finished, range, new, old, worked>>

(* but worker 0 can assign to threads[1] as soon as worker 1 has suspended. *)
Launch1 ==
  /\ main = "launch1" /\ Start(1)
  /\ main' = "assign1"
  /\ UNCHANGED <<shared, range, new, old, worked>>

Assign1 ==
  /\ main = "assign1"
  /\ old' = [old EXCEPT ![RunTest] = threads[1]]
  /\ main' = "store1"
  /\ UNCHANGED <<shared, pc, range, runsOn, new, os, worked>>

Store1 ==
  /\ main = "store1"
  /\ threads' = [threads EXCEPT ![1] = 2]
  /\ main' = "join1"
  /\ UNCHANGED <<stealing, mutex, waiting, remaining, finished,
                 pc, range, runsOn, new, old, os, worked>>

Join1 ==
  /\ main = "join1" /\ Ended(old[RunTest])
  /\ old' = [old EXCEPT ![RunTest] = None]
  /\ main' = "wait"
  /\ UNCHANGED <<shared, pc, range, runsOn, new, os, worked>>

WaitForAll ==
  /\ main = "wait" /\ mutex = None /\ \A i \in Workers : finished[i]
  /\ main' = "destroy1"
  /\ UNCHANGED <<shared, pc, range, runsOn, new, old, os, worked>>

(* The destructor of SharedState joins the threads that it owns.            *)
Destroy(i) ==
  /\ main = (IF i = 1 THEN "destroy1" ELSE "destroy0") /\ Ended(threads[i])
  /\ main' = (IF i = 1 THEN "destroy0" ELSE "over")
  /\ UNCHANGED <<shared, pc, range, runsOn, new, old, os, worked>>

-----------------------------------------------------------------------------
Worker(i) ==
  \/ Compute(i) \/ Look(i) \/ Share(i) \/ ShareNot(i)
  \/ Assign(i) \/ Store(i) \/ Join(i)
  \/ OutOfWork(i) \/ WakeOther(i) \/ Suspend(i)
  \/ Resumed(i) \/ Finish(i)

Main ==
  \/ Launch0 \/ Launch1 \/ Assign1 \/ Store1 \/ Join1 \/ WaitForAll
  \/ \E i \in Workers : Destroy(i)

Next ==
  \/ \E i \in Workers : Worker(i)
  \/ \E k \in OsThreads : ThreadEnds(k)
  \/ Main

Spec == Init /\ [][Next]_vars

(* Every thread that can run is scheduled.                                  *)
Fairness ==
  /\ \A i \in Workers : WF_vars(Worker(i))
  /\ \A k \in OsThreads : WF_vars(ThreadEnds(k))
  /\ WF_vars(Main)

FairSpec == Spec /\ Fairness

-----------------------------------------------------------------------------
Ranges == [begin : 0 .. 2 * N, end : 0 .. 2 * N]

PCs == {"unborn", "compute", "look", "share", "await", "suspended",
        "assign_share", "store_share", "join_share",
        "assign_wake", "store_wake", "join_wake", "resumed", "finish", "returned"}

TypeOK ==
  /\ stealing \in BOOLEAN /\ mutex \in Workers \cup {None}
  /\ waiting \in [Workers -> BOOLEAN] /\ finished \in [Workers -> BOOLEAN]
  /\ remaining \in [Workers -> Ranges] /\ range \in [Workers -> Ranges]
  /\ threads \in [Workers -> OsThreads \cup {None}]
  /\ runsOn \in [Workers -> OsThreads \cup {None}]
  /\ new \in [Workers -> OsThreads \cup {None}]
  /\ old \in [Workers \cup {RunTest} -> OsThreads \cup {None}]
  /\ pc \in [Workers -> PCs]
  /\ os \in [OsThreads -> {"unborn", "running", "leaving", "ended"}]
  /\ main \in {"launch0", "launch1", "assign1", "store1", "join1", "wait",
               "destroy1", "destroy0", "over"}
  /\ worked \in [0 .. 2 * N - 1 -> 0 .. 2]

(* The items that worker i has, or was given and has not looked at          *)
Holds(i) == Items(IF pc[i] = "resumed" THEN remaining[i] ELSE range[i])

Has(i, x) == IF x \in Holds(i) THEN 1 ELSE 0

(* Every item was worked on, or is in the hands of one worker, and only one *)
(* of these: a range changes hands while its receiver sleeps, and a         *)
(* receiver reads it (without the lock) before it can change again.         *)
EachItemOnce ==
  \A x \in DOMAIN worked : worked[x] + (Has(0, x) + Has(1, x)) = 1

(* A worker that is listed as waiting is suspended, so that whoever resumes *)
(* it resumes it once, and each coroutine runs on one thread.               *)
ResumedOnce ==
  /\ \A i \in Workers : waiting[i] => pc[i] = "suspended"
  /\ \A k \in OsThreads :
       os[k] = "running" =>
         \E i \in Workers : runsOn[i] = k /\ pc[i] \notin {"suspended", "returned"}

(* Nobody runs out of work after the other worker has finished: the first   *)
(* case of await_suspend() (lines 71-77) never arises, since the one that   *)
(* finishes first has resumed the other to finish, too.                     *)
LastTwoLeaveTogether == \A i \in Workers : pc[i] = "await" => ~finished[Other(i)]

(* What makes these three hold, whatever N, Chunk and Threshold: who is out  *)
(* of work has an empty range,                                              *)
IdleHaveNoItems ==
  \A i \in Workers :
    pc[i] \in {"await", "suspended", "assign_wake", "store_wake", "join_wake",
              "finish", "returned"} => range[i].begin >= range[i].end

(* run_test() starts each coroutine once,                                   *)
StartedByMain ==
  /\ main = "launch0" => pc[0] = "unborn"
  /\ main \in {"launch0", "launch1"} => pc[1] = "unborn"
  /\ \A i \in Workers : pc[i] = "unborn" => runsOn[i] = None

(* and when there is stealing, the two workers start to leave in one step.  *)
Leaving(i) ==
  \/ pc[i] \in {"assign_wake", "store_wake", "join_wake", "finish", "returned"}
  \/ pc[i] = "resumed" /\ remaining[i].begin >= remaining[i].end

LeaveTogether ==
  /\ stealing => (Leaving(0) <=> Leaving(1))
  /\ \A i \in Workers : (finished[i] => Leaving(i)) /\ (pc[i] = "await" => stealing)

StealingInv ==
  /\ TypeOK /\ IdleHaveNoItems /\ StartedByMain /\ LeaveTogether
  /\ EachItemOnce /\ ResumedOnce

(* The bound on threads never binds.                                        *)
EnoughThreads == os[MaxThreads] = "unborn"

(* Line 39: "We maintain ownership of the threads running the coroutines." *)
(* So none is alive when SharedState is gone.  The assignment of main (line *)
(* 228) is not ordered with that of worker 0 (line 176): if both read the   *)
(* same old pointer, one of the two threads is owned by nobody.             *)
ThreadsAreOwned == main = "over" => \A k \in OsThreads : os[k] \in {"unborn", "ended"}

(* The test has ended, whatever was stolen, and all the work is done.       *)
Over == main = "over" /\ \A x \in DOMAIN worked : worked[x] = 1
=============================================================================
