--------------------------- MODULE ProgramsProofs ---------------------------
(***************************************************************************)
(* Three programs on their own: SpinLock, whose mutual exclusion and       *)
(* refinement of Lockable are proved for any set of threads and any        *)
(* back-off parameters; the work stealing of MCPrograms, for any number of *)
(* items; and the end of a LockFreeList there (NodeChain), for a chain of  *)
(* any length and any finite set of iterators.                             *)
(***************************************************************************)
EXTENDS SpinLock, MCPrograms, FiniteSetTheorems, FunctionTheorems, SequenceTheorems, TLAPS

(* The part of the state that mutual exclusion depends on has the types     *)
(* TypeOK gives it.                                                         *)
CoreTypeOK ==
  /\ lock \in {0, 1}
  /\ pc \in [Threads -> PCs]

Inv == CoreTypeOK /\ MutualExclusion

LEMMA InitInv == Init => Inv
  BY DEF Init, Inv, CoreTypeOK, MutualExclusion, PCs, Waiting

(* A step that moves one thread between pcs outside the critical section    *)
(* and leaves the lock word alone.                                          *)
OutsideStep(t) ==
  /\ lock' = lock
  /\ pc[t] # "critical"
  /\ \E l \in PCs \ {"critical"} : pc' = [pc EXCEPT ![t] = l]

LEMMA OutsideKeepsInv ==
  ASSUME Inv, NEW t \in Threads, OutsideStep(t)
  PROVE  Inv'
  BY DEF Inv, CoreTypeOK, MutualExclusion, OutsideStep

LEMMA FailedAttemptStaysOutside ==
  ASSUME NEW t \in Threads, FailedAttempt(t)
  PROVE  \E l \in PCs \ {"critical"} : pc' = [pc EXCEPT ![t] = l]
  BY DEF FailedAttempt, ShortSleep, LongSleep, GiveUp, Goto, PCs, Waiting

LEMMA NextInv == Inv /\ [Next]_vars => Inv'
<1> SUFFICES ASSUME Inv, [Next]_vars PROVE Inv'
  OBVIOUS
<1>1. ASSUME NEW t \in Threads, Call(t) PROVE Inv'
  <2>1. OutsideStep(t)
    BY <1>1 DEF Call, OutsideStep, Goto, PCs, Waiting
  <2>2. QED BY <2>1, OutsideKeepsInv
<1>2. ASSUME NEW t \in Threads, TestFree(t) PROVE Inv'
  <2>1. OutsideStep(t)
    BY <1>2 DEF TestFree, OutsideStep, Goto, PCs, Waiting
  <2>2. QED BY <2>1, OutsideKeepsInv
<1>3. ASSUME NEW t \in Threads, TestHeld(t) \/ ExchangeLost(t) PROVE Inv'
  <2>1. OutsideStep(t)
    BY <1>3, FailedAttemptStaysOutside DEF TestHeld, ExchangeLost, OutsideStep
  <2>2. QED BY <2>1, OutsideKeepsInv
<1>4. ASSUME NEW t \in Threads, Wake(t) PROVE Inv'
  <2>1. OutsideStep(t)
    BY <1>4 DEF Wake, OutsideStep, Goto, PCs, Waiting
  <2>2. QED BY <2>1, OutsideKeepsInv
<1>5. ASSUME NEW t \in Threads, ExchangeWon(t) PROVE Inv'
  BY <1>5 DEF ExchangeWon, Inv, CoreTypeOK, MutualExclusion, Goto, PCs
<1>6. ASSUME NEW t \in Threads, Unlock(t) PROVE Inv'
  BY <1>6 DEF Unlock, Inv, CoreTypeOK, MutualExclusion, Goto, PCs
<1>7. CASE UNCHANGED vars
  BY <1>7 DEF Inv, CoreTypeOK, MutualExclusion, vars
<1>8. QED
  BY <1>1, <1>2, <1>3, <1>4, <1>5, <1>6, <1>7 DEF Next, Acquire

(* At most one thread is in its critical section, and the lock word says    *)
(* whether one is, for any number of threads and any back-off: the exchange *)
(* of lock() and try_lock() is the only way in.                             *)
THEOREM SpinLockMutualExclusion == Spec => []MutualExclusion
<1>1. Inv => MutualExclusion
  BY DEF Inv
<1>2. QED
  BY <1>1, InitInv, NextInv, PTL DEF Spec

-----------------------------------------------------------------------------
(* The count of short sleeps, against spin_count.  They agree until lock()  *)
(* has slept long once; from then on spin_count is one ahead, because the   *)
(* loop increments it right after it was set to 0.                          *)
Ahead(t) == IF slept[t] THEN 1 ELSE 0

Backoff(t) ==
  /\ pc[t] \in Waiting /\ op[t] = "try_lock" => ~slept[t]
  /\ pc[t] \in {"test", "exchange"} => yields[t] + Ahead(t) = spin_count[t]
  /\ pc[t] = "short_sleep" =>
       spin_count[t] < ShortRounds /\ yields[t] + Ahead(t) = spin_count[t] + 1
  /\ pc[t] = "long_sleep" =>
       op[t] = "lock" /\ spin_count[t] = 0 /\ yields[t] + Ahead(t) = ShortRounds
  /\ pc[t] = "gave_up" => yields[t] = ShortRounds

BackoffInv == TypeOK /\ \A t \in Threads : Backoff(t)

LEMMA InitBackoff == Init => BackoffInv
  BY SpinLockAssumption
  DEF Init, BackoffInv, TypeOK, Backoff, Ahead, PCs, Waiting, Ops

LEMMA FailedAttemptBackoff ==
  ASSUME BackoffInv, NEW t \in Threads, FailedAttempt(t),
         pc[t] \in {"test", "exchange"},
         lock' = lock, op' = op, slept' = slept, sawFree' = sawFree
  PROVE  BackoffInv'
<1> USE SpinLockAssumption DEF BackoffInv, TypeOK, Backoff, Ahead
<1>1. attempt' \in [Threads -> 0 .. Burst - 1]
  BY DEF FailedAttempt
<1>2. CASE Goto(t, "test") /\ UNCHANGED <<spin_count, yields>>
  BY <1>1, <1>2 DEF Goto, PCs, Waiting
<1>3. CASE ShortSleep(t)
  BY <1>1, <1>3 DEF ShortSleep, Goto, PCs, Waiting
<1>4. CASE LongSleep(t)
  BY <1>1, <1>4 DEF LongSleep, Goto, PCs, Waiting
<1>5. CASE GiveUp(t)
  BY <1>1, <1>5 DEF GiveUp, Goto, PCs, Waiting
<1>6. QED
  BY <1>2, <1>3, <1>4, <1>5 DEF FailedAttempt

LEMMA NextBackoff == BackoffInv /\ [Next]_vars => BackoffInv'
<1> SUFFICES ASSUME BackoffInv, [Next]_vars PROVE BackoffInv'
  OBVIOUS
<1> USE SpinLockAssumption DEF BackoffInv, TypeOK, Backoff, Ahead
<1>1. ASSUME NEW t \in Threads, Call(t) PROVE BackoffInv'
  BY <1>1 DEF Call, Goto, PCs, Waiting, Ops
<1>2. ASSUME NEW t \in Threads, TestFree(t) PROVE BackoffInv'
  BY <1>2 DEF TestFree, Goto, PCs, Waiting
<1>3. ASSUME NEW t \in Threads, TestHeld(t) PROVE BackoffInv'
  BY <1>3, FailedAttemptBackoff DEF TestHeld
<1>4. ASSUME NEW t \in Threads, ExchangeWon(t) PROVE BackoffInv'
  BY <1>4 DEF ExchangeWon, Goto, PCs
<1>5. ASSUME NEW t \in Threads, ExchangeLost(t) PROVE BackoffInv'
  BY <1>5, FailedAttemptBackoff DEF ExchangeLost
<1>6. ASSUME NEW t \in Threads, Wake(t) PROVE BackoffInv'
  <2>1. CASE pc[t] = "short_sleep"
    BY <1>6, <2>1 DEF Wake, Goto, PCs, Waiting
  <2>2. CASE pc[t] = "long_sleep"
    BY <1>6, <2>2 DEF Wake, Goto, PCs, Waiting
  <2>3. QED
    BY <1>6, <2>1, <2>2 DEF Wake
<1>7. ASSUME NEW t \in Threads, Unlock(t) PROVE BackoffInv'
  BY <1>7 DEF Unlock, Observe, Goto, PCs, Waiting
<1>8. CASE UNCHANGED vars
  BY <1>8 DEF vars
<1>9. QED
  BY <1>1, <1>2, <1>3, <1>4, <1>5, <1>6, <1>7, <1>8 DEF Next, Acquire

(* The types hold: in particular no counter leaves its range.               *)
THEOREM SpinLockTypeOK == Spec => []TypeOK
<1>1. BackoffInv => TypeOK
  BY DEF BackoffInv
<1>2. QED
  BY <1>1, InitBackoff, NextBackoff, PTL DEF Spec

(* Whatever the schedule, lock() sleeps long after exactly ShortRounds      *)
(* short sleeps the first time and ShortRounds - 1 in every later round;    *)
(* try_lock() gives up after exactly ShortRounds and never sleeps long.     *)
THEOREM SpinLockBackoff == Spec => []BackoffBudgets
<1>1. BackoffInv => BackoffBudgets
  BY SpinLockAssumption
  DEF BackoffInv, TypeOK, Backoff, Ahead, BackoffBudgets, TryLockSpendsItsBudget, ShortSleepsBeforeLong
<1>2. QED
  BY <1>1, InitBackoff, NextBackoff, PTL DEF Spec

(* What a step of thread t does to the stages: those of the others stay,    *)
(* and its own is read off its pc.                                          *)
LEMMA StageNext ==
  ASSUME BackoffInv, NEW t \in Threads, NEW l, NEW o \in Ops,
         Goto(t, l), op' = [op EXCEPT ![t] = o]
  PROVE  Stage' = [Stage EXCEPT ![t] = CASE l = "idle"     -> "outside"
                                         [] l = "critical" -> "inside"
                                         [] l = "gave_up"  -> "refused"
                                         [] OTHER          -> o]
<1>1. \A u \in Threads : /\ pc'[u] = IF u = t THEN l ELSE pc[u]
                         /\ op'[u] = IF u = t THEN o ELSE op[u]
  BY DEF BackoffInv, TypeOK, Goto
<1>2. QED
  BY <1>1 DEF Stage

(* A step that leaves op[t] alone writes it, so to speak.                   *)
LEMMA SameOp ==
  ASSUME BackoffInv, NEW t \in Threads, op' = op
  PROVE  op[t] \in Ops /\ op' = [op EXCEPT ![t] = op[t]]
  BY DEF BackoffInv, TypeOK

(* A step of a call that goes on changes no stage.                          *)
LEMMA WaitingStays ==
  ASSUME BackoffInv, NEW t \in Threads, NEW l \in Waiting,
         pc[t] \in Waiting, Goto(t, l), op' = op
  PROVE  Stage' = Stage
<1>1. Stage' = [Stage EXCEPT ![t] = op[t]]
  BY StageNext, SameOp DEF Waiting
<1>2. Stage[t] = op[t]
  BY DEF Stage, Waiting
<1>3. QED
  BY <1>1, <1>2 DEF Stage

(* The SpinLock keeps the class's promises, for any threads and back-off:   *)
(* lock() comes back with the lock or not at all, try_lock() with or        *)
(* without it, a thread gets it in a call only and when nobody has it, and  *)
(* who has it gives it back.                                                *)
THEOREM SpinLockImplementsLock == Spec => ImplementsLock
<1>1. Init => L!Outside
  BY DEF Init, L!Outside, Stage
<1>2. Inv /\ BackoffInv /\ [Next]_vars => [L!Step]_Stage
  <2> SUFFICES ASSUME Inv, BackoffInv, [Next]_vars PROVE [L!Step]_Stage
    OBVIOUS
  <2>1. ASSUME NEW t \in Threads, Call(t) PROVE L!Step
    <3>1. PICK o \in Ops : op' = [op EXCEPT ![t] = o]
      BY <2>1 DEF Call
    <3>2. Goto(t, "test")
      BY <2>1 DEF Call
    <3>3. Stage' = [Stage EXCEPT ![t] = o]
      BY <3>1, <3>2, StageNext
    <3>4. Stage[t] \in {"outside", "refused"}
      BY <2>1 DEF Call, Stage
    <3>5. QED
      BY <3>3, <3>4 DEF L!Step, L!Asks, L!Moves, L!Calls, Ops
  <2>2. ASSUME NEW t \in Threads, TestFree(t) \/ Wake(t) PROVE Stage' = Stage
    <3>1. \E l \in Waiting : pc[t] \in Waiting /\ Goto(t, l) /\ op' = op
      BY <2>2 DEF TestFree, Wake, Waiting
    <3>2. QED
      BY <3>1, WaitingStays
  <2>3. ASSUME NEW t \in Threads, TestHeld(t) \/ ExchangeLost(t) PROVE L!Step \/ Stage' = Stage
    <3>1. pc[t] \in Waiting /\ FailedAttempt(t) /\ op' = op
      BY <2>3 DEF TestHeld, ExchangeLost, Waiting
    <3>2. CASE \E l \in Waiting : Goto(t, l)
      BY <3>1, <3>2, WaitingStays
    <3>3. CASE GiveUp(t)
      <4>1. op[t] = "try_lock" /\ Goto(t, "gave_up")
        BY <3>3 DEF GiveUp
      <4>2. Stage' = [Stage EXCEPT ![t] = "refused"]
        BY <3>1, <4>1, StageNext, SameOp
      <4>3. Stage[t] = "try_lock"
        BY <3>1, <4>1 DEF Stage, Waiting
      <4>4. QED
        BY <4>2, <4>3 DEF L!Step, L!IsRefused, L!Moves
    <3>4. QED
      BY <3>1, <3>2, <3>3 DEF FailedAttempt, ShortSleep, LongSleep, Waiting
  <2>4. ASSUME NEW t \in Threads, ExchangeWon(t) PROVE L!Step
    <3>1. Stage' = [Stage EXCEPT ![t] = "inside"]
      BY <2>4, StageNext, SameOp DEF ExchangeWon
    <3>2. Stage[t] \in L!Calls
      BY <2>4 DEF ExchangeWon, Stage, L!Calls, BackoffInv, TypeOK, Ops
    <3>3. \A u \in Threads : Stage[u] # "inside"
      BY <2>4 DEF ExchangeWon, Stage, Inv, MutualExclusion, BackoffInv, TypeOK, Ops
    <3>4. QED
      BY <3>1, <3>2, <3>3 DEF L!Step, L!Enters, L!Moves
  <2>5. ASSUME NEW t \in Threads, Unlock(t) PROVE L!Step
    <3>1. Stage' = [Stage EXCEPT ![t] = "outside"]
      BY <2>5, StageNext, SameOp DEF Unlock
    <3>2. Stage[t] = "inside"
      BY <2>5 DEF Unlock, Stage
    <3>3. QED
      BY <3>1, <3>2 DEF L!Step, L!Leaves, L!Moves
  <2>6. CASE UNCHANGED vars
    BY <2>6 DEF vars, Stage
  <2>7. QED
    BY <2>1, <2>2, <2>3, <2>4, <2>5, <2>6 DEF Next, Acquire
<1>3. QED
  BY <1>1, <1>2, InitInv, NextInv, InitBackoff, NextBackoff, PTL
  DEF Spec, ImplementsLock, L!LockableSpec

-----------------------------------------------------------------------------
(***************************************************************************)
(* Work stealing, the program "steal" of MCPrograms: there v1 is stealing, *)
(* v2 mutex, v3 waiting, v4 remaining, v5 threads, v6 finished, v7 pc, v8  *)
(* range, v9 runsOn, v10 new, v11 old, v12 os, v13 main and v14 worked.    *)
(***************************************************************************)
LEMMA StealConstants == S!WorkStealingAssumption
  BY ProgramAssumptions

(* Half of what is more than one item is some of it, and not all.           *)
LEMMA HalfIsSome ==
  ASSUME NEW m \in Nat, m >= 2
  PROVE  m \div 2 \in 1 .. m - 1
  OBVIOUS

(* The two workers are i and the other one.                                 *)
LEMMA TwoWorkers ==
  ASSUME NEW i \in S!Workers
  PROVE  S!Other(i) \in S!Workers /\ \A j \in S!Workers : j = i \/ j = S!Other(i)
  BY DEF S!Workers, S!Other

(* At the start worker i holds the items i * N .. (i + 1) * N - 1.          *)
LEMMA StealInit == S!Init => S!StealingInv
<1> SUFFICES ASSUME S!Init PROVE S!StealingInv
  OBVIOUS
<1> USE StealConstants DEF S!Init, S!WorkStealingAssumption, S!Workers, S!OsThreads, S!RunTest,
                           S!Empty, S!Ranges, S!PCs
<1>1. \A i \in S!Workers : v8[i].begin = i * N /\ v8[i].end = (i + 1) * N
  OBVIOUS
<1>2. v8 \in [S!Workers -> S!Ranges]
  OBVIOUS
<1>3. S!TypeOK
  BY <1>2 DEF S!TypeOK
<1>4. S!IdleHaveNoItems /\ S!StartedByMain /\ S!ResumedOnce
  BY DEF S!IdleHaveNoItems, S!StartedByMain, S!ResumedOnce
<1>5. S!LeaveTogether
  BY DEF S!LeaveTogether, S!Leaving
<1>6. S!EachItemOnce
  <2>1. SUFFICES ASSUME NEW x \in 0 .. 2 * N - 1
                 PROVE  v14[x] + (S!Has(0, x) + S!Has(1, x)) = 1
    BY DEF S!EachItemOnce
  <2>2. S!Holds(0) = 0 .. N - 1 /\ S!Holds(1) = N .. 2 * N - 1
    BY <1>1 DEF S!Holds, S!Items
  <2>3. QED
    BY <2>2 DEF S!Has
<1>7. QED
  BY <1>3, <1>4, <1>5, <1>6 DEF S!StealingInv

(* What a step of Share or WakeOther does to the other worker: it slept,    *)
(* and goes on, on a new thread.                                            *)
Wakes(i, k) ==
  /\ v7[S!Other(i)] = "suspended" /\ S!Other(i) \in S!Workers /\ S!Other(i) # i
  /\ v12' = [v12 EXCEPT ![k] = "running"]
  /\ v9' = [v9 EXCEPT ![S!Other(i)] = k]
  /\ v10' = [v10 EXCEPT ![i] = k]
  /\ v3' = [v3 EXCEPT ![S!Other(i)] = FALSE]
  /\ v7'[S!Other(i)] = "resumed"
  /\ S!Share(i) => v7[i] = "share" /\ v7'[i] = "assign_share"
  /\ S!WakeOther(i) => v7[i] = "await" /\ v7'[i] = "assign_wake"
  /\ v13' = v13 /\ v1' = v1 /\ v6' = v6 /\ v14' = v14

(* Who is listed as waiting is suspended, and so may be resumed.            *)
LEMMA ResumeWakesSleeper ==
  ASSUME S!StealingInv, NEW i \in S!Workers, S!Share(i) \/ S!WakeOther(i)
  PROVE  \E k \in S!OsThreads : Wakes(i, k)
<1>1. /\ v7[S!Other(i)] = "suspended" /\ S!Other(i) \in S!Workers /\ S!Other(i) # i
  BY DEF S!Share, S!WakeOther, S!StealingInv, S!ResumedOnce, S!Workers, S!Other
<1>2. v7 \in [S!Workers -> S!PCs]
  BY DEF S!StealingInv, S!TypeOK
<1>3. /\ v7'[S!Other(i)] = "resumed"
      /\ S!Share(i) => v7[i] = "share" /\ v7'[i] = "assign_share"
      /\ S!WakeOther(i) => v7[i] = "await" /\ v7'[i] = "assign_wake"
  BY <1>1, <1>2 DEF S!Resume, S!Share, S!WakeOther
<1>4. PICK k \in S!OsThreads :
        /\ v12' = [v12 EXCEPT ![k] = "running"]
        /\ v9' = [v9 EXCEPT ![S!Other(i)] = k] /\ v10' = [v10 EXCEPT ![i] = k]
  BY DEF S!Resume, S!Share, S!WakeOther
<1>5. /\ v3' = [v3 EXCEPT ![S!Other(i)] = FALSE]
      /\ v13' = v13 /\ v1' = v1 /\ v6' = v6 /\ v14' = v14
  BY DEF S!Resume, S!Share, S!WakeOther
<1>6. QED
  BY <1>1, <1>3, <1>4, <1>5 DEF Wakes

(* What a step of Share does to the ranges: the giver keeps some, and the   *)
(* other one gets the rest, which is not empty.                             *)
Halves(i, end) ==
  /\ v8[i].begin \in 0 .. 2 * N /\ v8[i].end \in 0 .. 2 * N
  /\ v8[i].begin < end /\ end < v8[i].end
  /\ v4' = [v4 EXCEPT ![S!Other(i)] = [begin |-> end, end |-> v8[i].end]]
  /\ v8' = [v8 EXCEPT ![i].end = end]
  /\ v4'[S!Other(i)] = [begin |-> end, end |-> v8[i].end]
  /\ v8'[i].begin = v8[i].begin /\ v8'[i].end = end

(* Above the threshold, half of a range is not all of it.                   *)
LEMMA ShareHalves ==
  ASSUME S!StealingInv, NEW i \in S!Workers, S!Share(i)
  PROVE  \E end \in 0 .. 2 * N : Halves(i, end)
<1> DEFINE end == v8[i].end - S!Left(i) \div 2
<1>1. /\ v4 \in [S!Workers -> S!Ranges] /\ v8 \in [S!Workers -> S!Ranges]
      /\ S!Other(i) \in S!Workers
  BY DEF S!StealingInv, S!TypeOK, S!Other, S!Workers
<1>2. /\ v4' = [v4 EXCEPT ![S!Other(i)] = [begin |-> end, end |-> v8[i].end]]
      /\ v8' = [v8 EXCEPT ![i].end = end]
      /\ S!Left(i) > Threshold
  BY DEF S!Share
<1>3. /\ v8[i].begin \in 0 .. 2 * N /\ v8[i].end \in 0 .. 2 * N
      /\ S!Left(i) = v8[i].end - v8[i].begin
  BY <1>1 DEF S!Ranges, S!Left
<1>4. S!Left(i) \in Nat /\ S!Left(i) >= 2
  BY <1>2, <1>3, StealConstants DEF S!WorkStealingAssumption
<1>5. S!Left(i) \div 2 \in 1 .. S!Left(i) - 1
  BY <1>4, HalfIsSome
<1>6. end \in 0 .. 2 * N /\ v8[i].begin < end /\ end < v8[i].end
  BY <1>3, <1>4, <1>5, StealConstants DEF S!WorkStealingAssumption
<1> HIDE DEF end
<1>7. /\ v4'[S!Other(i)] = [begin |-> end, end |-> v8[i].end]
      /\ v8'[i].begin = v8[i].begin /\ v8'[i].end = end
  BY <1>1, <1>2 DEF S!Ranges
<1>8. QED
  BY <1>2, <1>3, <1>6, <1>7 DEF Halves

(* The end of a section that resumed the other worker, after a gift and     *)
(* after a wakeup                                                           *)
LEMMA JoinEnds ==
  ASSUME S!StealingInv, NEW i \in S!Workers, S!Join(i)
  PROVE  /\ \/ /\ v7[i] = "join_share" /\ v7' = [v7 EXCEPT ![i] = "compute"]
               /\ v4' = v4 /\ v6' = v6
            \/ /\ v7[i] = "join_wake" /\ v7' = [v7 EXCEPT ![i] = "resumed"]
               /\ v4' = [v4 EXCEPT ![i] = S!Empty] /\ v6' = [v6 EXCEPT ![i] = TRUE]
         /\ v10' = [v10 EXCEPT ![i] = None] /\ v11' = [v11 EXCEPT ![i] = None]
         /\ v2' = None /\ v1' = v1 /\ v3' = v3 /\ v5' = v5 /\ v8' = v8 /\ v9' = v9
         /\ v12' = v12 /\ v13' = v13 /\ v14' = v14
  BY DEF S!Join, S!Goto

(* Nothing was worked on, and both have the items they had: EachItemOnce    *)
(* still holds.                                                             *)
LEMMA SameItems ==
  ASSUME S!EachItemOnce, v14' = v14, \A j \in S!Workers : S!Holds(j)' = S!Holds(j)
  PROVE  S!EachItemOnce'
<1>1. \A x : S!Has(0, x)' = S!Has(0, x) /\ S!Has(1, x)' = S!Has(1, x)
  BY DEF S!Has, S!Workers
<1>2. QED
  BY <1>1 DEF S!EachItemOnce

(* The two workers are i and the other one.                                 *)
LEMMA BothWorkers ==
  ASSUME NEW i \in S!Workers, NEW x
  PROVE  /\ S!Has(0, x) \in {0, 1} /\ S!Has(1, x) \in {0, 1}
         /\ S!Has(0, x)' \in {0, 1} /\ S!Has(1, x)' \in {0, 1}
         /\ S!Has(i, x) \in {0, 1} /\ S!Has(i, x)' \in {0, 1} /\ S!Has(S!Other(i), x) \in {0, 1}
         /\ S!Has(i, x) + S!Has(S!Other(i), x) = S!Has(0, x) + S!Has(1, x)
         /\ S!Has(i, x)' + S!Has(S!Other(i), x)' = S!Has(0, x)' + S!Has(1, x)'
<1>1. /\ S!Has(0, x) \in {0, 1} /\ S!Has(1, x) \in {0, 1}
      /\ S!Has(0, x)' \in {0, 1} /\ S!Has(1, x)' \in {0, 1}
  BY DEF S!Has
<1>2. (i = 0 /\ S!Other(i) = 1) \/ (i = 1 /\ S!Other(i) = 0)
  BY DEF S!Workers, S!Other
<1>3. QED
  BY <1>1, <1>2

(* A worker that sleeps, or wakes the other one, has no item left.          *)
LEMMA IdleHoldNothing ==
  ASSUME S!StealingInv, NEW j \in S!Workers, v7[j] \in {"suspended", "join_wake"}
  PROVE  S!Holds(j) = {}
<1>1. v8[j].begin >= v8[j].end /\ v8[j].begin \in Int /\ v8[j].end \in Int
  BY StealConstants DEF S!StealingInv, S!IdleHaveNoItems, S!TypeOK, S!Ranges, S!WorkStealingAssumption
<1>2. QED
  BY <1>1 DEF S!Holds, S!Items

(* Compute moves items from the range to those worked on,                   *)
LEMMA ComputeItems ==
  ASSUME S!StealingInv, NEW i \in S!Workers, S!Compute(i)
  PROVE  /\ S!EachItemOnce'
         /\ v8' \in [S!Workers -> S!Ranges] /\ v14' \in [0 .. 2 * N - 1 -> 0 .. 2]
<1> DEFINE chunk == S!Lesser(v8[i].begin + Chunk, v8[i].end)
<1>1. /\ v8 \in [S!Workers -> S!Ranges] /\ v14 \in [0 .. 2 * N - 1 -> 0 .. 2]
      /\ v7 \in [S!Workers -> S!PCs] /\ S!Other(i) \in S!Workers /\ S!Other(i) # i
  BY DEF S!StealingInv, S!TypeOK, S!Other, S!Workers
<1>2. v8[i].begin \in 0 .. 2 * N /\ v8[i].end \in 0 .. 2 * N
  BY <1>1 DEF S!Ranges
<1>3. /\ v7[i] = "compute" /\ v8[i].begin < v8[i].end
      /\ v7' = [v7 EXCEPT ![i] = "look"] /\ v4' = v4
      /\ v8' = [v8 EXCEPT ![i].begin = chunk]
      /\ v14' = [x \in DOMAIN v14 |-> v14[x] + (IF x \in v8[i].begin .. chunk - 1 THEN 1 ELSE 0)]
  BY DEF S!Compute, S!Goto, S!shared
<1>4. chunk \in 0 .. 2 * N /\ chunk <= v8[i].end /\ v8[i].begin < chunk
  BY <1>2, <1>3, StealConstants DEF S!Lesser, S!WorkStealingAssumption
<1> HIDE DEF chunk
<1>5. /\ v7'[i] = "look" /\ v7'[S!Other(i)] = v7[S!Other(i)]
      /\ v8'[i].begin = chunk /\ v8'[i].end = v8[i].end /\ v8'[S!Other(i)] = v8[S!Other(i)]
  BY <1>1, <1>3 DEF S!Ranges
<1>6. S!Holds(i) = v8[i].begin .. v8[i].end - 1 /\ S!Holds(i)' = chunk .. v8[i].end - 1
  BY <1>3, <1>5 DEF S!Holds, S!Items
<1>7. S!Holds(S!Other(i))' = S!Holds(S!Other(i))
  BY <1>3, <1>5 DEF S!Holds
<1>8. ASSUME NEW x \in 0 .. 2 * N - 1
      PROVE  v14'[x] + (S!Has(0, x)' + S!Has(1, x)') = 1 /\ v14'[x] \in 0 .. 2
  <2> DEFINE more == IF x \in v8[i].begin .. chunk - 1 THEN 1 ELSE 0
  <2>1. v14'[x] = v14[x] + more
    BY <1>1, <1>3
  <2>2. S!Has(i, x) = more + S!Has(i, x)' /\ more \in {0, 1}
    BY <1>2, <1>4, <1>6 DEF S!Has
  <2>3. S!Has(S!Other(i), x)' = S!Has(S!Other(i), x)
    BY <1>7 DEF S!Has
  <2> HIDE DEF more
  <2>4. S!Has(0, x) + S!Has(1, x) = more + (S!Has(0, x)' + S!Has(1, x)')
    <3>1. /\ S!Has(i, x) + S!Has(S!Other(i), x) = S!Has(0, x) + S!Has(1, x)
          /\ S!Has(i, x)' + S!Has(S!Other(i), x)' = S!Has(0, x)' + S!Has(1, x)'
          /\ S!Has(i, x)' \in {0, 1}
      BY BothWorkers
    <3>2. S!Has(S!Other(i), x) \in {0, 1}
      BY DEF S!Has
    <3>3. QED
      BY <2>2, <2>3, <3>1, <3>2
  <2>5. v14[x] + (S!Has(0, x) + S!Has(1, x)) = 1 /\ v14[x] \in 0 .. 2
    BY <1>1 DEF S!StealingInv, S!EachItemOnce
  <2>6. S!Has(0, x)' \in {0, 1} /\ S!Has(1, x)' \in {0, 1}
    BY BothWorkers
  <2>7. QED
    BY <2>1, <2>2, <2>4, <2>5, <2>6
<1>9. DOMAIN v14' = 0 .. 2 * N - 1 /\ v14' = [x \in DOMAIN v14' |-> v14'[x]]
  BY <1>1, <1>3
<1>10. S!EachItemOnce' /\ v14' \in [0 .. 2 * N - 1 -> 0 .. 2]
  BY <1>8, <1>9 DEF S!EachItemOnce
<1>11. v8' \in [S!Workers -> S!Ranges]
  BY <1>1, <1>3, <1>4 DEF S!Ranges
<1>12. QED
  BY <1>10, <1>11

(* and Share moves some from the giver to the other worker, who had none.   *)
LEMMA ShareItems ==
  ASSUME S!StealingInv, NEW i \in S!Workers, S!Share(i)
  PROVE  S!EachItemOnce'
<1>1. PICK k \in S!OsThreads : Wakes(i, k)
  BY ResumeWakesSleeper
<1>2. PICK end \in 0 .. 2 * N : Halves(i, end)
  BY ShareHalves
<1>3. S!Holds(i) = v8[i].begin .. v8[i].end - 1 /\ S!Holds(i)' = v8[i].begin .. end - 1
  BY <1>1, <1>2 DEF Wakes, Halves, S!Holds, S!Items
<1>4. S!Holds(S!Other(i))' = end .. v8[i].end - 1
  BY <1>1, <1>2 DEF Wakes, Halves, S!Holds, S!Items
<1>5. S!Holds(S!Other(i)) = {}
  BY <1>1, IdleHoldNothing DEF Wakes
<1>6. ASSUME NEW x \in DOMAIN v14
      PROVE  v14[x] + (S!Has(0, x)' + S!Has(1, x)') = 1
  <2>1. x \in Int
    BY <1>6, StealConstants DEF S!StealingInv, S!TypeOK, S!WorkStealingAssumption
  <2>2. S!Has(i, x) = S!Has(i, x)' + S!Has(S!Other(i), x)' /\ S!Has(S!Other(i), x) = 0
    BY <1>2, <1>3, <1>4, <1>5, <2>1 DEF S!Has, Halves
  <2>3. S!Has(0, x) + S!Has(1, x) = S!Has(0, x)' + S!Has(1, x)'
    BY <2>2, BothWorkers
  <2>4. QED
    BY <1>6, <2>3 DEF S!StealingInv, S!EachItemOnce
<1>7. QED
  BY <1>1, <1>6 DEF Wakes, S!EachItemOnce

(* Every value stays in its type: an item is counted at most once.          *)
LEMMA StealTypes ==
  ASSUME S!StealingInv, S!Next
  PROVE  S!TypeOK'
<1>1. S!TypeOK
  BY DEF S!StealingInv
<1> USE <1>1, StealConstants
    DEF S!TypeOK, S!Ranges, S!PCs,
        S!WorkStealingAssumption, S!Workers, S!OsThreads, S!RunTest, S!Other, S!Goto,
        S!shared, S!Empty, S!Resume, S!Unborn, S!ThreadLeaves, S!Left, S!Ended, S!Start, S!Lesser
<1>2. ASSUME NEW i \in S!Workers, S!Worker(i) PROVE S!TypeOK'
  <2>1. CASE S!Compute(i)
    <3>1. v8' \in [S!Workers -> S!Ranges] /\ v14' \in [0 .. 2 * N - 1 -> 0 .. 2]
      BY <2>1, ComputeItems DEF S!StealingInv
    <3>2. QED
      BY <2>1, <3>1 DEF S!Compute
  <2>2. CASE S!Look(i)
    BY <2>2 DEF S!Look
  <2>3. CASE S!Share(i)
    <3>1. PICK k \in S!OsThreads : Wakes(i, k)
      BY <2>3, ResumeWakesSleeper
    <3>2. /\ v9' \in [S!Workers -> S!OsThreads \cup {None}]
          /\ v10' \in [S!Workers -> S!OsThreads \cup {None}]
          /\ v12' \in [S!OsThreads -> {"unborn", "running", "leaving", "ended"}]
      BY <3>1 DEF Wakes

    <3>3. PICK end \in 0 .. 2 * N : Halves(i, end)
      BY <2>3, ShareHalves
    <3>4. v8' \in [S!Workers -> S!Ranges] /\ v4' \in [S!Workers -> S!Ranges]
      BY <3>1, <3>3 DEF Wakes, Halves
    <3>5. QED
      BY <2>3, <3>2, <3>4 DEF S!Share
  <2>4. CASE S!ShareNot(i)
    BY <2>4 DEF S!ShareNot
  <2>5. CASE S!Assign(i)
    <3>1. v11' \in [S!Workers \cup {S!RunTest} -> S!OsThreads \cup {None}]
      BY <2>5 DEF S!Assign
    <3>2. QED
      BY <2>5, <3>1 DEF S!Assign
  <2>6. CASE S!Store(i)
    BY <2>6 DEF S!Store
  <2>7. CASE S!Join(i)
    <3> HIDE DEF S!Goto, S!shared, S!Ended
    <3>1. v10' = [v10 EXCEPT ![i] = None] /\ v11' = [v11 EXCEPT ![i] = None] /\ v2' = None
      BY <2>7, JoinEnds
    <3>2. S!Empty \in S!Ranges
      OBVIOUS
    <3>3. /\ v4' \in [S!Workers -> S!Ranges] /\ v6' \in [S!Workers -> BOOLEAN]
          /\ v7' \in [S!Workers -> S!PCs]
      <4>1. CASE v7[i] = "join_share"
        <5>1. v7' = [v7 EXCEPT ![i] = "compute"] /\ v4' = v4 /\ v6' = v6
          BY <2>7, <4>1, JoinEnds
        <5>2. QED
          BY <5>1
      <4>2. CASE v7[i] = "join_wake"
        <5>1. /\ v7' = [v7 EXCEPT ![i] = "resumed"] /\ v4' = [v4 EXCEPT ![i] = S!Empty]
              /\ v6' = [v6 EXCEPT ![i] = TRUE]
          BY <2>7, <4>2, JoinEnds
        <5>2. QED
          BY <3>2, <5>1
      <4>3. QED
        BY <2>7, <4>1, <4>2, JoinEnds
    <3>4. /\ v1' = v1 /\ v3' = v3 /\ v5' = v5 /\ v8' = v8 /\ v9' = v9
          /\ v12' = v12 /\ v13' = v13 /\ v14' = v14
      BY <2>7, JoinEnds
    <3>5. /\ v10' \in [S!Workers -> S!OsThreads \cup {None}]
          /\ v11' \in [S!Workers \cup {S!RunTest} -> S!OsThreads \cup {None}]
      BY <3>1
    <3>6. QED
      BY <3>1, <3>3, <3>4, <3>5
  <2>8. CASE S!OutOfWork(i)
    BY <2>8 DEF S!OutOfWork
  <2>9. CASE S!WakeOther(i)
    <3>1. PICK k \in S!OsThreads : Wakes(i, k)
      BY <2>9, ResumeWakesSleeper
    <3>2. /\ v9' \in [S!Workers -> S!OsThreads \cup {None}]
          /\ v10' \in [S!Workers -> S!OsThreads \cup {None}]
          /\ v12' \in [S!OsThreads -> {"unborn", "running", "leaving", "ended"}]
      BY <3>1 DEF Wakes

    <3>3. QED
      BY <2>9, <3>2 DEF S!WakeOther
  <2>10. CASE S!Suspend(i)
    BY <2>10 DEF S!Suspend
  <2>11. CASE S!Resumed(i)
    BY <2>11 DEF S!Resumed
  <2>12. CASE S!Finish(i)
    BY <2>12 DEF S!Finish
  <2>13. QED
    BY <1>2, <2>1, <2>2, <2>3, <2>4, <2>5, <2>6, <2>7, <2>8, <2>9, <2>10, <2>11, <2>12
    DEF S!Worker
<1>3. ASSUME NEW k \in S!OsThreads, S!ThreadEnds(k) PROVE S!TypeOK'
  BY <1>3 DEF S!ThreadEnds
<1>4. ASSUME S!Main PROVE S!TypeOK'
  <2>1. CASE S!Launch0
    <3>1. 0 \in S!Workers /\ 1 \in S!OsThreads
      OBVIOUS
    <3>2. /\ v12' \in [S!OsThreads -> {"unborn", "running", "leaving", "ended"}]
          /\ v9' \in [S!Workers -> S!OsThreads \cup {None}]
          /\ v5' \in [S!Workers -> S!OsThreads \cup {None}]
      BY <2>1, <3>1 DEF S!Launch0
    <3>3. QED
      BY <2>1, <3>2 DEF S!Launch0
  <2>2. CASE S!Launch1
    <3>1. 1 \in S!Workers /\ 2 \in S!OsThreads
      OBVIOUS
    <3>2. /\ v12' \in [S!OsThreads -> {"unborn", "running", "leaving", "ended"}]
          /\ v9' \in [S!Workers -> S!OsThreads \cup {None}]
      BY <2>2, <3>1 DEF S!Launch1
    <3>3. QED
      BY <2>2, <3>2 DEF S!Launch1
  <2>3. CASE S!Assign1
    BY <2>3 DEF S!Assign1
  <2>4. CASE S!Store1
    <3>1. 1 \in S!Workers /\ 2 \in S!OsThreads
      OBVIOUS
    <3>2. v5' \in [S!Workers -> S!OsThreads \cup {None}]
      BY <2>4, <3>1 DEF S!Store1
    <3>3. QED
      BY <2>4, <3>2 DEF S!Store1
  <2>5. CASE S!Join1
    BY <2>5 DEF S!Join1
  <2>6. CASE S!WaitForAll
    BY <2>6 DEF S!WaitForAll
  <2>7. ASSUME NEW i \in S!Workers, S!Destroy(i) PROVE S!TypeOK'
    BY <2>7 DEF S!Destroy
  <2>8. QED
    BY <1>4, <2>1, <2>2, <2>3, <2>4, <2>5, <2>6, <2>7 DEF S!Main
<1>5. QED
  BY <1>2, <1>3, <1>4 DEF S!Next

(* Who is out of work has an empty range.                                   *)
LEMMA StealIdle ==
  ASSUME S!StealingInv, S!Next
  PROVE  S!IdleHaveNoItems'
<1>1. S!TypeOK /\ S!IdleHaveNoItems /\ S!ResumedOnce
  BY DEF S!StealingInv
<1> USE <1>1, StealConstants
    DEF S!IdleHaveNoItems, S!TypeOK, S!Ranges, S!PCs,
        S!WorkStealingAssumption, S!Workers, S!OsThreads, S!RunTest, S!Other, S!Goto,
        S!shared, S!Empty, S!Resume, S!Unborn, S!ThreadLeaves, S!Left, S!Ended, S!Start, S!Lesser
<1>2. ASSUME NEW i \in S!Workers, S!Worker(i) PROVE S!IdleHaveNoItems'
  <2>1. CASE S!Compute(i)
    BY <2>1 DEF S!Compute
  <2>2. CASE S!Look(i)
    BY <2>2 DEF S!Look
  <2>3. CASE S!Share(i)
    BY <2>3 DEF S!Share
  <2>4. CASE S!ShareNot(i)
    BY <2>4 DEF S!ShareNot
  <2>5. CASE S!Assign(i)
    BY <2>5 DEF S!Assign
  <2>6. CASE S!Store(i)
    BY <2>6 DEF S!Store
  <2>7. CASE S!Join(i)
    BY <2>7 DEF S!Join
  <2>8. CASE S!OutOfWork(i)
    BY <2>8 DEF S!OutOfWork
  <2>9. CASE S!WakeOther(i)
    BY <2>9 DEF S!WakeOther
  <2>10. CASE S!Suspend(i)
    BY <2>10 DEF S!Suspend
  <2>11. CASE S!Resumed(i)
    BY <2>11 DEF S!Resumed
  <2>12. CASE S!Finish(i)
    BY <2>12 DEF S!Finish
  <2>13. QED
    BY <1>2, <2>1, <2>2, <2>3, <2>4, <2>5, <2>6, <2>7, <2>8, <2>9, <2>10, <2>11, <2>12
    DEF S!Worker
<1>3. ASSUME NEW k \in S!OsThreads, S!ThreadEnds(k) PROVE S!IdleHaveNoItems'
  BY <1>3 DEF S!ThreadEnds
<1>4. ASSUME S!Main PROVE S!IdleHaveNoItems'
  <2>1. CASE S!Launch0
    BY <2>1 DEF S!Launch0
  <2>2. CASE S!Launch1
    BY <2>2 DEF S!Launch1
  <2>3. CASE S!Assign1
    BY <2>3 DEF S!Assign1
  <2>4. CASE S!Store1
    BY <2>4 DEF S!Store1
  <2>5. CASE S!Join1
    BY <2>5 DEF S!Join1
  <2>6. CASE S!WaitForAll
    BY <2>6 DEF S!WaitForAll
  <2>7. ASSUME NEW i \in S!Workers, S!Destroy(i) PROVE S!IdleHaveNoItems'
    BY <2>7 DEF S!Destroy
  <2>8. QED
    BY <1>4, <2>1, <2>2, <2>3, <2>4, <2>5, <2>6, <2>7 DEF S!Main
<1>5. QED
  BY <1>2, <1>3, <1>4 DEF S!Next

(* run_test() starts each coroutine once.                                   *)
LEMMA StealStarted ==
  ASSUME S!StealingInv, S!Next
  PROVE  S!StartedByMain'
<1>1. S!TypeOK /\ S!StartedByMain
  BY DEF S!StealingInv
<1> USE <1>1, StealConstants
    DEF S!StartedByMain, S!TypeOK, S!PCs,
        S!WorkStealingAssumption, S!Workers, S!OsThreads, S!RunTest, S!Other, S!Goto,
        S!shared, S!Empty, S!Resume, S!Unborn, S!ThreadLeaves, S!Left, S!Ended, S!Start, S!Lesser
<1>2. ASSUME NEW i \in S!Workers, S!Worker(i) PROVE S!StartedByMain'
  <2>1. CASE S!Compute(i)
    BY <2>1 DEF S!Compute
  <2>2. CASE S!Look(i)
    BY <2>2 DEF S!Look
  <2>3. CASE S!Share(i)
    <3>1. PICK k \in S!OsThreads : Wakes(i, k)
      BY <2>3, ResumeWakesSleeper
    <3>2. v7'[i] # "unborn" /\ v7[i] # "unborn"
      BY <2>3, <3>1 DEF Wakes
    <3>3. QED
      BY <3>1, <3>2 DEF Wakes
  <2>4. CASE S!ShareNot(i)
    BY <2>4 DEF S!ShareNot
  <2>5. CASE S!Assign(i)
    BY <2>5 DEF S!Assign
  <2>6. CASE S!Store(i)
    BY <2>6 DEF S!Store
  <2>7. CASE S!Join(i)
    <3>1. /\ v7[i] # "unborn" /\ v7'[i] # "unborn" /\ v7'[S!Other(i)] = v7[S!Other(i)]
          /\ v9' = v9 /\ v13' = v13
      BY <2>7 DEF S!Join
    <3>2. QED
      BY <3>1
  <2>8. CASE S!OutOfWork(i)
    BY <2>8 DEF S!OutOfWork
  <2>9. CASE S!WakeOther(i)
    <3>1. PICK k \in S!OsThreads : Wakes(i, k)
      BY <2>9, ResumeWakesSleeper
    <3>2. v7'[i] # "unborn" /\ v7[i] # "unborn"
      BY <2>9, <3>1 DEF Wakes
    <3>3. QED
      BY <3>1, <3>2 DEF Wakes
  <2>10. CASE S!Suspend(i)
    BY <2>10 DEF S!Suspend
  <2>11. CASE S!Resumed(i)
    BY <2>11 DEF S!Resumed
  <2>12. CASE S!Finish(i)
    BY <2>12 DEF S!Finish
  <2>13. QED
    BY <1>2, <2>1, <2>2, <2>3, <2>4, <2>5, <2>6, <2>7, <2>8, <2>9, <2>10, <2>11, <2>12
    DEF S!Worker
<1>3. ASSUME NEW k \in S!OsThreads, S!ThreadEnds(k) PROVE S!StartedByMain'
  BY <1>3 DEF S!ThreadEnds
<1>4. ASSUME S!Main PROVE S!StartedByMain'
  <2>1. CASE S!Launch0
    <3>1. v7'[1] = v7[1] /\ v9'[1] = v9[1] /\ v7'[0] = "compute" /\ v13' = "launch1"
      BY <2>1 DEF S!Launch0
    <3>2. QED
      BY <2>1, <3>1 DEF S!Launch0
  <2>2. CASE S!Launch1
    BY <2>2 DEF S!Launch1
  <2>3. CASE S!Assign1
    BY <2>3 DEF S!Assign1
  <2>4. CASE S!Store1
    BY <2>4 DEF S!Store1
  <2>5. CASE S!Join1
    BY <2>5 DEF S!Join1
  <2>6. CASE S!WaitForAll
    BY <2>6 DEF S!WaitForAll
  <2>7. ASSUME NEW i \in S!Workers, S!Destroy(i) PROVE S!StartedByMain'
    BY <2>7 DEF S!Destroy
  <2>8. QED
    BY <1>4, <2>1, <2>2, <2>3, <2>4, <2>5, <2>6, <2>7 DEF S!Main
<1>5. QED
  BY <1>2, <1>3, <1>4 DEF S!Next

(* With stealing, the two workers start to leave in one step.               *)
LEMMA StealLeave ==
  ASSUME S!StealingInv, S!Next
  PROVE  S!LeaveTogether'
<1>1. S!TypeOK /\ S!StartedByMain /\ S!LeaveTogether
  BY DEF S!StealingInv
<1> USE <1>1, StealConstants
    DEF S!LeaveTogether, S!Leaving, S!StartedByMain,
           S!TypeOK, S!Ranges, S!PCs,
        S!WorkStealingAssumption, S!Workers, S!OsThreads, S!RunTest, S!Other, S!Goto,
        S!shared, S!Empty, S!Resume, S!Unborn, S!ThreadLeaves, S!Left, S!Ended, S!Start, S!Lesser
<1>2. ASSUME NEW i \in S!Workers, S!Worker(i) PROVE S!LeaveTogether'
  <2>1. CASE S!Compute(i)
    BY <2>1 DEF S!Compute
  <2>2. CASE S!Look(i)
    BY <2>2 DEF S!Look
  <2>3. CASE S!Share(i)
    <3>1. PICK k \in S!OsThreads : Wakes(i, k)
      BY <2>3, ResumeWakesSleeper
    <3>2. PICK end \in 0 .. 2 * N : Halves(i, end)
      BY <2>3, ShareHalves
    <3>3. ~S!Leaving(i) /\ ~S!Leaving(S!Other(i)) /\ ~S!Leaving(i)'
      BY <2>3, <3>1 DEF Wakes
    <3>4. ~S!Leaving(S!Other(i))'
      <4>1. end \in Int /\ v8[i].end \in Int /\ end < v8[i].end
        BY ONLY <3>2, StealConstants DEF Halves, S!WorkStealingAssumption
      <4>2. /\ v7'[S!Other(i)] = "resumed"
            /\ v4'[S!Other(i)] = [begin |-> end, end |-> v8[i].end]
        BY ONLY <3>1, <3>2 DEF Wakes, Halves
      <4>3. QED
        BY ONLY <4>1, <4>2 DEF S!Leaving
    <3>5. v1' = v1 /\ v6' = v6 /\ v7'[i] # "await" /\ v7'[S!Other(i)] # "await"
      BY <2>3, <3>1 DEF Wakes
    <3> HIDE DEF S!Leaving, S!Other, S!Workers
    <3>6. ASSUME NEW j \in S!Workers
          PROVE  ~S!Leaving(j) /\ ~S!Leaving(j)' /\ v7'[j] # "await"
      <4>1. CASE j = i
        BY ONLY <3>3, <3>5, <4>1
      <4>2. CASE j = S!Other(i)
        BY ONLY <3>3, <3>4, <3>5, <4>2
      <4>3. QED
        BY <4>1, <4>2, TwoWorkers
    <3>7. \A j \in S!Workers : ~v6'[j]
      BY <3>5, <3>6
    <3>8. QED
      BY <3>6, <3>7 DEF S!Workers
  <2>4. CASE S!ShareNot(i)
    BY <2>4 DEF S!ShareNot
  <2>5. CASE S!Assign(i)
    BY <2>5 DEF S!Assign
  <2>6. CASE S!Store(i)
    BY <2>6 DEF S!Store
  <2>7. CASE S!Join(i)
    <3>1. CASE v7[i] = "join_share"
      <4>1. /\ v7' = [v7 EXCEPT ![i] = "compute"] /\ v4' = v4 /\ v6' = v6 /\ v1' = v1
            /\ v13' = v13
        BY <2>7, <3>1, JoinEnds
      <4>2. QED
        BY <3>1, <4>1
    <3>2. CASE v7[i] = "join_wake"
      <4>1. /\ v7' = [v7 EXCEPT ![i] = "resumed"] /\ v4' = [v4 EXCEPT ![i] = S!Empty]
            /\ v6' = [v6 EXCEPT ![i] = TRUE] /\ v1' = v1 /\ v13' = v13
        BY <2>7, <3>2, JoinEnds
      <4>2. \A j \in S!Workers : S!Leaving(j)' <=> S!Leaving(j)
        BY <3>2, <4>1
      <4>3. QED
        BY <3>2, <4>1, <4>2
    <3>3. QED
      BY <2>7, <3>1, <3>2, JoinEnds
  <2>8. CASE S!OutOfWork(i)
    BY <2>8 DEF S!OutOfWork
  <2>9. CASE S!WakeOther(i)
    <3>1. PICK k \in S!OsThreads : Wakes(i, k)
      BY <2>9, ResumeWakesSleeper
    <3>2. v4'[S!Other(i)] = S!Empty
      BY <2>9 DEF S!WakeOther
    <3>3. /\ S!Leaving(i)' /\ S!Leaving(S!Other(i))'
          /\ v7'[i] # "await" /\ v7'[S!Other(i)] # "await"
      BY <2>9, <3>1, <3>2 DEF Wakes
    <3> HIDE DEF S!Leaving, S!Other, S!Workers
    <3>4. ASSUME NEW j \in S!Workers
          PROVE  S!Leaving(j)' /\ v7'[j] # "await"
      <4>1. CASE j = i
        BY ONLY <3>3, <4>1
      <4>2. CASE j = S!Other(i)
        BY ONLY <3>3, <4>2
      <4>3. QED
        BY <4>1, <4>2, TwoWorkers
    <3>5. QED
      BY <3>4 DEF S!Workers
  <2>10. CASE S!Suspend(i)
    BY <2>10 DEF S!Suspend
  <2>11. CASE S!Resumed(i)
    BY <2>11 DEF S!Resumed
  <2>12. CASE S!Finish(i)
    BY <2>12 DEF S!Finish
  <2>13. QED
    BY <1>2, <2>1, <2>2, <2>3, <2>4, <2>5, <2>6, <2>7, <2>8, <2>9, <2>10, <2>11, <2>12
    DEF S!Worker
<1>3. ASSUME NEW k \in S!OsThreads, S!ThreadEnds(k) PROVE S!LeaveTogether'
  BY <1>3 DEF S!ThreadEnds
<1>4. ASSUME S!Main PROVE S!LeaveTogether'
  <2>1. CASE S!Launch0
    BY <2>1 DEF S!Launch0
  <2>2. CASE S!Launch1
    BY <2>2 DEF S!Launch1
  <2>3. CASE S!Assign1
    BY <2>3 DEF S!Assign1
  <2>4. CASE S!Store1
    BY <2>4 DEF S!Store1
  <2>5. CASE S!Join1
    BY <2>5 DEF S!Join1
  <2>6. CASE S!WaitForAll
    BY <2>6 DEF S!WaitForAll
  <2>7. ASSUME NEW i \in S!Workers, S!Destroy(i) PROVE S!LeaveTogether'
    BY <2>7 DEF S!Destroy
  <2>8. QED
    BY <1>4, <2>1, <2>2, <2>3, <2>4, <2>5, <2>6, <2>7 DEF S!Main
<1>5. QED
  BY <1>2, <1>3, <1>4 DEF S!Next

(* Who waits is suspended, and a running thread runs a coroutine.           *)
LEMMA StealResumes ==
  ASSUME S!StealingInv, S!Next
  PROVE  S!ResumedOnce'
<1>1. S!TypeOK /\ S!StartedByMain /\ S!ResumedOnce
  BY DEF S!StealingInv
<1> USE <1>1, StealConstants
    DEF S!ResumedOnce, S!StartedByMain, S!TypeOK, S!PCs,
        S!WorkStealingAssumption, S!Workers, S!OsThreads, S!RunTest, S!Other, S!Goto,
        S!shared, S!Empty, S!Resume, S!Unborn, S!ThreadLeaves, S!Left, S!Ended, S!Start, S!Lesser
<1>2. ASSUME NEW i \in S!Workers, S!Worker(i) PROVE S!ResumedOnce'
  <2>1. CASE S!Compute(i)
    BY <2>1 DEF S!Compute
  <2>2. CASE S!Look(i)
    BY <2>2 DEF S!Look
  <2>3. CASE S!Share(i)
    <3>1. PICK k \in S!OsThreads : Wakes(i, k)
      BY <2>3, ResumeWakesSleeper
    <3>2. v7[i] \notin {"suspended", "returned"} /\ v7'[i] \notin {"suspended", "returned"}
      BY <2>3, <3>1 DEF Wakes
    <3>3. \A j \in S!Workers : ~v3'[j]
      BY <3>1, <3>2 DEF Wakes
    <3>4. ASSUME NEW n \in S!OsThreads, v12'[n] = "running"
          PROVE  \E j \in S!Workers : v9'[j] = n /\ v7'[j] \notin {"suspended", "returned"}
      <4>1. CASE n = k
        BY <3>1, <4>1 DEF Wakes
      <4>2. CASE n # k
        <5>1. PICK j \in S!Workers : v9[j] = n /\ v7[j] \notin {"suspended", "returned"}
          BY <3>1, <3>4, <4>2 DEF Wakes
        <5>2. j = i /\ v9'[i] = n
          BY <3>1, <5>1 DEF Wakes
        <5>3. QED
          BY <3>2, <5>2
      <4>3. QED
        BY <4>1, <4>2
    <3>5. QED
      BY <3>3, <3>4
  <2>4. CASE S!ShareNot(i)
    BY <2>4 DEF S!ShareNot
  <2>5. CASE S!Assign(i)
    BY <2>5 DEF S!Assign
  <2>6. CASE S!Store(i)
    BY <2>6 DEF S!Store
  <2>7. CASE S!Join(i)
    <3>1. /\ v7'[i] \notin {"suspended", "returned"} /\ v7'[S!Other(i)] = v7[S!Other(i)]
          /\ v7[i] \notin {"suspended", "returned"} /\ S!Other(i) \in S!Workers
          /\ v3' = v3 /\ v9' = v9 /\ v12' = v12
      BY <2>7 DEF S!Join
    <3>2. QED
      BY <3>1
  <2>8. CASE S!OutOfWork(i)
    BY <2>8 DEF S!OutOfWork
  <2>9. CASE S!WakeOther(i)
    <3>1. PICK k \in S!OsThreads : Wakes(i, k)
      BY <2>9, ResumeWakesSleeper
    <3>2. v7[i] \notin {"suspended", "returned"} /\ v7'[i] \notin {"suspended", "returned"}
      BY <2>9, <3>1 DEF Wakes
    <3>3. \A j \in S!Workers : ~v3'[j]
      BY <3>1, <3>2 DEF Wakes
    <3>4. ASSUME NEW n \in S!OsThreads, v12'[n] = "running"
          PROVE  \E j \in S!Workers : v9'[j] = n /\ v7'[j] \notin {"suspended", "returned"}
      <4>1. CASE n = k
        BY <3>1, <4>1 DEF Wakes
      <4>2. CASE n # k
        <5>1. PICK j \in S!Workers : v9[j] = n /\ v7[j] \notin {"suspended", "returned"}
          BY <3>1, <3>4, <4>2 DEF Wakes
        <5>2. j = i /\ v9'[i] = n
          BY <3>1, <5>1 DEF Wakes
        <5>3. QED
          BY <3>2, <5>2
      <4>3. QED
        BY <4>1, <4>2
    <3>5. QED
      BY <3>3, <3>4
  <2>10. CASE S!Suspend(i)
    <3>1. /\ v7' = [v7 EXCEPT ![i] = "suspended"] /\ v9' = v9
          /\ v12' = [v12 EXCEPT ![v9[i]] = "leaving"]
          /\ \A j \in S!Workers : v3'[j] => v7'[j] = "suspended"
      BY <2>10 DEF S!Suspend
    <3>2. ASSUME NEW n \in S!OsThreads, v12'[n] = "running"
          PROVE  \E j \in S!Workers : v9'[j] = n /\ v7'[j] \notin {"suspended", "returned"}
      <4>1. v12[n] = "running" /\ n # v9[i]
        BY <3>1, <3>2
      <4>2. PICK j \in S!Workers : v9[j] = n /\ v7[j] \notin {"suspended", "returned"}
        BY <4>1
      <4>3. QED
        BY <3>1, <4>1, <4>2
    <3>3. QED
      BY <3>1, <3>2
  <2>11. CASE S!Resumed(i)
    BY <2>11 DEF S!Resumed
  <2>12. CASE S!Finish(i)
    <3>1. /\ v7' = [v7 EXCEPT ![i] = "returned"] /\ v9' = v9
          /\ v12' = [v12 EXCEPT ![v9[i]] = "leaving"]
          /\ \A j \in S!Workers : v3'[j] => v7'[j] = "suspended"
      BY <2>12 DEF S!Finish
    <3>2. ASSUME NEW n \in S!OsThreads, v12'[n] = "running"
          PROVE  \E j \in S!Workers : v9'[j] = n /\ v7'[j] \notin {"suspended", "returned"}
      <4>1. v12[n] = "running" /\ n # v9[i]
        BY <3>1, <3>2
      <4>2. PICK j \in S!Workers : v9[j] = n /\ v7[j] \notin {"suspended", "returned"}
        BY <4>1
      <4>3. QED
        BY <3>1, <4>1, <4>2
    <3>3. QED
      BY <3>1, <3>2
  <2>13. QED
    BY <1>2, <2>1, <2>2, <2>3, <2>4, <2>5, <2>6, <2>7, <2>8, <2>9, <2>10, <2>11, <2>12
    DEF S!Worker
<1>3. ASSUME NEW k \in S!OsThreads, S!ThreadEnds(k) PROVE S!ResumedOnce'
  BY <1>3 DEF S!ThreadEnds
<1>4. ASSUME S!Main PROVE S!ResumedOnce'
  <2>1. CASE S!Launch0
    <3>1. /\ v7[0] = "unborn" /\ v7' = [v7 EXCEPT ![0] = "compute"]
          /\ v9[0] = None /\ v9' = [v9 EXCEPT ![0] = 1]
          /\ v12' = [v12 EXCEPT ![1] = "running"] /\ v3' = v3
          /\ 1 \in S!OsThreads /\ None \notin S!OsThreads /\ 0 \in S!Workers
      BY <2>1 DEF S!Launch0, S!StartedByMain
    <3>2. ASSUME NEW n \in S!OsThreads, v12'[n] = "running"
          PROVE  \E j \in S!Workers : v9'[j] = n /\ v7'[j] \notin {"suspended", "returned"}
      <4>1. CASE n = 1
        BY <3>1, <4>1
      <4>2. CASE n # 1
        <5>1. PICK j \in S!Workers : v9[j] = n /\ v7[j] \notin {"suspended", "returned"}
          BY <3>1, <3>2, <4>2
        <5>2. QED
          BY <3>1, <5>1
      <4>3. QED
        BY <4>1, <4>2
    <3>3. QED
      BY <3>1, <3>2
  <2>2. CASE S!Launch1
    <3>1. /\ v7[1] = "unborn" /\ v7' = [v7 EXCEPT ![1] = "compute"]
          /\ v9[1] = None /\ v9' = [v9 EXCEPT ![1] = 2]
          /\ v12' = [v12 EXCEPT ![2] = "running"] /\ v3' = v3
          /\ 2 \in S!OsThreads /\ None \notin S!OsThreads /\ 1 \in S!Workers
      BY <2>2 DEF S!Launch1, S!StartedByMain
    <3>2. ASSUME NEW n \in S!OsThreads, v12'[n] = "running"
          PROVE  \E j \in S!Workers : v9'[j] = n /\ v7'[j] \notin {"suspended", "returned"}
      <4>1. CASE n = 2
        BY <3>1, <4>1
      <4>2. CASE n # 2
        <5>1. PICK j \in S!Workers : v9[j] = n /\ v7[j] \notin {"suspended", "returned"}
          BY <3>1, <3>2, <4>2
        <5>2. QED
          BY <3>1, <5>1
      <4>3. QED
        BY <4>1, <4>2
    <3>3. QED
      BY <3>1, <3>2
  <2>3. CASE S!Assign1
    BY <2>3 DEF S!Assign1
  <2>4. CASE S!Store1
    BY <2>4 DEF S!Store1
  <2>5. CASE S!Join1
    BY <2>5 DEF S!Join1
  <2>6. CASE S!WaitForAll
    BY <2>6 DEF S!WaitForAll
  <2>7. ASSUME NEW i \in S!Workers, S!Destroy(i) PROVE S!ResumedOnce'
    BY <2>7 DEF S!Destroy
  <2>8. QED
    BY <1>4, <2>1, <2>2, <2>3, <2>4, <2>5, <2>6, <2>7 DEF S!Main
<1>5. QED
  BY <1>2, <1>3, <1>4 DEF S!Next

(* Every item is worked on, or held by one worker, once.                    *)
LEMMA StealItems ==
  ASSUME S!StealingInv, S!Next
  PROVE  S!EachItemOnce'
<1>1. S!TypeOK /\ S!StartedByMain /\ S!EachItemOnce
  BY DEF S!StealingInv
<1> USE <1>1, StealConstants
    DEF S!TypeOK, S!Ranges, S!PCs, S!StartedByMain,
        S!WorkStealingAssumption, S!Workers, S!OsThreads, S!RunTest, S!Other, S!Goto,
        S!shared, S!Empty, S!Resume, S!Unborn, S!ThreadLeaves, S!Left, S!Ended, S!Start, S!Lesser
<1>2. ASSUME NEW i \in S!Workers, S!Worker(i) PROVE S!EachItemOnce'
  <2>1. CASE S!Compute(i)
    BY <2>1, ComputeItems DEF S!StealingInv
  <2>2. CASE S!Look(i)
    <3>1. v14' = v14 /\ \A j \in S!Workers : S!Holds(j)' = S!Holds(j)
      BY <2>2 DEF S!Look, S!Holds
    <3>2. QED
      BY <3>1, SameItems
  <2>3. CASE S!Share(i)
    BY <2>3, ShareItems DEF S!StealingInv
  <2>4. CASE S!ShareNot(i)
    <3>1. v14' = v14 /\ \A j \in S!Workers : S!Holds(j)' = S!Holds(j)
      BY <2>4 DEF S!ShareNot, S!Holds
    <3>2. QED
      BY <3>1, SameItems
  <2>5. CASE S!Assign(i)
    <3>1. v14' = v14 /\ \A j \in S!Workers : S!Holds(j)' = S!Holds(j)
      BY <2>5 DEF S!Assign, S!Holds
    <3>2. QED
      BY <3>1, SameItems
  <2>6. CASE S!Store(i)
    <3>1. v14' = v14 /\ \A j \in S!Workers : S!Holds(j)' = S!Holds(j)
      BY <2>6 DEF S!Store, S!Holds
    <3>2. QED
      BY <3>1, SameItems
  <2>7. CASE S!Join(i)
    <3>1. CASE v7[i] = "join_share"
      <4>1. v7' = [v7 EXCEPT ![i] = "compute"] /\ v4' = v4 /\ v8' = v8 /\ v14' = v14
        BY <2>7, <3>1, JoinEnds
      <4>2. \A j \in S!Workers : S!Holds(j)' = S!Holds(j)
        BY <3>1, <4>1 DEF S!Holds
      <4>3. QED
        BY <4>1, <4>2, SameItems
    <3>2. CASE v7[i] = "join_wake"
      <4>1. /\ v7' = [v7 EXCEPT ![i] = "resumed"] /\ v4' = [v4 EXCEPT ![i] = S!Empty]
            /\ v8' = v8 /\ v14' = v14
        BY <2>7, <3>2, JoinEnds
      <4>2. S!Holds(i) = {}
        BY <3>2, IdleHoldNothing DEF S!StealingInv
      <4>3. S!Holds(i)' = {}
        BY <4>1 DEF S!Holds, S!Items
      <4>4. \A j \in S!Workers : S!Holds(j)' = S!Holds(j)
        BY <3>2, <4>1, <4>2, <4>3 DEF S!Holds
      <4>5. QED
        BY <4>1, <4>4, SameItems
    <3>3. QED
      BY <2>7, <3>1, <3>2, JoinEnds
  <2>8. CASE S!OutOfWork(i)
    <3>1. v14' = v14 /\ \A j \in S!Workers : S!Holds(j)' = S!Holds(j)
      BY <2>8 DEF S!OutOfWork, S!Holds
    <3>2. QED
      BY <3>1, SameItems
  <2>9. CASE S!WakeOther(i)
    <3>1. PICK k \in S!OsThreads : Wakes(i, k)
      BY <2>9, ResumeWakesSleeper
    <3>2. v4'[S!Other(i)] = S!Empty /\ v8' = v8
      BY <2>9 DEF S!WakeOther
    <3>3. S!Holds(i)' = S!Holds(i)
      BY <2>9, <3>1, <3>2 DEF Wakes, S!Holds
    <3>4. S!Holds(S!Other(i))' = {}
      BY <3>1, <3>2 DEF Wakes, S!Holds, S!Items
    <3>5. S!Holds(S!Other(i)) = {}
      BY <3>1, IdleHoldNothing DEF Wakes
    <3>6. v14' = v14
      BY <3>1 DEF Wakes
    <3> HIDE DEF S!Other, S!Workers
    <3>7. \A j \in S!Workers : S!Holds(j)' = S!Holds(j)
      BY <3>3, <3>4, <3>5, TwoWorkers
    <3>8. QED
      BY <3>6, <3>7, SameItems
  <2>10. CASE S!Suspend(i)
    <3>1. v14' = v14 /\ \A j \in S!Workers : S!Holds(j)' = S!Holds(j)
      BY <2>10 DEF S!Suspend, S!Holds
    <3>2. QED
      BY <3>1, SameItems
  <2>11. CASE S!Resumed(i)
    <3>1. v14' = v14 /\ \A j \in S!Workers : S!Holds(j)' = S!Holds(j)
      BY <2>11 DEF S!Resumed, S!Holds
    <3>2. QED
      BY <3>1, SameItems
  <2>12. CASE S!Finish(i)
    <3>1. v14' = v14 /\ \A j \in S!Workers : S!Holds(j)' = S!Holds(j)
      BY <2>12 DEF S!Finish, S!Holds
    <3>2. QED
      BY <3>1, SameItems
  <2>13. QED
    BY <1>2, <2>1, <2>2, <2>3, <2>4, <2>5, <2>6, <2>7, <2>8, <2>9, <2>10, <2>11, <2>12
    DEF S!Worker
<1>3. ASSUME NEW k \in S!OsThreads, S!ThreadEnds(k) PROVE S!EachItemOnce'
  <2>1. v14' = v14 /\ \A j \in S!Workers : S!Holds(j)' = S!Holds(j)
    BY <1>3 DEF S!ThreadEnds, S!Holds
  <2>2. QED
    BY <2>1, SameItems
<1>4. ASSUME S!Main PROVE S!EachItemOnce'
  <2>1. CASE S!Launch0
    <3>1. v14' = v14 /\ \A j \in S!Workers : S!Holds(j)' = S!Holds(j)
      BY <2>1 DEF S!Launch0, S!Holds
    <3>2. QED
      BY <3>1, SameItems
  <2>2. CASE S!Launch1
    <3>1. v14' = v14 /\ \A j \in S!Workers : S!Holds(j)' = S!Holds(j)
      BY <2>2 DEF S!Launch1, S!Holds
    <3>2. QED
      BY <3>1, SameItems
  <2>3. CASE S!Assign1
    <3>1. v14' = v14 /\ \A j \in S!Workers : S!Holds(j)' = S!Holds(j)
      BY <2>3 DEF S!Assign1, S!Holds
    <3>2. QED
      BY <3>1, SameItems
  <2>4. CASE S!Store1
    <3>1. v14' = v14 /\ \A j \in S!Workers : S!Holds(j)' = S!Holds(j)
      BY <2>4 DEF S!Store1, S!Holds
    <3>2. QED
      BY <3>1, SameItems
  <2>5. CASE S!Join1
    <3>1. v14' = v14 /\ \A j \in S!Workers : S!Holds(j)' = S!Holds(j)
      BY <2>5 DEF S!Join1, S!Holds
    <3>2. QED
      BY <3>1, SameItems
  <2>6. CASE S!WaitForAll
    <3>1. v14' = v14 /\ \A j \in S!Workers : S!Holds(j)' = S!Holds(j)
      BY <2>6 DEF S!WaitForAll, S!Holds
    <3>2. QED
      BY <3>1, SameItems
  <2>7. ASSUME NEW i \in S!Workers, S!Destroy(i) PROVE S!EachItemOnce'
    <3>1. v14' = v14 /\ \A j \in S!Workers : S!Holds(j)' = S!Holds(j)
      BY <2>7 DEF S!Destroy, S!Holds
    <3>2. QED
      BY <3>1, SameItems
  <2>8. QED
    BY <1>4, <2>1, <2>2, <2>3, <2>4, <2>5, <2>6, <2>7 DEF S!Main
<1>5. QED
  BY <1>2, <1>3, <1>4 DEF S!Next

(* So every step keeps the invariant.                                       *)
LEMMA StealStep == S!StealingInv /\ [S!Next]_S!vars => S!StealingInv'
<1>1. ASSUME S!StealingInv, S!Next PROVE S!StealingInv'
  BY <1>1, StealTypes, StealIdle, StealStarted, StealLeave, StealItems, StealResumes
  DEF S!StealingInv
<1>2. ASSUME S!StealingInv, UNCHANGED S!vars PROVE S!StealingInv'
  BY <1>2
  DEF S!StealingInv, S!TypeOK, S!IdleHaveNoItems, S!StartedByMain, S!LeaveTogether, S!Leaving,
      S!EachItemOnce, S!Has, S!Holds, S!ResumedOnce, S!vars, S!shared
<1>3. QED
  BY <1>1, <1>2

(* Nobody runs out of work after the other worker has finished.             *)
LEMMA StealSafe == S!StealingInv => S!LastTwoLeaveTogether
<1> SUFFICES ASSUME S!StealingInv, NEW i \in S!Workers, v7[i] = "await", v6[S!Other(i)]
             PROVE  FALSE
  BY DEF S!LastTwoLeaveTogether
<1>1. i \in {0, 1} /\ S!Other(i) \in {0, 1} /\ S!Other(i) # i
  BY DEF S!Workers, S!Other
<1>2. S!Leaving(S!Other(i)) /\ v1
  BY <1>1 DEF S!StealingInv, S!LeaveTogether, S!Workers
<1>3. ~S!Leaving(i)
  BY DEF S!Leaving
<1>4. QED
  BY <1>1, <1>2, <1>3 DEF S!StealingInv, S!LeaveTogether

(* A behavior of MCPrograms is of one program.                              *)
LEMMA WhichStays == [ProgramsNext]_all => which' = which
  BY DEF ProgramsNext, all, Rest4, Rest5, Rest6, Rest7, Rest8, Rest9, Rest10, Rest11, Rest12,
         Rest13, Rest14

(* The invariant of WorkStealing, for the behaviors that are its own        *)
StealProgramInv == which = "steal" => S!StealingInv

(* Work stealing, for any number of items, chunk and threshold, and as many *)
(* threads as it takes: whatever the order in which the two coroutines run  *)
(* out of work, suspend and are given half of what the other one has, each  *)
(* item is worked on at most once and is never lost, a coroutine is resumed *)
(* once and on one thread, and nobody looks for work after the other one    *)
(* has finished.                                                            *)
THEOREM WorkStealingIsSafe == ProgramsSpec => []StealingIsSafe
<1>1. ProgramsInit => StealProgramInv
  BY StealInit DEF ProgramsInit, StealProgramInv
<1>2. StealProgramInv /\ [ProgramsNext]_all => StealProgramInv'
  <2> SUFFICES ASSUME StealProgramInv, [ProgramsNext]_all, which = "steal"
               PROVE  S!StealingInv'
    BY WhichStays DEF StealProgramInv
  <2>1. CASE ProgramsNext
    <3>1. S!Next
      BY <2>1 DEF ProgramsNext
    <3>2. QED
      BY <3>1, StealStep DEF StealProgramInv
  <2>2. CASE UNCHANGED all
    <3>1. UNCHANGED S!vars
      BY <2>2 DEF all, S!vars, S!shared
    <3>2. QED
      BY <3>1, StealStep DEF StealProgramInv
  <2>3. QED
    BY <2>1, <2>2
<1>3. StealProgramInv => StealingIsSafe
  BY StealSafe DEF StealProgramInv, StealingIsSafe, S!StealingInv
<1>4. QED
  BY <1>1, <1>2, <1>3, PTL DEF ProgramsSpec

-----------------------------------------------------------------------------
(* The end of a list.  That its nodes are freed once and that nobody is     *)
(* left at one is a matter of counting: a node's count is the number of     *)
(* places that refer to it, for which every step but the last of ~Node() is *)
(* one kind of turn: the owner gives up x, gets a reference to y, and a     *)
(* call of ~Node() begins if x had no other.                                *)
(* What the counting invariant says, with the library's Cardinality         *)
LEMMA CountsAre ==
  /\ K!CountsInv <=> \A x \in K!Nodes : IsFiniteSet(K!References(x)) /\ v2[x] = Cardinality(K!References(x))
  /\ K!CountsInv' <=>
       \A x \in K!Nodes : IsFiniteSet(K!References(x)') /\ v2'[x] = Cardinality(K!References(x)')
  /\ \A x : K!Count(x) = Cardinality(K!References(x))
  BY DEF K!CountsInv, K!Count, K!Cardinality, Cardinality, K!IsFiniteSet, IsFiniteSet

(* The constant's assumption, with the library's IsFiniteSet                *)
LEMMA IteratorsAreFinite == IsFiniteSet(Iterators)
  BY ProgramAssumptions DEF K!NodeChainAssumption, K!IsFiniteSet, IsFiniteSet

(* What place <<k, a, i>> refers to: Nil, if there is no such place.        *)
Val(k, a, i) == IF <<k, a, i>> \in K!Places THEN K!In(k, a, i) ELSE K!Nil

One(b) == IF b THEN 1 ELSE 0

Is(x, y) == IF x = y THEN 1 ELSE 0

(* The places that hold a reference, one by one                             *)
LEMMA PlacesAre ==
  ASSUME NEW w
  PROVE  /\ w \in K!Places <=>
              \/ \E y \in v3 : w = <<"next", y, 0>>
              \/ \E o \in K!Owners : w = <<"hold", o, 0>> \/ w = <<"ahead", o, 0>>
              \/ \E o \in K!Owners : \E i \in DOMAIN v6[o] :
                   w = <<"curr", o, i>> \/ w = <<"next_curr", o, i>>
         /\ w \in K!Places' <=>
              \/ \E y \in v3' : w = <<"next", y, 0>>
              \/ \E o \in K!Owners : w = <<"hold", o, 0>> \/ w = <<"ahead", o, 0>>
              \/ \E o \in K!Owners : \E i \in DOMAIN v6'[o] :
                   w = <<"curr", o, i>> \/ w = <<"next_curr", o, i>>
  BY DEF K!Places

(* Two members of a finite set count apart from the others.                 *)
LEMMA TwoPlaces ==
  ASSUME NEW X, IsFiniteSet(X), NEW p, NEW q, p # q
  PROVE  /\ Cardinality(X) = Cardinality(X \ {p, q}) + One(p \in X) + One(q \in X)
         /\ Cardinality(X \ {p, q}) \in Nat /\ IsFiniteSet(X \ {p, q})
<1>1. /\ IsFiniteSet(X \ {p}) /\ Cardinality(X) \in Nat
      /\ Cardinality(X \ {p}) = Cardinality(X) - One(p \in X)
  BY FS_RemoveElement, FS_CardinalityType DEF One
<1>2. /\ IsFiniteSet((X \ {p}) \ {q}) /\ Cardinality(X \ {p}) \in Nat
      /\ Cardinality((X \ {p}) \ {q}) \in Nat
      /\ Cardinality((X \ {p}) \ {q}) = Cardinality(X \ {p}) - One(q \in X \ {p})
  BY <1>1, FS_RemoveElement, FS_CardinalityType DEF One
<1>3. (X \ {p}) \ {q} = X \ {p, q} /\ (q \in X \ {p} <=> q \in X)
  OBVIOUS
<1>4. QED
  BY <1>1, <1>2, <1>3 DEF One

(* What each place refers to, now                                           *)
LEMMA Values ==
  /\ \A y : Val("next", y, 0) = IF y \in v3 THEN v1[y] ELSE K!Nil
  /\ \A o : Val("hold", o, 0) = IF o \in K!Owners THEN v4[o] ELSE K!Nil
  /\ \A o : Val("ahead", o, 0) = IF o \in K!Owners THEN v5[o] ELSE K!Nil
  /\ \A o, i : Val("curr", o, i) =
       IF o \in K!Owners /\ i \in DOMAIN v6[o] THEN v6[o][i].curr ELSE K!Nil
  /\ \A o, i : Val("next_curr", o, i) =
       IF o \in K!Owners /\ i \in DOMAIN v6[o] THEN v6[o][i].next_curr ELSE K!Nil
  /\ \A k, a, i : Val(k, a, i) = K!Nil \/ (k \in {"next", "hold", "ahead"} /\ i = 0)
                                       \/ k \in {"curr", "next_curr"}
  BY PlacesAre DEF Val, K!In

(* and in the next state.                                                   *)
LEMMA ValuesNext ==
  /\ \A y : Val("next", y, 0)' = IF y \in v3' THEN v1'[y] ELSE K!Nil
  /\ \A o : Val("hold", o, 0)' = IF o \in K!Owners THEN v4'[o] ELSE K!Nil
  /\ \A o : Val("ahead", o, 0)' = IF o \in K!Owners THEN v5'[o] ELSE K!Nil
  /\ \A o, i : Val("curr", o, i)' =
       IF o \in K!Owners /\ i \in DOMAIN v6'[o] THEN v6'[o][i].curr ELSE K!Nil
  /\ \A o, i : Val("next_curr", o, i)' =
       IF o \in K!Owners /\ i \in DOMAIN v6'[o] THEN v6'[o][i].next_curr ELSE K!Nil
  /\ \A k, a, i : Val(k, a, i)' = K!Nil \/ (k \in {"next", "hold", "ahead"} /\ i = 0)
                                        \/ k \in {"curr", "next_curr"}
  BY PlacesAre DEF Val, K!In

(* The references to x are the places that refer to it.                     *)
LEMMA ReferencesAre ==
  ASSUME NEW x \in K!Nodes
  PROVE  /\ \A w : w \in K!References(x) <=> \E k, a, i : w = <<k, a, i>> /\ Val(k, a, i) = x
         /\ \A w : w \in K!References(x)' <=> \E k, a, i : w = <<k, a, i>> /\ Val(k, a, i)' = x
<1>1. x # K!Nil
  BY DEF K!Nodes, K!Nil
<1>2. /\ \A k, a, i : <<k, a, i>> \in K!References(x) <=> Val(k, a, i) = x
      /\ \A k, a, i : <<k, a, i>> \in K!References(x)' <=> Val(k, a, i)' = x
  BY <1>1 DEF K!References, Val
<1>3. /\ \A w \in K!Places : \E k, a, i : w = <<k, a, i>>
      /\ \A w \in K!Places' : \E k, a, i : w = <<k, a, i>>
  BY PlacesAre
<1>4. /\ \A w \in K!References(x) : w \in K!Places
      /\ \A w \in K!References(x)' : w \in K!Places'
  BY DEF K!References
<1>5. QED
  BY <1>2, <1>3, <1>4

(* A place refers to what it did.                                           *)
Same(k, a, i) == Val(k, a, i)' = Val(k, a, i)

(* What is written at two places at most                                    *)
LEMMA Writes ==
  ASSUME K!CountsInv, NEW x \in K!Nodes,
         NEW k, NEW a, NEW i, NEW l, NEW b, NEW j, <<k, a, i>> # <<l, b, j>>,
         \A m, c, h : <<m, c, h>> # <<k, a, i>> /\ <<m, c, h>> # <<l, b, j>> => Same(m, c, h)
  PROVE  /\ IsFiniteSet(K!References(x)')
         /\ Cardinality(K!References(x)') =
              v2[x] - Is(Val(k, a, i), x) - Is(Val(l, b, j), x)
                      + Is(Val(k, a, i)', x) + Is(Val(l, b, j)', x)
         /\ v2[x] \in Nat /\ Cardinality(K!References(x)') \in Nat
<1> DEFINE p == <<k, a, i>>
           q == <<l, b, j>>
<1>1. \A w : w \in K!References(x) <=> \E m, c, h : w = <<m, c, h>> /\ Val(m, c, h) = x
  BY ReferencesAre
<1>2. \A w : w \in K!References(x)' <=> \E m, c, h : w = <<m, c, h>> /\ Val(m, c, h)' = x
  BY ReferencesAre
<1>3. /\ p \in K!References(x) <=> Val(k, a, i) = x
      /\ q \in K!References(x) <=> Val(l, b, j) = x
      /\ p \in K!References(x)' <=> Val(k, a, i)' = x
      /\ q \in K!References(x)' <=> Val(l, b, j)' = x
  BY <1>1, <1>2
<1>4. K!References(x)' \ {p, q} = K!References(x) \ {p, q}
  BY <1>1, <1>2 DEF Same
<1>5. IsFiniteSet(K!References(x)) /\ v2[x] = Cardinality(K!References(x))
  BY CountsAre
<1> HIDE DEF p, q
<1> DEFINE X == K!References(x)
           Y == K!References(x)'
<1>6. p # q
  BY DEF p, q
<1>7. /\ Cardinality(X) = Cardinality(X \ {p, q}) + One(p \in X) + One(q \in X)
      /\ Cardinality(X \ {p, q}) \in Nat /\ IsFiniteSet(X \ {p, q})
  BY <1>5, <1>6, TwoPlaces
<1>8. IsFiniteSet(Y)
  <2>1. Y \subseteq (X \ {p, q}) \cup {p, q}
    BY <1>4
  <2>2. IsFiniteSet({p, q})
    <3>1. IsFiniteSet({p}) /\ IsFiniteSet({q}) /\ {p, q} = {p} \cup {q}
      BY FS_Singleton
    <3>2. QED
      BY <3>1, FS_Union
  <2>3. IsFiniteSet((X \ {p, q}) \cup {p, q})
    BY <1>7, <2>2, FS_Union
  <2>4. QED
    BY <2>1, <2>3, FS_Subset
<1>9. /\ Cardinality(Y) = Cardinality(Y \ {p, q}) + One(p \in Y) + One(q \in Y)
  BY <1>6, <1>8, TwoPlaces
<1> HIDE DEF X, Y
<1>10. Cardinality(X) \in Nat /\ Cardinality(Y) \in Nat
  BY <1>5, <1>8, FS_CardinalityType DEF X
<1>11. Cardinality(Y) = Cardinality(X) - One(p \in X) - One(q \in X) + One(p \in Y) + One(q \in Y)
  <2> DEFINE c == Cardinality(X \ {p, q})
             r == One(p \in X)
             s == One(q \in X)
             t == One(p \in Y)
             u == One(q \in Y)
  <2>1. Y \ {p, q} = X \ {p, q}
    BY <1>4 DEF X, Y
  <2>2. c \in Nat /\ Cardinality(X) = c + r + s /\ Cardinality(Y) = c + t + u
    BY <2>1, <1>7, <1>9
  <2>3. r \in Int /\ s \in Int /\ t \in Int /\ u \in Int
    BY DEF One
  <2> HIDE DEF c, r, s, t, u
  <2>4. Cardinality(Y) = Cardinality(X) - r - s + t + u
    BY <2>2, <2>3
  <2>5. QED
    BY <2>4 DEF r, s, t, u
<1>12. /\ One(p \in X) = Is(Val(k, a, i), x) /\ One(q \in X) = Is(Val(l, b, j), x)
       /\ One(p \in Y) = Is(Val(k, a, i)', x) /\ One(q \in Y) = Is(Val(l, b, j)', x)
  BY <1>3 DEF One, Is, X, Y
<1>13. QED
  BY <1>5, <1>8, <1>10, <1>11, <1>12 DEF X, Y

(* Whoever gives up x runs ~Node() of it.                                   *)
Pushes(x) == x # K!Nil /\ v2[x] = 1

(* Owner o gives up x and gets a reference to y; its innermost call, if it  *)
(* is in one, goes on as f.                                                 *)
Turns(o, f, x, y) ==
  /\ v6' \in [K!Owners -> Seq(K!Calls)]
  /\ \A u \in K!Owners : u # o => v6'[u] = v6[u]
  /\ \A i \in 1 .. Len(v6[o]) - 1 : v6'[o][i] = v6[o][i]
  /\ Len(v6[o]) > 0 => v6'[o][Len(v6[o])] = f
  /\ Pushes(x) => /\ Len(v6'[o]) = Len(v6[o]) + 1
                  /\ v6'[o][Len(v6[o]) + 1] = K!Call(x)
  /\ ~Pushes(x) => Len(v6'[o]) = Len(v6[o])
  /\ v2' = [z \in K!Nodes |-> v2[z] - Is(x, z) + Is(y, z)]
  /\ v3' = v3 /\ v7' = v7

(* What the constants are                                                   *)
LEMMA Constants ==
         /\ Chain \in Nat /\ Chain >= 1 /\ K!Nodes \subseteq Int /\ K!Nil \notin K!Nodes
         /\ K!Nil = 0 /\ K!Grave = Chain + 1 /\ K!Grave \in K!Nodes /\ TheList \notin Iterators
         /\ \A x \in 1 .. Chain : x \in K!Nodes
  BY ProgramAssumptions DEF K!NodeChainAssumption, K!Nodes, K!Nil, K!Grave

(* Nil is no node,                                                          *)
LEMMA NilIsNoNode == K!Nil \notin K!Nodes
  BY DEF K!Nodes, K!Nil

(* a call of ~Node() that begins is a call,                                 *)
LEMMA CallTypes == \A x \in K!Nodes : K!Call(x) \in K!Calls
  BY DEF K!Call, K!Calls

(* and so are the calls an owner is in.                                     *)
LEMMA TopTypes ==
  ASSUME K!TypeOK, NEW o \in K!Owners
  PROVE  /\ v6[o] \in Seq(K!Calls) /\ Len(v6[o]) \in Nat /\ DOMAIN v6[o] = 1 .. Len(v6[o])
         /\ v6[o] # <<>> <=> Len(v6[o]) > 0
         /\ Len(v6[o]) > 0 => K!Top(o) \in K!Calls /\ K!Top(o) = v6[o][Len(v6[o])]
         /\ \A i \in 1 .. Len(v6[o]) : v6[o][i] \in K!Calls
  BY DEF K!TypeOK, K!Top

(* The innermost call goes on: the stack keeps its length and the others.   *)
LEMMA ThenGoes ==
  ASSUME NEW s \in Seq(K!Calls), NEW f \in K!Calls, s # <<>>
  PROVE  /\ [s EXCEPT ![Len(s)] = f] \in Seq(K!Calls) /\ Len([s EXCEPT ![Len(s)] = f]) = Len(s)
         /\ [s EXCEPT ![Len(s)] = f][Len(s)] = f
         /\ \A i \in 1 .. Len(s) - 1 : [s EXCEPT ![Len(s)] = f][i] = s[i]
<1>1. Len(s) \in Nat /\ Len(s) \in 1 .. Len(s)
  BY EmptySeq
<1>2. QED
  BY <1>1, ExceptSeq

(* A release turns the stack s, which is the one there was, but for its top.*)
LEMMA Releases ==
  ASSUME K!TypeOK, NEW o \in K!Owners, NEW x \in K!Nodes \cup {K!Nil}, NEW s \in Seq(K!Calls),
         NEW f,
         K!Release(o, x, s), v3' = v3, v7' = v7,
         Len(s) = Len(v6[o]), \A i \in 1 .. Len(s) - 1 : s[i] = v6[o][i],
         Len(s) > 0 => s[Len(s)] = f
  PROVE  Turns(o, f, x, K!Nil)
<1>1. v2' = [z \in K!Nodes |-> v2[z] - Is(x, z) + Is(K!Nil, z)]
  <2>1. v2 \in [K!Nodes -> Nat]
    BY DEF K!TypeOK
  <2>2. \A z \in K!Nodes : v2[z] \in Nat /\ Is(K!Nil, z) = 0
    BY <2>1, NilIsNoNode DEF Is
  <2>3. CASE x = K!Nil
    <3>1. \A z \in K!Nodes : v2[z] - Is(x, z) + Is(K!Nil, z) = v2[z]
      BY <2>2, <2>3
    <3>2. QED
      BY <2>1, <2>3, <3>1 DEF K!Release
  <2>4. CASE x # K!Nil
    <3>1. \A z \in K!Nodes : v2[z] - Is(x, z) + Is(K!Nil, z) = IF z = x THEN v2[z] - 1 ELSE v2[z]
      BY <2>2 DEF Is
    <3>2. QED
      BY <2>1, <2>4, <3>1 DEF K!Release
  <2>5. QED
    BY <2>3, <2>4
<1>2. v6 \in [K!Owners -> Seq(K!Calls)] /\ Len(s) \in Nat
  BY DEF K!TypeOK
<1>3. CASE Pushes(x)
  <2>1. v6' = [v6 EXCEPT ![o] = Append(s, K!Call(x))] /\ K!Call(x) \in K!Calls
    BY <1>3, CallTypes DEF K!Release, Pushes
  <2>2. /\ Append(s, K!Call(x)) \in Seq(K!Calls) /\ Len(Append(s, K!Call(x))) = Len(s) + 1
        /\ \A i \in 1 .. Len(s) : Append(s, K!Call(x))[i] = s[i]
        /\ Append(s, K!Call(x))[Len(s) + 1] = K!Call(x)
    BY <2>1
  <2>3. /\ v6' \in [K!Owners -> Seq(K!Calls)] /\ v6'[o] = Append(s, K!Call(x))
        /\ \A u \in K!Owners : u # o => v6'[u] = v6[u]
    BY <1>2, <2>1, <2>2
  <2>4. /\ Len(v6'[o]) = Len(v6[o]) + 1 /\ v6'[o][Len(v6[o]) + 1] = K!Call(x)
        /\ \A i \in 1 .. Len(v6[o]) - 1 : v6'[o][i] = v6[o][i]
        /\ Len(v6[o]) > 0 => v6'[o][Len(v6[o])] = f
    BY <1>2, <2>2, <2>3
  <2>5. QED
    BY <1>1, <1>3, <2>3, <2>4 DEF Turns
<1>4. CASE ~Pushes(x)
  <2>1. v6' = [v6 EXCEPT ![o] = s]
    BY <1>4 DEF K!Release, Pushes
  <2>2. v6' \in [K!Owners -> Seq(K!Calls)] /\ v6'[o] = s /\ \A u \in K!Owners : u # o => v6'[u] = v6[u]
    BY <1>2, <2>1
  <2>3. QED
    BY <1>1, <1>4, <2>2 DEF Turns
<1>5. QED
  BY <1>3, <1>4

(* A call goes on as f, with a reference to y that it has loaded.           *)
LEMMA Goes ==
  ASSUME K!TypeOK, NEW o \in K!Owners, NEW y \in K!Nodes \cup {K!Nil},
         NEW f \in K!Calls, v6[o] # <<>>,
         v6' = [v6 EXCEPT ![o] = K!Then(o, f)], v2' = K!Add(y, v2),
         v3' = v3, v7' = v7
  PROVE  Turns(o, f, K!Nil, y)
<1>1. v2' = [z \in K!Nodes |-> v2[z] - Is(K!Nil, z) + Is(y, z)]
  <2>1. v2 \in [K!Nodes -> Nat]
    BY DEF K!TypeOK
  <2>2. \A z \in K!Nodes : v2[z] \in Nat /\ Is(K!Nil, z) = 0
    BY <2>1, NilIsNoNode DEF Is
  <2>3. CASE y = K!Nil
    <3>1. \A z \in K!Nodes : v2[z] - Is(K!Nil, z) + Is(y, z) = v2[z]
      BY <2>2, <2>3
    <3>2. QED
      BY <2>1, <2>3, <3>1 DEF K!Add
  <2>4. CASE y # K!Nil
    <3>1. \A z \in K!Nodes : v2[z] - Is(K!Nil, z) + Is(y, z) = IF z = y THEN v2[z] + 1 ELSE v2[z]
      BY <2>2 DEF Is
    <3>2. QED
      BY <2>1, <2>4, <3>1 DEF K!Add
  <2>5. QED
    BY <2>3, <2>4
<1>2. v6 \in [K!Owners -> Seq(K!Calls)]
  BY DEF K!TypeOK
<1>3. /\ K!Then(o, f) \in Seq(K!Calls) /\ Len(K!Then(o, f)) = Len(v6[o])
      /\ K!Then(o, f)[Len(v6[o])] = f
      /\ \A i \in 1 .. Len(v6[o]) - 1 : K!Then(o, f)[i] = v6[o][i]
  BY <1>2, ThenGoes DEF K!Then
<1>4. QED
  BY <1>1, <1>2, <1>3 DEF Turns, Pushes

(* A call of the next state: one below, the one that goes on, or a new one  *)
LEMMA FrameCases ==
  ASSUME K!TypeOK, NEW o \in K!Owners, NEW f, NEW x, NEW y, Turns(o, f, x, y),
         NEW u \in K!Owners, NEW j \in 1 .. Len(v6'[u])
  PROVE  \/ /\ u # o \/ j < Len(v6[o])
            /\ j \in 1 .. Len(v6[u]) /\ v6'[u][j] = v6[u][j]
         \/ /\ u = o /\ j = Len(v6[o]) /\ j > 0 /\ v6'[u][j] = f
         \/ /\ u = o /\ j = Len(v6[o]) + 1 /\ Pushes(x) /\ v6'[u][j] = K!Call(x)
<1>1. Len(v6[o]) \in Nat /\ Len(v6'[u]) \in Nat
  BY TopTypes DEF Turns
<1>2. CASE u # o
  BY <1>2 DEF Turns
<1>3. CASE u = o /\ j < Len(v6[o])
  BY <1>1, <1>3 DEF Turns
<1>4. CASE u = o /\ j = Len(v6[o])
  BY <1>1, <1>4 DEF Turns
<1>5. CASE u = o /\ j > Len(v6[o])
  BY <1>1, <1>5 DEF Turns
<1>6. QED
  BY <1>1, <1>2, <1>3, <1>4, <1>5

(* What is referred to is counted.                                          *)
LEMMA HeldIsCounted ==
  ASSUME K!CountsInv, NEW x \in K!Nodes, NEW k, NEW a, NEW i, Val(k, a, i) = x
  PROVE  /\ v2[x] \in Nat /\ v2[x] >= 1
         /\ \A l, b, j : <<l, b, j>> # <<k, a, i>> /\ Val(l, b, j) = x => v2[x] >= 2
         /\ \A l, b, j, m, c, h :
              /\ <<l, b, j>> # <<k, a, i>> /\ <<m, c, h>> # <<k, a, i>> /\ <<l, b, j>> # <<m, c, h>>
              /\ Val(l, b, j) = x /\ Val(m, c, h) = x
              => v2[x] >= 3
<1> DEFINE X == K!References(x)
           p == <<k, a, i>>
<1>1. IsFiniteSet(X) /\ v2[x] = Cardinality(X) /\ Cardinality(X) \in Nat
  BY CountsAre, FS_CardinalityType
<1>2. p \in X /\ \A l, b, j : Val(l, b, j) = x => <<l, b, j>> \in X
  BY ReferencesAre
<1> HIDE DEF X, p
<1>3. IsFiniteSet(X \ {p}) /\ Cardinality(X \ {p}) = Cardinality(X) - 1 /\ Cardinality(X \ {p}) \in Nat
  BY <1>1, <1>2, FS_RemoveElement, FS_CardinalityType
<1>4. ASSUME NEW l, NEW b, NEW j, <<l, b, j>> # p, Val(l, b, j) = x
      PROVE  /\ v2[x] >= 2
             /\ \A m, c, h : /\ <<m, c, h>> # p /\ <<l, b, j>> # <<m, c, h>> /\ Val(m, c, h) = x
                             => v2[x] >= 3
  <2> DEFINE q == <<l, b, j>>
  <2>1. q \in X \ {p}
    BY <1>2, <1>4
  <2> HIDE DEF q
  <2>2. /\ IsFiniteSet((X \ {p}) \ {q}) /\ Cardinality((X \ {p}) \ {q}) = Cardinality(X \ {p}) - 1
        /\ Cardinality((X \ {p}) \ {q}) \in Nat
    BY <1>3, <2>1, FS_RemoveElement, FS_CardinalityType
  <2>3. v2[x] >= 2
    BY <1>1, <1>3, <2>2
  <2>4. ASSUME NEW m, NEW c, NEW h, <<m, c, h>> # p, q # <<m, c, h>>, Val(m, c, h) = x
        PROVE  v2[x] >= 3
    <3> DEFINE r == <<m, c, h>>
    <3>1. r \in (X \ {p}) \ {q}
      BY <1>2, <2>4
    <3> HIDE DEF r
    <3>2. /\ Cardinality(((X \ {p}) \ {q}) \ {r}) = Cardinality((X \ {p}) \ {q}) - 1
          /\ Cardinality(((X \ {p}) \ {q}) \ {r}) \in Nat
      BY <2>2, <3>1, FS_RemoveElement, FS_CardinalityType
    <3>3. QED
      BY <1>1, <1>3, <2>2, <3>2
  <2>5. QED
    BY <2>3, <2>4 DEF q
<1>5. v2[x] >= 1
  BY <1>1, <1>3
<1>6. QED
  BY <1>1, <1>4, <1>5 DEF p

(* Two places are written, and what is referred to less or more is x and y. *)
Trades(k, a, i, l, b, j, x, y) ==
  /\ <<k, a, i>> # <<l, b, j>>
  /\ \A m, c, h : <<m, c, h>> # <<k, a, i>> /\ <<m, c, h>> # <<l, b, j>> => Same(m, c, h)
  /\ \A z \in K!Nodes :
       Is(Val(k, a, i), z) + Is(Val(l, b, j), z) + Is(y, z)
         = Is(Val(k, a, i)', z) + Is(Val(l, b, j)', z) + Is(x, z)

(* A step that writes two places, and counts what it writes, keeps counts.  *)
LEMMA CountsAreKept ==
  ASSUME K!CountsInv, NEW o, NEW f, NEW x, NEW y, Turns(o, f, x, y),
         NEW k, NEW a, NEW i, NEW l, NEW b, NEW j, Trades(k, a, i, l, b, j, x, y)
  PROVE  K!CountsInv'
<1>0. /\ <<k, a, i>> # <<l, b, j>>
      /\ \A m, c, h : <<m, c, h>> # <<k, a, i>> /\ <<m, c, h>> # <<l, b, j>> => Same(m, c, h)
      /\ \A z \in K!Nodes :
           Is(Val(k, a, i), z) + Is(Val(l, b, j), z) + Is(y, z)
             = Is(Val(k, a, i)', z) + Is(Val(l, b, j)', z) + Is(x, z)
  BY DEF Trades
<1>1. ASSUME NEW z \in K!Nodes
      PROVE  IsFiniteSet(K!References(z)') /\ v2'[z] = Cardinality(K!References(z)')
  <2> DEFINE n == Cardinality(K!References(z)')
             r == Is(Val(k, a, i), z)
             s == Is(Val(l, b, j), z)
             t == Is(Val(k, a, i)', z)
             u == Is(Val(l, b, j)', z)
             v == Is(x, z)
             w == Is(y, z)
  <2>1. IsFiniteSet(K!References(z)') /\ n = v2[z] - r - s + t + u /\ v2[z] \in Nat /\ n \in Nat
    BY <1>0, Writes
  <2>2. v2'[z] = v2[z] - v + w
    BY DEF Turns
  <2>3. r \in Int /\ s \in Int /\ t \in Int /\ u \in Int /\ v \in Int /\ w \in Int
    BY DEF Is
  <2>4. r + s + w = t + u + v
    BY <1>0
  <2> HIDE DEF n, r, s, t, u, v, w
  <2>5. v2'[z] = n
    BY <2>1, <2>2, <2>3, <2>4
  <2>6. QED
    BY <2>1, <2>5 DEF n
<1>2. QED
  BY <1>1, CountsAre

(* A turn writes only the two locals of the call that is on top.            *)
LEMMA TurnsLocals ==
  ASSUME K!TypeOK, NEW o \in K!Owners, NEW f, NEW x, NEW y, Turns(o, f, x, y)
  PROVE  /\ \A u, j : u # o \/ j # Len(v6[o]) => Same("curr", u, j) /\ Same("next_curr", u, j)
         /\ \A n : n = Len(v6[o]) /\ n > 0 =>
              /\ Val("curr", o, n) = K!Top(o).curr /\ Val("next_curr", o, n) = K!Top(o).next_curr
              /\ Val("curr", o, n)' = f.curr /\ Val("next_curr", o, n)' = f.next_curr
         /\ Len(v6[o]) = 0 => /\ Same("curr", o, 0) /\ Same("next_curr", o, 0)
<1>1. \A u \in K!Owners : /\ Len(v6[u]) \in Nat /\ DOMAIN v6[u] = 1 .. Len(v6[u])
                          /\ Len(v6'[u]) \in Nat /\ DOMAIN v6'[u] = 1 .. Len(v6'[u])
                          /\ Len(v6'[u]) >= Len(v6[u])
                          /\ u # o => v6'[u] = v6[u]
  <2>1. \A u \in K!Owners : v6[u] \in Seq(K!Calls) /\ v6'[u] \in Seq(K!Calls)
    BY DEF K!TypeOK, Turns
  <2>2. QED
    BY <2>1 DEF Turns
<1>2. ASSUME NEW u, NEW j, u # o \/ j # Len(v6[o])
      PROVE  Same("curr", u, j) /\ Same("next_curr", u, j)
  <2>1. CASE u \notin K!Owners
    BY <2>1, Values, ValuesNext DEF Same
  <2>2. CASE u \in K!Owners /\ j \in DOMAIN v6'[u]
    <3>1. CASE j \in DOMAIN v6[u] /\ v6'[u][j] = v6[u][j]
      BY <2>2, <3>1, Values, ValuesNext DEF Same
    <3>2. CASE u = o /\ j = Len(v6[o]) + 1 /\ v6'[u][j] = K!Call(x)
      <4>1. v6'[u][j].curr = K!Nil /\ v6'[u][j].next_curr = K!Nil /\ j \notin DOMAIN v6[u]
        BY <1>1, <3>2 DEF K!Call
      <4>2. QED
        BY <2>2, <4>1, Values, ValuesNext DEF Same
    <3>3. QED
      BY <1>1, <1>2, <2>2, <3>1, <3>2, FrameCases
  <2>3. CASE u \in K!Owners /\ j \notin DOMAIN v6'[u]
    <3>1. j \notin DOMAIN v6[u]
      BY <1>1, <2>3
    <3>2. QED
      BY <2>3, <3>1, Values, ValuesNext DEF Same
  <2>4. QED
    BY <2>1, <2>2, <2>3
<1>3. ASSUME NEW n, n = Len(v6[o]), n > 0
      PROVE  /\ Val("curr", o, n) = K!Top(o).curr /\ Val("next_curr", o, n) = K!Top(o).next_curr
             /\ Val("curr", o, n)' = f.curr /\ Val("next_curr", o, n)' = f.next_curr
  <2>1. n \in DOMAIN v6[o] /\ n \in DOMAIN v6'[o]
    BY <1>1, <1>3
  <2>2. v6'[o][n] = f /\ v6[o][n] = K!Top(o)
    BY <1>3 DEF Turns, K!Top
  <2>3. QED
    BY <2>1, <2>2, Values, ValuesNext
<1>4. ASSUME Len(v6[o]) = 0
      PROVE  Same("curr", o, 0) /\ Same("next_curr", o, 0)
  <2>1. 0 \notin DOMAIN v6[o] /\ 0 \notin DOMAIN v6'[o]
    BY <1>1, <1>4
  <2>2. QED
    BY <2>1, Values, ValuesNext DEF Same
<1>5. QED
  BY <1>2, <1>3, <1>4

(* A call, field by field                                                   *)
Frame(n, l, c, d) == [node |-> n, pc |-> l, curr |-> c, next_curr |-> d]

Labels == {"load", "clear", "test", "ahead", "cut", "move", "drop", "free"}

(* is one,                                                                  *)
LEMMA FrameTypes ==
  ASSUME NEW n \in K!Nodes, NEW l \in Labels, NEW c \in K!Nodes \cup {K!Nil},
         NEW d \in K!Nodes \cup {K!Nil}
  PROVE  Frame(n, l, c, d) \in K!Calls
  BY DEF Frame, K!Calls, Labels

(* has these fields,                                                        *)
LEMMA Fields ==
  ASSUME NEW n, NEW l, NEW c, NEW d
  PROVE  /\ Frame(n, l, c, d).node = n /\ Frame(n, l, c, d).pc = l
         /\ Frame(n, l, c, d).curr = c /\ Frame(n, l, c, d).next_curr = d
  BY DEF Frame

(* as every call has,                                                       *)
LEMMA CallFields ==
  ASSUME NEW g \in K!Calls
  PROVE  /\ g.node \in K!Nodes /\ g.curr \in K!Nodes \cup {K!Nil}
         /\ g.next_curr \in K!Nodes \cup {K!Nil}
         /\ g.pc \in Labels
  BY DEF K!Calls, Labels

(* and no others.                                                           *)
LEMMA SameCall ==
  ASSUME NEW g \in K!Calls, NEW h \in K!Calls,
         h.node = g.node, h.pc = g.pc, h.curr = g.curr, h.next_curr = g.next_curr
  PROVE  g = h
  BY DEF K!Calls

(* A reference may be Nil.                                                  *)
LEMMA NilTypes == K!Nil \in K!Nodes \cup {K!Nil}
  OBVIOUS

(* What a call becomes that changes some of its fields                      *)
LEMMA FrameExcept ==
  ASSUME NEW g \in K!Calls, NEW l \in Labels, NEW c \in K!Nodes \cup {K!Nil}
  PROVE  /\ [g EXCEPT !.pc = l] = Frame(g.node, l, g.curr, g.next_curr)
         /\ [g EXCEPT !.curr = c, !.pc = l] = Frame(g.node, l, c, g.next_curr)
<1> DEFINE h == [g EXCEPT !.pc = l]
           k == [g EXCEPT !.curr = c, !.pc = l]
<1>1. /\ h \in K!Calls /\ k \in K!Calls
      /\ h.node = g.node /\ h.pc = l /\ h.curr = g.curr /\ h.next_curr = g.next_curr
      /\ k.node = g.node /\ k.pc = l /\ k.curr = c /\ k.next_curr = g.next_curr
  BY DEF K!Calls, Labels
<1>2. Frame(g.node, l, g.curr, g.next_curr) \in K!Calls /\ Frame(g.node, l, c, g.next_curr) \in K!Calls
  BY CallFields, FrameTypes
<1> HIDE DEF h, k
<1>3. h = Frame(g.node, l, g.curr, g.next_curr) /\ k = Frame(g.node, l, c, g.next_curr)
  BY <1>1, <1>2, Fields, SameCall
<1>4. QED
  BY <1>3 DEF h, k

(* (loading next_curr)                                                      *)
LEMMA NextExcept ==
  ASSUME NEW g \in K!Calls, NEW l \in Labels, NEW d \in K!Nodes \cup {K!Nil}
  PROVE  [g EXCEPT !.next_curr = d, !.pc = l] = Frame(g.node, l, g.curr, d)
<1> DEFINE h == [g EXCEPT !.next_curr = d, !.pc = l]
<1>1. /\ h \in K!Calls
      /\ h.node = g.node /\ h.pc = l /\ h.curr = g.curr /\ h.next_curr = d
  BY DEF K!Calls, Labels
<1>2. Frame(g.node, l, g.curr, d) \in K!Calls
  BY CallFields, FrameTypes
<1> HIDE DEF h
<1>3. h = Frame(g.node, l, g.curr, d)
  BY <1>1, <1>2, Fields, SameCall
<1>4. QED
  BY <1>3 DEF h

(* A release in a call, which goes on as f.                                 *)
LEMMA CallReleases ==
  ASSUME K!TypeOK, NEW o \in K!Owners, v6[o] # <<>>, NEW x \in K!Nodes \cup {K!Nil},
         NEW f \in K!Calls,
         K!Release(o, x, K!Then(o, f)), v3' = v3, v7' = v7
  PROVE  Turns(o, f, x, K!Nil)
<1>1. v6[o] \in Seq(K!Calls)
  BY DEF K!TypeOK
<1>2. /\ K!Then(o, f) \in Seq(K!Calls) /\ Len(K!Then(o, f)) = Len(v6[o])
      /\ K!Then(o, f)[Len(v6[o])] = f
      /\ \A i \in 1 .. Len(v6[o]) - 1 : K!Then(o, f)[i] = v6[o][i]
  BY <1>1, ThenGoes DEF K!Then
<1>3. QED
  BY <1>2, Releases

(* What an owner's steps outside of ~Node() do,                             *)
LEMMA FirstCall ==
  ASSUME K!TypeOK, NEW o \in K!Owners, v6[o] = <<>>, NEW x \in K!Nodes \cup {K!Nil},
         K!Release(o, x, <<>>), v3' = v3, v7' = v7
  PROVE  Turns(o, K!Nil, x, K!Nil) /\ Len(v6[o]) = 0
<1> DEFINE s == v6[o]
<1>1. s \in Seq(K!Calls) /\ Len(s) = 0 /\ Len(s) - 1 = -1 /\ \A i \in 1 .. Len(s) - 1 : FALSE
  BY DEF K!TypeOK
<1>2. K!Release(o, x, s) /\ Len(s) = Len(v6[o])
  OBVIOUS
<1>3. /\ \A i \in 1 .. Len(s) - 1 : s[i] = v6[o][i]
      /\ Len(s) > 0 => s[Len(s)] = K!Nil
  OBVIOUS
<1> HIDE DEF s
<1>4. Turns(o, K!Nil, x, K!Nil)
  BY <1>1, <1>2, <1>3, Releases
<1>5. QED
  BY <1>1, <1>4 DEF s

(* an iterator or the list that is dropped,                                 *)
LEMMA DropTurns ==
  ASSUME K!TypeOK, NEW o \in K!Owners, K!Drop(o)
  PROVE  Turns(o, K!Nil, v4[o], K!Nil) /\ Len(v6[o]) = 0
<1>1. v4[o] \in K!Nodes \cup {K!Nil}
  BY DEF K!TypeOK
<1>2. v6[o] = <<>> /\ K!Release(o, v4[o], <<>>) /\ v3' = v3 /\ v7' = v7
  BY DEF K!Drop
<1>3. QED
  BY <1>1, <1>2, FirstCall

(* an iterator that goes on,                                                *)
LEMMA AdvanceTurns ==
  ASSUME K!TypeOK, NEW o \in K!Owners, K!Advance(o)
  PROVE  Turns(o, K!Nil, v4[o], K!Nil) /\ Len(v6[o]) = 0
<1>1. v4[o] \in K!Nodes \cup {K!Nil}
  BY DEF K!TypeOK
<1>2. v6[o] = <<>> /\ K!Release(o, v4[o], <<>>) /\ v3' = v3 /\ v7' = v7
  BY DEF K!Advance
<1>3. QED
  BY <1>1, <1>2, FirstCall

(* and one that loads its next node.                                        *)
LEMMA LoadAheadTurns ==
  ASSUME K!TypeOK, NEW o \in K!Owners, K!LoadAhead(o)
  PROVE  Turns(o, K!Nil, K!Nil, v1[v4[o]]) /\ Len(v6[o]) = 0
<1>1. /\ v6[o] = <<>> /\ v6 \in [K!Owners -> Seq(K!Calls)] /\ v2 \in [K!Nodes -> Nat]
      /\ v4[o] \in K!Nodes /\ v1[v4[o]] \in K!Nodes /\ v1[v4[o]] # K!Nil
  BY DEF K!LoadAhead, K!TypeOK
<1>2. v2' = [v2 EXCEPT ![v1[v4[o]]] = @ + 1] /\ v3' = v3 /\ v7' = v7 /\ v6' = v6
  BY <1>1 DEF K!LoadAhead, K!Add, K!history
<1>3. v2' = [z \in K!Nodes |-> v2[z] - Is(K!Nil, z) + Is(v1[v4[o]], z)]
  <2>1. \A z \in K!Nodes : v2[z] \in Nat /\ Is(K!Nil, z) = 0
    BY <1>1, NilIsNoNode DEF Is
  <2>2. \A z \in K!Nodes : v2[z] - Is(K!Nil, z) + Is(v1[v4[o]], z)
                           = IF z = v1[v4[o]] THEN v2[z] + 1 ELSE v2[z]
    BY <2>1 DEF Is
  <2>3. QED
    BY <1>1, <1>2, <2>2
<1>4. Len(v6[o]) = 0
  BY <1>1
<1>5. v6' = v6 /\ v6' \in [K!Owners -> Seq(K!Calls)] /\ ~Pushes(K!Nil)
  BY <1>1, <1>2 DEF Pushes
<1>6. /\ \A u \in K!Owners : u # o => v6'[u] = v6[u]
      /\ \A i \in 1 .. Len(v6[o]) - 1 : v6'[o][i] = v6[o][i]
      /\ ~(Len(v6[o]) > 0) /\ Len(v6'[o]) = Len(v6[o])
  BY <1>4, <1>5
<1>7. QED
  BY <1>2, <1>3, <1>4, <1>5, <1>6 DEF Turns

(* What the steps of ~Node() do: curr = next.load(),                        *)
LEMMA LoadTurns ==
  ASSUME K!TypeOK, NEW o \in K!Owners, K!Load(o)
  PROVE  LET t == K!Top(o) IN
         Turns(o, Frame(t.node, "clear", v1[t.node], t.next_curr), K!Nil, v1[t.node])
<1> DEFINE f == Frame(K!Top(o).node, "clear", v1[K!Top(o).node], K!Top(o).next_curr)
<1>1. v6[o] # <<>> /\ K!Top(o) \in K!Calls
  BY TopTypes DEF K!Load, K!At
<1>2. /\ K!Top(o).node \in K!Nodes /\ K!Top(o).curr \in K!Nodes \cup {K!Nil}
      /\ K!Top(o).next_curr \in K!Nodes \cup {K!Nil}
      /\ v1[K!Top(o).node] \in K!Nodes \cup {K!Nil} /\ "clear" \in Labels
  BY <1>1, CallFields DEF K!TypeOK, Labels
<1>3. f \in K!Calls
  BY <1>2, FrameTypes, NilTypes
<1>4. f = [K!Top(o) EXCEPT !.curr = v1[K!Top(o).node], !.pc = "clear"]
  BY <1>1, <1>2, FrameExcept, NilTypes
<1>5. /\ v6' = [v6 EXCEPT ![o] = K!Then(o, f)] /\ v2' = K!Add(v1[K!Top(o).node], v2)
      /\ v3' = v3 /\ v7' = v7
  BY <1>4 DEF K!Load, K!history
<1>6. QED
  BY <1>1, <1>2, <1>3, <1>5, Goes

(* next.store(nullptr),                                                     *)
LEMMA ClearTurns ==
  ASSUME K!TypeOK, NEW o \in K!Owners, K!Clear(o)
  PROVE  LET t == K!Top(o) IN
         Turns(o, Frame(t.node, "test", t.curr, t.next_curr), v1[t.node], K!Nil)
<1> DEFINE f == Frame(K!Top(o).node, "test", K!Top(o).curr, K!Top(o).next_curr)
<1>1. v6[o] # <<>> /\ K!Top(o) \in K!Calls
  BY TopTypes DEF K!Clear, K!At
<1>2. /\ K!Top(o).node \in K!Nodes /\ K!Top(o).curr \in K!Nodes \cup {K!Nil}
      /\ K!Top(o).next_curr \in K!Nodes \cup {K!Nil}
      /\ v1[K!Top(o).node] \in K!Nodes \cup {K!Nil} /\ "test" \in Labels
  BY <1>1, CallFields DEF K!TypeOK, Labels
<1>3. f \in K!Calls
  BY <1>2, FrameTypes, NilTypes
<1>4. f = [K!Top(o) EXCEPT !.pc = "test"]
  BY <1>1, <1>2, FrameExcept, NilTypes
<1>5. K!Release(o, v1[K!Top(o).node], K!Then(o, f)) /\ v3' = v3 /\ v7' = v7
  BY <1>4 DEF K!Clear, K!history
<1>6. QED
  BY <1>1, <1>2, <1>3, <1>5, CallReleases

(* the loop's test,                                                         *)
LEMMA TestTurns ==
  ASSUME K!TypeOK, NEW o \in K!Owners, K!Test(o)
  PROVE  LET t == K!Top(o) IN
         \E l \in {"ahead", "drop"} :
           /\ l = "ahead" => t.curr # K!Nil /\ v2[t.curr] = 1
           /\ l = "drop" => t.curr = K!Nil \/ v2[t.curr] # 1
           /\ Turns(o, Frame(t.node, l, t.curr, t.next_curr), K!Nil, K!Nil)
<1>1. v6[o] # <<>> /\ K!Top(o) \in K!Calls
  BY TopTypes DEF K!Test, K!At
<1>2. PICK l \in {"ahead", "drop"} :
        /\ l = "ahead" => K!Top(o).curr # K!Nil /\ v2[K!Top(o).curr] = 1
        /\ l = "drop" => K!Top(o).curr = K!Nil \/ v2[K!Top(o).curr] # 1
        /\ v6' = [v6 EXCEPT ![o] = K!Then(o, [K!Top(o) EXCEPT !.pc = l])]
  BY DEF K!Test
<1> DEFINE f == Frame(K!Top(o).node, l, K!Top(o).curr, K!Top(o).next_curr)
<1>3. l \in Labels
  BY DEF Labels
<1>4. f \in K!Calls /\ f = [K!Top(o) EXCEPT !.pc = l]
  BY <1>1, <1>3, FrameTypes, FrameExcept, CallFields
<1>5. v6' = [v6 EXCEPT ![o] = K!Then(o, f)] /\ v2' = K!Add(K!Nil, v2) /\ v3' = v3 /\ v7' = v7
  BY <1>2, <1>4 DEF K!Test, K!Add, K!history
<1>6. Turns(o, f, K!Nil, K!Nil)
  BY <1>1, <1>4, <1>5, NilTypes, Goes
<1>7. QED
  BY <1>2, <1>6

(* next_curr = curr->next.load(),                                           *)
LEMMA LoadNextTurns ==
  ASSUME K!TypeOK, NEW o \in K!Owners, K!LoadNext(o), K!Top(o).curr # K!Nil
  PROVE  LET t == K!Top(o) IN
         Turns(o, Frame(t.node, "cut", t.curr, v1[t.curr]), K!Nil, v1[t.curr])
<1> DEFINE f == Frame(K!Top(o).node, "cut", K!Top(o).curr, v1[K!Top(o).curr])
<1>1. v6[o] # <<>> /\ K!Top(o) \in K!Calls
  BY TopTypes DEF K!LoadNext, K!At
<1>2. /\ K!Top(o).node \in K!Nodes /\ K!Top(o).curr \in K!Nodes \cup {K!Nil}
      /\ K!Top(o).next_curr \in K!Nodes \cup {K!Nil}
      /\ v1[K!Top(o).curr] \in K!Nodes \cup {K!Nil} /\ "cut" \in Labels
  BY <1>1, CallFields DEF K!TypeOK, Labels
<1>3. f \in K!Calls
  BY <1>2, FrameTypes, NilTypes
<1>4. f = [K!Top(o) EXCEPT !.next_curr = v1[K!Top(o).curr], !.pc = "cut"]
  BY <1>1, <1>2, NextExcept
<1>5. /\ v6' = [v6 EXCEPT ![o] = K!Then(o, f)] /\ v2' = K!Add(v1[K!Top(o).curr], v2)
      /\ v3' = v3 /\ v7' = v7
  BY <1>4 DEF K!LoadNext, K!history
<1>6. QED
  BY <1>1, <1>2, <1>3, <1>5, Goes

(* curr->next.store(nullptr),                                               *)
LEMMA CutTurns ==
  ASSUME K!TypeOK, NEW o \in K!Owners, K!Cut(o), K!Top(o).curr # K!Nil
  PROVE  LET t == K!Top(o) IN
         Turns(o, Frame(t.node, "move", t.curr, t.next_curr), v1[t.curr], K!Nil)
<1> DEFINE f == Frame(K!Top(o).node, "move", K!Top(o).curr, K!Top(o).next_curr)
<1>1. v6[o] # <<>> /\ K!Top(o) \in K!Calls
  BY TopTypes DEF K!Cut, K!At
<1>2. /\ K!Top(o).node \in K!Nodes /\ K!Top(o).curr \in K!Nodes \cup {K!Nil}
      /\ K!Top(o).next_curr \in K!Nodes \cup {K!Nil}
      /\ v1[K!Top(o).curr] \in K!Nodes \cup {K!Nil} /\ "move" \in Labels
  BY <1>1, CallFields DEF K!TypeOK, Labels
<1>3. f \in K!Calls
  BY <1>2, FrameTypes, NilTypes
<1>4. f = [K!Top(o) EXCEPT !.pc = "move"]
  BY <1>1, <1>2, FrameExcept, NilTypes
<1>5. K!Release(o, v1[K!Top(o).curr], K!Then(o, f)) /\ v3' = v3 /\ v7' = v7
  BY <1>4 DEF K!Cut, K!history
<1>6. QED
  BY <1>1, <1>2, <1>3, <1>5, CallReleases

(* curr = std::move(next_curr),                                             *)
LEMMA MoveTurns ==
  ASSUME K!TypeOK, NEW o \in K!Owners, K!Move(o)
  PROVE  LET t == K!Top(o) IN
         Turns(o, Frame(t.node, "test", t.next_curr, K!Nil), t.curr, K!Nil)
<1> DEFINE f == Frame(K!Top(o).node, "test", K!Top(o).next_curr, K!Nil)
<1>1. v6[o] # <<>> /\ K!Top(o) \in K!Calls
  BY TopTypes DEF K!Move, K!At
<1>2. /\ K!Top(o).node \in K!Nodes /\ K!Top(o).curr \in K!Nodes \cup {K!Nil}
      /\ K!Top(o).next_curr \in K!Nodes \cup {K!Nil}
      /\ K!Top(o).curr \in K!Nodes \cup {K!Nil} /\ "test" \in Labels
  BY <1>1, CallFields DEF K!TypeOK, Labels
<1>3. f \in K!Calls
  BY <1>2, FrameTypes, NilTypes
<1> DEFINE h == [K!Top(o) EXCEPT !.curr = K!Top(o).next_curr, !.next_curr = K!Nil, !.pc = "test"]
<1>4. f = h
  <2>1. /\ h \in K!Calls
        /\ h.node = K!Top(o).node /\ h.pc = "test" /\ h.curr = K!Top(o).next_curr
        /\ h.next_curr = K!Nil
    BY <1>1, <1>2 DEF K!Calls, Labels
  <2> HIDE DEF h, f
  <2>2. f.node = K!Top(o).node /\ f.pc = "test" /\ f.curr = K!Top(o).next_curr /\ f.next_curr = K!Nil
    BY Fields DEF f
  <2>3. QED
    BY <1>3, <2>1, <2>2, SameCall
<1>5. K!Release(o, K!Top(o).curr, K!Then(o, f)) /\ v3' = v3 /\ v7' = v7
  BY <1>4 DEF K!Move, K!history
<1>6. QED
  BY <1>1, <1>2, <1>3, <1>5, CallReleases

(* and the end of curr.                                                     *)
LEMMA DropCurrTurns ==
  ASSUME K!TypeOK, NEW o \in K!Owners, K!DropCurr(o)
  PROVE  LET t == K!Top(o) IN
         Turns(o, Frame(t.node, "free", K!Nil, t.next_curr), t.curr, K!Nil)
<1> DEFINE f == Frame(K!Top(o).node, "free", K!Nil, K!Top(o).next_curr)
<1>1. v6[o] # <<>> /\ K!Top(o) \in K!Calls
  BY TopTypes DEF K!DropCurr, K!At
<1>2. /\ K!Top(o).node \in K!Nodes /\ K!Top(o).curr \in K!Nodes \cup {K!Nil}
      /\ K!Top(o).next_curr \in K!Nodes \cup {K!Nil}
      /\ K!Top(o).curr \in K!Nodes \cup {K!Nil} /\ "free" \in Labels
  BY <1>1, CallFields DEF K!TypeOK, Labels
<1>3. f \in K!Calls
  BY <1>2, FrameTypes, NilTypes
<1>4. f = [K!Top(o) EXCEPT !.curr = K!Nil, !.pc = "free"]
  BY <1>1, <1>2, FrameExcept, NilTypes
<1>5. K!Release(o, K!Top(o).curr, K!Then(o, f)) /\ v3' = v3 /\ v7' = v7
  BY <1>4 DEF K!DropCurr, K!history
<1>6. QED
  BY <1>1, <1>2, <1>3, <1>5, CallReleases


(* The innermost call knows what a call knows.                              *)
LEMMA TopKnows ==
  ASSUME K!TypeOK, K!CallsInv, NEW o \in K!Owners, Len(v6[o]) > 0
  PROVE  K!Knows(K!Top(o)) /\ Len(v6[o]) \in Nat /\ Len(v6[o]) \in DOMAIN v6[o]
<1>1. Len(v6[o]) \in DOMAIN v6[o] /\ K!Top(o) = v6[o][Len(v6[o])] /\ Len(v6[o]) \in Nat
  BY TopTypes
<1>2. QED
  BY <1>1 DEF K!CallsInv

(* Places that are neither locals nor what an owner or a node refers to     *)
(* refer to nothing.                                                        *)
LEMMA OtherPlaces ==
  ASSUME NEW m, NEW c, NEW h,
         m \in {"next", "hold", "ahead"} /\ h = 0 => Same(m, c, h),
         m \in {"curr", "next_curr"} => Same(m, c, h)
  PROVE  Same(m, c, h)
  BY Values, ValuesNext DEF Same

(* An owner's step outside of ~Node()                                       *)
LEMMA OutsideCounts ==
  ASSUME K!TypeOK, K!CountsInv, NEW o \in K!Owners, NEW x,
         NEW y, Turns(o, K!Nil, x, y), Len(v6[o]) = 0,
         v1' = v1, \A u \in K!Owners : u # o => v4'[u] = v4[u] /\ v5'[u] = v5[u],
         \A z \in K!Nodes : Is(v4[o], z) + Is(v5[o], z) + Is(y, z)
                            = Is(v4'[o], z) + Is(v5'[o], z) + Is(x, z)
  PROVE  K!CountsInv'
<1>1. ASSUME NEW m, NEW c, NEW h, <<m, c, h>> # <<"hold", o, 0>>, <<m, c, h>> # <<"ahead", o, 0>>
      PROVE  Same(m, c, h)
  <2>1. ASSUME m \in {"next", "hold", "ahead"}, h = 0
        PROVE  Same(m, c, h)
    <3>1. CASE m = "next"
      BY <2>1, <3>1, Values, ValuesNext DEF Same, Turns
    <3>2. CASE m = "hold"
      BY <1>1, <2>1, <3>2, Values, ValuesNext DEF Same
    <3>3. CASE m = "ahead"
      BY <1>1, <2>1, <3>3, Values, ValuesNext DEF Same
    <3>4. QED
      BY <2>1, <3>1, <3>2, <3>3
  <2>2. ASSUME m \in {"curr", "next_curr"}
        PROVE  Same(m, c, h)
    BY <2>2, TurnsLocals
  <2>3. QED
    BY <2>1, <2>2, OtherPlaces
<1>2. /\ Val("hold", o, 0) = v4[o] /\ Val("ahead", o, 0) = v5[o]
      /\ Val("hold", o, 0)' = v4'[o] /\ Val("ahead", o, 0)' = v5'[o]
  BY Values, ValuesNext
<1>3. <<"hold", o, 0>> # <<"ahead", o, 0>>
  OBVIOUS
<1>4. \A z \in K!Nodes :
        Is(Val("hold", o, 0), z) + Is(Val("ahead", o, 0), z) + Is(y, z)
          = Is(Val("hold", o, 0)', z) + Is(Val("ahead", o, 0)', z) + Is(x, z)
  BY <1>2
<1>5. Trades("hold", o, 0, "ahead", o, 0, x, y)
  BY <1>1, <1>3, <1>4 DEF Trades
<1>6. QED
  BY <1>5, CountsAreKept

(* A step of a call that leaves the chain alone                             *)
LEMMA LocalCounts ==
  ASSUME K!TypeOK, K!CountsInv, NEW o \in K!Owners, NEW f, NEW x, NEW y, Turns(o, f, x, y),
         Len(v6[o]) > 0, v1' = v1, v4' = v4, v5' = v5,
         \A z \in K!Nodes : Is(K!Top(o).curr, z) + Is(K!Top(o).next_curr, z) + Is(y, z)
                            = Is(f.curr, z) + Is(f.next_curr, z) + Is(x, z)
  PROVE  K!CountsInv'
<1>0. PICK n : n = Len(v6[o])
  OBVIOUS
<1>1. ASSUME NEW m, NEW c, NEW h, <<m, c, h>> # <<"curr", o, n>>, <<m, c, h>> # <<"next_curr", o, n>>
      PROVE  Same(m, c, h)
  <2>1. ASSUME m \in {"next", "hold", "ahead"}, h = 0
        PROVE  Same(m, c, h)
    <3>1. CASE m = "next"
      BY <2>1, <3>1, Values, ValuesNext DEF Same, Turns
    <3>2. CASE m = "hold"
      BY <2>1, <3>2, Values, ValuesNext DEF Same
    <3>3. CASE m = "ahead"
      BY <2>1, <3>3, Values, ValuesNext DEF Same
    <3>4. QED
      BY <2>1, <3>1, <3>2, <3>3
  <2>2. ASSUME m \in {"curr", "next_curr"}
        PROVE  Same(m, c, h)
    BY <1>0, <1>1, <2>2, TurnsLocals
  <2>3. QED
    BY <2>1, <2>2, OtherPlaces
<1>2. /\ Val("curr", o, n) = K!Top(o).curr /\ Val("next_curr", o, n) = K!Top(o).next_curr
      /\ Val("curr", o, n)' = f.curr /\ Val("next_curr", o, n)' = f.next_curr
  BY <1>0, TurnsLocals
<1>3. <<"curr", o, n>> # <<"next_curr", o, n>>
  OBVIOUS
<1>4. \A z \in K!Nodes :
        Is(Val("curr", o, n), z) + Is(Val("next_curr", o, n), z) + Is(y, z)
          = Is(Val("curr", o, n)', z) + Is(Val("next_curr", o, n)', z) + Is(x, z)
  BY <1>2
<1>5. Trades("curr", o, n, "next_curr", o, n, x, y)
  BY <1>1, <1>3, <1>4 DEF Trades
<1>6. QED
  BY <1>5, CountsAreKept

(* and one that cuts the `next` of node c                                   *)
LEMMA CutCounts ==
  ASSUME K!TypeOK, K!CountsInv, NEW o \in K!Owners, NEW f, NEW a \in v3, Turns(o, f, v1[a], K!Nil),
         Len(v6[o]) > 0, f.curr = K!Top(o).curr, f.next_curr = K!Top(o).next_curr,
         v1' = [v1 EXCEPT ![a] = K!Nil], v4' = v4, v5' = v5
  PROVE  K!CountsInv'
<1>0. PICK n : n = Len(v6[o])
  OBVIOUS
<1>1. /\ Val("curr", o, n) = K!Top(o).curr /\ Val("next_curr", o, n) = K!Top(o).next_curr
      /\ Val("curr", o, n)' = f.curr /\ Val("next_curr", o, n)' = f.next_curr
  BY <1>0, TurnsLocals
<1>2. v1 \in [K!Nodes -> K!Nodes \cup {K!Nil}] /\ v3' = v3 /\ a \in K!Nodes
  BY DEF K!TypeOK, Turns
<1>3. ASSUME NEW m, NEW c, NEW h, <<m, c, h>> # <<"next", a, 0>>
      PROVE  Same(m, c, h)
  <2>1. ASSUME m = "next", h = 0
        PROVE  Same(m, c, h)
    <3>1. c # a
      BY <1>3, <2>1
    <3>2. c \in v3 => v1'[c] = v1[c]
      BY <3>1, <1>2 DEF K!TypeOK
    <3>3. QED
      BY <1>2, <2>1, <3>2, Values, ValuesNext DEF Same
  <2>2. ASSUME m \in {"hold", "ahead"}, h = 0
        PROVE  Same(m, c, h)
    BY <2>2, Values, ValuesNext DEF Same
  <2>3. ASSUME m \in {"curr", "next_curr"}
        PROVE  Same(m, c, h)
    <3>1. CASE c = o /\ h = n
      BY <1>1, <2>3, <3>1 DEF Same
    <3>2. CASE ~(c = o /\ h = n)
      BY <1>0, <2>3, <3>2, TurnsLocals
    <3>3. QED
      BY <3>1, <3>2
  <2>4. QED
    BY <2>1, <2>2, <2>3, OtherPlaces
<1>4. Val("next", a, 0) = v1[a] /\ Val("next", a, 0)' = K!Nil
  BY <1>2, Values, ValuesNext
<1>5. <<"next", a, 0>> # <<"curr", o, n>>
  OBVIOUS
<1>6. \A z \in K!Nodes :
        Is(Val("next", a, 0), z) + Is(Val("curr", o, n), z) + Is(K!Nil, z)
          = Is(Val("next", a, 0)', z) + Is(Val("curr", o, n)', z) + Is(v1[a], z)
  BY <1>1, <1>4, NilIsNoNode DEF Is
<1>7. \A m, c, h : <<m, c, h>> # <<"next", a, 0>> /\ <<m, c, h>> # <<"curr", o, n>> => Same(m, c, h)
  BY <1>3
<1>8. Trades("next", a, 0, "curr", o, n, v1[a], K!Nil)
  BY <1>5, <1>6, <1>7 DEF Trades
<1>9. QED
  BY <1>8, CountsAreKept

(* A node that two places refer to is not given up by one of them.          *)
LEMMA TwoHolders ==
  ASSUME K!CountsInv, NEW x \in K!Nodes, NEW k, NEW a, NEW i, NEW l, NEW b, NEW j,
         Val(k, a, i) = x, Val(l, b, j) = x, <<k, a, i>> # <<l, b, j>>
  PROVE  v2[x] \in Nat /\ v2[x] >= 2 /\ ~Pushes(x)
  BY HeldIsCounted DEF Pushes

(* A turn keeps the types, if what it writes to nodes and owners has them.  *)
LEMMA TypesAreKept ==
  ASSUME K!TypeOK, K!CountsInv', NEW o, NEW f, NEW x, NEW y, Turns(o, f, x, y),
         v1' \in [K!Nodes -> K!Nodes \cup {K!Nil}], v4' \in [K!Owners -> K!Nodes \cup {K!Nil}],
         v5' \in [K!Owners -> K!Nodes \cup {K!Nil}], v8' \in Nat
  PROVE  K!TypeOK'
<1>1. \A z \in K!Nodes : v2'[z] \in Nat
  BY CountsAre, FS_CardinalityType
<1>2. v2' \in [K!Nodes -> Nat]
  BY <1>1 DEF Turns
<1>3. QED
  BY <1>2 DEF K!TypeOK, Turns

(* What all steps but Free have in common: what o gives up it held, or a    *)
(* node referred to; what it gets, a node referred to;                      *)
Gave(o, x) ==
  x # K!Nil => \E k, a, i : /\ k \in {"next", "hold"} \/ (k = "curr" /\ a = o /\ i = Len(v6[o]))
                            /\ Val(k, a, i) = x

Got(y) == y # K!Nil => \E z : Val("next", z, 0) = y

(* a `next` is cut by the call that deletes its node, or is about to;       *)
Cuts(o, f) ==
  \A z \in K!Nodes : v1'[z] # v1[z] =>
    /\ v1'[z] = K!Nil /\ Len(v6[o]) > 0
    /\ z = K!Top(o).node \/ (K!Top(o).pc = "cut" /\ z = K!Top(o).curr /\ f.pc = "move" /\ f.curr = z)

(* and the call that goes on as f still knows what it has to.               *)
GoesOn(o, f, x) ==
  Len(v6[o]) > 0 =>
    /\ f \in K!Calls /\ f.node = K!Top(o).node /\ K!Knows(f)'
    /\ K!Top(o).curr = K!Nil /\ v1[K!Top(o).node] = K!Nil => f.curr = K!Nil
    /\ Pushes(x) => K!Top(o).curr = x /\ (f.pc = "free" \/ (f.pc = "test" /\ v1'[x] = K!Nil))
    /\ K!Top(o).pc = "move" => Pushes(x)

(* All of it                                                                *)
Steps(o, f, x, y) ==
  /\ Turns(o, f, x, y) /\ x \in K!Nodes \cup {K!Nil} /\ y \in K!Nodes \cup {K!Nil}
  /\ x = K!Nil \/ y = K!Nil
  /\ Gave(o, x) /\ Got(y) /\ Cuts(o, f) /\ GoesOn(o, f, x)
  /\ K!CountsInv' /\ K!TypeOK' /\ v8' >= v8
  /\ v4'[TheList] \in {1, K!Nil} /\ v5'[TheList] = K!Nil

(* What holds before each step                                              *)
Known == K!TypeOK /\ K!CountsInv /\ K!DeadInv /\ K!LinksInv /\ K!CallsInv

(* The list is an owner.                                                    *)
LEMMA TheListOwns == TheList \in K!Owners
  BY DEF K!Owners

(* An iterator or the list that is dropped takes such a step,               *)
LEMMA DropSteps ==
  ASSUME Known, NEW o \in K!Owners, K!Drop(o)
  PROVE  Steps(o, K!Nil, v4[o], K!Nil) /\ Len(v6[o]) = 0
<1> USE DEF Known
<1>1. Turns(o, K!Nil, v4[o], K!Nil) /\ Len(v6[o]) = 0
  BY DropTurns
<1>2. /\ v4' = [v4 EXCEPT ![o] = K!Nil] /\ v5[o] = K!Nil /\ v5' = v5 /\ v1' = v1 /\ K!Gives(o)
      /\ v4 \in [K!Owners -> K!Nodes \cup {K!Nil}] /\ v4[o] \in K!Nodes \cup {K!Nil}
      /\ v5 \in [K!Owners -> K!Nodes \cup {K!Nil}] /\ v1 \in [K!Nodes -> K!Nodes \cup {K!Nil}]
      /\ v8 \in Nat
  BY DEF K!Drop, K!TypeOK
<1>3. K!CountsInv'
  <2>1. \A u \in K!Owners : u # o => v4'[u] = v4[u] /\ v5'[u] = v5[u]
    BY <1>2
  <2>2. \A z \in K!Nodes : Is(v4[o], z) + Is(v5[o], z) + Is(K!Nil, z)
                           = Is(v4'[o], z) + Is(v5'[o], z) + Is(v4[o], z)
    BY <1>2, NilIsNoNode DEF Is
  <2>3. QED
    BY <1>1, <1>2, <2>1, <2>2, OutsideCounts
<1>4. v8' \in Nat /\ v8' >= v8
  BY <1>2 DEF K!Gives
<1>5. K!TypeOK'
  <2>1. v4' \in [K!Owners -> K!Nodes \cup {K!Nil}]
    BY <1>2
  <2>2. QED
    BY <1>1, <1>2, <1>3, <1>4, <2>1, TypesAreKept
<1>6. v4'[TheList] \in {1, K!Nil} /\ v5'[TheList] = K!Nil
  BY <1>2, TheListOwns DEF K!LinksInv
<1>7. Gave(o, v4[o])
  <2>1. Val("hold", o, 0) = v4[o]
    BY Values
  <2>2. QED
    BY <2>1 DEF Gave
<1>8. Got(K!Nil) /\ Cuts(o, K!Nil) /\ GoesOn(o, K!Nil, v4[o])
  BY <1>1, <1>2 DEF Got, Cuts, GoesOn
<1>9. QED
  BY <1>1, <1>2, <1>3, <1>4, <1>5, <1>6, <1>7, <1>8 DEF Steps

(* an iterator that goes on,                                                *)
LEMMA AdvanceSteps ==
  ASSUME Known, NEW o \in K!Owners, K!Advance(o)
  PROVE  Steps(o, K!Nil, v4[o], K!Nil) /\ Len(v6[o]) = 0 /\ o \in Iterators
<1> USE DEF Known
<1>1. Turns(o, K!Nil, v4[o], K!Nil) /\ Len(v6[o]) = 0
  BY AdvanceTurns
<1>2. /\ v4' = [v4 EXCEPT ![o] = v5[o]] /\ v5[o] # K!Nil /\ v5' = [v5 EXCEPT ![o] = K!Nil]
      /\ v1' = v1 /\ K!Gives(o)
      /\ v4 \in [K!Owners -> K!Nodes \cup {K!Nil}] /\ v4[o] \in K!Nodes \cup {K!Nil}
      /\ v5 \in [K!Owners -> K!Nodes \cup {K!Nil}] /\ v5[o] \in K!Nodes \cup {K!Nil}
      /\ v1 \in [K!Nodes -> K!Nodes \cup {K!Nil}] /\ v8 \in Nat
  BY DEF K!Advance, K!TypeOK
<1>3. K!CountsInv'
  <2>1. \A u \in K!Owners : u # o => v4'[u] = v4[u] /\ v5'[u] = v5[u]
    BY <1>2
  <2>2. v4'[o] = v5[o] /\ v5'[o] = K!Nil
    BY <1>2
  <2>3. \A z \in K!Nodes : Is(v4[o], z) + Is(v5[o], z) + Is(K!Nil, z)
                           = Is(v4'[o], z) + Is(v5'[o], z) + Is(v4[o], z)
    BY <2>2, NilIsNoNode DEF Is
  <2>4. QED
    BY <1>1, <1>2, <2>1, <2>3, OutsideCounts
<1>4. v8' \in Nat /\ v8' >= v8
  BY <1>2 DEF K!Gives
<1>5. K!TypeOK'
  <2>1. v4' \in [K!Owners -> K!Nodes \cup {K!Nil}] /\ v5' \in [K!Owners -> K!Nodes \cup {K!Nil}]
    BY <1>2
  <2>2. QED
    BY <1>1, <1>2, <1>3, <1>4, <2>1, TypesAreKept
<1>6. v4'[TheList] \in {1, K!Nil} /\ v5'[TheList] = K!Nil /\ o \in Iterators
  BY <1>2, TheListOwns DEF K!LinksInv, K!Owners
<1>7. Gave(o, v4[o])
  <2>1. Val("hold", o, 0) = v4[o]
    BY Values
  <2>2. QED
    BY <2>1 DEF Gave
<1>8. Got(K!Nil) /\ Cuts(o, K!Nil) /\ GoesOn(o, K!Nil, v4[o])
  BY <1>1, <1>2 DEF Got, Cuts, GoesOn
<1>9. QED
  BY <1>1, <1>2, <1>3, <1>4, <1>5, <1>6, <1>7, <1>8 DEF Steps

(* and one that loads its next node;                                        *)
LEMMA LoadAheadSteps ==
  ASSUME Known, NEW o \in K!Owners, K!LoadAhead(o)
  PROVE  Steps(o, K!Nil, K!Nil, v1[v4[o]]) /\ Len(v6[o]) = 0
<1> USE DEF Known
<1>1. Turns(o, K!Nil, K!Nil, v1[v4[o]]) /\ Len(v6[o]) = 0
  BY LoadAheadTurns
<1>2. /\ v5' = [v5 EXCEPT ![o] = v1[v4[o]]] /\ v5[o] = K!Nil /\ v4' = v4 /\ v1' = v1
      /\ v8' = v8 /\ o \in Iterators /\ v4[o] \in K!Nodes /\ v1[v4[o]] \in K!Nodes \cup {K!Nil}
      /\ v4 \in [K!Owners -> K!Nodes \cup {K!Nil}] /\ v5 \in [K!Owners -> K!Nodes \cup {K!Nil}]
      /\ v1 \in [K!Nodes -> K!Nodes \cup {K!Nil}] /\ v8 \in Nat
  BY DEF K!LoadAhead, K!TypeOK, K!history
<1>3. K!CountsInv'
  <2>1. \A u \in K!Owners : u # o => v4'[u] = v4[u] /\ v5'[u] = v5[u]
    BY <1>2
  <2>2. v4'[o] = v4[o] /\ v5'[o] = v1[v4[o]]
    BY <1>2
  <2>3. \A z \in K!Nodes : Is(v4[o], z) + Is(v5[o], z) + Is(v1[v4[o]], z)
                           = Is(v4'[o], z) + Is(v5'[o], z) + Is(K!Nil, z)
    BY <1>2, <2>2, NilIsNoNode DEF Is
  <2>4. QED
    BY <1>1, <1>2, <2>1, <2>3, OutsideCounts
<1>4. K!TypeOK'
  <2>1. v5' \in [K!Owners -> K!Nodes \cup {K!Nil}]
    BY <1>2
  <2>2. QED
    BY <1>1, <1>2, <1>3, <2>1, TypesAreKept
<1>5. v4'[TheList] \in {1, K!Nil} /\ v5'[TheList] = K!Nil
  BY <1>2, TheListOwns, Constants DEF K!LinksInv
<1>6. Got(v1[v4[o]])
  <2>1. Val("hold", o, 0) = v4[o]
    BY Values
  <2>2. v4[o] \in v3
    BY <1>2, <2>1, HeldIsCounted DEF K!DeadInv
  <2>3. Val("next", v4[o], 0) = v1[v4[o]]
    BY <2>2, Values
  <2>4. QED
    BY <2>3 DEF Got
<1>7. Gave(o, K!Nil) /\ Cuts(o, K!Nil) /\ GoesOn(o, K!Nil, K!Nil)
  BY <1>1, <1>2 DEF Gave, Cuts, GoesOn
<1>8. QED
  BY <1>1, <1>2, <1>3, <1>4, <1>5, <1>6, <1>7 DEF Steps

(* and so does a call of ~Node() that gives and gets what it should:        *)
LEMMA CallSteps ==
  ASSUME Known, NEW o \in K!Owners, NEW f, NEW x \in K!Nodes \cup {K!Nil},
         NEW y \in K!Nodes \cup {K!Nil},
         x = K!Nil \/ y = K!Nil, Turns(o, f, x, y), Gave(o, x), Got(y), Cuts(o, f), GoesOn(o, f,
         x), K!CountsInv',
         v1' \in [K!Nodes -> K!Nodes \cup {K!Nil}], v4' = v4, v5' = v5, v8' = v8
  PROVE  Steps(o, f, x, y)
<1>1. K!TypeOK' /\ v8' >= v8
  <2>1. /\ v4 \in [K!Owners -> K!Nodes \cup {K!Nil}] /\ v5 \in [K!Owners -> K!Nodes \cup {K!Nil}]
        /\ v8 \in Nat /\ K!TypeOK
    BY DEF K!TypeOK, Known
  <2>2. QED
    BY <2>1, TypesAreKept
<1>2. v4'[TheList] \in {1, K!Nil} /\ v5'[TheList] = K!Nil
  BY DEF Known, K!LinksInv
<1>3. QED
  BY <1>1, <1>2 DEF Steps

(* What is known of the call that is on top                                 *)
LEMMA TopIs ==
  ASSUME Known, NEW o \in K!Owners, Len(v6[o]) > 0
  PROVE  /\ K!Top(o) \in K!Calls /\ K!Knows(K!Top(o)) /\ K!Top(o).node \in K!Nodes
         /\ K!Top(o).node \in v3
         /\ K!Top(o).curr \in K!Nodes \cup {K!Nil} /\ K!Top(o).next_curr \in K!Nodes \cup {K!Nil}
         /\ \E n : n = Len(v6[o]) /\ n > 0 /\ Val("curr", o, n) = K!Top(o).curr
                   /\ Val("next_curr", o, n) = K!Top(o).next_curr
         /\ K!Top(o).curr # K!Nil => K!Top(o).curr \in v3
         /\ v1 \in [K!Nodes -> K!Nodes \cup {K!Nil}]
<1> USE DEF Known
<1>1. K!Top(o) \in K!Calls /\ K!Top(o) = v6[o][Len(v6[o])] /\ Len(v6[o]) \in DOMAIN v6[o]
  BY TopTypes
<1>2. K!Knows(K!Top(o))
  BY TopKnows
<1>3. /\ K!Top(o).node \in K!Nodes /\ K!Top(o).curr \in K!Nodes \cup {K!Nil}
      /\ K!Top(o).next_curr \in K!Nodes \cup {K!Nil}
      /\ K!Top(o).node \in v3
  BY <1>1, <1>2, CallFields DEF K!Knows
<1>4. PICK n : n = Len(v6[o])
  OBVIOUS
<1>5. Val("curr", o, n) = K!Top(o).curr /\ Val("next_curr", o, n) = K!Top(o).next_curr
  BY <1>1, <1>4, Values
<1>6. K!Top(o).curr # K!Nil => K!Top(o).curr \in v3
  BY <1>3, <1>5, HeldIsCounted DEF K!DeadInv
<1>7. QED
  BY <1>1, <1>2, <1>3, <1>4, <1>5, <1>6 DEF K!TypeOK

(* curr = next.load(),                                                      *)
LEMMA LoadSteps ==
  ASSUME Known, NEW o \in K!Owners, K!Load(o), NEW f,
         f = Frame(K!Top(o).node, "clear", v1[K!Top(o).node], K!Top(o).next_curr)
  PROVE  /\ Steps(o, f, K!Nil, v1[K!Top(o).node]) /\ Len(v6[o]) > 0
         /\ K!Top(o).pc = "load" /\ K!Top(o).curr = K!Nil /\ K!Top(o).next_curr = K!Nil
<1>1. /\ Len(v6[o]) > 0 /\ K!Top(o).pc = "load"
      /\ v1' = v1 /\ v4' = v4 /\ v5' = v5 /\ v8' = v8
  BY TopTypes DEF K!Load, K!At, K!history, Known
<1>2. K!Top(o).curr = K!Nil /\ K!Top(o).next_curr = K!Nil /\ K!Top(o).node \in K!Nodes /\ K!Top(o).node \in v3
  BY <1>1, TopIs DEF K!Knows
<1>3. /\ f.node = K!Top(o).node /\ f.pc = "clear" /\ f.curr = v1[K!Top(o).node]
      /\ f.next_curr = K!Nil
      /\ v1[K!Top(o).node] \in K!Nodes \cup {K!Nil} /\ v1 \in [K!Nodes -> K!Nodes \cup {K!Nil}]
  BY <1>1, <1>2, TopIs, Fields
<1>4. f \in K!Calls
  BY <1>2, <1>3, FrameTypes DEF Labels
<1>5. Turns(o, f, K!Nil, v1[K!Top(o).node]) /\ v3' = v3
  BY LoadTurns DEF Known, Turns
<1>6. K!CountsInv'
  <2>1. \A z \in K!Nodes : Is(K!Top(o).curr, z) + Is(K!Top(o).next_curr, z) + Is(v1[K!Top(o).node], z)
                           = Is(f.curr, z) + Is(f.next_curr, z) + Is(K!Nil, z)
    BY <1>2, <1>3, NilIsNoNode DEF Is
  <2>2. QED
    BY <1>1, <1>5, <2>1, LocalCounts DEF Known
<1>7. Got(v1[K!Top(o).node])
  <2>1. Val("next", K!Top(o).node, 0) = v1[K!Top(o).node]
    BY <1>2, Values
  <2>2. QED
    BY <2>1 DEF Got
<1>8. K!Knows(f)'
  BY <1>1, <1>2, <1>3, <1>5 DEF K!Knows
<1>9. Gave(o, K!Nil) /\ Cuts(o, f) /\ GoesOn(o, f, K!Nil)
  BY <1>1, <1>2, <1>3, <1>4, <1>8 DEF Gave, Cuts, GoesOn, Pushes
<1>10. QED
  BY <1>1, <1>2, <1>3, <1>5, <1>6, <1>7, <1>9, CallSteps, NilTypes

(* next.store(nullptr), which does not give up the last reference,          *)
LEMMA ClearSteps ==
  ASSUME Known, NEW o \in K!Owners, K!Clear(o), NEW f,
         f = Frame(K!Top(o).node, "test", K!Top(o).curr, K!Top(o).next_curr)
  PROVE  /\ Steps(o, f, K!Top(o).curr, K!Nil) /\ Len(v6[o]) > 0
         /\ K!Top(o).pc = "clear" /\ K!Top(o).curr = v1[K!Top(o).node] /\ K!Top(o).next_curr = K!Nil
         /\ ~Pushes(K!Top(o).curr) /\ v1' = [v1 EXCEPT ![K!Top(o).node] = K!Nil]
         /\ K!Top(o).node \in v3
<1>1. /\ Len(v6[o]) > 0 /\ K!Top(o).pc = "clear"
      /\ v1' = [v1 EXCEPT ![K!Top(o).node] = K!Nil] /\ v4' = v4 /\ v5' = v5 /\ v8' = v8
  BY TopTypes DEF K!Clear, K!At, K!history, Known
<1>2. /\ K!Top(o).curr = v1[K!Top(o).node] /\ K!Top(o).next_curr = K!Nil
      /\ K!Top(o).node \in K!Nodes /\ K!Top(o).node \in v3 /\ K!Top(o).curr \in K!Nodes \cup {K!Nil}
      /\ v1 \in [K!Nodes -> K!Nodes \cup {K!Nil}]
  BY <1>1, TopIs DEF K!Knows
<1>3. f.node = K!Top(o).node /\ f.pc = "test" /\ f.curr = K!Top(o).curr /\ f.next_curr = K!Nil
  BY <1>2, Fields
<1>4. f \in K!Calls
  BY <1>2, FrameTypes DEF Labels
<1>5. Turns(o, f, K!Top(o).curr, K!Nil) /\ v3' = v3
  BY <1>2, ClearTurns DEF Known, Turns
<1>6. K!CountsInv'
  BY <1>1, <1>2, <1>3, <1>5, CutCounts DEF Known
<1>7. Val("next", K!Top(o).node, 0) = K!Top(o).curr
  BY <1>2, Values
<1>8. ~Pushes(K!Top(o).curr)
  <2>1. CASE K!Top(o).curr = K!Nil
    BY <2>1 DEF Pushes
  <2>2. CASE K!Top(o).curr # K!Nil
    <3>1. PICK n : Val("curr", o, n) = K!Top(o).curr
      BY <1>1, TopIs
    <3>2. <<"next", K!Top(o).node, 0>> # <<"curr", o, n>>
      OBVIOUS
    <3>3. QED
      BY <1>2, <1>7, <2>2, <3>1, <3>2, TwoHolders DEF Known
  <2>3. QED
    BY <2>1, <2>2
<1>9. Gave(o, K!Top(o).curr)
  BY <1>7 DEF Gave
<1>10. v1'[K!Top(o).node] = K!Nil /\ v1' \in [K!Nodes -> K!Nodes \cup {K!Nil}]
       /\ \A z \in K!Nodes : z # K!Top(o).node => v1'[z] = v1[z]
  BY <1>1, <1>2
<1>11. K!Knows(f)'
  BY <1>2, <1>3, <1>5, <1>10 DEF K!Knows
<1>12. Got(K!Nil) /\ Cuts(o, f) /\ GoesOn(o, f, K!Top(o).curr)
  BY <1>1, <1>2, <1>3, <1>4, <1>8, <1>10, <1>11 DEF Got, Cuts, GoesOn
<1>13. QED
  BY <1>1, <1>2, <1>5, <1>6, <1>8, <1>9, <1>10, <1>12, CallSteps, NilTypes

(* the loop's test, which leaves a node that others hold,                   *)
LEMMA TestSteps ==
  ASSUME Known, NEW o \in K!Owners, K!Test(o)
  PROVE  /\ Len(v6[o]) > 0 /\ K!Top(o).pc = "test" /\ K!Top(o).next_curr = K!Nil
         /\ \E f : /\ Steps(o, f, K!Nil, K!Nil)
                   /\ f.curr = K!Top(o).curr /\ f.next_curr = K!Nil /\ f.pc \in {"ahead", "drop"}
                   /\ f.pc = "drop" => f.curr = K!Nil \/ v2[f.curr] # 1
<1>1. /\ Len(v6[o]) > 0 /\ K!Top(o).pc = "test"
      /\ v1' = v1 /\ v4' = v4 /\ v5' = v5 /\ v8' = v8
  BY TopTypes DEF K!Test, K!At, K!history, Known
<1>2. /\ K!Top(o).next_curr = K!Nil /\ v1[K!Top(o).node] = K!Nil /\ K!Top(o).node \in K!Nodes
      /\ K!Top(o).node \in v3
      /\ K!Top(o).curr \in K!Nodes \cup {K!Nil} /\ v1 \in [K!Nodes -> K!Nodes \cup {K!Nil}]
  BY <1>1, TopIs DEF K!Knows
<1>3. PICK l \in {"ahead", "drop"} :
        /\ l = "ahead" => K!Top(o).curr # K!Nil /\ v2[K!Top(o).curr] = 1
        /\ l = "drop" => K!Top(o).curr = K!Nil \/ v2[K!Top(o).curr] # 1
        /\ Turns(o, Frame(K!Top(o).node, l, K!Top(o).curr, K!Top(o).next_curr), K!Nil, K!Nil)
  BY TestTurns DEF Known
<1>4. PICK f : f = Frame(K!Top(o).node, l, K!Top(o).curr, K!Top(o).next_curr)
  OBVIOUS
<1>5. f.node = K!Top(o).node /\ f.pc = l /\ f.curr = K!Top(o).curr /\ f.next_curr = K!Nil
  BY <1>2, <1>4, Fields
<1>6. f \in K!Calls
  BY <1>2, <1>4, FrameTypes DEF Labels
<1>7. Turns(o, f, K!Nil, K!Nil) /\ v3' = v3
  BY <1>3, <1>4 DEF Turns
<1>8. K!CountsInv'
  <2>1. \A z \in K!Nodes : Is(K!Top(o).curr, z) + Is(K!Top(o).next_curr, z) + Is(K!Nil, z)
                           = Is(f.curr, z) + Is(f.next_curr, z) + Is(K!Nil, z)
    BY <1>2, <1>5
  <2>2. QED
    BY <1>1, <1>7, <2>1, LocalCounts DEF Known
<1>9. \A z \in K!Nodes : v2'[z] = v2[z]
  <2>1. \A z \in K!Nodes : v2'[z] = v2[z] - Is(K!Nil, z) + Is(K!Nil, z) /\ Is(K!Nil, z) = 0 /\ v2[z] \in Nat
    BY <1>7, NilIsNoNode DEF Turns, Is, Known, K!TypeOK
  <2>2. QED
    BY <2>1
<1>10. K!Knows(f)'
  BY <1>1, <1>2, <1>3, <1>5, <1>7, <1>9 DEF K!Knows
<1>11. Gave(o, K!Nil) /\ Got(K!Nil) /\ Cuts(o, f) /\ GoesOn(o, f, K!Nil)
  BY <1>1, <1>5, <1>6, <1>10 DEF Gave, Got, Cuts, GoesOn, Pushes
<1>12. Steps(o, f, K!Nil, K!Nil)
  BY <1>1, <1>2, <1>7, <1>8, <1>11, CallSteps, NilTypes
<1>13. QED
  BY <1>1, <1>2, <1>3, <1>5, <1>12

(* A node that only one place refers to does not refer to itself.           *)
LEMMA NoLoop ==
  ASSUME Known, NEW o \in K!Owners, Len(v6[o]) > 0, K!Top(o).pc \in {"ahead", "cut", "move"}
  PROVE  /\ K!Top(o).curr \in K!Nodes /\ K!Top(o).curr \in v3 /\ v2[K!Top(o).curr] = 1
         /\ v1[K!Top(o).curr] # K!Top(o).curr /\ Pushes(K!Top(o).curr)
<1>1. K!Top(o).curr # K!Nil /\ v2[K!Top(o).curr] = 1 /\ K!Top(o).curr \in K!Nodes /\ K!Top(o).curr \in v3
  BY TopIs DEF K!Knows
<1>2. ASSUME v1[K!Top(o).curr] = K!Top(o).curr
      PROVE  FALSE
  <2>1. PICK n : Val("curr", o, n) = K!Top(o).curr
    BY TopIs
  <2>2. Val("next", K!Top(o).curr, 0) = K!Top(o).curr
    BY <1>1, <1>2, Values
  <2>3. <<"next", K!Top(o).curr, 0>> # <<"curr", o, n>>
    OBVIOUS
  <2>4. QED
    BY <1>1, <2>1, <2>2, <2>3, TwoHolders DEF Known
<1>3. QED
  BY <1>1, <1>2 DEF Pushes

(* next_curr = curr->next.load(),                                           *)
LEMMA LoadNextSteps ==
  ASSUME Known, NEW o \in K!Owners, K!LoadNext(o), NEW f,
         f = Frame(K!Top(o).node, "cut", K!Top(o).curr, v1[K!Top(o).curr])
  PROVE  /\ Steps(o, f, K!Nil, v1[K!Top(o).curr]) /\ Len(v6[o]) > 0
         /\ K!Top(o).pc = "ahead" /\ K!Top(o).next_curr = K!Nil
<1>1. /\ Len(v6[o]) > 0 /\ K!Top(o).pc = "ahead"
      /\ v1' = v1 /\ v4' = v4 /\ v5' = v5 /\ v8' = v8
  BY TopTypes DEF K!LoadNext, K!At, K!history, Known
<1>2. /\ K!Top(o).next_curr = K!Nil /\ v1[K!Top(o).node] = K!Nil /\ K!Top(o).node \in K!Nodes
      /\ K!Top(o).node \in v3
      /\ v1 \in [K!Nodes -> K!Nodes \cup {K!Nil}]
  BY <1>1, TopIs DEF K!Knows
<1>3. /\ K!Top(o).curr \in K!Nodes /\ K!Top(o).curr \in v3 /\ v2[K!Top(o).curr] = 1
      /\ K!Top(o).curr # K!Nil
      /\ v1[K!Top(o).curr] # K!Top(o).curr /\ v1[K!Top(o).curr] \in K!Nodes \cup {K!Nil}
  BY <1>1, <1>2, NoLoop, NilIsNoNode
<1>4. f.node = K!Top(o).node /\ f.pc = "cut" /\ f.curr = K!Top(o).curr /\ f.next_curr = v1[K!Top(o).curr]
  BY Fields
<1>5. f \in K!Calls
  BY <1>2, <1>3, FrameTypes DEF Labels
<1>6. Turns(o, f, K!Nil, v1[K!Top(o).curr]) /\ v3' = v3
  BY <1>3, LoadNextTurns DEF Known, Turns
<1>7. K!CountsInv'
  <2>1. \A z \in K!Nodes : Is(K!Top(o).curr, z) + Is(K!Top(o).next_curr, z) + Is(v1[K!Top(o).curr], z)
                           = Is(f.curr, z) + Is(f.next_curr, z) + Is(K!Nil, z)
    BY <1>2, <1>4, NilIsNoNode DEF Is
  <2>2. QED
    BY <1>1, <1>6, <2>1, LocalCounts DEF Known
<1>8. Got(v1[K!Top(o).curr])
  <2>1. Val("next", K!Top(o).curr, 0) = v1[K!Top(o).curr]
    BY <1>3, Values
  <2>2. QED
    BY <2>1 DEF Got
<1>9. v2'[K!Top(o).curr] = 1
  <2>1. v2'[K!Top(o).curr] = 1 - Is(K!Nil, K!Top(o).curr) + Is(v1[K!Top(o).curr], K!Top(o).curr)
    BY <1>3, <1>6 DEF Turns
  <2>2. QED
    BY <1>3, <2>1 DEF Is
<1>10. K!Knows(f)'
  BY <1>1, <1>2, <1>3, <1>4, <1>6, <1>9 DEF K!Knows
<1>11. Gave(o, K!Nil) /\ Cuts(o, f) /\ GoesOn(o, f, K!Nil)
  BY <1>1, <1>3, <1>4, <1>5, <1>10 DEF Gave, Cuts, GoesOn, Pushes
<1>12. QED
  BY <1>1, <1>2, <1>3, <1>6, <1>7, <1>8, <1>11, CallSteps, NilTypes

(* curr->next.store(nullptr), which does not give up the last one either,   *)
LEMMA CutSteps ==
  ASSUME Known, NEW o \in K!Owners, K!Cut(o), NEW f,
         f = Frame(K!Top(o).node, "move", K!Top(o).curr, K!Top(o).next_curr)
  PROVE  /\ Steps(o, f, K!Top(o).next_curr, K!Nil) /\ Len(v6[o]) > 0
         /\ K!Top(o).pc = "cut" /\ K!Top(o).next_curr = v1[K!Top(o).curr]
         /\ ~Pushes(K!Top(o).next_curr)
         /\ v1' = [v1 EXCEPT ![K!Top(o).curr] = K!Nil] /\ K!Top(o).curr \in v3
<1>1. /\ Len(v6[o]) > 0 /\ K!Top(o).pc = "cut"
      /\ v1' = [v1 EXCEPT ![K!Top(o).curr] = K!Nil] /\ v4' = v4 /\ v5' = v5 /\ v8' = v8
  BY TopTypes DEF K!Cut, K!At, K!history, Known
<1>2. /\ K!Top(o).next_curr = v1[K!Top(o).curr] /\ v1[K!Top(o).node] = K!Nil
      /\ K!Top(o).node \in K!Nodes /\ K!Top(o).node \in v3
      /\ K!Top(o).next_curr \in K!Nodes \cup {K!Nil}
      /\ v1 \in [K!Nodes -> K!Nodes \cup {K!Nil}]
  BY <1>1, TopIs DEF K!Knows
<1>3. /\ K!Top(o).curr \in K!Nodes /\ K!Top(o).curr \in v3 /\ v2[K!Top(o).curr] = 1
      /\ K!Top(o).curr # K!Nil
      /\ v1[K!Top(o).curr] # K!Top(o).curr
  BY <1>1, NoLoop, NilIsNoNode
<1>4. f.node = K!Top(o).node /\ f.pc = "move" /\ f.curr = K!Top(o).curr /\ f.next_curr = K!Top(o).next_curr
  BY Fields
<1>5. f \in K!Calls
  BY <1>2, <1>3, FrameTypes DEF Labels
<1>6. Turns(o, f, K!Top(o).next_curr, K!Nil) /\ v3' = v3
  BY <1>2, <1>3, CutTurns DEF Known, Turns
<1>7. K!CountsInv'
  BY <1>1, <1>2, <1>3, <1>4, <1>6, CutCounts DEF Known
<1>8. Val("next", K!Top(o).curr, 0) = K!Top(o).next_curr
  BY <1>2, <1>3, Values
<1>9. ~Pushes(K!Top(o).next_curr)
  <2>1. CASE K!Top(o).next_curr = K!Nil
    BY <2>1 DEF Pushes
  <2>2. CASE K!Top(o).next_curr # K!Nil
    <3>1. PICK n : Val("next_curr", o, n) = K!Top(o).next_curr
      BY <1>1, TopIs
    <3>2. <<"next", K!Top(o).curr, 0>> # <<"next_curr", o, n>>
      OBVIOUS
    <3>3. QED
      BY <1>2, <1>8, <2>2, <3>1, <3>2, TwoHolders DEF Known
  <2>3. QED
    BY <2>1, <2>2
<1>10. Gave(o, K!Top(o).next_curr)
  BY <1>8 DEF Gave
<1>11. v1'[K!Top(o).curr] = K!Nil /\ v1' \in [K!Nodes -> K!Nodes \cup {K!Nil}]
       /\ \A z \in K!Nodes : z # K!Top(o).curr => v1'[z] = v1[z]
  BY <1>1, <1>2, <1>3
<1>12. v2'[K!Top(o).curr] = 1
  <2>1. v2'[K!Top(o).curr] = 1 - Is(K!Top(o).next_curr, K!Top(o).curr) + Is(K!Nil, K!Top(o).curr)
    BY <1>3, <1>6 DEF Turns
  <2>2. QED
    BY <1>2, <1>3, <2>1 DEF Is
<1>13. K!Knows(f)'
  BY <1>2, <1>3, <1>4, <1>6, <1>11, <1>12 DEF K!Knows
<1>14. Got(K!Nil) /\ Cuts(o, f) /\ GoesOn(o, f, K!Top(o).next_curr)
  BY <1>1, <1>3, <1>4, <1>5, <1>9, <1>11, <1>13 DEF Got, Cuts, GoesOn
<1>15. QED
  BY <1>1, <1>2, <1>3, <1>6, <1>7, <1>9, <1>10, <1>11, <1>14, CallSteps, NilTypes

(* curr = std::move(next_curr), which always does,                          *)
LEMMA MoveSteps ==
  ASSUME Known, NEW o \in K!Owners, K!Move(o), NEW f,
         f = Frame(K!Top(o).node, "test", K!Top(o).next_curr, K!Nil)
  PROVE  /\ Steps(o, f, K!Top(o).curr, K!Nil) /\ Len(v6[o]) > 0
         /\ K!Top(o).pc = "move" /\ Pushes(K!Top(o).curr) /\ v1' = v1
<1>1. /\ Len(v6[o]) > 0 /\ K!Top(o).pc = "move"
      /\ v1' = v1 /\ v4' = v4 /\ v5' = v5 /\ v8' = v8
  BY TopTypes DEF K!Move, K!At, K!history, Known
<1>2. /\ v1[K!Top(o).curr] = K!Nil /\ v1[K!Top(o).node] = K!Nil
      /\ K!Top(o).node \in K!Nodes /\ K!Top(o).node \in v3
      /\ K!Top(o).next_curr \in K!Nodes \cup {K!Nil}
      /\ v1 \in [K!Nodes -> K!Nodes \cup {K!Nil}]
  BY <1>1, TopIs DEF K!Knows
<1>3. K!Top(o).curr \in K!Nodes /\ Pushes(K!Top(o).curr) /\ K!Top(o).curr # K!Nil
  BY <1>1, NoLoop, NilIsNoNode
<1>4. f.node = K!Top(o).node /\ f.pc = "test" /\ f.curr = K!Top(o).next_curr /\ f.next_curr = K!Nil
  BY Fields
<1>5. f \in K!Calls
  BY <1>2, FrameTypes, NilTypes DEF Labels
<1>6. Turns(o, f, K!Top(o).curr, K!Nil) /\ v3' = v3
  BY MoveTurns DEF Known, Turns
<1>7. K!CountsInv'
  <2>1. \A z \in K!Nodes : Is(K!Top(o).curr, z) + Is(K!Top(o).next_curr, z) + Is(K!Nil, z)
                           = Is(f.curr, z) + Is(f.next_curr, z) + Is(K!Top(o).curr, z)
    BY <1>4 DEF Is
  <2>2. QED
    BY <1>1, <1>6, <2>1, LocalCounts DEF Known
<1>8. Gave(o, K!Top(o).curr)
  BY <1>1, TopIs DEF Gave
<1>9. K!Knows(f)'
  BY <1>1, <1>2, <1>4, <1>6 DEF K!Knows
<1>10. Got(K!Nil) /\ Cuts(o, f) /\ GoesOn(o, f, K!Top(o).curr)
  BY <1>1, <1>2, <1>3, <1>4, <1>5, <1>9 DEF Got, Cuts, GoesOn
<1>11. QED
  BY <1>1, <1>2, <1>3, <1>6, <1>7, <1>8, <1>10, CallSteps, NilTypes

(* and the end of curr, which may.                                          *)
LEMMA DropCurrSteps ==
  ASSUME Known, NEW o \in K!Owners, K!DropCurr(o), NEW f,
         f = Frame(K!Top(o).node, "free", K!Nil, K!Top(o).next_curr)
  PROVE  /\ Steps(o, f, K!Top(o).curr, K!Nil) /\ Len(v6[o]) > 0
         /\ K!Top(o).pc = "drop" /\ K!Top(o).next_curr = K!Nil /\ v1' = v1
<1>1. /\ Len(v6[o]) > 0 /\ K!Top(o).pc = "drop"
      /\ v1' = v1 /\ v4' = v4 /\ v5' = v5 /\ v8' = v8
  BY TopTypes DEF K!DropCurr, K!At, K!history, Known
<1>2. /\ K!Top(o).next_curr = K!Nil /\ v1[K!Top(o).node] = K!Nil
      /\ K!Top(o).node \in K!Nodes /\ K!Top(o).node \in v3 /\ K!Top(o).curr \in K!Nodes \cup {K!Nil}
      /\ v1 \in [K!Nodes -> K!Nodes \cup {K!Nil}]
  BY <1>1, TopIs DEF K!Knows
<1>3. f.node = K!Top(o).node /\ f.pc = "free" /\ f.curr = K!Nil /\ f.next_curr = K!Nil
  BY <1>2, Fields
<1>4. f \in K!Calls
  BY <1>2, FrameTypes, NilTypes DEF Labels
<1>5. Turns(o, f, K!Top(o).curr, K!Nil) /\ v3' = v3
  BY DropCurrTurns DEF Known, Turns
<1>6. K!CountsInv'
  <2>1. \A z \in K!Nodes : Is(K!Top(o).curr, z) + Is(K!Top(o).next_curr, z) + Is(K!Nil, z)
                           = Is(f.curr, z) + Is(f.next_curr, z) + Is(K!Top(o).curr, z)
    BY <1>2, <1>3 DEF Is
  <2>2. QED
    BY <1>1, <1>5, <2>1, LocalCounts DEF Known
<1>7. Gave(o, K!Top(o).curr)
  BY <1>1, TopIs DEF Gave
<1>8. K!Knows(f)'
  BY <1>1, <1>2, <1>3, <1>5 DEF K!Knows
<1>9. Got(K!Nil) /\ Cuts(o, f) /\ GoesOn(o, f, K!Top(o).curr)
  BY <1>1, <1>2, <1>3, <1>4, <1>8 DEF Got, Cuts, GoesOn, Pushes
<1>10. QED
  BY <1>1, <1>2, <1>5, <1>6, <1>7, <1>9, CallSteps, NilTypes

(* The calls an owner is in, by number                                      *)
LEMMA Domains ==
  /\ K!TypeOK => \A u \in K!Owners : /\ DOMAIN v6[u] = 1 .. Len(v6[u]) /\ Len(v6[u]) \in Nat
                                     /\ Len(v6[u]) > 0 => K!Top(u) = v6[u][Len(v6[u])]
  /\ K!TypeOK' => \A u \in K!Owners : /\ DOMAIN v6'[u] = 1 .. Len(v6'[u]) /\ Len(v6'[u]) \in Nat
                                      /\ Len(v6'[u]) > 0 => K!Top(u)' = v6'[u][Len(v6'[u])]
  BY DEF K!TypeOK, K!Top

(* The nodes that are being destroyed, now and in the next state            *)
LEMMA DestroyedAre ==
  ASSUME NEW z
  PROVE  /\ z \in K!Destroyed <=> \E u \in K!Owners : \E j \in DOMAIN v6[u] : v6[u][j].node = z
         /\ z \in K!Destroyed' <=> \E u \in K!Owners : \E j \in DOMAIN v6'[u] : v6'[u][j].node = z
  BY DEF K!Destroyed

(* A call of the next state is one of now, with the same node, or a new one.*)
LEMMA CallCases ==
  ASSUME Known, NEW o \in K!Owners, NEW f, NEW x, NEW y, Steps(o, f, x, y),
         NEW u \in K!Owners, NEW j \in DOMAIN v6'[u]
  PROVE  \/ j \in DOMAIN v6[u] /\ v6'[u][j].node = v6[u][j].node
         \/ /\ u = o /\ j = Len(v6[o]) + 1 /\ Pushes(x)
            /\ v6'[u][j].node = x /\ j \notin DOMAIN v6[u]
<1>1. /\ j \in 1 .. Len(v6'[u]) /\ DOMAIN v6[u] = 1 .. Len(v6[u]) /\ Len(v6[u]) \in Nat
      /\ Len(v6[u]) > 0 => K!Top(u) = v6[u][Len(v6[u])]
  BY Domains DEF Steps, Known
<1>2. CASE /\ u # o \/ j < Len(v6[o])
           /\ j \in 1 .. Len(v6[u]) /\ v6'[u][j] = v6[u][j]
  BY <1>1, <1>2
<1>3. CASE u = o /\ j = Len(v6[o]) /\ j > 0 /\ v6'[u][j] = f
  <2>1. f.node = K!Top(o).node
    BY <1>3 DEF Steps, GoesOn
  <2>2. QED
    BY <1>1, <1>3, <2>1
<1>4. CASE u = o /\ j = Len(v6[o]) + 1 /\ Pushes(x) /\ v6'[u][j] = K!Call(x)
  BY <1>1, <1>4 DEF K!Call
<1>5. QED
  BY <1>1, <1>2, <1>3, <1>4, FrameCases DEF Steps, Known

(* A call of now is one of the next state.                                  *)
LEMMA CallsStay ==
  ASSUME Known, NEW o \in K!Owners, NEW f, NEW x, NEW y, Steps(o, f, x, y),
         NEW u \in K!Owners, NEW j \in DOMAIN v6[u]
  PROVE  /\ j \in DOMAIN v6'[u] /\ v6'[u][j].node = v6[u][j].node
         /\ u # o \/ j # Len(v6[o]) => v6'[u][j] = v6[u][j]
         /\ u = o /\ j = Len(v6[o]) => v6'[u][j] = f
<1>1. /\ j \in 1 .. Len(v6[u]) /\ DOMAIN v6'[u] = 1 .. Len(v6'[u])
      /\ Len(v6[o]) \in Nat /\ Len(v6'[u]) \in Nat
      /\ Len(v6[u]) > 0 => K!Top(u) = v6[u][Len(v6[u])]
  BY Domains DEF Steps, Known
<1>2. CASE u # o
  <2>1. v6'[u] = v6[u]
    BY <1>2 DEF Steps, Turns
  <2>2. QED
    BY <1>2, <2>1
<1>3. CASE u = o
  <2>1. Len(v6[o]) > 0
    BY <1>1, <1>3
  <2>2. /\ Len(v6'[o]) >= Len(v6[o]) /\ v6'[o][Len(v6[o])] = f
        /\ \A i \in 1 .. Len(v6[o]) - 1 : v6'[o][i] = v6[o][i]
    <3>1. /\ Pushes(x) => Len(v6'[o]) = Len(v6[o]) + 1
          /\ ~Pushes(x) => Len(v6'[o]) = Len(v6[o])
          /\ v6'[o][Len(v6[o])] = f
          /\ \A i \in 1 .. Len(v6[o]) - 1 : v6'[o][i] = v6[o][i]
      BY <2>1 DEF Steps, Turns
    <3>2. QED
      BY <1>1, <3>1
  <2>3. f.node = K!Top(o).node
    BY <2>1 DEF Steps, GoesOn
  <2>4. QED
    BY <1>1, <1>3, <2>1, <2>2, <2>3
<1>4. QED
  BY <1>2, <1>3

(* What is counted: x once less, y once more.                               *)
LEMMA CountNext ==
  ASSUME Known, NEW o \in K!Owners, NEW f, NEW x, NEW y, Steps(o, f, x, y), NEW z \in K!Nodes
  PROVE  /\ v2[z] \in Nat /\ v2'[z] \in Nat
         /\ v2'[z] = v2[z] - Is(x, z) + Is(y, z)
         /\ z = x => z # y /\ v2'[z] = v2[z] - 1
         /\ z = y => z # x /\ v2'[z] = v2[z] + 1 /\ v2[z] >= 1
         /\ z # x /\ z # y => v2'[z] = v2[z]
         /\ v2'[z] > 0 => v2[z] > 0
<1>1. v2'[z] = v2[z] - Is(x, z) + Is(y, z) /\ v2[z] \in Nat /\ v2'[z] \in Nat
  BY DEF Steps, Turns, Known, K!TypeOK
<1>2. z # K!Nil /\ (x = K!Nil \/ y = K!Nil)
  BY NilIsNoNode DEF Steps
<1>3. z = y => v2[z] >= 1
  <2>1. SUFFICES ASSUME z = y PROVE v2[z] >= 1
    OBVIOUS
  <2>2. PICK w : Val("next", w, 0) = y
    BY <1>2, <2>1 DEF Steps, Got
  <2>3. QED
    BY <2>1, <2>2, HeldIsCounted DEF Known
<1>4. QED
  BY <1>1, <1>2, <1>3 DEF Is

(* A node is destroyed by one call.                                         *)
LEMMA OneDestroys ==
  ASSUME K!DeadInv, NEW u \in K!Owners, NEW w \in K!Owners, NEW i, NEW j,
         i \in DOMAIN v6[u], j \in DOMAIN v6[w], v6[u][i].node = v6[w][j].node
  PROVE  u = w /\ i = j
  BY DEF K!DeadInv

(* What is referred to stays alive, and a node is destroyed once:           *)
LEMMA DeadIsKept ==
  ASSUME Known, NEW o \in K!Owners, NEW f, NEW x, NEW y, Steps(o, f, x, y)
  PROVE  K!DeadInv'
<1>1. ASSUME NEW z \in K!Nodes, v2'[z] > 0
      PROVE  z \in v3' /\ z \notin K!Destroyed'
  <2>1. v2[z] > 0 /\ z \in v3 /\ z \notin K!Destroyed /\ v3' = v3
    BY <1>1, CountNext DEF Known, K!DeadInv, Steps, Turns
  <2>2. ASSUME z \in K!Destroyed'
        PROVE  FALSE
    <3>1. PICK u \in K!Owners : \E j \in DOMAIN v6'[u] : v6'[u][j].node = z
      BY <2>2, DestroyedAre
    <3> PICK j \in DOMAIN v6'[u] : v6'[u][j].node = z
      BY <3>1
    <3>2. CASE j \in DOMAIN v6[u] /\ v6'[u][j].node = v6[u][j].node
      BY <2>1, <3>1, <3>2, DestroyedAre
    <3>3. CASE Pushes(x) /\ v6'[u][j].node = x
      BY <1>1, <3>1, <3>3, CountNext DEF Pushes
    <3>4. QED
      BY <3>2, <3>3, CallCases
  <2>3. QED
    BY <2>1, <2>2
<1>2. ASSUME NEW u \in K!Owners, NEW w \in K!Owners, NEW i, NEW j,
             i \in DOMAIN v6'[u], j \in DOMAIN v6'[w], v6'[u][i].node = v6'[w][j].node
      PROVE  u = w /\ i = j
  <2>1. Pushes(x) => x \notin K!Destroyed
    <3>1. SUFFICES ASSUME Pushes(x) PROVE x \notin K!Destroyed
      OBVIOUS
    <3>2. x \in K!Nodes /\ v2[x] > 0
      BY <3>1 DEF Pushes, Steps
    <3>3. QED
      BY <3>2 DEF Known, K!DeadInv
  <2>2. \/ j \in DOMAIN v6[w] /\ v6'[w][j].node = v6[w][j].node
        \/ w = o /\ j = Len(v6[o]) + 1 /\ Pushes(x) /\ v6'[w][j].node = x
    BY <1>2, CallCases
  <2>3. CASE i \in DOMAIN v6[u] /\ v6'[u][i].node = v6[u][i].node
    <3>1. CASE j \in DOMAIN v6[w] /\ v6'[w][j].node = v6[w][j].node
      <4>1. v6[u][i].node = v6[w][j].node
        BY <1>2, <2>3, <3>1
      <4>2. i \in DOMAIN v6[u] /\ j \in DOMAIN v6[w]
        BY <2>3, <3>1
      <4>3. QED
        BY <4>1, <4>2, OneDestroys DEF Known
    <3>2. CASE w = o /\ Pushes(x) /\ v6'[w][j].node = x
      <4>1. x \in K!Destroyed
        BY <1>2, <2>3, <3>2, DestroyedAre
      <4>2. QED
        BY <1>2, <2>1, <3>2, <4>1
    <3>3. QED
      BY <2>2, <3>1, <3>2
  <2>4. CASE u = o /\ i = Len(v6[o]) + 1 /\ Pushes(x) /\ v6'[u][i].node = x
    <3>1. CASE j \in DOMAIN v6[w] /\ v6'[w][j].node = v6[w][j].node
      <4>1. x \in K!Destroyed
        BY <1>2, <2>4, <3>1, DestroyedAre
      <4>2. QED
        BY <1>2, <2>1, <2>4, <4>1
    <3>2. CASE w = o /\ j = Len(v6[o]) + 1
      BY <1>2, <2>4, <3>2
    <3>3. QED
      BY <2>2, <3>1, <3>2
  <2>5. QED
    BY <1>2, <2>3, <2>4, CallCases
<1>3. QED
  BY <1>1, <1>2 DEF K!DeadInv

(* A `next` stays what it was, or cut.                                      *)
LEMMA LinksAreKept ==
  ASSUME Known, NEW o \in K!Owners, NEW f, NEW x, NEW y, Steps(o, f, x, y)
  PROVE  K!LinksInv' /\ \A z \in K!Nodes : v1'[z] \in {v1[z], K!Nil}
<1>1. \A z \in K!Nodes : v1'[z] \in {v1[z], K!Nil}
  BY DEF Steps, Cuts
<1>2. v7' = v7 /\ v4'[TheList] \in {1, K!Nil} /\ v5'[TheList] = K!Nil
  BY DEF Steps, Turns
<1>3. QED
  BY <1>1, <1>2 DEF Known, K!LinksInv

(* A call on which this step does not work keeps what it knows.             *)
LEMMA KnowledgeIsKept ==
  ASSUME Known, NEW o \in K!Owners, NEW f, NEW x, NEW y, Steps(o, f, x, y),
         NEW u \in K!Owners, NEW j \in DOMAIN v6[u], u # o \/ j # Len(v6[o]),
         NEW g, g = v6[u][j]
  PROVE  K!Knows(g)'
<1>1. K!Knows(g) /\ g \in K!Calls /\ v3' = v3
  BY Domains, TopTypes DEF Known, K!CallsInv, Steps, Turns
<1>2. g.node \in K!Nodes /\ g.node \in K!Destroyed /\ g.curr \in K!Nodes \cup {K!Nil}
  BY <1>1, CallFields, DestroyedAre
<1>3. \A z \in K!Nodes : v2[z] \in Nat /\ (v2[z] > 0 => z \notin K!Destroyed)
  BY DEF Known, K!DeadInv, K!TypeOK
<1>4. Val("curr", u, j) = g.curr
  BY Values
<1>5. ASSUME Len(v6[o]) > 0
      PROVE  K!Top(o).node \in K!Destroyed /\ K!Top(o).node # g.node
  <2>1. Len(v6[o]) \in DOMAIN v6[o] /\ K!Top(o) = v6[o][Len(v6[o])]
    BY <1>5, Domains DEF Known
  <2>2. QED
    BY <2>1, DestroyedAre, OneDestroys DEF Known
<1>6. v1'[g.node] = v1[g.node]
  <2>1. SUFFICES ASSUME v1'[g.node] # v1[g.node] PROVE FALSE
    OBVIOUS
  <2>2. /\ Len(v6[o]) > 0
        /\ g.node = K!Top(o).node \/ (K!Top(o).pc = "cut" /\ g.node = K!Top(o).curr)
    BY <1>2, <2>1 DEF Steps, Cuts
  <2>3. K!Top(o).pc = "cut" => v2[K!Top(o).curr] = 1
    BY <2>2, NoLoop
  <2>4. QED
    BY <1>2, <1>3, <1>5, <2>2, <2>3
<1>7. ASSUME g.curr # K!Nil, v2[g.curr] = 1
      PROVE  v2'[g.curr] = 1 /\ v1'[g.curr] = v1[g.curr]
  <2>1. g.curr \in K!Nodes
    BY <1>2, <1>7
  <2>2. \A k, a, i : Val(k, a, i) = g.curr => <<k, a, i>> = <<"curr", u, j>>
    BY <1>4, <1>7, <2>1, TwoHolders DEF Known
  <2>3. g.curr # x
    <3>1. SUFFICES ASSUME g.curr = x PROVE FALSE
      OBVIOUS
    <3>2. PICK k, a, i : /\ k \in {"next", "hold"} \/ (k = "curr" /\ a = o /\ i = Len(v6[o]))
                         /\ Val(k, a, i) = x
      BY <1>7, <3>1 DEF Steps, Gave
    <3>3. QED
      BY <2>2, <3>1, <3>2
  <2>4. g.curr # y
    <3>1. SUFFICES ASSUME g.curr = y PROVE FALSE
      OBVIOUS
    <3>2. PICK z : Val("next", z, 0) = y
      BY <1>7, <3>1 DEF Steps, Got
    <3>3. QED
      BY <2>2, <3>1, <3>2
  <2>5. v2'[g.curr] = 1
    BY <1>7, <2>1, <2>3, <2>4, CountNext
  <2>6. ASSUME v1'[g.curr] # v1[g.curr]
        PROVE  FALSE
    <3>1. /\ Len(v6[o]) > 0
          /\ g.curr = K!Top(o).node \/ (K!Top(o).pc = "cut" /\ g.curr = K!Top(o).curr)
      BY <2>1, <2>6 DEF Steps, Cuts
    <3>2. g.curr # K!Top(o).node
      BY <1>3, <1>5, <1>7, <2>1, <3>1
    <3>3. PICK n : n = Len(v6[o]) /\ Val("curr", o, n) = K!Top(o).curr
      BY <3>1, TopIs
    <3>4. QED
      BY <2>2, <3>1, <3>2, <3>3
  <2>7. QED
    BY <2>5, <2>6
<1>8. QED
  BY <1>1, <1>6, <1>7 DEF K!Knows

(* The calls below the one on top                                           *)
Below(o, i) ==
  i < Len(v6[o]) =>
    \/ v6[o][i].pc = "free"
    \/ /\ v6[o][i].pc = "test" /\ i = Len(v6[o]) - 1
       /\ v1[K!Top(o).node] = K!Nil /\ K!Top(o).curr = K!Nil

(* A call waits below another only while it ends or gives up a reference.   *)
LEMMA BelowIsKept ==
  ASSUME Known, NEW o \in K!Owners, NEW f, NEW x, NEW y, Steps(o, f, x, y),
         NEW u \in K!Owners, NEW i \in DOMAIN v6'[u]
  PROVE  Below(u, i)'
<1>1. /\ DOMAIN v6[u] = 1 .. Len(v6[u]) /\ Len(v6[u]) \in Nat
      /\ DOMAIN v6'[u] = 1 .. Len(v6'[u]) /\ Len(v6'[u]) \in Nat
      /\ Len(v6[u]) > 0 => K!Top(u) = v6[u][Len(v6[u])]
      /\ Len(v6'[u]) > 0 => K!Top(u)' = v6'[u][Len(v6'[u])]
  BY Domains DEF Steps, Known
<1>2. \A z \in K!Nodes : v1'[z] \in {v1[z], K!Nil}
  BY LinksAreKept
<1>3. SUFFICES ASSUME i < Len(v6'[u])
               PROVE  \/ v6'[u][i].pc = "free"
                      \/ /\ v6'[u][i].pc = "test" /\ i = Len(v6'[u]) - 1
                         /\ v1'[K!Top(u)'.node] = K!Nil /\ K!Top(u)'.curr = K!Nil
  BY DEF Below
<1>4. i \in DOMAIN v6[u] => Below(u, i)
  BY DEF Known, K!CallsInv, Below
<1>5. CASE u # o
  <2>1. v6'[u] = v6[u]
    BY <1>5 DEF Steps, Turns
  <2>2. Len(v6[u]) > 0 /\ K!Top(u)' = K!Top(u) /\ Below(u, i) /\ K!Top(u).node \in K!Nodes
    BY <1>1, <1>3, <1>4, <2>1, TopIs
  <2>3. QED
    BY <1>2, <1>3, <2>1, <2>2 DEF Below
<1>6. CASE u = o /\ Len(v6[o]) = 0
  <2>1. Len(v6'[o]) <= 1
    <3>1. /\ Pushes(x) => Len(v6'[o]) = Len(v6[o]) + 1
          /\ ~Pushes(x) => Len(v6'[o]) = Len(v6[o])
      BY DEF Steps, Turns
    <3>2. QED
      BY <1>1, <1>6, <3>1
  <2>2. QED
    BY <1>1, <1>3, <1>6, <2>1
<1>7. CASE u = o /\ Len(v6[o]) > 0 /\ ~Pushes(x)
  <2>1. /\ Len(v6'[o]) = Len(v6[o]) /\ v6'[o][Len(v6[o])] = f
        /\ f.node = K!Top(o).node /\ K!Top(o).node \in K!Nodes
        /\ K!Top(o).curr = K!Nil /\ v1[K!Top(o).node] = K!Nil => f.curr = K!Nil
    BY <1>7, TopIs DEF Steps, Turns, GoesOn
  <2>2. i \in DOMAIN v6[o] /\ i # Len(v6[o]) /\ K!Top(o)' = f
    BY <1>1, <1>3, <1>7, <2>1
  <2>3. v6'[o][i] = v6[o][i]
    BY <2>2, CallsStay
  <2>4. QED
    BY <1>2, <1>3, <1>4, <1>7, <2>1, <2>2, <2>3 DEF Below
<1>8. CASE u = o /\ Len(v6[o]) > 0 /\ Pushes(x)
  <2>1. /\ Len(v6'[o]) = Len(v6[o]) + 1 /\ v6'[o][Len(v6[o])] = f
        /\ v6'[o][Len(v6[o]) + 1] = K!Call(x)
        /\ K!Top(o).curr = x /\ (f.pc = "free" \/ (f.pc = "test" /\ v1'[x] = K!Nil)) /\ x # K!Nil
    BY <1>8 DEF Steps, Turns, GoesOn, Pushes
  <2>2. K!Top(o)' = K!Call(x) /\ K!Call(x).node = x /\ K!Call(x).curr = K!Nil
    BY <1>1, <1>8, <2>1 DEF K!Call
  <2>3. CASE i = Len(v6[o])
    BY <1>1, <1>8, <2>1, <2>2, <2>3
  <2>4. CASE i # Len(v6[o])
    <3>1. i \in DOMAIN v6[o] /\ i < Len(v6[o])
      BY <1>1, <1>3, <1>8, <2>1, <2>4
    <3>2. v6'[o][i] = v6[o][i]
      BY <2>4, <3>1, CallsStay
    <3>3. v6[o][i].pc = "free"
      BY <1>4, <1>8, <2>1, <3>1 DEF Below
    <3>4. QED
      BY <1>8, <3>2, <3>3
  <2>5. QED
    BY <2>3, <2>4
<1>9. QED
  BY <1>1, <1>5, <1>6, <1>7, <1>8

(* A step keeps what every call knows,                                      *)
LEMMA CallsAreKept ==
  ASSUME Known, NEW o \in K!Owners, NEW f, NEW x, NEW y, Steps(o, f, x, y)
  PROVE  K!CallsInv'
<1>1. ASSUME NEW u \in K!Owners, NEW j, j \in DOMAIN v6'[u]
      PROVE  \A g : g = v6'[u][j] => K!Knows(g)'
  <2>1. /\ j \in 1 .. Len(v6'[u]) /\ DOMAIN v6[u] = 1 .. Len(v6[u]) /\ Len(v6[u]) \in Nat
    BY <1>1, Domains DEF Steps, Known
  <2> SUFFICES ASSUME NEW g, g = v6'[u][j] PROVE K!Knows(g)'
    OBVIOUS
  <2>2. CASE /\ u # o \/ j < Len(v6[o])
             /\ j \in 1 .. Len(v6[u]) /\ v6'[u][j] = v6[u][j]
    <3>1. j \in DOMAIN v6[u] /\ (u # o \/ j # Len(v6[o])) /\ g = v6[u][j]
      BY <2>1, <2>2
    <3>2. K!Knows(g)'
      BY <3>1, KnowledgeIsKept
    <3>3. QED
      BY <3>2
  <2>3. CASE u = o /\ j = Len(v6[o]) /\ j > 0 /\ v6'[u][j] = f
    <3>1. K!Knows(f)'
      BY <2>3 DEF Steps, GoesOn
    <3>2. QED
      BY <2>3, <3>1
  <2>4. CASE Pushes(x) /\ v6'[u][j] = K!Call(x)
    <3>1. g.node = x /\ g.pc = "load" /\ g.curr = K!Nil /\ g.next_curr = K!Nil
      BY <2>4 DEF K!Call
    <3>2. x \in v3'
      <4>1. x \in K!Nodes /\ v2[x] > 0 /\ v3' = v3
        BY <2>4 DEF Pushes, Steps, Turns
      <4>2. QED
        BY <4>1 DEF Known, K!DeadInv
    <3>3. K!Knows(g)'
      BY <3>1, <3>2 DEF K!Knows
    <3>4. QED
      BY <3>3
  <2>5. QED
    BY <2>1, <2>2, <2>3, <2>4, FrameCases DEF Steps, Known
<1>2. QED
  BY <1>1, BelowIsKept DEF K!CallsInv, Below

(* and that only the call that deletes a node has cut its `next`;           *)
LEMMA OpenIsKept ==
  ASSUME Known, K!OpenInv, NEW o \in K!Owners, NEW f, NEW x, NEW y, Steps(o, f, x, y)
  PROVE  K!OpenInv'
<1>1. SUFFICES ASSUME NEW z \in v3' \ K!Destroyed', v1'[z] # v7'[z]
               PROVE  \E u \in K!Owners : \E j \in DOMAIN v6'[u] :
                        v6'[u][j].pc = "move" /\ v6'[u][j].curr = z
  BY DEF K!OpenInv
<1>2. v3' = v3 /\ v7' = v7 /\ z \in K!Nodes
  BY DEF Steps, Turns, Known, K!TypeOK
<1>3. z \notin K!Destroyed
  <2>1. SUFFICES ASSUME z \in K!Destroyed PROVE FALSE
    OBVIOUS
  <2>2. PICK u \in K!Owners : \E j \in DOMAIN v6[u] : v6[u][j].node = z
    BY <2>1, DestroyedAre
  <2>3. PICK j \in DOMAIN v6[u] : v6[u][j].node = z
    BY <2>2
  <2>4. QED
    BY <2>3, CallsStay, DestroyedAre
<1>4. CASE v1'[z] = v1[z]
  <2>1. PICK u \in K!Owners : \E j \in DOMAIN v6[u] : v6[u][j].pc = "move" /\ v6[u][j].curr = z
    BY <1>1, <1>2, <1>3, <1>4 DEF K!OpenInv
  <2>2. PICK j \in DOMAIN v6[u] : v6[u][j].pc = "move" /\ v6[u][j].curr = z
    BY <2>1
  <2>3. CASE u # o \/ j # Len(v6[o])
    BY <2>2, <2>3, CallsStay
  <2>4. CASE u = o /\ j = Len(v6[o])
    <3>1. Len(v6[o]) > 0 /\ K!Top(o) = v6[o][Len(v6[o])] /\ Len(v6[o]) \in Nat
      BY <2>4, Domains DEF Known
    <3>2. Pushes(x) /\ x = z
      BY <2>2, <2>4, <3>1 DEF Steps, GoesOn
    <3>3. Len(v6[o]) + 1 \in DOMAIN v6'[o] /\ v6'[o][Len(v6[o]) + 1].node = z
      BY <3>1, <3>2, Domains DEF Steps, Turns, K!Call
    <3>4. QED
      BY <3>3, DestroyedAre
  <2>5. QED
    BY <2>3, <2>4
<1>5. CASE v1'[z] # v1[z]
  <2>1. Len(v6[o]) > 0 /\ (z = K!Top(o).node \/ (f.pc = "move" /\ f.curr = z))
    BY <1>2, <1>5 DEF Steps, Cuts
  <2>2. Len(v6[o]) \in DOMAIN v6[o] /\ K!Top(o) = v6[o][Len(v6[o])]
    BY <2>1, Domains DEF Known
  <2>3. z # K!Top(o).node
    BY <1>3, <2>2, DestroyedAre
  <2>4. Len(v6[o]) \in DOMAIN v6'[o] /\ v6'[o][Len(v6[o])] = f
    BY <2>2, CallsStay
  <2>5. QED
    BY <2>1, <2>3, <2>4
<1>6. QED
  BY <1>4, <1>5

(* so an iterator finds the way on as it was.                               *)
LEMMA WaysAreOpen ==
  ASSUME Known, K!OpenInv
  PROVE  K!WaysStayOpen
<1>1. SUFFICES ASSUME NEW o \in Iterators, v4[o] # K!Nil, v1[v4[o]] # v7[v4[o]] PROVE FALSE
  BY DEF K!WaysStayOpen
<1>2. o \in K!Owners /\ v4[o] \in K!Nodes
  BY <1>1 DEF K!Owners, Known, K!TypeOK
<1>3. Val("hold", o, 0) = v4[o]
  BY <1>2, Values
<1>4. v4[o] \in v3 \ K!Destroyed
  BY <1>2, <1>3, HeldIsCounted DEF Known, K!DeadInv
<1>5. PICK u \in K!Owners : \E j \in DOMAIN v6[u] : v6[u][j].pc = "move" /\ v6[u][j].curr = v4[o]
  BY <1>1, <1>4 DEF K!OpenInv
<1>6. PICK j \in DOMAIN v6[u] : v6[u][j].pc = "move" /\ v6[u][j].curr = v4[o]
  BY <1>5
<1>7. v2[v4[o]] = 1
  <2>1. K!Knows(v6[u][j])
    BY DEF Known, K!CallsInv
  <2>2. QED
    BY <1>6, <2>1 DEF K!Knows
<1>8. Val("curr", u, j) = v4[o] /\ <<"curr", u, j>> # <<"hold", o, 0>>
  BY <1>6, Values
<1>9. QED
  BY <1>2, <1>3, <1>7, <1>8, TwoHolders DEF Known

-----------------------------------------------------------------------------
(* What the carried links are, as far as this proof needs it                *)
Behind(had, c) == c \in 2 .. Chain /\ (K!IsCut(c - 1, c) \/ (had /\ K!IsCut(K!Grave, c)))

Both(had, c) == had /\ K!IsCut(K!Grave, c) /\ K!IsCut(c - 1, c)

TokensAre(had) ==
  /\ K!Grave \in v3 => had
  /\ \A k, u, i, c : K!Carrying(k, u, i, c) => Behind(had, c)
  /\ \A k, u, i, l, w, j, c :
       K!Carrying(k, u, i, c) /\ K!Carrying(l, w, j, c) /\ <<k, u, i>> # <<l, w, j>> => Both(had, c)

(* What is carried is a node.                                               *)
LEMMA CarriedAreNodes ==
  /\ K!TypeOK => \A k, u, i, c : K!Carrying(k, u, i, c) => c \in K!Nodes
  /\ K!TypeOK' => \A k, u, i, c : K!Carrying(k, u, i, c)' => c \in K!Nodes
<1>1. /\ K!TypeOK => \A u \in K!Owners : \A i \in DOMAIN v6[u] : v6[u][i] \in K!Calls
      /\ K!TypeOK' => \A u \in K!Owners : \A i \in DOMAIN v6'[u] : v6'[u][i] \in K!Calls
  BY DEF K!TypeOK
<1>2. ASSUME K!TypeOK, NEW k, NEW u, NEW i, NEW c, K!Carrying(k, u, i, c)
      PROVE  c \in K!Nodes
  <2>1. v6[u][i].curr \in K!Nodes \cup {K!Nil} /\ v6[u][i].next_curr \in K!Nodes \cup {K!Nil}
    BY <1>1, <1>2, CallFields DEF K!Carrying
  <2>2. QED
    BY <1>2, <2>1 DEF K!Carrying, K!Carries, K!In
<1>3. ASSUME K!TypeOK', NEW k, NEW u, NEW i, NEW c, K!Carrying(k, u, i, c)'
      PROVE  c \in K!Nodes
  <2>1. v6'[u][i].curr \in K!Nodes \cup {K!Nil} /\ v6'[u][i].next_curr \in K!Nodes \cup {K!Nil}
    BY <1>1, <1>3, CallFields DEF K!Carrying
  <2>2. QED
    BY <1>3, <2>1 DEF K!Carrying, K!Carries, K!In
<1>4. QED
  BY <1>2, <1>3

(* These are TokenInv's tokens.                                             *)
LEMMA TokensAreTokens ==
  ASSUME NEW had
  PROVE  /\ K!TypeOK /\ K!TokenInv(had) => TokensAre(had)
         /\ TokensAre(had) => K!TokenInv(had)
         /\ TokensAre(had)' => K!TokenInv(had)'
<1>1. ASSUME K!TypeOK, K!TokenInv(had)
      PROVE  TokensAre(had)
  <2>1. ASSUME NEW k, NEW u, NEW i, NEW c, K!Carrying(k, u, i, c)
        PROVE  /\ Behind(had, c)
               /\ \A l, w, j : K!Carrying(l, w, j, c) /\ <<k, u, i>> # <<l, w, j>> => Both(had, c)
    <3>1. c \in K!Nodes /\ k \in {"curr", "next_curr"} /\ u \in K!Owners /\ i \in DOMAIN v6[u]
      BY <1>1, <2>1, CarriedAreNodes DEF K!Carrying
    <3>2. \A l, w, j : K!Carrying(l, w, j, c) => l \in {"curr", "next_curr"} /\ w \in K!Owners /\ j \in DOMAIN v6[w]
      BY DEF K!Carrying
    <3>3. QED
      BY <1>1, <2>1, <3>1, <3>2 DEF K!TokenInv, Behind, Both
  <2>2. QED
    BY <1>1, <2>1 DEF TokensAre, K!TokenInv
<1>2. TokensAre(had) => K!TokenInv(had)
  BY DEF TokensAre, K!TokenInv, Behind, Both
<1>3. TokensAre(had)' => K!TokenInv(had)'
  BY DEF TokensAre, K!TokenInv, Behind, Both
<1>4. QED
  BY <1>1, <1>2, <1>3

(* Call f's local k carries c.                                              *)
CarriesOn(f, k, c) ==
  /\ c # K!Nil
  /\ \/ k = "curr" /\ f.pc # "clear" /\ f.curr = c
     \/ k = "next_curr" /\ f.pc # "cut" /\ f.next_curr = c

(* Carrying, by the call                                                    *)
LEMMA CarryingIs ==
  ASSUME NEW k, NEW u \in K!Owners, NEW i, NEW c
  PROVE  /\ i \in DOMAIN v6[u] => (K!Carrying(k, u, i, c) <=> CarriesOn(v6[u][i], k, c))
         /\ i \in DOMAIN v6'[u] => (K!Carrying(k, u, i, c)' <=> CarriesOn(v6'[u][i], k, c))
  BY DEF K!Carrying, K!Carries, CarriesOn, K!In

(* What is carried was carried before, or the call that goes on carries it. *)
LEMMA CarryingNext ==
  ASSUME Known, NEW o \in K!Owners, NEW f, NEW x, NEW y, Steps(o, f, x, y),
         NEW k, NEW u, NEW i, NEW c, K!Carrying(k, u, i, c)'
  PROVE  \/ (u # o \/ i # Len(v6[o])) /\ K!Carrying(k, u, i, c)
         \/ u = o /\ i = Len(v6[o]) /\ Len(v6[o]) > 0 /\ CarriesOn(f, k, c)
<1>1. u \in K!Owners /\ i \in DOMAIN v6'[u] /\ CarriesOn(v6'[u][i], k, c)
  BY CarryingIs DEF K!Carrying
<1>2. i \in 1 .. Len(v6'[u]) /\ DOMAIN v6[u] = 1 .. Len(v6[u])
  BY <1>1, Domains DEF Steps, Known
<1>3. CASE /\ u # o \/ i < Len(v6[o])
           /\ i \in 1 .. Len(v6[u]) /\ v6'[u][i] = v6[u][i]
  <2>1. K!Carrying(k, u, i, c)
    BY <1>1, <1>2, <1>3, CarryingIs
  <2>2. QED
    BY <1>1, <1>3, <2>1
<1>4. CASE u = o /\ i = Len(v6[o]) /\ i > 0 /\ v6'[u][i] = f
  BY <1>1, <1>4
<1>5. CASE v6'[u][i] = K!Call(x)
  <2>1. K!Call(x).curr = K!Nil /\ K!Call(x).next_curr = K!Nil
    BY DEF K!Call
  <2>2. QED
    BY <1>1, <1>5, <2>1 DEF CarriesOn
<1>6. QED
  BY <1>1, <1>2, <1>3, <1>4, <1>5, FrameCases DEF Steps, Known

(* What the innermost call carries                                          *)
LEMMA CarryingTop ==
  ASSUME Known, NEW o \in K!Owners, Len(v6[o]) > 0, NEW k, NEW n, n = Len(v6[o]), NEW c
  PROVE  K!Carrying(k, o, n, c) <=> CarriesOn(K!Top(o), k, c)
<1>1. n \in DOMAIN v6[o] /\ v6[o][n] = K!Top(o)
  BY Domains DEF Known
<1>2. QED
  BY <1>1, CarryingIs

(* What is cut stays so.                                                    *)
LEMMA CutStays ==
  ASSUME Known, NEW o \in K!Owners, NEW f, NEW x, NEW y, Steps(o, f, x, y)
  PROVE  /\ \A z \in K!Nodes : \A c : c # K!Nil /\ K!IsCut(z, c) => K!IsCut(z, c)'
         /\ \A had, c : Behind(had, c) => Behind(had, c)'
         /\ \A had, c : c \in 2 .. Chain /\ Both(had, c) => Both(had, c)'
<1>1. \A z \in K!Nodes : v1'[z] \in {v1[z], K!Nil} /\ v7' = v7
  BY LinksAreKept DEF Steps, Turns
<1>2. \A z \in K!Nodes : \A c : c # K!Nil /\ K!IsCut(z, c) => K!IsCut(z, c)'
  BY <1>1 DEF K!IsCut
<1>3. K!Grave \in K!Nodes /\ \A c \in 2 .. Chain : c # K!Nil /\ c - 1 \in K!Nodes
  BY Constants
<1>4. QED
  BY <1>2, <1>3 DEF Behind, Both

(* A step that carries no more than was carried                             *)
LEMMA TokensStay ==
  ASSUME Known, NEW o \in K!Owners, NEW f, NEW x, NEW y, Steps(o, f, x, y), NEW had, TokensAre(had),
         Len(v6[o]) > 0 => \A k, c : CarriesOn(f, k, c) => CarriesOn(K!Top(o), k, c)
  PROVE  TokensAre(had)'
<1>1. \A k, u, i, c : K!Carrying(k, u, i, c)' => K!Carrying(k, u, i, c)
  BY CarryingNext, CarryingTop
<1>2. \A k, u, i, c : K!Carrying(k, u, i, c)' => Behind(had, c) /\ Behind(had, c)' /\ c \in 2 .. Chain
  BY <1>1, CutStays DEF TokensAre, Behind
<1>3. \A k, u, i, l, w, j, c :
        K!Carrying(k, u, i, c)' /\ K!Carrying(l, w, j, c)' /\ <<k, u, i>> # <<l, w, j>> => Both(had, c)'
  BY <1>1, <1>2, CutStays DEF TokensAre
<1>4. K!Grave \in v3' => had
  BY DEF TokensAre, Steps, Turns
<1>5. QED
  BY <1>2, <1>3, <1>4 DEF TokensAre

(* one that moves what its call carries from next_curr to curr              *)
LEMMA TokensMove ==
  ASSUME Known, NEW o \in K!Owners, NEW f, NEW x, NEW y, Steps(o, f, x, y), NEW had, TokensAre(had),
         Len(v6[o]) > 0,
         \A k, c : CarriesOn(f, k, c) => k = "curr" /\ CarriesOn(K!Top(o), "next_curr", c)
  PROVE  TokensAre(had)'
<1>0. PICK n : n = Len(v6[o])
  OBVIOUS
<1>1. \A k, u, i, c : K!Carrying(k, u, i, c)' =>
        \/ (u # o \/ i # n) /\ K!Carrying(k, u, i, c)
        \/ u = o /\ i = n /\ k = "curr" /\ K!Carrying("next_curr", o, n, c)
  BY <1>0, CarryingNext, CarryingTop
<1>2. \A k, u, i, c : K!Carrying(k, u, i, c)' => Behind(had, c) /\ Behind(had, c)' /\ c \in 2 .. Chain
  BY <1>1, CutStays DEF TokensAre, Behind
<1>3. ASSUME NEW k, NEW u, NEW i, NEW l, NEW w, NEW j, NEW c,
             K!Carrying(k, u, i, c)', K!Carrying(l, w, j, c)', <<k, u, i>> # <<l, w, j>>
      PROVE  Both(had, c)'
  <2>1. Both(had, c)
    <3>1. CASE (u # o \/ i # n) /\ K!Carrying(k, u, i, c)
      <4>1. CASE (w # o \/ j # n) /\ K!Carrying(l, w, j, c)
        BY <1>3, <3>1, <4>1 DEF TokensAre
      <4>2. CASE w = o /\ j = n /\ K!Carrying("next_curr", o, n, c)
        <5>1. <<k, u, i>> # <<"next_curr", o, n>>
          BY <3>1
        <5>2. QED
          BY <3>1, <4>2, <5>1 DEF TokensAre
      <4>3. QED
        BY <1>1, <1>3, <4>1, <4>2
    <3>2. CASE u = o /\ i = n /\ k = "curr" /\ K!Carrying("next_curr", o, n, c)
      <4>1. (w # o \/ j # n) /\ K!Carrying(l, w, j, c)
        BY <1>1, <1>3, <3>2
      <4>2. <<l, w, j>> # <<"next_curr", o, n>>
        BY <4>1
      <4>3. QED
        BY <3>2, <4>1, <4>2 DEF TokensAre
    <3>3. QED
      BY <1>1, <1>3, <3>1, <3>2
  <2>2. QED
    BY <1>2, <1>3, <2>1, CutStays
<1>4. K!Grave \in v3' => had
  BY DEF TokensAre, Steps, Turns
<1>5. QED
  BY <1>2, <1>3, <1>4 DEF TokensAre

(* and one that cuts the `next` of z, whose end local m carries then.       *)
CarriesCut(o, f, z, m) ==
  \A k, c : CarriesOn(f, k, c) => CarriesOn(K!Top(o), k, c) \/ (k = m /\ c = v1[z])

LEMMA TokensCut ==
  ASSUME Known, NEW o \in K!Owners, NEW f, NEW x, NEW y, Steps(o, f, x, y), NEW had, TokensAre(had),
         Len(v6[o]) > 0, NEW z \in v3, NEW m, v1'[z] = K!Nil, CarriesCut(o, f, z, m)
  PROVE  TokensAre(had)'
<1>0. PICK n, e : n = Len(v6[o]) /\ e = v1[z]
  OBVIOUS
<1>1. \A k, u, i, c : K!Carrying(k, u, i, c)' =>
        K!Carrying(k, u, i, c) \/ (<<k, u, i>> = <<m, o, n>> /\ c = e)
  BY <1>0, CarryingNext, CarryingTop DEF CarriesCut
<1>2. z \in K!Nodes /\ v3' = v3 /\ v7' = v7 /\ e = v1[z] /\ v1'[z] = K!Nil
  BY <1>0 DEF Known, K!TypeOK, Steps, Turns
(* The link that is cut is one of the two that lead to its end.             *)
<1>3. e # K!Nil =>
        /\ e \in 2 .. Chain /\ v7[z] = e /\ K!IsCut(z, e)'
        /\ z = e - 1 \/ (z = K!Grave /\ had)
  <2>1. SUFFICES ASSUME e # K!Nil
                 PROVE  /\ e \in 2 .. Chain /\ v7[z] = e
                        /\ z = e - 1 \/ (z = K!Grave /\ had)
    BY <1>2 DEF K!IsCut
  <2>2. /\ v7[z] = e /\ v7[Chain] = K!Nil /\ v7[K!Grave] \in (2 .. Chain) \cup {K!Nil}
        /\ \A w \in 1 .. Chain - 1 : v7[w] = w + 1
    BY <1>2, <2>1 DEF Known, K!LinksInv
  <2>3. z \in 1 .. Chain - 1 \/ z = Chain \/ z = K!Grave
    BY <1>2, Constants DEF K!Nodes
  <2>4. CASE z \in 1 .. Chain - 1
    BY <2>2, <2>4, Constants
  <2>5. CASE z = Chain
    BY <2>1, <2>2, <2>5
  <2>6. CASE z = K!Grave
    BY <2>1, <2>2, <2>6 DEF TokensAre
  <2>7. QED
    BY <2>3, <2>4, <2>5, <2>6
<1>4. e # K!Nil => Behind(had, e)'
  BY <1>3 DEF Behind
<1>5. \A k, u, i, c : K!Carrying(k, u, i, c)' => Behind(had, c)' /\ c # K!Nil /\ c \in 2 .. Chain
  <2>1. \A k, u, i, c : K!Carrying(k, u, i, c)' => c # K!Nil
    BY DEF K!Carrying
  <2>2. \A k, u, i, c : K!Carrying(k, u, i, c) => Behind(had, c)' /\ c \in 2 .. Chain
    BY CutStays DEF TokensAre, Behind
  <2>3. QED
    BY <1>1, <1>3, <1>4, <2>1, <2>2
(* Who carried its end before had it from the other one.                    *)
<1>6. \A k, u, i : e # K!Nil /\ K!Carrying(k, u, i, e) => Both(had, e)'
  <2>1. SUFFICES ASSUME NEW k, NEW u, NEW i, e # K!Nil, K!Carrying(k, u, i, e)
                 PROVE  Both(had, e)'
    OBVIOUS
  <2>2. Behind(had, e) /\ Behind(had, e)'
    BY <2>1, CutStays DEF TokensAre
  <2>3. ~K!IsCut(z, e)
    BY <1>2 DEF K!IsCut
  <2>4. QED
    BY <1>3, <2>1, <2>2, <2>3, CutStays, Constants DEF Behind, Both
<1>7. ASSUME NEW k, NEW u, NEW i, NEW l, NEW w, NEW j, NEW c,
             K!Carrying(k, u, i, c)', K!Carrying(l, w, j, c)', <<k, u, i>> # <<l, w, j>>
      PROVE  Both(had, c)'
  <2>1. CASE K!Carrying(k, u, i, c) /\ K!Carrying(l, w, j, c)
    BY <1>5, <1>7, <2>1, CutStays DEF TokensAre
  <2>2. CASE ~(K!Carrying(k, u, i, c) /\ K!Carrying(l, w, j, c))
    BY <1>1, <1>5, <1>6, <1>7, <2>2
  <2>3. QED
    BY <2>1, <2>2
<1>8. K!Grave \in v3' => had
  BY <1>2 DEF TokensAre
<1>9. QED
  BY <1>5, <1>7, <1>8 DEF TokensAre

(* How deep the calls are nested                                            *)
LEMMA Sizes ==
  /\ \A n \in Nat : n = 0 \/ n = 1 \/ n >= 2
  /\ \A n \in Nat : n > 0 => n = 1 \/ n >= 2
  /\ \A n, m : n = 0 /\ (m = n + 1 \/ m = n) => m <= 1
  OBVIOUS

(* Depth, by the length of the stack                                        *)
LEMMA DepthIs ==
  /\ K!TypeOK => \A u \in K!Owners :
       /\ K!Depth(u) \in Nat /\ Len(v6[u]) \in Nat /\ Len(v6[u]) <= K!Depth(u) + 2
       /\ Len(v6[u]) <= 1 => K!Depth(u) = 0
       /\ Len(v6[u]) >= 2 =>
            K!Depth(u) = IF v6[u][Len(v6[u]) - 1].pc = "test" THEN Len(v6[u]) - 2 ELSE Len(v6[u]) - 1
  /\ K!TypeOK' => \A u \in K!Owners :
       /\ K!Depth(u)' \in Nat /\ Len(v6'[u]) \in Nat /\ Len(v6'[u]) <= K!Depth(u)' + 2
       /\ Len(v6'[u]) <= 1 => K!Depth(u)' = 0
       /\ Len(v6'[u]) >= 2 =>
            K!Depth(u)' = IF v6'[u][Len(v6'[u]) - 1].pc = "test" THEN Len(v6'[u]) - 2 ELSE Len(v6'[u]) - 1
<1>1. ASSUME K!TypeOK, NEW u \in K!Owners
      PROVE  /\ K!Depth(u) \in Nat /\ Len(v6[u]) \in Nat /\ Len(v6[u]) <= K!Depth(u) + 2
             /\ Len(v6[u]) <= 1 => K!Depth(u) = 0
             /\ Len(v6[u]) >= 2 =>
                  K!Depth(u) = IF v6[u][Len(v6[u]) - 1].pc = "test" THEN Len(v6[u]) - 2 ELSE Len(v6[u]) - 1
  <2>1. Len(v6[u]) \in Nat /\ (v6[u] = <<>> <=> Len(v6[u]) = 0)
    BY <1>1, TopTypes
  <2>2. CASE Len(v6[u]) = 0
    BY <2>1, <2>2 DEF K!Depth
  <2>3. CASE Len(v6[u]) = 1
    BY <2>1, <2>3 DEF K!Depth
  <2>4. CASE Len(v6[u]) >= 2
    BY <2>1, <2>4 DEF K!Depth
  <2>5. Len(v6[u]) = 0 \/ Len(v6[u]) = 1 \/ Len(v6[u]) >= 2
    BY <2>1, Sizes
  <2>6. QED
    BY <2>2, <2>3, <2>4, <2>5
<1>2. ASSUME K!TypeOK', NEW u \in K!Owners
      PROVE  /\ K!Depth(u)' \in Nat /\ Len(v6'[u]) \in Nat /\ Len(v6'[u]) <= K!Depth(u)' + 2
             /\ Len(v6'[u]) <= 1 => K!Depth(u)' = 0
             /\ Len(v6'[u]) >= 2 =>
                  K!Depth(u)' = IF v6'[u][Len(v6'[u]) - 1].pc = "test" THEN Len(v6'[u]) - 2
                              ELSE Len(v6'[u]) - 1
  <2>1. Len(v6'[u]) \in Nat /\ (v6'[u] = <<>> <=> Len(v6'[u]) = 0)
    <3>1. v6'[u] \in Seq(K!Calls)
      BY <1>2 DEF K!TypeOK
    <3>2. QED
      BY <3>1, EmptySeq
  <2>2. CASE Len(v6'[u]) = 0
    BY <2>1, <2>2 DEF K!Depth
  <2>3. CASE Len(v6'[u]) = 1
    BY <2>1, <2>3 DEF K!Depth
  <2>4. CASE Len(v6'[u]) >= 2
    BY <2>1, <2>4 DEF K!Depth
  <2>5. Len(v6'[u]) = 0 \/ Len(v6'[u]) = 1 \/ Len(v6'[u]) >= 2
    BY <2>1, Sizes
  <2>6. QED
    BY <2>2, <2>3, <2>4, <2>5
<1>3. QED
  BY <1>1, <1>2

(* A step that begins no call within a call leaves the depth.               *)
LEMMA DepthStays ==
  ASSUME Known, NEW o \in K!Owners, NEW f, NEW x, NEW y, Steps(o, f, x, y), NEW u \in K!Owners,
         u # o \/ ~Pushes(x) \/ Len(v6[o]) = 0
  PROVE  K!Depth(u)' = K!Depth(u) /\ (K!Passed(u) => K!Passed(u)')
<1>1. v7' = v7
  BY DEF Steps, Turns
<1>2. CASE u # o
  <2>1. v6'[u] = v6[u]
    BY <1>2 DEF Steps, Turns
  <2>2. QED
    BY <1>1, <2>1 DEF K!Depth, K!Passed
<1>3. CASE u = o /\ Len(v6[o]) = 0
  <2>1. Len(v6'[o]) <= 1
    <3>1. /\ Pushes(x) => Len(v6'[o]) = Len(v6[o]) + 1
          /\ ~Pushes(x) => Len(v6'[o]) = Len(v6[o])
      BY DEF Steps, Turns
    <3>2. QED
      BY <1>3, <3>1, Sizes
  <2>2. K!Depth(u) = 0 /\ K!Depth(u)' = 0
    BY <1>3, <2>1, DepthIs DEF Known, Steps
  <2>3. ~K!Passed(u)
    BY <1>3 DEF K!Passed
  <2>4. QED
    BY <2>2, <2>3
<1>4. CASE u = o /\ ~Pushes(x) /\ Len(v6[o]) > 0
  <2>1. /\ Len(v6[o]) \in Nat /\ DOMAIN v6[o] = 1 .. Len(v6[o])
        /\ Len(v6'[o]) = Len(v6[o])
    BY <1>4, Domains DEF Known, Steps, Turns
  <2>2. \A i \in 1 .. Len(v6[o]) - 1 : v6'[o][i] = v6[o][i]
    BY DEF Steps, Turns
  <2>3. K!Depth(u)' = K!Depth(u)
    <3>1. CASE Len(v6[o]) <= 1
      BY <1>4, <2>1, <3>1, DepthIs DEF Known, Steps
    <3>2. CASE Len(v6[o]) >= 2
      <4>1. v6'[o][Len(v6[o]) - 1] = v6[o][Len(v6[o]) - 1]
        BY <2>1, <2>2, <3>2
      <4>2. QED
        BY <1>4, <2>1, <3>2, <4>1, DepthIs DEF Known, Steps
    <3>3. QED
      BY <2>1, <3>1, <3>2
  <2>4. ASSUME K!Passed(u)
        PROVE  K!Passed(u)'
    <3>1. PICK i \in 1 .. Len(v6[o]) - 1 : v6[o][i].pc = "free" /\ v6[o][i + 1].node = v7[K!Grave]
      BY <1>4, <2>4 DEF K!Passed
    <3>2. i + 1 \in DOMAIN v6[o] /\ v6'[o][i] = v6[o][i]
      BY <2>1, <2>2, <3>1
    <3>3. v6'[o][i + 1].node = v6[o][i + 1].node
      BY <3>2, CallsStay
    <3>4. QED
      BY <1>1, <1>4, <2>1, <3>1, <3>2, <3>3, Constants DEF K!Passed
  <2>5. QED
    BY <2>3, <2>4
<1>5. QED
  <2>1. Len(v6[o]) \in Nat
    BY Domains DEF Known
  <2>2. QED
    BY <1>2, <1>3, <1>4, <2>1

(* A call within a call                                                     *)
LEMMA DepthGrows ==
  ASSUME Known, NEW o \in K!Owners, NEW f, NEW x,
         NEW y, Steps(o, f, x, y), Pushes(x), Len(v6[o]) > 0
  PROVE  /\ K!Depth(o)' = IF f.pc = "test" THEN K!Depth(o) ELSE K!Depth(o) + 1
         /\ K!Passed(o) => K!Passed(o)'
         /\ f.pc = "free" /\ x = v7[K!Grave] => K!Passed(o)'
<1>1. /\ Len(v6[o]) \in Nat /\ DOMAIN v6[o] = 1 .. Len(v6[o]) /\ v7' = v7
      /\ Len(v6'[o]) = Len(v6[o]) + 1 /\ v6'[o][Len(v6[o])] = f
      /\ v6'[o][Len(v6[o]) + 1] = K!Call(x) /\ K!Top(o).curr = x /\ x # K!Nil
  BY Domains DEF Known, Steps, Turns, GoesOn, Pushes
<1>2. \A i \in 1 .. Len(v6[o]) - 1 : v6'[o][i] = v6[o][i]
  BY DEF Steps, Turns
<1>3. K!Depth(o) = Len(v6[o]) - 1
  <2>1. CASE Len(v6[o]) = 1
    <3>1. Len(v6[o]) <= 1 /\ Len(v6[o]) - 1 = 0
      BY <2>1
    <3>2. QED
      BY <3>1, DepthIs DEF Known
  <2>2. CASE Len(v6[o]) >= 2
    <3>1. PICK n : n = Len(v6[o]) - 1
      OBVIOUS
    <3>2. n \in DOMAIN v6[o] /\ n < Len(v6[o])
      BY <1>1, <2>2, <3>1
    <3>3. \/ v6[o][n].pc = "free"
          \/ v1[K!Top(o).node] = K!Nil /\ K!Top(o).curr = K!Nil
      BY <3>2 DEF Known, K!CallsInv
    <3>4. v6[o][n].pc = "free"
      BY <1>1, <3>3, NilIsNoNode
    <3>5. QED
      BY <2>2, <3>1, <3>4, DepthIs DEF Known
  <2>3. Len(v6[o]) = 1 \/ Len(v6[o]) >= 2
    BY <1>1, Sizes
  <2>4. QED
    BY <2>1, <2>2, <2>3
<1>4. K!Depth(o)' = IF f.pc = "test" THEN Len(v6[o]) - 1 ELSE Len(v6[o])
  <2>1. Len(v6'[o]) >= 2 /\ Len(v6'[o]) - 1 = Len(v6[o]) /\ Len(v6'[o]) - 2 = Len(v6[o]) - 1
    BY <1>1
  <2>2. v6'[o][Len(v6'[o]) - 1] = f
    BY <1>1, <2>1
  <2>3. QED
    BY <2>1, <2>2, DepthIs DEF Steps
<1>5. ASSUME K!Passed(o)
      PROVE  K!Passed(o)'
  <2>1. PICK i \in 1 .. Len(v6[o]) - 1 : v6[o][i].pc = "free" /\ v6[o][i + 1].node = v7[K!Grave]
    BY <1>5 DEF K!Passed
  <2>2. i + 1 \in DOMAIN v6[o] /\ v6'[o][i] = v6[o][i] /\ i \in 1 .. Len(v6'[o]) - 1
    BY <1>1, <1>2, <2>1
  <2>3. v6'[o][i + 1].node = v6[o][i + 1].node
    BY <2>2, CallsStay
  <2>4. QED
    BY <1>1, <2>1, <2>2, <2>3 DEF K!Passed
<1>6. ASSUME f.pc = "free", x = v7[K!Grave]
      PROVE  K!Passed(o)'
  <2>1. Len(v6[o]) \in 1 .. Len(v6'[o]) - 1 /\ K!Call(x).node = x
    BY <1>1 DEF K!Call
  <2>2. QED
    BY <1>1, <1>6, <2>1 DEF K!Passed
<1>7. QED
  BY <1>1, <1>3, <1>4, <1>5, <1>6

(* Owner u is about to give up the last reference to c.                     *)
Drops(u, c) ==
  Len(v6[u]) > 0 /\ K!Top(u).pc = "drop" /\ K!Top(u).curr = c /\ c # K!Nil /\ v2[c] = 1

(* BudgetInv for owner u                                                    *)
Affords(had, u) ==
  /\ K!Depth(u) <= v8 /\ (K!Late(had, u) => K!Depth(u) + 1 <= v8)
  /\ \A c : Drops(u, c) =>
       /\ K!Depth(u) + 1 <= v8
       /\ K!Late(had, u) /\ c # v7[K!Grave] => K!Depth(u) + 2 <= v8

(* BudgetInv is that every owner affords the calls it is in.                *)
LEMMA AffordsIs ==
  ASSUME NEW had
  PROVE  /\ K!TypeOK /\ K!BudgetInv(had) => \A u \in K!Owners : Affords(had, u)
         /\ K!TypeOK' /\ (\A u \in K!Owners : Affords(had, u)') => K!BudgetInv(had)'
<1>1. /\ K!TypeOK => \A u \in K!Owners : v6[u] # <<>> <=> Len(v6[u]) > 0
      /\ K!TypeOK' => \A u \in K!Owners : v6'[u] # <<>> <=> Len(v6'[u]) > 0
  <2>1. \A s \in Seq(K!Calls) : s # <<>> <=> Len(s) > 0
    BY EmptySeq
  <2>2. /\ K!TypeOK => \A u \in K!Owners : v6[u] \in Seq(K!Calls)
        /\ K!TypeOK' => \A u \in K!Owners : v6'[u] \in Seq(K!Calls)
    BY DEF K!TypeOK
  <2>3. QED
    BY <2>1, <2>2
<1>2. ASSUME K!TypeOK, K!BudgetInv(had), NEW u \in K!Owners
      PROVE  Affords(had, u)
  <2>1. /\ K!Depth(u) <= v8 /\ (K!Late(had, u) => K!Depth(u) + 1 <= v8)
        /\ K!At(u, "drop") /\ K!Top(u).curr # K!Nil /\ v2[K!Top(u).curr] = 1 =>
             /\ K!Depth(u) + 1 <= v8
             /\ K!Late(had, u) /\ K!Top(u).curr # v7[K!Grave] => K!Depth(u) + 2 <= v8
    BY <1>2 DEF K!BudgetInv
  <2>2. \A c : Drops(u, c) => K!At(u, "drop") /\ K!Top(u).curr # K!Nil /\ v2[K!Top(u).curr] = 1 /\ K!Top(u).curr = c
    BY <1>1, <1>2 DEF Drops, K!At
  <2>3. QED
    BY <2>1, <2>2 DEF Affords
<1>3. ASSUME K!TypeOK', \A u \in K!Owners : Affords(had, u)'
      PROVE  K!BudgetInv(had)'
  <2>1. SUFFICES ASSUME NEW u \in K!Owners
                 PROVE  /\ K!Depth(u)' <= v8' /\ (K!Late(had, u)' => K!Depth(u)' + 1 <= v8')
                        /\ K!At(u, "drop")' /\ K!Top(u)'.curr # K!Nil /\ v2'[K!Top(u)'.curr] = 1 =>
                             /\ K!Depth(u)' + 1 <= v8'
                             /\ K!Late(had, u)' /\ K!Top(u)'.curr # v7'[K!Grave] => K!Depth(u)' + 2 <= v8'
    BY DEF K!BudgetInv
  <2>2. /\ K!Depth(u)' <= v8' /\ (K!Late(had, u)' => K!Depth(u)' + 1 <= v8')
        /\ \A c : Drops(u, c)' =>
             /\ K!Depth(u)' + 1 <= v8'
             /\ K!Late(had, u)' /\ c # v7'[K!Grave] => K!Depth(u)' + 2 <= v8'
    BY <1>3, <2>1 DEF Affords
  <2>3. PICK c : c = K!Top(u)'.curr
    OBVIOUS
  <2>4. K!At(u, "drop")' /\ K!Top(u)'.curr # K!Nil /\ v2'[K!Top(u)'.curr] = 1 => Drops(u, c)'
    BY <1>1, <1>3, <2>1, <2>3 DEF Drops, K!At
  <2>5. QED
    BY <2>2, <2>3, <2>4
<1>4. QED
  BY <1>2, <1>3

(* A surplus that has been used stays so.                                   *)
LEMMA PassedStays ==
  ASSUME Known, NEW o \in K!Owners, NEW f, NEW x, NEW y, Steps(o, f, x, y),
         NEW u \in K!Owners, K!Passed(u)
  PROVE  K!Passed(u)'
<1>1. CASE u # o \/ ~Pushes(x) \/ Len(v6[o]) = 0
  BY <1>1, DepthStays
<1>2. CASE u = o /\ Pushes(x) /\ Len(v6[o]) # 0
  <2>1. Len(v6[o]) > 0
    BY <1>2, Domains, Sizes DEF Known
  <2>2. QED
    BY <1>2, <2>1, DepthGrows
<1>3. QED
  BY <1>1, <1>2

(* The erased node's end is the last call of its kind.                      *)
LEMMA LateNext ==
  ASSUME Known, NEW o \in K!Owners, NEW f, NEW x, NEW y, Steps(o, f, x, y), NEW u \in K!Owners,
         NEW had, K!Late(had, u)'
  PROVE  K!Late(had, u) \/ (Pushes(x) /\ x = K!Grave)
<1>1. had /\ ~K!Passed(u) /\ v3' = v3
  BY PassedStays DEF K!Late, Steps, Turns
<1>2. K!Grave \in K!Destroyed' => K!Grave \in K!Destroyed \/ (Pushes(x) /\ x = K!Grave)
  <2>1. SUFFICES ASSUME K!Grave \in K!Destroyed' PROVE K!Grave \in K!Destroyed \/ (Pushes(x) /\ x = K!Grave)
    OBVIOUS
  <2>2. PICK w \in K!Owners : \E j \in DOMAIN v6'[w] : v6'[w][j].node = K!Grave
    BY <2>1, DestroyedAre
  <2>3. PICK j \in DOMAIN v6'[w] : v6'[w][j].node = K!Grave
    BY <2>2
  <2>4. CASE j \in DOMAIN v6[w] /\ v6'[w][j].node = v6[w][j].node
    BY <2>3, <2>4, DestroyedAre
  <2>5. CASE Pushes(x) /\ v6'[w][j].node = x
    BY <2>3, <2>5
  <2>6. QED
    BY <2>4, <2>5, CallCases
<1>3. QED
  BY <1>1, <1>2 DEF K!Late

(* Who is about to give up a last reference, after a step                   *)
LEMMA DropNext ==
  ASSUME Known, NEW o \in K!Owners, NEW f, NEW x, NEW y, Steps(o, f, x, y), NEW u \in K!Owners,
         NEW c, Drops(u, c)'
  PROVE  \/ u = o /\ ~Pushes(x) /\ Len(v6[o]) > 0 /\ f.pc = "drop" /\ f.curr = c /\ v2'[c] = 1 /\ c # K!Nil
         \/ u # o /\ Drops(u, c)
         \/ /\ u # o /\ c = x /\ v2[x] = 2
            /\ Len(v6[u]) > 0 /\ K!Top(u).pc = "drop" /\ K!Top(u).curr = x
<1>1. Len(v6'[u]) > 0 /\ K!Top(u)'.pc = "drop" /\ K!Top(u)'.curr = c /\ c # K!Nil /\ v2'[c] = 1
  BY DEF Drops
<1>2. /\ Len(v6[u]) > 0 => K!Top(u) = v6[u][Len(v6[u])]
      /\ K!Top(u)' = v6'[u][Len(v6'[u])] /\ Len(v6[u]) \in Nat /\ Len(v6'[u]) \in Nat
  BY <1>1, Domains DEF Known, Steps
<1>3. CASE u # o
  <2>1. v6'[u] = v6[u]
    BY <1>3 DEF Steps, Turns
  <2>2. Len(v6[u]) > 0 /\ K!Top(u)' = K!Top(u)
    BY <1>1, <1>2, <2>1
  <2>3. c \in K!Nodes
    BY <1>1, <2>2, TopIs
  <2>4. v2[c] = 1 \/ (c = x /\ v2[c] = 2)
    <3>1. CASE c = x
      BY <1>1, <2>3, <3>1, CountNext
    <3>2. CASE c = y
      BY <1>1, <2>3, <3>2, CountNext
    <3>3. CASE c # x /\ c # y
      BY <1>1, <2>3, <3>3, CountNext
    <3>4. QED
      BY <3>1, <3>2, <3>3
  <2>5. QED
    BY <1>1, <1>3, <2>2, <2>4 DEF Drops
<1>4. CASE u = o /\ Pushes(x)
  <2>1. Len(v6'[o]) = Len(v6[o]) + 1 /\ v6'[o][Len(v6[o]) + 1] = K!Call(x)
    BY <1>4 DEF Steps, Turns
  <2>2. K!Top(o)' = K!Call(x)
    BY <1>2, <1>4, <2>1
  <2>3. QED
    BY <1>1, <1>4, <2>2 DEF K!Call
<1>5. CASE u = o /\ ~Pushes(x)
  <2>1. Len(v6'[o]) = Len(v6[o])
    BY <1>5 DEF Steps, Turns
  <2>2. Len(v6[o]) > 0
    BY <1>1, <1>5, <2>1
  <2>3. v6'[o][Len(v6[o])] = f
    BY <2>2 DEF Steps, Turns
  <2>4. K!Top(o)' = f
    BY <1>2, <1>5, <2>1, <2>3
  <2>5. QED
    BY <1>1, <1>5, <2>2, <2>4
<1>6. QED
  BY <1>3, <1>4, <1>5

(* What an owner gives up in a step, and where it stands then               *)
Spends(o, f, x) ==
  /\ Len(v6[o]) = 0 => x \in {K!Nil, 1} \/ v8' >= v8 + 1
  /\ Len(v6[o]) > 0 /\ f.pc = "drop" => f.curr = K!Nil \/ v2'[f.curr] # 1
  /\ Len(v6[o]) > 0 /\ x # K!Nil =>
       \/ K!Top(o).pc = "move" /\ f.pc = "test" /\ Pushes(x)
       \/ K!Top(o).pc = "drop" /\ f.pc = "free" /\ K!Top(o).curr = x
       \/ ~Pushes(x) /\ \E k \in {"curr", "next_curr"} : \E z, n :
                          Val(k, o, n) = x /\ Val("next", z, 0) = x

(* What the innermost call carries, and when another one carries it too     *)
LEMMA CarriedIs ==
  ASSUME Known, NEW had, TokensAre(had), NEW u \in K!Owners, Len(v6[u]) > 0, K!Top(u).pc # "clear",
         K!Top(u).curr # K!Nil
  PROVE  /\ K!Top(u).curr \in 2 .. Chain /\ K!Top(u).curr # K!Grave /\ K!Top(u).curr # 1
         /\ \A w \in K!Owners : w # u /\ Len(v6[w]) > 0 /\ K!Top(w).pc # "clear" /\ K!Top(w).curr = K!Top(u).curr
              => Both(had, K!Top(u).curr)
<1>1. \A w \in K!Owners : Len(v6[w]) > 0 /\ K!Top(w).pc # "clear" /\ K!Top(w).curr # K!Nil =>
        \E n : K!Carrying("curr", w, n, K!Top(w).curr)
  BY CarryingTop DEF CarriesOn
<1>2. K!Top(u).curr \in 2 .. Chain
  BY <1>1 DEF TokensAre, Behind
<1>3. K!Top(u).curr # K!Grave /\ K!Top(u).curr # 1
  BY <1>2, Constants
<1>4. ASSUME NEW w \in K!Owners, w # u, Len(v6[w]) > 0, K!Top(w).pc # "clear", K!Top(w).curr = K!Top(u).curr
      PROVE  Both(had, K!Top(u).curr)
  <2>1. PICK n, m : K!Carrying("curr", u, n, K!Top(u).curr) /\ K!Carrying("curr", w, m, K!Top(u).curr)
    BY <1>1, <1>4
  <2>2. <<"curr", u, n>> # <<"curr", w, m>>
    BY <1>4
  <2>3. QED
    BY <2>1, <2>2 DEF TokensAre
<1>5. QED
  BY <1>2, <1>3, <1>4

(* Once both links to a node are cut and its destructor has not begun, the  *)
(* erased node has ended, and no call is within the one of that node.       *)
LEMMA BothIsLate ==
  ASSUME Known, K!OpenInv, NEW had, TokensAre(had), NEW c \in K!Nodes, Both(had, c), v2[c] > 0,
         NEW u \in K!Owners
  PROVE  K!Late(had, u) /\ c = v7[K!Grave]
<1>1. had /\ v7[K!Grave] = c /\ v1[K!Grave] # c
  BY DEF Both, K!IsCut
<1>2. K!Grave \notin v3 \ K!Destroyed
  <2>1. SUFFICES ASSUME K!Grave \in v3 \ K!Destroyed PROVE FALSE
    OBVIOUS
  <2>2. PICK w \in K!Owners : \E j \in DOMAIN v6[w] : v6[w][j].pc = "move" /\ v6[w][j].curr = K!Grave
    BY <1>1, <2>1 DEF K!OpenInv
  <2>3. PICK j \in DOMAIN v6[w] : v6[w][j].pc = "move" /\ v6[w][j].curr = K!Grave
    BY <2>2
  <2>4. K!Carrying("curr", w, j, K!Grave)
    BY <2>3, CarryingIs, Constants DEF CarriesOn
  <2>5. K!Grave \in 2 .. Chain
    BY <2>4 DEF TokensAre, Behind
  <2>6. QED
    BY <2>5, Constants
<1>3. ~K!Passed(u)
  <2>1. SUFFICES ASSUME K!Passed(u) PROVE FALSE
    OBVIOUS
  <2>2. PICK i \in 1 .. Len(v6[u]) - 1 : v6[u][i + 1].node = c
    BY <1>1, <2>1 DEF K!Passed
  <2>3. i + 1 \in DOMAIN v6[u]
    BY <2>2, Domains DEF Known
  <2>4. c \in K!Destroyed
    BY <2>2, <2>3, DestroyedAre
  <2>5. QED
    BY <2>4 DEF Known, K!DeadInv
<1>4. QED
  BY <1>1, <1>2, <1>3 DEF K!Late

(* A node that o gives up while u holds on to it                            *)
LEMMA SpentIs ==
  ASSUME Known, K!OpenInv, NEW had, TokensAre(had), NEW o \in K!Owners, NEW f, NEW x, NEW y,
         Steps(o, f, x, y), Spends(o, f, x),
         NEW u \in K!Owners, u # o, v2[x] = 2, Len(v6[u]) > 0, K!Top(u).pc = "drop",
         K!Top(u).curr = x, x # K!Nil
  PROVE  v8' >= v8 + 1 \/ (K!Late(had, u) /\ x = v7[K!Grave])
<1>1. x \in K!Nodes /\ x # 1
  BY CarriedIs DEF Steps
<1>2. CASE Len(v6[o]) = 0
  BY <1>1, <1>2 DEF Spends
<1>3. CASE Len(v6[o]) > 0
  <2>1. CASE Pushes(x)
    BY <2>1 DEF Pushes
  <2>2. CASE K!Top(o).pc = "drop" /\ K!Top(o).curr = x
    <3>1. Both(had, x)
      BY <1>3, <2>2, CarriedIs
    <3>2. v2[x] > 0
      OBVIOUS
    <3>3. QED
      BY <1>1, <3>1, <3>2, BothIsLate
  <2>3. CASE \E k \in {"curr", "next_curr"} : \E z, n : Val(k, o, n) = x /\ Val("next", z, 0) = x
    <3>1. PICK k \in {"curr", "next_curr"} : \E z, n : Val(k, o, n) = x /\ Val("next", z, 0) = x
      BY <2>3
    <3>2. PICK z, n : Val(k, o, n) = x /\ Val("next", z, 0) = x
      BY <3>1
    <3>3. PICK m : Val("curr", u, m) = x
      BY TopIs
    <3>4. /\ <<"curr", u, m>> # <<k, o, n>> /\ <<"next", z, 0>> # <<k, o, n>>
          /\ <<"curr", u, m>> # <<"next", z, 0>>
      BY <3>1
    <3>5. v2[x] >= 3
      BY <1>1, <3>2, <3>3, <3>4, HeldIsCounted DEF Known
    <3>6. QED
      BY <3>5
  <2>4. QED
    BY <1>3, <2>1, <2>2, <2>3 DEF Spends
<1>4. QED
  BY <1>2, <1>3, Domains, Sizes DEF Known

(* Who has a surplus in the next state has it now, or gives a reference up. *)
LEMMA LateStays ==
  ASSUME Known, NEW had, TokensAre(had), NEW o \in K!Owners, NEW f, NEW x, NEW y,
         Steps(o, f, x, y), Spends(o, f, x), NEW u \in K!Owners, K!Late(had, u)'
  PROVE  K!Late(had, u) \/ (v8' >= v8 + 1 /\ Len(v6[o]) = 0)
<1>1. SUFFICES ASSUME Pushes(x), x = K!Grave PROVE v8' >= v8 + 1 /\ Len(v6[o]) = 0
  BY LateNext
<1>2. x # K!Nil /\ x # 1
  BY <1>1, Constants
<1>3. ASSUME Len(v6[o]) > 0
      PROVE  FALSE
  <2>1. K!Top(o).curr = x
    BY <1>1, <1>3 DEF Steps, GoesOn
  <2>2. K!Top(o).pc # "clear"
    BY <1>1, <1>2, <1>3 DEF Spends
  <2>3. QED
    BY <1>1, <1>2, <1>3, <2>1, <2>2, CarriedIs
<1>4. Len(v6[o]) = 0
  BY <1>3, Domains, Sizes DEF Known
<1>5. QED
  BY <1>2, <1>4 DEF Spends

(* A step that does not begin a call within a call                          *)
LEMMA AffordsStays ==
  ASSUME Known, K!OpenInv, NEW had, TokensAre(had), NEW o \in K!Owners, NEW f, NEW x, NEW y,
         Steps(o, f, x, y), Spends(o, f, x), NEW u \in K!Owners, Affords(had, u),
         u # o \/ ~Pushes(x) \/ Len(v6[o]) = 0
  PROVE  Affords(had, u)'
<1>1. PICK d : d = K!Depth(u)
  OBVIOUS
<1>2. d \in Nat /\ K!Depth(u)' = d /\ v8 \in Nat /\ v8' \in Nat /\ v8' >= v8 /\ v7' = v7
  BY <1>1, DepthStays, DepthIs DEF Known, Steps, Turns, K!TypeOK
<1>3. d <= v8 /\ (K!Late(had, u) => d + 1 <= v8)
  BY <1>1 DEF Affords
<1>4. K!Late(had, u)' => K!Late(had, u) \/ v8' >= v8 + 1
  BY LateStays
<1>5. d <= v8' /\ (K!Late(had, u)' => d + 1 <= v8')
  BY <1>2, <1>3, <1>4
<1>6. ASSUME NEW c, Drops(u, c)'
      PROVE  d + 1 <= v8' /\ (K!Late(had, u)' /\ c # v7[K!Grave] => d + 2 <= v8')
  <2>1. CASE u = o /\ Len(v6[o]) > 0 /\ f.pc = "drop" /\ f.curr = c /\ v2'[c] = 1 /\ c # K!Nil
    BY <2>1 DEF Spends
  <2>2. CASE u # o /\ Drops(u, c)
    <3>1. d + 1 <= v8 /\ (K!Late(had, u) /\ c # v7[K!Grave] => d + 2 <= v8)
      BY <1>1, <2>2 DEF Affords
    <3>2. QED
      BY <1>2, <1>4, <3>1
  <2>3. CASE u # o /\ c = x /\ v2[x] = 2 /\ Len(v6[u]) > 0 /\ K!Top(u).pc = "drop" /\ K!Top(u).curr = x
    <3>1. x # K!Nil
      BY <1>6, <2>3 DEF Drops
    <3>2. v8' >= v8 + 1 \/ (K!Late(had, u) /\ x = v7[K!Grave])
      BY <2>3, <3>1, SpentIs
    <3>3. K!Late(had, u)' => K!Late(had, u) \/ Pushes(x)
      BY LateNext
    <3>4. ~Pushes(x)
      BY <2>3 DEF Pushes
    <3>5. QED
      BY <1>2, <1>3, <2>3, <3>2, <3>3, <3>4
  <2>4. QED
    BY <1>6, <2>1, <2>2, <2>3, DropNext
<1>7. QED
  BY <1>2, <1>5, <1>6 DEF Affords

(* and one that does.                                                       *)
LEMMA AffordsMore ==
  ASSUME Known, NEW had, TokensAre(had), NEW o \in K!Owners, NEW f, NEW x, NEW y,
         Steps(o, f, x, y), Spends(o, f, x), Affords(had, o), Pushes(x), Len(v6[o]) > 0
  PROVE  Affords(had, o)'
<1>1. PICK d : d = K!Depth(o)
  OBVIOUS
<1>2. d \in Nat /\ v8 \in Nat /\ v8' \in Nat /\ v8' >= v8 /\ v7' = v7
  BY <1>1, DepthIs DEF Known, Steps, Turns, K!TypeOK
<1>3. d <= v8 /\ (K!Late(had, o) => d + 1 <= v8)
  BY <1>1 DEF Affords
<1>4. K!Late(had, o)' => K!Late(had, o)
  BY LateStays
<1>5. \A c : ~Drops(o, c)'
  BY DropNext
<1>6. /\ K!Depth(o)' = IF f.pc = "test" THEN d ELSE d + 1
      /\ f.pc = "free" /\ x = v7[K!Grave] => K!Passed(o)'
  BY <1>1, DepthGrows
<1>7. CASE f.pc = "test"
  BY <1>2, <1>3, <1>4, <1>5, <1>6, <1>7 DEF Affords
<1>8. CASE f.pc = "free" /\ K!Top(o).pc = "drop" /\ K!Top(o).curr = x
  <2>1. Drops(o, x)
    BY <1>8 DEF Drops, Pushes
  <2>2. d + 1 <= v8 /\ (K!Late(had, o) /\ x # v7[K!Grave] => d + 2 <= v8)
    BY <1>1, <2>1 DEF Affords
  <2>3. K!Late(had, o)' => x # v7[K!Grave]
    BY <1>6, <1>8 DEF K!Late
  <2>4. K!Depth(o)' = d + 1
    BY <1>6, <1>8
  <2>5. d + 1 <= v8' /\ (K!Late(had, o)' => (d + 1) + 1 <= v8')
    BY <1>2, <1>4, <2>2, <2>3
  <2>6. QED
    BY <1>5, <2>4, <2>5 DEF Affords
<1>9. QED
  BY <1>7, <1>8 DEF Spends, Pushes

(* A step keeps the budget.                                                 *)
LEMMA BudgetIsKept ==
  ASSUME Known, K!OpenInv, NEW had, TokensAre(had), K!BudgetInv(had), NEW o \in K!Owners,
         NEW f, NEW x, NEW y,
         Steps(o, f, x, y), Spends(o, f, x)
  PROVE  K!BudgetInv(had)'
<1>1. \A u \in K!Owners : Affords(had, u)
  BY AffordsIs DEF Known
<1>2. ASSUME NEW u \in K!Owners
      PROVE  Affords(had, u)'
  <2>1. CASE u # o \/ ~Pushes(x) \/ Len(v6[o]) = 0
    BY <1>1, <2>1, AffordsStays
  <2>2. CASE u = o /\ Pushes(x) /\ Len(v6[o]) # 0
    <3>1. Len(v6[o]) > 0
      BY <2>2, Domains, Sizes DEF Known
    <3>2. QED
      BY <1>1, <2>2, <3>1, AffordsMore
  <2>3. QED
    BY <2>1, <2>2
<1>3. QED
  BY <1>2, AffordsIs DEF Steps

(* The invariant, with what this proof takes of it                          *)
Inductive(had) == Known /\ K!OpenInv /\ TokensAre(had) /\ K!BudgetInv(had)

(* Every step but Free keeps the invariant when it keeps the tokens:        *)
LEMMA StepKeeps ==
  ASSUME NEW had, Inductive(had), NEW o \in K!Owners, NEW f, NEW x, NEW y,
         Steps(o, f, x, y), Spends(o, f, x), TokensAre(had)'
  PROVE  Inductive(had)'
<1>1. Known /\ K!OpenInv /\ TokensAre(had) /\ K!BudgetInv(had)
  BY DEF Inductive
<1>2. K!TypeOK' /\ K!CountsInv'
  BY DEF Steps
<1>3. K!DeadInv' /\ K!LinksInv' /\ K!CallsInv'
  BY <1>1, DeadIsKept, LinksAreKept, CallsAreKept
<1>4. K!OpenInv'
  BY <1>1, OpenIsKept
<1>5. K!BudgetInv(had)'
  BY <1>1, BudgetIsKept
<1>6. QED
  BY <1>2, <1>3, <1>4, <1>5 DEF Inductive, Known

(* an iterator or the list that is dropped,                                 *)
LEMMA DropKeeps ==
  ASSUME NEW had, Inductive(had), NEW o \in K!Owners, K!Drop(o)
  PROVE  Inductive(had)'
<1> USE DEF Inductive
<1>1. Steps(o, K!Nil, v4[o], K!Nil) /\ Len(v6[o]) = 0
  BY DropSteps
<1>2. v4[o] \in {K!Nil, 1} \/ v8' >= v8 + 1
  <2>1. CASE o \in Iterators
    BY <2>1 DEF K!Drop, K!Gives, Known, K!TypeOK
  <2>2. CASE o = TheList
    BY <2>2 DEF Known, K!LinksInv
  <2>3. QED
    BY <2>1, <2>2 DEF K!Owners
<1>3. Spends(o, K!Nil, v4[o])
  BY <1>1, <1>2 DEF Spends
<1>4. TokensAre(had)'
  BY <1>1, TokensStay
<1>5. QED
  BY <1>1, <1>3, <1>4, StepKeeps

(* an iterator that goes on,                                                *)
LEMMA AdvanceKeeps ==
  ASSUME NEW had, Inductive(had), NEW o \in K!Owners, K!Advance(o)
  PROVE  Inductive(had)'
<1> USE DEF Inductive
<1>1. Steps(o, K!Nil, v4[o], K!Nil) /\ Len(v6[o]) = 0 /\ o \in Iterators
  BY AdvanceSteps
<1>2. v8' >= v8 + 1
  BY <1>1 DEF K!Advance, K!Gives, Known, K!TypeOK
<1>3. Spends(o, K!Nil, v4[o])
  BY <1>1, <1>2 DEF Spends
<1>4. TokensAre(had)'
  BY <1>1, TokensStay
<1>5. QED
  BY <1>1, <1>3, <1>4, StepKeeps

(* one that loads its next node,                                            *)
LEMMA LoadAheadKeeps ==
  ASSUME NEW had, Inductive(had), NEW o \in K!Owners, K!LoadAhead(o)
  PROVE  Inductive(had)'
<1> USE DEF Inductive
<1>1. Steps(o, K!Nil, K!Nil, v1[v4[o]]) /\ Len(v6[o]) = 0
  BY LoadAheadSteps
<1>2. Spends(o, K!Nil, K!Nil)
  BY <1>1 DEF Spends
<1>3. TokensAre(had)'
  BY <1>1, TokensStay
<1>4. QED
  BY <1>1, <1>2, <1>3, StepKeeps

(* curr = next.load(),                                                      *)
LEMMA LoadKeeps ==
  ASSUME NEW had, Inductive(had), NEW o \in K!Owners, K!Load(o)
  PROVE  Inductive(had)'
<1> USE DEF Inductive
<1>1. PICK f : f = Frame(K!Top(o).node, "clear", v1[K!Top(o).node], K!Top(o).next_curr)
  OBVIOUS
<1>2. /\ Steps(o, f, K!Nil, v1[K!Top(o).node]) /\ Len(v6[o]) > 0
      /\ K!Top(o).pc = "load" /\ K!Top(o).curr = K!Nil /\ K!Top(o).next_curr = K!Nil
  BY <1>1, LoadSteps
<1>3. f.pc = "clear" /\ f.next_curr = K!Nil
  BY <1>1, <1>2, Fields
<1>4. Spends(o, f, K!Nil)
  BY <1>2, <1>3 DEF Spends
<1>5. TokensAre(had)'
  <2>1. \A k, c : CarriesOn(f, k, c) => CarriesOn(K!Top(o), k, c)
    BY <1>3 DEF CarriesOn
  <2>2. QED
    BY <1>2, <2>1, TokensStay
<1>6. QED
  BY <1>2, <1>4, <1>5, StepKeeps

(* next.store(nullptr), which makes curr the carrier of a cut link,         *)
LEMMA ClearKeeps ==
  ASSUME NEW had, Inductive(had), NEW o \in K!Owners, K!Clear(o)
  PROVE  Inductive(had)'
<1> USE DEF Inductive
<1>1. PICK f, z : f = Frame(K!Top(o).node, "test", K!Top(o).curr, K!Top(o).next_curr) /\ z = K!Top(o).node
  OBVIOUS
<1>2. /\ Steps(o, f, K!Top(o).curr, K!Nil) /\ Len(v6[o]) > 0
      /\ K!Top(o).pc = "clear" /\ K!Top(o).curr = v1[z] /\ K!Top(o).next_curr = K!Nil
      /\ ~Pushes(K!Top(o).curr) /\ v1' = [v1 EXCEPT ![z] = K!Nil] /\ z \in v3
  BY <1>1, ClearSteps
<1>3. f.pc = "test" /\ f.curr = K!Top(o).curr /\ f.next_curr = K!Nil
  BY <1>1, <1>2, Fields
<1>4. Spends(o, f, K!Top(o).curr)
  <2>1. PICK n : Val("curr", o, n) = K!Top(o).curr
    BY <1>2, TopIs
  <2>2. Val("next", z, 0) = K!Top(o).curr
    BY <1>2, Values
  <2>3. QED
    BY <1>2, <1>3, <2>1, <2>2 DEF Spends
<1>5. TokensAre(had)'
  <2>1. CarriesCut(o, f, z, "curr")
    BY <1>2, <1>3 DEF CarriesOn, CarriesCut
  <2>2. v1'[z] = K!Nil
    BY <1>2 DEF Known, K!TypeOK
  <2>3. QED
    BY <1>2, <2>1, <2>2, TokensCut
<1>6. QED
  BY <1>2, <1>4, <1>5, StepKeeps

(* the loop's test,                                                         *)
LEMMA TestKeeps ==
  ASSUME NEW had, Inductive(had), NEW o \in K!Owners, K!Test(o)
  PROVE  Inductive(had)'
<1> USE DEF Inductive
<1>1. /\ Len(v6[o]) > 0 /\ K!Top(o).pc = "test" /\ K!Top(o).next_curr = K!Nil
  BY TestSteps
<1>2. PICK f : /\ Steps(o, f, K!Nil, K!Nil)
               /\ f.curr = K!Top(o).curr /\ f.next_curr = K!Nil /\ f.pc \in {"ahead", "drop"}
               /\ f.pc = "drop" => f.curr = K!Nil \/ v2[f.curr] # 1
  BY TestSteps
<1>3. Spends(o, f, K!Nil)
  <2>1. f.curr # K!Nil => v2'[f.curr] = v2[f.curr]
    <3>1. f.curr # K!Nil => f.curr \in K!Nodes
      BY <1>1, <1>2, TopIs
    <3>2. QED
      BY <1>2, <3>1, CountNext, NilIsNoNode
  <2>2. QED
    BY <1>1, <1>2, <2>1 DEF Spends
<1>4. TokensAre(had)'
  <2>1. \A k, c : CarriesOn(f, k, c) => CarriesOn(K!Top(o), k, c)
    BY <1>1, <1>2 DEF CarriesOn
  <2>2. QED
    BY <1>1, <1>2, <2>1, TokensStay
<1>5. QED
  BY <1>2, <1>3, <1>4, StepKeeps

(* next_curr = curr->next.load(),                                           *)
LEMMA LoadNextKeeps ==
  ASSUME NEW had, Inductive(had), NEW o \in K!Owners, K!LoadNext(o)
  PROVE  Inductive(had)'
<1> USE DEF Inductive
<1>1. PICK f : f = Frame(K!Top(o).node, "cut", K!Top(o).curr, v1[K!Top(o).curr])
  OBVIOUS
<1>2. /\ Steps(o, f, K!Nil, v1[K!Top(o).curr]) /\ Len(v6[o]) > 0
      /\ K!Top(o).pc = "ahead" /\ K!Top(o).next_curr = K!Nil
  BY <1>1, LoadNextSteps
<1>3. f.pc = "cut" /\ f.curr = K!Top(o).curr
  BY <1>1, Fields
<1>4. Spends(o, f, K!Nil)
  BY <1>2, <1>3 DEF Spends
<1>5. TokensAre(had)'
  <2>1. \A k, c : CarriesOn(f, k, c) => CarriesOn(K!Top(o), k, c)
    BY <1>2, <1>3 DEF CarriesOn
  <2>2. QED
    BY <1>2, <2>1, TokensStay
<1>6. QED
  BY <1>2, <1>4, <1>5, StepKeeps

(* curr->next.store(nullptr), which makes next_curr the carrier,            *)
LEMMA CutKeeps ==
  ASSUME NEW had, Inductive(had), NEW o \in K!Owners, K!Cut(o)
  PROVE  Inductive(had)'
<1> USE DEF Inductive
<1>1. PICK f, z : f = Frame(K!Top(o).node, "move", K!Top(o).curr, K!Top(o).next_curr) /\ z = K!Top(o).curr
  OBVIOUS
<1>2. /\ Steps(o, f, K!Top(o).next_curr, K!Nil) /\ Len(v6[o]) > 0
      /\ K!Top(o).pc = "cut" /\ K!Top(o).next_curr = v1[z] /\ ~Pushes(K!Top(o).next_curr)
      /\ v1' = [v1 EXCEPT ![z] = K!Nil] /\ z \in v3
  BY <1>1, CutSteps
<1>3. f.pc = "move" /\ f.curr = K!Top(o).curr /\ f.next_curr = K!Top(o).next_curr
  BY <1>1, Fields
<1>4. Spends(o, f, K!Top(o).next_curr)
  <2>1. PICK n : Val("next_curr", o, n) = K!Top(o).next_curr
    BY <1>2, TopIs
  <2>2. Val("next", z, 0) = K!Top(o).next_curr
    BY <1>2, Values
  <2>3. QED
    BY <1>2, <1>3, <2>1, <2>2 DEF Spends
<1>5. TokensAre(had)'
  <2>1. CarriesCut(o, f, z, "next_curr")
    BY <1>2, <1>3 DEF CarriesOn, CarriesCut
  <2>2. v1'[z] = K!Nil
    BY <1>2 DEF Known, K!TypeOK
  <2>3. QED
    BY <1>2, <2>1, <2>2, TokensCut
<1>6. QED
  BY <1>2, <1>4, <1>5, StepKeeps

(* curr = std::move(next_curr), which moves the link,                       *)
LEMMA MoveKeeps ==
  ASSUME NEW had, Inductive(had), NEW o \in K!Owners, K!Move(o)
  PROVE  Inductive(had)'
<1> USE DEF Inductive
<1>1. PICK f : f = Frame(K!Top(o).node, "test", K!Top(o).next_curr, K!Nil)
  OBVIOUS
<1>2. /\ Steps(o, f, K!Top(o).curr, K!Nil) /\ Len(v6[o]) > 0
      /\ K!Top(o).pc = "move" /\ Pushes(K!Top(o).curr)
  BY <1>1, MoveSteps
<1>3. f.pc = "test" /\ f.curr = K!Top(o).next_curr /\ f.next_curr = K!Nil
  BY <1>1, Fields
<1>4. Spends(o, f, K!Top(o).curr)
  BY <1>2, <1>3 DEF Spends
<1>5. TokensAre(had)'
  <2>1. \A k, c : CarriesOn(f, k, c) => k = "curr" /\ CarriesOn(K!Top(o), "next_curr", c)
    BY <1>2, <1>3 DEF CarriesOn
  <2>2. QED
    BY <1>2, <2>1, TokensMove
<1>6. QED
  BY <1>2, <1>4, <1>5, StepKeeps

(* and the end of curr.                                                     *)
LEMMA DropCurrKeeps ==
  ASSUME NEW had, Inductive(had), NEW o \in K!Owners, K!DropCurr(o)
  PROVE  Inductive(had)'
<1> USE DEF Inductive
<1>1. PICK f : f = Frame(K!Top(o).node, "free", K!Nil, K!Top(o).next_curr)
  OBVIOUS
<1>2. /\ Steps(o, f, K!Top(o).curr, K!Nil) /\ Len(v6[o]) > 0
      /\ K!Top(o).pc = "drop" /\ K!Top(o).next_curr = K!Nil
  BY <1>1, DropCurrSteps
<1>3. f.pc = "free" /\ f.curr = K!Nil /\ f.next_curr = K!Nil
  BY <1>1, <1>2, Fields
<1>4. Spends(o, f, K!Top(o).curr)
  BY <1>2, <1>3 DEF Spends
<1>5. TokensAre(had)'
  <2>1. \A k, c : CarriesOn(f, k, c) => CarriesOn(K!Top(o), k, c)
    BY <1>3 DEF CarriesOn
  <2>2. QED
    BY <1>2, <2>1, TokensStay
<1>6. QED
  BY <1>2, <1>4, <1>5, StepKeeps

(* The call on top of owner o's ends, and node n with it.                   *)
Ends(o, n) ==
  /\ Len(v6[o]) > 0 /\ n = K!Top(o).node /\ n \in K!Nodes /\ v1[n] = K!Nil
  /\ K!Top(o).pc = "free" /\ K!Top(o).curr = K!Nil /\ K!Top(o).next_curr = K!Nil
  /\ v6' \in [K!Owners -> Seq(K!Calls)] /\ \A u \in K!Owners : u # o => v6'[u] = v6[u]
  /\ Len(v6'[o]) = Len(v6[o]) - 1
  /\ \A i \in 1 .. Len(v6[o]) - 1 : v6'[o][i] = v6[o][i]
  /\ v3' = v3 \ {n}
  /\ v1' = v1 /\ v2' = v2 /\ v4' = v4 /\ v5' = v5 /\ v7' = v7 /\ v8' = v8

(* Free ends a call,                                                        *)
LEMMA FreeEnds ==
  ASSUME Known, NEW o \in K!Owners, K!Free(o), NEW n, n = K!Top(o).node
  PROVE  Ends(o, n)
<1>1. Len(v6[o]) > 0 /\ K!Top(o).pc = "free" /\ v6[o] \in Seq(K!Calls) /\ Len(v6[o]) \in Nat
  BY TopTypes DEF K!Free, K!At, Known
<1>2. K!Top(o).curr = K!Nil /\ K!Top(o).next_curr = K!Nil /\ n \in K!Nodes /\ v1[n] = K!Nil
  BY <1>1, TopIs DEF K!Knows
<1> DEFINE s == SubSeq(v6[o], 1, Len(v6[o]) - 1)
<1>3. /\ s \in Seq(K!Calls) /\ Len(s) = Len(v6[o]) - 1
      /\ \A i \in 1 .. Len(v6[o]) - 1 : s[i] = v6[o][i]
  BY <1>1
<1>4. v6' = [v6 EXCEPT ![o] = s] /\ v6 \in [K!Owners -> Seq(K!Calls)]
  BY DEF K!Free, Known, K!TypeOK
<1> HIDE DEF s
<1>5. /\ v6' \in [K!Owners -> Seq(K!Calls)] /\ v6'[o] = s
      /\ \A u \in K!Owners : u # o => v6'[u] = v6[u]
  BY <1>3, <1>4
<1>6. /\ v3' = v3 \ {n} /\ v1' = v1 /\ v2' = v2 /\ v4' = v4 /\ v5' = v5
      /\ v7' = v7 /\ v8' = v8
  BY DEF K!Free, K!history
<1>7. QED
  BY <1>1, <1>2, <1>3, <1>5, <1>6 DEF Ends

(* which keeps the types,                                                   *)
LEMMA EndTypes ==
  ASSUME Known, NEW o \in K!Owners, NEW n, Ends(o, n)
  PROVE  K!TypeOK'
  BY DEF Known, K!TypeOK, Ends

(* The calls that are left                                                  *)
LEMMA CallsLeft ==
  ASSUME Known, NEW o \in K!Owners, NEW n, Ends(o, n)
  PROVE  /\ Len(v6[o]) \in DOMAIN v6[o] /\ v6[o][Len(v6[o])] = K!Top(o)
         /\ \A u \in K!Owners : \A j \in DOMAIN v6'[u] :
              /\ j \in DOMAIN v6[u] /\ v6'[u][j] = v6[u][j] /\ (u # o \/ j # Len(v6[o]))
              /\ v6[u][j].node # n
         /\ \A u \in K!Owners : \A j \in DOMAIN v6[u] :
              u # o \/ j # Len(v6[o]) => j \in DOMAIN v6'[u] /\ v6'[u][j] = v6[u][j]
<1>1. \A u \in K!Owners : /\ DOMAIN v6[u] = 1 .. Len(v6[u]) /\ Len(v6[u]) \in Nat
                          /\ DOMAIN v6'[u] = 1 .. Len(v6'[u]) /\ Len(v6'[u]) \in Nat
  BY Domains, EndTypes DEF Known
<1>2. /\ Len(v6[o]) > 0 /\ n = K!Top(o).node /\ \A u \in K!Owners : u # o => v6'[u] = v6[u]
      /\ Len(v6'[o]) = Len(v6[o]) - 1
      /\ \A i \in 1 .. Len(v6[o]) - 1 : v6'[o][i] = v6[o][i]
  BY DEF Ends
<1>3. Len(v6[o]) \in DOMAIN v6[o] /\ v6[o][Len(v6[o])] = K!Top(o)
  BY <1>2, Domains DEF Known
<1>4. ASSUME NEW u \in K!Owners, NEW j \in DOMAIN v6'[u]
      PROVE  j \in DOMAIN v6[u] /\ v6'[u][j] = v6[u][j] /\ (u # o \/ j # Len(v6[o]))
  <2>1. CASE u # o
    BY <1>2, <2>1
  <2>2. CASE u = o
    <3>1. j \in 1 .. Len(v6[o]) - 1
      BY <1>1, <1>2, <2>2
    <3>2. QED
      BY <1>1, <1>2, <2>2, <3>1
  <2>3. QED
    BY <2>1, <2>2
<1>5. ASSUME NEW u \in K!Owners, NEW j \in DOMAIN v6[u], u # o \/ j # Len(v6[o])
      PROVE  j \in DOMAIN v6'[u] /\ v6'[u][j] = v6[u][j] /\ v6[u][j].node # n
  <2>1. v6[u][j].node # n
    <3>1. PICK l : l = Len(v6[o])
      OBVIOUS
    <3>2. l \in DOMAIN v6[o] /\ v6[o][l].node = n /\ (u # o \/ j # l)
      BY <1>2, <1>3, <1>5, <3>1
    <3>3. QED
      BY <3>2, OneDestroys DEF Known
  <2>2. CASE u # o
    BY <1>2, <2>1, <2>2
  <2>3. CASE u = o
    <3>1. j \in 1 .. Len(v6[o]) - 1
      BY <1>1, <1>5, <2>3
    <3>2. QED
      BY <1>1, <1>2, <2>1, <2>3, <3>1
  <2>4. QED
    BY <2>2, <2>3
<1>6. QED
  BY <1>3, <1>4, <1>5

(* the counts: nobody referred to the node and its `next` was cut,          *)
LEMMA EndCounts ==
  ASSUME Known, NEW o \in K!Owners, NEW n, Ends(o, n)
  PROVE  K!CountsInv'
<1>1. ASSUME NEW k, NEW a, NEW i
      PROVE  Same(k, a, i)
  <2>1. ASSUME k \in {"next", "hold", "ahead"}, i = 0
        PROVE  Same(k, a, i)
    <3>1. CASE k = "next"
      <4>1. v3' = v3 \ {n} /\ v1' = v1 /\ v1[n] = K!Nil
        BY DEF Ends
      <4>2. QED
        BY <2>1, <3>1, <4>1, Values, ValuesNext DEF Same
    <3>2. CASE k \in {"hold", "ahead"}
      <4>1. v4' = v4 /\ v5' = v5
        BY DEF Ends
      <4>2. QED
        BY <2>1, <3>2, <4>1, Values, ValuesNext DEF Same
    <3>3. QED
      BY <2>1, <3>1, <3>2
  <2>2. ASSUME k \in {"curr", "next_curr"}
        PROVE  Same(k, a, i)
    <3>1. CASE a \notin K!Owners
      BY <2>2, <3>1, Values, ValuesNext DEF Same
    <3>2. CASE a \in K!Owners /\ a = o /\ i = Len(v6[o])
      <4>1. i \in DOMAIN v6[a] /\ v6[a][i] = K!Top(o) /\ K!Top(o).curr = K!Nil /\ K!Top(o).next_curr = K!Nil
        BY <3>2, CallsLeft DEF Ends
      <4>2. i \notin DOMAIN v6'[a]
        BY <3>2, CallsLeft
      <4>3. QED
        BY <2>2, <3>2, <4>1, <4>2, Values, ValuesNext DEF Same
    <3>3. CASE a \in K!Owners /\ (a # o \/ i # Len(v6[o]))
      <4>1. i \in DOMAIN v6[a] <=> i \in DOMAIN v6'[a]
        BY <3>3, CallsLeft
      <4>2. i \in DOMAIN v6[a] => v6'[a][i] = v6[a][i]
        BY <3>3, CallsLeft
      <4>3. QED
        BY <2>2, <3>3, <4>1, <4>2, Values, ValuesNext DEF Same
    <3>4. QED
      BY <3>1, <3>2, <3>3
  <2>3. QED
    BY <2>1, <2>2, OtherPlaces
<1>2. ASSUME NEW x \in K!Nodes
      PROVE  IsFiniteSet(K!References(x)') /\ v2'[x] = Cardinality(K!References(x)')
  <2>1. K!References(x)' = K!References(x)
    <3>1. \A w : w \in K!References(x)' <=> w \in K!References(x)
      BY <1>1, ReferencesAre DEF Same
    <3>2. QED
      BY <3>1
  <2>2. IsFiniteSet(K!References(x)) /\ v2[x] = Cardinality(K!References(x))
    BY CountsAre DEF Known
  <2>3. QED
    BY <2>1, <2>2 DEF Ends
<1>3. QED
  BY <1>2, CountsAre

(* the nodes that are not destroyed,                                        *)
LEMMA EndDead ==
  ASSUME Known, NEW o \in K!Owners, NEW n, Ends(o, n)
  PROVE  /\ K!DeadInv' /\ v3' \ K!Destroyed' \subseteq v3 \ K!Destroyed
         /\ K!Grave \in v3 \ K!Destroyed => K!Grave \in v3' \ K!Destroyed'
<1>1. \A z : z \in K!Destroyed' => z \in K!Destroyed /\ z # n
  <2>1. SUFFICES ASSUME NEW z, z \in K!Destroyed' PROVE z \in K!Destroyed /\ z # n
    OBVIOUS
  <2>2. PICK u \in K!Owners : \E j \in DOMAIN v6'[u] : v6'[u][j].node = z
    BY <2>1, DestroyedAre
  <2>3. PICK j \in DOMAIN v6'[u] : v6'[u][j].node = z
    BY <2>2
  <2>4. QED
    BY <2>3, CallsLeft, DestroyedAre
<1>2. \A z : z \in K!Destroyed => z \in K!Destroyed' \/ z = n
  <2>1. SUFFICES ASSUME NEW z, z \in K!Destroyed, z # n PROVE z \in K!Destroyed'
    OBVIOUS
  <2>2. PICK u \in K!Owners : \E j \in DOMAIN v6[u] : v6[u][j].node = z
    BY <2>1, DestroyedAre
  <2>3. PICK j \in DOMAIN v6[u] : v6[u][j].node = z
    BY <2>2
  <2>4. u # o \/ j # Len(v6[o])
    BY <2>1, <2>3, CallsLeft DEF Ends
  <2>5. QED
    BY <2>3, <2>4, CallsLeft, DestroyedAre
<1>3. n \in K!Destroyed
  BY CallsLeft, DestroyedAre DEF Ends
<1>4. v3' = v3 \ {n}
  BY DEF Ends
<1>5. \A z : z \in v3' \ K!Destroyed' <=> z \in v3 \ K!Destroyed
  BY <1>1, <1>2, <1>3, <1>4
<1>6. \A x \in K!Nodes : v2'[x] > 0 => x \in v3' \ K!Destroyed'
  BY <1>5 DEF Known, K!DeadInv, Ends
<1>7. ASSUME NEW u \in K!Owners, NEW w \in K!Owners, NEW i \in DOMAIN v6'[u], NEW j \in DOMAIN v6'[w],
             v6'[u][i].node = v6'[w][j].node
      PROVE  u = w /\ i = j
  <2>1. i \in DOMAIN v6[u] /\ j \in DOMAIN v6[w] /\ v6[u][i].node = v6[w][j].node
    BY <1>7, CallsLeft
  <2>2. QED
    BY <2>1, OneDestroys DEF Known
<1>8. K!DeadInv'
  BY <1>6, <1>7 DEF K!DeadInv
<1>9. QED
  BY <1>5, <1>8

(* what the calls that are left know,                                       *)
LEMMA EndCalls ==
  ASSUME Known, NEW o \in K!Owners, NEW n, Ends(o, n)
  PROVE  K!LinksInv' /\ K!CallsInv'
<1>1. /\ v3' = v3 \ {n} /\ v1' = v1 /\ v2' = v2 /\ v4' = v4 /\ v5' = v5 /\ v7' = v7
  BY DEF Ends
<1>2. K!LinksInv'
  BY <1>1 DEF Known, K!LinksInv
<1>3. ASSUME NEW u \in K!Owners, NEW j \in DOMAIN v6'[u]
      PROVE  \A g : g = v6'[u][j] => K!Knows(g)'
  <2>1. j \in DOMAIN v6[u] /\ v6'[u][j] = v6[u][j] /\ v6[u][j].node # n
    BY CallsLeft
  <2>2. SUFFICES ASSUME NEW g, g = v6[u][j] PROVE K!Knows(g)'
    BY <2>1
  <2>3. K!Knows(g) /\ g.node # n
    BY <2>1, <2>2 DEF Known, K!CallsInv
  <2>4. QED
    BY <1>1, <2>3 DEF K!Knows
<1>4. ASSUME NEW u \in K!Owners, NEW i \in DOMAIN v6'[u]
      PROVE  Below(u, i)'
  <2>1. SUFFICES ASSUME i < Len(v6'[u])
                 PROVE  \/ v6'[u][i].pc = "free"
                        \/ /\ v6'[u][i].pc = "test" /\ i = Len(v6'[u]) - 1
                           /\ v1'[K!Top(u)'.node] = K!Nil /\ K!Top(u)'.curr = K!Nil
    BY DEF Below
  <2>2. i \in DOMAIN v6[u] /\ v6'[u][i] = v6[u][i]
    BY CallsLeft
  <2>3. i < Len(v6[u]) =>
          \/ v6[u][i].pc = "free"
          \/ /\ v6[u][i].pc = "test" /\ i = Len(v6[u]) - 1
             /\ v1[K!Top(u).node] = K!Nil /\ K!Top(u).curr = K!Nil
    BY <2>2 DEF Known, K!CallsInv
  <2>4. CASE u # o
    <3>1. v6'[u] = v6[u] /\ K!Top(u)' = K!Top(u)
      BY <2>4 DEF Ends, K!Top
    <3>2. QED
      BY <1>1, <2>1, <2>3, <3>1
  <2>5. CASE u = o
    <3>1. Len(v6'[o]) = Len(v6[o]) - 1 /\ Len(v6[o]) \in Nat /\ i \in Int
      BY <2>2, <2>5, Domains DEF Ends, Known
    <3>2. i < Len(v6[o]) /\ i # Len(v6[o]) - 1
      BY <2>1, <2>5, <3>1
    <3>3. QED
      BY <2>2, <2>3, <2>5, <3>2
  <2>6. QED
    BY <2>4, <2>5
<1>5. QED
  BY <1>2, <1>3, <1>4 DEF K!CallsInv, Below

(* who has cut what,                                                        *)
LEMMA EndOpen ==
  ASSUME Known, K!OpenInv, NEW o \in K!Owners, NEW n, Ends(o, n)
  PROVE  K!OpenInv'
<1>1. SUFFICES ASSUME NEW z \in v3' \ K!Destroyed', v1'[z] # v7'[z]
               PROVE  \E u \in K!Owners : \E j \in DOMAIN v6'[u] :
                        v6'[u][j].pc = "move" /\ v6'[u][j].curr = z
  BY DEF K!OpenInv
<1>2. z \in v3 \ K!Destroyed /\ v1[z] # v7[z]
  BY <1>1, EndDead DEF Ends
<1>3. PICK u \in K!Owners : \E j \in DOMAIN v6[u] : v6[u][j].pc = "move" /\ v6[u][j].curr = z
  BY <1>2 DEF K!OpenInv
<1>4. PICK j \in DOMAIN v6[u] : v6[u][j].pc = "move" /\ v6[u][j].curr = z
  BY <1>3
<1>5. u # o \/ j # Len(v6[o])
  BY <1>4, CallsLeft DEF Ends
<1>6. QED
  BY <1>4, <1>5, CallsLeft

(* and the tokens.                                                          *)
LEMMA EndTokens ==
  ASSUME Known, NEW had, TokensAre(had), NEW o \in K!Owners, NEW n, Ends(o, n)
  PROVE  TokensAre(had)'
<1>1. \A k, u, i, c : K!Carrying(k, u, i, c)' => K!Carrying(k, u, i, c)
  <2>1. SUFFICES ASSUME NEW k, NEW u, NEW i, NEW c, K!Carrying(k, u, i, c)' PROVE K!Carrying(k, u, i, c)
    OBVIOUS
  <2>2. u \in K!Owners /\ i \in DOMAIN v6'[u] /\ CarriesOn(v6'[u][i], k, c)
    BY <2>1, CarryingIs DEF K!Carrying
  <2>3. i \in DOMAIN v6[u] /\ v6'[u][i] = v6[u][i]
    BY <2>2, CallsLeft
  <2>4. QED
    BY <2>2, <2>3, CarryingIs
<1>2. v1' = v1 /\ v7' = v7 /\ v3' = v3 \ {n}
  BY DEF Ends
<1>3. \A c : (Behind(had, c)' <=> Behind(had, c)) /\ (Both(had, c)' <=> Both(had, c))
  BY <1>2 DEF Behind, Both, K!IsCut
<1>4. QED
  BY <1>1, <1>2, <1>3 DEF TokensAre

(* What an end does to the depth: a call that waits within one loses it, and*)
(* if it was the one of the node behind the erased one, its surplus.        *)
LEMMA DepthEnds ==
  ASSUME Known, NEW o \in K!Owners, NEW n, Ends(o, n)
  PROVE  /\ ~(Len(v6'[o]) > 0 /\ K!Top(o)'.pc = "drop")
         /\ \/ K!Depth(o)' = K!Depth(o) /\ (K!Passed(o) => K!Passed(o)')
            \/ K!Depth(o)' + 1 = K!Depth(o)
<1>1. /\ Len(v6[o]) \in Nat /\ Len(v6[o]) > 0 /\ Len(v6'[o]) = Len(v6[o]) - 1
      /\ DOMAIN v6[o] = 1 .. Len(v6[o]) /\ v7' = v7 /\ K!TypeOK'
      /\ \A i \in 1 .. Len(v6[o]) - 1 : v6'[o][i] = v6[o][i]
  BY Domains, EndTypes DEF Ends, Known
<1>2. \A i \in DOMAIN v6[o] : i < Len(v6[o]) =>
        v6[o][i].pc = "free" \/ (v6[o][i].pc = "test" /\ i = Len(v6[o]) - 1)
  BY DEF Known, K!CallsInv
<1>3. CASE Len(v6[o]) = 1
  <2>1. Len(v6'[o]) <= 1 /\ ~(Len(v6'[o]) > 0)
    BY <1>1, <1>3
  <2>2. K!Depth(o) = 0 /\ K!Depth(o)' = 0
    <3>1. Len(v6[o]) <= 1
      BY <1>3
    <3>2. QED
      BY <1>1, <2>1, <3>1, DepthIs DEF Known
  <2>3. ~K!Passed(o)
    BY <1>3 DEF K!Passed
  <2>4. QED
    BY <2>1, <2>2, <2>3
<1>4. CASE Len(v6[o]) >= 2
  <2>1. PICK l : l = Len(v6[o]) - 1
    OBVIOUS
  <2>2. /\ l \in DOMAIN v6[o] /\ l < Len(v6[o]) /\ l \in 1 .. Len(v6[o]) - 1
        /\ l = Len(v6'[o]) /\ l \in Nat /\ l > 0
    BY <1>1, <1>4, <2>1
  <2>3. v6'[o][l] = v6[o][l] /\ v6[o][l].pc \in {"free", "test"}
    BY <1>1, <1>2, <2>2
  <2>4. K!Top(o)' = v6[o][l] /\ K!Top(o)'.pc # "drop"
    BY <2>2, <2>3 DEF K!Top
  <2>5. K!Depth(o)' = l - 1
    <3>1. CASE l = 1
      <4>1. Len(v6'[o]) <= 1
        BY <2>2, <3>1
      <4>2. K!Depth(o)' = 0
        BY <1>1, <4>1, DepthIs
      <4>3. QED
        BY <3>1, <4>2
    <3>2. CASE l >= 2
      <4>1. PICK h : h = l - 1
        OBVIOUS
      <4>2. /\ h \in DOMAIN v6[o] /\ h < Len(v6[o]) /\ h # Len(v6[o]) - 1
            /\ h \in 1 .. Len(v6[o]) - 1
            /\ h = Len(v6'[o]) - 1 /\ Len(v6'[o]) >= 2
        BY <1>1, <2>1, <2>2, <3>2, <4>1
      <4>3. v6'[o][h] = v6[o][h] /\ v6[o][h].pc = "free"
        BY <1>1, <1>2, <4>2
      <4>4. K!Depth(o)' = IF v6'[o][h].pc = "test" THEN Len(v6'[o]) - 2 ELSE Len(v6'[o]) - 1
        BY <1>1, <4>2, DepthIs
      <4>5. QED
        BY <2>2, <4>3, <4>4
    <3>3. l = 1 \/ l >= 2
      BY <2>2, Sizes
    <3>4. QED
      BY <3>1, <3>2, <3>3
  <2>6. K!Depth(o) = IF v6[o][l].pc = "test" THEN Len(v6[o]) - 2 ELSE Len(v6[o]) - 1
    BY <1>4, <2>1, DepthIs DEF Known
  <2>7. CASE v6[o][l].pc = "free"
    <3>1. K!Depth(o) = l
      BY <2>1, <2>6, <2>7
    <3>2. QED
      BY <2>2, <2>4, <2>5, <3>1
  <2>8. CASE v6[o][l].pc = "test"
    <3>1. K!Depth(o) = l - 1
      BY <1>1, <2>1, <2>6, <2>8
    <3>2. ASSUME K!Passed(o)
          PROVE  K!Passed(o)'
      <4>1. PICK i \in 1 .. Len(v6[o]) - 1 : v6[o][i].pc = "free" /\ v6[o][i + 1].node = v7[K!Grave]
        BY <3>2 DEF K!Passed
      <4>2. i # l
        BY <2>8, <4>1
      <4>3. i \in 1 .. Len(v6'[o]) - 1 /\ i + 1 \in 1 .. Len(v6[o]) - 1
        BY <1>1, <2>1, <2>2, <4>2
      <4>4. v6'[o][i] = v6[o][i] /\ v6'[o][i + 1] = v6[o][i + 1]
        BY <1>1, <4>3
      <4>5. QED
        BY <1>1, <4>1, <4>3, <4>4 DEF K!Passed
    <3>3. QED
      BY <2>4, <2>5, <3>1, <3>2
  <2>9. QED
    BY <2>3, <2>7, <2>8
<1>5. QED
  BY <1>1, <1>3, <1>4, Sizes

(* So the end of a call keeps the budget,                                   *)
LEMMA EndBudget ==
  ASSUME Known, NEW had, K!BudgetInv(had), NEW o \in K!Owners, NEW n, Ends(o, n)
  PROVE  K!BudgetInv(had)'
<1>1. /\ v2' = v2 /\ v7' = v7 /\ v8' = v8 /\ v8 \in Nat
      /\ \A u \in K!Owners : u # o => v6'[u] = v6[u]
  BY DEF Ends, Known, K!TypeOK
<1>2. \A u : K!Late(had, u)' /\ ~K!Passed(u) => K!Late(had, u)
  BY EndDead DEF K!Late
<1>3. ASSUME NEW u \in K!Owners
      PROVE  Affords(had, u)'
  <2>1. Affords(had, u)
    BY AffordsIs DEF Known
  <2>2. CASE u # o
    <3>1. v6'[u] = v6[u]
      BY <1>1, <2>2
    <3>2. K!Depth(u)' = K!Depth(u) /\ (K!Passed(u) => K!Passed(u)') /\ K!Top(u)' = K!Top(u)
      BY <1>1, <3>1 DEF K!Depth, K!Passed, K!Top
    <3>3. K!Late(had, u)' => K!Late(had, u)
      BY <1>2, <3>2 DEF K!Late
    <3>4. \A c : Drops(u, c)' => Drops(u, c)
      BY <1>1, <3>1, <3>2 DEF Drops
    <3>5. QED
      BY <1>1, <2>1, <3>2, <3>3, <3>4 DEF Affords
  <2>3. CASE u = o
    <3>1. \A c : ~Drops(o, c)'
      BY DepthEnds DEF Drops
    <3>2. PICK d, e : d = K!Depth(o)' /\ e = K!Depth(o)
      OBVIOUS
    <3>3. d \in Nat /\ e \in Nat
      BY <3>2, DepthIs, EndTypes DEF Known
    <3>4. e <= v8 /\ (K!Late(had, o) => e + 1 <= v8)
      BY <2>1, <2>3, <3>2 DEF Affords
    <3>5. (d = e /\ (K!Late(had, o)' => K!Late(had, o))) \/ d + 1 = e
      BY <1>2, <3>2, DepthEnds DEF K!Late
    <3>6. d <= v8' /\ (K!Late(had, o)' => d + 1 <= v8')
      BY <1>1, <3>3, <3>4, <3>5
    <3>7. QED
      BY <2>3, <3>1, <3>2, <3>6 DEF Affords
  <2>4. QED
    BY <2>2, <2>3
<1>4. QED
  BY <1>3, AffordsIs, EndTypes

(* and the invariant.                                                       *)
LEMMA FreeKeeps ==
  ASSUME NEW had, Inductive(had), NEW o \in K!Owners, K!Free(o)
  PROVE  Inductive(had)'
<1>1. Known /\ K!OpenInv /\ TokensAre(had) /\ K!BudgetInv(had)
  BY DEF Inductive
<1>2. PICK n : Ends(o, n)
  BY <1>1, FreeEnds
<1>3. K!TypeOK' /\ K!CountsInv' /\ K!DeadInv' /\ K!LinksInv' /\ K!CallsInv' /\ K!OpenInv' /\ TokensAre(had)' /\ K!BudgetInv(had)'
  BY <1>1, <1>2, EndTypes, EndCounts, EndDead, EndCalls, EndOpen, EndTokens, EndBudget
<1>4. QED
  BY <1>3 DEF Inductive, Known

(* Any step of any owner keeps the invariant,                               *)
LEMMA OwnerKeeps ==
  ASSUME NEW had, Inductive(had), NEW o \in K!Owners, K!Owner(o)
  PROVE  Inductive(had)'
  BY DropKeeps, LoadAheadKeeps, AdvanceKeeps, LoadKeeps, ClearKeeps, TestKeeps, LoadNextKeeps,
     CutKeeps,
     MoveKeeps, DropCurrKeeps, FreeKeeps DEF K!Owner

(* and so does none.                                                        *)
LEMMA NothingKeeps ==
  ASSUME NEW had, Inductive(had), UNCHANGED K!vars
  PROVE  Inductive(had)'
<1>1. /\ v1' = v1 /\ v2' = v2 /\ v3' = v3 /\ v4' = v4 /\ v5' = v5
      /\ v6' = v6 /\ v7' = v7 /\ v8' = v8
  BY DEF K!vars, K!history
<1>2. Known /\ K!OpenInv /\ TokensAre(had) /\ K!BudgetInv(had)
  BY DEF Inductive
<1>3. K!TypeOK' /\ K!DeadInv' /\ K!LinksInv' /\ K!CallsInv' /\ K!OpenInv'
  <2>1. K!TypeOK'
    BY <1>1, <1>2 DEF Known, K!TypeOK
  <2>2. K!Destroyed' = K!Destroyed /\ \A o : K!Top(o)' = K!Top(o)
    BY <1>1 DEF K!Destroyed, K!Top
  <2>3. K!DeadInv'
    BY <1>1, <1>2, <2>2 DEF Known, K!DeadInv
  <2>4. K!LinksInv'
    BY <1>1, <1>2 DEF Known, K!LinksInv
  <2>5. \A g : K!Knows(g) => K!Knows(g)'
    BY <1>1 DEF K!Knows
  <2>6. K!CallsInv'
    BY <1>1, <1>2, <2>2, <2>5 DEF Known, K!CallsInv
  <2>7. K!OpenInv'
    BY <1>1, <1>2, <2>2 DEF K!OpenInv
  <2>8. QED
    BY <2>1, <2>3, <2>4, <2>6, <2>7
<1>4. K!CountsInv'
  <2>1. \A x \in K!Nodes : K!References(x)' = K!References(x)
    BY <1>1 DEF K!References, K!Places, K!In
  <2>2. QED
    BY <1>1, <1>2, <2>1, CountsAre DEF Known
<1>5. TokensAre(had)'
  <2>1. \A k, u, i, c : K!Carrying(k, u, i, c)' <=> K!Carrying(k, u, i, c)
    BY <1>1 DEF K!Carrying, K!Carries, K!In
  <2>2. \A c : (Behind(had, c)' <=> Behind(had, c)) /\ (Both(had, c)' <=> Both(had, c))
    BY <1>1 DEF Behind, Both, K!IsCut
  <2>3. QED
    BY <1>1, <1>2, <2>1, <2>2 DEF TokensAre
<1>6. K!BudgetInv(had)'
  <2>1. \A u : K!Depth(u)' = K!Depth(u) /\ (K!Passed(u)' <=> K!Passed(u)) /\ K!Top(u)' = K!Top(u)
    BY <1>1 DEF K!Depth, K!Passed, K!Top
  <2>2. K!Destroyed' = K!Destroyed
    BY <1>1 DEF K!Destroyed
  <2>3. \A u : K!Late(had, u)' <=> K!Late(had, u)
    BY <1>1, <2>1, <2>2 DEF K!Late
  <2>4. \A u, c : Drops(u, c)' <=> Drops(u, c)
    BY <1>1, <2>1 DEF Drops
  <2>5. \A u \in K!Owners : Affords(had, u)'
    <3>1. SUFFICES ASSUME NEW u \in K!Owners PROVE Affords(had, u)'
      OBVIOUS
    <3>2. Affords(had, u)
      BY <1>2, AffordsIs DEF Known
    <3>3. QED
      BY <1>1, <2>1, <2>3, <2>4, <3>2 DEF Affords
  <2>6. QED
    BY <1>3, <2>5, AffordsIs
<1>7. QED
  BY <1>3, <1>4, <1>5, <1>6 DEF Inductive, Known

(* The places of a kind are finitely many.                                  *)
LEMMA PlacesOfAKind ==
  ASSUME NEW X, IsFiniteSet(X), NEW k
  PROVE  IsFiniteSet({k} \X X \X {0})
<1> DEFINE Y == {k} \X X \X {0}
           f == [s \in X |-> <<k, s, 0>>]
<1>1. f \in Surjection(X, Y)
  <2>1. \A s \in X : <<k, s, 0>> \in Y
    OBVIOUS
  <2>2. \A t \in Y : \E s \in X : t = <<k, s, 0>>
    OBVIOUS
  <2> HIDE DEF Y
  <2>3. f \in [X -> Y] /\ \A t \in Y : \E s \in X : f[s] = t
    BY <2>1, <2>2
  <2>4. QED
    BY <2>3, Fun_IsSurj
<1>2. QED
  BY <1>1, FS_Surjection

(* What is there when a list is destroyed                                   *)
LEMMA InitFacts ==
  ASSUME K!Init
  PROVE  /\ v1 \in [K!Nodes -> K!Nodes \cup {K!Nil}] /\ v7 = v1 /\ v8 = 0
         /\ \A x \in 1 .. Chain - 1 : v1[x] = x + 1
         /\ v1[Chain] = K!Nil /\ v1[K!Grave] \in (2 .. Chain) \cup {K!Nil}
         /\ v4 \in [K!Owners -> K!Nodes] /\ v4[TheList] = 1
         /\ v5 = [o \in K!Owners |-> K!Nil] /\ \A o \in K!Owners : v6[o] = <<>>
         /\ v6 \in [K!Owners -> Seq(K!Calls)]
         /\ v3 \subseteq K!Nodes /\ 1 .. Chain \subseteq v3 /\ \A o \in K!Owners : v4[o] \in v3
         /\ v2 = [x \in K!Nodes |-> K!Count(x)] /\ K!Destroyed = {}
<1>1. PICK g \in 2 .. Chain + 2 :
        v1 = [x \in K!Nodes |-> IF x < Chain THEN x + 1 ELSE IF x = K!Grave /\ g <= Chain THEN g ELSE K!Nil]
  BY DEF K!Init
<1>2. /\ Chain \in Nat /\ Chain >= 1 /\ K!Nil = 0 /\ K!Grave = Chain + 1 /\ K!Nodes = 1 .. Chain + 1
  BY Constants DEF K!Nodes
<1>3. \A x \in K!Nodes : (IF x < Chain THEN x + 1 ELSE IF x = K!Grave /\ g <= Chain THEN g ELSE K!Nil) \in K!Nodes \cup {K!Nil}
  BY <1>2
<1>4. v1 \in [K!Nodes -> K!Nodes \cup {K!Nil}]
  BY <1>1, <1>3
<1>5. /\ \A x \in 1 .. Chain - 1 : x \in K!Nodes /\ x < Chain
      /\ Chain \in K!Nodes /\ K!Grave \in K!Nodes /\ ~(Chain < Chain) /\ ~(K!Grave < Chain)
      /\ Chain # K!Grave
  BY <1>2
<1>6. /\ \A x \in 1 .. Chain - 1 : v1[x] = x + 1
      /\ v1[Chain] = K!Nil /\ v1[K!Grave] = IF g <= Chain THEN g ELSE K!Nil
  BY <1>1, <1>5
<1>7. v1[K!Grave] \in (2 .. Chain) \cup {K!Nil}
  BY <1>2, <1>6
<1>8. /\ v7 = v1 /\ v8 = 0 /\ v4 \in [K!Owners -> K!Nodes] /\ v4[TheList] = 1
      /\ v5 = [o \in K!Owners |-> K!Nil] /\ v6 = [o \in K!Owners |-> <<>>]
      /\ v3 = (1 .. Chain) \cup {v4[o] : o \in K!Owners} /\ v2 = [x \in K!Nodes |-> K!Count(x)]
  BY DEF K!Init
<1>9. v3 \subseteq K!Nodes /\ 1 .. Chain \subseteq v3 /\ \A o \in K!Owners : v4[o] \in v3
  BY <1>2, <1>8
<1>10. v6 \in [K!Owners -> Seq(K!Calls)] /\ \A o \in K!Owners : v6[o] = <<>> /\ DOMAIN v6[o] = {}
  BY <1>8
<1>11. K!Destroyed = {}
  BY <1>10 DEF K!Destroyed
<1>12. QED
  BY <1>4, <1>6, <1>7, <1>8, <1>9, <1>10, <1>11

(* The counts are right at the start,                                       *)
LEMMA InitCounts ==
  ASSUME K!Init
  PROVE  /\ K!CountsInv /\ v2 \in [K!Nodes -> Nat]
         /\ \A x \in K!Nodes : v2[x] > 0 => x \in v3
<1>1. /\ \A o \in K!Owners : DOMAIN v6[o] = {} /\ v5[o] = K!Nil /\ v4[o] \in v3
      /\ v3 \subseteq K!Nodes /\ 1 .. Chain \subseteq v3 /\ v2 = [x \in K!Nodes |-> K!Count(x)]
  BY InitFacts
<1>2. IsFiniteSet(K!Owners) /\ IsFiniteSet(v3)
  <2>1. IsFiniteSet({TheList}) /\ K!Owners = Iterators \cup {TheList}
    BY FS_Singleton DEF K!Owners
  <2>2. IsFiniteSet(1 .. Chain + 1)
    BY FS_Interval, Constants
  <2>3. v3 \subseteq 1 .. Chain + 1
    BY <1>1 DEF K!Nodes
  <2>4. QED
    BY <2>1, <2>2, <2>3, IteratorsAreFinite, FS_Union, FS_Subset
<1> DEFINE nexts == {"next"} \X v3 \X {0}
           holds == {"hold"} \X K!Owners \X {0}
           aheads == {"ahead"} \X K!Owners \X {0}
<1>3. K!Places \subseteq (nexts \cup holds) \cup aheads
  <2>1. \A w \in K!Places : \/ \E y \in v3 : w = <<"next", y, 0>>
                            \/ \E o \in K!Owners : w = <<"hold", o, 0>> \/ w = <<"ahead", o, 0>>
    BY <1>1, PlacesAre
  <2>2. QED
    BY <2>1
<1>4. IsFiniteSet(nexts) /\ IsFiniteSet(holds) /\ IsFiniteSet(aheads)
  BY <1>2, PlacesOfAKind
<1> HIDE DEF nexts, holds, aheads
<1>5. IsFiniteSet((nexts \cup holds) \cup aheads)
  BY <1>4, FS_Union
<1>6. ASSUME NEW x \in K!Nodes
      PROVE  IsFiniteSet(K!References(x)) /\ v2[x] = Cardinality(K!References(x)) /\ v2[x] \in Nat
  <2>1. K!References(x) \subseteq K!Places
    BY DEF K!References
  <2>2. IsFiniteSet(K!References(x))
    BY <1>3, <1>5, <2>1, FS_Subset
  <2>3. QED
    BY <1>1, <2>2, CountsAre, FS_CardinalityType
<1>7. K!CountsInv /\ v2 \in [K!Nodes -> Nat]
  BY <1>1, <1>6, CountsAre
<1>8. ASSUME NEW x \in K!Nodes, v2[x] > 0
      PROVE  x \in v3
  <2>1. K!References(x) # {}
    BY <1>6, <1>8, FS_EmptySet
  <2>2. PICK w : w \in K!References(x)
    BY <2>1
  <2>3. PICK k, a, i : w = <<k, a, i>> /\ Val(k, a, i) = x
    BY <2>2, ReferencesAre
  <2>4. x # K!Nil
    BY NilIsNoNode
  <2>5. \/ \E y \in v3 : x = v1[y]
        \/ \E o \in K!Owners : x = v4[o]
    BY <1>1, <2>3, <2>4, Values
  <2>6. CASE \E y \in v3 : x = v1[y]
    <3>1. PICK y \in v3 : x = v1[y]
      BY <2>6
    <3>2. y \in 1 .. Chain - 1 \/ y = Chain \/ y = K!Grave
      BY <1>1, Constants DEF K!Nodes
    <3>3. x \in 1 .. Chain
      BY <2>4, <3>1, <3>2, InitFacts, Constants
    <3>4. QED
      BY <1>1, <3>3
  <2>7. CASE \E o \in K!Owners : x = v4[o]
    BY <1>1, <2>7
  <2>8. QED
    BY <2>5, <2>6, <2>7
<1>9. QED
  BY <1>7, <1>8

(* and the invariant holds: nothing is cut and no call has begun.           *)
LEMMA InitKnows ==
  ASSUME K!Init, NEW had, K!Grave \in v3 => had, had => K!Grave \in v3
  PROVE  Inductive(had)
<1>1. \A o \in K!Owners : v6[o] = <<>> /\ DOMAIN v6[o] = {} /\ Len(v6[o]) = 0 /\ v5[o] = K!Nil
  BY InitFacts
<1>2. K!TypeOK
  <2>1. v5 \in [K!Owners -> K!Nodes \cup {K!Nil}]
    BY InitFacts
  <2>2. QED
    BY <2>1, InitFacts, InitCounts DEF K!TypeOK
<1>3. K!CountsInv
  BY InitCounts
<1>4. K!DeadInv
  BY <1>1, InitFacts, InitCounts DEF K!DeadInv
<1>5. K!LinksInv
  <2>1. v4[TheList] = 1 /\ v5[TheList] = K!Nil
    BY <1>1, InitFacts, TheListOwns
  <2>2. QED
    BY <2>1, InitFacts DEF K!LinksInv
<1>6. K!CallsInv /\ K!OpenInv
  BY <1>1, InitFacts DEF K!CallsInv, K!OpenInv
<1>7. TokensAre(had)
  BY <1>1 DEF TokensAre, K!Carrying
<1>8. K!BudgetInv(had)
  <2>1. \A o \in K!Owners : K!Depth(o) = 0 /\ ~K!At(o, "drop")
    BY <1>1 DEF K!Depth, K!At
  <2>2. \A o : ~K!Late(had, o)
    BY InitFacts DEF K!Late
  <2>3. QED
    BY <2>1, <2>2, InitFacts DEF K!BudgetInv
<1>9. QED
  BY <1>2, <1>3, <1>4, <1>5, <1>6, <1>7, <1>8 DEF Inductive, Known

(* The invariant of this proof is ChainInv.                                 *)
LEMMA ChainInvIs ==
  /\ K!ChainInv => \E had \in BOOLEAN : Inductive(had)
  /\ \A had \in BOOLEAN : Inductive(had) => K!ChainInv
  /\ \A had \in BOOLEAN : Inductive(had)' => K!ChainInv'
<1>1. ASSUME K!ChainInv
      PROVE  \E had \in BOOLEAN : Inductive(had)
  <2>1. PICK had \in BOOLEAN : K!TokenInv(had) /\ K!BudgetInv(had)
    BY <1>1 DEF K!ChainInv
  <2>2. TokensAre(had)
    BY <1>1, <2>1, TokensAreTokens DEF K!ChainInv
  <2>3. QED
    BY <1>1, <2>1, <2>2 DEF K!ChainInv, Inductive, Known
<1>2. ASSUME NEW had \in BOOLEAN, Inductive(had)
      PROVE  K!ChainInv
  BY <1>2, TokensAreTokens DEF K!ChainInv, Inductive, Known
<1>3. ASSUME NEW had \in BOOLEAN, Inductive(had)'
      PROVE  K!ChainInv'
  BY <1>3, TokensAreTokens DEF K!ChainInv, Inductive, Known
<1>4. QED
  BY <1>1, <1>2, <1>3

(* The invariant holds what the run checks: counts, open ways and depth.    *)
LEMMA ChainSafe == K!ChainInv => K!ChainsAreDismantled
<1> SUFFICES ASSUME K!ChainInv PROVE K!ChainsAreDismantled
  OBVIOUS
<1>1. PICK had \in BOOLEAN : Inductive(had)
  BY ChainInvIs
<1>2. Known /\ K!OpenInv /\ K!BudgetInv(had)
  BY <1>1 DEF Inductive
<1>3. K!NobodyHoldsTheDead
  BY <1>2 DEF K!NobodyHoldsTheDead, Known
<1>4. K!WaysStayOpen
  BY <1>2, WaysAreOpen
<1>5. ASSUME NEW o \in K!Owners
      PROVE  Len(v6[o]) <= 2 + v8
  <2>1. Len(v6[o]) \in Nat /\ K!Depth(o) \in Nat /\ Len(v6[o]) <= K!Depth(o) + 2 /\ v8 \in Nat
    BY <1>2, DepthIs DEF Known, K!TypeOK
  <2>2. K!Depth(o) <= v8
    BY <1>2 DEF K!BudgetInv
  <2>3. QED
    BY <2>1, <2>2
<1>6. QED
  BY <1>3, <1>4, <1>5 DEF K!ChainsAreDismantled, K!CallsNestByIterators

(* It holds when a list is destroyed,                                       *)
LEMMA ChainInit == K!Init => K!ChainInv
<1> SUFFICES ASSUME K!Init PROVE K!ChainInv
  OBVIOUS
<1>1. CASE K!Grave \in v3
  <2>1. Inductive(TRUE)
    BY <1>1, InitKnows
  <2>2. QED
    BY <2>1, ChainInvIs
<1>2. CASE K!Grave \notin v3
  <2>1. Inductive(FALSE)
    BY <1>2, InitKnows
  <2>2. QED
    BY <2>1, ChainInvIs
<1>3. QED
  BY <1>1, <1>2

(* and every step keeps it.                                                 *)
LEMMA ChainStep == K!ChainInv /\ [K!Next]_K!vars => K!ChainInv'
<1> SUFFICES ASSUME K!ChainInv, [K!Next]_K!vars PROVE K!ChainInv'
  OBVIOUS
<1>1. PICK had \in BOOLEAN : Inductive(had)
  BY ChainInvIs
<1>2. Inductive(had)'
  <2>1. CASE K!Next
    BY <1>1, <2>1, OwnerKeeps DEF K!Next
  <2>2. CASE UNCHANGED K!vars
    BY <1>1, <2>2, NothingKeeps
  <2>3. QED
    BY <2>1, <2>2
<1>3. QED
  BY <1>2, ChainInvIs

(* The invariant of NodeChain, for the behaviors that are its own           *)
ChainProgramInv == which = "chain" => K!ChainInv

(* The end of a list, for a chain of any length and any finite number of    *)
(* iterators, one of which may be at a node that was erased: in whatever    *)
(* order the iterators and the list give up what they hold, each node's     *)
(* count is the number of references to it, nobody refers to a node that    *)
(* is being destroyed or is gone, a node is destroyed once, an iterator     *)
(* finds the way on as it was, and ~Node() is nested no deeper than the     *)
(* number of references that iterators gave up, and two.                    *)
THEOREM ChainsEndSafely == ProgramsSpec => []ChainsAreDismantled
<1>1. ProgramsInit => ChainProgramInv
  BY ChainInit DEF ProgramsInit, ChainProgramInv
<1>2. ChainProgramInv /\ [ProgramsNext]_all => ChainProgramInv'
  <2> SUFFICES ASSUME ChainProgramInv, [ProgramsNext]_all, which = "chain"
               PROVE  K!ChainInv'
    BY WhichStays DEF ChainProgramInv
  <2>1. CASE ProgramsNext
    <3>1. K!Next
      BY <2>1 DEF ProgramsNext
    <3>2. QED
      BY <3>1, ChainStep DEF ChainProgramInv
  <2>2. CASE UNCHANGED all
    <3>1. UNCHANGED K!vars
      BY <2>2 DEF all, K!vars, K!history
    <3>2. QED
      BY <3>1, ChainStep DEF ChainProgramInv
  <2>3. QED
    BY <2>1, <2>2
<1>3. ChainProgramInv => ChainsAreDismantled
  BY ChainSafe DEF ChainProgramInv, ChainsAreDismantled
<1>4. QED
  BY <1>1, <1>2, <1>3, PTL DEF ProgramsSpec
=============================================================================
