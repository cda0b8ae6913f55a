------------------------------ MODULE SpinLock ------------------------------
(***************************************************************************)
(* The test-and-test-and-set SpinLock of Chapter07 (spinlock.h): lock(),   *)
(* try_lock() and unlock(), one action per atomic access of the lock word. *)
(*                                                                         *)
(* An acquire attempt is  lock_.load() || lock_.exchange(1):  the load and *)
(* the exchange are separate steps, so another thread may take or release  *)
(* the lock between them.  Attempts come in bursts (the for-condition and  *)
(* the hand-unrolled body); a failed burst sleeps, or ends try_lock().     *)
(*                                                                         *)
(* Not modelled: the duration of the sleeps and locked(), a read that      *)
(* changes nothing.                                                        *)
(***************************************************************************)
EXTENDS Naturals

CONSTANTS
  Threads,      (* the threads that share the lock                          *)
  Burst,        (* acquire attempts in one round: 8 in the source           *)
  ShortRounds   (* spin_count below this sleeps the short sleep: 8          *)

ASSUME SpinLockAssumption ==
  /\ Burst \in Nat \ {0}
  /\ ShortRounds \in Nat \ {0}

VARIABLES
  lock,         (* the lock word: 0 free, 1 held                            *)
  pc,           (* where each thread is                                     *)
  op,           (* the operation it runs: "lock" or "try_lock"              *)
  spin_count,   (* its local of that name                                   *)
  attempt,      (* the attempts of the current burst made so far            *)
  yields,       (* history: its short sleeps since the last long one        *)
  slept,        (* history: its call has slept long before                  *)
  sawFree       (* history: the lock was free at some point of the call     *)

vars == <<lock, pc, op, spin_count, attempt, yields, slept, sawFree>>

Ops == {"lock", "try_lock"}

(* "gave_up" is the return of false from try_lock.                         *)
Waiting == {"test", "exchange", "short_sleep", "long_sleep"}
PCs     == {"idle", "critical", "gave_up"} \cup Waiting

TypeOK ==
  /\ lock \in {0, 1}
  /\ pc \in [Threads -> PCs]
  /\ op \in [Threads -> Ops]
  /\ spin_count \in [Threads -> 0 .. ShortRounds]
  /\ attempt \in [Threads -> 0 .. Burst - 1]
  /\ yields \in [Threads -> 0 .. ShortRounds]
  /\ slept \in [Threads -> BOOLEAN]
  /\ sawFree \in [Threads -> BOOLEAN]

Init ==
  /\ lock = 0
  /\ pc = [t \in Threads |-> "idle"]
  /\ op = [t \in Threads |-> "lock"]
  /\ spin_count = [t \in Threads |-> 0]
  /\ attempt = [t \in Threads |-> 0]
  /\ yields = [t \in Threads |-> 0]
  /\ slept = [t \in Threads |-> FALSE]
  /\ sawFree = [t \in Threads |-> FALSE]

Goto(t, l) == pc' = [pc EXCEPT ![t] = l]

(* The history of every call in progress, when the lock word is lockNext.   *)
Observe(lockNext) ==
  sawFree' = [t \in Threads |-> sawFree[t] \/ (pc[t] \in Waiting /\ lockNext = 0)]

Call(t) ==
  /\ pc[t] \in {"idle", "gave_up"}
  /\ \E o \in Ops : op' = [op EXCEPT ![t] = o]
  /\ spin_count' = [spin_count EXCEPT ![t] = 0]
  /\ attempt' = [attempt EXCEPT ![t] = 0]
  /\ yields' = [yields EXCEPT ![t] = 0]
  /\ slept' = [slept EXCEPT ![t] = FALSE]
  /\ sawFree' = [sawFree EXCEPT ![t] = lock = 0]
  /\ Goto(t, "test")
  /\ UNCHANGED lock

(* The ends of a burst of failed attempts: another round after a short      *)
(* sleep, or after a long one that starts the count over, or no more.       *)
ShortSleep(t) ==
  /\ spin_count[t] < ShortRounds
  /\ Goto(t, "short_sleep")
  /\ yields' = [yields EXCEPT ![t] = @ + 1]
  /\ UNCHANGED spin_count

LongSleep_KeepsCount(t) ==     \* mutant: the count is not started over
  /\ spin_count[t] >= ShortRounds
  /\ op[t] = "lock"
  /\ Goto(t, "long_sleep")
  /\ UNCHANGED <<spin_count, yields>>

LongSleep_InTryLock(t) ==      \* mutant: try_lock() sleeps long as well
  /\ spin_count[t] >= ShortRounds
  /\ Goto(t, "long_sleep")
  /\ spin_count' = [spin_count EXCEPT ![t] = 0]
  /\ UNCHANGED yields

LongSleep(t) ==
  /\ spin_count[t] >= ShortRounds
  /\ op[t] = "lock"
  /\ Goto(t, "long_sleep")
  /\ spin_count' = [spin_count EXCEPT ![t] = 0]
  /\ UNCHANGED yields

GiveUp_OneRoundEarly(t) ==     \* mutant: off by one in the last round
  /\ spin_count[t] + 1 >= ShortRounds
  /\ op[t] = "try_lock"
  /\ Goto(t, "gave_up")
  /\ UNCHANGED <<spin_count, yields>>

GiveUp(t) ==
  /\ spin_count[t] >= ShortRounds
  /\ op[t] = "try_lock"
  /\ Goto(t, "gave_up")
  /\ UNCHANGED <<spin_count, yields>>

(* One attempt failed: go on with the burst, or end it.                     *)
FailedAttempt(t) ==
  /\ attempt' = [attempt EXCEPT ![t] = (@ + 1) % Burst]
  /\ \/ /\ attempt[t] + 1 < Burst
        /\ Goto(t, "test")
        /\ UNCHANGED <<spin_count, yields>>
     \/ /\ attempt[t] + 1 = Burst
        /\ ShortSleep(t) \/ LongSleep(t) \/ GiveUp(t)

(* lock_.load(relaxed)                                                      *)
TestFree(t) ==
  /\ pc[t] = "test"
  /\ lock = 0
  /\ Goto(t, "exchange")
  /\ UNCHANGED <<lock, op, spin_count, attempt, yields, slept, sawFree>>

TestHeld(t) ==
  /\ pc[t] = "test"
  /\ lock = 1
  /\ FailedAttempt(t)
  /\ UNCHANGED <<lock, op, slept, sawFree>>

ExchangeWon_StoreOnly(t) ==    \* mutant: a store, trusting the load before it
  /\ pc[t] = "exchange"
  /\ lock' = 1
  /\ Goto(t, "critical")
  /\ UNCHANGED <<op, spin_count, attempt, yields, slept, sawFree>>

(* lock_.exchange(1, acquire), which returned 0 or 1                        *)
ExchangeWon(t) ==
  /\ pc[t] = "exchange"
  /\ lock = 0
  /\ lock' = 1
  /\ Goto(t, "critical")
  /\ UNCHANGED <<op, spin_count, attempt, yields, slept, sawFree>>

ExchangeLost(t) ==
  /\ pc[t] = "exchange"
  /\ lock = 1
  /\ FailedAttempt(t)
  /\ UNCHANGED <<lock, op, slept, sawFree>>

(* The sleep is over: ++spin_count and the next round.                      *)
Wake(t) ==
  /\ pc[t] \in {"short_sleep", "long_sleep"}
  /\ spin_count' = [spin_count EXCEPT ![t] = @ + 1]
  /\ yields' = IF pc[t] = "long_sleep" THEN [yields EXCEPT ![t] = 0] ELSE yields
  /\ slept' = IF pc[t] = "long_sleep" THEN [slept EXCEPT ![t] = TRUE] ELSE slept
  /\ Goto(t, "test")
  /\ UNCHANGED <<lock, op, attempt, sawFree>>

Unlock_NoStore(t) ==           \* mutant: the word is never cleared
  /\ pc[t] = "critical"
  /\ Goto(t, "idle")
  /\ UNCHANGED <<lock, op, spin_count, attempt, yields, slept, sawFree>>

(* unlock(), called by the holder only (std::unique_lock, std::lock_guard)  *)
Unlock(t) ==
  /\ pc[t] = "critical"
  /\ lock' = 0
  /\ Goto(t, "idle")
  /\ Observe(0)
  /\ UNCHANGED <<op, spin_count, attempt, yields, slept>>

Acquire(t) ==
  TestFree(t) \/ TestHeld(t) \/ ExchangeWon(t) \/ ExchangeLost(t) \/ Wake(t)

Next == \E t \in Threads : Call(t) \/ Acquire(t) \/ Unlock(t)

Spec == Init /\ [][Next]_vars

(* A thread inside lock() or try_lock() keeps being scheduled; nothing is   *)
(* assumed about how long a holder keeps the lock.                          *)
ScheduledSpec == Spec /\ \A t \in Threads : WF_vars(Acquire(t))

(* Holders release the lock in the end.                                     *)
HoldersRelease == \A t \in Threads : WF_vars(Unlock(t))

-----------------------------------------------------------------------------
(* The lock word says whether the lock is held, and at most one thread is   *)
(* inside: a successful exchange is the only way in, however many threads   *)
(* saw the word 0 in the load before it (lines 72-83).                      *)
MutualExclusion ==
  /\ \A t, u \in Threads : pc[t] = "critical" /\ pc[u] = "critical" => t = u
  /\ (lock = 1) <=> \E t \in Threads : pc[t] = "critical"

(* The two loops do what the class promises: lock() never comes back        *)
(* without the lock, only try_lock() does, and only a thread in a call can  *)
(* get it, in one step, when nobody has it (lines 95-158).                  *)
Stage ==
  [t \in Threads |->
    CASE pc[t] = "idle"     -> "outside"
      [] pc[t] = "critical" -> "inside"
      [] pc[t] = "gave_up"  -> "refused"
      [] OTHER              -> op[t]]

L == INSTANCE Lockable WITH stage <- Stage

ImplementsLock == L!LockableSpec

(* How often lock() sleeps short before it sleeps long: ShortRounds times   *)
(* the first time, ShortRounds - 1 times in every later round, since the    *)
(* ++spin_count of line 98 follows the reset of line 110.  The comments     *)
(* speak of eight rounds "and repeating" (lines 91-92) and of starting the  *)
(* budget over (line 111); this says what the code does, which is one less. *)
ShortSleepsBeforeLong ==
  \A t \in Threads : pc[t] = "long_sleep" =>
    yields[t] = IF slept[t] THEN ShortRounds - 1 ELSE ShortRounds

(* try_lock() never sleeps long, and gives up after ShortRounds short       *)
(* sleeps: as many as lock() makes before its first long one ("gives up     *)
(* only where lock() would escalate", lines 133-135).                       *)
TryLockSpendsItsBudget ==
  \A t \in Threads :
    /\ pc[t] = "gave_up" => yields[t] = ShortRounds
    /\ pc[t] = "long_sleep" => op[t] = "lock"

(* Both: the exact number of short sleeps, at any interleaving with the     *)
(* other threads, before a thread sleeps long and before it gives up.       *)
BackoffBudgets == ShortSleepsBeforeLong /\ TryLockSpendsItsBudget

(* Deadlock freedom: if holders release the lock, then while a thread is    *)
(* inside lock() some thread keeps entering the critical section; who it is *)
(* is not promised.                                                         *)
LockingProgresses ==
  HoldersRelease =>
    ((\E t \in Threads : pc[t] \in Waiting /\ op[t] = "lock")
       ~> (\E t \in Threads : pc[t] = "critical"))

(* try_lock() returns even if the holder never releases the lock: its       *)
(* spinning is bounded.                                                     *)
TryLockReturns ==
  \A t \in Threads :
    (pc[t] \in Waiting /\ op[t] = "try_lock") ~> (pc[t] \in {"critical", "gave_up"})

(* Both: whoever waits does not wait in vain, as far as the class promises.  *)
WaitingEnds == LockingProgresses /\ TryLockReturns

-----------------------------------------------------------------------------
(* "So false means the lock was genuinely held the whole time" (line 135).  *)
FalseMeansHeldAllTheTime ==
  \A t \in Threads : pc[t] = "gave_up" => ~sawFree[t]

(* "eight rounds of near-zero yields, then one ~1 ms sleep, resetting the   *)
(* counter and repeating" (lines 91-92).  Not so after the first long sleep.*)
EightYieldsEveryCycle ==
  \A t \in Threads : pc[t] = "long_sleep" => yields[t] = ShortRounds
=============================================================================
