--------------------------- MODULE KeyQueueProofs ---------------------------
(***************************************************************************)
(* The key-only queue is linearizable: KeyQueue implements BoundedQueue,   *)
(* for any threads, keys, capacity and number of probes.                   *)
(*                                                                         *)
(* The invariant describes the ring by two virtual indices, First and      *)
(* Last, that move with the stores of the keys and not with head_.i and    *)
(* tail_.i: the slots from First to Last are occupied, those from Last to  *)
(* First + Capacity are empty.                                             *)
(***************************************************************************)
EXTENDS KeyQueue, RingLemmas, SequenceTheorems

(* A producer that is going to probe the slot has a probe left.             *)
TypeInv ==
  /\ TypeOK
  /\ \A p \in Producers : pc[p] \in {"push_lock", "push_key"} => tries[p] < NTRY

(* A thread is inside a critical section exactly if it holds the lock.      *)
LockInv ==
  /\ \A p \in Producers : tail_l = p <=> pc[p] \in HoldsTail
  /\ \A c \in Consumers : head_l = c <=> pc[c] \in HoldsHead

RingInv ==
  /\ First <= Last
  /\ Last <= First + Capacity
  /\ \A i \in Nat : First <= i /\ i < Last => key[Slot(i)] # NoKey
  /\ \A i \in Nat : Last <= i /\ i < First + Capacity => key[Slot(i)] = NoKey

(* What a thread read under its lock still holds when it acts on it.        *)
LocalInv ==
  /\ \A p \in Producers : pc[p] = "push_store" => key[Slot(tail_i)] = NoKey
  /\ \A c \in Consumers :
       pc[c] = "pop_clear" => ret[c] # NoKey /\ ret[c] = key[Slot(head_i)]

Inv == TypeInv /\ LockInv /\ RingInv /\ LocalInv

-----------------------------------------------------------------------------
LEMMA SlotFacts ==
  /\ \A i \in Nat : Slot(i) \in SlotIndex
  /\ \A i, j \in Nat : Slot(i) = Slot(j) /\ i < j + Capacity /\ j < i + Capacity => i = j
  /\ \A i \in Nat : Slot(i + Capacity) = Slot(i)
  BY KeyQueueAssumption, ModRange, ModInjective, ModLap DEF Slot, SlotIndex

LEMMA FirstLastType ==
  ASSUME TypeOK
  PROVE  First \in Nat /\ Last \in Nat
  BY DEF TypeOK, First, Last

(* A holder of a lock knows its virtual index.                              *)
LEMMA HolderKnowsFirst ==
  ASSUME TypeOK, LockInv, NEW c \in Consumers, pc[c] \in HoldsHead
  PROVE  First = IF pc[c] = "pop_advance" THEN head_i + 1 ELSE head_i
<1>1. \A d \in Consumers : pc[d] = "pop_advance" => d = c
  BY DEF LockInv, HoldsHead
<1>2. QED
  BY <1>1 DEF First, TypeOK

LEMMA HolderKnowsLast ==
  ASSUME TypeOK, LockInv, NEW p \in Producers, pc[p] \in HoldsTail
  PROVE  Last = IF pc[p] = "push_advance" THEN tail_i + 1 ELSE tail_i
<1>1. \A q \in Producers : pc[q] = "push_advance" => q = p
  BY DEF LockInv, HoldsTail
<1>2. QED
  BY <1>1 DEF Last, TypeOK

(* The slot at the tail is empty exactly if the ring has room, and the slot *)
(* at the head is empty exactly if the ring is: no comparison of the two    *)
(* indices is needed.                                                       *)
LEMMA TailSlotTellsFull ==
  ASSUME TypeOK, RingInv, Last = tail_i
  PROVE  key[Slot(tail_i)] = NoKey <=> Last < First + Capacity
<1> USE KeyQueueAssumption
<1>1. First \in Nat /\ Last \in Nat
  BY FirstLastType
<1>2. CASE Last < First + Capacity
  BY <1>1, <1>2 DEF RingInv
<1>3. CASE Last = First + Capacity
  <2>1. Slot(Last) = Slot(First)
    BY <1>1, <1>3, SlotFacts
  <2>2. key[Slot(First)] # NoKey
    BY <1>1, <1>3 DEF RingInv
  <2>3. QED BY <1>3, <2>1, <2>2, <1>1
<1>4. QED
  BY <1>1, <1>2, <1>3 DEF RingInv

LEMMA HeadSlotTellsEmpty ==
  ASSUME TypeOK, RingInv, First = head_i
  PROVE  key[Slot(head_i)] = NoKey <=> First = Last
<1> USE KeyQueueAssumption
<1>1. First \in Nat /\ Last \in Nat
  BY FirstLastType
<1>2. QED
  BY <1>1 DEF RingInv

-----------------------------------------------------------------------------
LEMMA InitInv == Init => Inv
<1> SUFFICES ASSUME Init PROVE Inv
  OBVIOUS
<1> USE KeyQueueAssumption
<1>1. TypeInv
  BY DEF Init, TypeInv, TypeOK, ProducerPCs, ConsumerPCs, Threads
<1>2. LockInv
  BY DEF Init, LockInv, HoldsTail, HoldsHead, Threads
<1>3. First = 0 /\ Last = 0
  BY DEF Init, First, Last, Threads
<1>4. RingInv
  BY <1>3, SlotFacts DEF Init, RingInv
<1>5. LocalInv
  BY DEF Init, LocalInv, Threads
<1>6. QED
  BY <1>1, <1>2, <1>4, <1>5 DEF Inv

LEMMA TypeStep == TypeInv /\ [Next]_vars => TypeInv'
<1> SUFFICES ASSUME TypeInv, [Next]_vars PROVE TypeInv'
  OBVIOUS
<1> USE KeyQueueAssumption, SlotFacts
    DEF TypeInv, TypeOK, Goto, ProducerPCs, ConsumerPCs, HoldsTail, HoldsHead, Threads,
        head, tail, locals
<1>1. ASSUME NEW p \in Producers, PushCall(p) PROVE TypeInv'
  BY <1>1 DEF PushCall
<1>2. ASSUME NEW p \in Producers, PushLock(p) PROVE TypeInv'
  BY <1>2 DEF PushLock
<1>3. ASSUME NEW p \in Producers, PushKey(p) PROVE TypeInv'
  <2>1. CASE tries' = tries
    BY <1>3, <2>1 DEF PushKey
  <2>2. CASE /\ tries' = [tries EXCEPT ![p] = @ + 1]
             /\ Goto(p, IF tries[p] + 1 = NTRY THEN "push_full" ELSE "push_key")
    <3>1. tries[p] < NTRY /\ tries[p] \in 0 .. NTRY
      BY <1>3 DEF PushKey
    <3>2. tries' \in [Producers -> 0 .. NTRY]
      BY <2>2, <3>1
    <3>3. QED BY <1>3, <2>2, <3>1, <3>2 DEF PushKey
  <2>3. QED BY <1>3, <2>1, <2>2 DEF PushKey
<1>4. ASSUME NEW p \in Producers, PushStore(p) PROVE TypeInv'
  BY <1>4 DEF PushStore
<1>5. ASSUME NEW p \in Producers, PushAdvance(p) PROVE TypeInv'
  BY <1>5 DEF PushAdvance
<1>6. ASSUME NEW p \in Producers, PushFull(p) PROVE TypeInv'
  BY <1>6 DEF PushFull
<1>7. ASSUME NEW c \in Consumers, Call(c) PROVE TypeInv'
  BY <1>7 DEF Call
<1>8. ASSUME NEW c \in Consumers, HeadLock(c) PROVE TypeInv'
  BY <1>8 DEF HeadLock
<1>9. ASSUME NEW c \in Consumers, PopKey(c) \/ EmptyKey(c) PROVE TypeInv'
  <2>1. CASE PopKey(c)
    BY <2>1 DEF PopKey
  <2>2. CASE EmptyKey(c)
    BY <2>2 DEF EmptyKey
  <2>3. QED BY <1>9, <2>1, <2>2
<1>10. ASSUME NEW c \in Consumers, PopClear(c) PROVE TypeInv'
  BY <1>10 DEF PopClear
<1>11. ASSUME NEW c \in Consumers, PopAdvance(c) PROVE TypeInv'
  BY <1>11 DEF PopAdvance
<1>12. ASSUME NEW c \in Consumers, HeadReturn(c) PROVE TypeInv'
  BY <1>12 DEF HeadReturn
<1>13. CASE UNCHANGED vars
  BY <1>13 DEF vars
<1>14. QED
  BY <1>1, <1>2, <1>3, <1>4, <1>5, <1>6, <1>7, <1>8, <1>9, <1>10, <1>11, <1>12, <1>13
  DEF Next, PushStep, ConsumerStep

LEMMA LockStep == TypeInv /\ LockInv /\ [Next]_vars => LockInv'
<1> SUFFICES ASSUME TypeInv, LockInv, [Next]_vars PROVE LockInv'
  OBVIOUS
<1> USE KeyQueueAssumption
    DEF TypeInv, TypeOK, LockInv, Goto, HoldsTail, HoldsHead, Threads, head, tail
<1>1. ASSUME NEW p \in Producers, PushCall(p) PROVE LockInv'
  BY <1>1 DEF PushCall
<1>2. ASSUME NEW p \in Producers, PushLock(p) PROVE LockInv'
  BY <1>2 DEF PushLock
<1>3. ASSUME NEW p \in Producers, PushKey(p) PROVE LockInv'
  BY <1>3 DEF PushKey
<1>4. ASSUME NEW p \in Producers, PushStore(p) PROVE LockInv'
  BY <1>4 DEF PushStore
<1>5. ASSUME NEW p \in Producers, PushAdvance(p) \/ PushFull(p) PROVE LockInv'
  BY <1>5 DEF PushAdvance, PushFull
<1>6. ASSUME NEW c \in Consumers, Call(c) PROVE LockInv'
  BY <1>6 DEF Call
<1>7. ASSUME NEW c \in Consumers, HeadLock(c) PROVE LockInv'
  BY <1>7 DEF HeadLock
<1>8. ASSUME NEW c \in Consumers, PopKey(c) \/ EmptyKey(c) PROVE LockInv'
  BY <1>8 DEF PopKey, EmptyKey
<1>9. ASSUME NEW c \in Consumers, PopClear(c) PROVE LockInv'
  BY <1>9 DEF PopClear
<1>10. ASSUME NEW c \in Consumers, PopAdvance(c) \/ HeadReturn(c) PROVE LockInv'
  BY <1>10 DEF PopAdvance, HeadReturn
<1>11. CASE UNCHANGED vars
  BY <1>11 DEF vars
<1>12. QED
  BY <1>1, <1>2, <1>3, <1>4, <1>5, <1>6, <1>7, <1>8, <1>9, <1>10, <1>11
  DEF Next, PushStep, ConsumerStep

-----------------------------------------------------------------------------
(* What each step does to the virtual ring.  A step is quiet if it leaves   *)
(* the slots and both virtual indices alone.                                *)
Quiet == key' = key /\ First' = First /\ Last' = Last

LEMMA QuietSteps ==
  ASSUME Inv, [Next]_vars,
         \A p \in Producers : ~PushStore(p),
         \A c \in Consumers : ~PopClear(c)
  PROVE  Quiet
<1> USE KeyQueueAssumption
<1>1. TypeInv' /\ LockInv'
  BY TypeStep, LockStep DEF Inv
<1>2. TypeOK /\ TypeOK' /\ LockInv
  BY <1>1 DEF Inv, TypeInv
<1>3. ASSUME NEW p \in Producers,
             PushCall(p) \/ PushLock(p) \/ PushKey(p) \/ PushFull(p)
      PROVE  Quiet
  <2>1. UNCHANGED <<key, head_i, tail_i>>
    BY <1>3 DEF PushCall, PushLock, PushKey, PushFull, head, tail
  <2>2. \A c \in Consumers : pc'[c] = "pop_advance" <=> pc[c] = "pop_advance"
    BY <1>2, <1>3 DEF PushCall, PushLock, PushKey, PushFull, Goto, TypeOK, Threads
  <2>3. \A q \in Producers : pc'[q] = "push_advance" <=> pc[q] = "push_advance"
    BY <1>2, <1>3 DEF PushCall, PushLock, PushKey, PushFull, Goto, TypeOK, Threads
  <2>4. QED BY <2>1, <2>2, <2>3 DEF Quiet, First, Last
<1>4. ASSUME NEW c \in Consumers,
             Call(c) \/ HeadLock(c) \/ PopKey(c) \/ EmptyKey(c) \/ HeadReturn(c)
      PROVE  Quiet
  <2>1. UNCHANGED <<key, head_i, tail_i>>
    BY <1>4 DEF Call, HeadLock, PopKey, EmptyKey, HeadReturn, head, tail
  <2>2. \A d \in Consumers : pc'[d] = "pop_advance" <=> pc[d] = "pop_advance"
    BY <1>2, <1>4 DEF Call, HeadLock, PopKey, EmptyKey, HeadReturn, Goto, TypeOK, Threads
  <2>3. \A q \in Producers : pc'[q] = "push_advance" <=> pc[q] = "push_advance"
    BY <1>2, <1>4 DEF Call, HeadLock, PopKey, EmptyKey, HeadReturn, Goto, TypeOK, Threads
  <2>4. QED BY <2>1, <2>2, <2>3 DEF Quiet, First, Last
<1>5. ASSUME NEW p \in Producers, PushAdvance(p) PROVE Quiet
  <2>1. key' = key /\ head_i' = head_i /\ tail_i' = tail_i + 1
    BY <1>5 DEF PushAdvance, head
  <2>2. Last = tail_i + 1
    BY <1>2, <1>5, HolderKnowsLast DEF PushAdvance, HoldsTail
  <2>3. \A q \in Producers : pc'[q] # "push_advance"
    BY <1>2, <1>5 DEF PushAdvance, Goto, TypeOK, Threads, LockInv, HoldsTail
  <2>4. \A c \in Consumers : pc'[c] = "pop_advance" <=> pc[c] = "pop_advance"
    BY <1>2, <1>5 DEF PushAdvance, Goto, TypeOK, Threads
  <2>5. QED BY <1>2, <2>1, <2>2, <2>3, <2>4 DEF Quiet, First, Last, TypeOK
<1>6. ASSUME NEW c \in Consumers, PopAdvance(c) PROVE Quiet
  <2>1. key' = key /\ head_i' = head_i + 1 /\ tail_i' = tail_i
    BY <1>6 DEF PopAdvance, tail
  <2>2. First = head_i + 1
    BY <1>2, <1>6, HolderKnowsFirst DEF PopAdvance, HoldsHead
  <2>3. \A d \in Consumers : pc'[d] # "pop_advance"
    BY <1>2, <1>6 DEF PopAdvance, Goto, TypeOK, Threads, LockInv, HoldsHead
  <2>4. \A q \in Producers : pc'[q] = "push_advance" <=> pc[q] = "push_advance"
    BY <1>2, <1>6 DEF PopAdvance, Goto, TypeOK, Threads
  <2>5. QED BY <1>2, <2>1, <2>2, <2>3, <2>4 DEF Quiet, First, Last, TypeOK
<1>7. CASE UNCHANGED vars
  BY <1>7 DEF vars, head, tail, Quiet, First, Last
<1>8. QED
  BY <1>3, <1>4, <1>5, <1>6, <1>7 DEF Next, PushStep, ConsumerStep

(* The two steps that are not: a store adds the producer's key at Last, ... *)
LEMMA StoreStep ==
  ASSUME Inv, NEW p \in Producers, PushStore(p)
  PROVE  /\ Last = tail_i /\ Last < First + Capacity
         /\ First' = First /\ Last' = Last + 1
         /\ key' = [key EXCEPT ![Slot(Last)] = arg[p]]
<1>1. TypeOK /\ LockInv /\ RingInv
  BY DEF Inv, TypeInv
<1>2. Last = tail_i
  BY <1>1, HolderKnowsLast DEF PushStore, HoldsTail
<1>3. key[Slot(tail_i)] = NoKey
  BY DEF PushStore, Inv, LocalInv
<1>4. Last < First + Capacity
  BY <1>1, <1>2, <1>3, TailSlotTellsFull
<1>5. pc'[p] = "push_advance" /\ UNCHANGED <<head_i, tail_i>>
  BY <1>1, KeyQueueAssumption DEF PushStore, Goto, TypeOK, Threads, head, tail
<1>6. \A c \in Consumers : pc'[c] = "pop_advance" <=> pc[c] = "pop_advance"
  BY <1>1, KeyQueueAssumption DEF PushStore, Goto, TypeOK, Threads
<1>7. First' = First /\ Last' = Last + 1
  BY <1>2, <1>5, <1>6 DEF First, Last
<1>8. QED
  BY <1>2, <1>4, <1>7 DEF PushStore

(* ... and a clear removes the key at First, which the consumer returns.    *)
LEMMA ClearStep ==
  ASSUME Inv, NEW c \in Consumers, PopClear(c)
  PROVE  /\ First = head_i /\ First < Last
         /\ ret[c] = key[Slot(First)]
         /\ First' = First + 1 /\ Last' = Last
         /\ key' = [key EXCEPT ![Slot(First)] = NoKey]
<1>1. TypeOK /\ LockInv /\ RingInv
  BY DEF Inv, TypeInv
<1>2. First = head_i
  BY <1>1, HolderKnowsFirst DEF PopClear, HoldsHead
<1>3. ret[c] # NoKey /\ ret[c] = key[Slot(head_i)]
  BY DEF PopClear, Inv, LocalInv
<1>4. First \in Nat /\ Last \in Nat
  BY <1>1, FirstLastType
<1>5. First < Last
  BY <1>1, <1>2, <1>3, <1>4, HeadSlotTellsEmpty DEF RingInv
<1>6. pc'[c] = "pop_advance" /\ UNCHANGED <<head_i, tail_i>>
  BY <1>1, KeyQueueAssumption DEF PopClear, Goto, TypeOK, Threads, head, tail
<1>7. \A q \in Producers : pc'[q] = "push_advance" <=> pc[q] = "push_advance"
  BY <1>1, KeyQueueAssumption DEF PopClear, Goto, TypeOK, Threads
<1>8. First' = First + 1 /\ Last' = Last
  BY <1>2, <1>6, <1>7 DEF First, Last
<1>9. QED
  BY <1>2, <1>3, <1>5, <1>8 DEF PopClear

LEMMA RingStep == Inv /\ [Next]_vars => RingInv'
<1> SUFFICES ASSUME Inv, [Next]_vars PROVE RingInv'
  OBVIOUS
<1> USE KeyQueueAssumption
<1>1. TypeOK /\ RingInv
  BY DEF Inv, TypeInv
<1>2. First \in Nat /\ Last \in Nat
  BY <1>1, FirstLastType
<1>3. ASSUME NEW p \in Producers, PushStore(p) PROVE RingInv'
  <2>1. /\ Last < First + Capacity
        /\ First' = First /\ Last' = Last + 1
        /\ key' = [key EXCEPT ![Slot(Last)] = arg[p]]
    BY <1>3, StoreStep
  <2>2. arg[p] # NoKey
    BY <1>1 DEF TypeOK
  <2>3. \A i \in Nat : First <= i /\ i < First + Capacity /\ i # Last =>
          key'[Slot(i)] = key[Slot(i)]
    <3> SUFFICES ASSUME NEW i \in Nat, First <= i, i < First + Capacity, i # Last
                 PROVE  key'[Slot(i)] = key[Slot(i)]
      OBVIOUS
    <3>1. Slot(i) # Slot(Last)
      BY <1>1, <1>2, <2>1, SlotFacts DEF RingInv
    <3>2. QED BY <1>1, <1>2, <2>1, <3>1, SlotFacts DEF TypeOK
  <2>4. key'[Slot(Last)] # NoKey
    BY <1>1, <1>2, <2>1, <2>2, SlotFacts DEF TypeOK
  <2>5. \A i \in Nat : First <= i /\ i < Last + 1 => key'[Slot(i)] # NoKey
    BY <1>1, <1>2, <2>1, <2>3, <2>4 DEF RingInv
  <2>6. \A i \in Nat : Last + 1 <= i /\ i < First + Capacity => key'[Slot(i)] = NoKey
    BY <1>1, <1>2, <2>3 DEF RingInv
  <2>7. First <= Last + 1 /\ Last + 1 <= First + Capacity
    BY <1>1, <1>2, <2>1 DEF RingInv
  <2>8. QED
    BY <2>1, <2>5, <2>6, <2>7 DEF RingInv, Slot
<1>4. ASSUME NEW c \in Consumers, PopClear(c) PROVE RingInv'
  <2>1. /\ First < Last
        /\ First' = First + 1 /\ Last' = Last
        /\ key' = [key EXCEPT ![Slot(First)] = NoKey]
    BY <1>4, ClearStep
  <2>2. \A i \in Nat : First < i /\ i < First + Capacity =>
          key'[Slot(i)] = key[Slot(i)]
    <3> SUFFICES ASSUME NEW i \in Nat, First < i, i < First + Capacity
                 PROVE  key'[Slot(i)] = key[Slot(i)]
      OBVIOUS
    <3>1. Slot(i) # Slot(First)
      BY <1>2, SlotFacts
    <3>2. QED BY <1>1, <1>2, <2>1, <3>1, SlotFacts DEF TypeOK
  <2>3. key'[Slot(First + Capacity)] = NoKey
    BY <1>1, <1>2, <2>1, SlotFacts DEF TypeOK
  <2>4. \A i \in Nat : First + 1 <= i /\ i < Last => key'[Slot(i)] # NoKey
    BY <1>1, <1>2, <2>2 DEF RingInv
  <2>5. \A i \in Nat : Last <= i /\ i < First + 1 + Capacity => key'[Slot(i)] = NoKey
    <3> SUFFICES ASSUME NEW i \in Nat, Last <= i, i < First + 1 + Capacity
                 PROVE  key'[Slot(i)] = NoKey
      OBVIOUS
    <3>1. CASE i = First + Capacity
      BY <2>3, <3>1
    <3>2. CASE i < First + Capacity
      BY <1>1, <1>2, <2>1, <2>2, <3>2 DEF RingInv
    <3>3. QED BY <1>2, <3>1, <3>2
  <2>6. First + 1 <= Last /\ Last <= First + 1 + Capacity
    BY <1>1, <1>2, <2>1 DEF RingInv
  <2>7. QED
    BY <2>1, <2>4, <2>5, <2>6 DEF RingInv, Slot
<1>5. CASE /\ \A p \in Producers : ~PushStore(p)
           /\ \A c \in Consumers : ~PopClear(c)
  <2>1. Quiet
    BY <1>5, QuietSteps
  <2>2. QED
    BY <1>1, <2>1 DEF Quiet, RingInv, Slot
<1>6. QED
  BY <1>3, <1>4, <1>5

LEMMA LocalStep == Inv /\ [Next]_vars => LocalInv'
<1> SUFFICES ASSUME Inv, [Next]_vars PROVE LocalInv'
  OBVIOUS
<1> USE KeyQueueAssumption
<1>1. TypeOK /\ LockInv /\ RingInv /\ LocalInv
  BY DEF Inv, TypeInv
<1>2. Slot(head_i) \in SlotIndex /\ Slot(tail_i) \in SlotIndex
  BY <1>1, SlotFacts DEF TypeOK
<1>3. ASSUME NEW p \in Producers, PushCall(p) \/ PushLock(p) \/ PushKey(p) \/ PushFull(p)
      PROVE  LocalInv'
  <2>1. UNCHANGED <<key, head_i, tail_i, ret>>
    BY <1>3 DEF PushCall, PushLock, PushKey, PushFull, head, tail, locals
  <2>2. \A c \in Consumers : pc'[c] = pc[c]
    BY <1>1, <1>3 DEF PushCall, PushLock, PushKey, PushFull, Goto, TypeOK, Threads
  <2>3. ASSUME NEW q \in Producers, pc'[q] = "push_store"
        PROVE  key[Slot(tail_i)] = NoKey
    <3>1. CASE pc[q] = "push_store"
      BY <1>1, <3>1 DEF LocalInv
    <3>2. CASE pc[q] # "push_store"
      BY <1>1, <1>3, <2>3, <3>2
      DEF PushCall, PushLock, PushKey, PushFull, Goto, TypeOK, Threads
    <3>3. QED BY <3>1, <3>2
  <2>4. QED BY <1>1, <2>1, <2>2, <2>3 DEF LocalInv, Slot
<1>4. ASSUME NEW p \in Producers, PushStore(p) PROVE LocalInv'
  <2>1. /\ key' = [key EXCEPT ![Slot(tail_i)] = arg[p]]
        /\ pc' = [pc EXCEPT ![p] = "push_advance"]
        /\ UNCHANGED <<head_i, tail_i, ret>>
        /\ key[Slot(tail_i)] = NoKey
    BY <1>1, <1>4 DEF PushStore, Goto, LocalInv, head, tail, locals
  <2>2. \A q \in Producers : pc'[q] # "push_store"
    BY <1>1, <1>4, <2>1 DEF PushStore, LockInv, TypeOK, Threads, HoldsTail
  <2>3. ASSUME NEW c \in Consumers, pc'[c] = "pop_clear"
        PROVE  ret'[c] # NoKey /\ ret'[c] = key'[Slot(head_i)]
    <3>1. ret[c] # NoKey /\ ret[c] = key[Slot(head_i)]
      BY <1>1, <2>1, <2>3 DEF LocalInv, TypeOK, Threads
    <3>2. QED BY <1>1, <1>2, <2>1, <3>1 DEF TypeOK
  <2>4. QED BY <2>1, <2>2, <2>3 DEF LocalInv, Slot
<1>5. ASSUME NEW p \in Producers, PushAdvance(p) PROVE LocalInv'
  BY <1>1, <1>5 DEF PushAdvance, LocalInv, LockInv, TypeOK, Goto, Threads, HoldsTail,
                    Slot, head, locals
<1>6. ASSUME NEW c \in Consumers, Call(c) \/ HeadLock(c) \/ HeadReturn(c)
      PROVE  LocalInv'
  BY <1>1, <1>6 DEF Call, HeadLock, HeadReturn, LocalInv, TypeOK, Goto, Threads, Slot,
                    head, tail, locals
<1>7. ASSUME NEW c \in Consumers, PopKey(c) \/ EmptyKey(c) PROVE LocalInv'
  BY <1>1, <1>7 DEF PopKey, EmptyKey, LocalInv, TypeOK, Goto, Threads, Slot, head, tail
<1>8. ASSUME NEW c \in Consumers, PopClear(c) PROVE LocalInv'
  <2>1. /\ key' = [key EXCEPT ![Slot(head_i)] = NoKey]
        /\ pc' = [pc EXCEPT ![c] = "pop_advance"]
        /\ UNCHANGED <<head_i, tail_i, ret>>
    BY <1>1, <1>8 DEF PopClear, Goto, head, tail, locals
  <2>2. \A d \in Consumers : pc'[d] # "pop_clear"
    BY <1>1, <1>8, <2>1 DEF PopClear, LockInv, TypeOK, Threads, HoldsHead
  <2>3. \A p \in Producers : pc'[p] = "push_store" => key'[Slot(tail_i)] = NoKey
    BY <1>1, <1>2, <2>1 DEF LocalInv, TypeOK, Threads
  <2>4. QED BY <2>1, <2>2, <2>3 DEF LocalInv, Slot
<1>9. ASSUME NEW c \in Consumers, PopAdvance(c) PROVE LocalInv'
  BY <1>1, <1>9 DEF PopAdvance, LocalInv, LockInv, TypeOK, Goto, Threads, HoldsHead,
                    Slot, tail, locals
<1>10. CASE UNCHANGED vars
  BY <1>1, <1>10 DEF vars, head, tail, locals, LocalInv, Slot
<1>11. QED
  BY <1>3, <1>4, <1>5, <1>6, <1>7, <1>8, <1>9, <1>10 DEF Next, PushStep, ConsumerStep

LEMMA NextInv == Inv /\ [Next]_vars => Inv'
  BY TypeStep, LockStep, RingStep, LocalStep DEF Inv

(* The types hold, whatever the threads, keys and capacity.                 *)
THEOREM KeyQueueTypeOK == Spec => []TypeOK
<1>1. Inv => TypeOK
  BY DEF Inv, TypeInv
<1>2. QED
  BY <1>1, InitInv, NextInv, PTL DEF Spec

-----------------------------------------------------------------------------
(* Refinement: the effect of each step on the contents of the queue and on  *)
(* the answers.                                                             *)
LEMMA ItemsFacts ==
  ASSUME TypeOK, RingInv
  PROVE  /\ Items \in Seq(Keys)
         /\ Len(Items) = Last - First
         /\ First = Last <=> Items = <<>>
         /\ \A n \in 1 .. Last - First : Items[n] = key[Slot(First + n - 1)]
<1> USE KeyQueueAssumption
<1>1. First \in Nat /\ Last \in Nat /\ Last - First \in Nat
  BY FirstLastType DEF RingInv
<1>2. \A n \in 1 .. Last - First : key[Slot(First + n - 1)] \in Keys
  <2> SUFFICES ASSUME NEW n \in 1 .. Last - First
               PROVE  key[Slot(First + n - 1)] \in Keys
    OBVIOUS
  <2>1. First + n - 1 \in Nat /\ First <= First + n - 1 /\ First + n - 1 < Last
    BY <1>1
  <2>2. QED BY <2>1, SlotFacts DEF RingInv, TypeOK
<1>3. Items \in Seq(Keys) /\ Len(Items) = Last - First
  BY <1>1, <1>2 DEF Items
<1>4. QED
  BY <1>1, <1>3 DEF Items

LEMMA QuietItems == Quiet => Items' = Items
  BY DEF Quiet, Items, Slot

(* A step of a thread t changes the answer of t only.                       *)
Alone(t) ==
  /\ \A u \in Threads : u # t => pc'[u] = pc[u]
  /\ \A c \in Consumers : c # t => ret'[c] = ret[c]

LEMMA AnswerAlone ==
  ASSUME TypeOK, NEW t \in Threads, Alone(t)
  PROVE  Answer' = [Answer EXCEPT ![t] = AnswerOf(t)']
<1> USE KeyQueueAssumption
<1>1. ASSUME NEW u \in Threads, u # t PROVE AnswerOf(u)' = AnswerOf(u)
  <2>1. pc'[u] = pc[u]
    BY <1>1 DEF Alone
  <2>2. CASE u \in Consumers
    BY <1>1, <2>1, <2>2 DEF Alone, AnswerOf
  <2>3. CASE u \in Producers
    <3>1. pc[u] \in ProducerPCs
      BY <2>3 DEF TypeOK
    <3>2. pc[u] \notin {"pop_advance", "empty_return"}
      BY <3>1 DEF ProducerPCs, HoldsTail
    <3>3. QED BY <2>1, <3>2 DEF AnswerOf
  <2>4. QED BY <2>2, <2>3 DEF Threads
<1>2. QED
  BY <1>1 DEF Answer

(* The store appends the key, and the clear removes the first.              *)
LEMMA StoreAppends ==
  ASSUME Inv, NEW p \in Producers, PushStore(p), RingInv'
  PROVE  Len(Items) < Capacity /\ Items' = Append(Items, arg[p])
<1> USE KeyQueueAssumption
<1>1. TypeOK /\ RingInv
  BY DEF Inv, TypeInv
<1>2. First \in Nat /\ Last \in Nat /\ First <= Last
  BY <1>1, FirstLastType DEF RingInv
<1>3. /\ Last < First + Capacity
      /\ First' = First /\ Last' = Last + 1
      /\ key' = [key EXCEPT ![Slot(Last)] = arg[p]]
  BY StoreStep
<1>4. Items \in Seq(Keys) /\ Len(Items) = Last - First
  BY <1>1, ItemsFacts
<1>5. Items' = [n \in 1 .. Last + 1 - First |-> key'[Slot(First + n - 1)]]
  <2>1. Items' = [n \in 1 .. Last' - First' |-> key'[Slot(First' + n - 1)]]
    BY DEF Items, Slot
  <2>2. First' = First /\ Last' = Last + 1
    BY <1>3
  <2>3. \A n \in 1 .. Last + 1 - First : key'[Slot(First' + n - 1)] = key'[Slot(First + n - 1)]
    BY <2>2
  <2>4. 1 .. Last' - First' = 1 .. Last + 1 - First
    BY <1>2, <2>2
  <2>5. QED BY ONLY <2>1, <2>3, <2>4
<1>6. Append(Items, arg[p])
        = [n \in 1 .. Last + 1 - First |->
             IF n = Last + 1 - First THEN arg[p] ELSE Items[n]]
  BY <1>2, <1>4
<1>7. ASSUME NEW n \in 1 .. Last + 1 - First
      PROVE  key'[Slot(First + n - 1)]
               = IF n = Last + 1 - First THEN arg[p] ELSE Items[n]
  <2>1. CASE n = Last + 1 - First
    BY <1>1, <1>2, <1>3, <2>1, SlotFacts DEF TypeOK
  <2>2. CASE n # Last + 1 - First
    <3>1. n \in 1 .. Last - First /\ First + n - 1 \in Nat /\ First + n - 1 < Last
      BY <1>2, <2>2
    <3>2. Slot(First + n - 1) # Slot(Last)
      BY <1>1, <1>2, <1>3, <3>1, SlotFacts
    <3>3. key'[Slot(First + n - 1)] = key[Slot(First + n - 1)]
      BY <1>1, <1>2, <1>3, <3>1, <3>2, SlotFacts DEF TypeOK
    <3>4. QED BY <1>1, <2>2, <3>1, <3>3, ItemsFacts
  <2>3. QED BY <2>1, <2>2
<1>8. QED
  BY <1>2, <1>3, <1>4, <1>5, <1>6, <1>7

LEMMA ClearRemoves ==
  ASSUME Inv, NEW c \in Consumers, PopClear(c)
  PROVE  Items # <<>> /\ Items' = Tail(Items) /\ ret[c] = Head(Items)
<1> USE KeyQueueAssumption
<1>1. TypeOK /\ RingInv
  BY DEF Inv, TypeInv
<1>2. First \in Nat /\ Last \in Nat /\ Last <= First + Capacity
  BY <1>1, FirstLastType DEF RingInv
<1>3. /\ First < Last /\ ret[c] = key[Slot(First)]
      /\ First' = First + 1 /\ Last' = Last
      /\ key' = [key EXCEPT ![Slot(First)] = NoKey]
  BY ClearStep
<1>4. /\ Items \in Seq(Keys) /\ Len(Items) = Last - First
      /\ \A n \in 1 .. Last - First : Items[n] = key[Slot(First + n - 1)]
  BY <1>1, ItemsFacts
<1>5. Items' = [n \in 1 .. Last - (First + 1) |-> key'[Slot((First + 1) + n - 1)]]
  <2>1. Items' = [n \in 1 .. Last' - First' |-> key'[Slot(First' + n - 1)]]
    BY DEF Items, Slot
  <2>2. First' = First + 1 /\ Last' = Last
    BY <1>3
  <2>3. QED BY ONLY <2>1, <2>2, Zenon
<1>6. Items # <<>> /\ Tail(Items) = [n \in 1 .. Last - (First + 1) |-> Items[n + 1]]
  <2>1. Len(Items) - 1 = Last - (First + 1) /\ Items # <<>>
    BY <1>2, <1>3, <1>4
  <2>2. Tail(Items) = [n \in 1 .. Len(Items) - 1 |-> Items[n + 1]]
    <3>1. /\ Tail(Items) \in Seq(Keys)
          /\ Len(Tail(Items)) = Len(Items) - 1
          /\ \A n \in 1 .. Len(Items) - 1 : Tail(Items)[n] = Items[n + 1]
      BY <1>4, <2>1, HeadTailProperties
    <3> DEFINE T == [n \in 1 .. Len(Items) - 1 |-> Items[n + 1]]
    <3>2. T \in Seq(Keys) /\ Len(T) = Len(Items) - 1
      <4>1. Len(Items) - 1 \in Nat
        BY <1>2, <1>3, <1>4
      <4>2. \A n \in 1 .. Len(Items) - 1 : Items[n + 1] \in Keys
        BY <1>4, <4>1
      <4>3. QED BY <4>1, <4>2
    <3>3. \A n \in 1 .. Len(T) : Tail(Items)[n] = T[n]
      BY <3>1, <3>2
    <3> HIDE DEF T
    <3>4. Tail(Items) = T
      BY <3>1, <3>2, <3>3, SeqEqual
    <3>5. QED BY <3>4 DEF T
  <2>3. QED BY <2>1, <2>2
<1>7. ASSUME NEW n \in 1 .. Last - (First + 1)
      PROVE  key'[Slot((First + 1) + n - 1)] = Items[n + 1]
  <2>1. /\ n + 1 \in 1 .. Last - First
        /\ (First + 1) + n - 1 = First + (n + 1) - 1
        /\ (First + 1) + n - 1 \in Nat
        /\ First < (First + 1) + n - 1 /\ (First + 1) + n - 1 < First + Capacity
    BY <1>2, <1>3
  <2>2. Slot((First + 1) + n - 1) # Slot(First)
    BY <1>2, <2>1, SlotFacts
  <2>3. key'[Slot((First + 1) + n - 1)] = key[Slot((First + 1) + n - 1)]
    BY <1>1, <1>2, <1>3, <2>1, <2>2, SlotFacts DEF TypeOK
  <2>4. QED BY <1>4, <2>1, <2>3
<1>8. Items[1] = key[Slot(First)]
  <2>1. 1 \in 1 .. Last - First /\ First + 1 - 1 = First
    BY <1>2, <1>3
  <2>2. QED BY <1>4, <2>1
<1>9. QED
  BY <1>3, <1>4, <1>5, <1>6, <1>7, <1>8

LEMMA InitRefines == Init => Q!Init
<1> SUFFICES ASSUME Init PROVE Q!Init
  OBVIOUS
<1> USE KeyQueueAssumption
<1>1. First = 0 /\ Last = 0
  BY DEF Init, First, Last, Threads
<1>2. Items = <<>>
  BY <1>1 DEF Items
<1>3. Answer = [t \in Producers \cup Consumers |-> Q!NoAnswer]
  BY DEF Init, Answer, AnswerOf, Threads, Q!NoAnswer
<1>4. QED
  BY <1>2, <1>3 DEF Init, Q!Init

(* Every step of the code is a step of the abstract queue or stutters.      *)
LEMMA PushRefines ==
  ASSUME Inv, [Next]_vars, NEW p \in Producers, PushCall(p) \/ PushStep(p)
  PROVE  [Q!Next]_Q!vars
<1> USE KeyQueueAssumption
<1>1. TypeOK /\ LockInv /\ RingInv /\ RingInv'
  BY RingStep DEF Inv, TypeInv
<1>2. p \in Threads /\ p \notin Consumers
  BY DEF Threads
<1>3. Alone(p) /\ ret' = ret
  BY <1>1, <1>2 DEF PushCall, PushStep, PushLock, PushKey, PushStore, PushAdvance, PushFull,
                    Alone, Goto, TypeOK, Threads, locals
<1>4. Answer' = [Answer EXCEPT ![p] = AnswerOf(p)'] /\ Answer[p] = AnswerOf(p)
  BY <1>1, <1>2, <1>3, AnswerAlone DEF Answer
<1>5. AnswerOf(p)' = AnswerOf(p) => Answer' = Answer
  BY <1>4 DEF Answer
<1>6. ~PushStore(p) => Items' = Items
  <2> SUFFICES ASSUME ~PushStore(p) PROVE Items' = Items
    OBVIOUS
  <2>1. pc[p] # "push_store" /\ pc[p] \in ProducerPCs
    BY <1>1 DEF PushCall, PushStep, PushLock, PushKey, PushStore, PushAdvance, PushFull, TypeOK
  <2>2. pc'[p] # pc[p] \/ pc[p] = "push_key"
    BY <1>1, <1>2 DEF PushCall, PushStep, PushLock, PushKey, PushStore, PushAdvance, PushFull,
                      Goto, TypeOK
  <2>3. \A q \in Producers : ~PushStore(q)
    <3> SUFFICES ASSUME NEW q \in Producers, PushStore(q) PROVE FALSE
      OBVIOUS
    <3>1. q # p /\ q \in Threads
      BY DEF Threads
    <3>2. pc[q] = "push_store" /\ pc'[q] = "push_advance"
      BY <1>1, <3>1 DEF PushStore, Goto, TypeOK
    <3>3. QED BY <1>3, <3>1, <3>2 DEF Alone
  <2>4. \A c \in Consumers : ~PopClear(c)
    <3> SUFFICES ASSUME NEW c \in Consumers, PopClear(c) PROVE FALSE
      OBVIOUS
    <3>1. c # p /\ c \in Threads
      BY DEF Threads
    <3>2. pc[c] = "pop_clear" /\ pc'[c] = "pop_advance"
      BY <1>1, <3>1 DEF PopClear, Goto, TypeOK
    <3>3. QED BY <1>3, <3>1, <3>2 DEF Alone
  <2>5. QED BY <2>3, <2>4, QuietSteps, QuietItems
<1>7. CASE PushCall(p)
  <2>1. pc[p] = "idle" /\ pc'[p] = "push_lock"
    BY <1>1, <1>2, <1>7 DEF PushCall, Goto, TypeOK
  <2>2. AnswerOf(p) = Q!NoAnswer /\ AnswerOf(p)' = Q!NoAnswer
    BY <2>1 DEF AnswerOf, Q!NoAnswer
  <2>3. Items' = Items
    BY <1>6, <1>7 DEF PushCall, PushStore
  <2>4. Q!CallPush(p)
    BY <1>4, <1>5, <1>7, <2>2, <2>3 DEF PushCall, Q!CallPush
  <2>5. QED BY <2>4 DEF Q!Next
<1>8. CASE PushLock(p)
  <2>1. pc[p] = "push_lock" /\ pc'[p] = "push_key" /\ arg' = arg
    BY <1>1, <1>2, <1>8 DEF PushLock, Goto, TypeOK, locals
  <2>2. AnswerOf(p)' = AnswerOf(p)
    BY <2>1 DEF AnswerOf
  <2>3. Items' = Items
    BY <1>6, <2>1 DEF PushStore
  <2>4. QED BY <1>5, <2>1, <2>2, <2>3 DEF Q!vars
<1>9. CASE PushKey(p)
  <2>1. pc[p] = "push_key" /\ arg' = arg
    BY <1>9 DEF PushKey
  <2>2. Items' = Items
    BY <1>6, <2>1 DEF PushStore
  <2>3. AnswerOf(p) = Q!NoAnswer
    BY <2>1 DEF AnswerOf, Q!NoAnswer
  <2>4. CASE pc'[p] = "push_full"
    <3>1. key[Slot(tail_i)] # NoKey
      BY <1>1, <1>2, <1>9, <2>4 DEF PushKey, Goto, TypeOK
    <3>2. Last = tail_i
      BY <1>1, <2>1, HolderKnowsLast DEF HoldsTail
    <3>3. Last = First + Capacity
      BY <1>1, <3>1, <3>2, TailSlotTellsFull, FirstLastType DEF RingInv
    <3>4. Len(Items) = Capacity
      BY <1>1, <3>3, ItemsFacts, FirstLastType
    <3>5. AnswerOf(p)' = Q!Refused
      BY <2>4 DEF AnswerOf, Q!Refused
    <3>6. Q!Push(p)
      BY <1>4, <2>1, <2>2, <2>3, <3>4, <3>5 DEF Q!Push, Q!Answer
    <3>7. QED BY <3>6 DEF Q!Next
  <2>5. CASE pc'[p] # "push_full"
    <3>1. pc'[p] \in {"push_store", "push_key"}
      BY <1>1, <1>2, <1>9, <2>5 DEF PushKey, Goto, TypeOK
    <3>2. AnswerOf(p)' = AnswerOf(p)
      BY <2>1, <3>1 DEF AnswerOf
    <3>3. QED BY <1>5, <2>1, <2>2, <3>2 DEF Q!vars
  <2>6. QED BY <2>4, <2>5
<1>10. CASE PushStore(p)
  <2>1. pc[p] = "push_store" /\ pc'[p] = "push_advance" /\ arg' = arg
    BY <1>1, <1>2, <1>10 DEF PushStore, Goto, TypeOK, locals
  <2>2. AnswerOf(p) = Q!NoAnswer /\ AnswerOf(p)' = Q!Pushed
    BY <2>1 DEF AnswerOf, Q!NoAnswer, Q!Pushed
  <2>3. Len(Items) < Capacity /\ Items' = Append(Items, arg[p])
    BY <1>1, <1>10, StoreAppends
  <2>4. Q!Push(p)
    BY <1>4, <2>1, <2>2, <2>3 DEF Q!Push, Q!Answer
  <2>5. QED BY <2>4 DEF Q!Next
<1>11. CASE PushAdvance(p) \/ PushFull(p)
  <2>1. /\ pc[p] \in {"push_advance", "push_full"} /\ pc'[p] = "idle"
        /\ arg' = arg
    BY <1>1, <1>2, <1>11 DEF PushAdvance, PushFull, Goto, TypeOK, locals
  <2>2. AnswerOf(p)' = Q!NoAnswer
    BY <2>1 DEF AnswerOf, Q!NoAnswer
  <2>3. Items' = Items
    BY <1>6, <2>1 DEF PushStore
  <2>4. Q!Return(p)
    BY <1>4, <2>1, <2>2, <2>3 DEF Q!Return
  <2>5. QED BY <1>2, <2>4 DEF Q!Next, Threads
<1>12. QED
  BY <1>7, <1>8, <1>9, <1>10, <1>11 DEF PushStep

LEMMA PopRefines ==
  ASSUME Inv, [Next]_vars, NEW c \in Consumers, Call(c) \/ ConsumerStep(c)
  PROVE  [Q!Next]_Q!vars
<1> USE KeyQueueAssumption
<1>1. TypeOK /\ LockInv /\ RingInv
  BY DEF Inv, TypeInv
<1>2. c \in Threads /\ c \notin Producers
  BY DEF Threads
<1>3. Alone(c) /\ arg' = arg
  BY <1>1, <1>2 DEF Call, ConsumerStep, HeadLock, PopKey, PopClear, PopAdvance, EmptyKey,
                    HeadReturn, Alone, Goto, TypeOK, Threads, locals
<1>4. Answer' = [Answer EXCEPT ![c] = AnswerOf(c)'] /\ Answer[c] = AnswerOf(c)
  BY <1>1, <1>2, <1>3, AnswerAlone DEF Answer
<1>5. AnswerOf(c)' = AnswerOf(c) => Answer' = Answer
  BY <1>4 DEF Answer
<1>6. ~PopClear(c) => Items' = Items
  <2> SUFFICES ASSUME ~PopClear(c) PROVE Items' = Items
    OBVIOUS
  <2>1. \A d \in Consumers : ~PopClear(d)
    <3> SUFFICES ASSUME NEW d \in Consumers, d # c, PopClear(d) PROVE FALSE
      OBVIOUS
    <3>1. d \in Threads
      BY DEF Threads
    <3>2. pc[d] = "pop_clear" /\ pc'[d] = "pop_advance"
      BY <1>1, <3>1 DEF PopClear, Goto, TypeOK
    <3>3. QED BY <1>3, <3>1, <3>2 DEF Alone
  <2>2. \A q \in Producers : ~PushStore(q)
    <3> SUFFICES ASSUME NEW q \in Producers, PushStore(q) PROVE FALSE
      OBVIOUS
    <3>1. q # c /\ q \in Threads
      BY DEF Threads
    <3>2. pc[q] = "push_store" /\ pc'[q] = "push_advance"
      BY <1>1, <3>1 DEF PushStore, Goto, TypeOK
    <3>3. QED BY <1>3, <3>1, <3>2 DEF Alone
  <2>3. QED BY <2>1, <2>2, QuietSteps, QuietItems
<1>7. CASE Call(c) \/ HeadLock(c)
  <2>1. /\ pc[c] \in {"idle", "pop_lock", "empty_lock"}
        /\ pc'[c] \in {"pop_lock", "empty_lock", "pop_key", "empty_key"}
    BY <1>1, <1>2, <1>7 DEF Call, HeadLock, Goto, TypeOK
  <2>2. AnswerOf(c)' = AnswerOf(c)
    BY <2>1 DEF AnswerOf
  <2>3. Items' = Items
    BY <1>6, <2>1 DEF PopClear
  <2>4. QED BY <1>3, <1>5, <2>2, <2>3 DEF Q!vars
<1>8. CASE PopKey(c)
  <2>1. /\ pc[c] = "pop_key"
        /\ pc'[c] = IF key[Slot(head_i)] = NoKey THEN "pop_none" ELSE "pop_clear"
    BY <1>1, <1>2, <1>8 DEF PopKey, Goto, TypeOK
  <2>2. AnswerOf(c) = Q!NoAnswer
    BY <2>1 DEF AnswerOf, Q!NoAnswer
  <2>3. Items' = Items
    BY <1>6, <2>1 DEF PopClear
  <2>4. CASE key[Slot(head_i)] = NoKey
    <3>1. First = head_i
      BY <1>1, <2>1, HolderKnowsFirst DEF HoldsHead
    <3>2. Items = <<>>
      BY <1>1, <2>4, <3>1, HeadSlotTellsEmpty, ItemsFacts
    <3>3. AnswerOf(c)' = Q!PoppedNothing
      BY <2>1, <2>4 DEF AnswerOf, Q!PoppedNothing
    <3>4. Q!Pop(c)
      BY <1>3, <1>4, <2>2, <2>3, <3>2, <3>3 DEF Q!Pop, Q!Answer
    <3>5. QED BY <3>4 DEF Q!Next
  <2>5. CASE key[Slot(head_i)] # NoKey
    <3>1. AnswerOf(c)' = AnswerOf(c)
      BY <2>1, <2>5 DEF AnswerOf
    <3>2. QED BY <1>3, <1>5, <2>3, <3>1 DEF Q!vars
  <2>6. QED BY <2>4, <2>5
<1>9. CASE PopClear(c)
  <2>1. pc[c] = "pop_clear" /\ pc'[c] = "pop_advance" /\ ret' = ret
    BY <1>1, <1>2, <1>9 DEF PopClear, Goto, TypeOK, locals
  <2>2. Items # <<>> /\ Items' = Tail(Items) /\ ret[c] = Head(Items)
    BY <1>9, ClearRemoves
  <2>3. AnswerOf(c) = Q!NoAnswer /\ AnswerOf(c)' = Q!Popped(Head(Items))
    BY <2>1, <2>2 DEF AnswerOf, Q!NoAnswer, Q!Popped
  <2>4. Q!Pop(c)
    BY <1>3, <1>4, <2>2, <2>3 DEF Q!Pop, Q!Answer
  <2>5. QED BY <2>4 DEF Q!Next
<1>10. CASE EmptyKey(c)
  <2>1. /\ pc[c] = "empty_key" /\ pc'[c] = "empty_return"
        /\ ret'[c] = key[Slot(head_i)]
    BY <1>1, <1>2, <1>10 DEF EmptyKey, Goto, TypeOK
  <2>2. Items' = Items
    BY <1>6, <2>1 DEF PopClear
  <2>3. First = head_i
    BY <1>1, <2>1, HolderKnowsFirst DEF HoldsHead
  <2>4. key[Slot(head_i)] = NoKey <=> Items = <<>>
    BY <1>1, <2>3, HeadSlotTellsEmpty, ItemsFacts
  <2>5. AnswerOf(c) = Q!NoAnswer /\ AnswerOf(c)' = Q!IsEmptyAnswer(Items = <<>>)
    BY <2>1, <2>4 DEF AnswerOf, Q!NoAnswer, Q!IsEmptyAnswer
  <2>6. Q!IsEmpty(c)
    BY <1>3, <1>4, <2>2, <2>5 DEF Q!IsEmpty, Q!Answer
  <2>7. QED BY <2>6 DEF Q!Next
<1>11. CASE PopAdvance(c) \/ HeadReturn(c)
  <2>1. pc[c] \in {"pop_advance", "pop_none", "empty_return"} /\ pc'[c] = "idle"
    BY <1>1, <1>2, <1>11 DEF PopAdvance, HeadReturn, Goto, TypeOK
  <2>2. AnswerOf(c)' = Q!NoAnswer
    BY <2>1 DEF AnswerOf, Q!NoAnswer
  <2>3. Items' = Items
    BY <1>6, <2>1 DEF PopClear
  <2>4. Q!Return(c)
    BY <1>3, <1>4, <2>2, <2>3 DEF Q!Return
  <2>5. QED BY <1>2, <2>4 DEF Q!Next, Threads
<1>12. QED
  BY <1>7, <1>8, <1>9, <1>10, <1>11 DEF ConsumerStep

LEMMA StutterRefines == UNCHANGED vars => UNCHANGED Q!vars
<1> SUFFICES ASSUME UNCHANGED vars PROVE UNCHANGED Q!vars
  OBVIOUS
<1>1. UNCHANGED <<key, head_i, tail_i, pc, arg, ret>>
  BY DEF vars, head, tail, locals
<1>2. First' = First /\ Last' = Last
  BY <1>1 DEF First, Last
<1>3. Items' = Items
  BY <1>1, <1>2, QuietItems DEF Quiet
<1>4. \A t \in Threads : AnswerOf(t)' = AnswerOf(t)
  BY <1>1 DEF AnswerOf
<1>5. Answer' = Answer
  BY <1>4 DEF Answer
<1>6. QED
  BY <1>1, <1>3, <1>5 DEF Q!vars

(* The key-only queue is a linearizable bounded FIFO queue: every push, pop *)
(* and empty takes effect at one moment of its call, whatever the number of *)
(* threads, the keys, the capacity and NTRY.  In particular a push that     *)
(* returns false did find the queue full, and a pop that returns Key{} did  *)
(* find it empty.                                                           *)
THEOREM KeyQueueLinearizable == Spec => Linearizable
<1>1. Init => Inv /\ Q!Init
  BY InitInv, InitRefines
<1>2. Inv /\ [Next]_vars => Inv' /\ [Q!Next]_Q!vars
  <2> SUFFICES ASSUME Inv, [Next]_vars PROVE [Q!Next]_Q!vars
    BY NextInv
  <2>1. CASE UNCHANGED vars
    BY <2>1, StutterRefines
  <2>2. CASE \E p \in Producers : PushCall(p) \/ PushStep(p)
    BY <2>2, PushRefines
  <2>3. CASE \E c \in Consumers : Call(c) \/ ConsumerStep(c)
    BY <2>3, PopRefines
  <2>4. QED BY <2>1, <2>2, <2>3 DEF Next
<1>3. QED
  BY <1>1, <1>2, PTL DEF Spec, Linearizable, Q!Spec
=============================================================================
