--------------------------- MODULE RingQueueProofs ---------------------------
(***************************************************************************)
(* The key-value queue is correct in the environments its callers can      *)
(* guarantee: the keys of the elements are different, and either there is  *)
(* one producer or at most Capacity elements are in flight.  For any       *)
(* threads, capacity and number of probes.                                 *)
(*                                                                         *)
(* A ticket is a value of head_.i or tail_.i: the push with ticket i and   *)
(* the pop with ticket i use the slot i % Capacity.  The invariant says    *)
(* what every slot holds in terms of the tickets from head_.i to tail_.i   *)
(* (occupied, or claimed by a push) and of those from tail_.i to           *)
(* head_.i + Capacity (empty, or being drained by a pop of the last lap).  *)
(***************************************************************************)
EXTENDS RingQueue, RingLemmas, FiniteSetTheorems

(* Environments: what the callers do.                                       *)
DistinctKeys == \A m, n \in Elements : KeyOf(m) = KeyOf(n) => m = n
SingleProducer == \A p, q \in Producers : p = q
RoomForAll ==
  /\ Preloaded <= Credits /\ Credits <= Capacity
  /\ IsFiniteSet(Producers) /\ IsFiniteSet(Consumers)

Commits(p) == pc[p] \in {"push_construct", "push_publish", "push_done"}
Drains(c)  == pc[c] \in {"pop_take", "pop_clear", "pop_done"}

(* A push that is going to probe the slot has a probe left.                 *)
TypeInv ==
  /\ TypeOK
  /\ \A p \in Producers : pc[p] \in Probing \cup {"push_lock"} => tries[p] < NTRY
  /\ \A p \in Producers : pc[p] # "idle" => elem[p] \in 1 .. calls

(* A thread is in a critical section exactly if it holds the lock, and      *)
(* works on the slot of the lock's index.                                   *)
LockInv ==
  /\ \A p \in Producers : tail_l = p <=> pc[p] \in HoldsTail
  /\ \A c \in Consumers : head_l = c <=> pc[c] \in HoldsHead
  /\ \A p \in Producers : pc[p] \in HoldsTail => at[p] = tail_i
  /\ \A c \in Consumers : pc[c] \in HoldsHead => at[c] = head_i

(* The key of an element that is not published yet is nowhere to be read.   *)
Unpublished(p) ==
  pc[p] \in Probing \cup {"push_lock", "push_claim", "push_advance",
                          "push_construct", "push_publish"}
Unread(n) ==
  /\ \A s \in SlotIndex : key[s] # KeyOf(n)
  /\ \A c \in Consumers : ret[c] # KeyOf(n)
FreshInv ==
  /\ \A n \in calls + 1 .. MaxPush : Unread(n)
  /\ \A p \in Producers : Unpublished(p) => Unread(elem[p])
  /\ \A p, q \in Producers :
       Unpublished(p) /\ Unpublished(q) /\ elem[p] = elem[q] => p = q

(* Tickets                                                                  *)
CommitInv ==
  /\ \A p \in Producers : Commits(p) => head_i <= at[p] /\ at[p] < tail_i
  /\ \A p, q \in Producers : Commits(p) /\ Commits(q) /\ at[p] = at[q] => p = q
DrainInv ==
  /\ \A c \in Consumers : Drains(c) => at[c] < head_i /\ tail_i <= at[c] + Capacity
  /\ \A c, d \in Consumers : Drains(c) /\ Drains(d) /\ at[c] = at[d] => c = d
TicketInv ==
  /\ head_i <= tail_i /\ tail_i <= head_i + Capacity
  /\ CommitInv
  /\ DrainInv

Committed(i) == \A p \in Producers : Commits(p) => at[p] # i
Drained(i)   == \A c \in Consumers : Drains(c) => at[c] + Capacity # i

(* What a thread that checks or has checked a slot knows of it.             *)
PushCheck(p) ==
  /\ pc[p] \in {"push_busy", "push_recheck", "push_claim", "push_advance"} =>
       tail_i < head_i + Capacity
  /\ pc[p] \in {"push_recheck", "push_claim", "push_advance"} => Drained(tail_i)
  /\ pc[p] = "push_advance" => busy[Slot(tail_i)] = 1
PopCheck(c) ==
  /\ pc[c] \in {"pop_busy", "pop_recheck", "pop_claim", "pop_advance"} => ret[c] # NoKey
  /\ pc[c] = "pop_recheck" /\ key[Slot(head_i)] = ret[c] =>
       head_i < tail_i /\ Committed(head_i)
  /\ pc[c] \in {"pop_claim", "pop_advance"} =>
       head_i < tail_i /\ Committed(head_i) /\ key[Slot(head_i)] = ret[c]
  /\ pc[c] = "pop_advance" => busy[Slot(head_i)] = 1
CheckInv ==
  /\ \A p \in Producers : PushCheck(p)
  /\ \A c \in Consumers : PopCheck(c)

(* Slots                                                                    *)
FullSlots ==
  \A i \in head_i .. tail_i - 1 :
    Committed(i) =>
      /\ val[Slot(i)] \in Elements
      /\ key[Slot(i)] = KeyOf(val[Slot(i)])
      /\ busy[Slot(i)] = 0 \/ (i = head_i /\ \E c \in Consumers : pc[c] = "pop_advance")
EmptySlots ==
  \A i \in tail_i .. head_i + Capacity - 1 :
    Drained(i) =>
      /\ val[Slot(i)] = NoValue
      /\ key[Slot(i)] = NoKey
      /\ busy[Slot(i)] = 0 \/ (i = tail_i /\ \E p \in Producers : pc[p] = "push_advance")
CommitSlots ==
  \A p \in Producers : Commits(p) =>
    /\ busy[Slot(at[p])] = 1
    /\ val[Slot(at[p])] = IF pc[p] = "push_construct" THEN NoValue ELSE elem[p]
    /\ key[Slot(at[p])] = IF pc[p] = "push_done" THEN KeyOf(elem[p]) ELSE NoKey
DrainSlots ==
  \A c \in Consumers : Drains(c) =>
    /\ busy[Slot(at[c])] = 1
    /\ ret[c] # NoKey
    /\ pc[c] = "pop_take" =>
         val[Slot(at[c])] \in Elements /\ ret[c] = KeyOf(val[Slot(at[c])])
    /\ pc[c] # "pop_take" =>
         val[Slot(at[c])] = NoValue /\ got[c] \in Elements /\ ret[c] = KeyOf(got[c])
    /\ key[Slot(at[c])] = IF pc[c] = "pop_done" THEN NoKey ELSE ret[c]

SlotsInv == FullSlots /\ EmptySlots /\ CommitSlots /\ DrainSlots

RingInv == TicketInv /\ SlotsInv /\ CheckInv

(* What the environment is for: while a push probes the slot at the tail,   *)
(* no push of the lap before is still committing to it.                     *)
NoLapping ==
  \A p, q \in Producers : pc[p] \in Probing /\ Commits(q) => at[q] + Capacity # tail_i

Inv == TypeInv /\ LockInv /\ FreshInv /\ RingInv
-----------------------------------------------------------------------------
LEMMA SlotFacts ==
  /\ \A i \in Nat : Slot(i) \in SlotIndex
  /\ \A i, j \in Nat : Slot(i) = Slot(j) /\ i < j + Capacity /\ j < i + Capacity => i = j
  /\ \A i \in Nat : Slot(i + Capacity) = Slot(i)
  BY RingQueueAssumption, ModRange, ModInjective, ModLap DEF Slot, SlotIndex

LEMMA KeyFacts ==
  /\ NoKey \notin Keys
  /\ \A n \in Elements : KeyOf(n) \in Keys /\ KeyOf(n) # NoKey
  /\ NoValue \notin Elements
  BY RingQueueAssumption DEF Keys, Elements

LEMMA TypeInit == Init => TypeInv
<1> SUFFICES ASSUME Init PROVE TypeInv
  OBVIOUS
<1> USE RingQueueAssumption, KeyFacts
<1>1. \A s \in SlotIndex : s < Preloaded => s + 1 \in Elements
  BY DEF SlotIndex, Elements
<1>2. key \in [SlotIndex -> Keys \cup {NoKey}] /\ val \in [SlotIndex -> Elements \cup {NoValue}]
  BY <1>1 DEF Init
<1>3. QED
  BY <1>2 DEF Init, TypeInv, TypeOK, ProducerPCs, ConsumerPCs, Probing, Threads

LEMMA TypeStep == TypeInv /\ [Next]_vars => TypeInv'
<1> SUFFICES ASSUME TypeInv, [Next]_vars PROVE TypeInv'
  OBVIOUS
<1>1. /\ Producers \cap Consumers = {} /\ NTRY \in Nat /\ MaxPush \in Nat
      /\ NoThread \notin Producers \cup Consumers
  BY RingQueueAssumption
<1>2. TypeOK
  BY DEF TypeInv
<1> USE <1>1 DEF TypeInv, TypeOK, Goto, ProducerPCs, ConsumerPCs, HoldsTail, HoldsHead, Probing,
        PushOwns, PopOwns, Threads, slots, indices, locks, locals
<1>3. ASSUME NEW p \in Producers, PushCall(p) PROVE TypeInv'
  <2>1. calls \in Nat /\ calls + 1 \in 1 .. MaxPush /\ calls' = calls + 1
    BY <1>3 DEF PushCall
  <2>2. elem' \in [Producers -> Elements \cup {0}] /\ elem'[p] = calls + 1
    BY <1>3, <2>1 DEF PushCall, Elements
  <2>3. \A q \in Producers : pc'[q] # "idle" => elem'[q] \in 1 .. calls'
    BY <1>3, <2>1, <2>2 DEF PushCall
  <2>4. \A q \in Producers : pc'[q] \in Probing \cup {"push_lock"} => tries'[q] < NTRY
    BY <1>3, RingQueueAssumption DEF PushCall
  <2>5. QED BY <1>3, <2>1, <2>2, <2>3, <2>4 DEF PushCall
<1>4. ASSUME NEW p \in Producers, PushLock(p) PROVE TypeInv'
  BY <1>4 DEF PushLock
<1>5. ASSUME NEW p \in Producers, PushKey(p) \/ PushBusy(p) \/ PushRecheck(p) PROVE TypeInv'
  <2>1. /\ UNCHANGED <<slots, indices, locks, calls, at, elem, ret, got>>
        /\ pc[p] \in Probing
    BY <1>5 DEF PushKey, PushBusy, PushRecheck, Probe
  <2>2. CASE UNCHANGED tries /\ \E l \in {"push_busy", "push_recheck", "push_claim"} : Goto(p, l)
    BY <2>1, <2>2
  <2>3. CASE PushRetry(p)
    <3>1. tries[p] < NTRY /\ tries[p] \in 0 .. NTRY
      BY <2>1
    <3>2. tries' \in [Producers -> 0 .. NTRY]
      BY <2>3, <3>1 DEF PushRetry
    <3>3. QED BY <2>1, <2>3, <3>1, <3>2 DEF PushRetry
  <2>4. QED BY <1>5, <2>2, <2>3 DEF PushKey, PushBusy, PushRecheck, Probe
<1>6. ASSUME NEW p \in Producers, PushClaim(p) \/ PushDone(p) PROVE TypeInv'
  BY <1>6 DEF PushClaim, PushDone
<1>7. ASSUME NEW p \in Producers, PushAdvance(p) \/ PushFull(p) PROVE TypeInv'
  <2>1. CASE PushAdvance(p)
    BY <2>1 DEF PushAdvance
  <2>2. CASE PushFull(p)
    BY <2>2 DEF PushFull
  <2>3. QED BY <1>7, <2>1, <2>2
<1>8. ASSUME NEW p \in Producers, PushConstruct(p) PROVE TypeInv'
  <2>1. elem[p] \in Elements
    BY <1>8 DEF PushConstruct, Elements
  <2>2. val' \in [SlotIndex -> Elements \cup {NoValue}]
    BY <1>8, <2>1 DEF PushConstruct
  <2>3. QED BY <1>8, <2>2 DEF PushConstruct
<1>9. ASSUME NEW p \in Producers, PushPublish(p) PROVE TypeInv'
  <2>1. elem[p] \in Elements
    BY <1>9 DEF PushPublish, Elements
  <2>2. KeyOf(elem[p]) \in Keys
    BY <2>1, KeyFacts
  <2>3. key' \in [SlotIndex -> Keys \cup {NoKey}]
    BY <1>9, <2>2 DEF PushPublish
  <2>4. QED BY <1>9, <2>3 DEF PushPublish
<1>10. ASSUME NEW c \in Consumers, PopCall(c) \/ EmptyCall(c) PROVE TypeInv'
  BY <1>10 DEF PopCall, EmptyCall
<1>11. ASSUME NEW c \in Consumers, PopLock(c) \/ EmptyLock(c) PROVE TypeInv'
  BY <1>11 DEF PopLock, EmptyLock
<1>12. ASSUME NEW c \in Consumers, PopKey(c) \/ EmptyKey(c) PROVE TypeInv'
  <2>1. Slot(at[c]) \in SlotIndex
    BY SlotFacts
  <2>2. ret' \in [Consumers -> Keys \cup {NoKey}]
    BY <1>12, <2>1 DEF PopKey, EmptyKey
  <2>3. QED BY <1>12, <2>2 DEF PopKey, EmptyKey
<1>13. ASSUME NEW c \in Consumers, PopBusy(c) \/ PopRecheck(c) PROVE TypeInv'
  BY <1>13 DEF PopBusy, PopRecheck
<1>14. ASSUME NEW c \in Consumers, PopNone(c) PROVE TypeInv'
  BY <1>14 DEF PopNone
<1>15. ASSUME NEW c \in Consumers, PopClaim(c) \/ PopDone(c) PROVE TypeInv'
  BY <1>15 DEF PopClaim, PopDone
<1>16. ASSUME NEW c \in Consumers, PopAdvance(c) PROVE TypeInv'
  BY <1>16 DEF PopAdvance
<1>17. ASSUME NEW c \in Consumers, PopTake(c) PROVE TypeInv'
  <2>1. Slot(at[c]) \in SlotIndex
    BY SlotFacts
  <2>2. got' \in [Consumers -> Elements \cup {NoValue}]
    BY <1>17, <2>1 DEF PopTake
  <2>3. QED BY <1>17, <2>2 DEF PopTake
<1>18. ASSUME NEW c \in Consumers, PopClear(c) PROVE TypeInv'
  BY <1>18 DEF PopClear
<1>19. CASE UNCHANGED vars
  BY <1>19 DEF vars
<1>20. QED
  BY <1>3, <1>4, <1>5, <1>6, <1>7, <1>8, <1>9, <1>10, <1>11, <1>12, <1>13,
     <1>14, <1>15, <1>16, <1>17, <1>18, <1>19
  DEF Next, PushStep, PopStep, EmptyStep

(* The types hold, whatever the callers do.                                 *)
THEOREM RingQueueTypeOK == Spec => []TypeOK
<1>1. TypeInv => TypeOK
  BY DEF TypeInv
<1>2. QED
  BY <1>1, TypeInit, TypeStep, PTL DEF Spec
-----------------------------------------------------------------------------
LEMMA LockInit == Init => LockInv
  BY RingQueueAssumption DEF Init, LockInv, HoldsTail, HoldsHead, Probing, Threads

LEMMA LockStep == TypeInv /\ LockInv /\ [Next]_vars => LockInv'
<1> SUFFICES ASSUME TypeInv, LockInv, [Next]_vars PROVE LockInv'
  OBVIOUS
<1>1. /\ Producers \cap Consumers = {}
      /\ NoThread \notin Producers \cup Consumers
  BY RingQueueAssumption
<1>2. TypeOK
  BY DEF TypeInv
<1> USE <1>1, <1>2
    DEF TypeOK, LockInv, Goto, HoldsTail, HoldsHead, Probing, Threads, slots, indices,
        locks, locals
<1>3. ASSUME NEW p \in Producers, PushCall(p) PROVE LockInv'
  BY <1>3 DEF PushCall
<1>4. ASSUME NEW p \in Producers, PushLock(p) PROVE LockInv'
  BY <1>4 DEF PushLock
<1>5. ASSUME NEW p \in Producers, PushKey(p) \/ PushBusy(p) \/ PushRecheck(p) PROVE LockInv'
  <2>1. /\ UNCHANGED <<slots, indices, locks, calls, at, elem, ret, got>>
        /\ pc[p] \in Probing
        /\ \E l \in HoldsTail : Goto(p, l)
    BY <1>5 DEF PushKey, PushBusy, PushRecheck, Probe, PushRetry
  <2>2. QED BY <2>1
<1>6. ASSUME NEW p \in Producers, PushClaim(p) \/ PushDone(p) PROVE LockInv'
  BY <1>6 DEF PushClaim, PushDone
<1>7. ASSUME NEW p \in Producers, PushAdvance(p) PROVE LockInv'
  BY <1>7 DEF PushAdvance
<1>8. ASSUME NEW p \in Producers, PushFull(p) PROVE LockInv'
  BY <1>8 DEF PushFull
<1>9. ASSUME NEW p \in Producers, PushConstruct(p) \/ PushPublish(p) PROVE LockInv'
  BY <1>9 DEF PushConstruct, PushPublish
<1>10. ASSUME NEW c \in Consumers, PopCall(c) \/ EmptyCall(c) PROVE LockInv'
  BY <1>10 DEF PopCall, EmptyCall
<1>11. ASSUME NEW c \in Consumers, PopLock(c) \/ EmptyLock(c) PROVE LockInv'
  BY <1>11 DEF PopLock, EmptyLock
<1>12. ASSUME NEW c \in Consumers, PopKey(c) PROVE LockInv'
  BY <1>12 DEF PopKey
<1>13. ASSUME NEW c \in Consumers, PopBusy(c) \/ PopRecheck(c) PROVE LockInv'
  BY <1>13 DEF PopBusy, PopRecheck
<1>14. ASSUME NEW c \in Consumers, PopNone(c) \/ EmptyKey(c) PROVE LockInv'
  BY <1>14 DEF PopNone, EmptyKey
<1>15. ASSUME NEW c \in Consumers, PopClaim(c) \/ PopDone(c) PROVE LockInv'
  BY <1>15 DEF PopClaim, PopDone
<1>16. ASSUME NEW c \in Consumers, PopAdvance(c) PROVE LockInv'
  BY <1>16 DEF PopAdvance
<1>17. ASSUME NEW c \in Consumers, PopTake(c) \/ PopClear(c) PROVE LockInv'
  BY <1>17 DEF PopTake, PopClear
<1>18. CASE UNCHANGED vars
  BY <1>18 DEF vars
<1>19. QED
  BY <1>3, <1>4, <1>5, <1>6, <1>7, <1>8, <1>9, <1>10, <1>11, <1>12, <1>13, <1>14, <1>15,
     <1>16, <1>17, <1>18
  DEF Next, PushStep, PopStep, EmptyStep

-----------------------------------------------------------------------------
(* Keys that are not published: no step but PushPublish stores a key other  *)
(* than NoKey, and a consumer only reads what is in a slot.                 *)
LEMMA FreshInit ==
  ASSUME DistinctKeys
  PROVE  Init => FreshInv
<1> SUFFICES ASSUME Init PROVE FreshInv
  OBVIOUS
<1>1. ASSUME NEW n \in calls + 1 .. MaxPush PROVE Unread(n)
  <2>1. /\ calls = Preloaded /\ Preloaded \in Nat /\ MaxPush \in Nat
        /\ Preloaded <= MaxPush /\ n \in Elements /\ n > Preloaded
    BY RingQueueAssumption DEF Init, Elements
  <2>2. ASSUME NEW s \in SlotIndex PROVE key[s] # KeyOf(n)
    <3>1. CASE s < Preloaded
      <4>1. s + 1 \in Elements /\ s + 1 # n
        BY <2>1, <3>1 DEF Elements, SlotIndex
      <4>2. QED BY <2>1, <3>1, <4>1 DEF Init, DistinctKeys
    <3>2. CASE ~(s < Preloaded)
      BY <2>1, <3>2, KeyFacts DEF Init
    <3>3. QED BY <3>1, <3>2
  <2>3. \A c \in Consumers : ret[c] # KeyOf(n)
    BY <2>1, KeyFacts DEF Init
  <2>4. QED BY <2>2, <2>3 DEF Unread
<1>2. \A p \in Producers : ~Unpublished(p)
  BY DEF Init, Unpublished, Probing, Threads
<1>3. QED BY <1>1, <1>2 DEF FreshInv

LEMMA FreshStep ==
  ASSUME DistinctKeys
  PROVE  TypeInv /\ FreshInv /\ [Next]_vars => FreshInv'
<1> SUFFICES ASSUME TypeInv, FreshInv, [Next]_vars PROVE FreshInv'
  OBVIOUS
<1>1. /\ Producers \cap Consumers = {} /\ MaxPush \in Nat
      /\ \A n \in 1 .. MaxPush : n \in Elements
  BY RingQueueAssumption DEF Elements
<1>2. TypeOK
  BY DEF TypeInv
<1>3. ASSUME NEW p \in Producers, Unpublished(p)
      PROVE  elem[p] \in 1 .. calls /\ elem[p] \in Elements
  BY <1>1, <1>2, <1>3 DEF Unpublished, Probing, TypeInv, TypeOK
(* Slots and reads only lose keys: by a step that publishes nothing.        *)
<1>4. ASSUME \A s \in SlotIndex : key'[s] = key[s] \/ key'[s] = NoKey,
             \A c \in Consumers : ret'[c] = ret[c] \/ \E s \in SlotIndex : ret'[c] = key[s],
             NEW n \in Elements, Unread(n)
      PROVE  /\ \A s \in SlotIndex : key'[s] # KeyOf(n)
             /\ \A c \in Consumers : ret'[c] # KeyOf(n)
  <2>1. KeyOf(n) # NoKey
    BY KeyFacts
  <2>2. QED BY <1>4, <2>1 DEF Unread
<1>5. CASE /\ \A s \in SlotIndex : key'[s] = key[s] \/ key'[s] = NoKey
           /\ \A c \in Consumers : ret'[c] = ret[c] \/ \E s \in SlotIndex : ret'[c] = key[s]
           /\ UNCHANGED <<calls, elem>>
           /\ \A p \in Producers : Unpublished(p)' => Unpublished(p)
  <2>1. ASSUME NEW n \in calls' + 1 .. MaxPush PROVE Unread(n)'
    <3>1. n \in Elements /\ Unread(n)
      BY <1>2, <1>5 DEF FreshInv, TypeOK, Elements
    <3>2. QED BY <1>4, <1>5, <3>1 DEF Unread
  <2>2. ASSUME NEW p \in Producers, Unpublished(p)' PROVE Unread(elem[p])'
    <3>1. elem[p] \in Elements /\ Unread(elem[p]) /\ elem'[p] = elem[p]
      BY <1>3, <1>5, <2>2 DEF FreshInv
    <3>2. QED BY <1>4, <1>5, <3>1 DEF Unread
  <2>3. \A p, q \in Producers :
          Unpublished(p)' /\ Unpublished(q)' /\ elem'[p] = elem'[q] => p = q
    BY <1>5 DEF FreshInv
  <2>4. QED BY <2>1, <2>2, <2>3 DEF FreshInv
<1>6. ASSUME NEW p \in Producers, PushCall(p) PROVE FreshInv'
  <2>1. /\ calls' = calls + 1 /\ elem' = [elem EXCEPT ![p] = calls + 1]
        /\ UNCHANGED <<key, ret>> /\ calls \in Nat /\ calls < MaxPush
    BY <1>2, <1>6 DEF PushCall, slots, TypeOK
  <2>2. \A q \in Producers : q # p /\ Unpublished(q)' => Unpublished(q)
    BY <1>2, <1>6 DEF PushCall, Goto, Unpublished, Probing, TypeOK, Threads
  <2>3. \A n \in calls + 1 .. MaxPush : Unread(n)'
    BY <2>1 DEF FreshInv, Unread
  <2>4. ASSUME NEW q \in Producers, Unpublished(q)' PROVE Unread(elem[q])'
    <3>1. CASE q = p
      <4>1. elem'[q] = calls + 1 /\ calls + 1 \in calls + 1 .. MaxPush
        BY <1>1, <1>2, <2>1, <3>1 DEF TypeOK
      <4>2. QED BY <2>3, <4>1 DEF Unread
    <3>2. CASE q # p
      BY <1>2, <2>1, <2>2, <2>4, <3>2 DEF FreshInv, Unread, TypeOK
    <3>3. QED BY <3>1, <3>2
  <2>5. ASSUME NEW q \in Producers, q # p, Unpublished(q)' PROVE elem'[q] # elem'[p]
    BY <1>2, <1>3, <2>1, <2>2, <2>5 DEF TypeOK
  <2>6. \A q, r \in Producers :
          Unpublished(q)' /\ Unpublished(r)' /\ elem'[q] = elem'[r] => q = r
    BY <1>2, <2>1, <2>2, <2>5 DEF FreshInv, TypeOK
  <2>7. \A n \in calls' + 1 .. MaxPush : Unread(n)'
    BY <1>1, <2>1, <2>3
  <2>8. QED BY <2>4, <2>6, <2>7 DEF FreshInv
<1>7. ASSUME NEW p \in Producers, PushPublish(p) PROVE FreshInv'
  <2>1. /\ key' = [key EXCEPT ![Slot(at[p])] = KeyOf(elem[p])]
        /\ UNCHANGED <<calls, elem, ret>>
        /\ Unpublished(p)
    BY <1>7 DEF PushPublish, locals, Unpublished
  <2>2. ~Unpublished(p)' /\ \A q \in Producers : Unpublished(q)' => Unpublished(q)
    BY <1>1, <1>2, <1>7 DEF PushPublish, Goto, Unpublished, Probing, TypeOK, Threads
  <2>3. ASSUME NEW n \in Elements, n # elem[p], Unread(n)
        PROVE  /\ \A s \in SlotIndex : key'[s] # KeyOf(n)
               /\ \A c \in Consumers : ret'[c] # KeyOf(n)
    <3>1. KeyOf(n) # KeyOf(elem[p])
      BY <1>3, <2>1, <2>3 DEF DistinctKeys
    <3>2. QED BY <1>2, <2>1, <2>3, <3>1 DEF Unread, TypeOK
  <2>4. ASSUME NEW n \in calls' + 1 .. MaxPush PROVE Unread(n)'
    <3>1. n \in Elements /\ n # elem[p] /\ Unread(n)
      BY <1>2, <1>3, <2>1, <2>4 DEF FreshInv, TypeOK, Elements
    <3>2. QED BY <2>3, <3>1 DEF Unread
  <2>5. ASSUME NEW q \in Producers, Unpublished(q)' PROVE Unread(elem[q])'
    <3>1. elem[q] \in Elements /\ Unread(elem[q]) /\ elem[q] # elem[p] /\ elem'[q] = elem[q]
      BY <1>3, <2>1, <2>2, <2>5 DEF FreshInv
    <3>2. QED BY <2>3, <3>1 DEF Unread
  <2>6. QED BY <2>1, <2>2, <2>4, <2>5 DEF FreshInv
<1>8. ASSUME NEW p \in Producers,
             \/ PushLock(p) \/ PushKey(p) \/ PushBusy(p) \/ PushRecheck(p) \/ PushClaim(p)
             \/ PushAdvance(p) \/ PushConstruct(p) \/ PushDone(p) \/ PushFull(p)
      PROVE  FreshInv'
  <2>1. UNCHANGED <<key, ret, calls, elem>>
    BY <1>8 DEF PushLock, PushKey, PushBusy, PushRecheck, Probe, PushClaim,
                PushAdvance, PushConstruct, PushDone, PushFull, slots, locals
  <2>2. \A q \in Producers : Unpublished(q)' => Unpublished(q)
    BY <1>2, <1>8 DEF PushLock, PushKey, PushBusy, PushRecheck, Probe, PushRetry, PushClaim,
                PushAdvance, PushConstruct, PushDone, PushFull, Goto, Unpublished, Probing,
                TypeOK, Threads
  <2>3. QED BY <1>5, <2>1, <2>2
<1>9. ASSUME NEW c \in Consumers, PopCall(c) \/ EmptyCall(c) \/ PopStep(c) \/ EmptyStep(c)
      PROVE  FreshInv'
  <2>1. UNCHANGED <<calls, elem>>
    BY <1>9 DEF PopCall, EmptyCall, PopStep, EmptyStep, PopLock, PopKey, PopBusy, PopRecheck,
                PopClaim, PopAdvance, PopTake, PopClear, PopDone, PopNone, EmptyLock,
                EmptyKey, locals
  <2>2. \A q \in Producers : pc'[q] = pc[q]
    BY <1>1, <1>2, <1>9
    DEF PopCall, EmptyCall, PopStep, EmptyStep, PopLock, PopKey, PopBusy, PopRecheck,
        PopClaim, PopAdvance, PopTake, PopClear, PopDone, PopNone, EmptyLock,
        EmptyKey, Goto, TypeOK, Threads
  <2>3. \A s \in SlotIndex : key'[s] = key[s] \/ key'[s] = NoKey
    BY <1>2, <1>9
    DEF PopCall, EmptyCall, PopStep, EmptyStep, PopLock, PopKey, PopBusy, PopRecheck,
        PopClaim, PopAdvance, PopTake, PopClear, PopDone, PopNone, EmptyLock,
        EmptyKey, TypeOK, slots
  <2>4. Slot(at[c]) \in SlotIndex
    BY <1>2, SlotFacts DEF TypeOK, Threads
  <2>5. \A d \in Consumers : ret'[d] = ret[d] \/ \E s \in SlotIndex : ret'[d] = key[s]
    BY <1>2, <1>9, <2>4
    DEF PopCall, EmptyCall, PopStep, EmptyStep, PopLock, PopKey, PopBusy, PopRecheck,
        PopClaim, PopAdvance, PopTake, PopClear, PopDone, PopNone, EmptyLock,
        EmptyKey, TypeOK, locals
  <2>6. QED BY <1>5, <2>1, <2>2, <2>3, <2>5 DEF Unpublished
<1>10. CASE UNCHANGED vars
  BY <1>5, <1>10 DEF vars, slots, locals, Unpublished
<1>11. QED
  BY <1>6, <1>7, <1>8, <1>9, <1>10 DEF Next, PushStep
-----------------------------------------------------------------------------
(* The slots of the Capacity tickets from head_.i on are different.         *)
Window == head_i .. head_i + Capacity - 1

LEMMA WindowSlots ==
  ASSUME TypeOK, NEW i \in Window, NEW j \in Window, i # j
  PROVE  Slot(i) # Slot(j)
<1>1. Capacity \in Nat /\ head_i \in Nat
  BY RingQueueAssumption DEF TypeOK
<1>2. i \in Nat /\ j \in Nat /\ i < j + Capacity /\ j < i + Capacity
  BY <1>1 DEF Window
<1>3. QED BY <1>2, SlotFacts

(* Each slot in use is that of a ticket of the window: a pop of the last    *)
(* lap is on the slot of the ticket one lap later.                          *)
LEMMA Places ==
  ASSUME TypeOK, TicketInv
  PROVE  /\ head_i .. tail_i - 1 \subseteq Window
         /\ tail_i .. head_i + Capacity - 1 \subseteq Window
         /\ \A i \in Window : i \in Nat /\ Slot(i) \in SlotIndex
         /\ \A p \in Producers : Commits(p) => at[p] \in head_i .. tail_i - 1
         /\ \A c \in Consumers : Drains(c) =>
              /\ at[c] + Capacity \in tail_i .. head_i + Capacity - 1
              /\ Slot(at[c] + Capacity) = Slot(at[c])
<1>1. /\ Capacity \in Nat /\ head_i \in Nat /\ tail_i \in Nat
      /\ at \in [Threads -> Nat]
  BY RingQueueAssumption DEF TypeOK
<1>2. \A i \in Window : i \in Nat /\ Slot(i) \in SlotIndex
  BY <1>1, SlotFacts DEF Window
<1>3. \A p \in Producers : Commits(p) => at[p] \in head_i .. tail_i - 1
  BY <1>1 DEF TicketInv, CommitInv, Threads
<1>4. ASSUME NEW c \in Consumers, Drains(c)
      PROVE  /\ at[c] + Capacity \in tail_i .. head_i + Capacity - 1
             /\ Slot(at[c] + Capacity) = Slot(at[c])
  BY <1>1, <1>4, SlotFacts DEF TicketInv, DrainInv, Threads
<1>5. QED
  BY <1>1, <1>2, <1>3, <1>4 DEF TicketInv, Window

LEMMA RingInit == Init => RingInv
<1> SUFFICES ASSUME Init PROVE RingInv
  OBVIOUS
<1>1. /\ Capacity \in Nat \ {0} /\ Preloaded \in 0 .. Capacity /\ MaxPush \in Nat
      /\ Preloaded <= MaxPush
  BY RingQueueAssumption
<1>2. /\ \A p \in Producers : pc[p] = "idle" /\ ~Commits(p)
      /\ \A c \in Consumers : pc[c] = "idle" /\ ~Drains(c)
  BY DEF Init, Commits, Drains, Threads
<1>3. TicketInv
  BY <1>1, <1>2 DEF Init, TicketInv, CommitInv, DrainInv
<1>4. CheckInv
  BY <1>2 DEF CheckInv, PushCheck, PopCheck
<1>5. \A i \in 0 .. Capacity - 1 : Slot(i) = i /\ i \in SlotIndex
  BY <1>1, ModUnique DEF Slot, SlotIndex
<1>6. FullSlots
  <2> SUFFICES ASSUME NEW i \in 0 .. Preloaded - 1
               PROVE  /\ val[Slot(i)] \in Elements
                      /\ key[Slot(i)] = KeyOf(val[Slot(i)])
                      /\ busy[Slot(i)] = 0
    BY DEF Init, FullSlots
  <2>1. i < Preloaded /\ i \in 0 .. Capacity - 1 /\ i + 1 \in Elements
    BY <1>1 DEF Elements
  <2>2. QED BY <1>5, <2>1 DEF Init
<1>7. EmptySlots
  <2> SUFFICES ASSUME NEW i \in Preloaded .. 0 + Capacity - 1
               PROVE  /\ val[Slot(i)] = NoValue
                      /\ key[Slot(i)] = NoKey
                      /\ busy[Slot(i)] = 0
    BY DEF Init, EmptySlots
  <2>1. ~(i < Preloaded) /\ i \in 0 .. Capacity - 1
    BY <1>1
  <2>2. QED BY <1>5, <2>1 DEF Init
<1>8. CommitSlots /\ DrainSlots
  BY <1>2 DEF CommitSlots, DrainSlots
<1>9. QED
  BY <1>3, <1>4, <1>6, <1>7, <1>8 DEF RingInv, SlotsInv

-----------------------------------------------------------------------------
(* Quiet steps: those that change neither slots nor indices nor what any    *)
(* thread in the middle of a commit knows.                                  *)
Quiet ==
  /\ UNCHANGED <<key, busy, val, head_i, tail_i>>
  /\ \A p \in Producers :
       /\ Commits(p)' <=> Commits(p)
       /\ Commits(p) => pc'[p] = pc[p] /\ at'[p] = at[p] /\ elem'[p] = elem[p]
       /\ pc'[p] = "push_advance" <=> pc[p] = "push_advance"
  /\ \A c \in Consumers :
       /\ Drains(c)' <=> Drains(c)
       /\ Drains(c) => pc'[c] = pc[c] /\ at'[c] = at[c] /\ ret'[c] = ret[c] /\ got'[c] = got[c]
       /\ pc'[c] = "pop_advance" <=> pc[c] = "pop_advance"

LEMMA QuietStep ==
  ASSUME TicketInv, SlotsInv, Quiet
  PROVE  /\ TicketInv' /\ SlotsInv'
         /\ \A i \in Nat : (Committed(i)' <=> Committed(i)) /\ (Drained(i)' <=> Drained(i))
<1>1. TicketInv'
  BY DEF TicketInv, CommitInv, DrainInv, Quiet
<1>2. \A i : (Committed(i)' <=> Committed(i)) /\ (Drained(i)' <=> Drained(i))
  BY DEF Quiet, Committed, Drained
<1>3. UNCHANGED <<key, busy, val, head_i, tail_i>>
  BY DEF Quiet
<1>4. FullSlots'
  BY <1>2, <1>3 DEF SlotsInv, FullSlots, Quiet, Slot
<1>5. EmptySlots'
  BY <1>2, <1>3 DEF SlotsInv, EmptySlots, Quiet, Slot
<1>6. CommitSlots'
  BY <1>3 DEF SlotsInv, CommitSlots, Quiet, Slot
<1>7. DrainSlots'
  BY <1>3 DEF SlotsInv, DrainSlots, Quiet, Slot
<1>8. QED
  BY <1>1, <1>2, <1>4, <1>5, <1>6, <1>7 DEF SlotsInv

LEMMA QuietChecks ==
  ASSUME TypeOK, TicketInv, SlotsInv, CheckInv, Quiet
  PROVE  /\ \A p \in Producers : pc'[p] = pc[p] => PushCheck(p)'
         /\ \A c \in Consumers : pc'[c] = pc[c] /\ ret'[c] = ret[c] => PopCheck(c)'
<1>1. head_i \in Nat /\ tail_i \in Nat /\ UNCHANGED <<key, busy, val, head_i, tail_i>>
  BY DEF TypeOK, Quiet
<1>2. (Committed(head_i)' <=> Committed(head_i)) /\ (Drained(tail_i)' <=> Drained(tail_i))
  BY <1>1 DEF Quiet, Committed, Drained
<1>3. QED
  BY <1>1, <1>2 DEF CheckInv, PushCheck, PopCheck, Slot

(* The checks of push().  It is here that a push needs the environment: an  *)
(* empty key is not that of a slot which a push of the last lap has still   *)
(* to publish.                                                              *)
LEMMA PushQuiet ==
  ASSUME Inv, NoLapping, NEW p \in Producers,
         \/ PushCall(p) \/ PushLock(p) \/ PushKey(p) \/ PushBusy(p) \/ PushRecheck(p)
         \/ PushFull(p)
  PROVE  RingInv'
<1>1. TypeOK /\ LockInv /\ TicketInv /\ SlotsInv /\ CheckInv
  BY DEF Inv, RingInv, TypeInv
<1>2. Producers \cap Consumers = {} /\ Capacity \in Nat \ {0}
  BY RingQueueAssumption
<1>3. /\ \A q \in Producers : q # p => pc'[q] = pc[q] /\ at'[q] = at[q] /\ elem'[q] = elem[q]
      /\ \A c \in Consumers : /\ pc'[c] = pc[c] /\ at'[c] = at[c]
                              /\ ret'[c] = ret[c] /\ got'[c] = got[c]
      /\ UNCHANGED <<key, busy, val, head_i, tail_i>>
      /\ pc[p] \in {"idle", "push_lock", "push_full"} \cup Probing
      /\ pc'[p] \in {"idle", "push_lock", "push_full", "push_claim"} \cup Probing
  BY <1>1, <1>2
  DEF PushCall, PushLock, PushKey, PushBusy, PushRecheck, PushFull, Probe, PushRetry, Goto,
      Probing, TypeOK, Threads, slots, indices, locals
<1>4. Quiet
  BY <1>3 DEF Quiet, Commits, Drains, Probing
<1>5. TicketInv' /\ SlotsInv'
  BY <1>1, <1>4, QuietStep
<1>6. ASSUME NEW q \in Producers PROVE PushCheck(q)'
  <2>1. CASE q # p
    BY <1>1, <1>3, <1>4, <2>1, QuietChecks
  <2>2. CASE q = p /\ pc'[p] \notin {"push_busy", "push_recheck", "push_claim"}
    BY <1>3, <2>2 DEF PushCheck, Probing
  <2>3. CASE q = p /\ pc'[p] \in {"push_busy", "push_recheck", "push_claim"}
    <3>1. /\ pc[p] \in Probing /\ at[p] = tail_i /\ pc'[p] # "push_advance"
          /\ tail_i \in Nat /\ head_i \in Nat
      BY <1>1, <1>2, <2>3
      DEF PushCall, PushLock, PushKey, PushBusy, PushRecheck, PushFull, Probe, PushRetry,
          Goto, Probing, HoldsTail, LockInv, TypeOK, Threads
    <3>2. tail_i < head_i + Capacity
      <4>1. CASE pc[p] = "push_key"
        <5>1. key[Slot(tail_i)] = NoKey
          BY <1>1, <1>2, <2>3, <3>1, <4>1
          DEF PushCall, PushLock, PushKey, PushBusy, PushRecheck, PushFull, Probe, PushRetry,
              Goto, TypeOK, Threads
        <5>2. SUFFICES ASSUME tail_i = head_i + Capacity PROVE FALSE
          BY <1>1, <1>2, <3>1 DEF TicketInv
        <5>3. Slot(tail_i) = Slot(head_i)
          BY <3>1, <5>2, SlotFacts
        <5>4. Committed(head_i)
          BY <1>1, <1>2, <3>1, <5>2 DEF NoLapping, Committed, TypeOK, Threads
        <5>5. head_i \in head_i .. tail_i - 1
          BY <1>2, <3>1, <5>2
        <5>6. key[Slot(head_i)] = KeyOf(val[Slot(head_i)]) /\ val[Slot(head_i)] \in Elements
          BY <1>1, <5>4, <5>5 DEF SlotsInv, FullSlots
        <5>7. QED BY <5>1, <5>3, <5>6, KeyFacts
      <4>2. CASE pc[p] # "push_key"
        BY <1>1, <3>1, <4>2 DEF CheckInv, PushCheck, Probing
      <4>3. QED BY <4>1, <4>2
    <3>3. pc'[p] \in {"push_recheck", "push_claim"} => Drained(tail_i)
      <4>1. CASE pc'[p] = "push_recheck"
        <5>1. busy[Slot(tail_i)] = 0
          BY <1>1, <1>2, <3>1, <4>1
          DEF PushCall, PushLock, PushKey, PushBusy, PushRecheck, PushFull, Probe, PushRetry,
              Goto, TypeOK, Threads
        <5>2. SUFFICES ASSUME NEW c \in Consumers, Drains(c), at[c] + Capacity = tail_i
                       PROVE  FALSE
          BY DEF Drained
        <5>3. Slot(at[c]) = Slot(tail_i)
          BY <1>1, <5>2, Places
        <5>4. busy[Slot(at[c])] = 1
          BY <1>1, <5>2 DEF SlotsInv, DrainSlots
        <5>5. QED BY <5>1, <5>3, <5>4
      <4>2. CASE pc'[p] = "push_claim"
        <5>1. pc[p] = "push_recheck"
          BY <1>1, <1>2, <3>1, <4>2
          DEF PushCall, PushLock, PushKey, PushBusy, PushRecheck, PushFull, Probe, PushRetry,
              Goto, TypeOK, Threads
        <5>2. QED BY <1>1, <5>1 DEF CheckInv, PushCheck
      <4>3. QED BY <4>1, <4>2
    <3>4. Drained(tail_i)' <=> Drained(tail_i)
      BY <1>3, <1>4 DEF Quiet, Drained
    <3>5. QED BY <1>3, <2>3, <3>1, <3>2, <3>3, <3>4 DEF PushCheck
  <2>4. QED BY <2>1, <2>2, <2>3
<1>7. \A c \in Consumers : PopCheck(c)'
  BY <1>1, <1>3, <1>4, QuietChecks
<1>8. QED
  BY <1>5, <1>6, <1>7 DEF RingInv, CheckInv

(* The checks of pop(): a key that is still in the slot after busy was 0 is *)
(* that of a completed push, because no other element ever has the key.     *)
LEMMA PopQuiet ==
  ASSUME Inv, NEW c \in Consumers,
         \/ PopCall(c) \/ EmptyCall(c) \/ PopLock(c) \/ EmptyLock(c) \/ PopKey(c) \/ EmptyKey(c)
         \/ PopBusy(c) \/ PopRecheck(c) \/ PopNone(c)
  PROVE  RingInv'
<1>1. TypeOK /\ LockInv /\ TicketInv /\ SlotsInv /\ CheckInv
  BY DEF Inv, RingInv, TypeInv
<1>2. Producers \cap Consumers = {} /\ Capacity \in Nat \ {0}
  BY RingQueueAssumption
<1> DEFINE Early == {"idle", "pop_lock", "empty_lock", "empty_key", "pop_key", "pop_busy",
                     "pop_recheck", "pop_none"}
<1>3. /\ \A d \in Consumers : d # c => /\ pc'[d] = pc[d] /\ at'[d] = at[d]
                                       /\ ret'[d] = ret[d] /\ got'[d] = got[d]
      /\ \A q \in Producers : pc'[q] = pc[q] /\ at'[q] = at[q] /\ elem'[q] = elem[q]
      /\ UNCHANGED <<key, busy, val, head_i, tail_i>>
      /\ pc[c] \in Early /\ pc'[c] \in Early \cup {"pop_claim"}
  BY <1>1, <1>2
  DEF PopCall, EmptyCall, PopLock, EmptyLock, PopKey, EmptyKey, PopBusy, PopRecheck, PopNone,
      Goto, TypeOK, Threads, slots, indices, locals
<1>4. Quiet
  BY <1>3 DEF Quiet, Commits, Drains
<1>5. TicketInv' /\ SlotsInv'
  BY <1>1, <1>4, QuietStep
<1>6. ASSUME NEW d \in Consumers PROVE PopCheck(d)'
  <2>1. CASE d # c
    BY <1>1, <1>3, <1>4, <2>1, QuietChecks
  <2>2. CASE d = c /\ pc'[c] \notin {"pop_busy", "pop_recheck", "pop_claim"}
    BY <1>3, <2>2 DEF PopCheck
  <2>3. CASE d = c /\ pc'[c] = "pop_busy"
    <3>1. ret'[c] # NoKey
      BY <1>1, <1>2, <2>3
      DEF PopCall, EmptyCall, PopLock, EmptyLock, PopKey, EmptyKey, PopBusy, PopRecheck,
          PopNone, Goto, TypeOK, Threads
    <3>2. QED BY <2>3, <3>1 DEF PopCheck
  <2>4. CASE d = c /\ pc'[c] = "pop_recheck"
    <3>1. /\ pc[c] = "pop_busy" /\ at[c] = head_i /\ busy[Slot(head_i)] = 0
          /\ ret[c] # NoKey /\ ret'[c] = ret[c] /\ head_i \in Nat /\ tail_i \in Nat
      BY <1>1, <1>2, <2>4
      DEF PopCall, EmptyCall, PopLock, EmptyLock, PopKey, EmptyKey, PopBusy, PopRecheck,
          PopNone, Goto, TypeOK, Threads, LockInv, HoldsHead, CheckInv, PopCheck, locals
    <3>2. Committed(head_i)
      <4>1. SUFFICES ASSUME NEW q \in Producers, Commits(q), at[q] = head_i PROVE FALSE
        BY DEF Committed
      <4>2. QED BY <1>1, <3>1, <4>1 DEF SlotsInv, CommitSlots
    <3>3. key[Slot(head_i)] = ret[c] => head_i < tail_i
      <4>1. SUFFICES ASSUME key[Slot(head_i)] # NoKey, head_i = tail_i PROVE FALSE
        BY <1>1, <3>1 DEF TicketInv
      <4>2. tail_i \in tail_i .. head_i + Capacity - 1
        BY <1>2, <3>1, <4>1
      <4>3. ~Drained(tail_i)
        BY <1>1, <4>1, <4>2 DEF SlotsInv, EmptySlots
      <4>4. PICK e \in Consumers : Drains(e) /\ at[e] + Capacity = tail_i
        BY <4>3 DEF Drained
      <4>5. Slot(at[e]) = Slot(tail_i)
        BY <1>1, <4>4, Places
      <4>6. busy[Slot(at[e])] = 1
        BY <1>1, <4>4 DEF SlotsInv, DrainSlots
      <4>7. QED BY <3>1, <4>1, <4>5, <4>6
    <3>4. Committed(head_i)'
      BY <1>3, <3>2 DEF Committed, Commits
    <3>5. QED BY <1>3, <2>4, <3>1, <3>3, <3>4 DEF PopCheck, Slot
  <2>5. CASE d = c /\ pc'[c] = "pop_claim"
    <3>1. /\ pc[c] = "pop_recheck" /\ at[c] = head_i /\ key[Slot(head_i)] = ret[c]
          /\ ret'[c] = ret[c]
      BY <1>1, <1>2, <2>5
      DEF PopCall, EmptyCall, PopLock, EmptyLock, PopKey, EmptyKey, PopBusy, PopRecheck,
          PopNone, Goto, TypeOK, Threads, LockInv, HoldsHead, locals
    <3>2. ret[c] # NoKey /\ head_i < tail_i /\ Committed(head_i)
      BY <1>1, <3>1 DEF CheckInv, PopCheck
    <3>3. Committed(head_i)'
      BY <1>3, <3>2 DEF Committed, Commits
    <3>4. QED BY <1>3, <2>5, <3>1, <3>2, <3>3 DEF PopCheck, Slot
  <2>6. QED BY <1>3, <2>1, <2>2, <2>3, <2>4, <2>5
<1>7. \A q \in Producers : PushCheck(q)'
  BY <1>1, <1>3, <1>4, QuietChecks
<1>8. QED
  BY <1>5, <1>6, <1>7 DEF RingInv, CheckInv

-----------------------------------------------------------------------------
(* Steps that store in one slot, that of ticket x of the window: what they  *)
(* leave alone.                                                             *)
Touches(x) ==
  /\ x \in Window
  /\ \A i \in Window : i # x =>
       key'[Slot(i)] = key[Slot(i)] /\ busy'[Slot(i)] = busy[Slot(i)] /\ val'[Slot(i)] = val[Slot(i)]

LEMMA StoreTouches ==
  ASSUME TypeOK, NEW x \in Window,
         \A s \in SlotIndex : s # Slot(x) =>
           key'[s] = key[s] /\ busy'[s] = busy[s] /\ val'[s] = val[s]
  PROVE  Touches(x)
<1>1. \A i \in Window : i \in Nat /\ Slot(i) \in SlotIndex
  BY RingQueueAssumption, SlotFacts DEF Window, TypeOK
<1>2. QED
  BY <1>1, WindowSlots DEF Touches

LEMMA TouchOthers ==
  ASSUME TypeOK, TicketInv, SlotsInv, NEW x, Touches(x)
  PROVE  /\ \A i \in head_i .. tail_i - 1 : i # x /\ Committed(i) =>
              /\ val'[Slot(i)] \in Elements
              /\ key'[Slot(i)] = KeyOf(val'[Slot(i)])
              /\ \/ busy'[Slot(i)] = 0
                 \/ i = head_i /\ \E c \in Consumers : pc[c] = "pop_advance"
         /\ \A i \in tail_i .. head_i + Capacity - 1 : i # x /\ Drained(i) =>
              /\ val'[Slot(i)] = NoValue
              /\ key'[Slot(i)] = NoKey
              /\ \/ busy'[Slot(i)] = 0
                 \/ i = tail_i /\ \E p \in Producers : pc[p] = "push_advance"
         /\ \A p \in Producers : Commits(p) /\ at[p] # x =>
              /\ busy'[Slot(at[p])] = 1
              /\ val'[Slot(at[p])] = IF pc[p] = "push_construct" THEN NoValue ELSE elem[p]
              /\ key'[Slot(at[p])] = IF pc[p] = "push_done" THEN KeyOf(elem[p]) ELSE NoKey
         /\ \A c \in Consumers : Drains(c) /\ at[c] + Capacity # x =>
              /\ busy'[Slot(at[c])] = 1
              /\ val'[Slot(at[c])] = val[Slot(at[c])]
              /\ key'[Slot(at[c])] = IF pc[c] = "pop_done" THEN NoKey ELSE ret[c]
<1>1. \A i \in head_i .. tail_i - 1 : i \in Window
  BY Places
<1>2. \A i \in tail_i .. head_i + Capacity - 1 : i \in Window
  BY Places
<1>3. \A p \in Producers : Commits(p) => at[p] \in Window
  BY Places
<1>4. \A c \in Consumers : Drains(c) =>
        at[c] + Capacity \in Window /\ Slot(at[c]) = Slot(at[c] + Capacity)
  BY Places
<1>5. ASSUME NEW i \in head_i .. tail_i - 1, i # x, Committed(i)
      PROVE  /\ val'[Slot(i)] \in Elements
             /\ key'[Slot(i)] = KeyOf(val'[Slot(i)])
             /\ \/ busy'[Slot(i)] = 0
                \/ i = head_i /\ \E c \in Consumers : pc[c] = "pop_advance"
  BY <1>1, <1>5 DEF SlotsInv, FullSlots, Touches
<1>6. ASSUME NEW i \in tail_i .. head_i + Capacity - 1, i # x, Drained(i)
      PROVE  /\ val'[Slot(i)] = NoValue
             /\ key'[Slot(i)] = NoKey
             /\ \/ busy'[Slot(i)] = 0
                \/ i = tail_i /\ \E p \in Producers : pc[p] = "push_advance"
  BY <1>2, <1>6 DEF SlotsInv, EmptySlots, Touches
<1>7. ASSUME NEW p \in Producers, Commits(p), at[p] # x
      PROVE  /\ busy'[Slot(at[p])] = 1
             /\ val'[Slot(at[p])] = IF pc[p] = "push_construct" THEN NoValue ELSE elem[p]
             /\ key'[Slot(at[p])] = IF pc[p] = "push_done" THEN KeyOf(elem[p]) ELSE NoKey
  BY <1>3, <1>7 DEF SlotsInv, CommitSlots, Touches
<1>8. ASSUME NEW c \in Consumers, Drains(c), at[c] + Capacity # x
      PROVE  /\ busy'[Slot(at[c])] = 1
             /\ val'[Slot(at[c])] = val[Slot(at[c])]
             /\ key'[Slot(at[c])] = IF pc[c] = "pop_done" THEN NoKey ELSE ret[c]
  BY <1>4, <1>8 DEF SlotsInv, DrainSlots, Touches
<1>9. QED
  BY <1>5, <1>6, <1>7, <1>8

LEMMA PushClaimStep ==
  ASSUME Inv, NEW p \in Producers, PushClaim(p)
  PROVE  RingInv'
<1>1. TypeOK /\ LockInv /\ TicketInv /\ SlotsInv /\ CheckInv
  BY DEF Inv, RingInv, TypeInv
<1>2. Producers \cap Consumers = {} /\ Capacity \in Nat \ {0}
  BY RingQueueAssumption
<1>3. /\ pc[p] = "push_claim" /\ pc'[p] = "push_advance" /\ at[p] = tail_i
      /\ \A q \in Producers : q # p => pc'[q] = pc[q] /\ pc[q] \notin HoldsTail
      /\ \A c \in Consumers : pc'[c] = pc[c]
      /\ UNCHANGED <<key, val, head_i, tail_i, at, elem, ret, got>>
      /\ busy' = [busy EXCEPT ![Slot(tail_i)] = 1]
      /\ head_i \in Nat /\ tail_i \in Nat
  <2>1. /\ pc[p] = "push_claim" /\ pc[p] \in HoldsTail /\ p \in Threads
        /\ UNCHANGED <<key, val, head_i, tail_i, at, elem, ret, got>>
    BY DEF PushClaim, HoldsTail, Threads, indices, locals
  <2>2. at[p] = tail_i /\ \A q \in Producers : q # p => pc[q] \notin HoldsTail
    BY <1>1, <2>1 DEF LockInv
  <2>3. pc' = [pc EXCEPT ![p] = "push_advance"] /\ busy' = [busy EXCEPT ![Slot(tail_i)] = 1]
    BY <2>2 DEF PushClaim, Goto
  <2>4. QED BY <1>1, <1>2, <2>1, <2>2, <2>3 DEF TypeOK, Threads
<1>4. tail_i < head_i + Capacity /\ Drained(tail_i)
  BY <1>1, <1>3 DEF CheckInv, PushCheck
<1>5. tail_i \in Window /\ tail_i \in tail_i .. head_i + Capacity - 1 /\ Slot(tail_i) \in SlotIndex
  BY <1>1, <1>2, <1>3, <1>4, Places
<1>6. Touches(tail_i)
  BY <1>1, <1>3, <1>5, StoreTouches DEF TypeOK
<1>7. busy'[Slot(tail_i)] = 1 /\ \A s \in SlotIndex : busy[s] = 1 => busy'[s] = 1
  BY <1>1, <1>3, <1>5 DEF TypeOK
<1>8. /\ \A q \in Producers : (Commits(q)' <=> Commits(q)) /\ (Commits(q) => pc'[q] = pc[q])
      /\ \A c \in Consumers : Drains(c)' <=> Drains(c)
  BY <1>3 DEF Commits, Drains
<1>9. \A i : (Committed(i)' <=> Committed(i)) /\ (Drained(i)' <=> Drained(i))
  BY <1>3, <1>8 DEF Committed, Drained
<1>10. TicketInv'
  BY <1>1, <1>3, <1>8 DEF TicketInv, CommitInv, DrainInv
<1>11. FullSlots'
  <2> SUFFICES ASSUME NEW i \in head_i .. tail_i - 1, Committed(i)
               PROVE  /\ val'[Slot(i)] \in Elements
                      /\ key'[Slot(i)] = KeyOf(val'[Slot(i)])
                      /\ \/ busy'[Slot(i)] = 0
                         \/ i = head_i /\ \E c \in Consumers : pc'[c] = "pop_advance"
    BY <1>3, <1>9 DEF FullSlots, Slot
  <2>1. i # tail_i
    BY <1>3
  <2>2. QED BY <1>1, <1>3, <1>6, <2>1, TouchOthers
<1>12. EmptySlots'
  <2> SUFFICES ASSUME NEW i \in tail_i .. head_i + Capacity - 1, Drained(i)
               PROVE  /\ val'[Slot(i)] = NoValue
                      /\ key'[Slot(i)] = NoKey
                      /\ \/ busy'[Slot(i)] = 0
                         \/ i = tail_i /\ \E q \in Producers : pc'[q] = "push_advance"
    BY <1>3, <1>9 DEF EmptySlots, Slot
  <2>1. CASE i = tail_i
    BY <1>1, <1>3, <2>1 DEF SlotsInv, EmptySlots
  <2>2. CASE i # tail_i
    BY <1>1, <1>3, <1>6, <2>2, TouchOthers
  <2>3. QED BY <2>1, <2>2
<1>13. CommitSlots'
  <2> SUFFICES ASSUME NEW q \in Producers, Commits(q)
               PROVE  busy'[Slot(at[q])] = 1
    BY <1>1, <1>3, <1>8 DEF SlotsInv, CommitSlots, Slot
  <2>1. Slot(at[q]) \in SlotIndex /\ busy[Slot(at[q])] = 1
    BY <1>1, Places DEF SlotsInv, CommitSlots
  <2>2. QED BY <1>7, <2>1
<1>14. DrainSlots'
  <2> SUFFICES ASSUME NEW c \in Consumers, Drains(c)
               PROVE  busy'[Slot(at[c])] = 1
    BY <1>1, <1>3, <1>8 DEF SlotsInv, DrainSlots, Slot
  <2>1. Slot(at[c]) \in SlotIndex /\ busy[Slot(at[c])] = 1
    BY <1>1, Places DEF SlotsInv, DrainSlots
  <2>2. QED BY <1>7, <2>1
<1>15. CheckInv'
  <2>1. PushCheck(p)'
    BY <1>3, <1>4, <1>7, <1>9 DEF PushCheck, Slot
  <2>2. ASSUME NEW q \in Producers, q # p PROVE PushCheck(q)'
    BY <1>3, <2>2 DEF PushCheck, HoldsTail, Probing
  <2>3. ASSUME NEW c \in Consumers PROVE PopCheck(c)'
    <3>1. Slot(head_i) \in SlotIndex
      BY <1>3, SlotFacts
    <3>2. Committed(head_i)' <=> Committed(head_i)
      BY <1>3, <1>9 DEF Committed
    <3>3. QED BY <1>1, <1>3, <1>7, <3>1, <3>2 DEF CheckInv, PopCheck, Slot
  <2>4. QED BY <2>1, <2>2, <2>3 DEF CheckInv
<1>16. QED
  BY <1>10, <1>11, <1>12, <1>13, <1>14, <1>15 DEF RingInv, SlotsInv

LEMMA PushAdvanceStep ==
  ASSUME Inv, NEW p \in Producers, PushAdvance(p)
  PROVE  RingInv'
<1>1. TypeOK /\ LockInv /\ TicketInv /\ SlotsInv /\ CheckInv
  BY DEF Inv, RingInv, TypeInv
<1>2. Producers \cap Consumers = {} /\ Capacity \in Nat \ {0}
  BY RingQueueAssumption
<1>3. /\ pc[p] = "push_advance" /\ pc'[p] = "push_construct" /\ at[p] = tail_i
      /\ \A q \in Producers : q # p => pc'[q] = pc[q] /\ pc[q] \notin HoldsTail
      /\ \A c \in Consumers : pc'[c] = pc[c]
      /\ UNCHANGED <<key, val, busy, head_i, at, elem, ret, got>>
      /\ tail_i' = tail_i + 1
      /\ head_i \in Nat /\ tail_i \in Nat
  BY <1>1, <1>2
  DEF PushAdvance, Goto, TypeOK, Threads, LockInv, HoldsTail, slots, indices, locals
<1>4. tail_i < head_i + Capacity /\ Drained(tail_i) /\ busy[Slot(tail_i)] = 1
  BY <1>1, <1>3 DEF CheckInv, PushCheck
<1>5. val[Slot(tail_i)] = NoValue /\ key[Slot(tail_i)] = NoKey
  <2>1. tail_i \in tail_i .. head_i + Capacity - 1
    BY <1>2, <1>3, <1>4
  <2>2. QED BY <1>1, <1>4, <2>1 DEF SlotsInv, EmptySlots
<1>6. /\ Commits(p)' /\ ~Commits(p)
      /\ \A q \in Producers : q # p => (Commits(q)' <=> Commits(q))
      /\ \A c \in Consumers : Drains(c)' <=> Drains(c)
  BY <1>3 DEF Commits, Drains
<1>7. \A i : /\ Committed(i)' => Committed(i) /\ i # tail_i
             /\ Committed(i) /\ i # tail_i => Committed(i)'
             /\ Drained(i)' <=> Drained(i)
  BY <1>3, <1>6 DEF Committed, Drained
<1>8. TicketInv'
  <2>1. head_i <= tail_i + 1 /\ tail_i + 1 <= head_i + Capacity
    BY <1>1, <1>2, <1>3, <1>4 DEF TicketInv
  <2>2. ASSUME NEW q \in Producers, Commits(q)' PROVE head_i <= at[q] /\ at[q] < tail_i + 1
    <3>1. CASE q = p
      BY <1>1, <1>3, <3>1 DEF TicketInv
    <3>2. CASE q # p
      BY <1>1, <1>3, <1>6, <2>2, <3>2 DEF TicketInv, CommitInv, TypeOK, Threads
    <3>3. QED BY <3>1, <3>2
  <2>3. \A q, r \in Producers : Commits(q)' /\ Commits(r)' /\ at[q] = at[r] => q = r
    BY <1>1, <1>3, <1>6 DEF TicketInv, CommitInv
  <2>4. ASSUME NEW c \in Consumers, Drains(c)
        PROVE  at[c] < head_i /\ tail_i + 1 <= at[c] + Capacity
    <3>1. at[c] \in Nat /\ tail_i <= at[c] + Capacity /\ at[c] + Capacity # tail_i /\ at[c] < head_i
      BY <1>1, <1>4, <2>4 DEF TicketInv, DrainInv, Drained, TypeOK, Threads
    <3>2. QED BY <1>2, <1>3, <3>1
  <2>5. QED
    BY <1>1, <1>3, <1>6, <2>1, <2>2, <2>3, <2>4 DEF TicketInv, CommitInv, DrainInv
<1>9. FullSlots'
  <2> SUFFICES ASSUME NEW i \in head_i .. tail_i, Committed(i)'
               PROVE  /\ val[Slot(i)] \in Elements
                      /\ key[Slot(i)] = KeyOf(val[Slot(i)])
                      /\ \/ busy[Slot(i)] = 0
                         \/ i = head_i /\ \E c \in Consumers : pc'[c] = "pop_advance"
    BY <1>3 DEF FullSlots, Slot
  <2>1. Committed(i) /\ i \in head_i .. tail_i - 1
    BY <1>3, <1>7
  <2>2. QED BY <1>1, <1>3, <2>1 DEF SlotsInv, FullSlots
<1>10. EmptySlots'
  <2> SUFFICES ASSUME NEW i \in tail_i + 1 .. head_i + Capacity - 1, Drained(i)
               PROVE  /\ val[Slot(i)] = NoValue
                      /\ key[Slot(i)] = NoKey
                      /\ busy[Slot(i)] = 0
    BY <1>3, <1>7 DEF EmptySlots, Slot
  <2>1. i \in tail_i .. head_i + Capacity - 1 /\ i # tail_i
    BY <1>2, <1>3
  <2>2. QED BY <1>1, <2>1 DEF SlotsInv, EmptySlots
<1>11. CommitSlots'
  <2> SUFFICES ASSUME NEW q \in Producers, Commits(q)'
               PROVE  /\ busy[Slot(at[q])] = 1
                      /\ val[Slot(at[q])] = IF pc'[q] = "push_construct" THEN NoValue ELSE elem[q]
                      /\ key[Slot(at[q])] = IF pc'[q] = "push_done" THEN KeyOf(elem[q]) ELSE NoKey
    BY <1>3 DEF CommitSlots, Slot
  <2>1. CASE q = p
    BY <1>3, <1>4, <1>5, <2>1
  <2>2. CASE q # p
    BY <1>1, <1>3, <1>6, <2>2 DEF SlotsInv, CommitSlots
  <2>3. QED BY <2>1, <2>2
<1>12. DrainSlots'
  BY <1>1, <1>3, <1>6 DEF SlotsInv, DrainSlots, Slot
<1>13. CheckInv'
  <2>1. ASSUME NEW q \in Producers PROVE PushCheck(q)'
    BY <1>3 DEF PushCheck, HoldsTail, Probing
  <2>2. ASSUME NEW c \in Consumers PROVE PopCheck(c)'
    <3>1. head_i < tail_i /\ Committed(head_i) => Committed(head_i)'
      BY <1>3, <1>6 DEF Committed
    <3>2. head_i < tail_i => head_i < tail_i + 1
      BY <1>3
    <3>3. QED BY <1>1, <1>3, <3>1, <3>2 DEF CheckInv, PopCheck, Slot
  <2>3. QED BY <2>1, <2>2 DEF CheckInv
<1>14. QED
  BY <1>8, <1>9, <1>10, <1>11, <1>12, <1>13 DEF RingInv, SlotsInv

(* A step of a push that owns its slot, outside the lock.                   *)
LEMMA CommitStep ==
  ASSUME Inv, NEW p \in Producers, Commits(p), Touches(at[p]),
         UNCHANGED <<head_i, tail_i, at, elem, ret, got>>,
         \A t \in Threads : t # p => pc'[t] = pc[t],
         pc'[p] \in {"idle", "push_publish", "push_done"},
         IF Commits(p)'
         THEN /\ busy'[Slot(at[p])] = 1
              /\ val'[Slot(at[p])] = elem[p]
              /\ key'[Slot(at[p])] = IF pc'[p] = "push_done" THEN KeyOf(elem[p]) ELSE NoKey
         ELSE /\ busy'[Slot(at[p])] = 0
              /\ val'[Slot(at[p])] \in Elements
              /\ key'[Slot(at[p])] = KeyOf(val'[Slot(at[p])]),
         \/ key'[Slot(at[p])] = key[Slot(at[p])]
         \/ \A c \in Consumers : ret[c] # key'[Slot(at[p])]
  PROVE  RingInv'
<1>1. TypeOK /\ LockInv /\ TicketInv /\ SlotsInv /\ CheckInv
  BY DEF Inv, RingInv, TypeInv
<1>2. Producers \cap Consumers = {} /\ Capacity \in Nat \ {0}
  BY RingQueueAssumption
<1>3. /\ \A q \in Producers : q # p => pc'[q] = pc[q] /\ (Commits(q)' <=> Commits(q))
      /\ \A c \in Consumers : pc'[c] = pc[c] /\ (Drains(c)' <=> Drains(c))
      /\ head_i \in Nat /\ tail_i \in Nat
      /\ pc[p] \notin HoldsTail /\ pc'[p] # "push_advance" /\ pc[p] # "push_advance"
  BY <1>1, <1>2 DEF Commits, Drains, TypeOK, Threads, HoldsTail, Probing
<1>4. /\ at[p] \in head_i .. tail_i - 1 /\ at[p] \in Window
      /\ \A q \in Producers : Commits(q) /\ q # p => at[q] # at[p]
  BY <1>1, Places DEF TicketInv, CommitInv
<1>5. \A i : /\ Committed(i) => Committed(i)' /\ i # at[p]
             /\ Committed(i)' /\ i # at[p] => Committed(i)
             /\ Drained(i)' <=> Drained(i)
  BY <1>3 DEF Committed, Drained
<1>6. TicketInv'
  BY <1>1, <1>3 DEF TicketInv, CommitInv, DrainInv
<1>7. FullSlots'
  <2> SUFFICES ASSUME NEW i \in head_i .. tail_i - 1, Committed(i)'
               PROVE  /\ val'[Slot(i)] \in Elements
                      /\ key'[Slot(i)] = KeyOf(val'[Slot(i)])
                      /\ \/ busy'[Slot(i)] = 0
                         \/ i = head_i /\ \E c \in Consumers : pc'[c] = "pop_advance"
    BY DEF FullSlots, Slot
  <2>1. CASE i = at[p]
    <3>1. ~Commits(p)'
      BY <2>1 DEF Committed
    <3>2. QED BY <2>1, <3>1
  <2>2. CASE i # at[p]
    BY <1>1, <1>3, <1>5, <2>2, TouchOthers
  <2>3. QED BY <2>1, <2>2
<1>8. EmptySlots'
  <2> SUFFICES ASSUME NEW i \in tail_i .. head_i + Capacity - 1, Drained(i)
               PROVE  /\ val'[Slot(i)] = NoValue
                      /\ key'[Slot(i)] = NoKey
                      /\ \/ busy'[Slot(i)] = 0
                         \/ i = tail_i /\ \E q \in Producers : pc'[q] = "push_advance"
    BY <1>5 DEF EmptySlots, Slot
  <2>1. i # at[p]
    BY <1>3, <1>4
  <2>2. \A q \in Producers : pc[q] = "push_advance" => pc'[q] = "push_advance"
    BY <1>3
  <2>3. QED BY <1>1, <2>1, <2>2, TouchOthers
<1>9. CommitSlots'
  <2> SUFFICES ASSUME NEW q \in Producers, Commits(q)'
               PROVE  /\ busy'[Slot(at[q])] = 1
                      /\ val'[Slot(at[q])] = IF pc'[q] = "push_construct" THEN NoValue ELSE elem[q]
                      /\ key'[Slot(at[q])] = IF pc'[q] = "push_done" THEN KeyOf(elem[q]) ELSE NoKey
    BY DEF CommitSlots, Slot
  <2>1. CASE q = p
    BY <2>1
  <2>2. CASE q # p
    BY <1>1, <1>3, <1>4, <2>2, TouchOthers
  <2>3. QED BY <2>1, <2>2
<1>10. DrainSlots'
  <2> SUFFICES ASSUME NEW c \in Consumers, Drains(c)
               PROVE  /\ busy'[Slot(at[c])] = 1
                      /\ val'[Slot(at[c])] = val[Slot(at[c])]
                      /\ key'[Slot(at[c])] = IF pc[c] = "pop_done" THEN NoKey ELSE ret[c]
    BY <1>1, <1>3 DEF SlotsInv, DrainSlots, Slot
  <2>1. at[c] + Capacity # at[p]
    BY <1>1, <1>3, <1>4, Places
  <2>2. QED BY <1>1, <2>1, TouchOthers
<1>11. CheckInv'
  <2>1. ASSUME NEW q \in Producers PROVE PushCheck(q)'
    <3>1. CASE q = p
      BY <3>1 DEF PushCheck
    <3>2. CASE q # p /\ tail_i < head_i + Capacity
      <4>1. tail_i \in Window /\ tail_i # at[p]
        BY <1>1, <1>2, <1>3, <1>4, <3>2 DEF Window, TicketInv
      <4>2. busy'[Slot(tail_i)] = busy[Slot(tail_i)]
        BY <4>1 DEF Touches
      <4>3. QED BY <1>1, <1>3, <1>5, <3>2, <4>2 DEF CheckInv, PushCheck, Slot
    <3>3. CASE q # p /\ ~(tail_i < head_i + Capacity)
      BY <1>1, <1>3, <3>3 DEF CheckInv, PushCheck
    <3>4. QED BY <3>1, <3>2, <3>3
  <2>2. ASSUME NEW c \in Consumers PROVE PopCheck(c)'
    <3>1. PopCheck(c)
      BY <1>1 DEF CheckInv
    <3>2. CASE at[p] = head_i
      <4>1. ~Committed(head_i)
        BY <3>2 DEF Committed
      <4>2. key'[Slot(head_i)] = key[Slot(head_i)] \/ ret[c] # key'[Slot(head_i)]
        BY <3>2
      <4>3. QED BY <1>3, <3>1, <4>1, <4>2 DEF PopCheck, Slot
    <3>3. CASE at[p] # head_i
      <4>1. head_i \in Window
        BY <1>2, <1>3 DEF Window
      <4>2. key'[Slot(head_i)] = key[Slot(head_i)] /\ busy'[Slot(head_i)] = busy[Slot(head_i)]
        BY <3>3, <4>1 DEF Touches
      <4>3. QED BY <1>3, <1>5, <3>1, <4>2 DEF PopCheck, Slot
    <3>4. QED BY <3>2, <3>3
  <2>3. QED BY <2>1, <2>2 DEF CheckInv
<1>12. QED
  BY <1>6, <1>7, <1>8, <1>9, <1>10, <1>11 DEF RingInv, SlotsInv

LEMMA PushCommitSteps ==
  ASSUME Inv, NEW p \in Producers, PushConstruct(p) \/ PushPublish(p) \/ PushDone(p)
  PROVE  RingInv'
<1>1. TypeOK /\ TicketInv /\ SlotsInv /\ FreshInv
  BY DEF Inv, RingInv, TypeInv
<1>2. /\ Commits(p) /\ elem[p] \in Elements
      /\ UNCHANGED <<head_i, tail_i, at, elem, ret, got>>
      /\ \A t \in Threads : t # p => pc'[t] = pc[t]
  BY <1>1, RingQueueAssumption
  DEF PushConstruct, PushPublish, PushDone, Commits, Goto, TypeOK, Threads, Inv, TypeInv,
      Elements, indices, locals
<1>3. at[p] \in Window /\ Slot(at[p]) \in SlotIndex
  BY <1>1, <1>2, Places
<1>4. /\ busy[Slot(at[p])] = 1
      /\ val[Slot(at[p])] = IF pc[p] = "push_construct" THEN NoValue ELSE elem[p]
      /\ key[Slot(at[p])] = IF pc[p] = "push_done" THEN KeyOf(elem[p]) ELSE NoKey
  BY <1>1, <1>2 DEF SlotsInv, CommitSlots
<1>5. p \in Threads
  BY DEF Threads
<1>6. CASE PushConstruct(p)
  <2>1. /\ pc[p] = "push_construct" /\ pc'[p] = "push_publish" /\ UNCHANGED <<key, busy>>
        /\ val'[Slot(at[p])] = elem[p]
        /\ \A s \in SlotIndex : s # Slot(at[p]) => val'[s] = val[s]
    BY <1>1, <1>3, <1>5, <1>6 DEF PushConstruct, Goto, TypeOK
  <2>2. Touches(at[p])
    BY <1>1, <1>3, <2>1, StoreTouches
  <2>3. Commits(p)'
    BY <2>1 DEF Commits
  <2>4. QED BY <1>2, <1>4, <2>1, <2>2, <2>3, CommitStep
<1>7. CASE PushPublish(p)
  <2>1. /\ pc[p] = "push_publish" /\ pc'[p] = "push_done" /\ UNCHANGED <<val, busy>>
        /\ key'[Slot(at[p])] = KeyOf(elem[p])
        /\ \A s \in SlotIndex : s # Slot(at[p]) => key'[s] = key[s]
    BY <1>1, <1>3, <1>5, <1>7 DEF PushPublish, Goto, TypeOK
  <2>2. Touches(at[p])
    BY <1>1, <1>3, <2>1, StoreTouches
  <2>3. Commits(p)'
    BY <2>1 DEF Commits
  <2>4. \A c \in Consumers : ret[c] # KeyOf(elem[p])
    BY <1>1, <2>1 DEF FreshInv, Unpublished, Unread
  <2>5. QED BY <1>2, <1>4, <2>1, <2>2, <2>3, <2>4, CommitStep
<1>8. CASE PushDone(p)
  <2>1. /\ pc[p] = "push_done" /\ pc'[p] = "idle" /\ UNCHANGED <<key, val>>
        /\ busy'[Slot(at[p])] = 0
        /\ \A s \in SlotIndex : s # Slot(at[p]) => busy'[s] = busy[s]
    BY <1>1, <1>3, <1>5, <1>8 DEF PushDone, Goto, TypeOK
  <2>2. Touches(at[p])
    BY <1>1, <1>3, <2>1, StoreTouches
  <2>3. ~Commits(p)'
    BY <2>1 DEF Commits
  <2>4. QED BY <1>2, <1>4, <2>1, <2>2, <2>3, CommitStep
<1>9. QED
  BY <1>6, <1>7, <1>8

LEMMA PopClaimStep ==
  ASSUME Inv, NEW c \in Consumers, PopClaim(c)
  PROVE  RingInv'
<1>1. TypeOK /\ LockInv /\ TicketInv /\ SlotsInv /\ CheckInv
  BY DEF Inv, RingInv, TypeInv
<1>2. Producers \cap Consumers = {} /\ Capacity \in Nat \ {0}
  BY RingQueueAssumption
<1>3. /\ pc[c] = "pop_claim" /\ pc'[c] = "pop_advance" /\ at[c] = head_i
      /\ \A d \in Consumers : d # c => pc'[d] = pc[d] /\ pc[d] \notin HoldsHead
      /\ \A q \in Producers : pc'[q] = pc[q]
      /\ UNCHANGED <<key, val, head_i, tail_i, at, elem, ret, got>>
      /\ busy' = [busy EXCEPT ![Slot(head_i)] = 1]
      /\ head_i \in Nat /\ tail_i \in Nat
  <2>1. /\ pc[c] = "pop_claim" /\ pc[c] \in HoldsHead /\ c \in Threads
        /\ UNCHANGED <<key, val, head_i, tail_i, at, elem, ret, got>>
    BY DEF PopClaim, HoldsHead, Threads, indices, locals
  <2>2. at[c] = head_i /\ \A d \in Consumers : d # c => pc[d] \notin HoldsHead
    BY <1>1, <2>1 DEF LockInv
  <2>3. pc' = [pc EXCEPT ![c] = "pop_advance"] /\ busy' = [busy EXCEPT ![Slot(head_i)] = 1]
    BY <2>2 DEF PopClaim, Goto
  <2>4. QED BY <1>1, <1>2, <2>1, <2>2, <2>3 DEF TypeOK, Threads
<1>4. head_i < tail_i /\ Committed(head_i) /\ key[Slot(head_i)] = ret[c] /\ ret[c] # NoKey
  BY <1>1, <1>3 DEF CheckInv, PopCheck
<1>5. head_i \in Window /\ head_i \in head_i .. tail_i - 1 /\ Slot(head_i) \in SlotIndex
  BY <1>1, <1>2, <1>3, <1>4, Places
<1>6. Touches(head_i)
  BY <1>1, <1>3, <1>5, StoreTouches DEF TypeOK
<1>7. busy'[Slot(head_i)] = 1 /\ \A s \in SlotIndex : busy[s] = 1 => busy'[s] = 1
  BY <1>1, <1>3, <1>5 DEF TypeOK
<1>8. /\ \A q \in Producers : Commits(q)' <=> Commits(q)
      /\ \A d \in Consumers : (Drains(d)' <=> Drains(d)) /\ (Drains(d) => pc'[d] = pc[d])
  BY <1>3 DEF Commits, Drains
<1>9. \A i : (Committed(i)' <=> Committed(i)) /\ (Drained(i)' <=> Drained(i))
  BY <1>3, <1>8 DEF Committed, Drained
<1>10. TicketInv'
  BY <1>1, <1>3, <1>8 DEF TicketInv, CommitInv, DrainInv
<1>11. FullSlots'
  <2> SUFFICES ASSUME NEW i \in head_i .. tail_i - 1, Committed(i)
               PROVE  /\ val'[Slot(i)] \in Elements
                      /\ key'[Slot(i)] = KeyOf(val'[Slot(i)])
                      /\ \/ busy'[Slot(i)] = 0
                         \/ i = head_i /\ \E d \in Consumers : pc'[d] = "pop_advance"
    BY <1>3, <1>9 DEF FullSlots, Slot
  <2>1. CASE i = head_i
    BY <1>1, <1>3, <2>1 DEF SlotsInv, FullSlots
  <2>2. CASE i # head_i
    BY <1>1, <1>6, <2>2, TouchOthers
  <2>3. QED BY <2>1, <2>2
<1>12. EmptySlots'
  <2> SUFFICES ASSUME NEW i \in tail_i .. head_i + Capacity - 1, Drained(i)
               PROVE  /\ val'[Slot(i)] = NoValue
                      /\ key'[Slot(i)] = NoKey
                      /\ \/ busy'[Slot(i)] = 0
                         \/ i = tail_i /\ \E q \in Producers : pc'[q] = "push_advance"
    BY <1>3, <1>9 DEF EmptySlots, Slot
  <2>1. i # head_i
    BY <1>3, <1>4
  <2>2. QED BY <1>1, <1>3, <1>6, <2>1, TouchOthers
<1>13. CommitSlots'
  <2> SUFFICES ASSUME NEW q \in Producers, Commits(q)
               PROVE  busy'[Slot(at[q])] = 1
    BY <1>1, <1>3, <1>8 DEF SlotsInv, CommitSlots, Slot
  <2>1. Slot(at[q]) \in SlotIndex /\ busy[Slot(at[q])] = 1
    BY <1>1, Places DEF SlotsInv, CommitSlots
  <2>2. QED BY <1>7, <2>1
<1>14. DrainSlots'
  <2> SUFFICES ASSUME NEW d \in Consumers, Drains(d)
               PROVE  busy'[Slot(at[d])] = 1
    BY <1>1, <1>3, <1>8 DEF SlotsInv, DrainSlots, Slot
  <2>1. Slot(at[d]) \in SlotIndex /\ busy[Slot(at[d])] = 1
    BY <1>1, Places DEF SlotsInv, DrainSlots
  <2>2. QED BY <1>7, <2>1
<1>15. CheckInv'
  <2>1. PopCheck(c)'
    BY <1>3, <1>4, <1>7, <1>9 DEF PopCheck, Slot
  <2>2. ASSUME NEW d \in Consumers, d # c PROVE PopCheck(d)'
    BY <1>3, <2>2 DEF PopCheck, HoldsHead
  <2>3. ASSUME NEW q \in Producers PROVE PushCheck(q)'
    <3>1. Slot(tail_i) \in SlotIndex
      BY <1>3, SlotFacts
    <3>2. Drained(tail_i)' <=> Drained(tail_i)
      BY <1>3, <1>9 DEF Drained
    <3>3. QED BY <1>1, <1>3, <1>7, <3>1, <3>2 DEF CheckInv, PushCheck, Slot
  <2>4. QED BY <2>1, <2>2, <2>3 DEF CheckInv
<1>16. QED
  BY <1>10, <1>11, <1>12, <1>13, <1>14, <1>15 DEF RingInv, SlotsInv

LEMMA PopAdvanceStep ==
  ASSUME Inv, NEW c \in Consumers, PopAdvance(c)
  PROVE  RingInv'
<1>1. TypeOK /\ LockInv /\ TicketInv /\ SlotsInv /\ CheckInv
  BY DEF Inv, RingInv, TypeInv
<1>2. Producers \cap Consumers = {} /\ Capacity \in Nat \ {0}
  BY RingQueueAssumption
<1>3. /\ pc[c] = "pop_advance" /\ pc'[c] = "pop_take" /\ at[c] = head_i
      /\ \A d \in Consumers : d # c => pc'[d] = pc[d] /\ pc[d] \notin HoldsHead
      /\ \A q \in Producers : pc'[q] = pc[q]
      /\ UNCHANGED <<key, val, busy, tail_i, at, elem, ret, got>>
      /\ head_i' = head_i + 1
      /\ head_i \in Nat /\ tail_i \in Nat
  BY <1>1, <1>2
  DEF PopAdvance, Goto, TypeOK, Threads, LockInv, HoldsHead, slots, locals
<1>4. /\ head_i < tail_i /\ Committed(head_i) /\ key[Slot(head_i)] = ret[c] /\ ret[c] # NoKey
      /\ busy[Slot(head_i)] = 1
  BY <1>1, <1>3 DEF CheckInv, PopCheck
<1>5. val[Slot(head_i)] \in Elements /\ ret[c] = KeyOf(val[Slot(head_i)])
  <2>1. head_i \in head_i .. tail_i - 1
    BY <1>3, <1>4
  <2>2. QED BY <1>1, <1>4, <2>1 DEF SlotsInv, FullSlots
<1>6. /\ Drains(c)' /\ ~Drains(c)
      /\ \A d \in Consumers : d # c => (Drains(d)' <=> Drains(d))
      /\ \A q \in Producers : Commits(q)' <=> Commits(q)
  BY <1>3 DEF Commits, Drains
<1>7. \A i : /\ Drained(i)' => Drained(i) /\ i # head_i + Capacity
             /\ Drained(i) /\ i # head_i + Capacity => Drained(i)'
             /\ Committed(i)' <=> Committed(i)
  BY <1>3, <1>6 DEF Committed, Drained
<1>8. TicketInv'
  <2>1. head_i + 1 <= tail_i /\ tail_i <= head_i + 1 + Capacity
    BY <1>1, <1>2, <1>3, <1>4 DEF TicketInv
  <2>2. ASSUME NEW q \in Producers, Commits(q) PROVE head_i + 1 <= at[q] /\ at[q] < tail_i
    <3>1. at[q] \in Nat /\ head_i <= at[q] /\ at[q] # head_i /\ at[q] < tail_i
      BY <1>1, <1>4, <2>2 DEF TicketInv, CommitInv, Committed, TypeOK, Threads
    <3>2. QED BY <1>3, <3>1
  <2>3. ASSUME NEW d \in Consumers, Drains(d)'
        PROVE  at[d] < head_i + 1 /\ tail_i <= at[d] + Capacity
    <3>1. CASE d = c
      BY <1>1, <1>3, <3>1 DEF TicketInv
    <3>2. CASE d # c
      BY <1>1, <1>3, <1>6, <2>3, <3>2 DEF TicketInv, DrainInv, TypeOK, Threads
    <3>3. QED BY <3>1, <3>2
  <2>4. ASSUME NEW d \in Consumers, NEW e \in Consumers, Drains(d)', Drains(e)', at[d] = at[e]
        PROVE  d = e
    <3>1. \A f \in Consumers : Drains(f) => at[f] < head_i
      BY <1>1 DEF TicketInv, DrainInv
    <3>2. QED BY <1>1, <1>3, <1>6, <2>4, <3>1 DEF TicketInv, DrainInv
  <2>5. QED
    BY <1>1, <1>3, <1>6, <2>1, <2>2, <2>3, <2>4 DEF TicketInv, CommitInv, DrainInv
<1>9. FullSlots'
  <2> SUFFICES ASSUME NEW i \in head_i + 1 .. tail_i - 1, Committed(i)
               PROVE  /\ val[Slot(i)] \in Elements
                      /\ key[Slot(i)] = KeyOf(val[Slot(i)])
                      /\ busy[Slot(i)] = 0
    BY <1>3, <1>7 DEF FullSlots, Slot
  <2>1. i \in head_i .. tail_i - 1 /\ i # head_i
    BY <1>3
  <2>2. QED BY <1>1, <2>1 DEF SlotsInv, FullSlots
<1>10. EmptySlots'
  <2> SUFFICES ASSUME NEW i \in tail_i .. head_i + 1 + Capacity - 1, Drained(i)'
               PROVE  /\ val[Slot(i)] = NoValue
                      /\ key[Slot(i)] = NoKey
                      /\ \/ busy[Slot(i)] = 0
                         \/ i = tail_i /\ \E q \in Producers : pc'[q] = "push_advance"
    BY <1>3 DEF EmptySlots, Slot
  <2>1. Drained(i) /\ i \in tail_i .. head_i + Capacity - 1
    BY <1>2, <1>3, <1>7
  <2>2. QED BY <1>1, <1>3, <2>1 DEF SlotsInv, EmptySlots
<1>11. CommitSlots'
  BY <1>1, <1>3, <1>6 DEF SlotsInv, CommitSlots, Slot
<1>12. DrainSlots'
  <2> SUFFICES ASSUME NEW d \in Consumers, Drains(d)'
               PROVE  /\ busy[Slot(at[d])] = 1
                      /\ ret[d] # NoKey
                      /\ pc'[d] = "pop_take" =>
                           val[Slot(at[d])] \in Elements /\ ret[d] = KeyOf(val[Slot(at[d])])
                      /\ pc'[d] # "pop_take" =>
                           /\ val[Slot(at[d])] = NoValue
                           /\ got[d] \in Elements /\ ret[d] = KeyOf(got[d])
                      /\ key[Slot(at[d])] = IF pc'[d] = "pop_done" THEN NoKey ELSE ret[d]
    BY <1>3 DEF DrainSlots, Slot
  <2>1. CASE d = c
    BY <1>3, <1>4, <1>5, <2>1
  <2>2. CASE d # c
    BY <1>1, <1>3, <1>6, <2>2 DEF SlotsInv, DrainSlots
  <2>3. QED BY <2>1, <2>2
<1>13. CheckInv'
  <2>1. ASSUME NEW d \in Consumers PROVE PopCheck(d)'
    BY <1>3 DEF PopCheck, HoldsHead
  <2>2. ASSUME NEW q \in Producers PROVE PushCheck(q)'
    <3>1. tail_i < head_i + Capacity /\ Drained(tail_i) => Drained(tail_i)'
      BY <1>3, <1>6 DEF Drained
    <3>2. tail_i < head_i + Capacity => tail_i < head_i + 1 + Capacity
      BY <1>2, <1>3
    <3>3. QED BY <1>1, <1>3, <3>1, <3>2 DEF CheckInv, PushCheck, Slot
  <2>3. QED BY <2>1, <2>2 DEF CheckInv
<1>14. QED
  BY <1>8, <1>9, <1>10, <1>11, <1>12, <1>13 DEF RingInv, SlotsInv

(* A step of a pop that owns its slot, outside the lock.                    *)
LEMMA DrainStep ==
  ASSUME Inv, NEW c \in Consumers, Drains(c), Touches(at[c] + Capacity),
         UNCHANGED <<head_i, tail_i, at, elem, ret>>,
         \A d \in Consumers : d # c => got'[d] = got[d],
         \A t \in Threads : t # c => pc'[t] = pc[t],
         pc'[c] \in {"idle", "pop_clear", "pop_done"},
         val'[Slot(at[c])] = NoValue,
         IF Drains(c)'
         THEN /\ busy'[Slot(at[c])] = 1
              /\ got'[c] \in Elements /\ ret[c] = KeyOf(got'[c])
              /\ key'[Slot(at[c])] = IF pc'[c] = "pop_done" THEN NoKey ELSE ret[c]
         ELSE /\ busy'[Slot(at[c])] = 0
              /\ key'[Slot(at[c])] = NoKey,
         key'[Slot(at[c])] \in {key[Slot(at[c])], NoKey}
  PROVE  RingInv'
<1>1. TypeOK /\ LockInv /\ TicketInv /\ SlotsInv /\ CheckInv
  BY DEF Inv, RingInv, TypeInv
<1>2. Producers \cap Consumers = {} /\ Capacity \in Nat \ {0}
  BY RingQueueAssumption
<1>3. /\ \A d \in Consumers : d # c => pc'[d] = pc[d] /\ (Drains(d)' <=> Drains(d))
      /\ \A q \in Producers : pc'[q] = pc[q] /\ (Commits(q)' <=> Commits(q))
      /\ head_i \in Nat /\ tail_i \in Nat
      /\ pc[c] \notin HoldsHead /\ pc'[c] # "pop_advance" /\ pc[c] # "pop_advance"
  BY <1>1, <1>2 DEF Commits, Drains, TypeOK, Threads, HoldsHead
<1> DEFINE x == at[c] + Capacity
<1>4. /\ x \in tail_i .. head_i + Capacity - 1 /\ x \in Window /\ Slot(x) = Slot(at[c])
      /\ \A d \in Consumers : Drains(d) /\ d # c => at[d] + Capacity # x
  <2>1. \A d \in Consumers : at[d] \in Nat
    BY <1>1 DEF TypeOK, Threads
  <2>2. QED BY <1>1, <1>2, <2>1, Places DEF TicketInv, DrainInv
<1>5. \A i : /\ Drained(i) => Drained(i)' /\ i # x
             /\ Drained(i)' /\ i # x => Drained(i)
             /\ Committed(i)' <=> Committed(i)
  BY <1>3 DEF Committed, Drained
<1> HIDE DEF x
<1>6. TicketInv'
  BY <1>1, <1>3 DEF TicketInv, CommitInv, DrainInv
<1>7. Touches(x)
  BY DEF x
<1>8. FullSlots'
  <2> SUFFICES ASSUME NEW i \in head_i .. tail_i - 1, Committed(i)
               PROVE  /\ val'[Slot(i)] \in Elements
                      /\ key'[Slot(i)] = KeyOf(val'[Slot(i)])
                      /\ \/ busy'[Slot(i)] = 0
                         \/ i = head_i /\ \E d \in Consumers : pc'[d] = "pop_advance"
    BY <1>5 DEF FullSlots, Slot
  <2>1. i # x
    BY <1>3, <1>4
  <2>2. \A d \in Consumers : pc[d] = "pop_advance" => pc'[d] = "pop_advance"
    BY <1>3
  <2>3. QED BY <1>1, <1>7, <2>1, <2>2, TouchOthers
<1>9. EmptySlots'
  <2> SUFFICES ASSUME NEW i \in tail_i .. head_i + Capacity - 1, Drained(i)'
               PROVE  /\ val'[Slot(i)] = NoValue
                      /\ key'[Slot(i)] = NoKey
                      /\ \/ busy'[Slot(i)] = 0
                         \/ i = tail_i /\ \E q \in Producers : pc'[q] = "push_advance"
    BY DEF EmptySlots, Slot
  <2>1. CASE i = x
    <3>1. ~Drains(c)'
      BY <2>1 DEF Drained, x
    <3>2. QED BY <1>4, <2>1, <3>1
  <2>2. CASE i # x
    BY <1>1, <1>3, <1>5, <1>7, <2>2, TouchOthers
  <2>3. QED BY <2>1, <2>2
<1>10. CommitSlots'
  <2> SUFFICES ASSUME NEW q \in Producers, Commits(q)
               PROVE  /\ busy'[Slot(at[q])] = 1
                      /\ val'[Slot(at[q])] = IF pc[q] = "push_construct" THEN NoValue ELSE elem[q]
                      /\ key'[Slot(at[q])] = IF pc[q] = "push_done" THEN KeyOf(elem[q]) ELSE NoKey
    BY <1>3 DEF CommitSlots, Slot
  <2>1. at[q] # x
    BY <1>1, <1>3, <1>4, Places
  <2>2. QED BY <1>1, <1>7, <2>1, TouchOthers
<1>11. DrainSlots'
  <2> SUFFICES ASSUME NEW d \in Consumers, Drains(d)'
               PROVE  /\ busy'[Slot(at[d])] = 1
                      /\ ret[d] # NoKey
                      /\ pc'[d] = "pop_take" =>
                           val'[Slot(at[d])] \in Elements /\ ret[d] = KeyOf(val'[Slot(at[d])])
                      /\ pc'[d] # "pop_take" =>
                           /\ val'[Slot(at[d])] = NoValue
                           /\ got'[d] \in Elements /\ ret[d] = KeyOf(got'[d])
                      /\ key'[Slot(at[d])] = IF pc'[d] = "pop_done" THEN NoKey ELSE ret[d]
    BY DEF DrainSlots, Slot
  <2>1. CASE d = c
    BY <1>1, <2>1 DEF SlotsInv, DrainSlots
  <2>2. CASE d # c
    <3>1. Drains(d) /\ at[d] + Capacity # x /\ pc'[d] = pc[d] /\ got'[d] = got[d]
      BY <1>3, <1>4, <2>2
    <3>2. /\ busy'[Slot(at[d])] = 1 /\ val'[Slot(at[d])] = val[Slot(at[d])]
          /\ key'[Slot(at[d])] = IF pc[d] = "pop_done" THEN NoKey ELSE ret[d]
      BY <1>1, <1>7, <3>1, TouchOthers
    <3>3. QED BY <1>1, <3>1, <3>2 DEF SlotsInv, DrainSlots
  <2>3. QED BY <2>1, <2>2
<1>12. CheckInv'
  <2>1. ASSUME NEW d \in Consumers PROVE PopCheck(d)'
    <3>1. PopCheck(d)
      BY <1>1 DEF CheckInv
    <3>2. CASE d = c
      BY <3>2 DEF PopCheck
    <3>3. CASE d # c /\ x = head_i
      <4>1. ~(head_i < tail_i) /\ key'[Slot(head_i)] \in {key[Slot(head_i)], NoKey}
        BY <1>3, <1>4, <3>3
      <4>2. QED BY <1>3, <3>1, <3>3, <4>1 DEF PopCheck, Slot
    <3>4. CASE d # c /\ x # head_i
      <4>1. head_i \in Window
        BY <1>2, <1>3 DEF Window
      <4>2. key'[Slot(head_i)] = key[Slot(head_i)] /\ busy'[Slot(head_i)] = busy[Slot(head_i)]
        BY <1>7, <3>4, <4>1 DEF Touches
      <4>3. QED BY <1>3, <1>5, <3>1, <3>4, <4>2 DEF PopCheck, Slot
    <3>5. QED BY <3>2, <3>3, <3>4
  <2>2. ASSUME NEW q \in Producers PROVE PushCheck(q)'
    <3>1. PushCheck(q)
      BY <1>1 DEF CheckInv
    <3>2. CASE x = tail_i
      <4>1. ~Drained(tail_i)
        BY <1>5, <3>2
      <4>2. QED BY <1>3, <3>1, <4>1 DEF PushCheck
    <3>3. CASE x # tail_i /\ tail_i < head_i + Capacity
      <4>1. tail_i \in Window
        BY <1>1, <1>2, <1>3, <3>3 DEF Window, TicketInv
      <4>2. busy'[Slot(tail_i)] = busy[Slot(tail_i)]
        BY <1>7, <3>3, <4>1 DEF Touches
      <4>3. QED BY <1>3, <1>5, <3>1, <4>2 DEF PushCheck, Slot
    <3>4. CASE ~(tail_i < head_i + Capacity)
      BY <1>3, <3>1, <3>4 DEF PushCheck
    <3>5. QED BY <3>2, <3>3, <3>4
  <2>3. QED BY <2>1, <2>2 DEF CheckInv
<1>13. QED
  BY <1>6, <1>8, <1>9, <1>10, <1>11, <1>12 DEF RingInv, SlotsInv

LEMMA PopDrainSteps ==
  ASSUME Inv, NEW c \in Consumers, PopTake(c) \/ PopClear(c) \/ PopDone(c)
  PROVE  RingInv'
<1>1. TypeOK /\ TicketInv /\ SlotsInv
  BY DEF Inv, RingInv, TypeInv
<1>2. /\ Drains(c)
      /\ UNCHANGED <<head_i, tail_i, at, elem, ret>>
      /\ \A d \in Consumers : d # c => got'[d] = got[d]
      /\ \A t \in Threads : t # c => pc'[t] = pc[t]
  BY <1>1
  DEF PopTake, PopClear, PopDone, Drains, Goto, TypeOK, Threads, indices, locals
<1>3. at[c] + Capacity \in Window /\ Slot(at[c] + Capacity) = Slot(at[c])
      /\ Slot(at[c]) \in SlotIndex
  BY <1>1, <1>2, Places
<1>4. /\ busy[Slot(at[c])] = 1
      /\ pc[c] = "pop_take" =>
           val[Slot(at[c])] \in Elements /\ ret[c] = KeyOf(val[Slot(at[c])])
      /\ pc[c] # "pop_take" =>
           val[Slot(at[c])] = NoValue /\ got[c] \in Elements /\ ret[c] = KeyOf(got[c])
      /\ key[Slot(at[c])] = IF pc[c] = "pop_done" THEN NoKey ELSE ret[c]
  BY <1>1, <1>2 DEF SlotsInv, DrainSlots
<1>5. c \in Threads
  BY DEF Threads
<1>6. CASE PopTake(c)
  <2>1. /\ pc[c] = "pop_take" /\ pc'[c] = "pop_clear" /\ UNCHANGED <<key, busy>>
        /\ val'[Slot(at[c])] = NoValue /\ got'[c] = val[Slot(at[c])]
        /\ \A s \in SlotIndex : s # Slot(at[c]) => val'[s] = val[s]
    BY <1>1, <1>3, <1>5, <1>6 DEF PopTake, Goto, TypeOK
  <2>2. Touches(at[c] + Capacity)
    BY <1>1, <1>3, <2>1, StoreTouches
  <2>3. Drains(c)'
    BY <2>1 DEF Drains
  <2>4. QED BY <1>2, <1>4, <2>1, <2>2, <2>3, DrainStep
<1>7. CASE PopClear(c)
  <2>1. /\ pc[c] = "pop_clear" /\ pc'[c] = "pop_done" /\ UNCHANGED <<val, busy, got>>
        /\ key'[Slot(at[c])] = NoKey
        /\ \A s \in SlotIndex : s # Slot(at[c]) => key'[s] = key[s]
    BY <1>1, <1>3, <1>5, <1>7 DEF PopClear, Goto, TypeOK, locals
  <2>2. Touches(at[c] + Capacity)
    BY <1>1, <1>3, <2>1, StoreTouches
  <2>3. Drains(c)'
    BY <2>1 DEF Drains
  <2>4. QED BY <1>2, <1>4, <2>1, <2>2, <2>3, DrainStep
<1>8. CASE PopDone(c)
  <2>1. /\ pc[c] = "pop_done" /\ pc'[c] = "idle" /\ UNCHANGED <<val, key, got>>
        /\ busy'[Slot(at[c])] = 0
        /\ \A s \in SlotIndex : s # Slot(at[c]) => busy'[s] = busy[s]
    BY <1>1, <1>3, <1>5, <1>8 DEF PopDone, Goto, TypeOK, locals
  <2>2. Touches(at[c] + Capacity)
    BY <1>1, <1>3, <2>1, StoreTouches
  <2>3. ~Drains(c)'
    BY <2>1 DEF Drains
  <2>4. QED BY <1>2, <1>4, <2>1, <2>2, <2>3, DrainStep
<1>9. QED
  BY <1>6, <1>7, <1>8

LEMMA RingStep == Inv /\ NoLapping /\ [Next]_vars => RingInv'
<1> SUFFICES ASSUME Inv, NoLapping, [Next]_vars PROVE RingInv'
  OBVIOUS
<1>1. ASSUME NEW p \in Producers, PushCall(p) \/ PushStep(p) PROVE RingInv'
  BY <1>1, PushQuiet, PushClaimStep, PushAdvanceStep, PushCommitSteps DEF PushStep
<1>2. ASSUME NEW c \in Consumers, PopCall(c) \/ EmptyCall(c) \/ PopStep(c) \/ EmptyStep(c)
      PROVE  RingInv'
  BY <1>2, PopQuiet, PopClaimStep, PopAdvanceStep, PopDrainSteps DEF PopStep, EmptyStep
<1>3. CASE UNCHANGED vars
  <2>1. /\ TicketInv /\ SlotsInv /\ CheckInv /\ TypeOK
    BY DEF Inv, RingInv, TypeInv
  <2>2. Quiet /\ UNCHANGED <<pc, ret>>
    BY <1>3 DEF vars, slots, indices, locals, Quiet, Commits, Drains
  <2>3. QED BY <2>1, <2>2, QuietStep, QuietChecks DEF RingInv, CheckInv
<1>4. QED
  BY <1>1, <1>2, <1>3 DEF Next

LEMMA InvInit ==
  ASSUME DistinctKeys
  PROVE  Init => Inv
  BY TypeInit, LockInit, FreshInit, RingInit DEF Inv

LEMMA InvStep ==
  ASSUME DistinctKeys
  PROVE  Inv /\ NoLapping /\ [Next]_vars => Inv'
  BY TypeStep, LockStep, FreshStep, RingStep DEF Inv

(* With one producer no push can be lapped by another.                      *)
LEMMA SingleNoLapping ==
  ASSUME SingleProducer
  PROVE  NoLapping
  BY DEF SingleProducer, NoLapping, Commits, Probing

-----------------------------------------------------------------------------
(* What follows from the invariant                                          *)
LEMMA InvExclusive == Inv => SlotsAreExclusive
<1> SUFFICES ASSUME Inv, NEW t \in Threads, NEW u \in Threads,
                    Owns(t), Owns(u), Slot(at[t]) = Slot(at[u])
             PROVE  t = u
  BY DEF SlotsAreExclusive
<1>1. TypeOK /\ LockInv /\ TicketInv /\ SlotsInv /\ CheckInv
  BY DEF Inv, RingInv, TypeInv
<1>2. Producers \cap Consumers = {} /\ Capacity \in Nat \ {0}
      /\ head_i \in Nat /\ tail_i \in Nat
  BY <1>1, RingQueueAssumption DEF TypeOK
(* The ticket of the window each owner is on.                               *)
<1> DEFINE Claims(v) == pc[v] \in {"push_claim", "push_advance"}
           Takes(v)  == pc[v] \in {"pop_claim", "pop_advance"}
           Ticket(v) == IF Drains(v) THEN at[v] + Capacity ELSE at[v]
<1>3. ASSUME NEW v \in Threads, Owns(v)
      PROVE  /\ Ticket(v) \in Window /\ Slot(Ticket(v)) = Slot(at[v])
             /\ \/ v \in Producers /\ tail_l = v /\ Ticket(v) = tail_i /\ Drained(tail_i)
                \/ v \in Producers /\ Commits(v) /\ Ticket(v) = at[v] /\ Ticket(v) < tail_i
                \/ /\ v \in Consumers /\ head_l = v /\ Ticket(v) = head_i
                   /\ head_i < tail_i /\ Committed(head_i)
                \/ /\ v \in Consumers /\ Drains(v) /\ Ticket(v) = at[v] + Capacity
                   /\ tail_i <= Ticket(v)
  <2>1. CASE v \in Producers
    <3>1. pc[v] \in PushOwns
      BY <1>1, <1>3, <2>1 DEF Owns, TypeOK, ProducerPCs, HoldsTail, Probing, PopOwns, PushOwns
    <3>2. CASE Claims(v)
      <4>1. tail_l = v /\ at[v] = tail_i /\ tail_i < head_i + Capacity /\ Drained(tail_i)
        BY <1>1, <2>1, <3>2 DEF LockInv, HoldsTail, CheckInv, PushCheck
      <4>2. tail_i \in Window
        BY <1>1, <1>2, <4>1 DEF Window, TicketInv
      <4>3. QED BY <2>1, <3>2, <4>1, <4>2 DEF Commits, Drains
    <3>3. CASE Commits(v)
      <4>1. at[v] \in head_i .. tail_i - 1 /\ at[v] \in Window
        BY <1>1, <2>1, <3>3, Places
      <4>2. QED BY <1>2, <2>1, <3>3, <4>1 DEF Commits, Drains
    <3>4. QED BY <3>1, <3>2, <3>3 DEF PushOwns, Commits
  <2>2. CASE v \in Consumers
    <3>1. pc[v] \in PopOwns
      BY <1>1, <1>3, <2>2 DEF Owns, TypeOK, ConsumerPCs, HoldsHead, PopOwns, PushOwns
    <3>2. CASE Takes(v)
      <4>1. head_l = v /\ at[v] = head_i /\ head_i < tail_i /\ Committed(head_i)
        BY <1>1, <2>2, <3>2 DEF LockInv, HoldsHead, CheckInv, PopCheck
      <4>2. head_i \in Window
        BY <1>2 DEF Window
      <4>3. QED BY <2>2, <3>2, <4>1, <4>2 DEF Commits, Drains
    <3>3. CASE Drains(v)
      <4>1. at[v] + Capacity \in tail_i .. head_i + Capacity - 1 /\ at[v] + Capacity \in Window
            /\ Slot(at[v] + Capacity) = Slot(at[v])
        BY <1>1, <2>2, <3>3, Places
      <4>2. QED BY <1>2, <2>2, <3>3, <4>1 DEF Commits, Drains
    <3>4. QED BY <3>1, <3>2, <3>3 DEF PopOwns, Drains
  <2>3. QED BY <2>1, <2>2 DEF Threads
<1>4. Ticket(t) = Ticket(u)
  BY <1>1, <1>3, WindowSlots
<1>5. \A p, q \in Producers : Commits(p) /\ Commits(q) /\ at[p] = at[q] => p = q
  BY <1>1 DEF TicketInv, CommitInv
<1>6. \A c, d \in Consumers : Drains(c) /\ Drains(d) /\ at[c] + Capacity = at[d] + Capacity => c = d
  <2>1. \A c \in Consumers : at[c] \in Nat
    BY <1>1 DEF TypeOK, Threads
  <2>2. QED BY <1>1, <1>2, <2>1 DEF TicketInv, DrainInv
<1>7. \A v \in Threads : at[v] \in Nat
  BY <1>1 DEF TypeOK
<1>8. QED
  BY <1>2, <1>3, <1>4, <1>5, <1>6, <1>7 DEF Committed, Drained

LEMMA InvPairs == Inv => PairsStayTogether
<1> SUFFICES ASSUME Inv, NEW c \in Consumers, pc[c] \in {"pop_clear", "pop_done"}
             PROVE  got[c] # NoValue /\ ret[c] = KeyOf(got[c])
  BY DEF PairsStayTogether
<1>1. DrainSlots /\ Drains(c) /\ pc[c] # "pop_take"
  BY DEF Inv, RingInv, SlotsInv, Drains
<1>2. QED
  BY <1>1, KeyFacts DEF DrainSlots

LEMMA InvDestructor == Inv => DestructorIsSafe
<1> SUFFICES ASSUME Inv, \A t \in Threads : pc[t] = "idle"
             PROVE  /\ head_i <= tail_i /\ tail_i - head_i <= Capacity
                    /\ \A s \in SlotIndex :
                         /\ busy[s] = 0
                         /\ val[s] # NoValue <=> s \in DestructorDrains
                         /\ key[s] # NoKey <=> s \in DestructorDrains
  BY DEF DestructorIsSafe
<1>1. TypeOK /\ TicketInv /\ SlotsInv
  BY DEF Inv, RingInv, TypeInv
<1>2. Capacity \in Nat \ {0} /\ head_i \in Nat /\ tail_i \in Nat
  BY <1>1, RingQueueAssumption DEF TypeOK
<1>3. \A i : Committed(i) /\ Drained(i)
  BY DEF Committed, Drained, Commits, Drains, Threads
<1>4. \A t \in Threads : pc[t] # "pop_advance" /\ pc[t] # "push_advance"
  OBVIOUS
<1>5. head_i <= tail_i /\ tail_i - head_i <= Capacity
  BY <1>1, <1>2 DEF TicketInv
<1>6. ASSUME NEW s \in SlotIndex
      PROVE  /\ busy[s] = 0
             /\ val[s] # NoValue <=> s \in DestructorDrains
             /\ key[s] # NoKey <=> s \in DestructorDrains
  <2>1. PICK i \in Window : Slot(i) = s
    BY <1>2, ModSurjective DEF Window, Slot, SlotIndex
  <2>2. CASE i \in head_i .. tail_i - 1
    <3>1. val[s] \in Elements /\ key[s] = KeyOf(val[s]) /\ busy[s] = 0
      BY <1>1, <1>3, <1>4, <2>1, <2>2 DEF SlotsInv, FullSlots, Threads
    <3>2. s \in DestructorDrains
      BY <2>1, <2>2 DEF DestructorDrains
    <3>3. QED BY <3>1, <3>2, KeyFacts
  <2>3. CASE i \in tail_i .. head_i + Capacity - 1
    <3>1. val[s] = NoValue /\ key[s] = NoKey /\ busy[s] = 0
      BY <1>1, <1>3, <1>4, <2>1, <2>3 DEF SlotsInv, EmptySlots, Threads
    <3>2. ASSUME NEW j \in head_i .. tail_i - 1 PROVE Slot(j) # s
      BY <1>1, <1>2, <2>1, <2>3, WindowSlots, Places
    <3>3. s \notin DestructorDrains
      BY <3>2 DEF DestructorDrains
    <3>4. QED BY <3>1, <3>3
  <2>4. QED BY <1>2, <1>5, <2>2, <2>3 DEF Window
<1>7. QED
  BY <1>5, <1>6

(* "Empty" and "full": the slot at the head, or at the tail, decides.       *)
LEMMA InvEmpty ==
  ASSUME Inv, NEW c \in Consumers, PopKey(c), pc'[c] = "pop_none"
  PROVE  \/ head_i = tail_i
         \/ \E p \in Producers :
              pc[p] \in {"push_construct", "push_publish"} /\ at[p] = head_i
<1>1. TypeOK /\ LockInv /\ TicketInv /\ SlotsInv
  BY DEF Inv, RingInv, TypeInv
<1>2. at[c] = head_i /\ key[Slot(head_i)] = NoKey /\ head_i \in Nat /\ tail_i \in Nat
  BY <1>1 DEF PopKey, Goto, LockInv, HoldsHead, TypeOK, Threads
<1>3. CASE head_i < tail_i
  <2>1. head_i \in head_i .. tail_i - 1
    BY <1>2, <1>3
  <2>2. ~Committed(head_i)
    BY <1>1, <1>2, <2>1, KeyFacts DEF SlotsInv, FullSlots
  <2>3. PICK p \in Producers : Commits(p) /\ at[p] = head_i
    BY <2>2 DEF Committed
  <2>4. pc[p] # "push_done"
    <3>1. SUFFICES ASSUME pc[p] = "push_done" PROVE FALSE
      OBVIOUS
    <3>2. key[Slot(head_i)] = KeyOf(elem[p])
      BY <1>1, <2>3, <3>1 DEF SlotsInv, CommitSlots
    <3>3. elem[p] \in Elements
      BY <3>1, RingQueueAssumption DEF Inv, TypeInv, TypeOK, Elements
    <3>4. QED BY <1>2, <3>2, <3>3, KeyFacts
  <2>5. QED BY <2>3, <2>4 DEF Commits
<1>4. QED
  BY <1>1, <1>2, <1>3 DEF TicketInv

LEMMA InvFull ==
  ASSUME Inv, NEW p \in Producers, PushKey(p) \/ PushBusy(p) \/ PushRecheck(p),
         pc'[p] = "push_full"
  PROVE  /\ at[p] >= Capacity
         /\ \/ head_i <= at[p] - Capacity
            \/ \E c \in Consumers : pc[c] \in PopOwns /\ at[c] = at[p] - Capacity
<1>1. TypeOK /\ LockInv /\ TicketInv /\ SlotsInv
  BY DEF Inv, RingInv, TypeInv
<1>2. /\ at[p] = tail_i /\ tail_l = p /\ pc[p] \in Probing
      /\ key[Slot(tail_i)] # NoKey \/ busy[Slot(tail_i)] # 0
      /\ head_i \in Nat /\ tail_i \in Nat
  BY <1>1
  DEF PushKey, PushBusy, PushRecheck, Probe, PushRetry, Goto, LockInv, HoldsTail, Probing,
      TypeOK, Threads
<1>3. Capacity \in Nat \ {0}
  BY RingQueueAssumption
<1>4. CASE tail_i < head_i + Capacity
  <2>1. tail_i \in tail_i .. head_i + Capacity - 1
    BY <1>2, <1>3, <1>4
  <2>2. \A q \in Producers : pc[q] # "push_advance"
    BY <1>1, <1>2 DEF LockInv, HoldsTail, Probing
  <2>3. ~Drained(tail_i)
    BY <1>1, <1>2, <2>1, <2>2 DEF SlotsInv, EmptySlots
  <2>4. PICK c \in Consumers : Drains(c) /\ at[c] + Capacity = tail_i
    BY <2>3 DEF Drained
  <2>5. at[c] \in Nat /\ at[c] = tail_i - Capacity /\ tail_i >= Capacity
    BY <1>1, <1>2, <1>3, <2>4 DEF TypeOK, Threads
  <2>6. QED BY <1>2, <2>4, <2>5 DEF Drains, PopOwns
<1>5. QED
  BY <1>1, <1>2, <1>3, <1>4 DEF TicketInv

-----------------------------------------------------------------------------
(* With room for all: a push that probes is in flight itself, so fewer than *)
(* Capacity elements are between the indices.                               *)
RoomInv == InFlight <= Credits

LEMMA FlightSets ==
  ASSUME RoomForAll
  PROVE  /\ IsFiniteSet(Entering) /\ Cardinality(Entering) \in Nat
         /\ IsFiniteSet(Delivering) /\ Cardinality(Delivering) \in Nat
<1>1. Entering \subseteq Producers /\ Delivering \subseteq Consumers
  BY DEF Entering, Delivering
<1>2. QED
  BY <1>1, FS_Subset, FS_CardinalityType DEF RoomForAll

LEMMA RoomInit ==
  ASSUME RoomForAll
  PROVE  Init => RoomInv
<1> SUFFICES ASSUME Init PROVE RoomInv
  OBVIOUS
<1>1. Entering = {} /\ Delivering = {}
  BY DEF Init, Entering, Delivering, Probing, Threads
<1>2. Cardinality({}) = 0
  BY FS_EmptySet
<1>3. QED
  BY <1>1, <1>2, RingQueueAssumption DEF Init, RoomInv, InFlight, RoomForAll

LEMMA RoomStep ==
  ASSUME RoomForAll
  PROVE  TypeInv /\ RoomInv /\ [Next]_vars => RoomInv'
<1> SUFFICES ASSUME TypeInv, RoomInv, [Next]_vars PROVE RoomInv'
  OBVIOUS
<1>1. TypeOK /\ head_i \in Nat /\ tail_i \in Nat /\ Credits \in Nat
      /\ Producers \cap Consumers = {}
  BY RingQueueAssumption DEF TypeInv, TypeOK
<1>2. /\ IsFiniteSet(Entering) /\ Cardinality(Entering) \in Nat
      /\ IsFiniteSet(Delivering) /\ Cardinality(Delivering) \in Nat
  BY FlightSets
<1>3. (tail_i - head_i) + Cardinality(Entering) + Cardinality(Delivering) <= Credits
  BY DEF RoomInv, InFlight
<1>4. ASSUME NEW p \in Producers, PushCall(p) PROVE RoomInv'
  <2>1. /\ Entering' = Entering \cup {p} /\ Delivering' = Delivering
        /\ UNCHANGED <<head_i, tail_i>> /\ InFlight < Credits
    BY <1>1, <1>4
    DEF PushCall, Goto, Entering, Delivering, Probing, TypeOK, Threads, indices
  <2>2. Cardinality(Entering \cup {p})
          = IF p \in Entering THEN Cardinality(Entering) ELSE Cardinality(Entering) + 1
    BY <1>2, FS_AddElement
  <2>3. QED BY <1>1, <1>2, <2>1, <2>2 DEF RoomInv, InFlight
<1>5. ASSUME NEW p \in Producers, PushAdvance(p) PROVE RoomInv'
  <2>1. /\ Entering' = Entering \ {p} /\ p \in Entering /\ Delivering' = Delivering
        /\ head_i' = head_i /\ tail_i' = tail_i + 1
    BY <1>1, <1>5 DEF PushAdvance, Goto, Entering, Delivering, Probing, TypeOK, Threads
  <2>2. Cardinality(Entering \ {p}) = Cardinality(Entering) - 1
    BY <1>2, <2>1, FS_RemoveElement
  <2>3. QED BY <1>1, <1>2, <1>3, <2>1, <2>2 DEF RoomInv, InFlight
<1>6. ASSUME NEW p \in Producers, PushKey(p) \/ PushBusy(p) \/ PushRecheck(p) PROVE RoomInv'
  <2>1. /\ Entering' = Entering \/ (Entering' = Entering \ {p} /\ p \in Entering)
        /\ Delivering' = Delivering /\ UNCHANGED <<head_i, tail_i>>
    <3>1. UNCHANGED <<head_i, tail_i>> /\ pc[p] \in Probing
      BY <1>6 DEF PushKey, PushBusy, PushRecheck, Probe, Probing, indices
    <3>2. PICK l \in Probing \cup {"push_claim", "push_full"} : Goto(p, l)
      BY <1>6 DEF PushKey, PushBusy, PushRecheck, Probe, PushRetry, Probing
    <3>3. Delivering' = Delivering
      BY <1>1, <3>2 DEF Goto, Delivering, TypeOK, Threads
    <3>4. CASE l = "push_full"
      BY <1>1, <3>1, <3>2, <3>3, <3>4 DEF Goto, Entering, Probing, TypeOK, Threads
    <3>5. CASE l # "push_full"
      BY <1>1, <3>1, <3>2, <3>3, <3>5 DEF Goto, Entering, Probing, TypeOK, Threads
    <3>6. QED BY <3>4, <3>5
  <2>2. p \in Entering => Cardinality(Entering \ {p}) = Cardinality(Entering) - 1
    BY <1>2, FS_RemoveElement
  <2>3. CASE Entering' = Entering
    BY <1>3, <2>1, <2>3 DEF RoomInv, InFlight
  <2>4. CASE Entering' = Entering \ {p} /\ p \in Entering
    BY <1>1, <1>2, <1>3, <2>1, <2>2, <2>4 DEF RoomInv, InFlight
  <2>5. QED BY <2>1, <2>3, <2>4
<1>7. ASSUME NEW p \in Producers,
             \/ PushLock(p) \/ PushClaim(p) \/ PushConstruct(p) \/ PushPublish(p)
             \/ PushDone(p) \/ PushFull(p)
      PROVE  RoomInv'
  <2>1. Entering' = Entering /\ Delivering' = Delivering /\ UNCHANGED <<head_i, tail_i>>
    BY <1>1, <1>7
    DEF PushLock, PushClaim, PushConstruct, PushPublish, PushDone, PushFull, Goto, Entering,
        Delivering, Probing, TypeOK, Threads, indices
  <2>2. QED BY <1>3, <2>1 DEF RoomInv, InFlight
<1>8. ASSUME NEW c \in Consumers, PopAdvance(c) PROVE RoomInv'
  <2>1. /\ Entering' = Entering /\ Delivering' = Delivering \cup {c}
        /\ head_i' = head_i + 1 /\ tail_i' = tail_i
    BY <1>1, <1>8 DEF PopAdvance, Goto, Entering, Delivering, Probing, TypeOK, Threads
  <2>2. Cardinality(Delivering \cup {c})
          = IF c \in Delivering THEN Cardinality(Delivering) ELSE Cardinality(Delivering) + 1
    BY <1>2, FS_AddElement
  <2>3. QED BY <1>1, <1>2, <1>3, <2>1, <2>2 DEF RoomInv, InFlight
<1>9. ASSUME NEW c \in Consumers, PopDone(c) PROVE RoomInv'
  <2>1. /\ Entering' = Entering /\ Delivering' = Delivering \ {c} /\ c \in Delivering
        /\ UNCHANGED <<head_i, tail_i>>
    BY <1>1, <1>9 DEF PopDone, Goto, Entering, Delivering, Probing, TypeOK, Threads, indices
  <2>2. Cardinality(Delivering \ {c}) = Cardinality(Delivering) - 1
    BY <1>2, <2>1, FS_RemoveElement
  <2>3. QED BY <1>1, <1>2, <1>3, <2>1, <2>2 DEF RoomInv, InFlight
<1>10. ASSUME NEW c \in Consumers,
             \/ PopCall(c) \/ EmptyCall(c) \/ EmptyStep(c) \/ PopLock(c) \/ PopKey(c)
             \/ PopBusy(c) \/ PopRecheck(c) \/ PopClaim(c) \/ PopTake(c) \/ PopClear(c)
             \/ PopNone(c)
      PROVE  RoomInv'
  <2>1. Entering' = Entering /\ Delivering' = Delivering /\ UNCHANGED <<head_i, tail_i>>
    BY <1>1, <1>10
    DEF PopCall, EmptyCall, EmptyStep, EmptyLock, EmptyKey, PopLock, PopKey, PopBusy,
        PopRecheck, PopClaim, PopTake, PopClear, PopNone, Goto, Entering, Delivering,
        Probing, TypeOK, Threads, indices
  <2>2. QED BY <1>3, <2>1 DEF RoomInv, InFlight
<1>11. CASE UNCHANGED vars
  BY <1>3, <1>11 DEF vars, indices, RoomInv, InFlight, Entering, Delivering
<1>12. QED
  BY <1>4, <1>5, <1>6, <1>7, <1>8, <1>9, <1>10, <1>11 DEF Next, PushStep, PopStep

LEMMA RoomNoLapping ==
  ASSUME RoomForAll, TypeInv, TicketInv, RoomInv
  PROVE  NoLapping
<1> SUFFICES ASSUME NEW p \in Producers, NEW q \in Producers, pc[p] \in Probing, Commits(q)
             PROVE  at[q] + Capacity # tail_i
  BY DEF NoLapping
<1>1. /\ head_i \in Nat /\ tail_i \in Nat /\ at[q] \in Nat /\ head_i <= at[q]
      /\ Credits \in Nat /\ Capacity \in Nat /\ Credits <= Capacity
  BY RingQueueAssumption DEF TypeInv, TypeOK, TicketInv, CommitInv, Threads, RoomForAll
<1>2. /\ IsFiniteSet(Entering) /\ Cardinality(Entering) \in Nat
      /\ Cardinality(Delivering) \in Nat
  BY FlightSets
<1>3. p \in Entering
  BY DEF Entering
<1>4. Cardinality(Entering) >= 1
  BY <1>2, <1>3, FS_EmptySet
<1>5. tail_i < head_i + Capacity
  BY <1>1, <1>2, <1>4 DEF RoomInv, InFlight
<1>6. QED
  BY <1>1, <1>5

-----------------------------------------------------------------------------
(* The properties, in either environment                                    *)
Environment == DistinctKeys /\ (SingleProducer \/ RoomForAll)

EmptyStepJustified ==
  \A c \in Consumers :
    pc[c] # "pop_none" /\ pc'[c] = "pop_none" =>
      \/ head_i = tail_i
      \/ \E p \in Producers :
           pc[p] \in {"push_construct", "push_publish"} /\ at[p] = head_i

FullStepJustified ==
  \A p \in Producers :
    pc[p] # "push_full" /\ pc'[p] = "push_full" =>
      /\ at[p] >= Capacity
      /\ \/ head_i <= at[p] - Capacity
         \/ \E c \in Consumers : pc[c] \in PopOwns /\ at[c] = at[p] - Capacity

(* Only the load of the key leads to "empty", and only a failed probe leads *)
(* to "full".                                                               *)
LEMMA WhoReportsEmpty ==
  ASSUME TypeOK, [Next]_vars, NEW c \in Consumers,
         pc[c] # "pop_none", pc'[c] = "pop_none"
  PROVE  PopKey(c)
<1>1. Producers \cap Consumers = {}
  BY RingQueueAssumption
<1>2. ASSUME NEW p \in Producers, PushCall(p) \/ PushStep(p) PROVE FALSE
  <2>1. PICK l : Goto(p, l)
    BY <1>2
    DEF PushCall, PushStep, PushLock, PushKey, PushBusy, PushRecheck, Probe, PushRetry,
        PushClaim, PushAdvance, PushConstruct, PushPublish, PushDone, PushFull
  <2>2. QED BY <1>1, <2>1 DEF Goto
<1>3. ASSUME NEW d \in Consumers, PopCall(d) \/ EmptyCall(d) \/ PopStep(d) \/ EmptyStep(d)
      PROVE  PopKey(c)
  <2>1. d = c
    <3>1. PICK l : Goto(d, l)
      BY <1>3
      DEF PopCall, EmptyCall, EmptyStep, EmptyLock, EmptyKey, PopStep, PopLock, PopKey,
          PopBusy, PopRecheck, PopClaim, PopAdvance, PopTake, PopClear, PopDone, PopNone
    <3>2. QED BY <3>1 DEF Goto
  <2>2. QED
    BY <1>3, <2>1
    DEF PopCall, EmptyCall, EmptyStep, EmptyLock, EmptyKey, PopStep, PopLock, PopBusy,
        PopRecheck, PopClaim, PopAdvance, PopTake, PopClear, PopDone, PopNone, Goto,
        TypeOK, Threads
<1>4. ~UNCHANGED vars
  BY DEF vars
<1>5. QED
  BY <1>2, <1>3, <1>4 DEF Next

LEMMA WhoReportsFull ==
  ASSUME TypeOK, [Next]_vars, NEW p \in Producers,
         pc[p] # "push_full", pc'[p] = "push_full"
  PROVE  PushKey(p) \/ PushBusy(p) \/ PushRecheck(p)
<1>1. Producers \cap Consumers = {}
  BY RingQueueAssumption
<1>2. ASSUME NEW c \in Consumers, PopCall(c) \/ EmptyCall(c) \/ PopStep(c) \/ EmptyStep(c)
      PROVE  FALSE
  <2>1. PICK l : Goto(c, l)
    BY <1>2
    DEF PopCall, EmptyCall, EmptyStep, EmptyLock, EmptyKey, PopStep, PopLock, PopKey,
        PopBusy, PopRecheck, PopClaim, PopAdvance, PopTake, PopClear, PopDone, PopNone
  <2>2. QED BY <1>1, <2>1 DEF Goto
<1>3. ASSUME NEW q \in Producers, PushCall(q) \/ PushStep(q)
      PROVE  PushKey(p) \/ PushBusy(p) \/ PushRecheck(p)
  <2>1. q = p
    <3>1. PICK l : Goto(q, l)
      BY <1>3
      DEF PushCall, PushStep, PushLock, PushKey, PushBusy, PushRecheck, Probe, PushRetry,
          PushClaim, PushAdvance, PushConstruct, PushPublish, PushDone, PushFull
    <3>2. QED BY <3>1 DEF Goto
  <2>2. QED
    BY <1>3, <2>1
    DEF PushCall, PushStep, PushLock, PushClaim, PushAdvance, PushConstruct, PushPublish,
        PushDone, PushFull, Goto, TypeOK, Threads
<1>4. ~UNCHANGED vars
  BY DEF vars
<1>5. QED
  BY <1>2, <1>3, <1>4 DEF Next

LEMMA InvEmptyStep == Inv /\ [Next]_vars => EmptyStepJustified
  BY WhoReportsEmpty, InvEmpty DEF EmptyStepJustified, Inv, TypeInv

LEMMA InvFullStep == Inv /\ [Next]_vars => FullStepJustified
  BY WhoReportsFull, InvFull DEF FullStepJustified, Inv, TypeInv

LEMMA InvAlways ==
  ASSUME Environment
  PROVE  Spec => []Inv
<1>1. CASE SingleProducer
  <2>1. Init => Inv
    BY InvInit DEF Environment
  <2>2. Inv /\ [Next]_vars => Inv'
    BY <1>1, InvStep, SingleNoLapping DEF Environment
  <2>3. QED BY <2>1, <2>2, PTL DEF Spec
<1>2. CASE RoomForAll
  <2>1. Init => Inv /\ RoomInv
    BY <1>2, InvInit, RoomInit DEF Environment
  <2>2. Inv /\ RoomInv /\ [Next]_vars => Inv' /\ RoomInv'
    BY <1>2, InvStep, RoomStep, RoomNoLapping DEF Environment, Inv, RingInv
  <2>3. QED BY <2>1, <2>2, PTL DEF Spec
<1>3. QED BY <1>1, <1>2 DEF Environment

(* In either environment no two threads ever own the same slot, whatever    *)
(* the number of consumers: values are not constructed, moved or destroyed  *)
(* by two threads at once.                                                  *)
THEOREM RingQueueExclusive ==
  ASSUME Environment
  PROVE  Spec => []SlotsAreExclusive
<1>1. Spec => []Inv
  BY InvAlways
<1>2. Inv => SlotsAreExclusive
  BY InvExclusive
<1>3. QED BY <1>1, <1>2, PTL

(* In either environment pop() delivers the value that was pushed with the  *)
(* key it returns, although the key is read before the slot is claimed.     *)
THEOREM RingQueuePairs ==
  ASSUME Environment
  PROVE  Spec => []PairsStayTogether
<1>1. Spec => []Inv
  BY InvAlways
<1>2. Inv => PairsStayTogether
  BY InvPairs
<1>3. QED BY <1>1, <1>2, PTL

(* In either environment a quiescent queue is one the destructor drains     *)
(* exactly: no value leaks and no slot without a value is destroyed.        *)
THEOREM RingQueueDestructor ==
  ASSUME Environment
  PROVE  Spec => []DestructorIsSafe
<1>1. Spec => []Inv
  BY InvAlways
<1>2. Inv => DestructorIsSafe
  BY InvDestructor
<1>3. QED BY <1>1, <1>2, PTL

(* In either environment pop() reports an empty queue only if it is empty,  *)
(* or if the push at its head has not published its element yet.            *)
THEOREM RingQueueEmpty ==
  ASSUME Environment
  PROVE  Spec => EmptyIsJustified
<1>1. Spec => []Inv
  BY InvAlways
<1>2. Inv /\ [Next]_vars => [EmptyStepJustified]_vars
  BY InvEmptyStep
<1>3. Spec => [][EmptyStepJustified]_vars
  BY <1>1, <1>2, PTL DEF Spec
<1>4. QED BY <1>3 DEF EmptyIsJustified, EmptyStepJustified

(* In either environment push() reports a full queue only if the element    *)
(* that was in its slot a lap earlier had not left it.                      *)
THEOREM RingQueueFull ==
  ASSUME Environment
  PROVE  Spec => FullIsJustified
<1>1. Spec => []Inv
  BY InvAlways
<1>2. Inv /\ [Next]_vars => [FullStepJustified]_vars
  BY InvFullStep
<1>3. Spec => [][FullStepJustified]_vars
  BY <1>1, <1>2, PTL DEF Spec
<1>4. QED BY <1>3 DEF FullIsJustified, FullStepJustified
-----------------------------------------------------------------------------
(* The queue implements the bounded FIFO queue.  An entry of Contents is    *)
(* that of a ticket from head_.i to tail_.i: what the push that commits it  *)
(* carries, or what is in the slot once the push has published it.          *)
EntryOf(C, v, e) ==
  IF C = {} THEN [elem |-> v, ready |-> TRUE]
  ELSE [elem |-> e[CHOOSE p \in C : TRUE], ready |-> FALSE]
Entry(i) == EntryOf(Committing(i), val[Slot(i)], elem)

Constructs(p) == pc[p] \in {"push_construct", "push_publish"}
CommittingAfter(i) ==
  {p \in Producers : pc'[p] \in {"push_construct", "push_publish"} /\ at'[p] = i}
EntryAfter(i) == EntryOf(CommittingAfter(i), val'[Slot(i)], elem')

(* What a consumer holds                                                    *)
HeldOf(c) == CASE pc[c] = "pop_take" -> val[Slot(at[c])]
               [] pc[c] \in {"pop_clear", "pop_done"} -> got[c]
               [] OTHER -> NoValue

Entries == [elem : Elements, ready : BOOLEAN]

(* The abstract state, in these words, before a step and after it.          *)
LEMMA FifoState ==
  /\ Contents = [n \in 1 .. (tail_i - head_i) |-> Entry(head_i + n - 1)]
  /\ Holding = [c \in Consumers |-> HeldOf(c)]
  BY DEF Contents, Entry, EntryOf, Holding, HeldOf

LEMMA FifoStateAfter ==
  /\ Contents' = [n \in 1 .. (tail_i' - head_i') |-> EntryAfter(head_i' + n - 1)]
  /\ Holding' = [c \in Consumers |-> HeldOf(c)']
  BY DEF Contents, EntryAfter, EntryOf, Committing, CommittingAfter, Slot, Holding, HeldOf

(* A sequence given by its elements                                         *)
LEMMA SeqByElements ==
  ASSUME NEW S, NEW n \in Nat, NEW f \in [1 .. n -> S]
  PROVE  f \in Seq(S) /\ Len(f) = n /\ DOMAIN f = 1 .. n
  OBVIOUS

LEMMA SeqAppended ==
  ASSUME NEW S, NEW n \in Nat, NEW f \in [1 .. n -> S], NEW g \in [1 .. n + 1 -> S],
         \A k \in 1 .. n : g[k] = f[k]
  PROVE  g = Append(f, g[n + 1])
<1>1. /\ f \in Seq(S) /\ Len(f) = n
      /\ g \in Seq(S) /\ Len(g) = n + 1 /\ g[n + 1] \in S
  BY SeqByElements
<1>2. QED BY <1>1

LEMMA SeqTail ==
  ASSUME NEW S, NEW n \in Nat \ {0}, NEW f \in [1 .. n -> S], NEW g \in [1 .. n - 1 -> S],
         \A k \in 1 .. n - 1 : g[k] = f[k + 1]
  PROVE  g = Tail(f) /\ Head(f) = f[1] /\ f # <<>>
<1>1. /\ f \in Seq(S) /\ Len(f) = n
      /\ g \in Seq(S) /\ Len(g) = n - 1
  BY SeqByElements
<1>2. Tail(f) \in Seq(S) /\ Len(Tail(f)) = n - 1 /\ f # <<>>
  BY <1>1
<1>3. \A k \in 1 .. n - 1 : Tail(f)[k] = f[k + 1]
  BY <1>1
<1>4. QED BY <1>1, <1>2, <1>3

(* An entry made ready                                                      *)
LEMMA MadeReady ==
  ASSUME NEW r \in Entries
  PROVE  [r EXCEPT !.ready = TRUE] = [elem |-> r.elem, ready |-> TRUE]
<1>1. \A b : [r EXCEPT !.ready = b] = [elem |-> r.elem, ready |-> b]
  BY DEF Entries
<1>2. QED BY <1>1, Zenon

(* The entry of a ticket that one push commits, or none                     *)
LEMMA ChooseOnly ==
  ASSUME NEW C, NEW p \in C, \A q \in C : q = p
  PROVE  (CHOOSE q \in C : TRUE) = p
<1>1. C = {p}
  OBVIOUS
<1>2. QED BY <1>1

LEMMA EntryOfOne ==
  ASSUME NEW C, NEW v, NEW e, NEW p \in C, \A q \in C : q = p
  PROVE  EntryOf(C, v, e) = [elem |-> e[p], ready |-> FALSE]
<1>1. (CHOOSE q \in C : TRUE) = p /\ C # {}
  BY ChooseOnly
<1>2. QED BY <1>1 DEF EntryOf

LEMMA EntryOfNone ==
  ASSUME NEW v, NEW e
  PROVE  EntryOf({}, v, e) = [elem |-> v, ready |-> TRUE]
  BY DEF EntryOf

(* The push that commits a ticket is the only one to do so.                 *)
LEMMA CommittingFacts ==
  ASSUME CommitInv, NEW i
  PROVE  /\ \A p \in Committing(i) : \A q \in Committing(i) : q = p
         /\ Committed(i) => Committing(i) = {}
         /\ \A p \in Committing(i) : p \in Producers /\ Commits(p) /\ at[p] = i
  BY DEF CommitInv, Committing, Committed, Commits

(* A ticket in the ring that no push commits has its element in its slot.   *)
LEMMA EntryInRing ==
  ASSUME Inv, NEW i \in head_i .. tail_i - 1
  PROVE  Entry(i) \in Entries
<1>1. TypeOK /\ CommitInv /\ SlotsInv
  BY DEF Inv, RingInv, TicketInv, TypeInv
<1>2. \A p \in Producers : pc[p] # "idle" => elem[p] \in Elements
  BY <1>1 DEF Inv, TypeInv, TypeOK, Elements
<1>3. CASE Committing(i) = {}
  <2>1. val[Slot(i)] \in Elements
    <3>1. CASE Committed(i)
      BY <1>1, <3>1 DEF SlotsInv, FullSlots
    <3>2. CASE ~Committed(i)
      <4>1. PICK p \in Producers : Commits(p) /\ at[p] = i
        BY <3>2 DEF Committed
      <4>2. pc[p] = "push_done"
        BY <1>3, <4>1 DEF Committing, Commits
      <4>3. val[Slot(i)] = elem[p] /\ elem[p] \in Elements
        BY <1>1, <1>2, <4>1, <4>2 DEF SlotsInv, CommitSlots
      <4>4. QED BY <4>3
    <3>3. QED BY <3>1, <3>2
  <2>2. Entry(i) = [elem |-> val[Slot(i)], ready |-> TRUE]
    BY <1>3 DEF Entry, EntryOf
  <2>3. QED BY <2>1, <2>2 DEF Entries
<1>4. CASE Committing(i) # {}
  <2>1. PICK p \in Committing(i) : TRUE
    BY <1>4
  <2>2. p \in Producers /\ pc[p] # "idle" /\ elem[p] \in Elements
    BY <1>2, <2>1 DEF Committing
  <2>3. \A q \in Committing(i) : q = p
    BY <1>1, <2>1, CommittingFacts
  <2>4. Entry(i) = [elem |-> elem[p], ready |-> FALSE]
    BY <2>1, <2>3, EntryOfOne DEF Entry
  <2>5. QED BY <2>2, <2>4 DEF Entries
<1>5. QED BY <1>3, <1>4

LEMMA ContentsSeq ==
  ASSUME Inv
  PROVE  /\ tail_i - head_i \in Nat /\ head_i \in Nat /\ tail_i \in Nat
         /\ Contents \in [1 .. (tail_i - head_i) -> Entries]
         /\ \A i \in head_i .. tail_i - 1 :
              i - head_i + 1 \in 1 .. (tail_i - head_i) /\ Contents[i - head_i + 1] = Entry(i)
         /\ \A k \in 1 .. (tail_i - head_i) :
              head_i + k - 1 \in head_i .. tail_i - 1 /\ Contents[k] = Entry(head_i + k - 1)
<1>1. head_i \in Nat /\ tail_i \in Nat /\ head_i <= tail_i /\ tail_i - head_i \in Nat
  BY DEF Inv, RingInv, TicketInv, TypeInv, TypeOK
<1>2. Contents = [n \in 1 .. (tail_i - head_i) |-> Entry(head_i + n - 1)]
  BY FifoState
<1>3. \A k \in 1 .. (tail_i - head_i) : head_i + k - 1 \in head_i .. tail_i - 1
  BY <1>1
<1>4. \A i \in head_i .. tail_i - 1 :
        i - head_i + 1 \in 1 .. (tail_i - head_i) /\ head_i + (i - head_i + 1) - 1 = i
  BY <1>1
<1>5. \A i \in head_i .. tail_i - 1 : Entry(i) \in Entries
  BY EntryInRing
<1>6. Contents \in [1 .. (tail_i - head_i) -> Entries]
  BY <1>2, <1>3, <1>5
<1>7. QED BY <1>1, <1>2, <1>3, <1>4, <1>6

-----------------------------------------------------------------------------
(* What a step leaves alone: the commits in progress, and what the pops in  *)
(* progress hold.                                                           *)
SameCommit(p) ==
  /\ Constructs(p)' <=> Constructs(p)
  /\ Constructs(p) => at'[p] = at[p] /\ elem'[p] = elem[p]
SameHold(c) ==
  /\ Drains(c)' <=> Drains(c)
  /\ Drains(c) => pc'[c] = pc[c] /\ at'[c] = at[c] /\ got'[c] = got[c]

LEMMA EntryKept ==
  ASSUME Inv, NEW i,
         \A p \in Producers : SameCommit(p) \/ (at[p] # i /\ at'[p] # i),
         Committing(i) = {} => val'[Slot(i)] = val[Slot(i)]
  PROVE  EntryAfter(i) = Entry(i)
<1>1. CommitInv
  BY DEF Inv, RingInv, TicketInv
<1>2. CommittingAfter(i) = Committing(i) /\ \A p \in Committing(i) : elem'[p] = elem[p]
  BY DEF Committing, CommittingAfter, SameCommit, Constructs
<1>3. CASE Committing(i) = {}
  BY <1>2, <1>3 DEF Entry, EntryAfter, EntryOf
<1>4. CASE Committing(i) # {}
  <2>1. PICK p \in Committing(i) : TRUE
    BY <1>4
  <2>2. \A q \in Committing(i) : q = p
    BY <1>1, <2>1, CommittingFacts
  <2>3. Entry(i) = [elem |-> elem[p], ready |-> FALSE]
    BY <2>1, <2>2, EntryOfOne DEF Entry
  <2>4. EntryAfter(i) = [elem |-> elem'[p], ready |-> FALSE]
    <3>1. (CHOOSE q \in Committing(i) : TRUE) = p
      BY <2>1, <2>2, ChooseOnly
    <3>2. QED BY <1>2, <1>4, <3>1 DEF EntryAfter, EntryOf
  <2>5. QED BY <1>2, <2>1, <2>3, <2>4
<1>5. QED BY <1>3, <1>4

(* A step that changes no entry and nothing that is held is invisible.      *)
LEMMA FifoStutter ==
  ASSUME Inv, UNCHANGED <<head_i, tail_i>>,
         \A j \in head_i .. tail_i - 1 : EntryAfter(j) = Entry(j),
         \A c \in Consumers : HeldOf(c)' = HeldOf(c)
  PROVE  UNCHANGED <<Contents, Holding>>
<1>1. \A k \in 1 .. (tail_i - head_i) : head_i + k - 1 \in head_i .. tail_i - 1
  BY ContentsSeq
<1>2. Holding' = Holding
  BY FifoState, FifoStateAfter
<1>3. \A k \in 1 .. (tail_i - head_i) : EntryAfter(head_i + k - 1) = Entry(head_i + k - 1)
  BY <1>1
<1>4. Contents' = [n \in 1 .. (tail_i - head_i) |-> EntryAfter(head_i + n - 1)]
  BY FifoStateAfter
<1>5. Contents' = Contents
  BY <1>3, <1>4, FifoState
<1>6. QED BY <1>2, <1>5

LEMMA FifoQuiet ==
  ASSUME Inv, UNCHANGED <<val, head_i, tail_i>>,
         \A p \in Producers : SameCommit(p), \A c \in Consumers : SameHold(c)
  PROVE  UNCHANGED <<Contents, Holding>>
<1>1. \A j : EntryAfter(j) = Entry(j)
  BY EntryKept
<1>2. \A c \in Consumers : HeldOf(c)' = HeldOf(c)
  BY DEF HeldOf, SameHold, Drains, Slot
<1>3. QED BY <1>1, <1>2, FifoStutter

-----------------------------------------------------------------------------
ContentsTyped == Contents \in [1 .. (tail_i - head_i) -> Entries]

(* The steps of a push that neither claim a slot nor publish an element     *)
LEMMA FifoPushQuiet ==
  ASSUME Inv, NEW p \in Producers,
         \/ PushCall(p) \/ PushLock(p) \/ PushKey(p) \/ PushBusy(p) \/ PushRecheck(p)
         \/ PushFull(p) \/ PushClaim(p) \/ PushDone(p)
  PROVE  UNCHANGED <<Contents, Holding>>
<1>1. TypeOK
  BY DEF Inv, TypeInv
<1>2. Producers \cap Consumers = {}
  BY RingQueueAssumption
<1>3. /\ \A q \in Producers : q # p => pc'[q] = pc[q] /\ at'[q] = at[q] /\ elem'[q] = elem[q]
      /\ \A c \in Consumers : pc'[c] = pc[c] /\ at'[c] = at[c] /\ got'[c] = got[c]
      /\ UNCHANGED <<val, head_i, tail_i>>
      /\ ~Constructs(p) /\ ~Constructs(p)'
  BY <1>1, <1>2
  DEF PushCall, PushLock, PushKey, PushBusy, PushRecheck, PushFull, PushClaim, PushDone, Probe,
      PushRetry, Goto, Constructs, TypeOK, Threads, slots, indices, locals
<1>4. \A q \in Producers : SameCommit(q)
  BY <1>3 DEF SameCommit, Constructs
<1>5. \A c \in Consumers : SameHold(c)
  BY <1>3 DEF SameHold, Drains
<1>6. QED BY <1>3, <1>4, <1>5, FifoQuiet

(* The steps of a pop that neither claim a slot nor take or deliver an      *)
(* element                                                                  *)
LEMMA FifoPopQuiet ==
  ASSUME Inv, NEW c \in Consumers,
         \/ PopCall(c) \/ EmptyCall(c) \/ PopLock(c) \/ EmptyLock(c) \/ PopKey(c) \/ EmptyKey(c)
         \/ PopBusy(c) \/ PopRecheck(c) \/ PopNone(c) \/ PopClaim(c)
  PROVE  UNCHANGED <<Contents, Holding>>
<1>1. TypeOK
  BY DEF Inv, TypeInv
<1>2. Producers \cap Consumers = {}
  BY RingQueueAssumption
<1>3. /\ \A q \in Producers : pc'[q] = pc[q] /\ at'[q] = at[q] /\ elem'[q] = elem[q]
      /\ \A d \in Consumers : d # c => pc'[d] = pc[d] /\ at'[d] = at[d] /\ got'[d] = got[d]
      /\ UNCHANGED <<val, head_i, tail_i>>
      /\ ~Drains(c) /\ ~Drains(c)'
  BY <1>1, <1>2
  DEF PopCall, EmptyCall, PopLock, EmptyLock, PopKey, EmptyKey, PopBusy, PopRecheck, PopNone,
      PopClaim, Goto, Drains, TypeOK, Threads, slots, indices, locals
<1>4. \A q \in Producers : SameCommit(q)
  BY <1>3 DEF SameCommit, Constructs
<1>5. \A d \in Consumers : SameHold(d)
  BY <1>3 DEF SameHold, Drains
<1>6. QED BY <1>3, <1>4, <1>5, FifoQuiet

(* The value of an element that is being committed or taken is not in the   *)
(* slot of another ticket in the ring, nor in that another pop takes from.  *)
LEMMA OneSlotEach ==
  ASSUME Inv
  PROVE  /\ \A p \in Producers, i \in head_i .. tail_i - 1 :
              Commits(p) /\ i # at[p] => Slot(i) # Slot(at[p])
         /\ \A p \in Producers, c \in Consumers :
              Commits(p) /\ Drains(c) => Slot(at[c]) # Slot(at[p])
         /\ \A c \in Consumers, i \in head_i .. tail_i - 1 :
              Drains(c) => Slot(i) # Slot(at[c])
         /\ \A c, d \in Consumers :
              Drains(c) /\ Drains(d) /\ d # c => Slot(at[d]) # Slot(at[c])
<1>1. TypeOK /\ TicketInv /\ \A t \in Threads : at[t] \in Nat
  BY DEF Inv, TypeInv, RingInv, TypeOK
<1>2. head_i \in Nat /\ tail_i \in Nat /\ Capacity \in Nat
  BY <1>1, RingQueueAssumption DEF TypeOK
<1>3. \A i \in head_i .. tail_i - 1 : i \in Window
  BY <1>1, Places
<1>4. \A i \in tail_i .. head_i + Capacity - 1 : i \in Window
  BY <1>1, Places
<1>5. \A p \in Producers : Commits(p) => at[p] \in head_i .. tail_i - 1
  BY <1>1, Places
<1>6. \A c \in Consumers : Drains(c) =>
        /\ at[c] + Capacity \in tail_i .. head_i + Capacity - 1
        /\ Slot(at[c] + Capacity) = Slot(at[c]) /\ at[c] \in Nat
  BY <1>1, Places DEF Threads
<1>7. ASSUME NEW p \in Producers, NEW i \in head_i .. tail_i - 1, Commits(p), i # at[p]
      PROVE  Slot(i) # Slot(at[p])
  BY <1>1, <1>3, <1>5, <1>7, WindowSlots
<1>8. ASSUME NEW c \in Consumers, NEW i \in head_i .. tail_i - 1, Drains(c)
      PROVE  Slot(i) # Slot(at[c])
  <2>1. i # at[c] + Capacity /\ at[c] + Capacity \in Window /\ i \in Window
    BY <1>2, <1>3, <1>4, <1>6, <1>8
  <2>2. Slot(i) # Slot(at[c] + Capacity)
    BY <1>1, <2>1, WindowSlots
  <2>3. QED BY <1>6, <1>8, <2>2
<1>9. ASSUME NEW c \in Consumers, NEW d \in Consumers, Drains(c), Drains(d), d # c
      PROVE  Slot(at[d]) # Slot(at[c])
  <2>1. at[c] # at[d] /\ at[c] \in Nat /\ at[d] \in Nat
    BY <1>1, <1>6, <1>9 DEF TicketInv, DrainInv
  <2>2. /\ at[c] + Capacity # at[d] + Capacity
        /\ at[c] + Capacity \in Window /\ at[d] + Capacity \in Window
    BY <1>2, <1>4, <1>6, <1>9, <2>1
  <2>3. Slot(at[d] + Capacity) # Slot(at[c] + Capacity)
    BY <1>1, <2>2, WindowSlots
  <2>4. QED BY <1>6, <1>9, <2>3
<1>10. ASSUME NEW p \in Producers, NEW c \in Consumers, Commits(p), Drains(c)
       PROVE  Slot(at[c]) # Slot(at[p])
  BY <1>5, <1>8, <1>10
<1>11. QED BY <1>7, <1>8, <1>9, <1>10

(* The value is constructed where no one looks.                             *)
LEMMA FifoConstruct ==
  ASSUME Inv, NEW p \in Producers, PushConstruct(p)
  PROVE  UNCHANGED <<Contents, Holding>>
<1>1. TypeOK
  BY DEF Inv, TypeInv
<1>2. /\ Commits(p) /\ Constructs(p) /\ Constructs(p)'
      /\ \A t \in Threads : t # p => pc'[t] = pc[t]
      /\ \A c \in Consumers : pc'[c] = pc[c]
      /\ UNCHANGED <<head_i, tail_i, at, elem, got>>
  BY <1>1, RingQueueAssumption
  DEF PushConstruct, Commits, Constructs, Goto, TypeOK, Threads, indices, locals
<1>3. \A i \in Nat : Slot(i) # Slot(at[p]) => val'[Slot(i)] = val[Slot(i)]
  BY <1>1, SlotFacts DEF PushConstruct, TypeOK
<1>4. \A q \in Producers : SameCommit(q)
  BY <1>2 DEF SameCommit, Constructs, Threads
<1>5. ASSUME NEW i \in head_i .. tail_i - 1 PROVE EntryAfter(i) = Entry(i)
  <2>1. i \in Nat
    BY <1>1 DEF TypeOK
  <2>2. Committing(i) = {} => i # at[p]
    BY <1>2 DEF Committing, Constructs
  <2>3. Committing(i) = {} => val'[Slot(i)] = val[Slot(i)]
    BY <1>2, <1>3, <2>1, <2>2, OneSlotEach
  <2>4. QED BY <1>4, <2>3, EntryKept
<1>6. ASSUME NEW c \in Consumers PROVE HeldOf(c)' = HeldOf(c)
  <2>1. at[c] \in Nat
    BY <1>1 DEF TypeOK, Threads
  <2>2. pc[c] = "pop_take" => val'[Slot(at[c])] = val[Slot(at[c])]
    BY <1>2, <1>3, <2>1, OneSlotEach DEF Drains
  <2>3. QED BY <1>2, <2>2 DEF HeldOf, Slot
<1>7. QED BY <1>2, <1>5, <1>6, FifoStutter

(* A pop that has moved its element out, or cleared the key, holds what it  *)
(* held.                                                                    *)
LEMMA FifoMove ==
  ASSUME Inv, NEW c \in Consumers, PopTake(c) \/ PopClear(c)
  PROVE  UNCHANGED <<Contents, Holding>>
<1>1. TypeOK
  BY DEF Inv, TypeInv
<1>2. /\ Drains(c)
      /\ \A d \in Consumers : d # c => pc'[d] = pc[d] /\ got'[d] = got[d]
      /\ \A q \in Producers : pc'[q] = pc[q]
      /\ UNCHANGED <<head_i, tail_i, at, elem>>
      /\ \/ pc[c] = "pop_take" /\ pc'[c] = "pop_clear" /\ got'[c] = val[Slot(at[c])]
         \/ pc[c] = "pop_clear" /\ pc'[c] = "pop_done" /\ got'[c] = got[c]
  BY <1>1, RingQueueAssumption
  DEF PopTake, PopClear, Drains, Goto, TypeOK, Threads, indices, locals
<1>3. \A i \in Nat : Slot(i) # Slot(at[c]) => val'[Slot(i)] = val[Slot(i)]
  BY <1>1, SlotFacts DEF PopTake, PopClear, TypeOK
<1>4. \A q \in Producers : SameCommit(q)
  BY <1>2 DEF SameCommit, Constructs
<1>5. ASSUME NEW i \in head_i .. tail_i - 1 PROVE EntryAfter(i) = Entry(i)
  <2>1. i \in Nat
    BY <1>1 DEF TypeOK
  <2>2. val'[Slot(i)] = val[Slot(i)]
    BY <1>2, <1>3, <2>1, OneSlotEach
  <2>3. QED BY <1>4, <2>2, EntryKept
<1>6. ASSUME NEW d \in Consumers PROVE HeldOf(d)' = HeldOf(d)
  <2>1. CASE d = c
    BY <1>2, <2>1 DEF HeldOf
  <2>2. CASE d # c
    <3>1. at[d] \in Nat
      BY <1>1 DEF TypeOK, Threads
    <3>2. pc[d] = "pop_take" => val'[Slot(at[d])] = val[Slot(at[d])]
      BY <1>2, <1>3, <2>2, <3>1, OneSlotEach DEF Drains
    <3>3. QED BY <1>2, <2>2, <3>2 DEF HeldOf, Slot
  <2>3. QED BY <2>1, <2>2
<1>7. QED BY <1>2, <1>5, <1>6, FifoStutter

-----------------------------------------------------------------------------
(* A push that claims the slot at the tail appends its element, unready.    *)
LEMMA FifoEnter ==
  ASSUME Inv, Inv', ContentsTyped, ContentsTyped', NEW p \in Producers, PushAdvance(p)
  PROVE  F!Enter
<1>1. /\ TypeOK /\ LockInv /\ CheckInv /\ CommitInv'
      /\ \A q \in Producers : pc[q] # "idle" => elem[q] \in 1 .. calls
  BY DEF Inv, TypeInv, RingInv, TicketInv
<1>2. /\ Constructs(p)' /\ Commits(p)' /\ at[p] = tail_i /\ tail_i < head_i + Capacity
      /\ \A q \in Producers : q # p => pc'[q] = pc[q]
      /\ \A c \in Consumers : pc'[c] = pc[c]
      /\ tail_i' = tail_i + 1 /\ UNCHANGED <<val, head_i, at, elem, got>>
      /\ elem[p] \in Elements
  <2>1. pc[p] = "push_advance" /\ p \in Threads /\ pc' = [pc EXCEPT ![p] = "push_construct"]
    BY DEF PushAdvance, Goto, Threads
  <2>2. at[p] = tail_i /\ tail_i < head_i + Capacity
    BY <1>1, <2>1 DEF LockInv, CheckInv, PushCheck, HoldsTail
  <2>3. elem[p] \in Elements
    BY <1>1, <2>1 DEF TypeOK, Elements
  <2>4. Constructs(p)' /\ Commits(p)'
    BY <1>1, <2>1 DEF Constructs, Commits, TypeOK
  <2>5. QED
    BY <1>1, <2>1, <2>2, <2>3, <2>4, RingQueueAssumption
    DEF PushAdvance, TypeOK, Threads, slots, locals
<1> DEFINE n == tail_i - head_i
           e == [elem |-> elem[p], ready |-> FALSE]
<1>3. n \in Nat /\ n < Capacity /\ head_i \in Nat /\ tail_i \in Nat
      /\ \A k \in 1 .. n : head_i + k - 1 \in head_i .. tail_i - 1 /\ Contents[k] = Entry(head_i + k - 1)
  BY <1>1, <1>2, ContentsSeq, RingQueueAssumption
<1>4. tail_i' - head_i' = n + 1
  BY <1>2, <1>3
<1>5. \A k \in 1 .. n + 1 : Contents'[k] = EntryAfter(head_i + k - 1)
  BY <1>2, <1>4, FifoStateAfter
<1>6. \A i \in head_i .. tail_i - 1 : EntryAfter(i) = Entry(i)
  <2>1. \A q \in Producers : q # p => SameCommit(q)
    BY <1>2 DEF SameCommit, Constructs
  <2>2. QED BY <1>2, <1>3, <2>1, EntryKept
<1>7. EntryAfter(tail_i) = e
  <2>1. p \in CommittingAfter(tail_i)
    BY <1>2 DEF CommittingAfter, Constructs
  <2>2. \A q \in CommittingAfter(tail_i) : q = p
    BY <1>1, <1>2 DEF CommitInv, Commits, CommittingAfter
  <2>3. (CHOOSE q \in CommittingAfter(tail_i) : TRUE) = p
    BY <2>1, <2>2, ChooseOnly
  <2>4. QED BY <1>2, <2>1, <2>3 DEF EntryAfter, EntryOf
<1>8. Contents \in [1 .. n -> Entries] /\ Contents' \in [1 .. n + 1 -> Entries]
  BY <1>4 DEF ContentsTyped
<1>9. Contents'[n + 1] = e /\ \A k \in 1 .. n : Contents'[k] = Contents[k]
  <2>1. head_i + (n + 1) - 1 = tail_i /\ n + 1 \in 1 .. n + 1
    BY <1>3
  <2>2. \A k \in 1 .. n : k \in 1 .. n + 1
    BY <1>3
  <2> HIDE DEF n
  <2>3. Contents'[n + 1] = e
    BY <1>5, <1>7, <2>1
  <2>4. \A k \in 1 .. n : Contents'[k] = Contents[k]
    BY <1>3, <1>5, <1>6, <2>2
  <2>5. QED BY <2>3, <2>4
<1> HIDE DEF n, e
<1>10. Len(Contents) = n /\ Contents' = Append(Contents, e)
  BY <1>3, <1>8, <1>9, SeqByElements, SeqAppended
<1>11. Holding' = Holding
  BY <1>2, FifoState, FifoStateAfter DEF HeldOf, Slot
<1>12. QED BY <1>2, <1>3, <1>10, <1>11 DEF F!Enter, e

(* A push that stores the key publishes the element of its slot.            *)
LEMMA FifoPublish ==
  ASSUME Inv, Inv', ContentsTyped, ContentsTyped', NEW p \in Producers, PushPublish(p)
  PROVE  F!Publish
<1>1. TypeOK /\ CommitInv /\ TicketInv /\ CommitSlots
  BY DEF Inv, TypeInv, RingInv, TicketInv, SlotsInv
<1>2. /\ Constructs(p) /\ Commits(p) /\ ~Constructs(p)' /\ at[p] \in Nat
      /\ \A q \in Producers : q # p => pc'[q] = pc[q]
      /\ \A c \in Consumers : pc'[c] = pc[c]
      /\ UNCHANGED <<val, head_i, tail_i, at, elem, got>>
      /\ val[Slot(at[p])] = elem[p]
  <2>1. pc[p] = "push_publish" /\ p \in Threads /\ pc' = [pc EXCEPT ![p] = "push_done"]
    BY DEF PushPublish, Goto, Threads
  <2>2. Commits(p) /\ val[Slot(at[p])] = elem[p]
    BY <1>1, <2>1 DEF CommitSlots, Commits
  <2>3. QED
    BY <1>1, <2>1, <2>2, RingQueueAssumption
    DEF PushPublish, Constructs, TypeOK, Threads, indices, locals
<1> DEFINE n == tail_i - head_i
           m == at[p] - head_i + 1
<1>3. /\ n \in Nat /\ head_i \in Nat /\ tail_i \in Nat
      /\ \A k \in 1 .. n : head_i + k - 1 \in head_i .. tail_i - 1 /\ Contents[k] = Entry(head_i + k - 1)
  BY ContentsSeq
<1>4. m \in 1 .. n /\ head_i + m - 1 = at[p] /\ \A k \in 1 .. n : k # m => head_i + k - 1 # at[p]
  BY <1>1, <1>2, <1>3 DEF CommitInv
<1>5. \A k \in 1 .. n : Contents'[k] = EntryAfter(head_i + k - 1)
  BY <1>2, FifoStateAfter
<1>6. \A q \in Producers : q # p => SameCommit(q)
  BY <1>2 DEF SameCommit, Constructs
<1>7. \A i \in head_i .. tail_i - 1 : i # at[p] => EntryAfter(i) = Entry(i)
  BY <1>2, <1>6, EntryKept
<1>8. Entry(at[p]) = [elem |-> elem[p], ready |-> FALSE]
  <2>1. p \in Committing(at[p]) /\ \A q \in Committing(at[p]) : q = p
    BY <1>1, <1>2 DEF CommitInv, Commits, Committing, Constructs
  <2>2. QED BY <2>1, EntryOfOne DEF Entry
<1>9. EntryAfter(at[p]) = [elem |-> elem[p], ready |-> TRUE]
  <2>1. CommittingAfter(at[p]) = {}
    BY <1>1, <1>2 DEF CommitInv, Commits, CommittingAfter, Constructs
  <2>2. QED BY <1>2, <2>1 DEF EntryAfter, EntryOf
<1>10. Contents \in [1 .. n -> Entries] /\ Contents' \in [1 .. n -> Entries]
  BY <1>2 DEF ContentsTyped
<1> HIDE DEF n, m
<1>11. /\ Contents[m] = [elem |-> elem[p], ready |-> FALSE]
       /\ Contents'[m] = [elem |-> elem[p], ready |-> TRUE]
       /\ \A k \in 1 .. n : k # m => Contents'[k] = Contents[k]
  BY <1>3, <1>4, <1>5, <1>7, <1>8, <1>9
<1>12. Contents' = [Contents EXCEPT ![m].ready = TRUE]
  <2>1. [Contents[m] EXCEPT !.ready = TRUE] = Contents'[m]
    <3>1. Contents[m] \in Entries
      BY <1>4, <1>10
    <3>2. Contents[m].elem = elem[p]
      BY <1>11
    <3>3. QED BY <1>11, <3>1, <3>2, MadeReady
  <2>2. Contents' = [Contents EXCEPT ![m] = Contents'[m]]
    BY <1>4, <1>10, <1>11
  <2>3. QED BY <2>1, <2>2
<1>13. m \in DOMAIN Contents /\ ~Contents[m].ready
  BY <1>4, <1>10, <1>11
<1>14. Holding' = Holding
  BY <1>2, FifoState, FifoStateAfter DEF HeldOf, Slot
<1>15. QED BY <1>12, <1>13, <1>14 DEF F!Publish

(* A pop that claims the slot at the head takes the oldest element, which   *)
(* has been published.                                                      *)
LEMMA FifoTake ==
  ASSUME Inv, Inv', ContentsTyped, ContentsTyped', NEW c \in Consumers, PopAdvance(c)
  PROVE  F!Take(c)
<1>1. TypeOK /\ LockInv /\ CheckInv
  BY DEF Inv, TypeInv, RingInv
<1>2. /\ at[c] = head_i /\ head_i < tail_i /\ Committed(head_i)
      /\ pc[c] = "pop_advance" /\ pc'[c] = "pop_take"
      /\ \A d \in Consumers : d # c => pc'[d] = pc[d]
      /\ \A q \in Producers : pc'[q] = pc[q]
      /\ head_i' = head_i + 1 /\ UNCHANGED <<val, tail_i, at, elem, got>>
  <2>1. pc[c] = "pop_advance" /\ c \in Threads /\ pc' = [pc EXCEPT ![c] = "pop_take"]
    BY DEF PopAdvance, Goto, Threads
  <2>2. at[c] = head_i /\ head_i < tail_i /\ Committed(head_i)
    BY <1>1, <2>1 DEF LockInv, CheckInv, PopCheck, HoldsHead
  <2>3. QED
    BY <1>1, <2>1, <2>2, RingQueueAssumption
    DEF PopAdvance, TypeOK, Threads, slots, locals
<1> DEFINE n == tail_i - head_i
<1>3. /\ n \in Nat /\ head_i \in Nat /\ tail_i \in Nat
      /\ \A k \in 1 .. n : head_i + k - 1 \in head_i .. tail_i - 1 /\ Contents[k] = Entry(head_i + k - 1)
  BY ContentsSeq
<1>4. n # 0 /\ tail_i' - head_i' = n - 1
  BY <1>2, <1>3
<1>5. \A k \in 1 .. n - 1 : Contents'[k] = EntryAfter(head_i + (k + 1) - 1)
  <2>1. \A k \in 1 .. n - 1 : head_i' + k - 1 = head_i + (k + 1) - 1
    BY <1>2, <1>3
  <2>2. Contents' = [k \in 1 .. n - 1 |-> EntryAfter(head_i' + k - 1)]
    BY <1>4, FifoStateAfter
  <2>3. QED BY <2>1, <2>2
<1>6. \A q \in Producers : SameCommit(q)
  BY <1>2 DEF SameCommit, Constructs
<1>7. \A i : EntryAfter(i) = Entry(i)
  BY <1>2, <1>6, EntryKept
<1>8. Contents \in [1 .. n -> Entries] /\ Contents' \in [1 .. n - 1 -> Entries]
  BY <1>4 DEF ContentsTyped
<1>9. Entry(head_i) = [elem |-> val[Slot(head_i)], ready |-> TRUE]
  <2>1. Committing(head_i) = {}
    BY <1>2 DEF Committed, Committing, Commits
  <2>2. QED BY <2>1 DEF Entry, EntryOf
<1>10. Contents[1] = [elem |-> val[Slot(head_i)], ready |-> TRUE]
  <2>1. 1 \in 1 .. n /\ head_i + 1 - 1 = head_i
    BY <1>3, <1>4
  <2> HIDE DEF n
  <2>2. QED BY <1>3, <1>9, <2>1
<1>11. \A k \in 1 .. n - 1 : Contents'[k] = Contents[k + 1]
  <2>1. \A k \in 1 .. n - 1 : k + 1 \in 1 .. n
    BY <1>3
  <2> HIDE DEF n
  <2>2. QED BY <1>3, <1>5, <1>7, <2>1
<1> HIDE DEF n
<1>12. Contents' = Tail(Contents) /\ Head(Contents) = Contents[1] /\ Contents # <<>>
  BY <1>3, <1>4, <1>8, <1>11, SeqTail
<1>13. HeldOf(c) = NoValue /\ HeldOf(c)' = val[Slot(head_i)]
  BY <1>2 DEF HeldOf, Slot
<1>14. \A d \in Consumers : d # c => HeldOf(d)' = HeldOf(d)
  BY <1>2 DEF HeldOf, Slot
<1>15. Holding[c] = NoValue /\ Holding' = [Holding EXCEPT ![c] = val[Slot(head_i)]]
  BY <1>13, <1>14, FifoState, FifoStateAfter
<1>16. Head(Contents).ready /\ Head(Contents).elem = val[Slot(head_i)]
  BY <1>10, <1>12
<1>17. QED BY <1>12, <1>15, <1>16 DEF F!Take

(* The return of pop() delivers the element.                                *)
LEMMA FifoDeliver ==
  ASSUME Inv, NEW c \in Consumers, PopDone(c)
  PROVE  F!Deliver(c)
<1>1. TypeOK /\ DrainSlots
  BY DEF Inv, TypeInv, RingInv, SlotsInv
<1>2. /\ pc[c] = "pop_done" /\ pc'[c] = "idle"
      /\ \A d \in Consumers : d # c => pc'[d] = pc[d]
      /\ \A q \in Producers : pc'[q] = pc[q]
      /\ UNCHANGED <<val, head_i, tail_i, at, elem, got>>
  BY <1>1, RingQueueAssumption DEF PopDone, Goto, TypeOK, Threads, indices, locals
<1>3. got[c] # NoValue
  BY <1>1, <1>2, KeyFacts DEF DrainSlots, Drains
<1>4. \A q \in Producers : SameCommit(q)
  BY <1>2 DEF SameCommit, Constructs
<1>5. \A i : EntryAfter(i) = Entry(i)
  BY <1>2, <1>4, EntryKept
<1>6. Contents' = Contents
  BY <1>2, <1>5, FifoState, FifoStateAfter
<1>7. HeldOf(c) = got[c] /\ HeldOf(c)' = NoValue
  BY <1>2 DEF HeldOf
<1>8. \A d \in Consumers : d # c => HeldOf(d)' = HeldOf(d)
  BY <1>2 DEF HeldOf, Slot
<1>9. Holding[c] # NoValue /\ Holding' = [Holding EXCEPT ![c] = NoValue]
  BY <1>3, <1>7, <1>8, FifoState, FifoStateAfter
<1>10. QED BY <1>6, <1>9 DEF F!Deliver

(* The ring at the start is the queue at the start.                         *)
LEMMA FifoInit == Init => F!Init
<1> SUFFICES ASSUME Init PROVE F!Init
  OBVIOUS
<1>1. /\ Capacity \in Nat \ {0} /\ Preloaded \in 0 .. Capacity
      /\ \A p \in Producers : pc[p] = "idle"
      /\ \A c \in Consumers : pc[c] = "idle"
      /\ head_i = 0 /\ tail_i = Preloaded
  BY RingQueueAssumption DEF Init, Threads
<1>2. ASSUME NEW k \in 1 .. Preloaded
      PROVE  Entry(0 + k - 1) = [elem |-> k, ready |-> TRUE]
  <2>1. 0 + k - 1 \in 0 .. Capacity - 1 /\ 0 + k - 1 \in Nat
        /\ 0 + k - 1 < Preloaded /\ 0 + k - 1 + 1 = k
    BY <1>1
  <2>2. Slot(0 + k - 1) = 0 + k - 1 /\ 0 + k - 1 \in SlotIndex
    BY <1>1, <2>1, ModUnique DEF Slot, SlotIndex
  <2>3. val[Slot(0 + k - 1)] = k
    BY <2>1, <2>2 DEF Init
  <2>4. Committing(0 + k - 1) = {}
    BY <1>1 DEF Committing
  <2>5. QED BY <2>3, <2>4 DEF Entry, EntryOf
<1>3. Contents = [k \in 1 .. Preloaded |-> [elem |-> k, ready |-> TRUE]]
  <2>1. Contents = [k \in 1 .. Preloaded |-> Entry(0 + k - 1)]
    BY <1>1, FifoState
  <2>2. QED BY <1>2, <2>1
<1>4. Holding = [c \in Consumers |-> NoValue]
  BY <1>1, FifoState DEF HeldOf
<1>5. QED BY <1>3, <1>4 DEF F!Init

(* Every step of the ring is a step of the queue, or none.                  *)
LEMMA FifoStep ==
  Inv /\ Inv' /\ ContentsTyped /\ ContentsTyped' /\ [Next]_vars => [F!Next]_(F!vars)
<1> SUFFICES ASSUME Inv, Inv', ContentsTyped, ContentsTyped', [Next]_vars
             PROVE  F!Next \/ UNCHANGED <<Contents, Holding>>
  BY DEF F!vars
<1>1. ASSUME NEW p \in Producers, PushCall(p) \/ PushStep(p)
      PROVE  F!Next \/ UNCHANGED <<Contents, Holding>>
  <2>1. CASE PushAdvance(p)
    BY <2>1, FifoEnter DEF F!Next
  <2>2. CASE PushPublish(p)
    BY <2>2, FifoPublish DEF F!Next
  <2>3. CASE ~PushAdvance(p) /\ ~PushPublish(p)
    BY <1>1, <2>3, FifoPushQuiet, FifoConstruct DEF PushStep
  <2>4. QED BY <2>1, <2>2, <2>3
<1>2. ASSUME NEW c \in Consumers, PopCall(c) \/ PopStep(c) \/ EmptyCall(c) \/ EmptyStep(c)
      PROVE  F!Next \/ UNCHANGED <<Contents, Holding>>
  <2>1. CASE PopAdvance(c)
    BY <2>1, FifoTake DEF F!Next
  <2>2. CASE PopDone(c)
    BY <2>2, FifoDeliver DEF F!Next
  <2>3. CASE ~PopAdvance(c) /\ ~PopDone(c)
    BY <1>2, <2>3, FifoPopQuiet, FifoMove DEF PopStep, EmptyStep
  <2>4. QED BY <2>1, <2>2, <2>3
<1>3. CASE UNCHANGED vars
  <2>1. UNCHANGED <<val, pc, at, elem, got, head_i, tail_i>>
    BY <1>3 DEF vars, slots, indices, locals
  <2>2. QED BY <2>1 DEF Contents, Holding, Committing, Slot
<1>4. QED BY <1>1, <1>2, <1>3 DEF Next

(* In either environment the queue implements the bounded FIFO queue:       *)
(* elements leave in the order in which their pushes claimed their slots,   *)
(* each once, and only published ones; the queue never holds more than its  *)
(* capacity.                                                                *)
THEOREM RingQueueImplementsFifo ==
  ASSUME Environment
  PROVE  Spec => ImplementsFifo
<1>1. Spec => []Inv
  BY InvAlways
<1>2. Inv => ContentsTyped
  BY ContentsSeq DEF ContentsTyped
<1>3. Init => F!Init
  BY FifoInit
<1>4. Inv /\ Inv' /\ ContentsTyped /\ ContentsTyped' /\ [Next]_vars => [F!Next]_(F!vars)
  BY FifoStep
<1>5. QED BY <1>1, <1>2, <1>3, <1>4, PTL DEF Spec, ImplementsFifo, F!Spec
=============================================================================
