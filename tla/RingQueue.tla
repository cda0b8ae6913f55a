------------------------------ MODULE RingQueue ------------------------------
(***************************************************************************)
(* RingAtomicMapQueueMPMC<Key, Value> of Chapter07/06_concurrent_queue:    *)
(* the key-value queue, whose push and pop hold the tail or the head lock  *)
(* only until they have claimed a slot, and commit outside it.             *)
(*                                                                         *)
(* One action per access of the shared state, so that every interleaving   *)
(* of the key, busy, value and index accesses of all threads is explored.  *)
(* The locks are the SpinLock of module SpinLock, seen through module Lock.*)
(* Memory is sequentially consistent (the slot accesses are acquire loads  *)
(* and release stores of single atomics; weaker orders are not modelled).  *)
(*                                                                         *)
(* The n-th call of push() passes the element n: a value that tells the    *)
(* calls apart, and the key KeyOf(n).  Indices do not wrap: the capacity   *)
(* is a power of two, so 2^64 is a multiple of it.                         *)
(***************************************************************************)
EXTENDS Naturals, Sequences, FiniteSets

CONSTANTS
  Producers,    (* the threads that call push()                             *)
  Consumers,    (* the threads that call pop() and empty()                  *)
  Capacity,     (* capacity_                                                *)
  NTRY,         (* probes of a slot before push() gives up                  *)
  KeyOf(_),     (* the key the n-th push passes                             *)
  NoKey,        (* Key{}, the mark of an empty slot                         *)
  NoValue,      (* no value is constructed                                  *)
  NoThread,     (* a lock that is free                                      *)
  Preloaded,    (* elements pushed before the threads start                 *)
  MaxPush,      (* bound of the model: calls of push()                      *)
  Credits       (* the callers keep at most this many elements in flight    *)

ASSUME RingQueueAssumption ==
  /\ Producers \cap Consumers = {}
  /\ NoThread \notin Producers \cup Consumers
  /\ Capacity \in Nat \ {0}
  /\ NTRY \in Nat \ {0}
  /\ Preloaded \in 0 .. Capacity
  /\ MaxPush \in Nat /\ Preloaded <= MaxPush
  /\ Credits \in Nat
  /\ \A n \in 1 .. MaxPush : KeyOf(n) # NoKey
  /\ NoValue \notin 1 .. MaxPush

VARIABLES
  key, busy, val,   (* the slots                                            *)
  head_i, head_l,   (* head_: the index and the holder of its lock          *)
  tail_i, tail_l,   (* tail_                                                *)
  calls,            (* calls of push() made so far                          *)
  pc,               (* where each thread is                                 *)
  at,               (* the index of the slot its reference names            *)
  elem,             (* producer: the element it pushes                      *)
  tries,            (* producer: failed probes of this call                 *)
  ret,              (* consumer: its local ret, the key read first          *)
  got               (* consumer: the value moved out                        *)

slots   == <<key, busy, val>>
indices == <<head_i, tail_i>>
locks   == <<head_l, tail_l>>
locals  == <<at, elem, tries, ret, got>>
vars    == <<slots, indices, locks, calls, pc, locals>>

Threads   == Producers \cup Consumers
SlotIndex == 0 .. Capacity - 1
Elements  == 1 .. MaxPush
Keys      == {KeyOf(n) : n \in Elements}

(* queue_[i & capacity_mask_]                                               *)
Slot(i) == i % Capacity

(* The pcs of a thread inside the critical sections, ...                    *)
Probing   == {"push_key", "push_busy", "push_recheck"}
HoldsTail == Probing \cup {"push_claim", "push_advance", "push_full"}
HoldsHead == {"pop_key", "pop_busy", "pop_recheck", "pop_claim", "pop_advance",
              "pop_none", "empty_key"}
(* ... and of a thread that owns its slot, from the check it passed to the  *)
(* store of busy that ends its commit.                                      *)
PushOwns  == {"push_claim", "push_advance", "push_construct", "push_publish", "push_done"}
PopOwns   == {"pop_claim", "pop_advance", "pop_take", "pop_clear", "pop_done"}

ProducerPCs == {"idle", "push_lock"} \cup HoldsTail \cup PushOwns
ConsumerPCs == {"idle", "pop_lock", "empty_lock"} \cup HoldsHead \cup PopOwns

Goto(t, l) == pc' = [pc EXCEPT ![t] = l]

(* The slot and the locals of a quiescent queue that holds the elements     *)
(* 1 .. Preloaded.                                                          *)
Init ==
  /\ key = [s \in SlotIndex |-> IF s < Preloaded THEN KeyOf(s + 1) ELSE NoKey]
  /\ busy = [s \in SlotIndex |-> 0]
  /\ val = [s \in SlotIndex |-> IF s < Preloaded THEN s + 1 ELSE NoValue]
  /\ head_i = 0 /\ tail_i = Preloaded
  /\ head_l = NoThread /\ tail_l = NoThread
  /\ calls = Preloaded
  /\ pc = [t \in Threads |-> "idle"]
  /\ at = [t \in Threads |-> 0]
  /\ elem = [p \in Producers |-> 0]
  /\ tries = [p \in Producers |-> 0]
  /\ ret = [c \in Consumers |-> NoKey]
  /\ got = [c \in Consumers |-> NoValue]

(* Elements in flight: in the ring, on their way in, or not yet delivered.  *)
Entering ==
  {p \in Producers : pc[p] \in Probing \cup {"push_lock", "push_claim", "push_advance"}}
Delivering ==
  {c \in Consumers : pc[c] \in {"pop_take", "pop_clear", "pop_done"}}
InFlight == (tail_i - head_i) + Cardinality(Entering) + Cardinality(Delivering)

-----------------------------------------------------------------------------
(* push(key, value)                                                         *)

PushCall(p) ==
  /\ pc[p] = "idle"
  /\ calls < MaxPush
  /\ InFlight < Credits
  /\ calls' = calls + 1
  /\ elem' = [elem EXCEPT ![p] = calls + 1]
  /\ tries' = [tries EXCEPT ![p] = 0]
  /\ Goto(p, "push_lock")
  /\ UNCHANGED <<slots, indices, locks, at, ret, got>>

PushLock_NotTaken(p) ==        \* mutant: the lock is not taken
  /\ pc[p] = "push_lock"
  /\ at' = [at EXCEPT ![p] = tail_i]
  /\ Goto(p, "push_key")
  /\ UNCHANGED <<slots, indices, locks, calls, elem, tries, ret, got>>

PushLock(p) ==
  /\ pc[p] = "push_lock"
  /\ tail_l = NoThread
  /\ tail_l' = p
  /\ at' = [at EXCEPT ![p] = tail_i]
  /\ Goto(p, "push_key")
  /\ UNCHANGED <<slots, indices, head_l, calls, elem, tries, ret, got>>

PushRetry_OneMore(p) ==        \* mutant: off by one in the NTRY loop
  /\ tries' = [tries EXCEPT ![p] = @ + 1]
  /\ Goto(p, IF tries[p] = NTRY THEN "push_full" ELSE "push_key")

(* One failed probe of the NTRY loop.                                       *)
PushRetry(p) ==
  /\ tries' = [tries EXCEPT ![p] = @ + 1]
  /\ Goto(p, IF tries[p] + 1 = NTRY THEN "push_full" ELSE "push_key")

Probe(p, here, stable, next) ==
  /\ pc[p] = here
  /\ \/ stable /\ Goto(p, next) /\ UNCHANGED tries
     \/ ~stable /\ PushRetry(p)
  /\ UNCHANGED <<slots, indices, locks, calls, at, elem, ret, got>>

(* The key -> busy -> key sequence                                          *)
PushKey(p)  == Probe(p, "push_key", key[Slot(at[p])] = NoKey, "push_busy")

PushBusy_Skipped(p) ==         \* mutant: the busy flag does not count
  Probe(p, "push_busy", TRUE, "push_recheck")
PushBusy(p) == Probe(p, "push_busy", busy[Slot(at[p])] = 0, "push_recheck")

PushRecheck(p) == Probe(p, "push_recheck", key[Slot(at[p])] = NoKey, "push_claim")

PushClaim(p) ==
  /\ pc[p] = "push_claim"
  /\ busy' = [busy EXCEPT ![Slot(at[p])] = 1]
  /\ Goto(p, "push_advance")
  /\ UNCHANGED <<key, val, indices, locks, calls, locals>>

(* ++tail_.i; l.unlock();                                                   *)
PushAdvance(p) ==
  /\ pc[p] = "push_advance"
  /\ tail_i' = tail_i + 1
  /\ tail_l' = NoThread
  /\ Goto(p, "push_construct")
  /\ UNCHANGED <<slots, head_i, head_l, calls, locals>>

PushConstruct(p) ==
  /\ pc[p] = "push_construct"
  /\ val' = [val EXCEPT ![Slot(at[p])] = elem[p]]
  /\ Goto(p, "push_publish")
  /\ UNCHANGED <<key, busy, indices, locks, calls, locals>>

PushPublish(p) ==
  /\ pc[p] = "push_publish"
  /\ key' = [key EXCEPT ![Slot(at[p])] = KeyOf(elem[p])]
  /\ Goto(p, "push_done")
  /\ UNCHANGED <<busy, val, indices, locks, calls, locals>>

PushDone_StaysBusy(p) ==       \* mutant: busy is never cleared
  /\ pc[p] = "push_done"
  /\ Goto(p, "idle")
  /\ UNCHANGED <<slots, indices, locks, calls, locals>>

(* busy.store(0); return true;                                              *)
PushDone(p) ==
  /\ pc[p] = "push_done"
  /\ busy' = [busy EXCEPT ![Slot(at[p])] = 0]
  /\ Goto(p, "idle")
  /\ UNCHANGED <<key, val, indices, locks, calls, locals>>

(* return false; the lock is released by its guard                          *)
PushFull(p) ==
  /\ pc[p] = "push_full"
  /\ tail_l' = NoThread
  /\ Goto(p, "idle")
  /\ UNCHANGED <<slots, indices, head_l, calls, locals>>

PushStep(p) ==
  \/ PushLock(p) \/ PushKey(p) \/ PushBusy(p) \/ PushRecheck(p) \/ PushClaim(p)
  \/ PushAdvance(p) \/ PushConstruct(p) \/ PushPublish(p) \/ PushDone(p) \/ PushFull(p)

-----------------------------------------------------------------------------
(* pop(value)                                                               *)

PopCall(c) ==
  /\ pc[c] = "idle"
  /\ Goto(c, "pop_lock")
  /\ UNCHANGED <<slots, indices, locks, calls, locals>>

PopLock(c) ==
  /\ pc[c] = "pop_lock"
  /\ head_l = NoThread
  /\ head_l' = c
  /\ at' = [at EXCEPT ![c] = head_i]
  /\ Goto(c, "pop_key")
  /\ UNCHANGED <<slots, indices, tail_l, calls, elem, tries, ret, got>>

PopKey(c) ==
  /\ pc[c] = "pop_key"
  /\ ret' = [ret EXCEPT ![c] = key[Slot(at[c])]]
  /\ Goto(c, IF ret'[c] = NoKey THEN "pop_none" ELSE "pop_busy")
  /\ UNCHANGED <<slots, indices, locks, calls, at, elem, tries, got>>

PopBusy_Empty(c) ==            \* mutant: a busy slot is reported as empty
  /\ pc[c] = "pop_busy"
  /\ Goto(c, IF busy[Slot(at[c])] = 0 THEN "pop_recheck" ELSE "pop_none")
  /\ UNCHANGED <<slots, indices, locks, calls, locals>>

(* A slot that is not stable is probed again; the load of busy that decides *)
(* whether to yield first changes nothing and is left out.                  *)
PopBusy(c) ==
  /\ pc[c] = "pop_busy"
  /\ Goto(c, IF busy[Slot(at[c])] = 0 THEN "pop_recheck" ELSE "pop_key")
  /\ UNCHANGED <<slots, indices, locks, calls, locals>>

PopRecheck_Skipped(c) ==       \* mutant: the key is not read again
  /\ pc[c] = "pop_recheck"
  /\ Goto(c, "pop_claim")
  /\ UNCHANGED <<slots, indices, locks, calls, locals>>

PopRecheck(c) ==
  /\ pc[c] = "pop_recheck"
  /\ Goto(c, IF key[Slot(at[c])] = ret[c] THEN "pop_claim" ELSE "pop_key")
  /\ UNCHANGED <<slots, indices, locks, calls, locals>>

PopClaim(c) ==
  /\ pc[c] = "pop_claim"
  /\ busy' = [busy EXCEPT ![Slot(at[c])] = 1]
  /\ Goto(c, "pop_advance")
  /\ UNCHANGED <<key, val, indices, locks, calls, locals>>

(* ++head_.i; l.unlock();                                                   *)
PopAdvance(c) ==
  /\ pc[c] = "pop_advance"
  /\ head_i' = head_i + 1
  /\ head_l' = NoThread
  /\ Goto(c, "pop_take")
  /\ UNCHANGED <<slots, tail_i, tail_l, calls, locals>>

PopTake_NoDestructor(c) ==     \* mutant: the moved-from value is not destroyed
  /\ pc[c] = "pop_take"
  /\ got' = [got EXCEPT ![c] = val[Slot(at[c])]]
  /\ Goto(c, "pop_clear")
  /\ UNCHANGED <<slots, indices, locks, calls, at, elem, tries, ret>>

(* value = std::move(slot.value); slot.value.~Value();                      *)
PopTake(c) ==
  /\ pc[c] = "pop_take"
  /\ got' = [got EXCEPT ![c] = val[Slot(at[c])]]
  /\ val' = [val EXCEPT ![Slot(at[c])] = NoValue]
  /\ Goto(c, "pop_clear")
  /\ UNCHANGED <<key, busy, indices, locks, calls, at, elem, tries, ret>>

PopClear(c) ==
  /\ pc[c] = "pop_clear"
  /\ key' = [key EXCEPT ![Slot(at[c])] = NoKey]
  /\ Goto(c, "pop_done")
  /\ UNCHANGED <<busy, val, indices, locks, calls, locals>>

PopDone_StaysBusy(c) ==        \* mutant: busy is never cleared
  /\ pc[c] = "pop_done"
  /\ Goto(c, "idle")
  /\ UNCHANGED <<slots, indices, locks, calls, locals>>

(* busy.store(0); return ret;                                               *)
PopDone(c) ==
  /\ pc[c] = "pop_done"
  /\ busy' = [busy EXCEPT ![Slot(at[c])] = 0]
  /\ Goto(c, "idle")
  /\ UNCHANGED <<key, val, indices, locks, calls, locals>>

(* return Key{}; the lock is released by its guard                          *)
PopNone(c) ==
  /\ pc[c] = "pop_none"
  /\ head_l' = NoThread
  /\ Goto(c, "idle")
  /\ UNCHANGED <<slots, indices, tail_l, calls, locals>>

PopStep(c) ==
  \/ PopLock(c) \/ PopKey(c) \/ PopBusy(c) \/ PopRecheck(c) \/ PopClaim(c)
  \/ PopAdvance(c) \/ PopTake(c) \/ PopClear(c) \/ PopDone(c) \/ PopNone(c)

-----------------------------------------------------------------------------
(* empty()                                                                  *)

EmptyCall(c) ==
  /\ pc[c] = "idle"
  /\ Goto(c, "empty_lock")
  /\ UNCHANGED <<slots, indices, locks, calls, locals>>

EmptyLock(c) ==
  /\ pc[c] = "empty_lock"
  /\ head_l = NoThread
  /\ head_l' = c
  /\ at' = [at EXCEPT ![c] = head_i]
  /\ Goto(c, "empty_key")
  /\ UNCHANGED <<slots, indices, tail_l, calls, elem, tries, ret, got>>

(* The load; the answer is the key it saw, kept in ret.                     *)
EmptyKey(c) ==
  /\ pc[c] = "empty_key"
  /\ ret' = [ret EXCEPT ![c] = key[Slot(at[c])]]
  /\ head_l' = NoThread
  /\ Goto(c, "idle")
  /\ UNCHANGED <<slots, indices, tail_l, calls, at, elem, tries, got>>

EmptyStep(c) == EmptyLock(c) \/ EmptyKey(c)

-----------------------------------------------------------------------------
Next ==
  \/ \E p \in Producers : PushCall(p) \/ PushStep(p)
  \/ \E c \in Consumers : PopCall(c) \/ PopStep(c) \/ EmptyCall(c) \/ EmptyStep(c)

Spec == Init /\ [][Next]_vars

(* A thread inside a call keeps being scheduled.                            *)
FairSpec ==
  /\ Spec
  /\ \A p \in Producers : WF_vars(PushStep(p))
  /\ \A c \in Consumers : WF_vars(PopStep(c)) /\ WF_vars(EmptyStep(c))

-----------------------------------------------------------------------------
TypeOK ==
  /\ key \in [SlotIndex -> Keys \cup {NoKey}]
  /\ busy \in [SlotIndex -> {0, 1}]
  /\ val \in [SlotIndex -> Elements \cup {NoValue}]
  /\ head_i \in Nat /\ tail_i \in Nat
  /\ head_l \in Consumers \cup {NoThread}
  /\ tail_l \in Producers \cup {NoThread}
  /\ calls \in 0 .. MaxPush
  /\ \A p \in Producers : pc[p] \in ProducerPCs
  /\ \A c \in Consumers : pc[c] \in ConsumerPCs
  /\ pc \in [Threads -> ProducerPCs \cup ConsumerPCs]
  /\ at \in [Threads -> Nat]
  /\ elem \in [Producers -> Elements \cup {0}]
  /\ tries \in [Producers -> 0 .. NTRY]
  /\ ret \in [Consumers -> Keys \cup {NoKey}]
  /\ got \in [Consumers -> Elements \cup {NoValue}]

Owns(t) == pc[t] \in PushOwns \cup PopOwns

(* No two threads are between their check of a slot and the end of their    *)
(* commit on the same slot: the value is never constructed, moved or        *)
(* destroyed by two threads at once ("from here on this slot is owned by    *)
(* this thread, guarded by busy/key alone", lines 175-176).                 *)
SlotsAreExclusive ==
  \A t, u \in Threads :
    Owns(t) /\ Owns(u) /\ Slot(at[t]) = Slot(at[u]) => t = u

(* "The key->busy->key sequence ensures the slot didn't transition while we *)
(* were reading" (lines 167-168): a thread that passed the check is alone   *)
(* on its slot.  The code does not ensure this: see the README.             *)
CheckMeansStable ==
  \A t, u \in Threads :
    pc[t] \in {"push_claim", "pop_claim"} /\ Owns(u) /\ Slot(at[t]) = Slot(at[u]) => t = u

(* "If the queue is not empty, pop() would have succeeded were it done      *)
(* instead of empty()" (lines 299-300): when empty() is about to answer     *)
(* false, the queue holds an element.  It may not: see the README.          *)
NotEmptyMeansPoppable ==
  \A c \in Consumers :
    pc[c] = "empty_key" /\ key[Slot(at[c])] # NoKey => head_i < tail_i

(* pop() delivers the value that was pushed with the key it returns.        *)
PairsStayTogether ==
  \A c \in Consumers :
    pc[c] \in {"pop_clear", "pop_done"} => got[c] # NoValue /\ ret[c] = KeyOf(got[c])

(* pop() reports an empty queue only if no slot is claimed at the head, or  *)
(* if the push that claimed it has not published its element yet: elements  *)
(* of later slots are never stranded behind a slot that is merely busy      *)
(* (lines 258-264).                                                         *)
EmptyIsJustified ==
  [][\A c \in Consumers :
       pc[c] # "pop_none" /\ pc'[c] = "pop_none" =>
         \/ head_i = tail_i
         \/ \E p \in Producers :
              pc[p] \in {"push_construct", "push_publish"} /\ at[p] = head_i]_vars

(* push() gives up only if, at its last probe, the element that was in the  *)
(* slot a lap of the ring earlier had not left it (lines 192-194).          *)
FullIsJustified ==
  [][\A p \in Producers :
       pc[p] # "push_full" /\ pc'[p] = "push_full" =>
         /\ at[p] >= Capacity
         /\ \/ head_i <= at[p] - Capacity
            \/ \E c \in Consumers : pc[c] \in PopOwns /\ at[c] = at[p] - Capacity]_vars

(* The slots the destructor drains, from head_.i to tail_.i                 *)
DestructorDrains == {Slot(i) : i \in head_i .. (tail_i - 1)}

(* Once the threads have quiesced, the destructor destroys each value that  *)
(* is constructed, once, and nothing else, and leaves a ring of empty slots *)
(* ("every slot in [head_.i, tail_.i) holds a constructed value").          *)
DestructorIsSafe ==
  (\A t \in Threads : pc[t] = "idle") =>
    /\ head_i <= tail_i /\ tail_i - head_i <= Capacity
    /\ \A s \in SlotIndex :
         /\ busy[s] = 0
         /\ val[s] # NoValue <=> s \in DestructorDrains
         /\ key[s] # NoKey <=> s \in DestructorDrains

(* The queue implements the bounded FIFO queue of module Fifo.              *)
Committing(i) ==
  {p \in Producers : pc[p] \in {"push_construct", "push_publish"} /\ at[p] = i}

Contents ==
  [n \in 1 .. (tail_i - head_i) |->
     LET i == head_i + n - 1 IN
     IF Committing(i) = {} THEN [elem |-> val[Slot(i)], ready |-> TRUE]
     ELSE [elem |-> elem[CHOOSE p \in Committing(i) : TRUE], ready |-> FALSE]]

Holding ==
  [c \in Consumers |-> CASE pc[c] = "pop_take" -> val[Slot(at[c])]
                         [] pc[c] \in {"pop_clear", "pop_done"} -> got[c]
                         [] OTHER -> NoValue]

F == INSTANCE Fifo WITH
       Initial <- [n \in 1 .. Preloaded |-> [elem |-> n, ready |-> TRUE]],
       Nothing <- NoValue, queue <- Contents, holding <- Holding

ImplementsFifo == F!Spec
=============================================================================
