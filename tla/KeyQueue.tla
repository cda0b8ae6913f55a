------------------------------ MODULE KeyQueue ------------------------------
(***************************************************************************)
(* RingAtomicMapQueueMPMC<Key, void> of Chapter07/06_concurrent_queue: the *)
(* key-only queue.  A slot is one atomic key; push and pop do all of their *)
(* work under the tail or the head lock, and meet only in the slot.        *)
(*                                                                         *)
(* One action per access of the shared state.  Indices do not wrap: the    *)
(* capacity is a power of two, so 2^64 is a multiple of it.                *)
(***************************************************************************)
EXTENDS Naturals, Sequences

CONSTANTS
  Producers,    (* the threads that call push()                             *)
  Consumers,    (* the threads that call pop() and empty()                  *)
  Keys,         (* what is pushed                                           *)
  NoKey,        (* Key{}, the mark of an empty slot                         *)
  Capacity,     (* capacity_                                                *)
  NTRY,         (* probes of a slot before push() gives up                  *)
  NoThread,     (* a lock that is free                                      *)
  MaxPush       (* bound of the model: elements ever pushed                 *)

ASSUME KeyQueueAssumption ==
  /\ Producers \cap Consumers = {}
  /\ NoThread \notin Producers \cup Consumers
  /\ NoKey \notin Keys /\ Keys # {}
  /\ Capacity \in Nat \ {0}
  /\ NTRY \in Nat \ {0}
  /\ MaxPush \in Nat

VARIABLES
  key,              (* the slots                                            *)
  head_i, head_l,   (* head_: the index and the holder of its lock          *)
  tail_i, tail_l,   (* tail_                                                *)
  pc,               (* where each thread is                                 *)
  arg,              (* producer: the key it pushes                          *)
  tries,            (* producer: failed probes of this call                 *)
  ret               (* consumer: the key it read, which it returns          *)

head   == <<head_i, head_l>>
tail   == <<tail_i, tail_l>>
locals == <<arg, tries, ret>>
vars   == <<key, head, tail, pc, locals>>

Threads   == Producers \cup Consumers
SlotIndex == 0 .. Capacity - 1

(* queue_[i & capacity_mask_]                                               *)
Slot(i) == i % Capacity

HoldsTail == {"push_key", "push_store", "push_advance", "push_full"}
HoldsHead == {"pop_key", "pop_clear", "pop_advance", "pop_none", "empty_key", "empty_return"}
ProducerPCs == {"idle", "push_lock"} \cup HoldsTail
ConsumerPCs == {"idle", "pop_lock", "empty_lock"} \cup HoldsHead

Goto(t, l) == pc' = [pc EXCEPT ![t] = l]

(* The constructor: every slot zeroed.                                      *)
Init ==
  /\ key = [s \in SlotIndex |-> NoKey]
  /\ head_i = 0 /\ head_l = NoThread
  /\ tail_i = 0 /\ tail_l = NoThread
  /\ pc = [t \in Threads |-> "idle"]
  /\ arg \in [Producers -> Keys]
  /\ tries = [p \in Producers |-> 0]
  /\ ret = [c \in Consumers |-> NoKey]

-----------------------------------------------------------------------------
(* push(key)                                                                *)

PushCall(p) ==
  /\ pc[p] = "idle"
  /\ tail_i < MaxPush
  /\ \E k \in Keys : arg' = [arg EXCEPT ![p] = k]
  /\ tries' = [tries EXCEPT ![p] = 0]
  /\ Goto(p, "push_lock")
  /\ UNCHANGED <<key, head, tail, ret>>

PushLock(p) ==
  /\ pc[p] = "push_lock"
  /\ tail_l = NoThread
  /\ tail_l' = p
  /\ Goto(p, "push_key")
  /\ UNCHANGED <<key, head, tail_i, locals>>

PushKey_OneMore(p) ==          \* mutant: off by one in the NTRY loop
  /\ pc[p] = "push_key"
  /\ \/ /\ key[Slot(tail_i)] = NoKey
        /\ Goto(p, "push_store")
        /\ UNCHANGED tries
     \/ /\ key[Slot(tail_i)] # NoKey
        /\ tries' = [tries EXCEPT ![p] = @ + 1]
        /\ Goto(p, IF tries[p] = NTRY THEN "push_full" ELSE "push_key")
  /\ UNCHANGED <<key, head, tail, arg, ret>>

(* One turn of the NTRY loop                                                *)
PushKey(p) ==
  /\ pc[p] = "push_key"
  /\ \/ /\ key[Slot(tail_i)] = NoKey
        /\ Goto(p, "push_store")
        /\ UNCHANGED tries
     \/ /\ key[Slot(tail_i)] # NoKey
        /\ tries' = [tries EXCEPT ![p] = @ + 1]
        /\ Goto(p, IF tries[p] + 1 = NTRY THEN "push_full" ELSE "push_key")
  /\ UNCHANGED <<key, head, tail, arg, ret>>

PushStore(p) ==
  /\ pc[p] = "push_store"
  /\ key' = [key EXCEPT ![Slot(tail_i)] = arg[p]]
  /\ Goto(p, "push_advance")
  /\ UNCHANGED <<head, tail, locals>>

(* ++tail_.i; return true;                                                  *)
PushAdvance(p) ==
  /\ pc[p] = "push_advance"
  /\ tail_i' = tail_i + 1
  /\ tail_l' = NoThread
  /\ Goto(p, "idle")
  /\ UNCHANGED <<key, head, locals>>

(* return false;                                                            *)
PushFull(p) ==
  /\ pc[p] = "push_full"
  /\ tail_l' = NoThread
  /\ Goto(p, "idle")
  /\ UNCHANGED <<key, head, tail_i, locals>>

PushStep(p) ==
  PushLock(p) \/ PushKey(p) \/ PushStore(p) \/ PushAdvance(p) \/ PushFull(p)

-----------------------------------------------------------------------------
(* pop() and empty()                                                        *)

Call(c) ==
  /\ pc[c] = "idle"
  /\ \E l \in {"pop_lock", "empty_lock"} : Goto(c, l)
  /\ UNCHANGED <<key, head, tail, locals>>

HeadLock(c) ==
  /\ head_l = NoThread
  /\ head_l' = c
  /\ \/ pc[c] = "pop_lock" /\ Goto(c, "pop_key")
     \/ pc[c] = "empty_lock" /\ Goto(c, "empty_key")
  /\ UNCHANGED <<key, head_i, tail, locals>>

PopKey(c) ==
  /\ pc[c] = "pop_key"
  /\ ret' = [ret EXCEPT ![c] = key[Slot(head_i)]]
  /\ Goto(c, IF key[Slot(head_i)] = NoKey THEN "pop_none" ELSE "pop_clear")
  /\ UNCHANGED <<key, head, tail, arg, tries>>

PopClear_Skipped(c) ==         \* mutant: the slot is left occupied
  /\ pc[c] = "pop_clear"
  /\ Goto(c, "pop_advance")
  /\ UNCHANGED <<key, head, tail, locals>>

PopClear(c) ==
  /\ pc[c] = "pop_clear"
  /\ key' = [key EXCEPT ![Slot(head_i)] = NoKey]
  /\ Goto(c, "pop_advance")
  /\ UNCHANGED <<head, tail, locals>>

(* ++head_.i; return ret;                                                   *)
PopAdvance(c) ==
  /\ pc[c] = "pop_advance"
  /\ head_i' = head_i + 1
  /\ head_l' = NoThread
  /\ Goto(c, "idle")
  /\ UNCHANGED <<key, tail, locals>>

EmptyKey(c) ==
  /\ pc[c] = "empty_key"
  /\ ret' = [ret EXCEPT ![c] = key[Slot(head_i)]]
  /\ Goto(c, "empty_return")
  /\ UNCHANGED <<key, head, tail, arg, tries>>

HeadReturn_KeepsLock(c) ==     \* mutant: the early return leaves the lock held
  /\ pc[c] \in {"pop_none", "empty_return"}
  /\ Goto(c, "idle")
  /\ UNCHANGED <<key, head, tail, locals>>

(* return Key{}; and return key == Key{};                                   *)
HeadReturn(c) ==
  /\ pc[c] \in {"pop_none", "empty_return"}
  /\ head_l' = NoThread
  /\ Goto(c, "idle")
  /\ UNCHANGED <<key, head_i, tail, locals>>

ConsumerStep(c) ==
  HeadLock(c) \/ PopKey(c) \/ PopClear(c) \/ PopAdvance(c) \/ EmptyKey(c) \/ HeadReturn(c)

-----------------------------------------------------------------------------
Next ==
  \/ \E p \in Producers : PushCall(p) \/ PushStep(p)
  \/ \E c \in Consumers : Call(c) \/ ConsumerStep(c)

Spec == Init /\ [][Next]_vars

(* A thread inside a call keeps being scheduled.                            *)
FairSpec ==
  /\ Spec
  /\ \A p \in Producers : WF_vars(PushStep(p))
  /\ \A c \in Consumers : WF_vars(ConsumerStep(c))

(* Consumers that poll: each calls pop() again and again.                   *)
PopCall(c) == Call(c) /\ pc'[c] = "pop_lock"

ConsumersPoll == \A c \in Consumers : SF_vars(PopCall(c))

-----------------------------------------------------------------------------
TypeOK ==
  /\ key \in [SlotIndex -> Keys \cup {NoKey}]
  /\ head_i \in Nat /\ tail_i \in Nat
  /\ head_l \in Consumers \cup {NoThread}
  /\ tail_l \in Producers \cup {NoThread}
  /\ pc \in [Threads -> ProducerPCs \cup ConsumerPCs]
  /\ \A p \in Producers : pc[p] \in ProducerPCs
  /\ \A c \in Consumers : pc[c] \in ConsumerPCs
  /\ arg \in [Producers -> Keys]
  /\ tries \in [Producers -> 0 .. NTRY]
  /\ ret \in [Consumers -> Keys \cup {NoKey}]

(* The elements between the indices, seen through the two windows in which  *)
(* a slot is ahead of its index: a key stored before ++tail_.i, and a key   *)
(* cleared before ++head_.i.                                                *)
First == head_i + (IF \E c \in Consumers : pc[c] = "pop_advance" THEN 1 ELSE 0)
Last  == tail_i + (IF \E p \in Producers : pc[p] = "push_advance" THEN 1 ELSE 0)

Items == [n \in 1 .. Last - First |-> key[Slot(First + n - 1)]]

(* What the thread's operation will return, once it has taken effect.       *)
AnswerOf(t) ==
  CASE pc[t] = "push_advance" -> <<"pushed">>
    [] pc[t] = "push_full"    -> <<"full">>
    [] pc[t] = "pop_advance"  -> <<"popped", ret[t]>>
    [] pc[t] = "pop_none"     -> <<"nothing">>
    [] pc[t] = "empty_return" -> IF ret[t] = NoKey THEN <<"empty">> ELSE <<"not empty">>
    [] OTHER -> <<"pending">>

Answer == [t \in Threads |-> AnswerOf(t)]

Q == INSTANCE BoundedQueue WITH items <- Items, answer <- Answer

(* The queue is linearizable: every push, pop and empty takes effect at one *)
(* moment of its call, with the answer of a bounded FIFO queue.  A pop that *)
(* returns Key{} found it empty and a push that returns false found it full *)
(* with Capacity elements, although neither compares head_.i and tail_.i.   *)
Linearizable == Q!Spec

(* Consumers that poll take every element: once the producers are done,     *)
(* none is left in a slot that no pop() reaches, and no thread has left a   *)
(* lock held.                                                               *)
NothingStranded == ConsumersPoll => <>[](head_i = tail_i)
=============================================================================
