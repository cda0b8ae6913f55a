--------------------------- MODULE AtomicSharedPtr ---------------------------
(***************************************************************************)
(* The two atomic shared pointers of Chapter07/08_concurrent_list that     *)
(* carry a mark bit: intr_shared_ptr, whose word holds a lock bit, and     *)
(* parlay::atomic_shared_ptr, which protects what it loads with a hazard   *)
(* pointer.  Threads share one atomic pointer; each has two shared         *)
(* pointers of its own, p and e, which it creates, copies, drops, loads    *)
(* and stores, and compares and swaps with.                                *)
(*                                                                         *)
(* One action per access of the word, and per access of a count that may   *)
(* be the first or the last: a thread that counts up an object it has a    *)
(* reference to is told apart by nobody, nor is a deletion from the release*)
(* before it.  An object's address is used again once it was freed, so that*)
(* ABA is possible where the counts do not exclude it.  The parlay library,*)
(* that is the hazard pointers and when a retired object is freed, is not  *)
(* part of the repository: Protect and Reclaim are what its callers rely on.*)
(***************************************************************************)
EXTENDS Integers, FiniteSets

CONSTANTS
  Threads,
  Objects,      (* the addresses of objects                                 *)
  NoObject      (* nullptr                                                  *)

ASSUME AtomicSharedPtrAssumption == NoObject \notin Objects /\ IsFiniteSet(Threads)

VARIABLES
  impl,         (* which of the two classes: "intr" or "parlay"             *)
  open,         (* the atomic pointer is constructed                        *)
  word, locked, (* aptr_, the lock bit apart; control_block                 *)
  count,        (* the strong count in each object                          *)
  memory,       (* whether the object is free, live, or (parlay) destroyed  *)
                (* and still to be freed                                    *)
  op, pc,       (* the call of each thread and where it is                  *)
  p, e,         (* its shared pointers; e is the `expected' of its CAS      *)
  arg,          (* the `desired' of its call                                *)
  old,          (* `expected' when a strong CAS (parlay) began              *)
  val,          (* what it read from the word                               *)
  drop          (* the objects that it has still to release, in order       *)

memories == <<impl, open, count, memory>>
locals   == <<p, e, arg, old, val>>
vars     == <<memories, word, locked, op, pc, locals, drop>>

Values == [obj : Objects \cup {NoObject}, mark : BOOLEAN]

Nil == [obj |-> NoObject, mark |-> FALSE]

Nothing == <<NoObject, NoObject, NoObject>>

Init ==
  /\ impl \in {"intr", "parlay"}
  /\ open = FALSE
  /\ word = Nil /\ locked = FALSE
  /\ count = [o \in Objects |-> 0]
  /\ memory = [o \in Objects |-> "free"]
  /\ op = [t \in Threads |-> "none"] /\ pc = [t \in Threads |-> "idle"]
  /\ p = [t \in Threads |-> Nil] /\ e = [t \in Threads |-> Nil]
  /\ arg = [t \in Threads |-> Nil]
  /\ old = [t \in Threads |-> Nil] /\ val = [t \in Threads |-> Nil]
  /\ drop = [t \in Threads |-> Nothing]

-----------------------------------------------------------------------------
(* Counting                                                                 *)

One(b) == IF b THEN 1 ELSE 0

AddRefs(v, n) ==
  count' = IF v.obj = NoObject THEN count ELSE [count EXCEPT ![v.obj] = @ + n]

AddRef(v) == AddRefs(v, 1)

Drop(t, v1, v2, v3) == drop' = [drop EXCEPT ![t] = <<v1.obj, v2.obj, v3.obj>>]

At(t, l) == pc[t] = l /\ drop[t] = Nothing

Goto(t, l) == pc' = [pc EXCEPT ![t] = l]

Done(t) == Goto(t, "idle") /\ op' = [op EXCEPT ![t] = "none"]

(* DelRef(), and the deletion by the thread that took the count to 0        *)
DelRef(t) ==
  /\ \E n \in 1 .. 3 :
       /\ drop[t][n] # NoObject /\ \A m \in 1 .. n - 1 : drop[t][m] = NoObject
       /\ count' = [count EXCEPT ![drop[t][n]] = @ - 1]
       /\ memory' = [memory EXCEPT ![drop[t][n]] =
                       IF count[drop[t][n]] > 1 THEN @
                       ELSE IF impl = "intr" THEN "free" ELSE "retired"]
       /\ drop' = [drop EXCEPT ![t][n] = NoObject]
  /\ UNCHANGED <<impl, open, word, locked, op, pc, locals>>

(* What t protects: the object it has read from the word and not counted    *)
Hazard(t) == IF pc[t] = "increment" THEN val[t].obj ELSE NoObject

(* parlay: an object that nobody protects is freed.  The library keeps a    *)
(* hazard pointer until the next one of the thread, which only delays this. *)
Reclaim(o) ==
  /\ memory[o] = "retired"
  /\ \A t \in Threads : Hazard(t) # o
  /\ memory' = [memory EXCEPT ![o] = "free"]
  /\ UNCHANGED <<impl, open, count, word, locked, op, pc, locals, drop>>

-----------------------------------------------------------------------------
(* The threads' own shared pointers                                         *)

(* p adopts a new object.                                                   *)
New(t) ==
  /\ At(t, "idle") /\ p[t].obj = NoObject
  /\ \E o \in Objects :
       /\ memory[o] = "free"
       /\ memory' = [memory EXCEPT ![o] = "live"]
       /\ count' = [count EXCEPT ![o] = 1]
       /\ p' = [p EXCEPT ![t] = [obj |-> o, mark |-> FALSE]]
  /\ UNCHANGED <<impl, open, word, locked, op, pc, e, arg, old, val, drop>>

(* p or e is destroyed, or assigned nullptr.                                *)
Forget(t) ==
  /\ At(t, "idle")
  /\ \/ p[t] # Nil /\ p' = [p EXCEPT ![t] = Nil] /\ Drop(t, p[t], Nil, Nil) /\ UNCHANGED e
     \/ e[t] # Nil /\ e' = [e EXCEPT ![t] = Nil] /\ Drop(t, e[t], Nil, Nil) /\ UNCHANGED p
  /\ UNCHANGED <<memories, word, locked, op, pc, arg, old, val>>

(* e = e.get_unmarked(): the copy is counted before the marked pointer to   *)
(* the same object is released.                                             *)
Unmark(t) ==
  /\ At(t, "idle") /\ e[t].mark
  /\ e' = [e EXCEPT ![t].mark = FALSE]
  /\ AddRef(e[t])
  /\ Drop(t, e[t], Nil, Nil)
  /\ UNCHANGED <<impl, open, memory, word, locked, op, pc, p, arg, old, val>>

-----------------------------------------------------------------------------
(* Calls                                                                    *)

CallLoad(t) ==
  /\ At(t, "idle") /\ open
  /\ op' = [op EXCEPT ![t] = "load"] /\ Goto(t, "enter")
  /\ UNCHANGED <<memories, word, locked, locals, drop>>

(* store(p), or store(std::move(p)): `desired' is taken by value.  The word *)
(* gets a reference of its own in intr_shared_ptr, that of `desired' in     *)
(* atomic_shared_ptr.                                                       *)
CallStore(t) ==
  /\ At(t, "idle") /\ open
  /\ op' = [op EXCEPT ![t] = "store"] /\ Goto(t, "enter")
  /\ arg' = [arg EXCEPT ![t] = p[t]]
  /\ LET own == One(impl = "intr") IN
       \/ AddRefs(p[t], 1 + own) /\ UNCHANGED p
       \/ AddRefs(p[t], own) /\ p' = [p EXCEPT ![t] = Nil]
  /\ UNCHANGED <<impl, open, memory, word, locked, e, old, val, drop>>

(* compare_exchange_strong(e, d), with d a copy of p or e.set_mark(): the   *)
(* overload for a const `desired', of which atomic_shared_ptr makes another *)
(* copy, or ("move") its own for a temporary, which hands over that one.    *)
CallCas(t) ==
  /\ At(t, "idle") /\ open
  /\ \E c \in {"cas"} \cup (IF impl = "intr" THEN {} ELSE {"move"}),
        d \in {p[t], [e[t] EXCEPT !.mark = TRUE]} :
       /\ op' = [op EXCEPT ![t] = c]
       /\ arg' = [arg EXCEPT ![t] = d]
       /\ AddRefs(d, IF impl = "intr" \/ c = "move" THEN 1 ELSE 2)
  /\ old' = [old EXCEPT ![t] = e[t]]
  /\ Goto(t, IF impl = "intr" THEN "enter" ELSE "try")
  /\ UNCHANGED <<impl, open, memory, word, locked, p, e, val, drop>>

(* The constructor from a shared pointer: intr_shared_ptr adds a reference  *)
(* of its own, and the argument, a copy or p itself, is destroyed.  The     *)
(* reference of the atomic_shared_ptr is that of its argument.              *)
Construct(t) ==
  /\ At(t, "idle") /\ ~open
  /\ open' = TRUE
  /\ word' = p[t]
  /\ \/ AddRef(p[t]) /\ UNCHANGED p
     \/ p' = [p EXCEPT ![t] = Nil] /\ UNCHANGED count
  /\ UNCHANGED <<impl, memory, locked, op, pc, e, arg, old, val, drop>>

(* The destructor, when no operation is in flight                           *)
Destroy(t) ==
  /\ open /\ \A u \in Threads : op[u] = "none"
  /\ At(t, "idle")
  /\ open' = FALSE
  /\ word' = Nil
  /\ Drop(t, word, Nil, Nil)
  /\ UNCHANGED <<impl, count, memory, locked, op, pc, locals>>

-----------------------------------------------------------------------------
(* intr_shared_ptr                                                          *)

Lock_LoadUnlocked(t) ==        \* mutant: load() does not take the lock
  /\ impl = "intr" /\ At(t, "enter") /\ ~locked
  /\ locked' = (op[t] # "load")
  /\ val' = [val EXCEPT ![t] = word]
  /\ Goto(t, IF op[t] = "store" \/ (op[t] = "cas" /\ word = old[t]) THEN "set" ELSE "get")
  /\ UNCHANGED <<memories, word, op, p, e, arg, old, drop>>

(* lock(), which returns the word, and the comparison of a CAS              *)
Lock(t) ==
  /\ impl = "intr" /\ At(t, "enter") /\ ~locked
  /\ locked' = TRUE
  /\ val' = [val EXCEPT ![t] = word]
  /\ Goto(t, IF op[t] = "store" \/ (op[t] = "cas" /\ word = old[t]) THEN "set" ELSE "get")
  /\ UNCHANGED <<memories, word, op, p, e, arg, old, drop>>

(* The reference for the result of load(), or of a CAS that failed, and     *)
(* unlock(), which writes back what was read                                *)
Get(t) ==
  /\ At(t, "get")
  /\ AddRef(val[t])
  /\ word' = val[t] /\ locked' = FALSE
  /\ e' = [e EXCEPT ![t] = val[t]]
  /\ val' = [val EXCEPT ![t] = Nil] /\ arg' = [arg EXCEPT ![t] = Nil]
  /\ old' = [old EXCEPT ![t] = Nil]
  /\ Drop(t, e[t], arg[t], Nil)
  /\ Done(t)
  /\ UNCHANGED <<impl, open, memory, p>>

Set_KeepsOld(t) ==             \* mutant: what the word held is not released
  /\ At(t, "set")
  /\ IF op[t] = "cas" THEN AddRef(arg[t]) ELSE UNCHANGED count
  /\ word' = arg[t] /\ locked' = FALSE
  /\ val' = [val EXCEPT ![t] = Nil] /\ arg' = [arg EXCEPT ![t] = Nil]
  /\ old' = [old EXCEPT ![t] = Nil]
  /\ Drop(t, arg[t], Nil, Nil)
  /\ Done(t)
  /\ UNCHANGED <<impl, open, memory, p, e>>

(* The reference of the word, which store() has added before, the store     *)
(* that also unlocks, and the release of what the word held                 *)
Set(t) ==
  /\ At(t, "set")
  /\ IF op[t] = "cas" THEN AddRef(arg[t]) ELSE UNCHANGED count
  /\ word' = arg[t] /\ locked' = FALSE
  /\ val' = [val EXCEPT ![t] = Nil] /\ arg' = [arg EXCEPT ![t] = Nil]
  /\ old' = [old EXCEPT ![t] = Nil]
  /\ Drop(t, val[t], arg[t], Nil)
  /\ Done(t)
  /\ UNCHANGED <<impl, open, memory, p, e>>

-----------------------------------------------------------------------------
(* parlay::atomic_shared_ptr                                                *)

(* store(): the exchange                                                    *)
Exchange(t) ==
  /\ impl = "parlay" /\ At(t, "enter") /\ op[t] = "store"
  /\ word' = arg[t]
  /\ arg' = [arg EXCEPT ![t] = Nil]
  /\ Drop(t, word, Nil, Nil)
  /\ Done(t)
  /\ UNCHANGED <<memories, locked, p, e, old, val>>

(* The copy that atomic_shared_ptr made of a const `desired'                *)
Copied(t) == IF op[t] = "cas" THEN arg[t] ELSE Nil

CasTry_Releases(t) ==          \* mutant: `desired' is released, and not handed over
  /\ At(t, "try")
  /\ \/ /\ word = e[t]
        /\ word' = arg[t]
        /\ arg' = [arg EXCEPT ![t] = Nil] /\ old' = [old EXCEPT ![t] = Nil]
        /\ Drop(t, word, arg[t], Copied(t))
        /\ Done(t)
     \/ /\ Goto(t, "reload")
        /\ UNCHANGED <<word, op, arg, old, drop>>
  /\ UNCHANGED <<memories, locked, p, e, val>>

(* compare_exchange_weak(): a reference of `desired', that of its copy if   *)
(* there is one, becomes that of the word.  It may fail without a reason.   *)
CasTry(t) ==
  /\ At(t, "try")
  /\ \/ /\ word = e[t]
        /\ word' = arg[t]
        /\ arg' = [arg EXCEPT ![t] = Nil] /\ old' = [old EXCEPT ![t] = Nil]
        /\ Drop(t, word, Copied(t), Nil)
        /\ Done(t)
     \/ /\ Goto(t, "reload")
        /\ UNCHANGED <<word, op, arg, old, drop>>
  /\ UNCHANGED <<memories, locked, p, e, val>>

(* hazptr.protect(): what the word holds is announced, and still there.     *)
Protect(t) ==
  /\ impl = "parlay"
  /\ \/ At(t, "enter") /\ op[t] = "load"
     \/ At(t, "reload")
  /\ val' = [val EXCEPT ![t] = word]
  /\ Goto(t, IF word.obj = NoObject THEN "loaded" ELSE "increment")
  /\ UNCHANGED <<memories, word, locked, op, p, e, arg, old, drop>>

(* increment_strong_count_if_nonzero()                                      *)
Increment(t) ==
  /\ At(t, "increment")
  /\ \/ count[val[t].obj] > 0 /\ AddRef(val[t]) /\ Goto(t, "loaded")
     \/ /\ count[val[t].obj] = 0
        /\ Goto(t, IF op[t] = "load" THEN "enter" ELSE "reload")
        /\ UNCHANGED count
  /\ UNCHANGED <<impl, open, memory, word, locked, op, locals, drop>>

(* The result of load(); a strong CAS tries again unless it differs from    *)
(* what was expected at the beginning.                                      *)
Loaded(t) ==
  /\ At(t, "loaded")
  /\ e' = [e EXCEPT ![t] = val[t]]
  /\ val' = [val EXCEPT ![t] = Nil]
  /\ \/ /\ op[t] # "load" /\ val[t] = old[t]
        /\ Goto(t, "try")
        /\ Drop(t, e[t], Nil, Nil)
        /\ UNCHANGED <<op, arg, old>>
     \/ /\ op[t] = "load" \/ val[t] # old[t]
        /\ Done(t)
        /\ arg' = [arg EXCEPT ![t] = Nil] /\ old' = [old EXCEPT ![t] = Nil]
        /\ Drop(t, e[t], arg[t], Copied(t))
  /\ UNCHANGED <<memories, word, locked, p>>

-----------------------------------------------------------------------------
Call(t) ==
  \/ New(t) \/ Forget(t) \/ Unmark(t)
  \/ CallLoad(t) \/ CallStore(t) \/ CallCas(t) \/ Construct(t) \/ Destroy(t)

Step(t) ==
  \/ DelRef(t)
  \/ Lock(t) \/ Get(t) \/ Set(t)
  \/ Exchange(t) \/ CasTry(t) \/ Protect(t) \/ Increment(t) \/ Loaded(t)

Next == \/ \E t \in Threads : Call(t) \/ Step(t)
        \/ \E o \in Objects : Reclaim(o)

Spec == Init /\ [][Next]_vars

-----------------------------------------------------------------------------
TypeOK ==
  /\ impl \in {"intr", "parlay"} /\ open \in BOOLEAN
  /\ word \in Values /\ locked \in BOOLEAN
  /\ count \in [Objects -> Nat]
  /\ memory \in [Objects -> {"free", "live", "retired"}]
  /\ op \in [Threads -> {"none", "load", "store", "cas", "move"}]
  /\ pc \in [Threads -> {"idle", "enter", "get", "set", "try", "reload", "increment", "loaded"}]
  /\ p \in [Threads -> Values] /\ e \in [Threads -> Values]
  /\ arg \in [Threads -> Values]
  /\ old \in [Threads -> Values] /\ val \in [Threads -> Values]
  /\ drop \in [Threads -> [1 .. 3 -> Objects \cup {NoObject}]]

(* The references to o: that of the word, and of each thread those of its   *)
(* shared pointers, of the argument of its call, of its result and of what  *)
(* it is about to release, and the one it has counted ahead for a copy or   *)
(* for the word.                                                            *)
Places == {"p", "e", "arg", "ahead", "result", "drop1", "drop2", "drop3"}

CountsAhead(t) == <<impl, op[t]>> \in {<<"intr", "store">>, <<"parlay", "cas">>}

Refers(t, l, o) ==
  \/ l = "p" /\ p[t].obj = o
  \/ l = "e" /\ e[t].obj = o
  \/ l = "arg" /\ arg[t].obj = o
  \/ l = "ahead" /\ CountsAhead(t) /\ arg[t].obj = o
  \/ l = "result" /\ pc[t] = "loaded" /\ val[t].obj = o
  \/ l = "drop1" /\ drop[t][1] = o
  \/ l = "drop2" /\ drop[t][2] = o
  \/ l = "drop3" /\ drop[t][3] = o

References(o) == {r \in Threads \X Places : Refers(r[1], r[2], o)}

(* An object has the count of its references, and is there exactly as long *)
(* as there are some; and what a thread is about to count is still there    *)
(* ("so no concurrent store/CAS can DelRef the object to zero in between"). *)
CountsAreExact ==
  /\ \A o \in Objects :
       /\ count[o] = Cardinality(References(o)) + One(word.obj = o)
       /\ count[o] > 0 <=> memory[o] = "live"
  /\ \A t \in Threads :
       /\ pc[t] = "get" => val[t].obj = NoObject \/ count[val[t].obj] > 0
       /\ pc[t] = "increment" => memory[val[t].obj] # "free"

(* A CAS replaces the very pointer, mark included, that its caller expected,*)
(* and not another one that came in between its comparison and its store.   *)
SwapsWhatIsExpected(t) ==
  op[t] \in {"cas", "move"} /\ pc[t] \in {"set", "try"} /\ pc'[t] = "idle" =>
    word = e[t] /\ word' = arg[t]

CasSwapsExpected == [][\A t \in Threads : SwapsWhatIsExpected(t)]_vars
=============================================================================
