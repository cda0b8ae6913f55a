----------------------------- MODULE Publishing -----------------------------
(***************************************************************************)
(* The pointers that publish data: the atomic root of                      *)
(* Chapter07/04_publishing.C, and the classes ts_unique_ptr (raw atomic    *)
(* pointer), ts_shared_ptr (std::atomic<std::shared_ptr>) and its variant  *)
(* with a spinlock of Chapter06/07 to 09.                                  *)
(*                                                                         *)
(* Publishers prepare fresh objects and publish or republish them, or move *)
(* the pointer away; readers get() and dereference, or take a reference    *)
(* with operator*.  One action per access of the pointer; where it is a    *)
(* plain shared_ptr under the spinlock, a copy of it reads the pointer and *)
(* then counts.  The atomic shared_ptr and the counts of the library are   *)
(* external.                                                               *)
(***************************************************************************)
EXTENDS Integers, FiniteSets

CONSTANTS
  Publishers, Readers,
  Objects,
  Calls,       (* bound of the model: calls of each thread                 *)
  None

Threads == Publishers \cup Readers

VARIABLES
  class,       (* the class in use                                         *)
  p, q,        (* its pointer, and that of the object it is moved to       *)
  holder,      (* who has the spinlock                                     *)
  refs,        (* shared_ptr's counts                                      *)
  ready,       (* the objects whose data is complete                       *)
  pc, calls,
  arg, seen,   (* what a thread publishes, and what it holds or reads      *)
  put, out     (* history: what was published; how often it was taken away *)

vars == <<class, p, q, holder, refs, ready, pc, calls, arg, seen, put, out>>

Counted == class \in {"shared", "locked"}

(* Two republish() of a ts_unique_ptr may return the same object: it is for *)
(* one publisher.                                                           *)
Init ==
  /\ class \in {"root", "unique", "shared", "locked"}
  /\ p = None /\ q = None /\ holder = None
  /\ refs = [o \in Objects |-> 0] /\ ready = {}
  /\ pc = [t \in Threads |-> "idle"] /\ calls = [t \in Threads |-> Calls]
  /\ arg = [t \in Threads |-> None] /\ seen = [t \in Threads |-> None]
  /\ put = {} /\ out = [o \in Objects |-> 0]

MayPublish(t) ==
  t \in Publishers /\ (Counted \/ t = CHOOSE u \in Publishers : TRUE)

Goto(t, l) == pc' = [pc EXCEPT ![t] = l]

In(x, o) == IF x = o THEN 1 ELSE 0

(* p gives up what it points to and points to x.                            *)
Replace(x) ==
  /\ p' = x
  /\ put' = put \cup ({x} \ {None})
  /\ out' = [o \in Objects |-> out[o] + In(p, o)]

(* Counts: one more for a, one less for b.                                  *)
Recount(a, b) ==
  refs' = IF Counted THEN [o \in Objects |-> refs[o] + In(a, o) - In(b, o)] ELSE refs

-----------------------------------------------------------------------------
(* The data of a fresh object is written before it is published.            *)
Prepare(t) ==
  /\ pc[t] = "idle" /\ calls[t] > 0 /\ MayPublish(t)
  /\ class = "root" => put = {}
  /\ \E o \in Objects : /\ o \notin put \cup ready \cup {arg[u] : u \in Threads}
                        /\ arg' = [arg EXCEPT ![t] = o]
                        /\ Recount(o, None)
  /\ Goto(t, "fill")
  /\ UNCHANGED <<class, p, q, holder, ready, calls, seen, put, out>>

Fill(t) ==
  /\ pc[t] = "fill"
  /\ ready' = ready \cup {arg[t]}
  /\ Goto(t, "call")
  /\ UNCHANGED <<class, p, q, holder, refs, calls, arg, seen, put, out>>

(* A call ends: the publisher forgets its object, and drops what it holds.  *)
Return(t) ==
  /\ calls' = [calls EXCEPT ![t] = @ - 1]
  /\ arg' = [arg EXCEPT ![t] = None]
  /\ Goto(t, "idle")

(* data.store(p), and publish() of ts_unique_ptr, which leaks the old one   *)
Publish(t) ==
  /\ pc[t] = "call" /\ ~Counted
  /\ Replace(arg[t]) /\ Return(t)
  /\ UNCHANGED <<class, q, holder, refs, ready, seen>>

(* republish() of ts_unique_ptr reads the old pointer first.                *)
RepublishGet(t) ==
  /\ pc[t] = "call" /\ class = "unique"
  /\ seen' = [seen EXCEPT ![t] = p]
  /\ Goto(t, "replace")
  /\ UNCHANGED <<class, p, q, holder, refs, ready, calls, arg, put, out>>

RepublishStore(t) ==
  /\ pc[t] = "replace" /\ ~Counted
  /\ p' = arg[t] /\ put' = put \cup {arg[t]}
  /\ out' = [o \in Objects |-> out[o] + In(seen[t], o)]
  /\ seen' = [seen EXCEPT ![t] = None]
  /\ Return(t)
  /\ UNCHANGED <<class, q, holder, refs, ready>>

SharedRepublish_LoadStore(t) ==  \* mutant: republish() as a load and a store
  /\ class = "shared"
  /\ \/ /\ pc[t] = "call"
        /\ seen' = [seen EXCEPT ![t] = p] /\ Recount(p, None)
        /\ Goto(t, "replace")
        /\ UNCHANGED <<p, put, out, arg, calls>>
     \/ /\ pc[t] = "replace"
        /\ p' = arg[t] /\ put' = put \cup {arg[t]}
        /\ out' = [o \in Objects |-> out[o] + In(seen[t], o)]
        /\ refs' = [o \in Objects |-> refs[o] - In(p, o) - In(seen[t], o)]
        /\ seen' = [seen EXCEPT ![t] = None]
        /\ Return(t)
  /\ UNCHANGED <<class, q, holder, ready>>

(* publish() and republish() of the atomic shared_ptr: the caller takes the *)
(* old object and drops it.                                                 *)
SharedRepublish(t) ==
  /\ pc[t] = "call" /\ class = "shared"
  /\ Replace(arg[t]) /\ Recount(None, p) /\ Return(t)
  /\ UNCHANGED <<class, q, holder, ready, seen>>

(* The move constructors and the move assignment of the atomic classes load *)
(* and then clear the source: what others publish in between would be lost, *)
(* so a move comes when they are done.                                      *)
MoveLoad(t) ==
  /\ pc[t] = "idle" /\ calls[t] > 0 /\ MayPublish(t)
  /\ class \in {"unique", "shared"} /\ q = None
  /\ \A u \in Publishers \ {t} : pc[u] = "idle" /\ calls[u] = 0
  /\ seen' = [seen EXCEPT ![t] = p] /\ Recount(p, None)
  /\ Goto(t, "clear")
  /\ UNCHANGED <<class, p, q, holder, ready, calls, arg, put, out>>

MoveClear(t) ==
  /\ pc[t] = "clear" /\ class # "locked"
  /\ p' = None /\ q' = seen[t] /\ Recount(None, p)
  /\ seen' = [seen EXCEPT ![t] = None]
  /\ Return(t)
  /\ UNCHANGED <<class, holder, ready, put, out>>

-----------------------------------------------------------------------------
(* With the spinlock, every call runs under it.                             *)
Lock(t) ==
  /\ class = "locked" /\ holder = None
  /\ \/ pc[t] = "call" /\ Goto(t, "take")
     \/ /\ pc[t] = "idle" /\ calls[t] > 0
        /\ \/ t \in Readers /\ Goto(t, "copy")
           \/ t \in Readers /\ p # None /\ Goto(t, "refer")
           \/ MayPublish(t) /\ q = None /\ Goto(t, "move")
  /\ holder' = t
  /\ UNCHANGED <<class, p, q, refs, ready, calls, arg, seen, put, out>>

(* old = std::move(p_)                                                      *)
Take(t) ==
  /\ pc[t] = "take"
  /\ seen' = [seen EXCEPT ![t] = p] /\ Replace(None)
  /\ Goto(t, "store")
  /\ UNCHANGED <<class, q, holder, refs, ready, calls, arg>>

(* p_ = std::move(p), and the lock is released before the old object goes.  *)
Store(t) ==
  /\ pc[t] = "store"
  /\ Replace(arg[t]) /\ holder' = None /\ Return(t)
  /\ Recount(None, seen[t]) /\ seen' = [seen EXCEPT ![t] = None]
  /\ UNCHANGED <<class, q, ready>>

LockedMove(t) ==
  /\ pc[t] = "move"
  /\ q' = p /\ p' = None /\ holder' = None /\ Return(t)
  /\ UNCHANGED <<class, refs, ready, seen, put, out>>

Copy(t) ==
  /\ pc[t] = "copy"
  /\ seen' = [seen EXCEPT ![t] = p]
  /\ Goto(t, "count")
  /\ UNCHANGED <<class, p, q, holder, refs, ready, calls, arg, put, out>>

Count(t) ==
  /\ pc[t] = "count"
  /\ Recount(seen[t], None) /\ holder' = (IF holder = t THEN None ELSE holder)
  /\ IF seen[t] = None THEN Return(t) ELSE Goto(t, "use") /\ UNCHANGED <<calls, arg>>
  /\ UNCHANGED <<class, p, q, ready, seen, put, out>>

-----------------------------------------------------------------------------
(* get() of the atomic classes; a null pointer is not dereferenced, and     *)
(* 04_publishing.C polls until it is not null.                              *)
Get(t) ==
  /\ pc[t] = "idle" /\ calls[t] > 0 /\ t \in Readers /\ class # "locked" /\ p # None
  /\ seen' = [seen EXCEPT ![t] = p] /\ Recount(p, None)
  /\ Goto(t, "use")
  /\ UNCHANGED <<class, p, q, holder, ready, calls, arg, put, out>>

Use(t) ==
  /\ pc[t] = "use"
  /\ Recount(None, seen[t]) /\ seen' = [seen EXCEPT ![t] = None]
  /\ Return(t)
  /\ UNCHANGED <<class, p, q, holder, ready, put, out>>

(* operator* of the counted classes, for a caller who knows that it is not  *)
(* null: a temporary loaded from the atomic, or the lock, keeps the object  *)
(* until the reference to it is returned.                                   *)
DerefLoad(t) ==
  /\ pc[t] = "idle" /\ calls[t] > 0 /\ t \in Readers /\ class = "shared" /\ p # None
  /\ seen' = [seen EXCEPT ![t] = p] /\ Recount(p, None)
  /\ Goto(t, "refer")
  /\ UNCHANGED <<class, p, q, holder, ready, calls, arg, put, out>>

Deref(t) ==
  /\ pc[t] = "refer"
  /\ \/ class = "shared" /\ Recount(None, seen[t]) /\ UNCHANGED <<seen, holder>>
     \/ /\ class = "locked"
        /\ seen' = [seen EXCEPT ![t] = p] /\ holder' = None /\ UNCHANGED refs
  /\ Goto(t, "look")
  /\ UNCHANGED <<class, p, q, ready, calls, arg, put, out>>

(* The caller reads what the reference refers to, which holds no count.     *)
Look(t) ==
  /\ pc[t] = "look"
  /\ seen' = [seen EXCEPT ![t] = None] /\ Return(t)
  /\ UNCHANGED <<class, p, q, holder, refs, ready, put, out>>

-----------------------------------------------------------------------------
Thread(t) ==
  \/ Prepare(t) \/ Fill(t) \/ Publish(t) \/ RepublishGet(t) \/ RepublishStore(t)
  \/ SharedRepublish(t) \/ MoveLoad(t) \/ MoveClear(t)
  \/ Lock(t) \/ Take(t) \/ Store(t) \/ LockedMove(t) \/ Copy(t) \/ Count(t)
  \/ Get(t) \/ Use(t) \/ DerefLoad(t) \/ Deref(t) \/ Look(t)

Next == \E t \in Threads : Thread(t)

Spec == Init /\ [][Next]_vars

-----------------------------------------------------------------------------
TypeOK ==
  /\ class \in {"root", "unique", "shared", "locked"}
  /\ p \in Objects \cup {None} /\ q \in Objects \cup {None}
  /\ holder \in Threads \cup {None}
  /\ refs \in [Objects -> Int] /\ ready \subseteq Objects
  /\ pc \in [Threads -> {"idle", "fill", "call", "replace", "clear", "take", "store",
                         "move", "copy", "count", "use", "refer", "look"}]
  /\ calls \in [Threads -> 0 .. Calls]
  /\ arg \in [Threads -> Objects \cup {None}] /\ seen \in [Threads -> Objects \cup {None}]
  /\ put \subseteq Objects /\ out \in [Objects -> Nat]

(* t has a count for what it reads.                                         *)
Kept(t) ==
  \/ pc[t] = "use" /\ Counted
  \/ pc[t] = "refer" /\ class = "shared"

(* A reader meets complete data.  An object is not deleted under one who    *)
(* has it from get() of a counted class, or while operator* runs; behind    *)
(* the reference that operator* has returned it may be, and then only when  *)
(* a publisher has replaced it.                                             *)
ReadersAreSafe ==
  \A t \in Threads :
    /\ pc[t] \in {"use", "look"} \/ Kept(t) => seen[t] \in ready
    /\ Kept(t) => refs[seen[t]] > 0
    /\ pc[t] = "look" /\ refs[seen[t]] = 0 => out[seen[t]] > 0

(* An object that was published is in a pointer or was taken away once: no  *)
(* two republish() return the same object, and none is lost.                *)
ReplacedOnce == \A o \in put : out[o] + In(p, o) + In(q, o) = 1
=============================================================================
