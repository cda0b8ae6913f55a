-------------------------- MODULE FixtureBenchmarks --------------------------
(***************************************************************************)
(* The Google Benchmark fixtures of the hash set                           *)
(* (07_concurrent_hash/concurrent_hash_set_bm.C) and of the list           *)
(* (08_concurrent_list/lock_free_list_bm.C).  Thread 0 makes the container *)
(* in SetUp() and deletes it in TearDown(); the only barriers are the two  *)
(* ends of the benchmark loop, and the harness that has them is external.  *)
(*                                                                         *)
(* Each operation of a container is one step here (HashSet and             *)
(* LockFreeList are their models); a read pass is one step per node.  A    *)
(* random choice of an operation or a key is any choice.                   *)
(***************************************************************************)
EXTENDS Integers, Sequences, FiniteSets

CONSTANTS
  Hands,       (* number of threads                                        *)
  Iterations,  (* of the loop, per thread                                  *)
  Prefill,     (* kPrefill                                                 *)
  Stride,      (* kKeyStride                                               *)
  InsertEvery, (* kInsertEvery                                             *)
  ListSize,    (* nodes that the list has at first                         *)
  Window       (* nodes that a read pass visits                            *)

FixtureAssumption ==
  /\ {Hands, Iterations, Prefill, InsertEvery, ListSize, Window} \subseteq Nat \ {0}
  /\ Stride \in Nat /\ Stride >= Iterations /\ Window <= ListSize

Threads == 0 .. Hands - 1
Mid == Window \div 2
Lookups == 0 .. 2 * Prefill - 1    (* kLookupMask                          *)
NewBase == 2 * Prefill             (* kNewBase                             *)

(* Node 0 is the dummy head; every insertion has a node of its own.         *)
Nodes == 1 .. ListSize + Hands * Iterations
Nil == -1

SetBody(ops, prefill) ==
  [on |-> "set", ops |-> ops, prefill |-> prefill, marks |-> FALSE, cursor |-> FALSE]
ListBody(ops, marks, cursor) ==
  [on |-> "list", ops |-> ops, prefill |-> 0, marks |-> marks, cursor |-> cursor]

(* The bodies                                                               *)
MostlyNew == SetBody({"insert"}, 0)
MostlyOld == SetBody({"insert", "contains"}, Prefill)
Heavy(marks)     == ListBody({"read", "insert", "erase"}, marks, FALSE)
Graveyard(marks) == ListBody({"insert", "erase"}, marks, FALSE)
StdAtomic == {Heavy(FALSE), Graveyard(FALSE)}
IntrPtr   == {Heavy(TRUE), Graveyard(TRUE)}
HazardPtr == {Heavy(TRUE), Graveyard(TRUE)}
MassiveHeadInsert == {ListBody({"insert"}, m, FALSE) : m \in BOOLEAN}
ReadDispersed(marks) == ListBody({"read", "insert", "erase"}, marks, TRUE)
ReadDispersed_StdAtomic == ReadDispersed(FALSE)
ReadDispersed_IntrPtr   == ReadDispersed(TRUE)
ReadDispersed_HazardPtr == ReadDispersed(TRUE)

Fixtures ==
  {MostlyNew, MostlyOld} \cup StdAtomic \cup IntrPtr \cup HazardPtr \cup MassiveHeadInsert
  \cup {ReadDispersed_StdAtomic, ReadDispersed_IntrPtr, ReadDispersed_HazardPtr}

VARIABLES
  fixture,
  thing,       (* the container: none, making, live, deleted               *)
  keys,        (* what the set holds                                       *)
  next, erased,      (* the list's links, erased nodes' too; with marks    *)
  start_positions,
  at, left,    (* each thread, and the iterations it has left              *)
  op,          (* MostlyOld: iterations since the last insertion           *)
  tries, ok,   (* insertions, and those that returned true                 *)
  it, anchor,  (* a read pass, and where its mutation goes; the cursor     *)
  cursor,
  sizes        (* history: successful insertions minus successful erasures *)

vars == <<fixture, thing, keys, next, erased, start_positions, at, left, op, tries, ok,
          it, anchor, cursor, sizes>>

Init ==
  /\ fixture \in Fixtures
  /\ thing = "none" /\ keys = {}
  /\ next = [x \in Nodes \cup {0} |-> Nil] /\ erased = {}
  /\ start_positions = <<>>
  /\ at = [t \in Threads |-> "setup"] /\ left = [t \in Threads |-> Iterations]
  /\ op = [t \in Threads |-> 0]
  /\ tries = [t \in Threads |-> 0] /\ ok = [t \in Threads |-> 0]
  /\ it = [t \in Threads |-> [node |-> Nil, count |-> 0]]
  /\ anchor = [t \in Threads |-> Nil] /\ cursor = [t \in Threads |-> Nil]
  /\ sizes = 0

Goto(t, l) == at' = [at EXCEPT ![t] = l]

-----------------------------------------------------------------------------
(* SetUp() of thread 0 makes the container                                  *)
Make ==
  /\ at[0] = "setup" /\ thing = "none"
  /\ thing' = "making"
  /\ UNCHANGED <<fixture, keys, next, erased, start_positions, at, left, op, tries, ok,
                 it, anchor, cursor, sizes>>

(* and fills it: keys from 0 on, or nodes one by one behind the head.  The  *)
(* dispersed fixture then leaves an iterator for each thread.               *)
Populate ==
  /\ at[0] = "setup" /\ thing = "making"
  /\ thing' = "live" /\ Goto(0, "ready")
  /\ keys' = 0 .. fixture.prefill - 1
  /\ IF fixture.on = "set" THEN UNCHANGED <<next, start_positions>>
     ELSE /\ next' = [x \in DOMAIN next |->
                        IF x = 0 THEN ListSize ELSE IF x \in 2 .. ListSize THEN x - 1 ELSE Nil]
          /\ start_positions' =
               IF fixture.cursor
               THEN [t \in 1 .. Hands |-> ListSize - (t - 1) * (ListSize \div Hands)] ELSE <<>>
  /\ UNCHANGED <<fixture, erased, left, op, tries, ok, it, anchor, cursor, sizes>>

SetUp(t) ==
  /\ t # 0 /\ at[t] = "setup"
  /\ Goto(t, "ready")
  /\ UNCHANGED <<fixture, thing, keys, next, erased, start_positions, left, op, tries, ok,
                 it, anchor, cursor, sizes>>

(* The loop starts with a barrier.  Past it, the cursor can be read.        *)
Enter_NoBarrier(t) ==          \* mutant: the loop begins without a barrier
  /\ at[t] = "ready"
  /\ Goto(t, "loop")
  /\ cursor' = IF start_positions # <<>> THEN [cursor EXCEPT ![t] = start_positions[t + 1]]
               ELSE cursor
  /\ UNCHANGED <<fixture, thing, keys, next, erased, start_positions, left, op, tries, ok,
                 it, anchor, sizes>>

Enter(t) ==
  /\ at[t] = "ready" /\ \A u \in Threads : at[u] # "setup"
  /\ Goto(t, "loop")
  /\ cursor' = IF fixture.cursor THEN [cursor EXCEPT ![t] = start_positions[t + 1]] ELSE cursor
  /\ UNCHANGED <<fixture, thing, keys, next, erased, start_positions, left, op, tries, ok,
                 it, anchor, sizes>>

Lap(t) == left[t] > 0 /\ left' = [left EXCEPT ![t] = @ - 1]

-----------------------------------------------------------------------------
(* The set: new keys lie above the lookups, in a range of the thread's own. *)
InsertKey(t) ==
  /\ at[t] = "loop" /\ fixture.on = "set" /\ Lap(t)
  /\ fixture = MostlyOld => op[t] + 1 = InsertEvery
  /\ LET x == (IF fixture = MostlyOld THEN NewBase ELSE 0) + t * Stride + tries[t] IN
       /\ keys' = keys \cup {x}
       /\ ok' = [ok EXCEPT ![t] = @ + (IF x \in keys THEN 0 ELSE 1)]
  /\ tries' = [tries EXCEPT ![t] = @ + 1]
  /\ op' = [op EXCEPT ![t] = 0]
  /\ UNCHANGED <<fixture, thing, next, erased, start_positions, at, it, anchor, cursor, sizes>>

Contains(t) ==
  /\ at[t] = "loop" /\ fixture = MostlyOld /\ Lap(t)
  /\ op[t] + 1 # InsertEvery
  /\ op' = [op EXCEPT ![t] = @ + 1]
  /\ UNCHANGED <<fixture, thing, keys, next, erased, start_positions, at, tries, ok,
                 it, anchor, cursor, sizes>>

-----------------------------------------------------------------------------
(* The list                                                                 *)
(* A read pass: from begin(), or from the cursor, which is also the anchor  *)
(* until the pass reaches its middle.                                       *)
BeginPass(t) ==
  /\ at[t] = "loop" /\ fixture.on = "list" /\ "read" \in fixture.ops /\ Lap(t)
  /\ it' = [it EXCEPT ![t] = [node |-> IF fixture.cursor THEN cursor[t] ELSE next[0], count |-> 0]]
  /\ anchor' = [anchor EXCEPT ![t] = cursor[t]]
  /\ Goto(t, "pass")
  /\ UNCHANGED <<fixture, thing, keys, next, erased, start_positions, op, tries, ok, cursor, sizes>>

ReadNode_OneMore(t) ==         \* mutant: the bound of the pass is off by one
  /\ at[t] = "pass" /\ it[t].node # Nil /\ it[t].count <= Window
  /\ anchor' = IF it[t].count = Mid - 1 THEN [anchor EXCEPT ![t] = it[t].node] ELSE anchor
  /\ it' = [it EXCEPT ![t] = [node |-> next[it[t].node], count |-> it[t].count + 1]]
  /\ UNCHANGED <<fixture, thing, keys, next, erased, start_positions, at, left, op, tries, ok,
                 cursor, sizes>>

ReadNode(t) ==
  /\ at[t] = "pass" /\ it[t].node # Nil /\ it[t].count < Window
  /\ anchor' = IF it[t].count = Mid - 1 THEN [anchor EXCEPT ![t] = it[t].node] ELSE anchor
  /\ it' = [it EXCEPT ![t] = [node |-> next[it[t].node], count |-> it[t].count + 1]]
  /\ UNCHANGED <<fixture, thing, keys, next, erased, start_positions, at, left, op, tries, ok,
                 cursor, sizes>>

(* A dispersed pass may be followed by a mutation at its anchor.            *)
PassEnds(t) ==
  /\ at[t] = "pass" /\ (it[t].node = Nil \/ it[t].count = Window)
  /\ IF fixture.cursor THEN \E l \in {"mutate", "wrap"} : Goto(t, l) ELSE Goto(t, "loop")
  /\ UNCHANGED <<fixture, thing, keys, next, erased, start_positions, left, op, tries, ok,
                 it, anchor, cursor, sizes>>

(* insert_after() and erase_after(): nothing at a null anchor, nor, with    *)
(* marks, at an erased one                                                  *)
Valid(a) == a # Nil /\ (fixture.marks => a \notin erased)

InsertAfter(t, a) ==
  LET x == ListSize + 1 + t * Iterations + tries[t] IN
  /\ tries' = [tries EXCEPT ![t] = @ + 1]
  /\ IF Valid(a)
     THEN /\ next' = [next EXCEPT ![a] = x, ![x] = next[a]]
          /\ ok' = [ok EXCEPT ![t] = @ + 1] /\ sizes' = sizes + 1
     ELSE UNCHANGED <<next, ok, sizes>>
  /\ UNCHANGED erased

EraseAfter(a) ==
  IF Valid(a) /\ next[a] # Nil
  THEN /\ next' = [next EXCEPT ![a] = next[next[a]]]
       /\ erased' = erased \cup {next[a]} /\ sizes' = sizes - 1
  ELSE UNCHANGED <<next, erased, sizes>>

MutateHead(t) ==
  /\ at[t] = "loop" /\ fixture.on = "list" /\ ~fixture.cursor /\ Lap(t)
  /\ \/ InsertAfter(t, 0)
     \/ "erase" \in fixture.ops /\ EraseAfter(0) /\ UNCHANGED <<tries, ok>>
  /\ UNCHANGED <<fixture, thing, keys, start_positions, at, op, it, anchor, cursor>>

MutateAtAnchor(t) ==
  /\ at[t] = "mutate"
  /\ InsertAfter(t, anchor[t]) \/ (EraseAfter(anchor[t]) /\ UNCHANGED <<tries, ok>>)
  /\ Goto(t, "wrap")
  /\ UNCHANGED <<fixture, thing, keys, start_positions, left, op, it, anchor, cursor>>

(* The next pass resumes where this one ended.                              *)
Wrap(t) ==
  /\ at[t] = "wrap"
  /\ cursor' = [cursor EXCEPT ![t] = IF it[t].node = Nil THEN next[0] ELSE it[t].node]
  /\ Goto(t, "loop")
  /\ UNCHANGED <<fixture, thing, keys, next, erased, start_positions, left, op, tries, ok,
                 it, anchor, sizes>>

-----------------------------------------------------------------------------
Stop(t) ==
  /\ at[t] = "loop" /\ left[t] = 0
  /\ Goto(t, "stopped")
  /\ UNCHANGED <<fixture, thing, keys, next, erased, start_positions, left, op, tries, ok,
                 it, anchor, cursor, sizes>>

(* The loop ends with a barrier; thread 0 then deletes the container, while *)
(* other threads may not have dropped their iterators yet.                  *)
TearDown(t) ==
  /\ at[t] = "stopped" /\ \A u \in Threads : at[u] \in {"stopped", "over"}
  /\ Goto(t, "over")
  /\ IF t = 0 THEN thing' = "deleted" /\ start_positions' = <<>>
     ELSE UNCHANGED <<thing, start_positions>>
  /\ UNCHANGED <<fixture, keys, next, erased, left, op, tries, ok, it, anchor, cursor, sizes>>

Thread(t) ==
  \/ t = 0 /\ (Make \/ Populate)
  \/ SetUp(t) \/ Enter(t) \/ InsertKey(t) \/ Contains(t)
  \/ BeginPass(t) \/ ReadNode(t) \/ PassEnds(t) \/ MutateHead(t) \/ MutateAtAnchor(t) \/ Wrap(t)
  \/ Stop(t) \/ TearDown(t)

Next == \E t \in Threads : Thread(t)

Spec == Init /\ [][Next]_vars

-----------------------------------------------------------------------------
TypeOK ==
  /\ fixture \in Fixtures /\ thing \in {"none", "making", "live", "deleted"}
  /\ keys \subseteq Nat
  /\ next \in [Nodes \cup {0} -> Nodes \cup {Nil}] /\ erased \subseteq Nodes
  /\ start_positions \in Seq(Nodes)
  /\ at \in [Threads -> {"setup", "ready", "loop", "pass", "mutate", "wrap", "stopped", "over"}]
  /\ left \in [Threads -> 0 .. Iterations] /\ op \in [Threads -> 0 .. InsertEvery - 1]
  /\ tries \in [Threads -> 0 .. Iterations] /\ ok \in [Threads -> 0 .. Iterations]
  /\ it \in [Threads -> [node : Nodes \cup {Nil}, count : 0 .. Window]]
  /\ anchor \in [Threads -> Nodes \cup {Nil}] /\ cursor \in [Threads -> Nodes \cup {Nil}]
  /\ sizes \in Int

AtWork(t) == at[t] \in {"loop", "pass", "mutate", "wrap"}

(* The container is whole whenever a thread uses it.                        *)
UsedWhileLive == \A t \in Threads : AtWork(t) => thing = "live"

(* No two threads insert the same key, so that every insert() has to return *)
(* true, and lookups hit the same keys from the beginning to the end.       *)
KeysAreDisjoint ==
  fixture.on = "set" =>
    /\ ok = tries
    /\ fixture = MostlyOld /\ thing = "live" => keys \cap Lookups = 0 .. Prefill - 1

(* The nodes that a walk meets                                              *)
Walk == LET from[n \in 0 .. Cardinality(Nodes)] == IF n = 0 THEN {next[0]}
              ELSE from[n - 1] \cup {next[x] : x \in from[n - 1] \ {Nil}}
        IN from[Cardinality(Nodes)] \ {Nil}

(* With marks, and at the head, the list holds what was inserted and not    *)
(* erased; otherwise it may have lost insertions and kept erased nodes, in  *)
(* number no more than there were.                                          *)
PopulationIsKnown ==
  fixture.on = "list" /\ thing = "live" =>
    /\ fixture.marks \/ ~fixture.cursor =>
         Cardinality(Walk) = ListSize + sizes /\ Walk \cap erased = {}
    /\ Cardinality(Walk) <= ListSize + Hands * Iterations

FixturesAreSound == UsedWhileLive /\ KeysAreDisjoint /\ PopulationIsKnown

(* Every thread of the benchmark has left it through the last barrier.      *)
Over == \A t \in Threads : at[t] = "over"
=============================================================================
