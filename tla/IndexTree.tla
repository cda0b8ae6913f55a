------------------------------ MODULE IndexTree ------------------------------
(***************************************************************************)
(* The index trees of Chapter12: a vector of values and a set of pointers  *)
(* into it that is ordered by the values (02_index_tree.C), with a lock    *)
(* chosen at run time (03), by a policy (04) or by a decorator (05).       *)
(*                                                                         *)
(* A tree without a lock has one user, as in the benchmarks; one with a    *)
(* lock may have several.  The benchmarks insert no more than the N values *)
(* the vector reserves space for, so no pointer ever dangles.              *)
(***************************************************************************)
EXTENDS Integers, Sequences, FiniteSets, SequencesExt

CONSTANTS
  Users,      (* threads                                                   *)
  Values,     (* the numbers that rand() returns                           *)
  N,          (* state.range(0), the capacity                              *)
  MaxFinds    (* bound of the model: searches per thread                   *)

VARIABLES
  tree,       (* which of the four programs                                *)
  guarded,    (* whether its lock is a real one                            *)
  data, idx,  (* data_, and the positions idx_ points to                   *)
  owner,      (* who holds m_                                              *)
  at, arg,    (* each user: where it is, and the value it works with       *)
  pos,        (* how far its scan of data_ or idx_ is                      *)
  finds,
  found       (* what its last search answered                             *)

vars == <<tree, guarded, data, idx, owner, at, arg, pos, finds, found>>

Trees == {"plain", "runtime", "policy", "decorator"}
Nobody == "nobody"

Init ==
  /\ tree \in Trees
  /\ guarded \in IF tree = "plain" THEN {FALSE} ELSE BOOLEAN
  /\ data = <<>> /\ idx = {}
  /\ owner = Nobody
  /\ at = [u \in Users |-> "idle"]
  /\ arg = [u \in Users |-> CHOOSE v \in Values : TRUE]
  /\ pos = [u \in Users |-> 0]
  /\ finds = [u \in Users |-> 0]
  /\ found = [u \in Users |-> FALSE]

Goto(u, l) == at' = [at EXCEPT ![u] = l]

(* only a tree with a lock is shared                                        *)
MayUse(u) == guarded \/ \A o \in Users \ {u} : finds[o] = 0 /\ at[o] = "idle"

-----------------------------------------------------------------------------
(* optional_lock_guard, std::lock_guard over the policy, or the decorator's *)
(* guard: without a lock nothing is taken                                   *)
Acquire(u) ==
  IF guarded THEN owner = Nobody /\ owner' = u ELSE UNCHANGED owner

Release(u) ==
  IF guarded THEN owner' = Nobody ELSE UNCHANGED owner

Calls(u, l, v) ==
  /\ at[u] = "idle" /\ MayUse(u)
  /\ Goto(u, l) /\ arg' = [arg EXCEPT ![u] = v] /\ pos' = [pos EXCEPT ![u] = 0]
  /\ UNCHANGED <<tree, guarded, data, idx, owner, found>>

CallInsert(u) ==
  /\ Len(data) + Cardinality({o \in Users : at[o] \in {"insert", "push"}}) < N
  /\ \E v \in Values : Calls(u, "insert", v)
  /\ UNCHANGED finds

CallFind(u) ==
  /\ finds[u] < MaxFinds
  /\ \E v \in Values : Calls(u, "find", v)
  /\ finds' = [finds EXCEPT ![u] = @ + 1]

(* the free find() of 02 goes through the index instead                     *)
CallFindByIndex(u) ==
  /\ finds[u] < MaxFinds /\ tree = "plain"
  /\ \E v \in Values : Calls(u, "iterate", v)
  /\ finds' = [finds EXCEPT ![u] = @ + 1]

-----------------------------------------------------------------------------
(* insert() *)
LockToInsert(u) ==
  /\ at[u] = "insert"
  /\ Acquire(u) /\ Goto(u, "push")
  /\ UNCHANGED <<tree, guarded, data, idx, arg, pos, finds, found>>

PushBack(u) ==
  /\ at[u] = "push"
  /\ data' = Append(data, arg[u])
  /\ Goto(u, "index")
  /\ UNCHANGED <<tree, guarded, idx, owner, arg, pos, finds, found>>

(* idx_.insert(&data_.back()): the set keeps the first of two equal values  *)
InsertPointer(u) ==
  /\ at[u] = "index"
  /\ LET back == Len(data)
     IN idx' = IF \E p \in idx : data[p] = data[back] THEN idx ELSE idx \cup {back}
  /\ Release(u) /\ Goto(u, "idle")
  /\ UNCHANGED <<tree, guarded, data, arg, pos, finds, found>>

(* find() *)
LockToFind(u) ==
  /\ at[u] = "find"
  /\ Acquire(u) /\ Goto(u, "scan")
  /\ UNCHANGED <<tree, guarded, data, idx, arg, pos, finds, found>>

Answer(u, b) ==
  /\ found' = [found EXCEPT ![u] = b]
  /\ Release(u) /\ Goto(u, "idle")
  /\ UNCHANGED pos

Scan(u) ==
  /\ at[u] = "scan"
  /\ IF pos[u] = Len(data) THEN Answer(u, FALSE)
     ELSE IF data[pos[u] + 1] = arg[u] THEN Answer(u, TRUE)
     ELSE pos' = [pos EXCEPT ![u] = @ + 1] /\ UNCHANGED <<found, owner, at>>
  /\ UNCHANGED <<tree, guarded, data, idx, arg, finds>>

(* the iterator walks through the pointers in the order of their values     *)
InOrder == SetToSortSeq(idx, LAMBDA p, q : data[p] < data[q])

Iterate(u) ==
  /\ at[u] = "iterate"
  /\ IF pos[u] = Len(InOrder) THEN Answer(u, FALSE)
     ELSE IF data[InOrder[pos[u] + 1]] = arg[u] THEN Answer(u, TRUE)
     ELSE pos' = [pos EXCEPT ![u] = @ + 1] /\ UNCHANGED <<found, owner, at>>
  /\ UNCHANGED <<tree, guarded, data, idx, arg, finds>>

User(u) ==
  \/ CallInsert(u) \/ CallFind(u) \/ CallFindByIndex(u)
  \/ LockToInsert(u) \/ PushBack(u) \/ InsertPointer(u)
  \/ LockToFind(u) \/ Scan(u) \/ Iterate(u)

Next == \E u \in Users : User(u)

Spec == Init /\ [][Next]_vars

-----------------------------------------------------------------------------
(* Nobody reads the vector or the index while another user changes them, so *)
(* push_back and the set's rotations are never seen half done.              *)
ReadersAndWritersApart ==
  \A u, o \in Users :
    u # o /\ at[u] \in {"push", "index"} => at[o] \notin {"push", "index", "scan", "iterate"}

(* Between insertions the index has one pointer for each different value,   *)
(* and all of them point into the vector: the walk through the index and    *)
(* the scan of the vector find the same values.                             *)
IndexFollowsData ==
  (\A u \in Users : at[u] # "index") =>
    /\ idx \subseteq DOMAIN data
    /\ {data[p] : p \in idx} = {data[p] : p \in DOMAIN data}
    /\ \A p, q \in idx : data[p] = data[q] => p = q

(* What a search still in its scan has passed by is not what it looks for,  *)
(* and what it has answered `true' stays true.                              *)
SearchesAreRight ==
  \A u \in Users :
    /\ at[u] = "scan" => \A p \in 1 .. pos[u] : data[p] # arg[u]
    /\ at[u] = "iterate" => \A p \in 1 .. pos[u] : data[InOrder[p]] # arg[u]

IndexTreesAreSound == ReadersAndWritersApart /\ IndexFollowsData /\ SearchesAreRight

(* An answer is right at the moment it is given.                            *)
AnswersAreRight ==
  \A u \in Users :
    at[u] \in {"scan", "iterate"} /\ at'[u] = "idle" =>
      (found'[u] <=> \E p \in DOMAIN data : data[p] = arg[u])

IndexTreeTypeOK ==
  /\ tree \in Trees /\ guarded \in BOOLEAN
  /\ data \in UNION {[1 .. n -> Values] : n \in 0 .. N}
  /\ owner \in Users \cup {Nobody}
  /\ \A u \in Users : pos[u] <= Len(data)
=============================================================================
