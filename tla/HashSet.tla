------------------------------- MODULE HashSet -------------------------------
(***************************************************************************)
(* ConcurrentResizableHashSet of Chapter07/07_concurrent_hash: a hash set  *)
(* that doubles its table without stopping anybody.  A new bucket is       *)
(* filled by the first thread that meets it, with copies of the nodes of   *)
(* its parent that belong to it now: the parent's head is sealed, so that  *)
(* threads with an older size cannot publish there, and each node that     *)
(* moves is frozen, so that they cannot erase it there.                    *)
(*                                                                         *)
(* One action per access of an atomic word that another thread can tell    *)
(* apart.  The index bits of a published link never change, so a bucket is *)
(* shown as the set of its published nodes and a link as the state of its  *)
(* two bits; a walk stops only at the nodes of its key.  A node gets its   *)
(* number when it is published, and is linked before the older ones: a     *)
(* walk meets the nodes of a bucket from the greatest number on.  A seal   *)
(* level is the table size itself instead of its logarithm, 0 for a chain  *)
(* never sealed.                                                           *)
(*                                                                         *)
(* The two ConcurrentAppendDeques are used as module AppendDeque shows     *)
(* them to be: an element below a size that was seen stays where it is.    *)
(* Memory is sequentially consistent.                                      *)
(***************************************************************************)
EXTENDS Integers, Sequences

CONSTANTS
  Threads,
  Keys,
  Hash,         (* the hash of each key                                     *)
  InitialSize,  (* initial_capacity: a power of two, at least 4             *)
  MaxSize,      (* bound of the model: the table does not double beyond it  *)
  MaxNodes,     (* bound of the model: no insert() is called once so many   *)
                (* nodes have been published, the copies of splits included *)
  NoThread,     (* the lock is free                                         *)
  None          (* no decision                                              *)

PowersOfTwo ==
  {1, 2, 4, 8, 16, 32, 64, 128, 256, 512, 1024, 2048, 4096, 8192, 16384, 32768, 65536}

ASSUME HashSetAssumption ==
  /\ Keys # {} /\ Hash \in [Keys -> Nat]
  /\ InitialSize \in PowersOfTwo /\ InitialSize >= 4
  /\ MaxSize \in PowersOfTwo /\ InitialSize <= MaxSize
  /\ MaxNodes \in Nat
  /\ NoThread \notin Threads
  /\ None \notin Threads \X BOOLEAN

VARIABLES
  allow_delete, (* template parameter AllowDelete                           *)
  table_size,   (* table_size_                                              *)
  buckets,      (* buckets_: the nodes of each bucket and its seal level    *)
  nodes,        (* data_: the published nodes, their key and their bits     *)
  resize_lock,  (* resize_lock_                                             *)
  pc, op, key,  (* where each thread is, its call and the key               *)
  ts,           (* the table size it works with                             *)
  head,         (* the head it read of its bucket, or of the parent in a    *)
                (* split                                                    *)
  rest,         (* the nodes it has still to look at                        *)
  stale,        (* erase(): it met a frozen node of its key                 *)
  splits,       (* the buckets it is splitting, a parent before its child   *)
  copies,       (* the keys of the private chain of a split                 *)
  seen, decision (* history: see module ConcurrentSet                       *)

table   == <<allow_delete, table_size, buckets, nodes>>
splitting == <<splits, copies>>
vars == <<table, resize_lock, pc, op, key, ts, head, rest, stale, splitting, seen, decision>>

-----------------------------------------------------------------------------
(* Geometry                                                                 *)

Powers == {n \in PowersOfTwo : n <= MaxSize}

BitFloor(j) == CHOOSE n \in Powers : n <= j /\ j < 2 * n

Parent(j) == j - BitFloor(j)

(* The table size that created bucket j, whose mask selects its keys        *)
SizeOf(j) == 2 * BitFloor(j)

BucketAt(k, size) == Hash[k] % size

Uninitialized == [chain |-> {0}, level |-> 0]

Published(j) == j \in DOMAIN buckets /\ buckets[j] # Uninitialized

(* The nodes of a chain with key k, and those that move to bucket j         *)
WithKey(chain, k)  == {n \in chain : nodes[n].key = k}
MovingTo(chain, j) == {n \in chain : BucketAt(nodes[n].key, SizeOf(j)) = j}

(* The first of the nodes ns in their chain                                 *)
Newest(n, ns) == \A m \in ns : m <= n

AKey == CHOOSE k \in Keys : TRUE

PCs == {"idle", "size", "head", "walk", "mark", "recheck", "publish", "lock",
        "store", "parent", "seal", "copy", "child"}

Init ==
  /\ allow_delete \in BOOLEAN
  /\ table_size = InitialSize
  /\ buckets = [j \in 0 .. InitialSize - 1 |-> [chain |-> {}, level |-> 0]]
  /\ nodes = <<>>
  /\ resize_lock = NoThread
  /\ pc = [t \in Threads |-> "idle"]
  /\ op = [t \in Threads |-> "contains"]
  /\ key = [t \in Threads |-> AKey]
  /\ ts = [t \in Threads |-> 0]
  /\ head = [t \in Threads |-> Uninitialized]
  /\ rest = [t \in Threads |-> {}]
  /\ stale = [t \in Threads |-> FALSE]
  /\ splits = [t \in Threads |-> <<>>]
  /\ copies = [t \in Threads |-> <<>>]
  /\ seen = [t \in Threads |-> {}]
  /\ decision = None

-----------------------------------------------------------------------------
Goto(t, l) == pc' = [pc EXCEPT ![t] = l]

Decide(t, a) == decision' = <<t, a>>

Undecided == decision' = None

(* The call is over: its locals are gone.                                   *)
Return(t) ==
  /\ Goto(t, "idle")
  /\ op' = [op EXCEPT ![t] = "contains"]
  /\ key' = [key EXCEPT ![t] = AKey]
  /\ ts' = [ts EXCEPT ![t] = 0]
  /\ head' = [head EXCEPT ![t] = Uninitialized]
  /\ rest' = [rest EXCEPT ![t] = {}]
  /\ stale' = [stale EXCEPT ![t] = FALSE]
  /\ UNCHANGED splitting

Bucket(t) == BucketAt(key[t], ts[t])

(* The call, with its first load of table_size_                             *)
Call(t) ==
  /\ pc[t] = "idle"
  /\ \E o \in {"insert", "erase", "contains"}, k \in Keys :
       /\ o = "erase" => allow_delete
       /\ o = "insert" => Len(nodes) < MaxNodes
       /\ op' = [op EXCEPT ![t] = o]
       /\ key' = [key EXCEPT ![t] = k]
  /\ ts' = [ts EXCEPT ![t] = table_size]
  /\ Undecided
  /\ Goto(t, "head")
  /\ UNCHANGED <<table, resize_lock, head, rest, stale, splitting>>

(* insert() starts over with table_size_.load().                            *)
LoadSize(t) ==
  /\ pc[t] = "size"
  /\ ts' = [ts EXCEPT ![t] = table_size]
  /\ Goto(t, "head")
  /\ UNCHANGED <<table, resize_lock, op, key, head, rest, stale, splitting>>

(* Where a walk goes on with the nodes ns: to the next node of the key, or  *)
(* past the end of the chain.                                               *)
WalkOn(t, ns) ==
  /\ rest' = [rest EXCEPT ![t] = ns]
  /\ Goto(t, IF ns # {} THEN "walk" ELSE IF op[t] = "insert" THEN "publish" ELSE "recheck")

(* An insert that meets a higher seal level starts over.                    *)
TooHigh(t, h) == op[t] = "insert" /\ h.level > ts[t]

(* buckets_[j].load()                                                       *)
LoadHead(t) ==
  /\ pc[t] = "head"
  /\ LET h == buckets[Bucket(t)] IN
       \/ /\ h = Uninitialized
          /\ splits' = [splits EXCEPT ![t] = <<Bucket(t)>>]
          /\ Goto(t, "parent")
          /\ UNCHANGED <<ts, head, rest>>
       \/ /\ h # Uninitialized /\ TooHigh(t, h)
          /\ Goto(t, "size")
          /\ UNCHANGED <<ts, head, rest, splits>>
       \/ /\ h # Uninitialized /\ ~TooHigh(t, h)
          /\ head' = [head EXCEPT ![t] = IF op[t] = "insert" THEN h ELSE @]
          /\ WalkOn(t, WithKey(h.chain, key[t]))
          /\ UNCHANGED <<ts, splits>>
  /\ UNCHANGED <<table, resize_lock, op, key, stale, copies>>

(* The link of the next node of the key                                     *)
WalkAt(t, n) ==
  \/ /\ nodes[n].link = "marked"
     /\ WalkOn(t, rest[t] \ {n})
     /\ UNCHANGED <<op, key, ts, head, stale, splitting>> /\ Undecided
  \/ /\ nodes[n].link # "marked" /\ op[t] # "erase"
     /\ Decide(t, op[t] = "contains")
     /\ Return(t)
  \/ /\ nodes[n].link # "marked" /\ op[t] = "erase"
     /\ rest' = [rest EXCEPT ![t] = {n}]
     /\ stale' = [stale EXCEPT ![t] = nodes[n].link = "frozen"]
     /\ Goto(t, IF nodes[n].link = "frozen" THEN "recheck" ELSE "mark")
     /\ UNCHANGED <<op, key, ts, head, splitting>> /\ Undecided

Walk(t) ==
  /\ pc[t] = "walk"
  /\ \E n \in rest[t] : Newest(n, rest[t]) /\ WalkAt(t, n)
  /\ UNCHANGED <<table, resize_lock>>

Mark_Store(t) ==               \* mutant: an exchange instead of the CAS
  /\ pc[t] = "mark"
  /\ \E n \in rest[t] : nodes' = [nodes EXCEPT ![n].link = "marked"]
  /\ Decide(t, TRUE)
  /\ Return(t)
  /\ UNCHANGED <<allow_delete, table_size, buckets, resize_lock>>

(* erase(): the CAS that marks a live link, of the node the walk stopped at *)
Mark(t) ==
  /\ pc[t] = "mark"
  /\ \E n \in rest[t] :
       \/ /\ nodes[n].link = "live"
          /\ nodes' = [nodes EXCEPT ![n].link = "marked"]
          /\ Decide(t, TRUE)
          /\ Return(t)
       \/ /\ nodes[n].link # "live"
          /\ stale' = [stale EXCEPT ![t] = nodes[n].link = "frozen"]
          /\ Goto(t, "recheck")
          /\ UNCHANGED <<nodes, op, key, ts, head, rest, splitting>> /\ Undecided
  /\ UNCHANGED <<allow_delete, table_size, buckets, resize_lock>>

Recheck_OldSize(t) ==          \* mutant: the retry works with the same size
  /\ pc[t] = "recheck"
  /\ \/ /\ table_size = ts[t] /\ ~stale[t]
        /\ Decide(t, FALSE)
        /\ Return(t)
     \/ /\ table_size # ts[t] \/ stale[t]
        /\ stale' = [stale EXCEPT ![t] = FALSE]
        /\ rest' = [rest EXCEPT ![t] = {}]
        /\ Goto(t, "head")
        /\ UNCHANGED <<op, key, ts, head, splitting>> /\ Undecided
  /\ UNCHANGED <<table, resize_lock>>

(* A miss counts only if the table has not grown.                           *)
Recheck(t) ==
  /\ pc[t] = "recheck"
  /\ \/ /\ table_size = ts[t] /\ ~stale[t]
        /\ Decide(t, FALSE)
        /\ Return(t)
     \/ /\ table_size # ts[t] \/ stale[t]
        /\ ts' = [ts EXCEPT ![t] = table_size]
        /\ stale' = [stale EXCEPT ![t] = FALSE]
        /\ rest' = [rest EXCEPT ![t] = {}]
        /\ Goto(t, "head")
        /\ UNCHANGED <<op, key, head, splitting>> /\ Undecided
  /\ UNCHANGED <<table, resize_lock>>

-----------------------------------------------------------------------------
(* insert()                                                                 *)

(* The CAS on the head, which compares the chain and the level.  After it   *)
(* data_.size() > ts * 2: data_ holds the nodes of all keys, those nobody   *)
(* sees in this model too, so that the test may turn out either way.        *)
Publish(t) ==
  /\ pc[t] = "publish"
  /\ \/ /\ buckets[Bucket(t)] = head[t]
        /\ nodes' = Append(nodes, [key |-> key[t], link |-> "live"])
        /\ buckets' = [buckets EXCEPT ![Bucket(t)].chain = @ \cup {Len(nodes) + 1}]
        /\ Decide(t, TRUE)
        /\ \/ Return(t)
           \/ /\ Goto(t, "lock")
              /\ head' = [head EXCEPT ![t] = Uninitialized]
              /\ UNCHANGED <<op, key, ts, rest, stale, splitting>>
     \/ /\ buckets[Bucket(t)] # head[t]
        /\ Goto(t, "size")
        /\ head' = [head EXCEPT ![t] = Uninitialized]
        /\ Undecided
        /\ UNCHANGED <<nodes, buckets, op, key, ts, rest, stale, splitting>>
  /\ UNCHANGED <<allow_delete, table_size, resize_lock>>

LockResize_NoRecheck(t) ==     \* mutant: the size is not checked under the lock
  /\ pc[t] = "lock"
  /\ resize_lock = NoThread
  /\ 2 * ts[t] <= MaxSize
  /\ resize_lock' = t
  /\ buckets' = [j \in 0 .. 2 * ts[t] - 1 |-> IF j < ts[t] THEN buckets[j] ELSE Uninitialized]
  /\ Goto(t, "store")
  /\ UNCHANGED <<allow_delete, table_size, nodes, op, key, ts, head, rest, stale, splitting>>

(* The lock, and the second check; buckets_.resize() and the UNINITIALIZED  *)
(* markers, which nobody looks at before table_size_ is stored              *)
LockResize(t) ==
  /\ pc[t] = "lock"
  /\ resize_lock = NoThread
  /\ \/ /\ table_size # ts[t] \/ 2 * table_size > MaxSize
        /\ Return(t)
        /\ UNCHANGED <<buckets, resize_lock>>
     \/ /\ table_size = ts[t] /\ 2 * table_size <= MaxSize
        /\ resize_lock' = t
        /\ buckets' = [j \in 0 .. 2 * ts[t] - 1 |->
                         IF j < ts[t] THEN buckets[j] ELSE Uninitialized]
        /\ Goto(t, "store")
        /\ UNCHANGED <<op, key, ts, head, rest, stale, splitting>>
  /\ UNCHANGED <<allow_delete, table_size, nodes>>

(* table_size_.store() and the unlock                                       *)
StoreSize(t) ==
  /\ pc[t] = "store"
  /\ table_size' = 2 * ts[t]
  /\ resize_lock' = NoThread
  /\ Return(t)
  /\ UNCHANGED <<allow_delete, buckets, nodes>>

-----------------------------------------------------------------------------
(* split_bucket(j), for the first j of splits[t]                            *)

Child(t) == Head(splits[t])

(* The snapshot is taken: on to its nodes that move.                        *)
CopyOn(t, ns) ==
  /\ rest' = [rest EXCEPT ![t] = ns]
  /\ Goto(t, IF ns = {} THEN "child" ELSE "copy")

(* The parent's head is h: it has to be sealed for the size of the child.   *)
SealOrCopy(t, h) ==
  \/ /\ h.level < SizeOf(Child(t))
     /\ head' = [head EXCEPT ![t] = h]
     /\ Goto(t, "seal")
     /\ UNCHANGED rest
  \/ /\ h.level >= SizeOf(Child(t))
     /\ head' = [head EXCEPT ![t] = Uninitialized]
     /\ CopyOn(t, MovingTo(h.chain, Child(t)))

LoadParent_NoSeal(t) ==        \* mutant: the snapshot is taken without a seal
  /\ pc[t] = "parent"
  /\ LET h == buckets[Parent(Child(t))] IN
       \/ /\ h = Uninitialized
          /\ splits' = [splits EXCEPT ![t] = <<Parent(Child(t))>> \o @]
          /\ UNCHANGED <<pc, head, rest>>
       \/ h # Uninitialized /\ CopyOn(t, MovingTo(h.chain, Child(t))) /\ UNCHANGED <<head, splits>>
  /\ UNCHANGED <<table, resize_lock, op, key, ts, stale, copies>>

(* A parent that is not there yet is split first.                           *)
LoadParent(t) ==
  /\ pc[t] = "parent"
  /\ LET h == buckets[Parent(Child(t))] IN
       \/ /\ h = Uninitialized
          /\ splits' = [splits EXCEPT ![t] = <<Parent(Child(t))>> \o @]
          /\ UNCHANGED <<pc, head, rest>>
       \/ h # Uninitialized /\ SealOrCopy(t, h) /\ UNCHANGED splits
  /\ UNCHANGED <<table, resize_lock, op, key, ts, stale, copies>>

(* The CAS that raises the level.  On failure it returns the head it found. *)
Seal(t) ==
  /\ pc[t] = "seal"
  /\ LET p == Parent(Child(t)) IN
       \/ /\ buckets[p] = head[t]
          /\ buckets' = [buckets EXCEPT ![p].level = SizeOf(Child(t))]
          /\ head' = [head EXCEPT ![t] = Uninitialized]
          /\ CopyOn(t, MovingTo(head[t].chain, Child(t)))
       \/ buckets[p] # head[t] /\ SealOrCopy(t, buckets[p]) /\ UNCHANGED buckets
  /\ UNCHANGED <<allow_delete, table_size, nodes, resize_lock, op, key, ts, stale,
                 splitting>>

(* The link of a node that moves: a tombstone is skipped; any other node is *)
(* copied, and when there are erases frozen first.  The load and the CAS    *)
(* are one action: a link that is not live at the load is final.            *)
CopyAt(t, n, link) ==
  /\ \/ nodes[n].link = "marked" /\ UNCHANGED <<nodes, copies>>
     \/ /\ nodes[n].link # "marked"
        /\ nodes' = [nodes EXCEPT ![n].link = link]
        /\ copies' = [copies EXCEPT ![t] = Append(@, nodes[n].key)]
  /\ CopyOn(t, rest[t] \ {n})

CopyWith(t, link) ==
  /\ pc[t] = "copy"
  /\ \E n \in rest[t] : Newest(n, rest[t]) /\ CopyAt(t, n, link)
  /\ UNCHANGED <<allow_delete, table_size, buckets, resize_lock, op, key, ts, head,
                 stale, splits>>

Copy_NoFreeze(t) == CopyWith(t, "live")        \* mutant: a live node is copied

Copy(t) == CopyWith(t, IF allow_delete THEN "frozen" ELSE "live")

(* The child is published, unless somebody has done it, and the call or the *)
(* split of the child's child goes on.                                      *)
PublishChild(t) ==
  /\ pc[t] = "child"
  /\ LET j == Child(t)
         c == copies[t]
     IN \/ /\ buckets[j] = Uninitialized
           /\ nodes' = nodes \o [n \in 1 .. Len(c) |-> [key |-> c[n], link |-> "live"]]
           /\ buckets' = [buckets EXCEPT ![j].chain = Len(nodes) + 1 .. Len(nodes) + Len(c)]
        \/ buckets[j] # Uninitialized /\ UNCHANGED <<nodes, buckets>>
  /\ copies' = [copies EXCEPT ![t] = <<>>]
  /\ splits' = [splits EXCEPT ![t] = Tail(@)]
  /\ Goto(t, IF Len(splits[t]) > 1 THEN "parent"
             ELSE IF op[t] = "insert" THEN "size" ELSE "head")
  /\ UNCHANGED <<allow_delete, table_size, resize_lock, op, key, ts, head, rest, stale>>

-----------------------------------------------------------------------------
(* The keys in the set: those with a live node in a published bucket, or    *)
(* with a frozen one whose copy is not published yet ("INVARIANT (key       *)
(* authority)", lines 132-139).                                             *)

(* The child of bucket j that k belongs to is published.                    *)
Moved(k, j) ==
  \E i \in DOMAIN buckets :
    /\ i >= InitialSize /\ Published(i)
    /\ Parent(i) = j /\ BucketAt(k, SizeOf(i)) = i

NodesOf(k, j) == WithKey(buckets[j].chain, k)

LiveNodes(k) ==
  UNION {{n \in NodesOf(k, j) : nodes[n].link = "live"} : j \in {i \in DOMAIN buckets : Published(i)}}

Member(k) ==
  \/ LiveNodes(k) # {}
  \/ \E j \in DOMAIN buckets :
       /\ Published(j) /\ \E n \in NodesOf(k, j) : nodes[n].link = "frozen"
       /\ ~Moved(k, j)

Members == {k \in Keys : Member(k)}

(* The history: whether its key was in the set, for a thread in a call      *)
Watch ==
  LET members == Members' IN
    seen' = [t \in Threads |->
               IF pc'[t] = "idle" THEN {}
               ELSE (IF pc[t] = "idle" THEN {} ELSE seen[t]) \cup {key'[t] \in members}]

Step(t) ==
  \/ Walk(t) \/ Mark(t) \/ Recheck(t) \/ Publish(t)
  \/ /\ \/ LoadSize(t) \/ LoadHead(t) \/ LockResize(t) \/ StoreSize(t)
        \/ LoadParent(t) \/ Seal(t) \/ Copy(t) \/ PublishChild(t)
     /\ Undecided

Next == \E t \in Threads : (Call(t) \/ Step(t)) /\ Watch

Spec == Init /\ [][Next]_vars

(* Threads inside a call are scheduled, and get the lock when it is free.   *)
FairSpec == Spec /\ \A t \in Threads : WF_vars(Step(t) /\ Watch)

-----------------------------------------------------------------------------
Heads == [chain : SUBSET (0 .. Len(nodes)), level : Nat]

TypeOK ==
  /\ allow_delete \in BOOLEAN
  /\ table_size \in Nat
  /\ 0 .. table_size - 1 \subseteq DOMAIN buckets
  /\ \A j \in DOMAIN buckets : buckets[j] \in Heads
  /\ nodes \in Seq([key : Keys, link : {"live", "marked", "frozen"}])
  /\ resize_lock \in Threads \cup {NoThread}
  /\ pc \in [Threads -> PCs]
  /\ op \in [Threads -> {"insert", "erase", "contains"}]
  /\ key \in [Threads -> Keys]
  /\ ts \in [Threads -> Nat]
  /\ head \in [Threads -> Heads]
  /\ rest \in [Threads -> SUBSET (1 .. Len(nodes))]
  /\ stale \in [Threads -> BOOLEAN]
  /\ splits \in [Threads -> Seq(Nat)]
  /\ copies \in [Threads -> Seq(Keys)]
  /\ seen \in [Threads -> SUBSET BOOLEAN]
  /\ decision \in (Threads \X BOOLEAN) \cup {None}

(* A key has one authority at most: one live node, and none while a copy    *)
(* of a frozen node is still to be published (lines 132-139).               *)
KeyAuthority ==
  allow_delete =>
    \A k \in Keys :
      \A n \in LiveNodes(k), j \in {i \in DOMAIN buckets : Published(i)} :
        /\ LiveNodes(k) = {n}
        /\ (\E m \in NodesOf(k, j) : nodes[m].link = "frozen") => Moved(k, j)

(* A published link changes once, from live to marked or to frozen, and a   *)
(* node that was frozen is never marked (lines 64-66).                      *)
LinksAreFinal ==
  [][\A n \in 1 .. Len(nodes) :
       \/ nodes'[n] = nodes[n]
       \/ nodes[n].link = "live" /\ nodes'[n].key = nodes[n].key]_nodes

(* The hash set implements the linearizable set: exactly one insert() wins  *)
(* for a key that is absent, exactly one erase() for one that is present,   *)
(* and a call that changes nothing answers what was true during the call,   *)
(* however often the table doubles meanwhile.                               *)
CallState(t) ==
  IF pc[t] = "idle" THEN "idle"
  ELSE IF pc[t] \in {"lock", "store"} THEN "decided" ELSE "called"

S == INSTANCE ConcurrentSet WITH set <- Members, state <- [t \in Threads |-> CallState(t)]

ImplementsSet == S!Spec

(* Calls return although the table grows under them: each retry is owed to  *)
(* a doubling, a seal or a publication of another thread, and there are as  *)
(* many as the bounds allow.                                                *)
CallsReturn == \A t \in Threads : pc[t] # "idle" ~> pc[t] = "idle"
=============================================================================
