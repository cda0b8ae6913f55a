---------------------------- MODULE HashSetProofs ----------------------------
(***************************************************************************)
(* No key of the hash set has two authorities, published links are final,  *)
(* and the set is linearizable: for any keys, hashes and threads.          *)
(*                                                                         *)
(* The buckets that a key can be in, as the table doubles, form a ladder:  *)
(* its hash modulo the successive sizes.  A bucket is home to the keys     *)
(* whose ladder it is on.  What makes the set correct is that a bucket is  *)
(* published after its parent was sealed, so that nobody inserts below a   *)
(* published rung, and with all that is left of its keys in the parent     *)
(* frozen, so that nobody erases below it.                                 *)
(***************************************************************************)
EXTENDS HashSet, RingLemmas, SequenceTheorems

(* The size with which bucket j appeared, and the keys it is home to        *)
FirstSize(j) == IF j < InitialSize THEN InitialSize ELSE SizeOf(j)
Home(k, j)   == BucketAt(k, FirstSize(j)) = j

Node  == [key : Keys, link : {"live", "marked", "frozen"}]
Sizes == {n \in Powers : InitialSize <= n}

(* The buckets that exist, while the table is being doubled too             *)
Extent == IF resize_lock = NoThread THEN table_size ELSE 2 * table_size

Splitting == {"parent", "seal", "copy", "child"}

TableTypes ==
  /\ allow_delete \in BOOLEAN
  /\ table_size \in Sizes
  /\ buckets \in [0 .. Extent - 1 -> Heads]
  /\ nodes \in Seq(Node)
  /\ resize_lock \in Threads \cup {NoThread}

LocalTypes ==
  /\ pc \in [Threads -> PCs]
  /\ op \in [Threads -> {"insert", "erase", "contains"}]
  /\ key \in [Threads -> Keys]
  /\ ts \in [Threads -> Nat]
  /\ head \in [Threads -> Heads]
  /\ rest \in [Threads -> SUBSET (1 .. Len(nodes))]
  /\ stale \in [Threads -> BOOLEAN]
  /\ splits \in [Threads -> Seq(InitialSize .. table_size - 1)]
  /\ copies \in [Threads -> Seq(Keys)]

HistoryTypes ==
  /\ seen \in [Threads -> SUBSET BOOLEAN]
  /\ decision \in (Threads \X BOOLEAN) \cup {None}

(* The buckets of the first table are there; others have been announced.    *)
SizeInv ==
  /\ \A j \in Nat : j < InitialSize => Published(j)
  /\ \A j \in Nat : Published(j) => j < table_size

(* Below a published bucket j, on the rungs of a smaller size n, the ladder *)
(* goes on with a published child, for whose size its parent is sealed.     *)
LadderInv ==
  \A j \in Nat, n \in Sizes :
    Published(j) /\ n <= j =>
      \E m \in Sizes :
        /\ n <= m /\ m <= j
        /\ j % m = j % n /\ j % (2 * m) = (j % n) + m
        /\ Published(j % (2 * m))
        /\ buckets[j % n].level >= 2 * m

(* A chain holds keys it is home to, each at most once without a tombstone. *)
ChainInv ==
  \A j \in Nat : Published(j) =>
    /\ buckets[j].chain \subseteq 1 .. Len(nodes)
    /\ \A n \in buckets[j].chain : Home(nodes[n].key, j)
    /\ \A m, n \in buckets[j].chain :
         nodes[m].key = nodes[n].key /\ nodes[m].link # "marked" /\ nodes[n].link # "marked" => m = n

(* The highest published bucket of a key has the say.                       *)
AuthorityInv ==
  /\ \A i, j \in Nat : Published(i) /\ Published(j) /\ i < j =>
       \A n \in buckets[i].chain : Home(nodes[n].key, j) =>
         IF allow_delete THEN nodes[n].link # "live"
         ELSE \E m \in buckets[j].chain : nodes[m].key = nodes[n].key
  /\ ~allow_delete => \A n \in 1 .. Len(nodes) : nodes[n].link = "live"

TableInv == SizeInv /\ LadderInv /\ ChainInv /\ AuthorityInv

(* What a call knows where it is                                            *)
CallInv(t) ==
  /\ resize_lock = t <=> pc[t] = "store"
  /\ op[t] = "erase" => allow_delete
  /\ pc[t] # "idle" => ts[t] \in Sizes /\ ts[t] <= table_size
  /\ pc[t] = "store" => ts[t] = table_size /\ 2 * table_size <= MaxSize
  /\ pc[t] \in {"walk", "mark"} =>
       Published(Bucket(t)) /\ rest[t] \subseteq NodesOf(key[t], Bucket(t))
  /\ pc[t] = "publish" => op[t] = "insert" /\ rest[t] = {}
  /\ pc[t] = "mark" => op[t] = "erase" /\ \E n \in rest[t] : rest[t] = {n}
  /\ pc[t] = "recheck" => op[t] # "insert" /\ (~stale[t] => \A n \in rest[t] : nodes[n].link = "marked")
  /\ pc[t] \in {"walk", "publish"} /\ op[t] = "insert" =>
       /\ head[t].level <= ts[t] /\ head[t] # Uninitialized /\ head[t].chain \subseteq 1 .. Len(nodes)
       /\ \A n \in WithKey(head[t].chain, key[t]) : n \in rest[t] \/ nodes[n].link = "marked"

Copied(t, k) == \E q \in 1 .. Len(copies[t]) : copies[t][q] = k

(* The link a node has when it has been copied                              *)
Final(n) == nodes[n].link = IF allow_delete THEN "frozen" ELSE "live"

(* The nodes of the parent that move to the bucket that t is filling        *)
Moving(t) == MovingTo(buckets[Parent(Child(t))].chain, Child(t))

(* What a split has done where it is: the copies are those of the nodes     *)
(* that have been passed and are not marked.                                *)
SplitInv(t) ==
  /\ splits[t] # <<>> <=> pc[t] \in Splitting
  /\ pc[t] \notin {"copy", "child"} => copies[t] = <<>>
  /\ pc[t] \in {"seal", "copy", "child"} => Published(Parent(Child(t)))
  /\ pc[t] = "seal" => head[t].level < SizeOf(Child(t))
  /\ pc[t] = "child" => rest[t] = {}
  /\ pc[t] \in {"copy", "child"} =>
       /\ buckets[Parent(Child(t))].level >= SizeOf(Child(t))
       /\ rest[t] \subseteq Moving(t)
       /\ \A n \in Moving(t) \ rest[t] :
            nodes[n].link = "marked" \/ (Final(n) /\ Copied(t, nodes[n].key))
       /\ \A q \in 1 .. Len(copies[t]) :
            \E n \in Moving(t) \ rest[t] : nodes[n].key = copies[t][q] /\ Final(n)
       /\ \A q, r \in 1 .. Len(copies[t]) : copies[t][q] = copies[t][r] => q = r

Types == TableTypes /\ LocalTypes /\ HistoryTypes

Inv ==
  /\ Types /\ TableInv
  /\ \A t \in Threads : CallInv(t)
  /\ \A t \in Threads : SplitInv(t)

-----------------------------------------------------------------------------
(* Arithmetic of sizes                                                      *)

(* A power of two divides the greater ones, and twice it is the next one.   *)
LEMMA PowerFacts ==
  ASSUME NEW m \in PowersOfTwo, NEW n \in PowersOfTwo
  PROVE  /\ m \in Nat \ {0}
         /\ m < n => 2 * m \in PowersOfTwo /\ 2 * m <= n
         /\ m <= n => n % m = 0
<1>1. m \in Nat \ {0}
  BY DEF PowersOfTwo
<1>2. m < n => 2 * m \in PowersOfTwo /\ 2 * m <= n
  BY DEF PowersOfTwo
<1>3. m <= n => n % m = 0
  BY DEF PowersOfTwo
<1>4. QED BY <1>1, <1>2, <1>3

(* Sizes are powers of two between the first and the largest.               *)
LEMMA SizeFacts ==
  ASSUME NEW m \in Sizes
  PROVE  /\ m \in PowersOfTwo /\ m \in Nat /\ 4 <= m /\ m <= MaxSize /\ MaxSize \in Nat
         /\ InitialSize \in Sizes /\ InitialSize <= m /\ InitialSize \in Nat /\ MaxSize \in Sizes
         /\ \A n \in Sizes : m < n => 2 * m \in Sizes /\ 2 * m <= n
         /\ 2 * m <= MaxSize => 2 * m \in Sizes
<1>1. /\ m \in PowersOfTwo /\ m <= MaxSize /\ InitialSize <= m
      /\ InitialSize \in PowersOfTwo /\ MaxSize \in PowersOfTwo /\ 4 <= InitialSize
      /\ InitialSize <= MaxSize
  BY HashSetAssumption DEF Sizes, Powers
<1>2. m \in Nat /\ MaxSize \in Nat /\ InitialSize \in Nat
  BY <1>1, PowerFacts
<1>3. InitialSize \in Sizes /\ MaxSize \in Sizes
  BY <1>1, <1>2 DEF Sizes, Powers
<1>4. ASSUME NEW n \in Sizes, m < n PROVE 2 * m \in Sizes /\ 2 * m <= n
  <2>1. n \in PowersOfTwo /\ n <= MaxSize /\ n \in Nat
    BY PowerFacts DEF Sizes, Powers
  <2>2. 2 * m \in PowersOfTwo /\ 2 * m <= n
    BY <1>1, <1>4, <2>1, PowerFacts
  <2>3. QED BY <1>1, <1>2, <2>1, <2>2 DEF Sizes, Powers
<1>5. 2 * m <= MaxSize => 2 * m \in Sizes
  <2>1. 2 * m <= MaxSize => m < MaxSize
    BY <1>1, <1>2, PowerFacts
  <2>2. QED BY <1>3, <1>4, <2>1
<1>6. QED BY <1>1, <1>2, <1>3, <1>4, <1>5

(* The remainder by a size is below it.                                     *)
LEMMA SizeRange ==
  ASSUME NEW m \in Sizes, NEW h \in Nat
  PROVE  h % m \in Nat /\ h % m < m /\ (h < m => h % m = h)
<1>1. m \in Nat /\ m > 0
  BY SizeFacts
<1>2. h % m \in 0 .. m - 1
  BY <1>1, ModRange
<1>3. ASSUME h < m PROVE h % m = h
  BY <1>1, <1>3, ModUnique
<1>4. QED BY <1>1, <1>2, <1>3

(* The remainder by a smaller size follows from that by a greater one.      *)
LEMMA ModMod ==
  ASSUME NEW m \in Sizes, NEW n \in Sizes, NEW h \in Nat, m <= n
  PROVE  (h % n) % m = h % m
<1>1. m \in Nat \ {0} /\ n \in Nat \ {0} /\ n % m = 0
  BY SizeFacts, PowerFacts
<1> DEFINE d == n \div m
           q == h \div n
           a == h % n
           b == a \div m
           c == a % m
<1>2. d \in Nat /\ n = m * d
  BY <1>1, DivMod
<1>3. q \in Nat /\ a \in Nat /\ h = n * q + a
  <2>1. h \div n \in Nat /\ h = n * (h \div n) + (h % n)
    BY <1>1, DivMod
  <2>2. h % n \in 0 .. n - 1
    BY <1>1, ModRange
  <2>3. QED BY <1>1, <2>1, <2>2
<1>4. b \in Nat /\ a = m * b + c /\ c \in 0 .. m - 1
  BY <1>1, <1>3, DivMod, ModRange
<1> HIDE DEF a, b, c, d, q
<1>5. h = (m * d) * q + (m * b + c)
  BY <1>2, <1>3, <1>4
<1>6. (m * d) * q = m * (d * q) /\ d * q \in Nat
  BY <1>1, <1>2, <1>3
<1>7. h = m * (d * q + b) + c /\ d * q + b \in Nat
  BY <1>1, <1>4, <1>5, <1>6
<1>8. h % m = c
  BY <1>1, <1>4, <1>7, ModUnique
<1>9. QED BY <1>8 DEF c, a

(* One bit more or less                                                     *)
LEMMA ModDouble ==
  ASSUME NEW m \in Sizes, 2 * m \in Sizes, NEW h \in Nat
  PROVE  h % (2 * m) = h % m \/ h % (2 * m) = (h % m) + m
<1> DEFINE a == h % (2 * m)
<1>1. m \in Nat /\ m > 0 /\ m <= 2 * m
  BY SizeFacts
<1>2. a \in Nat /\ a < 2 * m /\ h % m = a % m
  <2>1. a \in Nat /\ a < 2 * m
    BY SizeRange
  <2>2. a % m = h % m
    BY <1>1, ModMod
  <2> HIDE DEF a
  <2>3. QED BY <1>1, <2>1, <2>2
<1> HIDE DEF a
<1>3. CASE a < m
  BY <1>1, <1>2, <1>3, SizeRange DEF a
<1>4. CASE a >= m
  <2>1. a - m \in 0 .. m - 1 /\ a = m * 1 + (a - m)
    BY <1>1, <1>2, <1>4
  <2>2. a % m = a - m
    BY <1>1, <1>2, <2>1, ModUnique
  <2>3. QED BY <1>1, <1>2, <2>2 DEF a
<1>5. QED BY <1>1, <1>2, <1>3, <1>4

(* The size below a bucket beyond the first table: BitFloor finds it.       *)
LEMMA FloorFacts ==
  ASSUME NEW j \in Nat, InitialSize <= j, j < MaxSize
  PROVE  /\ BitFloor(j) \in Sizes /\ BitFloor(j) <= j /\ j < 2 * BitFloor(j)
         /\ SizeOf(j) = 2 * BitFloor(j) /\ SizeOf(j) \in Sizes
         /\ Parent(j) = j % BitFloor(j) /\ Parent(j) \in Nat /\ Parent(j) < j
         /\ Parent(j) < BitFloor(j)
<1>1. InitialSize \in PowersOfTwo /\ MaxSize \in PowersOfTwo /\ InitialSize \in Nat /\ MaxSize \in Nat
      /\ 4 <= InitialSize
  BY HashSetAssumption, PowerFacts
<1>2. \E n \in PowersOfTwo : n <= j /\ j < 2 * n
  <2>1. j < 65536
    BY <1>1 DEF PowersOfTwo
  <2>2. QED BY <1>1, <2>1 DEF PowersOfTwo
<1>3. \E n \in Powers : n <= j /\ j < 2 * n
  <2>1. PICK n \in PowersOfTwo : n <= j /\ j < 2 * n
    BY <1>2
  <2>2. n \in Nat /\ n <= MaxSize
    BY <1>1, <2>1, PowerFacts
  <2>3. QED BY <2>1, <2>2 DEF Powers
<1> DEFINE f == BitFloor(j)
<1>4. f \in Powers /\ f <= j /\ j < 2 * f
  BY <1>3 DEF BitFloor
<1> HIDE DEF f
<1>5. f \in PowersOfTwo /\ f \in Nat
  BY <1>4, PowerFacts DEF Powers
<1>6. InitialSize <= f
  <2>1. f < InitialSize => 2 * f <= InitialSize
    BY <1>1, <1>5, PowerFacts
  <2>2. QED BY <1>1, <1>4, <1>5, <2>1
<1>7. f \in Sizes
  BY <1>4, <1>6 DEF Sizes
<1>8. 2 * f \in Sizes
  <2>1. f < MaxSize /\ MaxSize \in Sizes
    BY <1>1, <1>4, <1>5, <1>7, SizeFacts
  <2>2. QED BY <1>7, <2>1, SizeFacts
<1>9. j - f \in 0 .. f - 1 /\ j = f * 1 + (j - f)
  BY <1>4, <1>5
<1>10. j % f = j - f
  BY <1>1, <1>5, <1>6, <1>9, ModUnique
<1>11. QED BY <1>1, <1>4, <1>5, <1>6, <1>7, <1>8, <1>9, <1>10 DEF f, SizeOf, Parent

(* It is the only one.                                                      *)
LEMMA FloorUnique ==
  ASSUME NEW j \in Nat, j < MaxSize, NEW m \in Sizes, m <= j, j < 2 * m
  PROVE  BitFloor(j) = m
<1>1. m \in Nat /\ InitialSize <= m /\ InitialSize \in Nat /\ MaxSize \in Nat
  BY SizeFacts
<1>2. BitFloor(j) \in Sizes /\ BitFloor(j) <= j /\ j < 2 * BitFloor(j)
  BY <1>1, FloorFacts
<1> DEFINE f == BitFloor(j)
<1>3. f \in Nat /\ (f < m => 2 * f <= m) /\ (m < f => 2 * m <= f)
  BY <1>2, SizeFacts
<1> HIDE DEF f
<1>4. QED BY <1>1, <1>2, <1>3 DEF f

(* The first size of a bucket is the least that has it.                     *)
LEMMA FirstSizeFacts ==
  ASSUME NEW j \in Nat, j < MaxSize
  PROVE  /\ FirstSize(j) \in Sizes /\ j < FirstSize(j) /\ FirstSize(j) \in Nat
         /\ \A n \in Sizes : j < n => FirstSize(j) <= n
<1>1. InitialSize \in Sizes /\ InitialSize \in Nat /\ MaxSize \in Nat
  <2>1. InitialSize \in PowersOfTwo /\ InitialSize <= MaxSize
    BY HashSetAssumption
  <2>2. InitialSize \in Sizes
    BY <2>1, PowerFacts DEF Sizes, Powers
  <2>3. QED BY <2>2, SizeFacts
<1>2. CASE j < InitialSize
  <2>1. FirstSize(j) = InitialSize
    BY <1>2 DEF FirstSize
  <2>2. QED BY <1>1, <1>2, <2>1, SizeFacts
<1>3. CASE ~(j < InitialSize)
  <2> DEFINE f == BitFloor(j)
  <2>1. /\ f \in Sizes /\ f <= j /\ j < 2 * f /\ 2 * f \in Sizes
        /\ FirstSize(j) = 2 * f
    BY <1>1, <1>3, FloorFacts DEF FirstSize
  <2> HIDE DEF f
  <2>2. ASSUME NEW n \in Sizes, j < n PROVE 2 * f <= n
    <3>1. f \in Nat /\ n \in Nat /\ (f < n => 2 * f <= n)
      BY <2>1, SizeFacts
    <3>2. QED BY <2>1, <2>2, <3>1
  <2>3. f \in Nat
    BY <2>1, SizeFacts
  <2>4. QED BY <2>1, <2>2, <2>3
<1>4. QED BY <1>2, <1>3

(* A bucket that a size selects for a hash is home to it.                   *)
LEMMA MaskIsHome ==
  ASSUME NEW n \in Sizes, NEW h \in Nat
  PROVE  h % FirstSize(h % n) = h % n
<1> DEFINE j == h % n
           F == FirstSize(j)
<1>1. j \in Nat /\ j < n /\ n \in Nat /\ n <= MaxSize /\ MaxSize \in Nat
  BY SizeRange, SizeFacts
<1> HIDE DEF j
<1>2. F \in Sizes /\ j < F /\ F <= n
  BY <1>1, FirstSizeFacts
<1> HIDE DEF F
<1>3. h % F = j % F
  BY <1>2, ModMod DEF j
<1>4. j % F = j
  BY <1>1, <1>2, SizeRange
<1>5. QED BY <1>3, <1>4 DEF j, F

(* A bucket further up the ladder of h than the one that size n selects was *)
(* created by a greater size, and selects the same bucket with n.           *)
LEMMA MaskOrder ==
  ASSUME NEW h \in Nat, NEW i \in Nat, i < MaxSize, h % FirstSize(i) = i,
         NEW n \in Sizes, h % n < i
  PROVE  /\ n <= i /\ i % n = h % n
         /\ \A m \in Sizes : m <= i => h % m = i % m /\ 2 * m \in Sizes /\ h % (2 * m) = i % (2 * m)
<1> DEFINE F == FirstSize(i)
<1>1. F \in Sizes /\ i < F /\ F \in Nat /\ \A m \in Sizes : i < m => F <= m
  BY FirstSizeFacts
<1>2. h % F = i
  OBVIOUS
<1> HIDE DEF F
<1>3. n \in Nat /\ h % n \in Nat
  BY SizeFacts, SizeRange
<1>4. n <= i
  <2> SUFFICES ASSUME i < n PROVE FALSE
    BY <1>3
  <2>1. F <= n
    BY <1>1
  <2>2. (h % n) % F = i
    BY <1>1, <1>2, <2>1, ModMod
  <2>3. h % n < F /\ (h % n) % F = h % n
    BY <1>1, <1>3, SizeRange
  <2>4. QED BY <1>3, <2>2, <2>3
<1>5. ASSUME NEW m \in Sizes, m <= i
      PROVE  h % m = i % m /\ 2 * m \in Sizes /\ h % (2 * m) = i % (2 * m)
  <2>1. m \in Nat /\ m < F
    BY <1>1, <1>5, SizeFacts
  <2>2. 2 * m \in Sizes /\ 2 * m <= F /\ m <= F
    BY <1>1, <2>1, SizeFacts
  <2>3. QED BY <1>1, <1>2, <2>2, ModMod
<1>6. QED BY <1>4, <1>5

(* The parent of a bucket that is home to h is the rung below.              *)
LEMMA ParentIsBelow ==
  ASSUME NEW j \in Nat, InitialSize <= j, j < MaxSize, NEW h \in Nat, h % SizeOf(j) = j
  PROVE  h % BitFloor(j) = Parent(j) /\ h % FirstSize(Parent(j)) = Parent(j)
<1> DEFINE f == BitFloor(j)
<1>1. f \in Sizes /\ 2 * f \in Sizes /\ f <= 2 * f /\ SizeOf(j) = 2 * f /\ Parent(j) = j % f
  <2>1. f \in Sizes /\ 2 * f \in Sizes /\ SizeOf(j) = 2 * f /\ Parent(j) = j % f
    BY FloorFacts
  <2>2. f \in Nat
    BY <2>1, SizeFacts
  <2>3. QED BY <2>1, <2>2
<1> HIDE DEF f
<1>2. h % f = j % f
  BY <1>1, ModMod
<1>3. QED BY <1>1, <1>2, MaskIsHome DEF f

(* Between a bucket and its parent there is no other rung of a ladder.      *)
LEMMA NothingBetween ==
  ASSUME NEW j \in Nat, InitialSize <= j, j < MaxSize, NEW h \in Nat, h % SizeOf(j) = j,
         NEW i \in Nat, i < MaxSize, h % FirstSize(i) = i, Parent(j) < i
  PROVE  j <= i
<1> DEFINE f == BitFloor(j)
<1>1. f \in Sizes /\ 2 * f \in Sizes /\ SizeOf(j) = 2 * f /\ h % f = Parent(j) /\ f \in Nat
  BY FloorFacts, ParentIsBelow, SizeFacts
<1> HIDE DEF f
<1>2. f <= i /\ h % (2 * f) = i % (2 * f)
  BY <1>1, MaskOrder
<1>3. i % (2 * f) <= i
  <2>1. i % (2 * f) \in Nat /\ i % (2 * f) < 2 * f /\ (i < 2 * f => i % (2 * f) = i)
    BY <1>1, SizeRange
  <2>2. QED BY <1>1, <2>1
<1>4. QED BY <1>1, <1>2, <1>3

(* Below a child, the rungs of a ladder are those of its parent, which the  *)
(* last one is.                                                             *)
LEMMA LadderOfChild ==
  ASSUME NEW c \in Nat, InitialSize <= c, c < MaxSize, NEW n \in Sizes, n <= c
  PROVE  /\ n <= BitFloor(c) /\ c % n = Parent(c) % n
         /\ c % (2 * BitFloor(c)) = c /\ c = Parent(c) + BitFloor(c)
         /\ Parent(c) < n => c % n = Parent(c)
         /\ \A m \in Sizes : m <= Parent(c) =>
              m <= c /\ c % m = Parent(c) % m /\ c % (2 * m) = Parent(c) % (2 * m)
<1> DEFINE f == BitFloor(c)
           p == Parent(c)
<1>1. /\ f \in Sizes /\ f <= c /\ c < 2 * f /\ 2 * f \in Sizes
      /\ p = c % f /\ p \in Nat /\ p < f /\ p < c
  BY FloorFacts
<1>2. c = p + f
  BY <1>1, SizeFacts DEF Parent
<1> HIDE DEF f, p
<1>3. f \in Nat /\ n \in Nat /\ (f < n => 2 * f <= n)
  BY <1>1, SizeFacts
<1>4. n <= f
  BY <1>1, <1>3
<1>5. c % n = p % n
  BY <1>1, <1>4, ModMod
<1>6. c % (2 * f) = c
  BY <1>1, SizeRange
<1>7. p < n => c % n = p
  BY <1>1, <1>5, SizeRange
<1>8. ASSUME NEW m \in Sizes, m <= p
      PROVE  m <= c /\ c % m = p % m /\ c % (2 * m) = p % (2 * m)
  <2>1. m \in Nat /\ m < f /\ m <= f /\ m <= c
    <3>1. m \in Nat
      BY SizeFacts
    <3>2. QED BY <1>1, <1>3, <1>8, <3>1
  <2>2. 2 * m \in Sizes /\ 2 * m <= f
    BY <1>1, <2>1, SizeFacts
  <2>3. QED BY <1>1, <2>1, <2>2, ModMod
<1>9. QED BY <1>2, <1>4, <1>5, <1>6, <1>7, <1>8 DEF f, p

-----------------------------------------------------------------------------
(* The table                                                                *)

(* The table's size, and how it doubles                                     *)
LEMMA TableSize ==
  ASSUME TableTypes
  PROVE  /\ table_size \in Nat /\ table_size \in Sizes /\ InitialSize \in Nat /\ MaxSize \in Nat
         /\ InitialSize <= table_size /\ table_size <= MaxSize /\ 4 <= InitialSize
         /\ InitialSize \in Sizes
         /\ Extent \in Nat /\ table_size <= Extent
         /\ 0 .. table_size - 1 \subseteq DOMAIN buckets
         /\ DOMAIN buckets = 0 .. Extent - 1
         /\ \A j \in DOMAIN buckets : j \in Nat /\ buckets[j].level \in Nat
<1>1. /\ table_size \in Nat /\ table_size \in Sizes /\ InitialSize \in Nat /\ MaxSize \in Nat
      /\ InitialSize <= table_size /\ table_size <= MaxSize /\ InitialSize \in Sizes
  BY SizeFacts DEF TableTypes
<1>2. 4 <= InitialSize
  BY <1>1, SizeFacts
<1>3. Extent \in Nat /\ table_size <= Extent
  BY <1>1 DEF Extent
<1>4. DOMAIN buckets = 0 .. Extent - 1 /\ \A j \in DOMAIN buckets : buckets[j] \in Heads
  BY DEF TableTypes
<1>5. 0 .. table_size - 1 \subseteq DOMAIN buckets
  BY <1>1, <1>3, <1>4
<1>6. QED BY <1>1, <1>2, <1>3, <1>4, <1>5 DEF Heads

(* What is known of a published bucket                                      *)
LEMMA PublishedFacts ==
  ASSUME TableTypes, SizeInv, NEW j, Published(j)
  PROVE  /\ j \in Nat /\ j < table_size /\ j < MaxSize
         /\ buckets[j] \in Heads /\ buckets[j].level \in Nat
         /\ buckets[j] = [chain |-> buckets[j].chain, level |-> buckets[j].level]
         /\ FirstSize(j) \in Sizes
<1>1. j \in DOMAIN buckets
  BY DEF Published
<1>2. j \in Nat /\ buckets[j] \in Heads
  BY <1>1, TableSize DEF TableTypes
<1>3. j < table_size /\ j < MaxSize
  BY <1>2, TableSize DEF SizeInv
<1>4. FirstSize(j) \in Sizes
  BY <1>2, <1>3, FirstSizeFacts
<1>5. QED BY <1>2, <1>3, <1>4 DEF Heads

(* The bucket of a key by a size that the table has had exists, and is home *)
(* to the key.                                                              *)
LEMMA BucketFacts ==
  ASSUME TableTypes, NEW k \in Keys, NEW n \in Sizes, n <= table_size
  PROVE  /\ Hash[k] \in Nat /\ BucketAt(k, n) \in Nat /\ BucketAt(k, n) < n
         /\ BucketAt(k, n) < table_size /\ BucketAt(k, n) < MaxSize
         /\ BucketAt(k, n) \in DOMAIN buckets /\ buckets[BucketAt(k, n)] \in Heads
         /\ Home(k, BucketAt(k, n))
<1>1. Hash[k] \in Nat
  BY HashSetAssumption
<1>2. BucketAt(k, n) \in Nat /\ BucketAt(k, n) < n /\ n \in Nat
  BY <1>1, SizeRange, SizeFacts DEF BucketAt
<1>3. BucketAt(k, n) < table_size /\ BucketAt(k, n) < MaxSize /\ BucketAt(k, n) \in 0 .. table_size - 1
  BY <1>2, TableSize
<1>4. BucketAt(k, n) \in DOMAIN buckets
  BY <1>3, TableSize
<1>5. Home(k, BucketAt(k, n))
  BY <1>1, MaskIsHome DEF Home, BucketAt
<1>6. buckets[BucketAt(k, n)] \in Heads
  BY <1>4 DEF TableTypes
<1>7. QED BY <1>1, <1>2, <1>3, <1>4, <1>5, <1>6

(* The buckets that are split                                               *)
LEMMA ChildFacts ==
  ASSUME TableTypes, NEW c \in InitialSize .. table_size - 1
  PROVE  /\ c \in Nat /\ c < MaxSize /\ InitialSize <= c /\ c \in DOMAIN buckets
         /\ BitFloor(c) \in Sizes /\ BitFloor(c) <= c /\ c < 2 * BitFloor(c) /\ BitFloor(c) \in Nat
         /\ SizeOf(c) = 2 * BitFloor(c) /\ SizeOf(c) \in Sizes /\ SizeOf(c) = FirstSize(c)
         /\ SizeOf(c) \in Nat /\ SizeOf(c) > 0
         /\ Parent(c) \in Nat /\ Parent(c) < c /\ Parent(c) \in DOMAIN buckets
         /\ Parent(c) = c % BitFloor(c) /\ Parent(c) < BitFloor(c)
<1>1. c \in Nat /\ c < MaxSize /\ InitialSize <= c /\ c \in 0 .. table_size - 1
  BY TableSize
<1>2. c \in DOMAIN buckets
  BY <1>1, TableSize
<1>3. /\ BitFloor(c) \in Sizes /\ BitFloor(c) <= c /\ c < 2 * BitFloor(c)
      /\ SizeOf(c) = 2 * BitFloor(c) /\ SizeOf(c) \in Sizes
      /\ Parent(c) = c % BitFloor(c) /\ Parent(c) \in Nat /\ Parent(c) < c
      /\ Parent(c) < BitFloor(c)
  BY <1>1, FloorFacts
<1>4. BitFloor(c) \in Nat /\ SizeOf(c) \in Nat /\ SizeOf(c) > 0
  BY <1>3, SizeFacts
<1>5. SizeOf(c) = FirstSize(c)
  BY <1>1, TableSize DEF FirstSize
<1>6. Parent(c) \in DOMAIN buckets
  <2>1. Parent(c) \in 0 .. table_size - 1
    BY <1>1, <1>3, TableSize
  <2>2. QED BY <2>1, TableSize
<1>7. QED BY <1>1, <1>2, <1>3, <1>4, <1>5, <1>6

(* When a key has a published bucket i above the one that size n selects,   *)
(* the child that it moved to from there is published.                      *)
LEMMA LadderUp ==
  ASSUME TableTypes, SizeInv, LadderInv, NEW k \in Keys, NEW n \in Sizes,
         NEW i \in Nat, Published(i), Home(k, i), BucketAt(k, n) < i
  PROVE  \E m \in Sizes :
           /\ n <= m /\ m <= i /\ 2 * m \in Sizes
           /\ BucketAt(k, m) = BucketAt(k, n) /\ BucketAt(k, 2 * m) = BucketAt(k, n) + m
           /\ Published(BucketAt(k, n) + m)
           /\ buckets[BucketAt(k, n)].level >= 2 * m
<1> DEFINE h == Hash[k]
           j == BucketAt(k, n)
<1>1. h \in Nat
  BY HashSetAssumption
<1>2. i < MaxSize /\ h % FirstSize(i) = i /\ j = h % n
  BY PublishedFacts DEF Home, BucketAt
<1>3. /\ n <= i /\ i % n = j
      /\ \A m \in Sizes : m <= i => h % m = i % m /\ 2 * m \in Sizes /\ h % (2 * m) = i % (2 * m)
  BY <1>1, <1>2, MaskOrder DEF BucketAt
<1>4. PICK m \in Sizes :
        /\ n <= m /\ m <= i
        /\ i % m = i % n /\ i % (2 * m) = (i % n) + m
        /\ Published(i % (2 * m))
        /\ buckets[i % n].level >= 2 * m
  BY <1>3 DEF LadderInv
<1>5. h % m = i % m /\ 2 * m \in Sizes /\ h % (2 * m) = i % (2 * m)
  BY <1>3, <1>4
<1>6. QED BY <1>3, <1>4, <1>5 DEF BucketAt

(* Nothing of a key is published above a bucket that a thread may insert it *)
(* into, whose seal does not exceed the size it works with.                 *)
LEMMA NothingAboveUnsealed ==
  ASSUME TableTypes, SizeInv, LadderInv, NEW k \in Keys, NEW n \in Sizes, n <= table_size,
         buckets[BucketAt(k, n)].level <= n,
         NEW i \in Nat, Published(i), Home(k, i)
  PROVE  i <= BucketAt(k, n)
<1> SUFFICES ASSUME BucketAt(k, n) < i PROVE FALSE
  BY BucketFacts
<1> DEFINE level == buckets[BucketAt(k, n)].level
<1>1. PICK m \in Sizes : n <= m /\ level >= 2 * m
  BY LadderUp
<1>2. n \in Nat /\ m \in Nat /\ n > 0 /\ level <= n
  BY SizeFacts
<1>3. level \in Nat
  BY BucketFacts, TableSize
<1> HIDE DEF level
<1>4. QED BY <1>1, <1>2, <1>3

(* Nothing of a key is published above the bucket of the current size.      *)
LEMMA NothingAboveCurrent ==
  ASSUME TableTypes, SizeInv, NEW k \in Keys, NEW i \in Nat, Published(i), Home(k, i)
  PROVE  i <= BucketAt(k, table_size)
<1>1. table_size \in Sizes /\ table_size \in Nat /\ Hash[k] \in Nat
  BY TableSize, HashSetAssumption
<1>2. BucketAt(k, table_size) \in Nat
  BY <1>1, BucketFacts
<1> SUFFICES ASSUME BucketAt(k, table_size) < i PROVE FALSE
  BY <1>2
<1>3. i < MaxSize /\ Hash[k] % FirstSize(i) = i
  BY PublishedFacts DEF Home, BucketAt
<1>4. table_size <= i
  BY <1>1, <1>3, MaskOrder DEF BucketAt
<1>5. i < table_size
  BY PublishedFacts
<1>6. QED BY <1>1, <1>4, <1>5

(* Nothing of the keys of an unpublished bucket is published above it, and  *)
(* so nothing above its parent.                                             *)
LEMMA NothingAboveParent ==
  ASSUME TableTypes, SizeInv, LadderInv, NEW k \in Keys,
         NEW c \in InitialSize .. table_size - 1, ~Published(c), BucketAt(k, SizeOf(c)) = c,
         NEW i \in Nat, Published(i), Home(k, i)
  PROVE  i <= Parent(c)
<1>1. /\ c \in Nat /\ c < MaxSize /\ InitialSize <= c /\ c \in DOMAIN buckets
      /\ SizeOf(c) \in Sizes /\ Parent(c) \in Nat
  BY ChildFacts
<1>2. i < MaxSize /\ Hash[k] \in Nat /\ Hash[k] % FirstSize(i) = i
  BY PublishedFacts, HashSetAssumption DEF Home, BucketAt
<1> SUFFICES ASSUME Parent(c) < i PROVE FALSE
  BY <1>1
<1>3. c <= i
  BY <1>1, <1>2, NothingBetween DEF BucketAt
<1>4. c < i
  BY <1>1, <1>3
<1>5. PICK m \in Sizes : SizeOf(c) <= m /\ buckets[c].level >= 2 * m
  BY <1>1, <1>4, LadderUp
<1>6. m \in Nat /\ m > 0
  BY SizeFacts
<1>7. buckets[c].level # 0
  BY <1>5, <1>6
<1>8. buckets[c] # Uninitialized
  BY <1>7 DEF Uninitialized
<1>9. QED BY <1>1, <1>8 DEF Published

(* A key that is home at a published bucket has moved from those below.     *)
LEMMA MovedUp ==
  ASSUME TableTypes, SizeInv, LadderInv, NEW k \in Keys, NEW j \in Nat, Published(j), Home(k, j),
         NEW i \in Nat, Published(i), Home(k, i), j < i
  PROVE  Moved(k, j)
<1> DEFINE n == FirstSize(j)
<1>1. n \in Sizes /\ j < n /\ BucketAt(k, n) = j /\ i < MaxSize
  BY PublishedFacts, FirstSizeFacts DEF Home
<1> HIDE DEF n
<1>2. PICK m \in Sizes :
        /\ n <= m /\ m <= i /\ 2 * m \in Sizes
        /\ BucketAt(k, 2 * m) = BucketAt(k, n) + m
        /\ Published(BucketAt(k, n) + m)
  BY <1>1, LadderUp
<1> DEFINE c == j + m
<1>3. c \in Nat /\ m <= c /\ c < 2 * m /\ c < MaxSize /\ Published(c) /\ InitialSize <= c /\ BucketAt(k, 2 * m) = c
  <2>1. m \in Nat /\ n \in Nat /\ InitialSize \in Nat /\ InitialSize <= m
    BY SizeFacts, <1>1
  <2>2. Published(c) /\ BucketAt(k, 2 * m) = c
    BY <1>1, <1>2
  <2>3. c < MaxSize
    BY <2>2, PublishedFacts
  <2>4. QED BY <1>1, <1>2, <2>1, <2>2, <2>3
<1> HIDE DEF c
<1>4. BitFloor(c) = m
  BY <1>3, FloorUnique
<1>5. Parent(c) = j /\ SizeOf(c) = 2 * m
  BY <1>4, SizeFacts DEF Parent, SizeOf, c
<1>6. c \in DOMAIN buckets
  BY <1>3 DEF Published
<1>7. QED BY <1>3, <1>5, <1>6 DEF Moved

-----------------------------------------------------------------------------
(* Types                                                                    *)

(* The nodes are a sequence of node records.                                *)
LEMMA NodeFacts ==
  ASSUME nodes \in Seq(Node)
  PROVE  /\ Len(nodes) \in Nat /\ DOMAIN nodes = 1 .. Len(nodes)
         /\ \A n \in 1 .. Len(nodes) :
              /\ nodes[n] \in Node
              /\ nodes[n].key \in Keys /\ nodes[n].link \in {"live", "marked", "frozen"}
<1>1. Len(nodes) \in Nat /\ DOMAIN nodes = 1 .. Len(nodes)
  BY LenProperties
<1>2. \A n \in 1 .. Len(nodes) : nodes[n] \in Node
  BY ElementOfSeq
<1>3. QED BY <1>1, <1>2 DEF Node

(* What a step leaves of the locals of the threads that do not take it      *)
Locals(u) == <<pc[u], op[u], key[u], ts[u], head[u], rest[u], stale[u], splits[u], copies[u]>>

(* A step changes the locals of its thread only.                            *)
LEMMA OthersKeepLocals ==
  ASSUME LocalTypes, NEW t \in Threads, NEW u \in Threads, u # t, Call(t) \/ Step(t)
  PROVE  UNCHANGED Locals(u)
<1> USE DEF LocalTypes, Locals, Goto, Return, splitting
<1>1. CASE Call(t)
  BY <1>1 DEF Call
<1>2. CASE LoadSize(t)
  BY <1>2 DEF LoadSize
<1>3. CASE LoadHead(t)
  BY <1>3 DEF LoadHead, WalkOn
<1>4. CASE Walk(t)
  BY <1>4 DEF Walk, WalkAt, WalkOn
<1>5. CASE Mark(t)
  BY <1>5 DEF Mark
<1>6. CASE Recheck(t)
  BY <1>6 DEF Recheck
<1>7. CASE Publish(t)
  BY <1>7 DEF Publish
<1>8. CASE LockResize(t)
  BY <1>8 DEF LockResize
<1>9. CASE StoreSize(t)
  BY <1>9 DEF StoreSize
<1>10. CASE LoadParent(t)
  BY <1>10 DEF LoadParent, SealOrCopy, CopyOn
<1>11. CASE Seal(t)
  BY <1>11 DEF Seal, SealOrCopy, CopyOn
<1>12. CASE Copy(t)
  BY <1>12 DEF Copy, CopyWith, CopyAt, CopyOn
<1>13. CASE PublishChild(t)
  BY <1>13 DEF PublishChild
<1>14. QED BY <1>1, <1>2, <1>3, <1>4, <1>5, <1>6, <1>7, <1>8, <1>9, <1>10, <1>11, <1>12, <1>13 DEF Step

(* A changed link                                                           *)
LEMMA LinkChanged ==
  ASSUME NEW s \in Seq(Node), NEW n \in 1 .. Len(s), NEW l \in {"live", "marked", "frozen"},
         NEW r, r = [s EXCEPT ![n].link = l]
  PROVE  /\ r \in Seq(Node) /\ Len(r) = Len(s)
         /\ \A m \in 1 .. Len(s) : r[m].key = s[m].key
         /\ \A m \in 1 .. Len(s) : m # n => r[m] = s[m]
         /\ r[n].link = l
<1> DEFINE e == [s[n] EXCEPT !.link = l]
<1>1. s[n] \in Node
  BY ElementOfSeq
<1>2. e \in Node /\ e.key = s[n].key /\ e.link = l
  BY <1>1 DEF Node
<1>3. r = [s EXCEPT ![n] = e]
  OBVIOUS
<1> HIDE DEF e
<1>4. /\ [s EXCEPT ![n] = e] \in Seq(Node) /\ Len([s EXCEPT ![n] = e]) = Len(s)
      /\ \A m \in 1 .. Len(s) : [s EXCEPT ![n] = e][m] = IF m = n THEN e ELSE s[m]
  BY <1>2, ExceptSeq
<1>5. QED BY <1>2, <1>3, <1>4

(* A published node                                                         *)
LEMMA NodeAppended ==
  ASSUME NEW s \in Seq(Node), NEW e \in Node
  PROVE  /\ Append(s, e) \in Seq(Node)
         /\ Len(Append(s, e)) = Len(s) + 1
         /\ \A m \in 1 .. Len(s) : Append(s, e)[m] = s[m]
         /\ Append(s, e)[Len(s) + 1] = e
  BY AppendProperties

(* A function on 1 .. n is a sequence                                       *)
LEMMA SeqOfFunction ==
  ASSUME NEW T, NEW n \in Nat, NEW f \in [1 .. n -> T]
  PROVE  f \in Seq(T) /\ Len(f) = n
  OBVIOUS

(* A published chain                                                        *)
LEMMA ChainAppended ==
  ASSUME NEW s \in Seq(Node), NEW c \in Seq(Keys), NEW r,
         r = s \o [n \in 1 .. Len(c) |-> [key |-> c[n], link |-> "live"]]
  PROVE  /\ r \in Seq(Node) /\ Len(r) = Len(s) + Len(c)
         /\ \A m \in 1 .. Len(s) : r[m] = s[m]
         /\ \A q \in 1 .. Len(c) : r[Len(s) + q] = [key |-> c[q], link |-> "live"]
<1> DEFINE d == [n \in 1 .. Len(c) |-> [key |-> c[n], link |-> "live"]]
<1>1. Len(c) \in Nat /\ Len(s) \in Nat /\ \A n \in 1 .. Len(c) : c[n] \in Keys
  BY LenProperties, ElementOfSeq
<1>2. d \in [1 .. Len(c) -> Node]
  BY <1>1 DEF Node
<1>4. \A q \in 1 .. Len(c) : d[q] = [key |-> c[q], link |-> "live"]
  OBVIOUS
<1>5. r = s \o d
  OBVIOUS
<1> HIDE DEF d
<1>3. d \in Seq(Node) /\ Len(d) = Len(c)
  BY <1>1, <1>2, SeqOfFunction
<1>6. /\ s \o d \in Seq(Node) /\ Len(s \o d) = Len(s) + Len(d)
      /\ \A m \in 1 .. Len(s) + Len(d) : (s \o d)[m] = IF m <= Len(s) THEN s[m] ELSE d[m - Len(s)]
  BY <1>3, ConcatProperties
<1>7. \A m \in 1 .. Len(s) : (s \o d)[m] = s[m]
  BY <1>1, <1>3, <1>6
<1>8. ASSUME NEW q \in 1 .. Len(c) PROVE (s \o d)[Len(s) + q] = d[q]
  <2>1. Len(s) + q \in 1 .. Len(s) + Len(d) /\ ~(Len(s) + q <= Len(s)) /\ (Len(s) + q) - Len(s) = q
    BY <1>1, <1>3
  <2>2. QED BY <1>6, <2>1
<1>9. QED BY <1>3, <1>4, <1>5, <1>6, <1>7, <1>8

(* A range with a greater end                                               *)
LEMMA RangeGrows ==
  ASSUME NEW a \in Nat, NEW b \in Nat, NEW c \in Nat, b <= c
  PROVE  a .. b - 1 \subseteq a .. c - 1
  OBVIOUS

(* The step only adds nodes, and buckets to split.                          *)
Room == Len(nodes) <= Len(nodes') /\ table_size <= table_size'

(* Types of the locals that a step leaves alone                             *)
LEMMA RoomFacts ==
  ASSUME TableTypes, TableTypes', LocalTypes, Room
  PROVE  /\ Heads \subseteq Heads'
         /\ 1 .. Len(nodes) \subseteq 1 .. Len(nodes')
         /\ head \in [Threads -> Heads']
         /\ rest \in [Threads -> SUBSET (1 .. Len(nodes'))]
         /\ splits \in [Threads -> Seq(InitialSize .. table_size' - 1)]
<1>1. Len(nodes) \in Nat /\ Len(nodes') \in Nat
  BY NodeFacts DEF TableTypes
<1>2. 0 .. Len(nodes) \subseteq 0 .. Len(nodes') /\ 1 .. Len(nodes) \subseteq 1 .. Len(nodes')
  BY <1>1 DEF Room
<1>3. Heads \subseteq Heads'
  BY <1>2 DEF Heads
<1>4. head \in [Threads -> Heads'] /\ rest \in [Threads -> SUBSET (1 .. Len(nodes'))]
  BY <1>2, <1>3 DEF LocalTypes
<1>5. InitialSize .. table_size - 1 \subseteq InitialSize .. table_size' - 1
  <2>1. table_size \in Sizes /\ table_size' \in Sizes
    BY DEF TableTypes
  <2>2. table_size \in Nat /\ table_size' \in Nat /\ InitialSize \in Nat
    BY <2>1, SizeFacts
  <2>3. table_size <= table_size'
    BY DEF Room
  <2>4. QED BY <2>2, <2>3, RangeGrows
<1>6. ASSUME NEW u \in Threads PROVE splits[u] \in Seq(InitialSize .. table_size' - 1)
  <2>1. splits[u] \in Seq(InitialSize .. table_size - 1)
    BY DEF LocalTypes
  <2>2. QED BY <1>5, <2>1, SeqMonotonic
<1>7. QED BY <1>2, <1>3, <1>4, <1>6 DEF LocalTypes

(* The end of a call leaves locals with their types.                        *)
LEMMA ReturnTypes ==
  ASSUME TableTypes, TableTypes', LocalTypes, Room, NEW t \in Threads, Return(t)
  PROVE  LocalTypes'
<1>1. /\ head \in [Threads -> Heads'] /\ rest \in [Threads -> SUBSET (1 .. Len(nodes'))]
      /\ splits \in [Threads -> Seq(InitialSize .. table_size' - 1)]
  BY RoomFacts
<1>2. AKey \in Keys
  BY DEF AKey, LocalTypes
<1>3. Uninitialized \in Heads'
  BY NodeFacts DEF Heads, Uninitialized, TableTypes
<1>4. QED BY <1>1, <1>2, <1>3 DEF Return, LocalTypes, Goto, PCs, splitting

(* The table has its types when it is not changed.                          *)
LEMMA TypesUnchanged ==
  ASSUME TableTypes, UNCHANGED <<table, resize_lock>>
  PROVE  TableTypes' /\ Room /\ Heads' = Heads /\ nodes' = nodes /\ table_size' = table_size
<1>1. Len(nodes) \in Nat /\ table_size \in Nat
  BY NodeFacts, TableSize DEF TableTypes
<1>2. QED BY <1>1 DEF TableTypes, table, Extent, Room, Heads

(* The nodes of a published chain that one looks for are nodes.             *)
LEMMA ChainIsNodes ==
  ASSUME TableTypes, SizeInv, ChainInv, NEW j, Published(j), NEW k, NEW c
  PROVE  /\ buckets[j].chain \subseteq 1 .. Len(nodes)
         /\ WithKey(buckets[j].chain, k) \subseteq 1 .. Len(nodes)
         /\ MovingTo(buckets[j].chain, c) \subseteq 1 .. Len(nodes)
<1>1. j \in Nat
  BY PublishedFacts
<1>2. QED BY <1>1 DEF ChainInv, WithKey, MovingTo

(* Types after call and reload                                              *)
LEMMA CallTypes ==
  ASSUME TableTypes, LocalTypes, NEW t \in Threads, Call(t) \/ LoadSize(t)
  PROVE  TableTypes' /\ LocalTypes'
<1>1. UNCHANGED <<table, resize_lock>> /\ table_size \in Nat
  BY TableSize DEF Call, LoadSize
<1>2. TableTypes' /\ Heads' = Heads /\ nodes' = nodes /\ table_size' = table_size
  BY <1>1, TypesUnchanged
<1>3. LocalTypes'
  <2>1. UNCHANGED <<head, rest, stale, splits, copies>>
    BY DEF Call, LoadSize, splitting
  <2>2. pc' \in [Threads -> PCs]
    BY DEF LocalTypes, Call, LoadSize, Goto, PCs
  <2>3. op' \in [Threads -> {"insert", "erase", "contains"}]
    BY DEF LocalTypes, Call, LoadSize
  <2>4. key' \in [Threads -> Keys]
    BY DEF LocalTypes, Call, LoadSize
  <2>5. ts' \in [Threads -> Nat]
    BY <1>1 DEF LocalTypes, Call, LoadSize
  <2>6. QED BY <1>2, <2>1, <2>2, <2>3, <2>4, <2>5 DEF LocalTypes
<1>4. QED BY <1>2, <1>3

(* Types after the load of a head                                           *)
LEMMA LoadHeadTypes ==
  ASSUME TableTypes, LocalTypes, TableInv, NEW t \in Threads, CallInv(t), LoadHead(t)
  PROVE  TableTypes' /\ LocalTypes'
<1> DEFINE j == Bucket(t)
           h == buckets[j]
<1>1. UNCHANGED <<table, resize_lock>>
  BY DEF LoadHead
<1>2. TableTypes' /\ Heads' = Heads /\ nodes' = nodes /\ table_size' = table_size
  BY <1>1, TypesUnchanged
<1>3. ts[t] \in Sizes /\ ts[t] <= table_size /\ key[t] \in Keys /\ pc[t] = "head"
  BY DEF LoadHead, CallInv, LocalTypes
<1>4. j \in Nat /\ j < table_size /\ j \in DOMAIN buckets /\ h \in Heads
  BY <1>3, BucketFacts DEF Bucket
<1>5. InitialSize <= j \/ h # Uninitialized
  BY <1>4, TableSize DEF TableInv, SizeInv, Published
<1>6. h # Uninitialized => WithKey(h.chain, key[t]) \subseteq 1 .. Len(nodes)
  BY <1>4, ChainIsNodes DEF Published, TableInv
<1>7. h = Uninitialized => <<j>> \in Seq(InitialSize .. table_size - 1)
  <2>1. h = Uninitialized => j \in InitialSize .. table_size - 1
    BY <1>4, <1>5, TableSize
  <2>2. QED BY <2>1
<1> HIDE DEF h, j
<1>8. CASE h = Uninitialized
  <2>1. /\ splits' = [splits EXCEPT ![t] = <<j>>] /\ Goto(t, "parent")
        /\ UNCHANGED <<op, key, ts, head, rest, stale, copies, table>>
    BY <1>8 DEF LoadHead, h, j
  <2>2. splits' \in [Threads -> Seq(InitialSize .. table_size - 1)]
    BY <1>7, <1>8, <2>1 DEF LocalTypes
  <2>3. pc' \in [Threads -> PCs]
    BY <2>1 DEF LocalTypes, Goto, PCs
  <2>4. QED BY <1>2, <2>1, <2>2, <2>3 DEF LocalTypes
<1>9. CASE h # Uninitialized
  <2>1. UNCHANGED <<op, key, ts, stale, splits, copies>>
    BY <1>9 DEF LoadHead, h, j
  <2>2. pc' \in [Threads -> PCs]
    BY <1>9 DEF LocalTypes, LoadHead, WalkOn, Goto, PCs, h, j
  <2>3. head' \in [Threads -> Heads]
    BY <1>4, <1>9 DEF LocalTypes, LoadHead, h, j
  <2>4. rest' \in [Threads -> SUBSET (1 .. Len(nodes))]
    <3>1. CASE UNCHANGED rest
      BY <3>1 DEF LocalTypes
    <3>2. CASE rest' = [rest EXCEPT ![t] = WithKey(h.chain, key[t])]
      BY <1>6, <1>9, <3>2 DEF LocalTypes
    <3>3. QED BY <1>9, <3>1, <3>2 DEF LoadHead, WalkOn, h, j
  <2>5. QED BY <1>2, <2>1, <2>2, <2>3, <2>4 DEF LocalTypes
<1>10. QED BY <1>2, <1>8, <1>9

(* Types after a walk's step and the second look at the size                *)
LEMMA WalkTypes ==
  ASSUME TableTypes, LocalTypes, NEW t \in Threads, Walk(t) \/ Recheck(t)
  PROVE  TableTypes' /\ LocalTypes'
<1>1. UNCHANGED <<table, resize_lock>> /\ table_size \in Nat
  BY TableSize DEF Walk, Recheck
<1>2. TableTypes' /\ Heads' = Heads /\ Room /\ nodes' = nodes /\ table_size' = table_size
  BY <1>1, TypesUnchanged
<1>3. CASE Return(t)
  BY <1>2, <1>3, ReturnTypes
<1>4. CASE ~Return(t) /\ Walk(t)
  <2>1. PICK n \in rest[t] : WalkAt(t, n)
    BY <1>4 DEF Walk
  <2>2. n \in 1 .. Len(nodes) /\ rest[t] \ {n} \subseteq 1 .. Len(nodes)
    BY <2>1 DEF LocalTypes
  <2>3. LocalTypes'
    <3>1. UNCHANGED <<op, key, ts, head, splits, copies>>
      BY <1>4, <2>1 DEF WalkAt, splitting
    <3>2. pc' \in [Threads -> PCs]
      BY <1>4, <2>1 DEF LocalTypes, WalkAt, WalkOn, Goto, PCs
    <3>3. rest' \in [Threads -> SUBSET (1 .. Len(nodes))]
      <4>1. rest' = [rest EXCEPT ![t] = rest[t] \ {n}] \/ rest' = [rest EXCEPT ![t] = {n}]
        BY <1>4, <2>1 DEF WalkAt, WalkOn
      <4>2. \E x \in SUBSET (1 .. Len(nodes)) : rest' = [rest EXCEPT ![t] = x]
        BY <2>2, <4>1
      <4>3. rest \in [Threads -> SUBSET (1 .. Len(nodes))]
        BY DEF LocalTypes
      <4>4. QED BY <4>2, <4>3
    <3>4. stale' \in [Threads -> BOOLEAN]
      BY <1>4, <2>1 DEF LocalTypes, WalkAt
    <3>5. QED BY <1>2, <3>1, <3>2, <3>3, <3>4 DEF LocalTypes
  <2>4. QED BY <1>2, <2>3
<1>5. CASE ~Return(t) /\ Recheck(t)
  <2>1. UNCHANGED <<op, key, head, splits, copies>>
    BY <1>5 DEF Recheck, splitting
  <2>2. pc' = [pc EXCEPT ![t] = "head"] /\ ts' = [ts EXCEPT ![t] = table_size]
    BY <1>5 DEF Recheck, Goto
  <2>5. pc' \in [Threads -> PCs]
    BY <2>2 DEF LocalTypes, PCs
  <2>6. ts' \in [Threads -> Nat]
    BY <1>1, <2>2 DEF LocalTypes
  <2>3. rest' \in [Threads -> SUBSET (1 .. Len(nodes))] /\ stale' \in [Threads -> BOOLEAN]
    BY <1>5 DEF LocalTypes, Recheck
  <2>4. QED BY <1>2, <2>1, <2>3, <2>5, <2>6 DEF LocalTypes
<1>6. QED BY <1>3, <1>4, <1>5

(* Types after the CAS of an erase                                          *)
LEMMA MarkTypes ==
  ASSUME TableTypes, LocalTypes, NEW t \in Threads, Mark(t)
  PROVE  TableTypes' /\ LocalTypes' /\ Room
<1>1. UNCHANGED <<allow_delete, table_size, buckets, resize_lock>> /\ pc[t] = "mark"
  BY DEF Mark
<1>2. PICK n \in rest[t] :
       \/ /\ nodes[n].link = "live"
          /\ nodes' = [nodes EXCEPT ![n].link = "marked"]
          /\ Return(t)
       \/ /\ nodes[n].link # "live"
          /\ stale' = [stale EXCEPT ![t] = nodes[n].link = "frozen"]
          /\ Goto(t, "recheck")
          /\ UNCHANGED <<nodes, op, key, ts, head, rest, splitting>>
  BY DEF Mark
<1>3. n \in 1 .. Len(nodes) /\ nodes \in Seq(Node)
  BY DEF LocalTypes, TableTypes
<1>4. nodes' \in Seq(Node) /\ Len(nodes') = Len(nodes)
  BY <1>2, <1>3, LinkChanged
<1>5. TableTypes' /\ Room /\ Heads' = Heads
  <2>1. Len(nodes) \in Nat /\ table_size \in Nat
    BY NodeFacts, TableSize DEF TableTypes
  <2>2. QED BY <1>1, <1>4, <2>1 DEF TableTypes, Heads, Room, Extent
<1>6. CASE Return(t)
  BY <1>5, <1>6, ReturnTypes
<1>7. CASE ~Return(t)
  BY <1>1, <1>2, <1>5, <1>7 DEF LocalTypes, Goto, PCs, splitting
<1>8. QED BY <1>5, <1>6, <1>7

(* Types after the CAS of an insert                                         *)
LEMMA PublishTypes ==
  ASSUME TableTypes, LocalTypes, NEW t \in Threads, CallInv(t), Publish(t)
  PROVE  TableTypes' /\ LocalTypes' /\ Room
<1> DEFINE j == Bucket(t)
           e == [key |-> key[t], link |-> "live"]
<1>1. UNCHANGED <<allow_delete, table_size, resize_lock>> /\ pc[t] = "publish"
  BY DEF Publish
<1>2. Len(nodes) \in Nat /\ table_size \in Nat /\ nodes \in Seq(Node) /\ key[t] \in Keys
  BY NodeFacts, TableSize DEF TableTypes, LocalTypes
<1>3. j \in DOMAIN buckets /\ buckets[j] \in Heads /\ buckets \in [0 .. Extent - 1 -> Heads]
  BY <1>1, <1>2, BucketFacts DEF CallInv, Bucket, TableTypes
<1>4. Extent' = Extent
  BY <1>1 DEF Extent
<1>5. CASE UNCHANGED <<nodes, buckets>>
  <2>1. TableTypes' /\ Room
    BY <1>1, <1>5, TypesUnchanged DEF table
  <2>2. Uninitialized \in Heads'
    BY <1>2, <1>5 DEF Heads, Uninitialized
  <2>3. Heads' = Heads
    BY <1>5 DEF Heads
  <2>4. CASE Return(t)
    BY <2>1, <2>4, ReturnTypes
  <2>5. CASE ~Return(t)
    <3>1. /\ Goto(t, "lock") \/ Goto(t, "size")
          /\ head' = [head EXCEPT ![t] = Uninitialized]
          /\ UNCHANGED <<op, key, ts, rest, stale, splitting>>
      BY <2>5 DEF Publish
    <3>2. QED BY <1>1, <1>5, <2>1, <2>2, <2>3, <3>1 DEF LocalTypes, Goto, PCs, splitting
  <2>6. QED BY <2>1, <2>4, <2>5
<1>6. CASE nodes' = Append(nodes, e) /\ buckets' = [buckets EXCEPT ![j].chain = @ \cup {Len(nodes) + 1}]
  <2>1. e \in Node
    BY <1>2 DEF Node
  <2> HIDE DEF e, j
  <2>2. nodes' \in Seq(Node) /\ Len(nodes') = Len(nodes) + 1
    BY <1>2, <1>6, <2>1, NodeAppended
  <2>3. Room
    BY <1>1, <1>2, <2>2 DEF Room
  <2>4. Heads \subseteq Heads' /\ [buckets[j] EXCEPT !.chain = @ \cup {Len(nodes) + 1}] \in Heads'
    <3>1. 0 .. Len(nodes) \subseteq 0 .. Len(nodes') /\ Len(nodes) + 1 \in 0 .. Len(nodes')
      BY <1>2, <2>2
    <3>2. QED BY <1>3, <3>1 DEF Heads
  <2>5. buckets' \in [0 .. Extent' - 1 -> Heads']
    BY <1>3, <1>4, <1>6, <2>4
  <2>6. TableTypes'
    BY <1>1, <2>2, <2>5 DEF TableTypes
  <2>7. CASE Return(t)
    BY <2>3, <2>6, <2>7, ReturnTypes
  <2>8. CASE ~Return(t)
    <3>1. /\ head \in [Threads -> Heads'] /\ rest \in [Threads -> SUBSET (1 .. Len(nodes'))]
          /\ splits \in [Threads -> Seq(InitialSize .. table_size' - 1)]
      BY <2>3, <2>6, RoomFacts
    <3>2. Uninitialized \in Heads'
      BY <1>2, <2>2 DEF Heads, Uninitialized
    <3>3. /\ head' = [head EXCEPT ![t] = Uninitialized]
          /\ (Goto(t, "lock") \/ Goto(t, "size"))
          /\ UNCHANGED <<op, key, ts, rest, stale, splitting>>
      BY <2>8 DEF Publish
    <3>4. LocalTypes'
      BY <3>1, <3>2, <3>3 DEF LocalTypes, Goto, PCs, splitting
    <3>5. QED BY <2>3, <2>6, <3>4
  <2>9. QED BY <2>7, <2>8
<1>7. QED BY <1>5, <1>6 DEF Publish

(* Types after the steps of a doubling                                      *)
LEMMA ResizeTypes ==
  ASSUME TableTypes, LocalTypes, NEW t \in Threads, CallInv(t), LockResize(t) \/ StoreSize(t)
  PROVE  TableTypes' /\ LocalTypes' /\ Room
<1>1. UNCHANGED <<allow_delete, nodes>> /\ nodes \in Seq(Node) /\ Len(nodes) \in Nat /\ Heads' = Heads
  BY NodeFacts DEF LockResize, StoreSize, TableTypes, Heads
<1>2. table_size \in Nat /\ table_size \in Sizes /\ Extent \in Nat
  BY TableSize
<1>3. Uninitialized \in Heads /\ t # NoThread
  BY <1>1, HashSetAssumption DEF Heads, Uninitialized
<1>4. CASE UNCHANGED <<table, resize_lock>> /\ Return(t)
  BY <1>4, TypesUnchanged, ReturnTypes
<1>5. CASE StoreSize(t)
  <2>1. pc[t] = "store" /\ ts[t] = table_size /\ 2 * table_size <= MaxSize /\ resize_lock = t
    BY <1>5 DEF StoreSize, CallInv
  <2>2. table_size' = 2 * table_size /\ resize_lock' = NoThread /\ buckets' = buckets /\ Return(t)
    BY <1>5, <2>1 DEF StoreSize
  <2>3. 2 * table_size \in Sizes
    BY <1>2, <2>1, SizeFacts
  <2>4. Extent' = Extent
    BY <1>3, <2>1, <2>2 DEF Extent
  <2>5. TableTypes' /\ Room
    BY <1>1, <1>2, <2>2, <2>3, <2>4 DEF TableTypes, Room
  <2>6. QED BY <2>2, <2>5, ReturnTypes
<1>6. CASE /\ LockResize(t) /\ ~(UNCHANGED <<table, resize_lock>> /\ Return(t))
  <2>1. /\ resize_lock = NoThread /\ resize_lock' = t /\ UNCHANGED table_size
        /\ table_size = ts[t]
        /\ buckets' = [j \in 0 .. 2 * ts[t] - 1 |-> IF j < ts[t] THEN buckets[j] ELSE Uninitialized]
        /\ Goto(t, "store")
        /\ UNCHANGED <<op, key, ts, head, rest, stale, splitting>>
    BY <1>6 DEF LockResize, table
  <2>2. Extent = table_size /\ Extent' = 2 * table_size
    BY <1>3, <2>1 DEF Extent
  <2>3. \A j \in 0 .. 2 * table_size - 1 : j < table_size => buckets[j] \in Heads
    BY <1>2, <2>2 DEF TableTypes
  <2>4. buckets' \in [0 .. Extent' - 1 -> Heads']
    BY <1>1, <1>3, <2>1, <2>2, <2>3
  <2>5. TableTypes' /\ Room
    BY <1>1, <1>2, <2>1, <2>4 DEF TableTypes, Room
  <2>6. LocalTypes'
    BY <1>1, <2>1 DEF LocalTypes, Goto, PCs, splitting
  <2>7. QED BY <2>5, <2>6
<1>7. QED BY <1>4, <1>5, <1>6 DEF LockResize, table

(* A thread that splits has a bucket to fill.                               *)
LEMMA SplitFacts ==
  ASSUME TableTypes, LocalTypes, NEW t \in Threads, SplitInv(t), pc[t] \in Splitting
  PROVE  /\ splits[t] \in Seq(InitialSize .. table_size - 1) /\ splits[t] # <<>>
         /\ Child(t) \in InitialSize .. table_size - 1
         /\ Tail(splits[t]) \in Seq(InitialSize .. table_size - 1)
<1>1. splits[t] \in Seq(InitialSize .. table_size - 1) /\ splits[t] # <<>>
  BY DEF LocalTypes, SplitInv
<1>2. QED BY <1>1, HeadTailProperties DEF Child

(* The nodes ns are next.                                                   *)
LEMMA CopyOnTypes ==
  ASSUME TableTypes, LocalTypes, NEW t \in Threads, NEW ns, ns \subseteq 1 .. Len(nodes), CopyOn(t, ns)
  PROVE  /\ rest' \in [Threads -> SUBSET (1 .. Len(nodes))]
         /\ pc' \in [Threads -> PCs]
<1>1. rest' = [rest EXCEPT ![t] = ns] /\ rest \in [Threads -> SUBSET (1 .. Len(nodes))]
  BY DEF CopyOn, LocalTypes
<1>2. pc' \in [Threads -> PCs]
  BY DEF CopyOn, Goto, PCs, LocalTypes
<1>3. QED BY <1>1, <1>2

(* Types of the locals once the parent's head has been read                 *)
LEMMA SealOrCopyTypes ==
  ASSUME TableTypes, LocalTypes, TableInv, NEW t \in Threads, SplitInv(t), pc[t] \in Splitting,
         Published(Parent(Child(t))), SealOrCopy(t, buckets[Parent(Child(t))])
  PROVE  /\ rest' \in [Threads -> SUBSET (1 .. Len(nodes))]
         /\ pc' \in [Threads -> PCs]
         /\ head' \in [Threads -> Heads]
<1> DEFINE c == Child(t)
           p == Parent(c)
           h == buckets[p]
<1>1. h \in Heads
  BY PublishedFacts DEF TableInv
<1>2. MovingTo(h.chain, c) \subseteq 1 .. Len(nodes)
  BY ChainIsNodes DEF TableInv
<1>3. Uninitialized \in Heads
  BY NodeFacts DEF Heads, Uninitialized, TableTypes
<1> HIDE DEF h, c
<1>4. CASE head' = [head EXCEPT ![t] = h] /\ Goto(t, "seal") /\ UNCHANGED rest
  <2>1. pc' \in [Threads -> PCs]
    BY <1>4 DEF LocalTypes, Goto, PCs
  <2>2. head' \in [Threads -> Heads]
    BY <1>1, <1>4 DEF LocalTypes
  <2>3. QED BY <1>4, <2>1, <2>2 DEF LocalTypes
<1>5. CASE head' = [head EXCEPT ![t] = Uninitialized] /\ CopyOn(t, MovingTo(h.chain, c))
  <2>1. head' \in [Threads -> Heads]
    BY <1>3, <1>5 DEF LocalTypes
  <2>2. QED BY <1>2, <1>5, <2>1, CopyOnTypes
<1>6. QED BY <1>4, <1>5 DEF SealOrCopy, h, c

(* Types after the load of a parent's head                                  *)
LEMMA LoadParentTypes ==
  ASSUME TableTypes, LocalTypes, TableInv, NEW t \in Threads, SplitInv(t), LoadParent(t)
  PROVE  TableTypes' /\ LocalTypes'
<1> DEFINE c == Child(t)
           p == Parent(c)
           h == buckets[p]
<1>1. UNCHANGED <<table, resize_lock, op, key, ts, stale, copies>> /\ pc[t] \in Splitting
  BY DEF LoadParent, Splitting
<1>2. TableTypes' /\ Heads' = Heads /\ nodes' = nodes /\ table_size' = table_size
  BY <1>1, TypesUnchanged
<1>3. c \in InitialSize .. table_size - 1 /\ splits[t] \in Seq(InitialSize .. table_size - 1)
  BY <1>1, SplitFacts
<1>4. p \in Nat /\ p \in DOMAIN buckets /\ p < table_size
  <2>1. p \in Nat /\ p \in DOMAIN buckets /\ p < c
    BY <1>3, ChildFacts
  <2>2. QED BY <1>3, <2>1, TableSize
<1>5. CASE h = Uninitialized
  <2>1. /\ splits' = [splits EXCEPT ![t] = <<p>> \o @] /\ UNCHANGED <<pc, head, rest>>
    BY <1>5 DEF LoadParent, SealOrCopy
  <2>2. p \in InitialSize .. table_size - 1
    BY <1>4, <1>5, TableSize DEF TableInv, SizeInv, Published
  <2> HIDE DEF p
  <2>3. <<p>> \in Seq(InitialSize .. table_size - 1)
    BY <2>2
  <2>4. <<p>> \o splits[t] \in Seq(InitialSize .. table_size - 1)
    BY <1>3, <2>3, ConcatProperties
  <2>5. splits' \in [Threads -> Seq(InitialSize .. table_size - 1)]
    BY <2>1, <2>4 DEF LocalTypes
  <2>6. QED BY <1>1, <1>2, <2>1, <2>5 DEF LocalTypes
<1>6. CASE h # Uninitialized
  <2>1. SealOrCopy(t, h) /\ UNCHANGED splits
    BY <1>6 DEF LoadParent
  <2>2. Published(p)
    BY <1>4, <1>6 DEF Published
  <2>3. /\ rest' \in [Threads -> SUBSET (1 .. Len(nodes))] /\ pc' \in [Threads -> PCs]
        /\ head' \in [Threads -> Heads]
    BY <1>1, <2>1, <2>2, SealOrCopyTypes
  <2>4. QED BY <1>1, <1>2, <2>1, <2>3 DEF LocalTypes
<1>7. QED BY <1>5, <1>6

(* Types after the CAS that seals                                           *)
LEMMA SealTypes ==
  ASSUME TableTypes, LocalTypes, TableInv, NEW t \in Threads, SplitInv(t), Seal(t)
  PROVE  TableTypes' /\ LocalTypes' /\ Room
<1> DEFINE c == Child(t)
           p == Parent(c)
<1>1. /\ UNCHANGED <<allow_delete, table_size, nodes, resize_lock, op, key, ts, stale, splitting>>
      /\ pc[t] = "seal" /\ pc[t] \in Splitting
  BY DEF Seal, Splitting
<1>2. Published(p)
  BY <1>1 DEF SplitInv
<1>3. c \in InitialSize .. table_size - 1 /\ SizeOf(c) \in Nat
  BY <1>1, SplitFacts, ChildFacts
<1>4. Heads' = Heads /\ Extent' = Extent /\ Room /\ Uninitialized \in Heads
  <2>1. Len(nodes) \in Nat /\ table_size \in Nat
    BY NodeFacts, TableSize DEF TableTypes
  <2>2. QED BY <1>1, <2>1 DEF Heads, Extent, Room, Uninitialized
<1>5. CASE ~(buckets[p] = head[t])
  <2>1. UNCHANGED <<table, resize_lock>> /\ SealOrCopy(t, buckets[p])
    BY <1>1, <1>5 DEF Seal, table
  <2>2. TableTypes'
    BY <2>1, TypesUnchanged
  <2>3. /\ rest' \in [Threads -> SUBSET (1 .. Len(nodes))] /\ pc' \in [Threads -> PCs]
        /\ head' \in [Threads -> Heads]
    BY <1>1, <1>2, <2>1, SealOrCopyTypes
  <2>4. QED BY <1>1, <1>4, <2>2, <2>3 DEF LocalTypes, splitting
<1>6. CASE buckets[p] = head[t]
  <2>1. /\ buckets' = [buckets EXCEPT ![p].level = SizeOf(c)]
        /\ head' = [head EXCEPT ![t] = Uninitialized]
        /\ CopyOn(t, MovingTo(buckets[p].chain, c))
    BY <1>6 DEF Seal
  <2>2. buckets[p] \in Heads /\ buckets \in [0 .. Extent - 1 -> Heads]
    BY <1>2, PublishedFacts DEF TableInv, TableTypes
  <2>3. [buckets[p] EXCEPT !.level = SizeOf(c)] \in Heads
    BY <1>3, <2>2 DEF Heads
  <2> HIDE DEF c, p
  <2>4. buckets' \in [0 .. Extent - 1 -> Heads]
    BY <2>1, <2>2, <2>3
  <2>5. TableTypes'
    BY <1>1, <1>4, <2>4 DEF TableTypes
  <2>6. MovingTo(buckets[p].chain, c) \subseteq 1 .. Len(nodes)
    BY <1>2, ChainIsNodes DEF TableInv
  <2>7. rest' \in [Threads -> SUBSET (1 .. Len(nodes))] /\ pc' \in [Threads -> PCs]
    BY <2>1, <2>6, CopyOnTypes
  <2>8. head' \in [Threads -> Heads]
    BY <1>4, <2>1 DEF LocalTypes
  <2>9. QED BY <1>1, <1>4, <2>5, <2>7, <2>8 DEF LocalTypes, splitting
<1>7. QED BY <1>5, <1>6

(* Types after a copy                                                       *)
LEMMA CopyTypes ==
  ASSUME TableTypes, LocalTypes, NEW t \in Threads, Copy(t)
  PROVE  TableTypes' /\ LocalTypes' /\ Room
<1> DEFINE link == IF allow_delete THEN "frozen" ELSE "live"
<1>1. /\ UNCHANGED <<allow_delete, table_size, buckets, resize_lock, op, key, ts, head, stale, splits>>
      /\ pc[t] = "copy"
  BY DEF Copy, CopyWith
<1>2. PICK n \in rest[t] : CopyAt(t, n, link)
  BY DEF Copy, CopyWith
<1>3. n \in 1 .. Len(nodes) /\ nodes \in Seq(Node) /\ rest[t] \ {n} \subseteq 1 .. Len(nodes)
  BY DEF LocalTypes, TableTypes
<1>4. nodes' \in Seq(Node) /\ Len(nodes') = Len(nodes)
  <2>1. link \in {"live", "marked", "frozen"}
    OBVIOUS
  <2> HIDE DEF link
  <2>2. nodes' = nodes \/ nodes' = [nodes EXCEPT ![n].link = link]
    BY <1>2 DEF CopyAt
  <2>3. QED BY <1>3, <2>1, <2>2, LinkChanged
<1>5. TableTypes' /\ Room /\ Heads' = Heads
  <2>1. Len(nodes) \in Nat /\ table_size \in Nat
    BY NodeFacts, TableSize DEF TableTypes
  <2>2. QED BY <1>1, <1>4, <2>1 DEF TableTypes, Heads, Room, Extent
<1>6. rest' \in [Threads -> SUBSET (1 .. Len(nodes))] /\ pc' \in [Threads -> PCs]
  BY <1>2, <1>3, CopyOnTypes DEF CopyAt
<1>7. copies' \in [Threads -> Seq(Keys)]
  <2>1. copies[t] \in Seq(Keys) /\ nodes[n].key \in Keys
    BY <1>3, NodeFacts DEF LocalTypes
  <2>2. Append(copies[t], nodes[n].key) \in Seq(Keys)
    BY <2>1, AppendProperties
  <2>3. copies' = copies \/ copies' = [copies EXCEPT ![t] = Append(copies[t], nodes[n].key)]
    BY <1>2 DEF CopyAt
  <2>4. QED BY <2>2, <2>3 DEF LocalTypes
<1>8. QED BY <1>1, <1>4, <1>5, <1>6, <1>7 DEF LocalTypes

(* Types after a child has been published                                   *)
LEMMA PublishChildTypes ==
  ASSUME TableTypes, LocalTypes, NEW t \in Threads, SplitInv(t), PublishChild(t)
  PROVE  TableTypes' /\ LocalTypes' /\ Room
<1> DEFINE j == Child(t)
           c == copies[t]
<1>1. /\ UNCHANGED <<allow_delete, table_size, resize_lock, op, key, ts, head, rest, stale>>
      /\ pc[t] = "child" /\ pc[t] \in Splitting
  BY DEF PublishChild, Splitting
<1>2. /\ j \in InitialSize .. table_size - 1 /\ c \in Seq(Keys) /\ nodes \in Seq(Node)
      /\ Tail(splits[t]) \in Seq(InitialSize .. table_size - 1)
  BY <1>1, SplitFacts DEF LocalTypes, TableTypes
<1>3. j \in DOMAIN buckets /\ Len(nodes) \in Nat /\ Len(c) \in Nat /\ table_size \in Nat
  BY <1>2, ChildFacts, LenProperties, TableSize
<1>4. Extent' = Extent
  BY <1>1 DEF Extent
<1>5. TableTypes' /\ Room
  <2>1. CASE UNCHANGED <<nodes, buckets>>
    BY <1>1, <2>1, TypesUnchanged DEF table
  <2>2. CASE /\ nodes' = nodes \o [n \in 1 .. Len(c) |-> [key |-> c[n], link |-> "live"]]
             /\ buckets' = [buckets EXCEPT ![j].chain = Len(nodes) + 1 .. Len(nodes) + Len(c)]
    <3> HIDE DEF c, j
    <3>1. nodes' \in Seq(Node) /\ Len(nodes') = Len(nodes) + Len(c)
      BY <1>2, <2>2, ChainAppended
    <3>2. Room
      BY <1>1, <1>3, <3>1 DEF Room
    <3>3. /\ 0 .. Len(nodes) \subseteq 0 .. Len(nodes')
          /\ Len(nodes) + 1 .. Len(nodes) + Len(c) \subseteq 0 .. Len(nodes')
      BY <1>3, <3>1
    <3>4. Heads \subseteq Heads'
      BY <3>3 DEF Heads
    <3>5. buckets \in [0 .. Extent - 1 -> Heads] /\ buckets[j] \in Heads
      BY <1>3 DEF TableTypes
    <3>6. [buckets[j] EXCEPT !.chain = Len(nodes) + 1 .. Len(nodes) + Len(c)] \in Heads'
      BY <3>3, <3>5 DEF Heads
    <3>7. buckets' \in [0 .. Extent' - 1 -> Heads']
      BY <1>4, <2>2, <3>4, <3>5, <3>6
    <3>8. QED BY <1>1, <3>1, <3>2, <3>7 DEF TableTypes
  <2>3. QED BY <2>1, <2>2 DEF PublishChild
<1>6. /\ head \in [Threads -> Heads'] /\ rest \in [Threads -> SUBSET (1 .. Len(nodes'))]
  BY <1>5, RoomFacts
<1>7. pc' \in [Threads -> PCs]
  BY DEF PublishChild, Goto, PCs, LocalTypes
<1>8. splits' \in [Threads -> Seq(InitialSize .. table_size - 1)]
  BY <1>2 DEF PublishChild, LocalTypes
<1>9. copies' \in [Threads -> Seq(Keys)]
  <2>1. <<>> \in Seq(Keys)
    OBVIOUS
  <2>2. QED BY <2>1 DEF PublishChild, LocalTypes
<1>10. QED BY <1>1, <1>5, <1>6, <1>7, <1>8, <1>9 DEF LocalTypes

(* A step keeps the types, and only adds nodes and buckets.                 *)
LEMMA StepTypes ==
  ASSUME Types, TableInv, NEW t \in Threads, CallInv(t), SplitInv(t), Call(t) \/ Step(t), Watch
  PROVE  Types' /\ Room
<1> USE DEF Types
<1>1. TableTypes' /\ LocalTypes'
  BY CallTypes, LoadHeadTypes, WalkTypes, MarkTypes, PublishTypes, ResizeTypes, LoadParentTypes,
     SealTypes, CopyTypes, PublishChildTypes DEF Step
<1>2. Room
  <2>1. CASE UNCHANGED <<table, resize_lock>>
    BY <2>1, TypesUnchanged
  <2>2. CASE ~UNCHANGED <<table, resize_lock>>
    BY <2>2, MarkTypes, PublishTypes, ResizeTypes, SealTypes, CopyTypes, PublishChildTypes
       DEF Step, Call, LoadSize, LoadHead, Walk, Recheck, LoadParent
  <2>3. QED BY <2>1, <2>2
<1>3. seen' \in [Threads -> SUBSET BOOLEAN]
  <2> DEFINE B(u) == key'[u] \in Members'
  <2>1. \A u \in Threads : B(u) \in BOOLEAN
    OBVIOUS
  <2>2. seen' = [u \in Threads |-> IF pc'[u] = "idle" THEN {}
                                  ELSE (IF pc[u] = "idle" THEN {} ELSE seen[u]) \cup {B(u)}]
    BY DEF Watch
  <2> HIDE DEF B
  <2>3. \A u \in Threads : seen[u] \in SUBSET BOOLEAN
    BY DEF HistoryTypes
  <2>4. ASSUME NEW u \in Threads PROVE seen'[u] \in SUBSET BOOLEAN
    BY <2>1, <2>2, <2>3
  <2>5. QED BY <2>2, <2>4
<1>4. decision' \in (Threads \X BOOLEAN) \cup {None}
  <2>1. CASE Undecided
    BY <2>1 DEF Undecided
  <2>2. ASSUME NEW a \in BOOLEAN, Decide(t, a) PROVE decision' \in (Threads \X BOOLEAN) \cup {None}
    BY <2>2 DEF Decide
  <2>3. Undecided \/ Decide(t, TRUE) \/ Decide(t, FALSE)
    <3>1. (op[t] = "contains") = TRUE \/ (op[t] = "contains") = FALSE
      OBVIOUS
    <3>2. CASE Walk(t)
      BY <3>1, <3>2, Zenon DEF Walk, WalkAt
    <3>3. CASE ~Walk(t)
      BY <3>3 DEF Step, Call, Mark, Recheck, Publish
    <3>4. QED BY <3>2, <3>3
  <2>4. QED BY <2>1, <2>2, <2>3
<1>5. QED BY <1>1, <1>2, <1>3, <1>4 DEF HistoryTypes

-----------------------------------------------------------------------------
(* What a step keeps of the table, and so of what others know               *)

(* Keys stay, and a link that is not live, or any where there are no erases *)
NodesKeep ==
  \A n \in 1 .. Len(nodes) :
    /\ nodes'[n].key = nodes[n].key
    /\ nodes'[n].link = nodes[n].link \/ (allow_delete /\ nodes[n].link = "live")

(* What is there after the step, for a bucket chosen before it              *)
PublishedAfter(j) == j \in DOMAIN buckets' /\ buckets'[j] # Uninitialized
MovingAfter(c) ==
  {n \in buckets'[Parent(c)].chain : BucketAt(nodes'[n].key, SizeOf(c)) = c}

(* Chains and seals grow.                                                   *)
BucketsKeep ==
  \A j \in Nat : Published(j) =>
    /\ PublishedAfter(j)
    /\ buckets[j].chain \subseteq buckets'[j].chain
    /\ buckets[j].level <= buckets'[j].level

(* What is added to a chain does not belong to the children it is sealed    *)
(* for.                                                                     *)
SealsHold ==
  \A c \in InitialSize .. table_size - 1 :
    Published(Parent(c)) /\ buckets[Parent(c)].level >= SizeOf(c) =>
      \A n \in buckets'[Parent(c)].chain \ buckets[Parent(c)].chain :
        BucketAt(nodes'[n].key, SizeOf(c)) # c

Keeps == Room /\ UNCHANGED allow_delete /\ NodesKeep /\ BucketsKeep /\ SealsHold

(* A thread whose locals stay knows what it knew.                           *)
LEMMA CallsKept ==
  ASSUME Types, Types', TableInv, Keeps, NEW u \in Threads, CallInv(u), UNCHANGED Locals(u),
         resize_lock' = u <=> resize_lock = u,
         pc[u] = "store" => UNCHANGED table_size
  PROVE  CallInv(u)'
<1> DEFINE j == Bucket(u)
           k == key[u]
<1>1. /\ pc'[u] = pc[u] /\ op'[u] = op[u] /\ key'[u] = key[u] /\ ts'[u] = ts[u] /\ head'[u] = head[u]
      /\ rest'[u] = rest[u] /\ stale'[u] = stale[u]
  BY DEF Locals
<1>2. Bucket(u)' = j
  BY <1>1 DEF Bucket, BucketAt
<1>3. /\ Len(nodes) \in Nat /\ Len(nodes') \in Nat /\ Len(nodes) <= Len(nodes')
      /\ table_size \in Nat /\ table_size' \in Nat /\ table_size <= table_size'
  <2>1. Len(nodes) \in Nat /\ Len(nodes') \in Nat
    BY NodeFacts DEF Types, TableTypes
  <2>2. table_size \in Sizes /\ table_size' \in Sizes
    BY DEF Types, TableTypes
  <2>3. QED BY <2>1, <2>2, SizeFacts DEF Keeps, Room
<1>4. rest[u] \subseteq 1 .. Len(nodes)
  BY DEF Types, LocalTypes
<1>5. pc[u] # "idle" => ts[u] \in Sizes /\ ts[u] <= table_size'
  <2>1. pc[u] # "idle" => ts[u] \in Sizes /\ ts[u] <= table_size
    BY DEF CallInv
  <2>2. ts[u] \in Sizes => ts[u] \in Nat
    BY SizeFacts
  <2>3. QED BY <1>3, <2>1, <2>2
<1>6. pc[u] \in {"walk", "mark"} =>
        PublishedAfter(j) /\ \A n \in rest[u] : n \in buckets'[j].chain /\ nodes'[n].key = k
  <2> SUFFICES ASSUME pc[u] \in {"walk", "mark"}
               PROVE  PublishedAfter(j) /\ \A n \in rest[u] : n \in buckets'[j].chain /\ nodes'[n].key = k
    OBVIOUS
  <2>1. Published(j) /\ rest[u] \subseteq NodesOf(k, j) /\ j \in Nat
    BY PublishedFacts DEF CallInv, Types, TableInv
  <2> HIDE DEF j
  <2>2. PublishedAfter(j) /\ buckets[j].chain \subseteq buckets'[j].chain
    BY <2>1 DEF Keeps, BucketsKeep
  <2>3. \A n \in rest[u] : n \in buckets[j].chain /\ nodes[n].key = k /\ nodes'[n].key = k
    BY <1>4, <2>1 DEF NodesOf, WithKey, Keeps, NodesKeep
  <2>4. QED BY <2>2, <2>3
<1>7. pc[u] = "recheck" /\ ~stale[u] => \A n \in rest[u] : nodes'[n].link = "marked"
  BY <1>4 DEF CallInv, Keeps, NodesKeep
<1>8. pc[u] \in {"walk", "publish"} /\ op[u] = "insert" =>
        /\ head[u].chain \subseteq 1 .. Len(nodes')
        /\ \A n \in WithKey(head[u].chain, key[u])' : n \in rest[u] \/ nodes'[n].link = "marked"
  <2> SUFFICES ASSUME pc[u] \in {"walk", "publish"}, op[u] = "insert"
               PROVE  /\ head[u].chain \subseteq 1 .. Len(nodes')
                      /\ \A n \in WithKey(head[u].chain, key[u])' : n \in rest[u] \/ nodes'[n].link = "marked"
    OBVIOUS
  <2>1. /\ head[u].chain \subseteq 1 .. Len(nodes)
        /\ \A n \in WithKey(head[u].chain, key[u]) : n \in rest[u] \/ nodes[n].link = "marked"
    BY DEF CallInv
  <2>2. head[u].chain \subseteq 1 .. Len(nodes')
    BY <1>3, <2>1
  <2>3. ASSUME NEW n \in WithKey(head[u].chain, key[u])' PROVE n \in rest[u] \/ nodes'[n].link = "marked"
    <3>1. n \in head[u].chain /\ nodes'[n].key = key[u]
      BY <1>1 DEF WithKey
    <3>2. nodes'[n].key = nodes[n].key /\ (nodes'[n].link = nodes[n].link \/ nodes[n].link = "live")
      BY <2>1, <3>1 DEF Keeps, NodesKeep
    <3>3. QED BY <2>1, <3>1, <3>2 DEF WithKey
  <2>4. QED BY <2>2, <2>3
<1>9. pc[u] \in {"walk", "mark"} => (Published(Bucket(u)) /\ rest[u] \subseteq NodesOf(key[u], Bucket(u)))'
  BY <1>1, <1>2, <1>6 DEF Published, PublishedAfter, NodesOf, WithKey
<1>10. QED
  BY <1>1, <1>5, <1>7, <1>8, <1>9 DEF CallInv, Keeps

(* What moves to the child is not added to.                                 *)
LEMMA MovingKept ==
  ASSUME Types, TableInv, Keeps, NEW c \in InitialSize .. table_size - 1,
         Published(Parent(c)), buckets[Parent(c)].level >= SizeOf(c)
  PROVE  MovingAfter(c) = MovingTo(buckets[Parent(c)].chain, c)
<1> DEFINE p == Parent(c)
<1>1. p \in Nat /\ buckets[p].chain \subseteq 1 .. Len(nodes) /\ buckets[p].chain \subseteq buckets'[p].chain
  BY PublishedFacts, ChainIsNodes DEF Keeps, BucketsKeep, Types, TableInv
<1>2. \A n \in buckets'[p].chain \ buckets[p].chain : BucketAt(nodes'[n].key, SizeOf(c)) # c
  BY DEF Keeps, SealsHold
<1>3. \A n \in buckets[p].chain : nodes'[n].key = nodes[n].key
  BY <1>1 DEF Keeps, NodesKeep
<1>4. QED BY <1>1, <1>2, <1>3 DEF MovingTo, MovingAfter

(* A split knows what it knew after the steps of others: what moves stays   *)
(* the same.                                                                *)
LEMMA SplitsKept ==
  ASSUME Types, Types', TableInv, Keeps, NEW u \in Threads, SplitInv(u), UNCHANGED Locals(u)
  PROVE  SplitInv(u)'
<1> DEFINE c == Child(u)
           p == Parent(c)
<1>1. /\ pc'[u] = pc[u] /\ head'[u] = head[u] /\ rest'[u] = rest[u] /\ splits'[u] = splits[u]
      /\ copies'[u] = copies[u]
  BY DEF Locals
<1>2. Child(u)' = c /\ Parent(Child(u))' = p
  BY <1>1 DEF Child, Parent, BitFloor
<1>3. CASE pc[u] \notin {"seal", "copy", "child"}
  BY <1>1, <1>3 DEF SplitInv
<1>4. CASE pc[u] \in {"seal", "copy", "child"}
  <2>1. Published(p) /\ c \in InitialSize .. table_size - 1 /\ p \in Nat
    BY <1>4, SplitFacts, PublishedFacts DEF SplitInv, Splitting, Types, TableInv
  <2>2. Published(Parent(Child(u)))'
    <3>1. PublishedAfter(p)
      BY <2>1 DEF Keeps, BucketsKeep
    <3>2. QED BY <1>2, <3>1 DEF Published, PublishedAfter
  <2>3. CASE pc[u] = "seal"
    BY <1>1, <1>2, <2>2, <2>3 DEF SplitInv, SizeOf, BitFloor
  <2>4. CASE pc[u] \in {"copy", "child"}
    <3>1. /\ buckets[p].level >= SizeOf(c)
          /\ rest[u] \subseteq Moving(u)
          /\ \A n \in Moving(u) \ rest[u] :
               nodes[n].link = "marked" \/ (Final(n) /\ Copied(u, nodes[n].key))
          /\ \A q \in 1 .. Len(copies[u]) :
               \E n \in Moving(u) \ rest[u] : nodes[n].key = copies[u][q] /\ Final(n)
          /\ \A q, r \in 1 .. Len(copies[u]) : copies[u][q] = copies[u][r] => q = r
      BY <2>4 DEF SplitInv
    <3>2. Moving(u)' = Moving(u) /\ Moving(u) \subseteq 1 .. Len(nodes)
      <4>1. MovingAfter(c) = MovingTo(buckets[p].chain, c)
        BY <2>1, <3>1, MovingKept
      <4>2. Moving(u) \subseteq 1 .. Len(nodes)
        BY <2>1, ChainIsNodes DEF Moving, Types, TableInv
      <4>3. Moving(u)' = MovingAfter(c)
        BY <1>2 DEF Moving, MovingTo, MovingAfter, BucketAt, SizeOf, BitFloor
      <4>4. QED BY <4>1, <4>2, <4>3 DEF Moving
    <3>3. buckets'[p].level >= SizeOf(c)
      <4>1. buckets[p].level <= buckets'[p].level /\ buckets[p].level \in Nat
        BY <2>1, PublishedFacts DEF Keeps, BucketsKeep, Types, TableInv
      <4>2. buckets'[p].level \in Nat
        <5>1. p \in DOMAIN buckets'
          BY <2>1, <2>2, <1>2 DEF Published
        <5>2. QED BY <5>1 DEF Types, TableTypes, Heads
      <4>3. SizeOf(c) \in Nat
        BY <2>1, ChildFacts DEF Types
      <4>4. QED BY <3>1, <4>1, <4>2, <4>3
    <3>4. \A n \in Moving(u) : /\ nodes'[n].key = nodes[n].key
                               /\ nodes[n].link = "marked" => nodes'[n].link = "marked"
                               /\ Final(n) => Final(n)'
      BY <3>2 DEF Keeps, NodesKeep, Final
    <3>6. /\ rest'[u] \subseteq Moving(u)'
          /\ \A n \in Moving(u)' \ rest'[u] :
               nodes'[n].link = "marked" \/ (Final(n)' /\ Copied(u, nodes[n].key))
          /\ \A q \in 1 .. Len(copies'[u]) :
               \E n \in Moving(u)' \ rest'[u] : nodes'[n].key = copies'[u][q] /\ Final(n)'
          /\ \A q, r \in 1 .. Len(copies'[u]) : copies'[u][q] = copies'[u][r] => q = r
      BY <1>1, <3>1, <3>2, <3>4
    <3>7. \A n \in Moving(u)' \ rest'[u] :
               nodes'[n].link = "marked" \/ (Final(n) /\ Copied(u, nodes[n].key))'
      BY <1>1, <3>2, <3>4, <3>6 DEF Copied, Final
    <3>8. (buckets[Parent(Child(u))].level >= SizeOf(Child(u)))'
      BY <1>2, <3>3 DEF SizeOf, BitFloor
    <3>9. QED BY <1>1, <2>2, <2>4, <3>6, <3>7, <3>8 DEF SplitInv, Copied, Final
  <2>5. QED BY <1>4, <2>3, <2>4
<1>5. QED BY <1>3, <1>4

-----------------------------------------------------------------------------
(* The table's invariant, by what a step does to the table                  *)

(* The authority after a step that publishes no bucket, from the state      *)
(* after it.                                                                *)
LEMMA AuthorityAfter ==
  ASSUME UNCHANGED allow_delete, \A i \in Nat : Published(i)' <=> Published(i),
         \A a, b \in Nat : Published(a) /\ Published(b) /\ a < b =>
           \A m \in buckets'[a].chain : Home(nodes'[m].key, b) =>
             IF allow_delete THEN nodes'[m].link # "live"
             ELSE \E l \in buckets'[b].chain : nodes'[l].key = nodes'[m].key,
         ~allow_delete => \A m \in 1 .. Len(nodes') : nodes'[m].link = "live"
  PROVE  AuthorityInv'
  BY DEF AuthorityInv, Home, BucketAt, FirstSize, SizeOf, BitFloor

(* A step that changes links at most                                        *)
LEMMA TableOfLinks ==
  ASSUME Types, Types', TableInv, Room, NodesKeep, UNCHANGED <<allow_delete, table_size, buckets>>,
         Len(nodes') = Len(nodes)
  PROVE  TableInv' /\ Keeps
<1>1. \A j : Published(j)' <=> Published(j)
  BY DEF Published
<1>2. SizeInv' /\ LadderInv'
  BY <1>1 DEF TableInv, SizeInv, LadderInv
<1>3. \A n \in 1 .. Len(nodes) :
        /\ nodes'[n].key = nodes[n].key
        /\ nodes[n].link = "marked" => nodes'[n].link = "marked"
        /\ nodes[n].link # "live" => nodes'[n].link = nodes[n].link
        /\ ~allow_delete => nodes'[n].link = nodes[n].link
  BY DEF NodesKeep
<1>4. ChainInv'
  <2> SUFFICES ASSUME NEW j \in Nat, Published(j)'
               PROVE  /\ buckets'[j].chain \subseteq 1 .. Len(nodes')
                      /\ \A n \in buckets'[j].chain : Home(nodes'[n].key, j)
                      /\ \A m, n \in buckets'[j].chain :
                           nodes'[m].key = nodes'[n].key /\ nodes'[m].link # "marked" /\ nodes'[n].link # "marked"
                             => m = n
    BY DEF ChainInv, Home, BucketAt, FirstSize, SizeOf, BitFloor
  <2>1. /\ buckets[j].chain \subseteq 1 .. Len(nodes)
        /\ \A n \in buckets[j].chain : Home(nodes[n].key, j)
        /\ \A m, n \in buckets[j].chain :
             nodes[m].key = nodes[n].key /\ nodes[m].link # "marked" /\ nodes[n].link # "marked" => m = n
    BY <1>1 DEF TableInv, ChainInv
  <2>2. \A n \in buckets[j].chain :
          nodes'[n].key = nodes[n].key /\ (nodes'[n].link # "marked" => nodes[n].link # "marked")
    BY <1>3, <2>1
  <2>3. QED BY <2>1, <2>2
<1>5. AuthorityInv'
  <2>1. ASSUME NEW i \in Nat, NEW j \in Nat, Published(i), Published(j), i < j,
               NEW n \in buckets[i].chain, Home(nodes'[n].key, j)
        PROVE  IF allow_delete THEN nodes'[n].link # "live"
               ELSE \E m \in buckets[j].chain : nodes'[m].key = nodes'[n].key
    <3>1. buckets[i].chain \subseteq 1 .. Len(nodes) /\ buckets[j].chain \subseteq 1 .. Len(nodes)
      BY <2>1 DEF TableInv, ChainInv
    <3>2. nodes'[n].key = nodes[n].key
      BY <1>3, <3>1
    <3>3. IF allow_delete THEN nodes[n].link # "live"
          ELSE \E m \in buckets[j].chain : nodes[m].key = nodes[n].key
      BY <2>1, <3>2 DEF TableInv, AuthorityInv
    <3>4. QED BY <1>3, <3>1, <3>2, <3>3
  <2>2. ~allow_delete => \A n \in 1 .. Len(nodes) : nodes'[n].link = "live"
    BY <1>3 DEF TableInv, AuthorityInv
  <2>3. QED BY <1>1, <2>1, <2>2, AuthorityAfter DEF Published
<1>6. BucketsKeep
  <2>1. ASSUME NEW j \in Nat, Published(j) PROVE buckets[j].level <= buckets[j].level
    <3>1. buckets[j].level \in Nat
      BY <2>1, PublishedFacts DEF Types, TableInv
    <3>2. QED BY <3>1
  <2>2. QED BY <2>1 DEF BucketsKeep, Published, PublishedAfter
<1>7. SealsHold
  BY DEF SealsHold
<1>8. QED BY <1>2, <1>4, <1>5, <1>6, <1>7 DEF TableInv, Keeps

(* A step that leaves the table alone                                       *)
LEMMA TableUnchanged ==
  ASSUME Types, Types', TableInv, UNCHANGED table
  PROVE  TableInv' /\ Keeps
<1>1. NodesKeep
  BY DEF NodesKeep, table
<1>2. Room
  <2>1. Len(nodes) \in Nat /\ table_size \in Nat
    BY NodeFacts, TableSize DEF Types, TableTypes
  <2>2. QED BY <2>1 DEF Room, table
<1>3. QED BY <1>1, <1>2, TableOfLinks DEF table

(* A step that raises seals, or makes room for buckets                      *)
LEMMA TableOfSeals ==
  ASSUME Types, Types', TableInv, Room, UNCHANGED <<allow_delete, nodes>>,
         \A j \in Nat : PublishedAfter(j) <=> Published(j),
         \A j \in Nat : Published(j) =>
           buckets'[j].chain = buckets[j].chain /\ buckets[j].level <= buckets'[j].level
  PROVE  TableInv' /\ Keeps
<1>1. \A j \in Nat : Published(j)' <=> Published(j)
  BY DEF Published, PublishedAfter
<1>2. table_size \in Nat /\ table_size' \in Nat /\ table_size <= table_size'
  <2>1. table_size \in Sizes /\ table_size' \in Sizes
    BY DEF Types, TableTypes
  <2>2. QED BY <2>1, SizeFacts DEF Room
<1>3. SizeInv'
  BY <1>1, <1>2 DEF TableInv, SizeInv
<1>4. LadderInv'
  <2> SUFFICES ASSUME NEW j \in Nat, NEW n \in Sizes, Published(j)', n <= j
               PROVE  \E m \in Sizes :
                        /\ n <= m /\ m <= j
                        /\ j % m = j % n /\ j % (2 * m) = (j % n) + m
                        /\ Published(j % (2 * m))'
                        /\ buckets'[j % n].level >= 2 * m
    BY DEF LadderInv
  <2>1. Published(j) /\ j < table_size
    BY <1>1 DEF TableInv, SizeInv
  <2>2. PICK m \in Sizes :
          /\ n <= m /\ m <= j
          /\ j % m = j % n /\ j % (2 * m) = (j % n) + m
          /\ Published(j % (2 * m))
          /\ buckets[j % n].level >= 2 * m
    BY <2>1 DEF TableInv, LadderInv
  <2>3. m \in Nat /\ m > 0 /\ n \in Nat
    BY SizeFacts
  <2>4. j % n \in Nat /\ j % n < n
    BY SizeRange
  <2>5. j % n \in DOMAIN buckets /\ buckets[j % n].level \in Nat
    <3>1. j % n \in 0 .. table_size - 1
      BY <1>2, <2>1, <2>2, <2>3, <2>4
    <3>2. QED BY <3>1, TableSize DEF Types
  <2> DEFINE r == j % n
             l == buckets[r].level
  <2>6. l # 0
    BY <2>2, <2>3
  <2>7. Published(r)
    BY <2>5, <2>6 DEF Published, Uninitialized
  <2>8. r \in Nat /\ PublishedAfter(r) /\ buckets[r].level <= buckets'[r].level
    BY <2>4, <2>7
  <2>9. buckets'[r].level \in Nat
    <3>1. r \in DOMAIN buckets'
      BY <2>8 DEF PublishedAfter
    <3>2. QED BY <3>1 DEF Types, TableTypes, Heads
  <2>10. buckets'[r].level >= 2 * m
    BY <2>2, <2>3, <2>5, <2>8, <2>9
  <2>11. Published(j % (2 * m))'
    <3>1. j % (2 * m) \in Nat
      BY <2>2, PublishedFacts DEF Types, TableInv
    <3>2. QED BY <1>1, <2>2, <3>1
  <2>12. QED BY <2>2, <2>10, <2>11
<1>5. ChainInv'
  BY <1>1 DEF TableInv, ChainInv, Home, BucketAt, FirstSize, SizeOf, BitFloor
<1>6. AuthorityInv'
  <2>1. ASSUME NEW i \in Nat, NEW j \in Nat, Published(i), Published(j), i < j,
               NEW n \in buckets'[i].chain, Home(nodes[n].key, j)
        PROVE  IF allow_delete THEN nodes[n].link # "live"
               ELSE \E m \in buckets'[j].chain : nodes[m].key = nodes[n].key
    <3>1. buckets'[i].chain = buckets[i].chain /\ buckets'[j].chain = buckets[j].chain
      BY <2>1
    <3>2. QED BY <2>1, <3>1 DEF TableInv, AuthorityInv
  <2>2. ~allow_delete => \A n \in 1 .. Len(nodes) : nodes[n].link = "live"
    BY DEF TableInv, AuthorityInv
  <2>3. QED BY <1>1, <2>1, <2>2 DEF AuthorityInv, Home, BucketAt, FirstSize, SizeOf, BitFloor
<1>7. NodesKeep
  BY DEF NodesKeep
<1>8. BucketsKeep
  BY DEF BucketsKeep
<1>9. SealsHold
  <2>1. ASSUME NEW c \in InitialSize .. table_size - 1, Published(Parent(c))
        PROVE  buckets'[Parent(c)].chain = buckets[Parent(c)].chain
    <3>1. Parent(c) \in Nat
      BY <2>1, PublishedFacts DEF Types, TableInv
    <3>2. QED BY <2>1, <3>1
  <2>2. QED BY <2>1 DEF SealsHold
<1>10. QED BY <1>3, <1>4, <1>5, <1>6, <1>7, <1>8, <1>9 DEF TableInv, Keeps

(* A node k is inserted into the bucket of size n, which is not sealed for  *)
(* more, and holds tombstones of k at most.                                 *)
LEMMA TableOfInsert ==
  ASSUME Types, Types', TableInv, Room, UNCHANGED <<allow_delete, table_size>>,
         NEW k \in Keys, NEW n \in Sizes, n <= table_size, NEW j, j = BucketAt(k, n),
         Published(j), buckets[j].level <= n,
         \A m \in WithKey(buckets[j].chain, k) : nodes[m].link = "marked",
         nodes' = Append(nodes, [key |-> k, link |-> "live"]),
         buckets' = [buckets EXCEPT ![j].chain = @ \cup {Len(nodes) + 1}]
  PROVE  TableInv' /\ Keeps
<1> DEFINE N == Len(nodes) + 1
           e == [key |-> k, link |-> "live"]
<1>1. TableTypes /\ SizeInv /\ LadderInv /\ ChainInv /\ AuthorityInv
  BY DEF Types, TableInv
<1>2. /\ j \in Nat /\ j \in DOMAIN buckets /\ buckets[j] \in Heads /\ Home(k, j) /\ j < MaxSize
      /\ Hash[k] \in Nat
  BY <1>1, BucketFacts
<1>3. /\ Len(nodes) \in Nat /\ Len(nodes') = N /\ nodes'[N] = e
      /\ \A m \in 1 .. Len(nodes) : nodes'[m] = nodes[m]
  <2>1. e \in Node /\ nodes \in Seq(Node) /\ Len(nodes) \in Nat
    BY <1>1, NodeFacts DEF Node, TableTypes
  <2> HIDE DEF e
  <2>2. nodes' = Append(nodes, e)
    BY DEF e
  <2>3. QED BY <2>1, <2>2, NodeAppended
<1>4. /\ DOMAIN buckets' = DOMAIN buckets
      /\ \A i \in DOMAIN buckets : buckets'[i].level = buckets[i].level
      /\ \A i \in DOMAIN buckets : i # j => buckets'[i] = buckets[i]
      /\ buckets'[j].chain = buckets[j].chain \cup {N}
  BY <1>2 DEF Heads
<1> HIDE DEF e
<1>5. \A i : PublishedAfter(i) <=> Published(i)
  <2>1. buckets'[j] # Uninitialized
    <3>1. N \in buckets'[j].chain /\ N # 0
      BY <1>3, <1>4
    <3>2. QED BY <3>1 DEF Uninitialized
  <2>2. QED BY <1>4, <2>1 DEF PublishedAfter, Published
<1>6. \A i : Published(i)' <=> Published(i)
  BY <1>5 DEF PublishedAfter, Published
<1>7. \A i \in Nat : Published(i) => i \in DOMAIN buckets /\ buckets[i].chain \subseteq 1 .. Len(nodes)
  BY <1>1 DEF Published, ChainInv
<1>8. SizeInv'
  BY <1>1, <1>6 DEF SizeInv
<1>9. LadderInv'
  <2>1. ASSUME NEW i \in Nat, NEW s \in Sizes, Published(i), s <= i
        PROVE  buckets'[i % s].level = buckets[i % s].level
    <3>1. i % s \in Nat /\ i % s < s /\ s \in Nat
      BY SizeRange, SizeFacts
    <3>2. i < table_size
      BY <1>1, <2>1 DEF SizeInv
    <3>3. i % s \in 0 .. table_size - 1
      BY <1>1, <2>1, <3>1, <3>2, TableSize
    <3>4. i % s \in DOMAIN buckets
      BY <1>1, <3>3, TableSize
    <3>5. QED BY <1>4, <3>4
  <2>2. QED BY <1>1, <1>6, <2>1 DEF LadderInv
<1>10. ChainInv'
  <2> SUFFICES ASSUME NEW i \in Nat, Published(i)
               PROVE  /\ buckets'[i].chain \subseteq 1 .. Len(nodes')
                      /\ \A m \in buckets'[i].chain : Home(nodes'[m].key, i)
                      /\ \A l, m \in buckets'[i].chain :
                           nodes'[l].key = nodes'[m].key /\ nodes'[l].link # "marked" /\ nodes'[m].link # "marked"
                             => l = m
    BY <1>6 DEF ChainInv, Home, BucketAt, FirstSize, SizeOf, BitFloor
  <2>1. /\ buckets[i].chain \subseteq 1 .. Len(nodes)
        /\ \A m \in buckets[i].chain : Home(nodes[m].key, i)
        /\ \A l, m \in buckets[i].chain :
             nodes[l].key = nodes[m].key /\ nodes[l].link # "marked" /\ nodes[m].link # "marked" => l = m
    BY <1>1 DEF ChainInv
  <2>2. CASE i # j
    <3>1. buckets'[i].chain = buckets[i].chain
      BY <1>4, <1>7, <2>2
    <3>2. \A m \in buckets[i].chain : nodes'[m] = nodes[m]
      BY <1>3, <2>1
    <3>3. 1 .. Len(nodes) \subseteq 1 .. Len(nodes')
      BY <1>3
    <3>4. buckets'[i].chain \subseteq 1 .. Len(nodes')
      BY <2>1, <3>1, <3>3
    <3>5. \A m \in buckets'[i].chain : Home(nodes'[m].key, i)
      BY <2>1, <3>1, <3>2
    <3> HIDE DEF N
    <3>6. QED BY <2>1, <3>1, <3>2, <3>4, <3>5
  <2>3. CASE i = j
    <3>1. buckets'[i].chain = buckets[i].chain \cup {N}
      BY <1>4, <2>3
    <3>2. \A m \in buckets[i].chain : nodes'[m] = nodes[m] /\ m # N
      BY <1>3, <2>1
    <3>3. nodes'[N].key = k
      BY <1>3 DEF e
    <3>4. \A m \in buckets[i].chain : nodes[m].key = k => nodes[m].link = "marked"
      BY <2>3 DEF WithKey
    <3>5. buckets'[i].chain \subseteq 1 .. Len(nodes')
      BY <1>3, <2>1, <3>1
    <3>6. \A m \in buckets'[i].chain : Home(nodes'[m].key, i)
      BY <1>2, <2>1, <2>3, <3>1, <3>2, <3>3
    <3> HIDE DEF N
    <3>7. QED BY <2>1, <3>1, <3>2, <3>3, <3>4, <3>5, <3>6
  <2>4. QED BY <2>2, <2>3
<1>11. AuthorityInv'
  <2> SUFFICES /\ \A a, b \in Nat : Published(a) /\ Published(b) /\ a < b =>
                    \A m \in buckets'[a].chain : Home(nodes'[m].key, b) =>
                      IF allow_delete THEN nodes'[m].link # "live"
                      ELSE \E l \in buckets'[b].chain : nodes'[l].key = nodes'[m].key
               /\ ~allow_delete => \A m \in 1 .. Len(nodes') : nodes'[m].link = "live"
    BY <1>6, AuthorityAfter
  <2>1. ASSUME NEW a \in Nat, NEW b \in Nat, Published(a), Published(b), a < b,
               NEW m \in buckets'[a].chain, Home(nodes'[m].key, b)
        PROVE  IF allow_delete THEN nodes'[m].link # "live"
               ELSE \E l \in buckets'[b].chain : nodes'[l].key = nodes'[m].key
    <3>1. m \in buckets[a].chain
      <4> SUFFICES ASSUME m \notin buckets[a].chain PROVE FALSE
        OBVIOUS
      <4>1. a = j /\ m = N
        BY <1>4, <1>7, <2>1
      <4>2. nodes'[m].key = k
        BY <1>3, <4>1 DEF e
      <4>3. b <= BucketAt(k, n)
        BY <1>1, <2>1, <4>2, NothingAboveUnsealed
      <4>4. QED BY <1>2, <2>1, <4>1, <4>3
    <3>2. m \in 1 .. Len(nodes) /\ nodes'[m] = nodes[m] /\ buckets[b].chain \subseteq 1 .. Len(nodes)
      BY <1>3, <1>7, <2>1, <3>1
    <3>3. IF allow_delete THEN nodes[m].link # "live"
          ELSE \E l \in buckets[b].chain : nodes[l].key = nodes[m].key
      BY <1>1, <2>1, <3>1, <3>2 DEF AuthorityInv
    <3>4. buckets[b].chain \subseteq buckets'[b].chain
      BY <1>4, <1>7, <2>1
    <3>5. QED BY <1>3, <3>2, <3>3, <3>4
  <2>2. ~allow_delete => \A m \in 1 .. Len(nodes') : nodes'[m].link = "live"
    <3>1. nodes'[N].link = "live"
      BY <1>3 DEF e
    <3>2. ~allow_delete => \A m \in 1 .. Len(nodes) : nodes'[m].link = "live"
      BY <1>1, <1>3 DEF AuthorityInv
    <3>3. \A m \in 1 .. N : m = N \/ m \in 1 .. Len(nodes)
      BY <1>3
    <3>4. QED BY <1>3, <3>1, <3>2, <3>3
  <2>3. QED BY <2>1, <2>2
<1>12. NodesKeep
  BY <1>3 DEF NodesKeep
<1>13. BucketsKeep
  <2> SUFFICES ASSUME NEW i \in Nat, Published(i)
               PROVE  /\ buckets[i].chain \subseteq buckets'[i].chain
                      /\ buckets[i].level <= buckets'[i].level
    BY <1>5 DEF BucketsKeep
  <2>1. i \in DOMAIN buckets /\ buckets[i].level \in Nat
    BY <1>1, PublishedFacts DEF Published
  <2>2. buckets[i].chain \subseteq buckets'[i].chain
    BY <1>4, <2>1
  <2>3. QED BY <1>4, <2>1, <2>2
<1>14. SealsHold
  <2> SUFFICES ASSUME NEW c \in InitialSize .. table_size - 1, Published(Parent(c)),
                      buckets[Parent(c)].level >= SizeOf(c),
                      NEW m \in buckets'[Parent(c)].chain \ buckets[Parent(c)].chain,
                      BucketAt(nodes'[m].key, SizeOf(c)) = c
               PROVE  FALSE
    BY DEF SealsHold
  <2>1. /\ SizeOf(c) \in Sizes /\ SizeOf(c) \in Nat /\ Parent(c) \in Nat /\ Parent(c) < c /\ c < SizeOf(c)
        /\ Parent(c) \in DOMAIN buckets
    BY <1>1, ChildFacts
  <2>2. Parent(c) = j /\ m = N
    BY <1>4, <2>1
  <2>3. nodes'[m].key = k
    BY <1>3, <2>2 DEF e
  <2>4. SizeOf(c) <= n
    <3>1. buckets[j].level \in Nat /\ n \in Nat
      BY <1>2, SizeFacts DEF Heads
    <3>2. QED BY <2>1, <2>2, <3>1
  <2>5. Hash[k] % SizeOf(c) = c /\ j = Hash[k] % n
    BY <2>3 DEF BucketAt
  <2>6. c = j % SizeOf(c)
    BY <1>2, <2>1, <2>4, <2>5, ModMod
  <2>7. j % SizeOf(c) = j
    <3>1. j < SizeOf(c)
      BY <2>1, <2>2
    <3>2. QED BY <1>2, <2>1, <3>1, SizeRange
  <2>8. QED BY <2>1, <2>2, <2>6, <2>7
<1>15. QED BY <1>8, <1>9, <1>10, <1>11, <1>12, <1>13, <1>14 DEF TableInv, Keeps

(* ks are the keys of all nodes in bucket p that move to bucket c and are   *)
(* not marked, each once.                                                   *)
CopiesOf(c, p, ks) ==
  /\ \A q, r \in 1 .. Len(ks) : ks[q] = ks[r] => q = r
  /\ \A n \in MovingTo(buckets[p].chain, c) :
       nodes[n].link = "marked" \/ (Final(n) /\ \E q \in 1 .. Len(ks) : ks[q] = nodes[n].key)
  /\ \A q \in 1 .. Len(ks) :
       \E n \in MovingTo(buckets[p].chain, c) : nodes[n].key = ks[q] /\ Final(n)

(* The step publishes bucket c with new nodes for the keys ks.              *)
ChildAdded(c, ks) ==
  /\ Len(nodes') = Len(nodes) + Len(ks)
  /\ \A n \in 1 .. Len(nodes) : nodes'[n] = nodes[n]
  /\ \A q \in 1 .. Len(ks) :
       nodes'[Len(nodes) + q].key = ks[q] /\ nodes'[Len(nodes) + q].link = "live"
  /\ DOMAIN buckets' = DOMAIN buckets
  /\ \A i \in DOMAIN buckets : buckets'[i].level = buckets[i].level
  /\ \A i \in DOMAIN buckets : i # c => buckets'[i] = buckets[i]
  /\ buckets'[c].chain = Len(nodes) + 1 .. Len(nodes) + Len(ks)

(* The chain of copies ks is published as bucket c.                         *)
LEMMA TableOfChild ==
  ASSUME Types, Types', TableInv, Room, UNCHANGED <<allow_delete, table_size>>,
         NEW c \in InitialSize .. table_size - 1, buckets[c] = Uninitialized,
         NEW p, p = Parent(c), Published(p), buckets[p].level >= SizeOf(c),
         NEW ks \in Seq(Keys),
         CopiesOf(c, p, ks), ChildAdded(c, ks)
  PROVE  TableInv' /\ Keeps
<1> DEFINE N == Len(nodes)
           K == Len(ks)
           f == BitFloor(c)
<1>copies. /\ \A q, r \in 1 .. Len(ks) : ks[q] = ks[r] => q = r
           /\ \A n \in MovingTo(buckets[p].chain, c) :
                nodes[n].link = "marked" \/ (Final(n) /\ \E q \in 1 .. Len(ks) : ks[q] = nodes[n].key)
           /\ \A q \in 1 .. Len(ks) :
                \E n \in MovingTo(buckets[p].chain, c) : nodes[n].key = ks[q]
  BY DEF CopiesOf
<1>added. /\ Len(nodes') = Len(nodes) + Len(ks)
          /\ \A n \in 1 .. Len(nodes) : nodes'[n] = nodes[n]
          /\ \A q \in 1 .. Len(ks) :
               nodes'[Len(nodes) + q].key = ks[q] /\ nodes'[Len(nodes) + q].link = "live"
          /\ DOMAIN buckets' = DOMAIN buckets
          /\ \A i \in DOMAIN buckets : buckets'[i].level = buckets[i].level
          /\ \A i \in DOMAIN buckets : i # c => buckets'[i] = buckets[i]
          /\ buckets'[c].chain = Len(nodes) + 1 .. Len(nodes) + Len(ks)
  BY DEF ChildAdded
<1>1. TableTypes /\ SizeInv /\ LadderInv /\ ChainInv /\ AuthorityInv
  BY DEF Types, TableInv
<1>2. /\ c \in Nat /\ c \in DOMAIN buckets /\ c < MaxSize /\ InitialSize <= c /\ c < table_size
      /\ f \in Sizes /\ 2 * f \in Sizes /\ SizeOf(c) = 2 * f /\ SizeOf(c) = FirstSize(c)
      /\ f \in Nat /\ f <= c /\ c < 2 * f /\ p = c % f /\ p \in Nat /\ p < c /\ p < f
      /\ p \in DOMAIN buckets /\ c = p + f
  <2>1. c < table_size
    BY <1>1, TableSize
  <2>2. c = Parent(c) + BitFloor(c)
    BY <1>1, ChildFacts DEF Parent
  <2>3. QED BY <1>1, <2>1, <2>2, ChildFacts
<1>3. /\ N \in Nat /\ K \in Nat /\ Len(nodes') = N + K
      /\ \A m \in 1 .. N : nodes'[m] = nodes[m]
      /\ \A q \in 1 .. K : nodes'[N + q].key = ks[q] /\ nodes'[N + q].link = "live"
  BY <1>1, <1>added, NodeFacts, LenProperties DEF TableTypes
<1>4. buckets'[c].chain = N + 1 .. N + K
  BY <1>added
<1> HIDE DEF f, N, K
<1>5. \A i : PublishedAfter(i) <=> Published(i) \/ i = c
  <2>1. buckets'[c] # Uninitialized
    <3>1. 0 \notin buckets'[c].chain
      BY <1>3, <1>4
    <3>2. QED BY <3>1 DEF Uninitialized
  <2>2. QED BY <1>2, <1>added, <2>1 DEF PublishedAfter, Published
<1>6. \A i : Published(i)' <=> Published(i) \/ i = c
  BY <1>5 DEF PublishedAfter, Published
<1>7. ~Published(c)
  BY DEF Published
<1>8. \A i : Published(i) => /\ i \in Nat /\ i \in DOMAIN buckets /\ i # c /\ buckets'[i] = buckets[i]
                             /\ buckets[i].chain \subseteq 1 .. N
  BY <1>1, <1>added, <1>7, PublishedFacts DEF Published, ChainInv, N
<1>9. \A m \in buckets'[c].chain :
        \E q \in 1 .. K : m = N + q /\ nodes'[m].key = ks[q] /\ nodes'[m].link = "live"
  <2> SUFFICES ASSUME NEW m \in buckets'[c].chain
               PROVE  \E q \in 1 .. K : m = N + q /\ nodes'[m].key = ks[q] /\ nodes'[m].link = "live"
    OBVIOUS
  <2>1. m \in N + 1 .. N + K
    BY <1>4
  <2>2. m - N \in 1 .. K /\ m = N + (m - N)
    BY <1>3, <2>1
  <2> DEFINE q == m - N
  <2>3. q \in 1 .. K /\ m = N + q
    BY <2>2
  <2> HIDE DEF q
  <2>4. nodes'[m].key = ks[q] /\ nodes'[m].link = "live"
    BY <1>3, <2>3
  <2>5. QED BY <2>3, <2>4
<1>10. \A q \in 1 .. K : ks[q] \in Keys /\ BucketAt(ks[q], SizeOf(c)) = c /\ Home(ks[q], c)
  <2> SUFFICES ASSUME NEW q \in 1 .. K
               PROVE  ks[q] \in Keys /\ BucketAt(ks[q], SizeOf(c)) = c /\ Home(ks[q], c)
    OBVIOUS
  <2>1. ks[q] \in Keys
    BY ElementOfSeq DEF K
  <2>2. BucketAt(ks[q], SizeOf(c)) = c
    BY <1>copies DEF MovingTo, K
  <2>3. QED BY <1>2, <2>1, <2>2 DEF Home
<1>11. SizeInv'
  BY <1>1, <1>2, <1>6 DEF SizeInv
<1>12. LadderInv'
  <2>1. ASSUME NEW j \in Nat, NEW n \in Sizes, j < table_size, n <= j
        PROVE  j % n \in Nat /\ buckets'[j % n].level = buckets[j % n].level
    <3>1. j % n \in Nat /\ j % n < n /\ n \in Nat
      BY SizeRange, SizeFacts
    <3>2. j % n \in 0 .. table_size - 1
      BY <1>1, <2>1, <3>1, TableSize
    <3>3. j % n \in DOMAIN buckets
      BY <1>1, <3>2, TableSize
    <3>4. QED BY <1>added, <3>1, <3>3
  <2>2. ASSUME NEW j \in Nat, NEW n \in Sizes, n <= j, Published(j)
        PROVE  \E m \in Sizes :
                 /\ n <= m /\ m <= j
                 /\ j % m = j % n /\ j % (2 * m) = (j % n) + m
                 /\ Published(j % (2 * m))'
                 /\ buckets'[j % n].level >= 2 * m
    <3>1. j < table_size
      BY <1>1, <2>2 DEF SizeInv
    <3>2. PICK m \in Sizes :
            /\ n <= m /\ m <= j
            /\ j % m = j % n /\ j % (2 * m) = (j % n) + m
            /\ Published(j % (2 * m))
            /\ buckets[j % n].level >= 2 * m
      BY <1>1, <2>2 DEF LadderInv
    <3>3. Published(j % (2 * m))'
      BY <1>6, <3>2
    <3>4. buckets'[j % n].level >= 2 * m
      BY <2>1, <2>2, <3>1, <3>2
    <3>5. QED BY <3>2, <3>3, <3>4
  <2>3. ASSUME NEW n \in Sizes, n <= c
        PROVE  \E m \in Sizes :
                 /\ n <= m /\ m <= c
                 /\ c % m = c % n /\ c % (2 * m) = (c % n) + m
                 /\ Published(c % (2 * m))'
                 /\ buckets'[c % n].level >= 2 * m
    <3>1. /\ n <= f /\ c % n = p % n /\ c % (2 * f) = c /\ (p < n => c % n = p)
          /\ \A m \in Sizes : m <= p => m <= c /\ c % m = p % m /\ c % (2 * m) = p % (2 * m)
      <4>1. /\ n <= BitFloor(c) /\ c % n = Parent(c) % n
            /\ c % (2 * BitFloor(c)) = c
            /\ Parent(c) < n => c % n = Parent(c)
            /\ \A m \in Sizes : m <= Parent(c) =>
                 m <= c /\ c % m = Parent(c) % m /\ c % (2 * m) = Parent(c) % (2 * m)
        BY <1>2, <2>3, LadderOfChild
      <4>2. QED BY <4>1 DEF f
    <3>2. buckets'[c % n].level = buckets[c % n].level /\ n \in Nat
      BY <1>2, <2>1, <2>3, SizeFacts
    <3>3. CASE p < n
      <4>1. c % n = p
        BY <3>1, <3>3
      <4>2. Published(c % (2 * f))'
        BY <1>6, <3>1
      <4>3. buckets'[c % n].level >= 2 * f
        BY <1>2, <3>2, <4>1
      <4>4. c % f = c % n /\ c % (2 * f) = (c % n) + f
        BY <1>2, <3>1, <4>1
      <4>5. QED BY <1>2, <3>1, <4>2, <4>3, <4>4
    <3>4. CASE n <= p
      <4>1. PICK m \in Sizes :
              /\ n <= m /\ m <= p
              /\ p % m = p % n /\ p % (2 * m) = (p % n) + m
              /\ Published(p % (2 * m))
              /\ buckets[p % n].level >= 2 * m
        BY <1>1, <1>2, <3>4 DEF LadderInv
      <4>2. m <= c /\ c % m = p % m /\ c % (2 * m) = p % (2 * m)
        BY <3>1, <4>1
      <4>3. Published(c % (2 * m))'
        BY <1>6, <4>1, <4>2
      <4>4. buckets'[c % n].level >= 2 * m
        BY <3>1, <3>2, <4>1
      <4>5. c % m = c % n /\ c % (2 * m) = (c % n) + m
        BY <3>1, <4>1, <4>2
      <4>6. QED BY <4>1, <4>2, <4>3, <4>4, <4>5
    <3>5. QED BY <1>2, <3>2, <3>3, <3>4
  <2>4. QED BY <1>6, <2>2, <2>3 DEF LadderInv
<1>13. ChainInv'
  <2>1. ASSUME NEW i \in Nat, Published(i) \/ i = c
        PROVE  /\ buckets'[i].chain \subseteq 1 .. Len(nodes')
               /\ \A m \in buckets'[i].chain : Home(nodes'[m].key, i)
               /\ \A l, m \in buckets'[i].chain :
                    nodes'[l].key = nodes'[m].key /\ nodes'[l].link # "marked" /\ nodes'[m].link # "marked"
                      => l = m
    <3>1. CASE Published(i)
      <4>1. buckets'[i].chain = buckets[i].chain /\ buckets[i].chain \subseteq 1 .. N
        BY <1>8, <3>1
      <4>2. \A m \in buckets[i].chain : nodes'[m] = nodes[m]
        BY <1>3, <4>1
      <4>3. 1 .. N \subseteq 1 .. Len(nodes')
        BY <1>3
      <4>4. /\ \A m \in buckets[i].chain : Home(nodes[m].key, i)
            /\ \A l, m \in buckets[i].chain :
                 nodes[l].key = nodes[m].key /\ nodes[l].link # "marked" /\ nodes[m].link # "marked" => l = m
        BY <1>1, <3>1 DEF ChainInv
      <4>5. buckets'[i].chain \subseteq 1 .. Len(nodes')
        BY <4>1, <4>3
      <4>6. \A m \in buckets'[i].chain : Home(nodes'[m].key, i)
        BY <4>1, <4>2, <4>4
      <4>7. ASSUME NEW l \in buckets'[i].chain, NEW m \in buckets'[i].chain,
                   nodes'[l].key = nodes'[m].key, nodes'[l].link # "marked", nodes'[m].link # "marked"
            PROVE  l = m
        <5>1. /\ l \in buckets[i].chain /\ m \in buckets[i].chain
              /\ nodes'[l] = nodes[l] /\ nodes'[m] = nodes[m]
          BY <4>1, <4>2
        <5>2. QED BY <4>4, <4>7, <5>1
      <4>8. QED BY <4>5, <4>6, <4>7
    <3>2. CASE i = c
      <4>1. buckets'[c].chain \subseteq 1 .. Len(nodes')
        BY <1>3, <1>4
      <4>2. \A m \in buckets'[c].chain : Home(nodes'[m].key, c)
        BY <1>9, <1>10
      <4>3. ASSUME NEW l \in buckets'[c].chain, NEW m \in buckets'[c].chain, nodes'[l].key = nodes'[m].key
            PROVE  l = m
        <5>1. PICK q \in 1 .. K : l = N + q /\ nodes'[l].key = ks[q]
          BY <1>9
        <5>2. PICK r \in 1 .. K : m = N + r /\ nodes'[m].key = ks[r]
          BY <1>9
        <5>3. q = r
          BY <1>copies, <4>3, <5>1, <5>2 DEF K
        <5>4. QED BY <5>1, <5>2, <5>3
      <4>4. QED BY <3>2, <4>1, <4>2, <4>3
    <3>3. QED BY <2>1, <3>1, <3>2
  <2>2. QED BY <1>6, <2>1 DEF ChainInv, Home, BucketAt, FirstSize, SizeOf, BitFloor
<1>14. AuthorityInv'
  <2>1. ASSUME NEW a \in Nat, NEW b \in Nat, Published(a) \/ a = c, Published(b) \/ b = c, a < b,
               NEW m \in buckets'[a].chain, Home(nodes'[m].key, b)
        PROVE  IF allow_delete THEN nodes'[m].link # "live"
               ELSE \E l \in buckets'[b].chain : nodes'[l].key = nodes'[m].key
    <3>1. CASE Published(a) /\ Published(b)
      <4>1. /\ buckets'[a].chain = buckets[a].chain /\ buckets[a].chain \subseteq 1 .. N
            /\ buckets'[b].chain = buckets[b].chain /\ buckets[b].chain \subseteq 1 .. N
        BY <1>8, <3>1
      <4>2. m \in buckets[a].chain /\ nodes'[m] = nodes[m]
        BY <1>3, <2>1, <4>1
      <4>3. IF allow_delete THEN nodes[m].link # "live"
            ELSE \E l \in buckets[b].chain : nodes[l].key = nodes[m].key
        BY <1>1, <2>1, <3>1, <4>2 DEF AuthorityInv
      <4>4. QED BY <1>3, <4>1, <4>2, <4>3
    <3>2. CASE a = c
      <4>1. PICK q \in 1 .. K : nodes'[m].key = ks[q]
        BY <1>9, <2>1, <3>2
      <4>2. Published(b)
        BY <2>1, <3>2
      <4>3. b <= Parent(c)
        BY <1>1, <1>7, <1>10, <2>1, <4>1, <4>2, NothingAboveParent
      <4>4. QED BY <1>2, <2>1, <3>2, <4>3
    <3>3. CASE Published(a) /\ b = c
      <4> DEFINE k == nodes[m].key
      <4>1. /\ m \in buckets[a].chain /\ m \in 1 .. N /\ nodes'[m] = nodes[m]
        <5>1. buckets'[a].chain = buckets[a].chain /\ buckets[a].chain \subseteq 1 .. N
          BY <1>8, <3>3
        <5>2. QED BY <1>3, <2>1, <5>1
      <4>2. k \in Keys /\ BucketAt(k, SizeOf(c)) = c /\ Home(k, a)
        <5>1. k \in Keys
          BY <1>1, <4>1, NodeFacts DEF TableTypes, N
        <5>2. Home(k, a)
          BY <1>1, <3>3, <4>1 DEF ChainInv
        <5>3. QED BY <1>2, <2>1, <3>3, <4>1, <5>1, <5>2 DEF Home
      <4> HIDE DEF k
      <4>3. a <= p
        BY <1>1, <1>7, <3>3, <4>2, NothingAboveParent
      <4>4. ASSUME NEW l \in buckets[p].chain, nodes[l].key = k, nodes[l].link # "marked"
            PROVE  Final(l) /\ \E x \in buckets'[c].chain : nodes'[x].key = k
        <5>1. l \in MovingTo(buckets[p].chain, c)
          BY <4>2, <4>4 DEF MovingTo
        <5>2. Final(l)
          BY <1>copies, <4>4, <5>1
        <5>3. PICK q \in 1 .. K : ks[q] = k
          BY <1>copies, <4>4, <5>1 DEF K
        <5> DEFINE x == N + q
        <5>4. nodes'[x].key = ks[q]
          BY <1>3
        <5>5. x \in buckets'[c].chain
          BY <1>3, <1>4
        <5> HIDE DEF x
        <5>6. nodes'[x].key = k
          BY <5>3, <5>4
        <5>7. QED BY <5>2, <5>5, <5>6
      <4>5. ~allow_delete => \A l \in 1 .. N : nodes[l].link = "live"
        BY <1>1 DEF AuthorityInv, N
      <4>6. CASE a = p
        <5>1. CASE nodes[m].link = "marked"
          BY <3>3, <4>1, <4>5, <5>1
        <5>2. CASE nodes[m].link # "marked"
          <6>1. Final(m) /\ \E x \in buckets'[c].chain : nodes'[x].key = k
            BY <4>1, <4>4, <4>6, <5>2 DEF k
          <6>2. QED BY <3>3, <4>1, <6>1 DEF Final, k
        <5>3. QED BY <5>1, <5>2
      <4>7. CASE a < p
        <5>1. Home(k, p) /\ p < MaxSize
          <6>1. Hash[k] \in Nat /\ Hash[k] % SizeOf(c) = c /\ MaxSize \in Nat
            BY <1>1, <4>2, HashSetAssumption, TableSize DEF BucketAt
          <6>2. Hash[k] % FirstSize(Parent(c)) = Parent(c)
            BY <1>2, <6>1, ParentIsBelow
          <6>3. QED BY <1>2, <6>1, <6>2 DEF Home, BucketAt
        <5>2. IF allow_delete THEN nodes[m].link # "live"
              ELSE \E l \in buckets[p].chain : nodes[l].key = k
          <6>1. a \in Nat /\ p \in Nat /\ Published(a) /\ Published(p) /\ m \in buckets[a].chain
            BY <1>2, <2>1, <3>3, <4>1
          <6>2. Home(nodes[m].key, p)
            BY <5>1 DEF k
          <6>3. IF allow_delete THEN nodes[m].link # "live"
                ELSE \E l \in buckets[p].chain : nodes[l].key = nodes[m].key
            BY <1>1, <4>7, <6>1, <6>2 DEF AuthorityInv
          <6>4. QED BY <6>3 DEF k
        <5>3. CASE allow_delete
          BY <4>1, <5>2, <5>3
        <5>4. CASE ~allow_delete
          <6>1. PICK l \in buckets[p].chain : nodes[l].key = k
            BY <5>2, <5>4
          <6>2. l \in 1 .. N
            BY <1>8
          <6>3. nodes[l].link # "marked"
            BY <4>5, <5>4, <6>2
          <6>4. \E x \in buckets'[c].chain : nodes'[x].key = k
            BY <4>4, <6>1, <6>3
          <6>5. QED BY <3>3, <4>1, <5>4, <6>4 DEF k
        <5>5. QED BY <5>3, <5>4
      <4>8. a = p \/ a < p
        BY <1>2, <2>1, <4>3
      <4>9. QED BY <4>6, <4>7, <4>8
    <3>4. QED BY <2>1, <3>1, <3>2, <3>3
  <2>2. ~allow_delete => \A m \in 1 .. Len(nodes') : nodes'[m].link = "live"
    <3>1. ASSUME ~allow_delete, NEW m \in 1 .. N + K PROVE nodes'[m].link = "live"
      <4>1. CASE m \in 1 .. N
        BY <1>1, <1>3, <3>1, <4>1 DEF AuthorityInv, N
      <4>2. CASE m \notin 1 .. N
        <5>1. m \in N + 1 .. N + K
          BY <1>3, <4>2
        <5>2. QED BY <1>4, <1>9, <5>1
      <4>3. QED BY <4>1, <4>2
    <3>2. QED BY <1>3, <3>1
  <2>3. ASSUME NEW a \in Nat, NEW b \in Nat, Published(a)', Published(b)', a < b,
               NEW m \in buckets'[a].chain, Home(nodes[m].key, b)'
        PROVE  IF allow_delete THEN nodes'[m].link # "live"
               ELSE \E l \in buckets'[b].chain : nodes'[l].key = nodes'[m].key
    <3>1. Home(nodes'[m].key, b)
      BY <2>3 DEF Home, BucketAt, FirstSize, SizeOf, BitFloor
    <3>2. QED BY <1>6, <2>1, <2>3, <3>1
  <2>4. QED BY <2>2, <2>3 DEF AuthorityInv
<1>15. NodesKeep
  BY <1>3 DEF NodesKeep, N
<1>16. BucketsKeep
  <2> SUFFICES ASSUME NEW i \in Nat, Published(i)
               PROVE  PublishedAfter(i) /\ buckets[i].chain \subseteq buckets'[i].chain
                      /\ buckets[i].level <= buckets'[i].level
    BY DEF BucketsKeep
  <2>1. buckets[i].level \in Nat
    BY <1>1, PublishedFacts
  <2>2. buckets'[i].chain = buckets[i].chain /\ buckets'[i].level = buckets[i].level /\ PublishedAfter(i)
    BY <1>5, <1>8
  <2>3. buckets[i].level <= buckets[i].level
    BY <2>1
  <2>4. QED BY <2>2, <2>3
<1>17. SealsHold
  <2>1. \A d \in InitialSize .. table_size - 1 : Published(Parent(d)) =>
          buckets'[Parent(d)] = buckets[Parent(d)]
    BY <1>8
  <2>2. QED BY <2>1 DEF SealsHold
<1>18. QED BY <1>11, <1>12, <1>13, <1>14, <1>15, <1>16, <1>17 DEF TableInv, Keeps

-----------------------------------------------------------------------------
(* Every step preserves the invariant                                       *)

(* What has to be shown of a step of thread t                               *)
LockPasses(t) ==
  \A u \in Threads \ {t} :
    /\ resize_lock' = u <=> resize_lock = u
    /\ pc[u] = "store" => UNCHANGED table_size

Preserved(t) == TableInv' /\ Keeps /\ CallInv(t)' /\ SplitInv(t)' /\ LockPasses(t)

(* A call that ends knows nothing.                                          *)
LEMMA ReturnKnows ==
  ASSUME Inv, Types', NEW t \in Threads, Return(t), pc[t] \notin Splitting, resize_lock' # t
  PROVE  CallInv(t)' /\ SplitInv(t)'
<1>1. /\ pc'[t] = "idle" /\ op'[t] = "contains" /\ splits'[t] = splits[t] /\ copies'[t] = copies[t]
  BY DEF Return, Goto, splitting, Inv, Types, LocalTypes
<1>2. splits[t] = <<>> /\ copies[t] = <<>>
  BY DEF Inv, SplitInv, Splitting
<1>3. CallInv(t)'
  BY <1>1 DEF CallInv
<1>4. SplitInv(t)'
  BY <1>1, <1>2 DEF SplitInv, Splitting
<1>5. QED BY <1>3, <1>4

(* Steps with the lock word unchanged                                       *)
LEMMA LockUnchanged ==
  ASSUME NEW t \in Threads, UNCHANGED <<resize_lock, table_size>>
  PROVE  LockPasses(t)
  BY DEF LockPasses

(* A thread on its way to the head of a bucket or to a parent's head knows  *)
(* its size.                                                                *)
LEMMA GoingKnows ==
  ASSUME Types', NEW t \in Threads, pc'[t] \in {"size", "head", "lock", "parent"},
         resize_lock' # t, op'[t] = "erase" => allow_delete',
         ts'[t] \in Sizes, ts'[t] <= table_size'
  PROVE  CallInv(t)'
  BY DEF CallInv

(* A call starts, or starts over, with the size that it reads.              *)
LEMMA CallStep ==
  ASSUME Inv, Types', NEW t \in Threads, Call(t) \/ LoadSize(t)
  PROVE  Preserved(t)
<1>1. /\ UNCHANGED <<table, resize_lock, splits, copies>> /\ UNCHANGED <<allow_delete, table_size>>
      /\ pc[t] \in {"idle", "size"}
  BY DEF Call, LoadSize, splitting, table
<1>2. Types /\ TableInv /\ CallInv(t) /\ SplitInv(t) /\ pc \in [Threads -> PCs]
      /\ op \in [Threads -> {"insert", "erase", "contains"}] /\ ts \in [Threads -> Nat]
  BY DEF Inv, Types, LocalTypes
<1>3. pc'[t] = "head" /\ ts'[t] = table_size
  BY <1>2 DEF Call, LoadSize, Goto
<1>4. op'[t] = "erase" => allow_delete
  BY <1>2 DEF Call, LoadSize, CallInv
<1>5. resize_lock' # t
  BY <1>1, <1>2 DEF CallInv
<1>6. TableInv' /\ Keeps /\ LockPasses(t)
  BY <1>1, <1>2, TableUnchanged, LockUnchanged
<1>7. table_size \in Sizes /\ table_size <= table_size
  BY <1>2, TableSize DEF Types
<1>8. CallInv(t)'
  BY <1>1, <1>3, <1>4, <1>5, <1>7, GoingKnows
<1>9. SplitInv(t)'
  BY <1>1, <1>2, <1>3 DEF SplitInv, Splitting
<1>10. QED BY <1>6, <1>8, <1>9 DEF Preserved

(* The head of the bucket: absent, sealed beyond the size of an insert, or  *)
(* with the nodes to look at.                                               *)
LEMMA LoadHeadStep ==
  ASSUME Inv, Types', NEW t \in Threads, LoadHead(t)
  PROVE  Preserved(t)
<1> DEFINE j == Bucket(t)
           h == buckets[j]
<1>1. /\ UNCHANGED <<table, resize_lock, op, key, stale, copies>> /\ pc[t] = "head"
      /\ UNCHANGED <<allow_delete, table_size, buckets, nodes>>
  BY DEF LoadHead, table
<1>2. /\ Types /\ TableInv /\ CallInv(t) /\ SplitInv(t) /\ pc \in [Threads -> PCs]
      /\ op \in [Threads -> {"insert", "erase", "contains"}] /\ ts \in [Threads -> Nat]
      /\ rest \in [Threads -> SUBSET (1 .. Len(nodes))] /\ head \in [Threads -> Heads]
      /\ key \in [Threads -> Keys] /\ splits \in [Threads -> Seq(InitialSize .. table_size - 1)]
  BY DEF Inv, Types, LocalTypes
<1>3. TableInv' /\ Keeps /\ LockPasses(t)
  BY <1>1, <1>2, TableUnchanged, LockUnchanged
<1>4. resize_lock' # t /\ ts[t] \in Sizes /\ ts[t] <= table_size /\ (op[t] = "erase" => allow_delete)
  BY <1>1, <1>2 DEF CallInv
<1>5. splits[t] = <<>> /\ copies'[t] = <<>>
  BY <1>1, <1>2 DEF SplitInv, Splitting
<1>6. j \in DOMAIN buckets
  BY <1>2, <1>4, BucketFacts DEF Bucket, Types
<1>7. CASE h = Uninitialized
  <2>1. pc'[t] = "parent" /\ splits'[t] = <<j>> /\ ts'[t] = ts[t] /\ op'[t] = op[t]
    BY <1>1, <1>2, <1>7 DEF LoadHead, Goto, TooHigh
  <2>2. CallInv(t)'
    BY <1>1, <1>4, <2>1, GoingKnows
  <2>3. splits'[t] # <<>>
    BY <2>1
  <2>4. SplitInv(t)'
    BY <1>5, <2>1, <2>3 DEF SplitInv, Splitting
  <2>5. QED BY <1>3, <2>2, <2>4 DEF Preserved
<1>8. CASE h # Uninitialized /\ TooHigh(t, h)
  <2>1. pc'[t] = "size" /\ splits'[t] = splits[t] /\ ts'[t] = ts[t] /\ op'[t] = op[t]
    BY <1>1, <1>2, <1>8 DEF LoadHead, Goto
  <2>2. CallInv(t)'
    BY <1>1, <1>4, <2>1, GoingKnows
  <2>3. SplitInv(t)'
    BY <1>5, <2>1 DEF SplitInv, Splitting
  <2>4. QED BY <1>3, <2>2, <2>3 DEF Preserved
<1>9. CASE h # Uninitialized /\ ~TooHigh(t, h)
  <2> DEFINE ns == WithKey(h.chain, key[t])
  <2>1. /\ head' = [head EXCEPT ![t] = IF op[t] = "insert" THEN h ELSE @]
        /\ WalkOn(t, ns) /\ UNCHANGED <<ts, splits>>
    BY <1>9 DEF LoadHead
  <2>2. /\ rest'[t] = ns /\ splits'[t] = <<>> /\ ts'[t] = ts[t] /\ op'[t] = op[t] /\ key'[t] = key[t]
        /\ pc'[t] = IF ns # {} THEN "walk" ELSE IF op[t] = "insert" THEN "publish" ELSE "recheck"
        /\ op[t] = "insert" => head'[t] = h
    BY <1>1, <1>2, <1>5, <2>1 DEF WalkOn, Goto
  <2>3. Published(j) /\ h.chain \subseteq 1 .. Len(nodes)
    BY <1>2, <1>6, <1>9, ChainIsNodes DEF Published, Types, TableInv
  <2>4. Bucket(t)' = j
    BY <2>2 DEF Bucket, BucketAt
  <2>5. Published(Bucket(t))' /\ rest'[t] \subseteq NodesOf(key[t], Bucket(t))'
    <3>1. NodesOf(key[t], Bucket(t))' = ns
      BY <1>1, <2>2, <2>4 DEF NodesOf, WithKey
    <3>2. Published(Bucket(t))'
      BY <1>1, <2>3, <2>4 DEF Published
    <3>3. QED BY <2>2, <3>1, <3>2
  <2>6. WithKey(head[t].chain, key[t])' = {n \in head'[t].chain : nodes[n].key = key[t]}
    BY <1>1, <2>2 DEF WithKey
  <2>7. op[t] = "insert" => /\ head'[t].level <= ts[t] /\ head'[t] # Uninitialized
                            /\ head'[t].chain \subseteq 1 .. Len(nodes)
                            /\ \A n \in WithKey(head[t].chain, key[t])' : n \in rest'[t]
    <3> SUFFICES ASSUME op[t] = "insert"
                 PROVE  /\ head'[t].level <= ts[t] /\ head'[t] # Uninitialized
                        /\ head'[t].chain \subseteq 1 .. Len(nodes)
                        /\ \A n \in WithKey(head[t].chain, key[t])' : n \in rest'[t]
      OBVIOUS
    <3>1. head'[t] = h /\ ~(h.level > ts[t])
      BY <1>9, <2>2 DEF TooHigh
    <3>2. h.level \in Nat /\ ts[t] \in Nat
      BY <1>2, <1>6, TableSize DEF Types
    <3>3. h.level <= ts[t]
      BY <3>1, <3>2
    <3>4. WithKey(head[t].chain, key[t])' = ns
      BY <2>6, <3>1 DEF WithKey
    <3>5. QED BY <1>9, <2>2, <2>3, <3>1, <3>3, <3>4
  <2> HIDE DEF ns, h, j
  <2>8. CallInv(t)'
    <3>1. pc'[t] \in {"walk", "publish", "recheck"}
          /\ (pc'[t] = "publish" => op'[t] = "insert" /\ rest'[t] = {})
          /\ (pc'[t] = "recheck" => op'[t] # "insert" /\ rest'[t] = {})
      BY <2>2
    <3>2. QED BY <1>1, <1>4, <2>2, <2>5, <2>7, <3>1 DEF CallInv
  <2>9. SplitInv(t)'
    <3>1. pc'[t] \in {"walk", "publish", "recheck"}
      BY <2>2
    <3>2. QED BY <1>5, <2>2, <3>1 DEF SplitInv, Splitting
  <2>10. QED BY <1>3, <2>8, <2>9 DEF Preserved
<1>10. QED BY <1>7, <1>8, <1>9

(* A tombstone is passed. A node that is there ends the call, or is the one *)
(* to erase.                                                                *)
LEMMA WalkStep ==
  ASSUME Inv, Types', NEW t \in Threads, Walk(t)
  PROVE  Preserved(t)
<1>1. /\ UNCHANGED <<table, resize_lock>> /\ pc[t] = "walk"
      /\ UNCHANGED <<allow_delete, table_size, buckets, nodes>>
  BY DEF Walk, table
<1>2. /\ Types /\ TableInv /\ CallInv(t) /\ SplitInv(t) /\ pc \in [Threads -> PCs]
      /\ rest \in [Threads -> SUBSET (1 .. Len(nodes))] /\ stale \in [Threads -> BOOLEAN]
  BY DEF Inv, Types, LocalTypes
<1>3. TableInv' /\ Keeps /\ LockPasses(t)
  BY <1>1, <1>2, TableUnchanged, LockUnchanged
<1>4. resize_lock' # t
  BY <1>1, <1>2 DEF CallInv
<1>5. CASE Return(t)
  <2>1. pc[t] \notin Splitting
    BY <1>1 DEF Splitting
  <2>2. QED BY <1>3, <1>4, <1>5, <2>1, ReturnKnows DEF Preserved
<1>6. CASE ~Return(t)
  <2>1. PICK n \in rest[t] : WalkAt(t, n)
    BY DEF Walk
  <2>2. /\ UNCHANGED <<op, key, ts, head, splits, copies>>
        /\ \/ /\ nodes[n].link = "marked" /\ WalkOn(t, rest[t] \ {n}) /\ UNCHANGED stale
           \/ /\ nodes[n].link # "marked" /\ op[t] = "erase"
              /\ rest' = [rest EXCEPT ![t] = {n}]
              /\ stale' = [stale EXCEPT ![t] = nodes[n].link = "frozen"]
              /\ Goto(t, IF nodes[n].link = "frozen" THEN "recheck" ELSE "mark")
    BY <1>6, <2>1 DEF WalkAt, splitting
  <2>3. /\ Published(Bucket(t)) /\ rest[t] \subseteq NodesOf(key[t], Bucket(t))
        /\ op[t] = "insert" =>
             /\ head[t].level <= ts[t] /\ head[t] # Uninitialized /\ head[t].chain \subseteq 1 .. Len(nodes)
             /\ \A m \in WithKey(head[t].chain, key[t]) : m \in rest[t] \/ nodes[m].link = "marked"
        /\ op[t] = "erase" => allow_delete
        /\ ts[t] \in Sizes /\ ts[t] <= table_size
    BY <1>1, <1>2 DEF CallInv
  <2>4. Published(Bucket(t))' /\ NodesOf(key[t], Bucket(t))' = NodesOf(key[t], Bucket(t))
        /\ WithKey(head[t].chain, key[t])' = WithKey(head[t].chain, key[t])
    BY <1>1, <2>2, <2>3 DEF Published, Bucket, BucketAt, NodesOf, WithKey
  <2>5. SplitInv(t)'
    <3>1. pc'[t] \in {"walk", "publish", "recheck", "mark"}
      BY <1>2, <2>2 DEF WalkOn, Goto
    <3>2. QED BY <1>1, <1>2, <2>2, <3>1 DEF SplitInv, Splitting
  <2>6. CASE nodes[n].link = "marked" /\ WalkOn(t, rest[t] \ {n}) /\ UNCHANGED stale
    <3>1. /\ rest'[t] = rest[t] \ {n} /\ pc'[t] \in {"walk", "publish", "recheck"}
          /\ pc'[t] = "publish" => op[t] = "insert" /\ rest'[t] = {}
          /\ pc'[t] = "recheck" => op[t] # "insert" /\ rest'[t] = {}
      BY <1>2, <2>6 DEF WalkOn, Goto
    <3>2. CallInv(t)'
      BY <1>1, <1>4, <2>2, <2>3, <2>4, <2>6, <3>1 DEF CallInv
    <3>3. QED BY <1>3, <2>5, <3>2 DEF Preserved
  <2>7. CASE /\ nodes[n].link # "marked" /\ op[t] = "erase"
             /\ rest' = [rest EXCEPT ![t] = {n}]
             /\ stale' = [stale EXCEPT ![t] = nodes[n].link = "frozen"]
             /\ Goto(t, IF nodes[n].link = "frozen" THEN "recheck" ELSE "mark")
    <3>1. /\ rest'[t] = {n} /\ pc'[t] \in {"recheck", "mark"}
          /\ pc'[t] = "recheck" => nodes[n].link = "frozen"
      BY <1>2, <2>7 DEF Goto
    <3>2. stale'[t] <=> nodes[n].link = "frozen"
      BY <1>2, <2>7
    <3>3. CallInv(t)'
      BY <1>1, <1>4, <2>1, <2>2, <2>3, <2>4, <2>7, <3>1, <3>2 DEF CallInv
    <3>4. QED BY <1>3, <2>5, <3>3 DEF Preserved
  <2>8. QED BY <2>2, <2>6, <2>7
<1>7. QED BY <1>5, <1>6

(* A miss that counts ends the call; any other goes on with the size read.  *)
LEMMA RecheckStep ==
  ASSUME Inv, Types', NEW t \in Threads, Recheck(t)
  PROVE  Preserved(t)
<1>1. /\ UNCHANGED <<table, resize_lock>> /\ pc[t] = "recheck"
      /\ UNCHANGED <<allow_delete, table_size, buckets, nodes>>
  BY DEF Recheck, table
<1>2. /\ Types /\ TableInv /\ CallInv(t) /\ SplitInv(t) /\ pc \in [Threads -> PCs]
      /\ ts \in [Threads -> Nat]
  BY DEF Inv, Types, LocalTypes
<1>3. TableInv' /\ Keeps /\ LockPasses(t)
  BY <1>1, <1>2, TableUnchanged, LockUnchanged
<1>4. resize_lock' # t
  BY <1>1, <1>2 DEF CallInv
<1>5. CASE Return(t)
  <2>1. pc[t] \notin Splitting
    BY <1>1 DEF Splitting
  <2>2. QED BY <1>3, <1>4, <1>5, <2>1, ReturnKnows DEF Preserved
<1>6. CASE ~Return(t)
  <2>1. pc' = [pc EXCEPT ![t] = "head"] /\ ts' = [ts EXCEPT ![t] = table_size]
        /\ UNCHANGED <<op, splits, copies>>
    BY <1>6 DEF Recheck, Goto, splitting
  <2>2. pc'[t] = "head" /\ ts'[t] = table_size /\ op'[t] = op[t]
    BY <1>2, <2>1
  <2>3. table_size \in Sizes /\ table_size <= table_size
    BY <1>2, TableSize DEF Types
  <2>4. CallInv(t)'
    BY <1>1, <1>2, <1>4, <2>2, <2>3, GoingKnows DEF CallInv
  <2>5. SplitInv(t)'
    BY <1>1, <1>2, <2>1, <2>2 DEF SplitInv, Splitting
  <2>6. QED BY <1>3, <2>4, <2>5 DEF Preserved
<1>7. QED BY <1>5, <1>6

(* A thread that is in no split before or after the step knows of none.     *)
LEMMA NoSplit ==
  ASSUME Inv, NEW t \in Threads, pc[t] \notin Splitting, pc'[t] \notin Splitting, UNCHANGED <<splits, copies>>
  PROVE  SplitInv(t)'
<1>1. splits'[t] = <<>> /\ copies'[t] = <<>>
  BY DEF Inv, SplitInv, Splitting
<1>2. QED BY <1>1 DEF SplitInv, Splitting

(* erase() marks a live node of its key, where erases are allowed; or it    *)
(* finds it marked or frozen.                                               *)
LEMMA MarkStep ==
  ASSUME Inv, Types', Room, NEW t \in Threads, Mark(t)
  PROVE  Preserved(t)
<1>1. /\ UNCHANGED <<allow_delete, table_size, buckets, resize_lock>> /\ pc[t] = "mark"
      /\ pc[t] \notin Splitting
  BY DEF Mark, Splitting
<1>2. /\ Types /\ TableInv /\ CallInv(t) /\ SplitInv(t) /\ pc \in [Threads -> PCs]
      /\ rest \in [Threads -> SUBSET (1 .. Len(nodes))] /\ stale \in [Threads -> BOOLEAN]
      /\ nodes \in Seq(Node)
  BY DEF Inv, Types, TableTypes, LocalTypes
<1>3. /\ resize_lock' # t /\ op[t] = "erase" /\ allow_delete /\ ts[t] \in Sizes /\ ts[t] <= table_size
      /\ \E n \in rest[t] : rest[t] = {n}
  BY <1>1, <1>2 DEF CallInv
<1>4. PICK n \in rest[t] :
       \/ /\ nodes[n].link = "live"
          /\ nodes' = [nodes EXCEPT ![n].link = "marked"]
          /\ Return(t)
       \/ /\ nodes[n].link # "live"
          /\ stale' = [stale EXCEPT ![t] = nodes[n].link = "frozen"]
          /\ Goto(t, "recheck")
          /\ UNCHANGED <<nodes, op, key, ts, head, rest, splitting>>
  BY DEF Mark
<1>5. n \in 1 .. Len(nodes) /\ nodes[n].link \in {"live", "marked", "frozen"}
  BY <1>2, <1>4, NodeFacts
<1>6. LockPasses(t)
  BY <1>1, LockUnchanged
<1>7. CASE nodes[n].link = "live" /\ nodes' = [nodes EXCEPT ![n].link = "marked"] /\ Return(t)
  <2>1. /\ Len(nodes') = Len(nodes)
        /\ \A m \in 1 .. Len(nodes) : nodes'[m].key = nodes[m].key
        /\ \A m \in 1 .. Len(nodes) : m # n => nodes'[m] = nodes[m]
    BY <1>2, <1>5, <1>7, LinkChanged
  <2>2. NodesKeep
    BY <1>3, <1>7, <2>1 DEF NodesKeep
  <2>3. TableInv' /\ Keeps
    BY <1>1, <1>2, <2>1, <2>2, TableOfLinks
  <2>4. QED BY <1>1, <1>3, <1>6, <1>7, <2>3, ReturnKnows DEF Preserved
<1>8. CASE /\ nodes[n].link # "live"
           /\ stale' = [stale EXCEPT ![t] = nodes[n].link = "frozen"]
           /\ Goto(t, "recheck")
           /\ UNCHANGED <<nodes, op, key, ts, head, rest, splitting>>
  <2>1. TableInv' /\ Keeps
    BY <1>1, <1>2, <1>8, TableUnchanged DEF table
  <2>2. pc'[t] = "recheck" /\ (stale'[t] <=> nodes[n].link = "frozen")
    BY <1>2, <1>8 DEF Goto
  <2>3. SplitInv(t)'
    BY <1>1, <1>8, <2>2, NoSplit DEF splitting, Splitting
  <2>4. rest'[t] = {n} /\ op'[t] = "erase" /\ ts'[t] = ts[t] /\ nodes' = nodes
    BY <1>3, <1>4, <1>8
  <2>5. CallInv(t)'
    BY <1>1, <1>3, <1>5, <1>8, <2>2, <2>4 DEF CallInv
  <2>6. QED BY <1>6, <2>1, <2>3, <2>5 DEF Preserved
<1>9. QED BY <1>4, <1>7, <1>8

(* insert() publishes its node if the head is the one it has walked from,   *)
(* with no node of its key that is not marked, and not sealed beyond its    *)
(* size.                                                                    *)
LEMMA PublishStep ==
  ASSUME Inv, Types', Room, NEW t \in Threads, Publish(t)
  PROVE  Preserved(t)
<1> DEFINE j == Bucket(t)
           k == key[t]
<1>1. /\ UNCHANGED <<allow_delete, table_size, resize_lock>> /\ pc[t] = "publish"
      /\ pc[t] \notin Splitting
  BY DEF Publish, Splitting
<1>2. /\ Types /\ TableInv /\ CallInv(t) /\ SplitInv(t) /\ pc \in [Threads -> PCs]
      /\ k \in Keys /\ nodes \in Seq(Node) /\ TableTypes
  BY DEF Inv, Types, TableTypes, LocalTypes
<1>3. /\ resize_lock' # t /\ op[t] = "insert" /\ ts[t] \in Sizes /\ ts[t] <= table_size /\ rest[t] = {}
      /\ head[t].level <= ts[t] /\ head[t] # Uninitialized
      /\ \A n \in WithKey(head[t].chain, k) : nodes[n].link = "marked"
  BY <1>1, <1>2 DEF CallInv
<1>4. j \in DOMAIN buckets /\ j = BucketAt(k, ts[t])
  BY <1>2, <1>3, BucketFacts DEF Bucket
<1>5. LockPasses(t)
  BY <1>1, LockUnchanged
<1>6. TableInv' /\ Keeps
  <2>1. CASE UNCHANGED <<nodes, buckets>>
    BY <1>1, <1>2, <2>1, TableUnchanged DEF table
  <2>2. CASE /\ buckets[j] = head[t]
             /\ nodes' = Append(nodes, [key |-> k, link |-> "live"])
             /\ buckets' = [buckets EXCEPT ![j].chain = @ \cup {Len(nodes) + 1}]
    <3>1. Published(j) /\ buckets[j].level <= ts[t]
          /\ \A n \in WithKey(buckets[j].chain, k) : nodes[n].link = "marked"
      BY <1>3, <1>4, <2>2 DEF Published
    <3> HIDE DEF j, k
    <3>2. QED BY <1>1, <1>2, <1>3, <1>4, <2>2, <3>1, TableOfInsert
  <2>3. QED BY <2>1, <2>2 DEF Publish
<1>7. CASE Return(t)
  BY <1>1, <1>3, <1>5, <1>6, <1>7, ReturnKnows DEF Preserved
<1>8. CASE ~Return(t)
  <2>1. (Goto(t, "lock") \/ Goto(t, "size")) /\ UNCHANGED <<op, ts, splits, copies>>
    BY <1>8 DEF Publish, splitting
  <2>2. pc'[t] \in {"lock", "size"}
    BY <1>2, <2>1 DEF Goto
  <2>3. SplitInv(t)'
    BY <1>1, <2>1, <2>2, NoSplit DEF Splitting
  <2>4. CallInv(t)'
    BY <1>1, <1>3, <2>1, <2>2, GoingKnows
  <2>5. QED BY <1>5, <1>6, <2>3, <2>4 DEF Preserved
<1>9. QED BY <1>7, <1>8

(* The resize                                                               *)
LEMMA LockResizeStep ==
  ASSUME Inv, Types', Room, NEW t \in Threads, LockResize(t)
  PROVE  Preserved(t)
<1>1. /\ UNCHANGED <<allow_delete, table_size, nodes>> /\ pc[t] = "lock" /\ resize_lock = NoThread
      /\ pc[t] \notin Splitting
  BY DEF LockResize, Splitting
<1>2. /\ Types /\ TableInv /\ CallInv(t) /\ SplitInv(t) /\ pc \in [Threads -> PCs] /\ TableTypes
  BY DEF Inv, Types, LocalTypes
<1>3. /\ ts[t] \in Sizes /\ ts[t] <= table_size /\ t # NoThread
      /\ table_size \in Nat /\ DOMAIN buckets = 0 .. table_size - 1
      /\ op[t] = "erase" => allow_delete
  BY <1>1, <1>2, TableSize, HashSetAssumption DEF CallInv, Extent
<1>4. CASE Return(t) /\ UNCHANGED <<buckets, resize_lock>>
  <2>1. TableInv' /\ Keeps
    BY <1>1, <1>2, <1>4, TableUnchanged DEF table
  <2>2. LockPasses(t)
    BY <1>1, <1>4, LockUnchanged
  <2>3. QED BY <1>1, <1>3, <1>4, <2>1, <2>2, ReturnKnows DEF Preserved
<1>5. CASE /\ table_size = ts[t] /\ 2 * table_size <= MaxSize
           /\ resize_lock' = t
           /\ buckets' = [j \in 0 .. 2 * ts[t] - 1 |-> IF j < ts[t] THEN buckets[j] ELSE Uninitialized]
           /\ Goto(t, "store")
           /\ UNCHANGED <<op, key, ts, head, rest, stale, splitting>>
  <2>1. /\ DOMAIN buckets' = 0 .. 2 * table_size - 1
        /\ \A j \in 0 .. table_size - 1 : j \in 0 .. 2 * table_size - 1 /\ buckets'[j] = buckets[j]
        /\ \A j \in DOMAIN buckets' : j \notin 0 .. table_size - 1 => buckets'[j] = Uninitialized
    BY <1>3, <1>5
  <2>2. ASSUME NEW j \in Nat
        PROVE  /\ PublishedAfter(j) <=> Published(j)
               /\ Published(j) => buckets'[j] = buckets[j] /\ buckets[j].level \in Nat
    BY <1>2, <1>3, <2>1, TableSize DEF Published, PublishedAfter
  <2>3. \A j \in Nat : Published(j) =>
          buckets'[j].chain = buckets[j].chain /\ buckets[j].level <= buckets'[j].level
    BY <2>2
  <2>4. TableInv' /\ Keeps
    BY <1>1, <1>2, <2>2, <2>3, TableOfSeals
  <2>5. LockPasses(t)
    <3>1. \A u \in Threads : u # NoThread
      BY HashSetAssumption
    <3>2. QED BY <1>1, <1>5, <3>1 DEF LockPasses
  <2>6. pc'[t] = "store" /\ op'[t] = op[t] /\ ts'[t] = ts[t]
    BY <1>2, <1>5 DEF Goto
  <2>7. SplitInv(t)'
    BY <1>1, <1>5, <2>6, NoSplit DEF splitting, Splitting
  <2>8. CallInv(t)'
    BY <1>1, <1>3, <1>5, <2>6 DEF CallInv
  <2>9. QED BY <2>4, <2>5, <2>7, <2>8 DEF Preserved
<1>6. QED BY <1>4, <1>5 DEF LockResize

(* The new size is stored: the buckets beyond the old one may be split.     *)
LEMMA StoreSizeStep ==
  ASSUME Inv, Types', Room, NEW t \in Threads, StoreSize(t)
  PROVE  Preserved(t)
<1>1. /\ UNCHANGED <<allow_delete, buckets, nodes>> /\ pc[t] = "store" /\ resize_lock' = NoThread
      /\ table_size' = 2 * ts[t] /\ Return(t) /\ pc[t] \notin Splitting
  BY DEF StoreSize, Splitting
<1>2. /\ Types /\ TableInv /\ CallInv(t) /\ SplitInv(t) /\ TableTypes
  BY DEF Inv, Types
<1>3. resize_lock = t /\ \A u \in Threads : u # NoThread
  BY <1>1, <1>2, HashSetAssumption DEF CallInv
<1>4. ASSUME NEW j \in Nat
      PROVE  /\ PublishedAfter(j) <=> Published(j)
             /\ Published(j) => buckets'[j] = buckets[j] /\ buckets[j].level \in Nat
  BY <1>1, <1>2, TableSize DEF Published, PublishedAfter
<1>5. \A j \in Nat : Published(j) =>
        buckets'[j].chain = buckets[j].chain /\ buckets[j].level <= buckets'[j].level
  BY <1>4
<1>6. TableInv' /\ Keeps
  BY <1>1, <1>2, <1>4, <1>5, TableOfSeals
<1>7. LockPasses(t)
  <2>1. \A u \in Threads : pc[u] = "store" <=> resize_lock = u
    BY DEF Inv, CallInv
  <2>2. QED BY <1>1, <1>3, <2>1 DEF LockPasses
<1>8. QED BY <1>1, <1>3, <1>6, <1>7, ReturnKnows DEF Preserved

(* A thread in a split, or on its way back to its bucket                    *)
LEMMA SplittingKnows ==
  ASSUME Inv, Types', Keeps, NEW t \in Threads, pc[t] \in Splitting,
         pc'[t] \in Splitting \cup {"size", "head"}, UNCHANGED <<op, ts, resize_lock>>
  PROVE  CallInv(t)'
<1>1. CallInv(t) /\ Types
  BY DEF Inv
<1>2. /\ resize_lock' # t /\ (op[t] = "erase" => allow_delete) /\ ts[t] \in Sizes /\ ts[t] <= table_size
  BY <1>1 DEF CallInv, Splitting
<1>3. table_size \in Nat /\ table_size' \in Nat /\ ts[t] \in Nat
  BY <1>1, <1>2, TableSize, SizeFacts DEF Types, TableTypes
<1>4. ts[t] <= table_size'
  BY <1>2, <1>3 DEF Keeps, Room
<1>5. QED BY <1>2, <1>4 DEF CallInv, Splitting, Keeps

(* The snapshot: none of the nodes that move has been passed.               *)
LEMMA SnapshotKnows ==
  ASSUME Inv, Types', Keeps, NEW t \in Threads, pc[t] \in {"parent", "seal"},
         UNCHANGED <<nodes, op, ts, splits, copies, resize_lock>>,
         NEW c, c = Child(t), NEW ch,
         PublishedAfter(Parent(c)), buckets'[Parent(c)].level >= SizeOf(c), buckets'[Parent(c)].chain = ch,
         CopyOn(t, MovingTo(ch, c))
  PROVE  CallInv(t)' /\ SplitInv(t)'
<1>1. /\ pc[t] \in Splitting /\ pc \in [Threads -> PCs] /\ rest \in [Threads -> SUBSET (1 .. Len(nodes))]
      /\ SplitInv(t)
  BY DEF Inv, Types, LocalTypes, Splitting
<1>2. /\ rest'[t] = MovingTo(ch, c) /\ pc'[t] \in {"copy", "child"} /\ pc'[t] \in Splitting
      /\ pc'[t] = "child" => rest'[t] = {}
  BY <1>1 DEF CopyOn, Goto, Splitting
<1>3. CallInv(t)'
  BY <1>1, <1>2, SplittingKnows
<1>4. splits[t] # <<>> /\ copies[t] = <<>>
  BY <1>1 DEF SplitInv
<1>5. Child(t)' = c /\ Parent(Child(t))' = Parent(c) /\ SizeOf(Child(t))' = SizeOf(c)
  BY DEF Child, Parent, SizeOf, BitFloor
<1>6. Moving(t)' = rest'[t]
  BY <1>2, <1>5 DEF Moving, MovingTo, BucketAt, SizeOf, BitFloor
<1>7. Published(Parent(Child(t)))' /\ (buckets[Parent(Child(t))].level >= SizeOf(Child(t)))'
  BY <1>5 DEF Published, PublishedAfter
<1>8. copies'[t] = <<>> /\ Len(copies'[t]) = 0
  BY <1>4
<1>9. SplitInv(t)'
  BY <1>2, <1>4, <1>6, <1>7, <1>8 DEF SplitInv
<1>10. QED BY <1>3, <1>9

(* The parent is there: its seal is high enough, or has to be raised.       *)
LEMMA SealOrCopyStep ==
  ASSUME Inv, Types', NEW t \in Threads, pc[t] \in {"parent", "seal"},
         UNCHANGED <<table, resize_lock, op, ts, splits, copies>>,
         Published(Parent(Child(t))), SealOrCopy(t, buckets[Parent(Child(t))])
  PROVE  Preserved(t)
<1> DEFINE c == Child(t)
           p == Parent(c)
<1>1. /\ pc[t] \in Splitting /\ pc \in [Threads -> PCs] /\ head \in [Threads -> Heads]
      /\ SplitInv(t) /\ Types /\ TableInv
  BY DEF Inv, Types, LocalTypes, Splitting
<1>2. TableInv' /\ Keeps
  BY <1>1, TableUnchanged
<1>3. LockPasses(t)
  BY LockUnchanged DEF table
<1>4. Child(t)' = c /\ Parent(Child(t))' = p /\ SizeOf(Child(t))' = SizeOf(c)
  BY DEF Child, Parent, SizeOf, BitFloor
<1>5. CASE buckets[p].level < SizeOf(c) /\ head' = [head EXCEPT ![t] = buckets[p]] /\ Goto(t, "seal")
  <2>1. pc'[t] = "seal" /\ pc'[t] \in Splitting /\ head'[t] = buckets[p]
    BY <1>1, <1>5 DEF Goto, Splitting
  <2>2. CallInv(t)'
    BY <1>1, <1>2, <2>1, SplittingKnows
  <2>3. splits'[t] # <<>> /\ copies'[t] = <<>>
    BY <1>1 DEF SplitInv
  <2>4. Published(Parent(Child(t)))'
    BY <1>4 DEF Published, table
  <2>5. (head[t].level < SizeOf(Child(t)))'
    BY <1>4, <1>5, <2>1
  <2>6. SplitInv(t)'
    BY <2>1, <2>3, <2>4, <2>5 DEF SplitInv
  <2>7. QED BY <1>2, <1>3, <2>2, <2>6 DEF Preserved
<1>6. CASE buckets[p].level >= SizeOf(c) /\ CopyOn(t, MovingTo(buckets[p].chain, c))
  <2>1. PublishedAfter(p) /\ buckets'[p] = buckets[p]
    BY DEF Published, PublishedAfter, table
  <2>2. UNCHANGED nodes
    BY DEF table
  <2>3. CallInv(t)' /\ SplitInv(t)'
    BY <1>2, <1>6, <2>1, <2>2, SnapshotKnows
  <2>4. QED BY <1>2, <1>3, <2>3 DEF Preserved
<1>7. QED BY <1>5, <1>6 DEF SealOrCopy

(* A parent that is not there is split first, and its head read otherwise.  *)
LEMMA LoadParentStep ==
  ASSUME Inv, Types', NEW t \in Threads, LoadParent(t)
  PROVE  Preserved(t)
<1> DEFINE c == Child(t)
           p == Parent(c)
<1>1. /\ UNCHANGED <<table, resize_lock, op, key, ts, stale, copies>> /\ pc[t] = "parent"
      /\ pc[t] \in Splitting
  BY DEF LoadParent, Splitting
<1>2. /\ Types /\ TableInv /\ TableTypes /\ LocalTypes /\ SplitInv(t)
      /\ splits \in [Threads -> Seq(InitialSize .. table_size - 1)]
  BY DEF Inv, Types, LocalTypes
<1>3. c \in InitialSize .. table_size - 1 /\ p \in DOMAIN buckets /\ splits[t] \in Seq(Nat)
  <2>1. c \in InitialSize .. table_size - 1
    BY <1>1, <1>2, SplitFacts
  <2>2. p \in DOMAIN buckets
    BY <1>2, <2>1, ChildFacts
  <2>3. splits[t] \in Seq(InitialSize .. table_size - 1) /\ InitialSize .. table_size - 1 \subseteq Nat
    BY <1>2, TableSize
  <2>4. splits[t] \in Seq(Nat)
    BY <2>3, SeqMonotonic
  <2>5. QED BY <2>1, <2>2, <2>4
<1>4. CASE buckets[p] = Uninitialized
  <2>1. splits' = [splits EXCEPT ![t] = <<p>> \o @] /\ UNCHANGED <<pc, head, rest>>
    BY <1>4 DEF LoadParent, SealOrCopy, CopyOn
  <2>2. TableInv' /\ Keeps
    BY <1>1, <1>2, TableUnchanged
  <2>3. LockPasses(t)
    BY <1>1, LockUnchanged DEF table
  <2>4. CallInv(t)'
    BY <1>1, <2>1, <2>2, SplittingKnows
  <2>5. splits'[t] = <<p>> \o splits[t]
    BY <1>2, <2>1
  <2>6. <<p>> \o splits[t] # <<>>
    BY <1>3
  <2>7. pc'[t] = "parent" /\ copies'[t] = <<>>
    BY <1>1, <1>2, <2>1 DEF SplitInv
  <2>8. SplitInv(t)'
    BY <2>5, <2>6, <2>7 DEF SplitInv, Splitting
  <2>9. QED BY <2>2, <2>3, <2>4, <2>8 DEF Preserved
<1>5. CASE buckets[p] # Uninitialized
  <2>1. SealOrCopy(t, buckets[p]) /\ UNCHANGED splits
    BY <1>5 DEF LoadParent
  <2>2. Published(p)
    BY <1>3, <1>5 DEF Published
  <2>3. QED BY <1>1, <2>1, <2>2, SealOrCopyStep
<1>6. QED BY <1>4, <1>5

(* The CAS on the parent's head                                             *)
LEMMA SealStep ==
  ASSUME Inv, Types', Room, NEW t \in Threads, Seal(t)
  PROVE  Preserved(t)
<1> DEFINE c == Child(t)
           p == Parent(c)
<1>1. /\ UNCHANGED <<allow_delete, table_size, nodes, resize_lock, op, key, ts, stale, splits, copies>>
      /\ pc[t] = "seal" /\ pc[t] \in Splitting
  BY DEF Seal, Splitting, splitting
<1>2. Types /\ TableInv /\ TableTypes /\ LocalTypes /\ SplitInv(t)
  BY DEF Inv, Types
<1>3. /\ c \in InitialSize .. table_size - 1 /\ Published(p) /\ head[t].level < SizeOf(c)
  BY <1>1, <1>2, SplitFacts DEF SplitInv
<1>4. SizeOf(c) \in Nat /\ SizeOf(c) > 0 /\ p \in Nat /\ p \in DOMAIN buckets /\ buckets[p] \in Heads
      /\ buckets[p] = [chain |-> buckets[p].chain, level |-> buckets[p].level]
  BY <1>2, <1>3, ChildFacts, PublishedFacts DEF TableInv
<1>5. CASE buckets[p] # head[t]
  <2>1. SealOrCopy(t, buckets[p]) /\ UNCHANGED buckets
    BY <1>5 DEF Seal
  <2>2. QED BY <1>1, <1>3, <2>1, SealOrCopyStep DEF table
<1>6. CASE buckets[p] = head[t]
  <2>1. /\ buckets' = [buckets EXCEPT ![p].level = SizeOf(c)]
        /\ CopyOn(t, MovingTo(buckets[p].chain, c))
    BY <1>5, <1>6 DEF Seal
  <2>2. /\ buckets'[p].level = SizeOf(c) /\ buckets'[p].chain = buckets[p].chain
        /\ DOMAIN buckets' = DOMAIN buckets
        /\ \A j \in DOMAIN buckets : j # p => buckets'[j] = buckets[j]
    BY <1>4, <2>1
  <2>3. buckets'[p] # Uninitialized
    BY <1>4, <2>2 DEF Uninitialized
  <2>4. ASSUME NEW j \in Nat
        PROVE  /\ PublishedAfter(j) <=> Published(j)
               /\ Published(j) => buckets'[j].chain = buckets[j].chain /\ buckets[j].level <= buckets'[j].level
    <3>1. CASE j = p
      BY <1>3, <1>4, <1>6, <2>2, <2>3, <3>1 DEF PublishedAfter, Heads
    <3>2. CASE j # p
      <4>1. PublishedAfter(j) <=> Published(j)
        BY <2>2, <3>2 DEF Published, PublishedAfter
      <4>2. Published(j) => buckets'[j] = buckets[j] /\ buckets[j].level \in Nat
        BY <1>2, <2>2, <3>2, PublishedFacts DEF Published, TableInv
      <4>3. QED BY <4>1, <4>2
    <3>3. QED BY <3>1, <3>2
  <2>5. TableInv' /\ Keeps
    BY <1>1, <1>2, <2>4, TableOfSeals
  <2>6. LockPasses(t)
    BY <1>1, LockUnchanged
  <2>7. PublishedAfter(p) /\ buckets'[p].level >= SizeOf(c)
    BY <1>4, <2>2, <2>3 DEF PublishedAfter
  <2>8. CallInv(t)' /\ SplitInv(t)'
    BY <1>1, <2>1, <2>2, <2>5, <2>7, SnapshotKnows
  <2>9. QED BY <2>5, <2>6, <2>8 DEF Preserved
<1>7. QED BY <1>5, <1>6

(* A node is copied with its link frozen, and only once.                    *)
LEMMA CopyStep ==
  ASSUME Inv, Types', Room, NEW t \in Threads, Copy(t)
  PROVE  Preserved(t)
<1> DEFINE c == Child(t)
           p == Parent(c)
           link == IF allow_delete THEN "frozen" ELSE "live"
<1>1. /\ UNCHANGED <<allow_delete, table_size, buckets, resize_lock, op, key, ts, head, stale, splits>>
      /\ pc[t] = "copy" /\ pc[t] \in Splitting
  BY DEF Copy, CopyWith, Splitting
<1>2. /\ Types /\ TableInv /\ TableTypes /\ LocalTypes /\ SplitInv(t) /\ nodes \in Seq(Node)
      /\ rest \in [Threads -> SUBSET (1 .. Len(nodes))] /\ pc \in [Threads -> PCs]
      /\ copies \in [Threads -> Seq(Keys)]
  BY DEF Inv, Types, TableTypes, LocalTypes
<1>3. PICK n \in rest[t] : CopyAt(t, n, link)
  BY DEF Copy, CopyWith
<1>4. /\ c \in InitialSize .. table_size - 1 /\ Published(p) /\ splits[t] # <<>> /\ p \in Nat
      /\ buckets[p].level >= SizeOf(c)
      /\ rest[t] \subseteq Moving(t)
      /\ \A m \in Moving(t) \ rest[t] :
           nodes[m].link = "marked" \/ (Final(m) /\ Copied(t, nodes[m].key))
      /\ \A q \in 1 .. Len(copies[t]) :
           \E m \in Moving(t) \ rest[t] : nodes[m].key = copies[t][q] /\ Final(m)
      /\ \A q, r \in 1 .. Len(copies[t]) : copies[t][q] = copies[t][r] => q = r
  BY <1>1, <1>2, SplitFacts, PublishedFacts DEF SplitInv, TableInv
<1>5. n \in 1 .. Len(nodes) /\ nodes[n].link \in {"live", "marked", "frozen"} /\ nodes[n].key \in Keys
  BY <1>2, <1>3, NodeFacts
<1>6. Moving(t) \subseteq buckets[p].chain /\ Moving(t) \subseteq 1 .. Len(nodes)
      /\ \A a, b \in Moving(t) :
           nodes[a].key = nodes[b].key /\ nodes[a].link # "marked" /\ nodes[b].link # "marked" => a = b
  <2>1. Moving(t) \subseteq 1 .. Len(nodes)
    BY <1>2, <1>4, ChainIsNodes DEF Moving, TableInv
  <2>2. Moving(t) \subseteq buckets[p].chain
    BY DEF Moving, MovingTo
  <2> HIDE DEF p
  <2>3. \A a, b \in buckets[p].chain :
          nodes[a].key = nodes[b].key /\ nodes[a].link # "marked" /\ nodes[b].link # "marked" => a = b
    BY <1>2, <1>4 DEF TableInv, ChainInv
  <2>4. QED BY <2>1, <2>2, <2>3
<1>7. /\ rest'[t] = rest[t] \ {n} /\ pc'[t] \in {"copy", "child"} /\ pc'[t] \in Splitting
      /\ pc'[t] = "child" => rest'[t] = {}
  BY <1>2, <1>3 DEF CopyAt, CopyOn, Goto, Splitting
<1>8. \/ nodes[n].link = "marked" /\ nodes' = nodes /\ copies'[t] = copies[t]
      \/ /\ nodes[n].link # "marked" /\ nodes' = [nodes EXCEPT ![n].link = link]
         /\ copies'[t] = Append(copies[t], nodes[n].key)
  BY <1>2, <1>3 DEF CopyAt
<1>9. /\ Len(nodes') = Len(nodes)
      /\ \A m \in 1 .. Len(nodes) : nodes'[m].key = nodes[m].key
      /\ \A m \in 1 .. Len(nodes) : m # n => nodes'[m] = nodes[m]
      /\ IF nodes[n].link = "marked" THEN nodes'[n] = nodes[n] ELSE nodes'[n].link = link
  <2>1. link \in {"live", "marked", "frozen"}
    OBVIOUS
  <2> HIDE DEF link
  <2>2. CASE nodes' = nodes /\ nodes[n].link = "marked"
    BY <2>2
  <2>3. CASE nodes' = [nodes EXCEPT ![n].link = link] /\ nodes[n].link # "marked"
    BY <1>2, <1>5, <2>1, <2>3, LinkChanged
  <2>4. QED BY <1>8, <2>2, <2>3
<1>10. NodesKeep
  <2>1. ~allow_delete => nodes[n].link = "live"
    BY <1>2, <1>5 DEF TableInv, AuthorityInv
  <2>2. QED BY <1>5, <1>9, <2>1 DEF NodesKeep
<1>11. TableInv' /\ Keeps
  BY <1>1, <1>2, <1>9, <1>10, TableOfLinks
<1>12. LockPasses(t)
  BY <1>1, LockUnchanged
<1>13. UNCHANGED <<op, ts, resize_lock>>
  BY <1>1
<1>14. CallInv(t)'
  BY <1>1, <1>7, <1>11, <1>13, SplittingKnows
<1>15. /\ Child(t)' = c /\ Parent(Child(t))' = p /\ SizeOf(Child(t))' = SizeOf(c)
       /\ Published(Parent(Child(t)))' /\ (buckets[Parent(Child(t))].level >= SizeOf(Child(t)))'
  <2>1. Child(t)' = c /\ Parent(Child(t))' = p /\ SizeOf(Child(t))' = SizeOf(c)
    BY <1>1 DEF Child, Parent, SizeOf, BitFloor
  <2>2. QED BY <1>1, <1>4, <2>1 DEF Published
<1>16. Moving(t)' = Moving(t)
  <2>1. MovingAfter(c) = MovingTo(buckets[p].chain, c)
    BY <1>2, <1>4, <1>11, MovingKept
  <2>2. QED BY <1>15, <2>1 DEF Moving, MovingTo, MovingAfter, BucketAt, SizeOf, BitFloor
<1>17. \A m \in Moving(t) : /\ nodes[m].link = "marked" => nodes'[m].link = "marked"
                            /\ Final(m) => Final(m)'
  BY <1>6, <1>10, <1>11 DEF NodesKeep, Final, Keeps
<1>18. nodes[n].link # "marked" => Final(n)'
  BY <1>1, <1>9 DEF Final
<1> DEFINE Passed == Moving(t) \ rest[t]
<1>19. Moving(t) \ rest'[t] = Passed \cup {n} /\ n \in Moving(t) /\ n \notin Passed
  BY <1>3, <1>4, <1>7
<1> HIDE DEF link, c, p
<1>20. /\ \A m \in Passed \cup {n} :
            \/ nodes'[m].link = "marked"
            \/ Final(m)' /\ \E q \in 1 .. Len(copies'[t]) : copies'[t][q] = nodes'[m].key
       /\ \A q \in 1 .. Len(copies'[t]) :
            \E m \in Passed \cup {n} : nodes'[m].key = copies'[t][q] /\ Final(m)'
       /\ \A q, r \in 1 .. Len(copies'[t]) : copies'[t][q] = copies'[t][r] => q = r
  <2>1. CASE nodes[n].link = "marked" /\ copies'[t] = copies[t]
    <3>1. nodes'[n].link = "marked"
      BY <1>17, <1>19, <2>1
    <3>2. \A m \in Passed : m \in Moving(t) /\ nodes'[m].key = nodes[m].key
      BY <1>6, <1>9
    <3>3. /\ \A m \in Passed :
               nodes[m].link = "marked" \/ (Final(m) /\ \E q \in 1 .. Len(copies[t]) : copies[t][q] = nodes[m].key)
          /\ \A q \in 1 .. Len(copies[t]) : \E m \in Passed : nodes[m].key = copies[t][q] /\ Final(m)
          /\ \A q, r \in 1 .. Len(copies[t]) : copies[t][q] = copies[t][r] => q = r
      BY <1>4 DEF Copied
    <3> HIDE DEF Passed
    <3>4. \A m \in Passed :
            nodes'[m].link = "marked" \/ (Final(m)' /\ \E q \in 1 .. Len(copies[t]) : copies[t][q] = nodes'[m].key)
      BY <1>17, <3>2, <3>3
    <3>5. \A q \in 1 .. Len(copies[t]) : \E m \in Passed : nodes'[m].key = copies[t][q] /\ Final(m)'
      BY <1>17, <3>2, <3>3
    <3>6. QED BY <2>1, <3>1, <3>3, <3>4, <3>5
  <2>2. CASE nodes[n].link # "marked" /\ copies'[t] = Append(copies[t], nodes[n].key)
    <3> DEFINE L == Len(copies[t])
               d == copies[t]
               e == copies'[t]
               k == nodes[n].key
    <3>1. /\ L \in Nat /\ Len(e) = L + 1 /\ e[L + 1] = k
          /\ \A q \in 1 .. L : e[q] = d[q]
      <4>1. d \in Seq(Keys) /\ e = Append(d, k)
        BY <1>2, <2>2
      <4> HIDE DEF d, e, k
      <4>2. QED BY <1>5, <4>1, AppendProperties DEF L, d, k
    <3>2. 1 .. Len(e) = (1 .. L) \cup {L + 1} /\ L + 1 \notin 1 .. L
      BY <3>1
    <3>3. \A q \in 1 .. L : d[q] # k
      <4> SUFFICES ASSUME NEW q \in 1 .. L, d[q] = k PROVE FALSE
        OBVIOUS
      <4>1. PICK m \in Passed : nodes[m].key = k /\ Final(m)
        BY <1>4
      <4>2. nodes[m].link # "marked"
        BY <4>1 DEF Final
      <4>3. m = n
        BY <1>6, <1>19, <2>2, <4>1, <4>2
      <4>4. QED BY <1>19, <4>1, <4>3
    <3>4. /\ \A m \in Passed : nodes[m].link = "marked" \/ (Final(m) /\ \E q \in 1 .. L : d[q] = nodes[m].key)
          /\ \A q \in 1 .. L : \E m \in Passed : nodes[m].key = d[q] /\ Final(m)
          /\ \A q, r \in 1 .. L : d[q] = d[r] => q = r
      BY <1>4 DEF Copied
    <3>5. \A m \in Passed \cup {n} : nodes'[m].key = nodes[m].key
      BY <1>6, <1>9, <1>19
    <3>6. Final(n)'
      BY <1>18, <2>2
    <3> HIDE DEF L, d, e, Passed
    <3>7. ASSUME NEW m \in Passed \cup {n}
          PROVE  nodes'[m].link = "marked" \/ (Final(m)' /\ \E q \in 1 .. Len(e) : e[q] = nodes'[m].key)
      <4>1. CASE m = n
        BY <3>1, <3>2, <3>5, <3>6, <4>1
      <4>2. CASE m \in Passed
        <5>1. m \in Moving(t)
          BY <4>2 DEF Passed
        <5>2. nodes'[m].link = "marked" \/ (Final(m)' /\ \E q \in 1 .. L : d[q] = nodes[m].key)
          BY <1>17, <3>4, <4>2, <5>1
        <5>3. QED BY <3>1, <3>2, <3>5, <4>2, <5>2
      <4>3. QED BY <4>1, <4>2
    <3>8. ASSUME NEW q \in 1 .. Len(e)
          PROVE  \E m \in Passed \cup {n} : nodes'[m].key = e[q] /\ Final(m)'
      <4>1. CASE q = L + 1
        BY <3>1, <3>5, <3>6, <4>1
      <4>2. CASE q \in 1 .. L
        <5>1. PICK m \in Passed : nodes[m].key = d[q] /\ Final(m)
          BY <3>4, <4>2
        <5>2. Final(m)'
          BY <1>17, <5>1 DEF Passed
        <5>3. QED BY <3>1, <3>5, <4>2, <5>1, <5>2
      <4>3. QED BY <3>2, <4>1, <4>2
    <3>9. \A q, r \in 1 .. Len(e) : e[q] = e[r] => q = r
      BY <3>1, <3>2, <3>3, <3>4
    <3>10. QED BY <3>7, <3>8, <3>9 DEF e
  <2>3. QED BY <1>8, <2>1, <2>2
<1>21. SplitInv(t)'
  <2>1. splits'[t] # <<>>
    BY <1>1, <1>4
  <2>2. rest'[t] \subseteq Moving(t)'
    BY <1>4, <1>7, <1>16
  <2>3. \A m \in Moving(t)' \ rest'[t] : (nodes[m].link = "marked" \/ (Final(m) /\ Copied(t, nodes[m].key)))'
    BY <1>16, <1>19, <1>20 DEF Copied
  <2>4. \A q \in 1 .. Len(copies'[t]) :
          \E m \in Moving(t)' \ rest'[t] : nodes'[m].key = copies'[t][q] /\ Final(m)'
    BY <1>16, <1>19, <1>20
  <2>5. QED BY <1>7, <1>15, <1>20, <2>1, <2>2, <2>3, <2>4 DEF SplitInv
<1>22. QED BY <1>11, <1>12, <1>14, <1>21 DEF Preserved

(* The chain that a split publishes is that of the copies.                  *)
LEMMA ChildChain ==
  ASSUME Inv, NEW t \in Threads, PublishChild(t), buckets[Child(t)] = Uninitialized
  PROVE  CopiesOf(Child(t), Parent(Child(t)), copies[t]) /\ ChildAdded(Child(t), copies[t])
<1> DEFINE c == Child(t)
           p == Parent(c)
           ks == copies[t]
<1>1. /\ TableTypes /\ SplitInv(t) /\ nodes \in Seq(Node) /\ ks \in Seq(Keys) /\ rest[t] = {}
      /\ c \in InitialSize .. table_size - 1
      /\ \A m \in Moving(t) \ rest[t] :
           nodes[m].link = "marked" \/ (Final(m) /\ Copied(t, nodes[m].key))
      /\ \A q \in 1 .. Len(ks) :
           \E m \in Moving(t) \ rest[t] : nodes[m].key = ks[q] /\ Final(m)
      /\ \A q, r \in 1 .. Len(ks) : ks[q] = ks[r] => q = r
  <2>1. pc[t] = "child" /\ pc[t] \in Splitting
    BY DEF PublishChild, Splitting
  <2>2. Types /\ TableTypes /\ LocalTypes /\ SplitInv(t) /\ nodes \in Seq(Node) /\ ks \in Seq(Keys)
    BY DEF Inv, Types, TableTypes, LocalTypes
  <2>3. QED BY <2>1, <2>2, SplitFacts DEF SplitInv
<1>2. CopiesOf(c, p, ks)
  BY <1>1 DEF CopiesOf, Moving, Copied
<1>3. /\ nodes' = nodes \o [n \in 1 .. Len(ks) |-> [key |-> ks[n], link |-> "live"]]
      /\ buckets' = [buckets EXCEPT ![c].chain = Len(nodes) + 1 .. Len(nodes) + Len(ks)]
  BY DEF PublishChild
<1>4. c \in DOMAIN buckets /\ buckets[c] = [chain |-> buckets[c].chain, level |-> buckets[c].level]
  <2>1. c \in DOMAIN buckets /\ buckets[c] \in Heads
    BY <1>1, ChildFacts DEF TableTypes
  <2>2. QED BY <2>1 DEF Heads
<1>5. /\ DOMAIN buckets' = DOMAIN buckets
      /\ \A i \in DOMAIN buckets : i # c => buckets'[i] = buckets[i]
      /\ buckets'[c].chain = Len(nodes) + 1 .. Len(nodes) + Len(ks)
      /\ buckets'[c].level = buckets[c].level
  BY <1>3, <1>4
<1>6. \A i \in DOMAIN buckets : buckets'[i].level = buckets[i].level
  BY <1>5
<1>7. /\ Len(nodes') = Len(nodes) + Len(ks)
      /\ \A m \in 1 .. Len(nodes) : nodes'[m] = nodes[m]
      /\ \A q \in 1 .. Len(ks) : nodes'[Len(nodes) + q] = [key |-> ks[q], link |-> "live"]
  <2> HIDE DEF ks
  <2>1. QED BY <1>1, <1>3, ChainAppended
<1>8. ASSUME NEW q \in 1 .. Len(ks)
      PROVE  nodes'[Len(nodes) + q].key = ks[q] /\ nodes'[Len(nodes) + q].link = "live"
  <2>1. nodes'[Len(nodes) + q] = [key |-> ks[q], link |-> "live"]
    BY <1>7
  <2>2. QED BY <2>1
<1> HIDE DEF c, p, ks
<1>9. ChildAdded(c, ks)
  BY <1>5, <1>6, <1>7, <1>8 DEF ChildAdded
<1>10. QED BY <1>2, <1>9 DEF c, p, ks

(* The child is published with what moves to it.                            *)
LEMMA PublishChildStep ==
  ASSUME Inv, Types', Room, NEW t \in Threads, PublishChild(t)
  PROVE  Preserved(t)
<1> DEFINE c == Child(t)
           p == Parent(c)
           ks == copies[t]
<1>1. /\ UNCHANGED <<allow_delete, table_size, resize_lock, op, key, ts, head, rest, stale>>
      /\ pc[t] = "child" /\ pc[t] \in Splitting
  BY DEF PublishChild, Splitting
<1>2. /\ Types /\ TableInv /\ TableTypes /\ LocalTypes /\ SplitInv(t)
      /\ pc \in [Threads -> PCs] /\ ks \in Seq(Keys) /\ copies \in [Threads -> Seq(Keys)]
      /\ splits \in [Threads -> Seq(InitialSize .. table_size - 1)]
  BY DEF Inv, Types, LocalTypes
<1>3. /\ c \in InitialSize .. table_size - 1 /\ Published(p) /\ buckets[p].level >= SizeOf(c)
  BY <1>1, <1>2, SplitFacts DEF SplitInv
<1>4. TableInv' /\ Keeps
  <2>1. CASE UNCHANGED <<nodes, buckets>>
    BY <1>1, <1>2, <2>1, TableUnchanged DEF table
  <2>2. CASE buckets[c] = Uninitialized
    <3>1. CopiesOf(c, p, ks) /\ ChildAdded(c, ks)
      BY <2>2, ChildChain
    <3>2. p = Parent(c) /\ UNCHANGED <<allow_delete, table_size>>
      BY <1>1
    <3> HIDE DEF c, p, ks
    <3>3. QED BY <1>2, <1>3, <2>2, <3>1, <3>2, TableOfChild
  <2>3. QED BY <2>1, <2>2 DEF PublishChild
<1>5. LockPasses(t)
  BY <1>1, LockUnchanged
<1>6. /\ copies'[t] = <<>> /\ splits'[t] = Tail(splits[t])
      /\ pc'[t] = IF Len(splits[t]) > 1 THEN "parent"
                  ELSE IF op[t] = "insert" THEN "size" ELSE "head"
  BY <1>2 DEF PublishChild, Goto
<1>7. Tail(splits[t]) # <<>> <=> Len(splits[t]) > 1
  <2>1. splits[t] \in Seq(InitialSize .. table_size - 1) /\ splits[t] # <<>>
    BY <1>1, <1>2 DEF SplitInv
  <2>2. Tail(splits[t]) \in Seq(InitialSize .. table_size - 1) /\ Len(Tail(splits[t])) = Len(splits[t]) - 1
        /\ Len(splits[t]) \in Nat
    BY <2>1, HeadTailProperties, LenProperties
  <2>3. Tail(splits[t]) = <<>> <=> Len(Tail(splits[t])) = 0
    BY <2>2, EmptySeq
  <2>4. Len(splits[t]) > 0
    BY <2>1, <2>2, EmptySeq
  <2> DEFINE a == Len(Tail(splits[t]))
             b == Len(splits[t])
  <2>5. a = b - 1 /\ b \in Nat /\ b > 0
    BY <2>2, <2>4
  <2> HIDE DEF a, b
  <2>6. a # 0 <=> b > 1
    BY <2>5
  <2>7. QED BY <2>3, <2>6 DEF a, b
<1>8. CallInv(t)'
  <2>1. pc'[t] \in Splitting \cup {"size", "head"}
    BY <1>6 DEF Splitting
  <2>2. QED BY <1>1, <1>4, <2>1, SplittingKnows
<1>9. SplitInv(t)'
  <2>1. pc'[t] \in {"parent", "size", "head"} /\ (pc'[t] = "parent" <=> Len(splits[t]) > 1)
    BY <1>6
  <2>2. QED BY <1>6, <1>7, <2>1 DEF SplitInv, Splitting
<1>10. QED BY <1>4, <1>5, <1>8, <1>9 DEF Preserved

(* Each action leaves its thread with what is known where it goes.          *)
LEMMA StepPreserves ==
  ASSUME Inv, NEW t \in Threads, Call(t) \/ Step(t), Watch
  PROVE  Types' /\ Preserved(t)
<1>1. Types' /\ Room
  BY StepTypes DEF Inv
<1>2. QED
  BY <1>1, CallStep, LoadHeadStep, WalkStep, RecheckStep, MarkStep, PublishStep, LockResizeStep,
     StoreSizeStep, LoadParentStep, SealStep, CopyStep, PublishChildStep DEF Step

(* The invariant is inductive, and no step takes back what the table keeps. *)
LEMMA StepInv ==
  ASSUME Inv, [Next]_vars
  PROVE  Inv' /\ Keeps
<1>1. CASE UNCHANGED vars
  <2>1. UNCHANGED <<allow_delete, table_size, buckets, nodes, resize_lock, pc, op, key, ts, head, rest, stale,
                    splits, copies, seen, decision>> /\ UNCHANGED table
    BY <1>1 DEF vars, table, splitting
  <2>2. Types /\ TableInv
    BY DEF Inv
  <2>3. Types'
    BY <2>1, <2>2 DEF Types, TableTypes, LocalTypes, HistoryTypes, Extent, Heads
  <2>4. TableInv' /\ Keeps
    BY <2>1, <2>2, <2>3, TableUnchanged
  <2>5. ASSUME NEW u \in Threads PROVE CallInv(u)' /\ SplitInv(u)'
    <3>1. UNCHANGED Locals(u) /\ CallInv(u) /\ SplitInv(u)
      BY <2>1 DEF Locals, Inv
    <3>2. CallInv(u)'
      BY <2>1, <2>2, <2>3, <2>4, <3>1, CallsKept
    <3>3. SplitInv(u)'
      BY <2>2, <2>3, <2>4, <3>1, SplitsKept
    <3>4. QED BY <3>2, <3>3
  <2>6. QED BY <2>3, <2>4, <2>5 DEF Inv
<1>2. CASE Next
  <2>1. PICK t \in Threads : (Call(t) \/ Step(t)) /\ Watch
    BY <1>2 DEF Next
  <2>2. Types' /\ Preserved(t)
    BY <2>1, StepPreserves
  <2>3. Types /\ TableInv /\ LocalTypes
    BY DEF Inv, Types
  <2>4. ASSUME NEW u \in Threads PROVE CallInv(u)' /\ SplitInv(u)'
    <3>1. CASE u = t
      BY <2>2, <3>1 DEF Preserved
    <3>2. CASE u # t
      <4>1. UNCHANGED Locals(u)
        BY <2>1, <2>3, <3>2, OthersKeepLocals
      <4>2. (resize_lock' = u <=> resize_lock = u) /\ (pc[u] = "store" => UNCHANGED table_size)
        BY <2>2, <3>2 DEF Preserved, LockPasses
      <4>3. Keeps /\ CallInv(u) /\ SplitInv(u)
        BY <2>2 DEF Preserved, Inv
      <4>4. CallInv(u)'
        BY <2>2, <2>3, <4>1, <4>2, <4>3, CallsKept
      <4>5. SplitInv(u)'
        BY <2>2, <2>3, <4>1, <4>3, SplitsKept
      <4>6. QED BY <4>4, <4>5
    <3>3. QED BY <3>1, <3>2
  <2>5. QED BY <2>2, <2>4 DEF Preserved, Inv
<1>3. QED BY <1>1, <1>2

(* The empty set has the invariant.                                         *)
LEMMA InitInv ==
  ASSUME Init
  PROVE  Inv
<1> DEFINE Empty == [chain |-> {}, level |-> 0]
<1>1. /\ table_size = InitialSize /\ InitialSize \in Sizes /\ InitialSize \in Nat
      /\ nodes = <<>> /\ Len(nodes) = 0 /\ resize_lock = NoThread /\ Extent = InitialSize
  <2>1. InitialSize \in PowersOfTwo /\ MaxSize \in PowersOfTwo /\ InitialSize <= MaxSize
    BY HashSetAssumption
  <2>2. InitialSize \in Nat
    BY <2>1, PowerFacts
  <2>3. InitialSize \in Sizes
    BY <2>1, <2>2 DEF Sizes, Powers
  <2>4. QED BY <2>2, <2>3 DEF Init, Extent
<1>2. Empty \in Heads /\ Uninitialized \in Heads /\ Empty # Uninitialized
  BY <1>1 DEF Heads, Uninitialized
<1>3. /\ buckets = [j \in 0 .. InitialSize - 1 |-> Empty]
      /\ \A j : Published(j) <=> j \in 0 .. InitialSize - 1
      /\ \A j \in 0 .. InitialSize - 1 : buckets[j].chain = {}
  BY <1>2 DEF Init, Published
<1>4. TableTypes
  <2>1. <<>> \in Seq(Node)
    OBVIOUS
  <2>2. buckets \in [0 .. InitialSize - 1 -> Heads]
    BY <1>2, <1>3
  <2>3. QED BY <1>1, <2>1, <2>2 DEF TableTypes, Init
<1>5. LocalTypes
  <2>1. AKey \in Keys
    BY HashSetAssumption DEF AKey
  <2>2. <<>> \in Seq(InitialSize .. table_size - 1) /\ <<>> \in Seq(Keys)
    OBVIOUS
  <2>3. /\ pc = [t \in Threads |-> "idle"] /\ op = [t \in Threads |-> "contains"]
        /\ key = [t \in Threads |-> AKey] /\ ts = [t \in Threads |-> 0]
        /\ head = [t \in Threads |-> Uninitialized] /\ rest = [t \in Threads |-> {}]
        /\ stale = [t \in Threads |-> FALSE]
        /\ splits = [t \in Threads |-> <<>>] /\ copies = [t \in Threads |-> <<>>]
    BY DEF Init
  <2>4. pc \in [Threads -> PCs] /\ op \in [Threads -> {"insert", "erase", "contains"}]
    BY <2>3 DEF PCs
  <2>5. /\ key \in [Threads -> Keys] /\ ts \in [Threads -> Nat] /\ head \in [Threads -> Heads]
        /\ rest \in [Threads -> SUBSET (1 .. Len(nodes))] /\ stale \in [Threads -> BOOLEAN]
    BY <1>2, <2>1, <2>3
  <2>6. /\ splits \in [Threads -> Seq(InitialSize .. table_size - 1)]
        /\ copies \in [Threads -> Seq(Keys)]
    BY <2>2, <2>3
  <2>7. QED BY <2>4, <2>5, <2>6 DEF LocalTypes
<1>6. HistoryTypes
  BY DEF Init, HistoryTypes
<1>7. SizeInv
  BY <1>1, <1>3 DEF SizeInv
<1>8. LadderInv
  <2>1. \A n \in Sizes : n \in Nat /\ InitialSize <= n
    BY SizeFacts
  <2>2. QED BY <1>1, <1>3, <2>1 DEF LadderInv
<1>9. ChainInv
  BY <1>3 DEF ChainInv
<1>10. AuthorityInv
  <2>1. 1 .. Len(nodes) = {}
    BY <1>1
  <2>2. QED BY <1>3, <2>1 DEF AuthorityInv
<1>11. ASSUME NEW t \in Threads PROVE CallInv(t) /\ SplitInv(t)
  <2>1. pc[t] = "idle" /\ op[t] = "contains" /\ splits[t] = <<>> /\ copies[t] = <<>> /\ resize_lock # t
    BY <1>1, HashSetAssumption DEF Init
  <2>2. QED BY <2>1 DEF CallInv, SplitInv, Splitting
<1>12. QED BY <1>4, <1>5, <1>6, <1>7, <1>8, <1>9, <1>10, <1>11 DEF Inv, Types, TableInv

(* The invariant holds.                                                     *)
THEOREM Invariance == Spec => []Inv
<1>1. Init => Inv
  BY InitInv
<1>2. Inv /\ [Next]_vars => Inv'
  BY StepInv
<1>3. QED BY <1>1, <1>2, PTL DEF Spec

-----------------------------------------------------------------------------
(* The properties                                                           *)

(* The table, the calls and the history have their types.                   *)
THEOREM HashSetTypeOK == Spec => []TypeOK
<1>1. Inv => TypeOK
  <2> SUFFICES ASSUME Inv PROVE TypeOK
    OBVIOUS
  <2>1. TableTypes /\ LocalTypes /\ HistoryTypes
    BY DEF Inv, Types
  <2>2. table_size \in Nat /\ 0 .. table_size - 1 \subseteq DOMAIN buckets
    BY <2>1, TableSize
  <2>3. \A j \in DOMAIN buckets : buckets[j] \in Heads
    BY <2>1 DEF TableTypes
  <2>4. splits \in [Threads -> Seq(Nat)]
    <3>1. InitialSize .. table_size - 1 \subseteq Nat
      BY <2>1, TableSize
    <3>2. ASSUME NEW t \in Threads PROVE splits[t] \in Seq(Nat)
      <4>1. splits[t] \in Seq(InitialSize .. table_size - 1)
        BY <2>1 DEF LocalTypes
      <4>2. QED BY <3>1, <4>1, SeqMonotonic
    <3>3. QED BY <2>1, <3>2 DEF LocalTypes
  <2>5. QED BY <2>1, <2>2, <2>3, <2>4 DEF TypeOK, TableTypes, LocalTypes, HistoryTypes, Node
<1>2. QED BY <1>1, Invariance, PTL

(* Among the buckets that hold a key, which are on its ladder, only the     *)
(* highest may have a live node, and it is above every bucket with a frozen *)
(* one.                                                                     *)
LEMMA OneAuthority == Inv => KeyAuthority
<1> SUFFICES ASSUME Inv, allow_delete, NEW k \in Keys, NEW n \in LiveNodes(k),
                    NEW j \in {i \in DOMAIN buckets : Published(i)}
             PROVE  /\ LiveNodes(k) = {n}
                    /\ (\E m \in NodesOf(k, j) : nodes[m].link = "frozen") => Moved(k, j)
  BY DEF KeyAuthority
<1>1. Types /\ TableTypes /\ SizeInv /\ LadderInv /\ ChainInv /\ AuthorityInv
  BY DEF Inv, Types, TableInv
<1>2. ASSUME NEW i, Published(i), NEW m \in NodesOf(k, i)
      PROVE  i \in Nat /\ m \in buckets[i].chain /\ nodes[m].key = k /\ Home(k, i)
  <2>1. i \in Nat /\ m \in buckets[i].chain /\ nodes[m].key = k
    BY <1>1, <1>2, PublishedFacts DEF NodesOf, WithKey
  <2>2. QED BY <1>1, <1>2, <2>1 DEF ChainInv
<1>3. ASSUME NEW m \in LiveNodes(k)
      PROVE  \E i \in Nat : Published(i) /\ m \in NodesOf(k, i) /\ nodes[m].link = "live"
  <2>1. PICK i : Published(i) /\ m \in NodesOf(k, i) /\ nodes[m].link = "live"
    BY <1>3 DEF LiveNodes
  <2>2. QED BY <1>2, <2>1
<1>4. PICK i \in Nat : Published(i) /\ n \in NodesOf(k, i) /\ nodes[n].link = "live"
  BY <1>3
<1>5. ASSUME NEW h \in Nat, Published(h), NEW m \in NodesOf(k, h), NEW g \in Nat, Published(g),
             NEW l \in NodesOf(k, g), nodes[l].link = "live", g < h
      PROVE  FALSE
  <2>1. Home(k, h) /\ l \in buckets[g].chain /\ nodes[l].key = k
    BY <1>2, <1>5
  <2>2. QED BY <1>1, <1>5, <2>1 DEF AuthorityInv
<1>6. ASSUME NEW m \in LiveNodes(k) PROVE m = n
  <2>1. PICK h \in Nat : Published(h) /\ m \in NodesOf(k, h) /\ nodes[m].link = "live"
    BY <1>3
  <2>2. h = i
    BY <1>4, <1>5, <2>1
  <2>3. m \in buckets[i].chain /\ n \in buckets[i].chain /\ nodes[m].key = nodes[n].key
    BY <1>2, <1>4, <2>1, <2>2
  <2>4. QED BY <1>1, <1>4, <2>1, <2>3 DEF ChainInv
<1>7. ASSUME NEW m \in NodesOf(k, j), nodes[m].link = "frozen" PROVE Moved(k, j)
  <2>1. Published(j) /\ j \in Nat /\ m \in buckets[j].chain /\ nodes[m].key = k /\ Home(k, j)
    BY <1>2, <1>7
  <2>2. Home(k, i) /\ n \in buckets[i].chain /\ nodes[n].key = k
    BY <1>2, <1>4
  <2>3. i # j
    BY <1>1, <1>4, <1>7, <2>1, <2>2 DEF ChainInv
  <2>4. ~(i < j)
    BY <1>4, <1>5, <1>7, <2>1
  <2>5. j < i
    BY <2>1, <2>3, <2>4
  <2>6. QED BY <1>1, <1>4, <2>1, <2>2, <2>5, MovedUp
<1>8. QED BY <1>6, <1>7

(* A key has one authority at most, one that can still change               *)
(* (concurrent_hash_set.h:132-139).                                         *)
THEOREM HashSetKeyAuthority == Spec => []KeyAuthority
  BY OneAuthority, Invariance, PTL

(* A link changes once, and only from live (concurrent_hash_set.h:64-66).   *)
THEOREM HashSetLinksAreFinal == Spec => LinksAreFinal
<1> DEFINE Once == \A n \in 1 .. Len(nodes) :
                     \/ nodes'[n] = nodes[n]
                     \/ nodes[n].link = "live" /\ nodes'[n].key = nodes[n].key
<1>1. Inv /\ [Next]_vars => [Once]_nodes
  <2> SUFFICES ASSUME Inv, [Next]_vars, NEW n \in 1 .. Len(nodes), nodes[n].link # "live"
               PROVE  nodes'[n] = nodes[n]
    <3>1. ASSUME Inv, [Next]_vars, NEW n \in 1 .. Len(nodes) PROVE nodes'[n].key = nodes[n].key
      BY <3>1, StepInv DEF Keeps, NodesKeep
    <3>2. QED BY <3>1
  <2>1. Inv' /\ Room /\ NodesKeep
    BY StepInv DEF Keeps
  <2>2. nodes \in Seq(Node) /\ nodes' \in Seq(Node)
    BY <2>1 DEF Inv, Types, TableTypes
  <2>3. n \in 1 .. Len(nodes')
    BY <2>1, <2>2, LenProperties DEF Room
  <2>4. nodes[n] \in Node /\ nodes'[n] \in Node
    BY <2>2, <2>3, ElementOfSeq
  <2>5. nodes'[n].key = nodes[n].key /\ nodes'[n].link = nodes[n].link
    BY <2>1 DEF NodesKeep
  <2>6. QED BY <2>4, <2>5 DEF Node
<1>2. QED BY <1>1, Invariance, PTL DEF Spec, LinksAreFinal

-----------------------------------------------------------------------------
(***************************************************************************)
(* The hash set implements the linearizable set, for any keys, hashes and  *)
(* threads: what ConcurrentSet says of the set of members is true of the   *)
(* chains, the bits and the seals.                                         *)
(*                                                                         *)
(* The highest published bucket on the ladder of a key decides whether it  *)
(* is in the set.  A call may look lower, in the bucket of a size that the *)
(* table has outgrown: what it finds there was true when it could still    *)
(* have been decided there, and that was during the call.                  *)
(***************************************************************************)

(* Bucket j says that key k is in the set: it has a live node of it, or a   *)
(* frozen one whose copy is still to come.                                  *)
Says(k, j) ==
  \E n \in buckets[j].chain :
    /\ nodes[n].key = k
    /\ nodes[n].link = "live" \/ (nodes[n].link = "frozen" /\ ~Moved(k, j))

Present(k) == \E j \in Nat : Published(j) /\ Says(k, j)

(* The same after the step                                                  *)
MovedAfter(k, j) ==
  \E i \in DOMAIN buckets' :
    i >= InitialSize /\ PublishedAfter(i) /\ Parent(i) = j /\ BucketAt(k, SizeOf(i)) = i

SaysAfter(k, j) ==
  \E n \in buckets'[j].chain :
    /\ nodes'[n].key = k
    /\ nodes'[n].link = "live" \/ (nodes'[n].link = "frozen" /\ ~MovedAfter(k, j))

PresentAfter(k) == \E j \in Nat : PublishedAfter(j) /\ SaysAfter(k, j)

(* What a thread in a call has seen: what is true now; that its key was     *)
(* present, if an unmarked node of it is in its bucket; and that it was     *)
(* absent when the nodes that it has left are all marked, unless the table  *)
(* has grown.                                                               *)
SeenNow(t) == (key[t] \in Members) \in seen[t]

SeenPresent(t) ==
  Published(Bucket(t)) =>
    \A n \in NodesOf(key[t], Bucket(t)) : nodes[n].link # "marked" => TRUE \in seen[t]

SeenAbsent(t) ==
  ts[t] = table_size /\ op[t] # "insert" =>
    /\ pc[t] \in {"walk", "mark"} => FALSE \in seen[t] \/ \E n \in rest[t] : nodes[n].link # "marked"
    /\ pc[t] = "recheck" /\ ~stale[t] => FALSE \in seen[t]

WatchInv(t) == pc[t] # "idle" => SeenNow(t) /\ SeenPresent(t) /\ SeenAbsent(t)

SeenInv == \A t \in Threads : WatchInv(t)

-----------------------------------------------------------------------------
(* The members                                                              *)

(* The members by the buckets that say so, before and after a step          *)
LEMMA MembersArePresent ==
  ASSUME TableTypes, TableTypes'
  PROVE  /\ Members = {k \in Keys : Present(k)}
         /\ Members' = {k \in Keys : PresentAfter(k)}
<1>1. /\ DOMAIN buckets \subseteq Nat /\ DOMAIN buckets' \subseteq Nat
  <2>1. DOMAIN buckets = 0 .. Extent - 1 /\ DOMAIN buckets' = 0 .. Extent' - 1
    BY DEF TableTypes
  <2>2. 0 .. Extent - 1 \subseteq Nat /\ 0 .. Extent' - 1 \subseteq Nat
    OBVIOUS
  <2>3. QED BY <2>1, <2>2
<1>2. ASSUME NEW k \in Keys PROVE Member(k) <=> Present(k)
  <2>1. ASSUME Member(k) PROVE Present(k)
    <3>1. PICK j \in DOMAIN buckets : Published(j) /\ Says(k, j)
      BY <2>1 DEF Member, LiveNodes, NodesOf, WithKey, Says
    <3>2. QED BY <1>1, <3>1 DEF Present
  <2>2. ASSUME Present(k) PROVE Member(k)
    <3>1. PICK j \in DOMAIN buckets : Published(j) /\ Says(k, j)
      BY <2>2 DEF Present, Published
    <3>2. QED BY <3>1 DEF Member, LiveNodes, NodesOf, WithKey, Says
  <2>3. QED BY <2>1, <2>2
<1>3. ASSUME NEW k \in Keys PROVE Member(k)' <=> PresentAfter(k)
  <2>1. \A j : Published(j)' <=> PublishedAfter(j)
    BY DEF Published, PublishedAfter
  <2>2. \A j : Moved(k, j)' <=> MovedAfter(k, j)
    BY <2>1 DEF Moved, MovedAfter, BucketAt, SizeOf, Parent, BitFloor
  <2>3. ASSUME Member(k)' PROVE PresentAfter(k)
    <3>1. PICK j \in DOMAIN buckets' : PublishedAfter(j) /\ SaysAfter(k, j)
      BY <2>1, <2>2, <2>3 DEF Member, LiveNodes, NodesOf, WithKey, SaysAfter
    <3>2. QED BY <1>1, <3>1 DEF PresentAfter
  <2>4. ASSUME PresentAfter(k) PROVE Member(k)'
    <3>1. PICK j \in DOMAIN buckets' : PublishedAfter(j) /\ SaysAfter(k, j)
      BY <2>4 DEF PresentAfter, PublishedAfter
    <3>2. QED BY <2>1, <2>2, <3>1 DEF Member, LiveNodes, NodesOf, WithKey, SaysAfter
  <2>5. QED BY <2>3, <2>4
<1>4. Members' = {k \in Keys : Member(k)'}
  BY DEF Members
<1>5. QED BY <1>2, <1>3, <1>4 DEF Members

(* Of the nodes in a bucket                                                 *)
LEMMA InBucket ==
  ASSUME Inv, NEW j, Published(j), NEW n \in buckets[j].chain
  PROVE  /\ j \in Nat /\ j \in DOMAIN buckets /\ n \in 1 .. Len(nodes)
         /\ nodes[n].key \in Keys /\ nodes[n].link \in {"live", "marked", "frozen"}
         /\ Home(nodes[n].key, j)
<1>1. TableTypes /\ SizeInv /\ ChainInv
  BY DEF Inv, Types, TableInv
<1>2. j \in Nat /\ j \in DOMAIN buckets
  BY <1>1, PublishedFacts DEF Published
<1>3. n \in 1 .. Len(nodes) /\ Home(nodes[n].key, j)
  BY <1>1, <1>2 DEF ChainInv
<1>4. QED BY <1>1, <1>2, <1>3, NodeFacts DEF TableTypes

(* A key that moved has a published bucket above.                           *)
LEMMA MovedIsAbove ==
  ASSUME Inv, NEW k \in Keys, NEW j \in Nat, Moved(k, j)
  PROVE  \E i \in Nat : Published(i) /\ Home(k, i) /\ j < i
<1>1. PICK i \in DOMAIN buckets :
        i >= InitialSize /\ Published(i) /\ Parent(i) = j /\ BucketAt(k, SizeOf(i)) = i
  BY DEF Moved
<1>2. TableTypes /\ SizeInv
  BY DEF Inv, Types, TableInv
<1>3. i \in Nat /\ i < table_size /\ InitialSize \in Nat /\ table_size \in Nat
  BY <1>1, <1>2, PublishedFacts, TableSize
<1>4. i \in InitialSize .. table_size - 1
  BY <1>1, <1>3
<1>5. j < i /\ SizeOf(i) = FirstSize(i)
  BY <1>1, <1>2, <1>4, ChildFacts
<1>6. QED BY <1>1, <1>3, <1>5 DEF Home

(* Below another published bucket of its ladder no bucket says that a key   *)
(* is in the set, unless the other one has it as well.                      *)
LEMMA NothingSaidBelow ==
  ASSUME Inv, NEW k \in Keys, NEW j \in Nat, Published(j), Home(k, j),
         NEW i \in Nat, Published(i), i < j, Says(k, i)
  PROVE  \E n \in buckets[j].chain : nodes[n].key = k /\ nodes[n].link # "marked"
<1>1. PICK n \in buckets[i].chain :
        nodes[n].key = k /\ (nodes[n].link = "live" \/ (nodes[n].link = "frozen" /\ ~Moved(k, i)))
  BY DEF Says
<1>2. TableTypes /\ SizeInv /\ LadderInv /\ AuthorityInv
  BY DEF Inv, Types, TableInv
<1>3. Home(k, i) /\ n \in 1 .. Len(nodes)
  BY <1>1, InBucket
<1>4. Moved(k, i)
  BY <1>2, <1>3, MovedUp
<1>5. nodes[n].link = "live"
  BY <1>1, <1>4
<1>6. ~allow_delete /\ \E m \in buckets[j].chain : nodes[m].key = k
  BY <1>1, <1>2, <1>5 DEF AuthorityInv
<1>7. PICK m \in buckets[j].chain : nodes[m].key = k
  BY <1>6
<1>8. m \in 1 .. Len(nodes)
  BY <1>7, InBucket
<1>9. nodes[m].link = "live"
  BY <1>2, <1>6, <1>8 DEF AuthorityInv
<1>10. QED BY <1>7, <1>9

(* The highest published bucket of a key decides.                           *)
LEMMA TopDecides ==
  ASSUME Inv, NEW k \in Keys, NEW j \in Nat, Published(j), Home(k, j),
         \A i \in Nat : Published(i) /\ Home(k, i) => i <= j
  PROVE  Present(k) <=> \E n \in buckets[j].chain : nodes[n].key = k /\ nodes[n].link # "marked"
<1>1. ASSUME Present(k) PROVE \E n \in buckets[j].chain : nodes[n].key = k /\ nodes[n].link # "marked"
  <2>1. PICK i \in Nat : Published(i) /\ Says(k, i)
    BY <1>1 DEF Present
  <2>2. PICK n \in buckets[i].chain : nodes[n].key = k /\ nodes[n].link # "marked"
    BY <2>1 DEF Says
  <2>3. Home(k, i)
    BY <2>1, <2>2, InBucket
  <2>4. CASE i = j
    BY <2>2, <2>4
  <2>5. CASE i < j
    BY <2>1, <2>5, NothingSaidBelow
  <2>6. QED BY <2>1, <2>3, <2>4, <2>5
<1>2. ASSUME NEW n \in buckets[j].chain, nodes[n].key = k, nodes[n].link # "marked" PROVE Present(k)
  <2>1. nodes[n].link \in {"live", "frozen"}
    BY <1>2, InBucket
  <2>2. ~Moved(k, j)
    <3> SUFFICES ASSUME Moved(k, j) PROVE FALSE
      OBVIOUS
    <3>1. PICK i \in Nat : Published(i) /\ Home(k, i) /\ j < i
      BY MovedIsAbove
    <3>2. QED BY <3>1
  <2>3. QED BY <1>2, <2>1, <2>2 DEF Present, Says
<1>3. QED BY <1>1, <1>2

-----------------------------------------------------------------------------
(* What the steps do to the members                                         *)

(* What the step does to the table that a watcher can see: new nodes are    *)
(* live, and what is marked leaves the set.                                 *)
NewAreLive ==
  \A j \in Nat : PublishedAfter(j) =>
    \A n \in buckets'[j].chain : (Published(j) /\ n \in buckets[j].chain) \/ nodes'[n].link = "live"

MarkedAreGone ==
  \A n \in 1 .. Len(nodes) :
    nodes[n].link # "marked" /\ nodes'[n].link = "marked" => ~PresentAfter(nodes[n].key)

Unseen == NewAreLive /\ MarkedAreGone

(* Keys move when a bucket is published, and only then.                     *)
LEMMA MovedSame ==
  ASSUME Inv, \A i \in Nat : PublishedAfter(i) <=> Published(i), Types', NEW k, NEW j
  PROVE  MovedAfter(k, j) <=> Moved(k, j)
<1>1. DOMAIN buckets \subseteq Nat /\ DOMAIN buckets' \subseteq Nat
  <2>1. DOMAIN buckets = 0 .. Extent - 1 /\ DOMAIN buckets' = 0 .. Extent' - 1
    BY DEF TableTypes, Inv, Types
  <2>2. 0 .. Extent - 1 \subseteq Nat /\ 0 .. Extent' - 1 \subseteq Nat
    OBVIOUS
  <2>3. QED BY <2>1, <2>2
<1>2. ASSUME Moved(k, j) PROVE MovedAfter(k, j)
  <2>1. PICK i \in DOMAIN buckets :
          i >= InitialSize /\ Published(i) /\ Parent(i) = j /\ BucketAt(k, SizeOf(i)) = i
    BY <1>2 DEF Moved
  <2>2. PublishedAfter(i) /\ i \in DOMAIN buckets'
    BY <1>1, <2>1 DEF PublishedAfter
  <2>3. QED BY <2>1, <2>2 DEF MovedAfter
<1>3. ASSUME MovedAfter(k, j) PROVE Moved(k, j)
  <2>1. PICK i \in DOMAIN buckets' :
          i >= InitialSize /\ PublishedAfter(i) /\ Parent(i) = j /\ BucketAt(k, SizeOf(i)) = i
    BY <1>3 DEF MovedAfter
  <2>2. Published(i) /\ i \in DOMAIN buckets
    BY <1>1, <2>1 DEF Published
  <2>3. QED BY <2>1, <2>2 DEF Moved
<1>4. QED BY <1>2, <1>3

(* The step does nothing to the nodes of key k.                             *)
SameFor(k) ==
  /\ \A j : MovedAfter(k, j) <=> Moved(k, j)
  /\ \A n \in 1 .. Len(nodes) : nodes[n].key = k => nodes'[n].link = nodes[n].link
  /\ \A j \in Nat : PublishedAfter(j) =>
       \A n \in buckets'[j].chain : (Published(j) /\ n \in buckets[j].chain) \/ nodes'[n].key # k

(* Such a step leaves it in the set or out of it.                           *)
LEMMA PresentSame ==
  ASSUME Inv, Keeps, NEW k \in Keys, SameFor(k)
  PROVE  PresentAfter(k) <=> Present(k)
<1>1. /\ \A j : MovedAfter(k, j) <=> Moved(k, j)
      /\ \A n \in 1 .. Len(nodes) : nodes[n].key = k => nodes'[n].link = nodes[n].link
      /\ \A j \in Nat : PublishedAfter(j) =>
           \A n \in buckets'[j].chain : (Published(j) /\ n \in buckets[j].chain) \/ nodes'[n].key # k
  BY DEF SameFor
<1>2. \A n \in 1 .. Len(nodes) : nodes'[n].key = nodes[n].key
  BY DEF Keeps, NodesKeep
<1>3. ASSUME NEW j \in Nat, Published(j), Says(k, j) PROVE PresentAfter(k)
  <2>1. PICK n \in buckets[j].chain :
          nodes[n].key = k /\ (nodes[n].link = "live" \/ (nodes[n].link = "frozen" /\ ~Moved(k, j)))
    BY <1>3 DEF Says
  <2>2. n \in 1 .. Len(nodes)
    BY <1>3, InBucket
  <2>3. PublishedAfter(j) /\ n \in buckets'[j].chain
    BY <1>3 DEF Keeps, BucketsKeep
  <2>4. nodes'[n].key = k /\ (nodes'[n].link = "live" \/ (nodes'[n].link = "frozen" /\ ~MovedAfter(k, j)))
    BY <1>1, <1>2, <2>1, <2>2
  <2>5. QED BY <2>3, <2>4 DEF PresentAfter, SaysAfter
<1>4. ASSUME NEW j \in Nat, PublishedAfter(j), SaysAfter(k, j) PROVE Present(k)
  <2>1. PICK n \in buckets'[j].chain :
          nodes'[n].key = k /\ (nodes'[n].link = "live" \/ (nodes'[n].link = "frozen" /\ ~MovedAfter(k, j)))
    BY <1>4 DEF SaysAfter
  <2>2. Published(j) /\ n \in buckets[j].chain
    BY <1>1, <1>4, <2>1
  <2>3. n \in 1 .. Len(nodes)
    BY <2>2, InBucket
  <2>4. nodes[n].key = k /\ (nodes[n].link = "live" \/ (nodes[n].link = "frozen" /\ ~Moved(k, j)))
    BY <1>1, <1>2, <2>1, <2>3
  <2>5. QED BY <2>2, <2>4 DEF Present, Says
<1>5. QED BY <1>3, <1>4 DEF Present, PresentAfter

(* Steps that leave chains and links alone                                  *)
LEMMA QuietTable ==
  ASSUME Inv, Types', Keeps, UNCHANGED nodes, \A i \in Nat : PublishedAfter(i) <=> Published(i),
         \A i \in Nat : Published(i) => buckets'[i].chain = buckets[i].chain
  PROVE  Members' = Members /\ Unseen
<1>1. ASSUME NEW k \in Keys PROVE PresentAfter(k) <=> Present(k)
  <2>1. \A j : MovedAfter(k, j) <=> Moved(k, j)
    BY MovedSame
  <2>2. SameFor(k)
    BY <2>1 DEF SameFor
  <2>3. QED BY <2>2, PresentSame
<1>2. Members' = Members
  BY <1>1, MembersArePresent DEF Inv, Types
<1>3. Unseen
  BY DEF Unseen, NewAreLive, MarkedAreGone
<1>4. QED BY <1>2, <1>3

(* Steps that leave the table alone                                         *)
LEMMA QuietStep ==
  ASSUME Inv, Types', Keeps, UNCHANGED table
  PROVE  Members' = Members /\ Unseen
<1>1. UNCHANGED <<nodes, buckets>>
  BY DEF table
<1>2. QED BY <1>1, QuietTable DEF Published, PublishedAfter

(* The steps of a doubling: the new buckets are not published.              *)
LEMMA ResizeIsQuiet ==
  ASSUME Inv, Types', Keeps, NEW t \in Threads, LockResize(t) \/ StoreSize(t)
  PROVE  Members' = Members /\ Unseen
<1>1. CASE UNCHANGED <<nodes, buckets>>
  BY <1>1, QuietTable DEF Published, PublishedAfter
<1>2. CASE /\ LockResize(t) /\ resize_lock = NoThread /\ table_size = ts[t]
           /\ buckets' = [j \in 0 .. 2 * ts[t] - 1 |-> IF j < ts[t] THEN buckets[j] ELSE Uninitialized]
  <2>1. table_size \in Nat /\ DOMAIN buckets = 0 .. table_size - 1 /\ UNCHANGED nodes
    BY <1>2, TableSize DEF Inv, Types, Extent, LockResize
  <2>2. /\ DOMAIN buckets' = 0 .. 2 * table_size - 1
        /\ \A j \in 0 .. table_size - 1 : j \in 0 .. 2 * table_size - 1 /\ buckets'[j] = buckets[j]
        /\ \A j \in DOMAIN buckets' : j \notin 0 .. table_size - 1 => buckets'[j] = Uninitialized
    BY <1>2, <2>1
  <2>3. ASSUME NEW j \in Nat
        PROVE  (PublishedAfter(j) <=> Published(j)) /\ (Published(j) => buckets'[j] = buckets[j])
    BY <2>1, <2>2 DEF Published, PublishedAfter
  <2>4. QED BY <2>1, <2>3, QuietTable
<1>3. QED BY <1>1, <1>2 DEF LockResize, StoreSize

(* A seal is not part of the chain.                                         *)
LEMMA SealIsQuiet ==
  ASSUME Inv, Types', Keeps, NEW t \in Threads, Seal(t)
  PROVE  Members' = Members /\ Unseen
<1> DEFINE c == Child(t)
           p == Parent(c)
<1>1. UNCHANGED nodes /\ pc[t] = "seal" /\ pc[t] \in Splitting
  BY DEF Seal, Splitting
<1>2. Types /\ TableInv /\ TableTypes /\ LocalTypes /\ SplitInv(t) /\ SizeInv
  BY DEF Inv, Types, TableInv
<1>3. c \in InitialSize .. table_size - 1 /\ Published(p)
  BY <1>1, <1>2, SplitFacts DEF SplitInv
<1>4. SizeOf(c) \in Nat /\ SizeOf(c) > 0 /\ p \in DOMAIN buckets
      /\ buckets[p] = [chain |-> buckets[p].chain, level |-> buckets[p].level]
  BY <1>2, <1>3, ChildFacts, PublishedFacts
<1>5. CASE UNCHANGED buckets
  BY <1>1, <1>5, QuietTable DEF Published, PublishedAfter
<1>6. CASE buckets' = [buckets EXCEPT ![p].level = SizeOf(c)]
  <2>1. /\ buckets'[p].level = SizeOf(c) /\ buckets'[p].chain = buckets[p].chain
        /\ DOMAIN buckets' = DOMAIN buckets
        /\ \A j \in DOMAIN buckets : j # p => buckets'[j] = buckets[j]
    BY <1>4, <1>6
  <2>2. buckets'[p] # Uninitialized
    BY <1>4, <2>1 DEF Uninitialized
  <2>3. ASSUME NEW j \in Nat
        PROVE  (PublishedAfter(j) <=> Published(j)) /\ (Published(j) => buckets'[j].chain = buckets[j].chain)
    BY <1>3, <2>1, <2>2 DEF Published, PublishedAfter
  <2>4. QED BY <1>1, <2>3, QuietTable
<1>7. QED BY <1>5, <1>6 DEF Seal

(* erase() takes its key out of the set: the node that it marks is the only *)
(* one that says it is in.                                                  *)
LEMMA MarkEffect ==
  ASSUME Inv, Types', Keeps, NEW t \in Threads, Mark(t)
  PROVE  /\ Unseen
         /\ \/ Members' = Members /\ UNCHANGED nodes
            \/ /\ Decide(t, TRUE) /\ Return(t)
               /\ key[t] \in Members /\ Members' = Members \ {key[t]}
<1> DEFINE k == key[t]
           i == Bucket(t)
<1>1. UNCHANGED <<table_size, buckets>> /\ pc[t] = "mark" /\ k \in Keys /\ nodes \in Seq(Node)
  BY DEF Mark, Inv, Types, TableTypes, LocalTypes
<1>2. allow_delete /\ Published(i) /\ rest[t] \subseteq NodesOf(k, i)
  BY <1>1 DEF Inv, CallInv
<1>3. PICK n \in rest[t] :
       \/ /\ nodes[n].link = "live" /\ Decide(t, TRUE) /\ Return(t)
          /\ nodes' = [nodes EXCEPT ![n].link = "marked"]
       \/ UNCHANGED nodes
  BY DEF Mark
<1>4. n \in buckets[i].chain /\ nodes[n].key = k /\ n \in 1 .. Len(nodes) /\ i \in Nat /\ i \in DOMAIN buckets
  <2>1. n \in buckets[i].chain /\ nodes[n].key = k
    BY <1>2 DEF NodesOf, WithKey
  <2>2. QED BY <1>2, <2>1, InBucket
<1> HIDE DEF i
<1>5. CASE UNCHANGED nodes
  BY <1>1, <1>5, QuietTable DEF Published, PublishedAfter
<1>6. CASE /\ nodes[n].link = "live" /\ Decide(t, TRUE) /\ Return(t)
           /\ nodes' = [nodes EXCEPT ![n].link = "marked"]
  <2>1. /\ \A m \in 1 .. Len(nodes) : nodes'[m].key = nodes[m].key
        /\ \A m \in 1 .. Len(nodes) : m # n => nodes'[m] = nodes[m]
        /\ nodes'[n].link = "marked"
    BY <1>1, <1>4, <1>6, LinkChanged
  <2>2. \A j : (PublishedAfter(j) <=> Published(j)) /\ buckets'[j] = buckets[j]
    BY <1>1 DEF Published, PublishedAfter
  <2>3. \A q, j : MovedAfter(q, j) <=> Moved(q, j)
    BY <2>2, MovedSame
  <2>4. Present(k)
    BY <1>2, <1>4, <1>6 DEF Present, Says
  <2>5. ~PresentAfter(k)
    <3> SUFFICES ASSUME NEW j \in Nat, PublishedAfter(j), SaysAfter(k, j) PROVE FALSE
      BY DEF PresentAfter
    <3>1. PICK m \in buckets[j].chain :
            nodes'[m].key = k /\ (nodes'[m].link = "live" \/ (nodes'[m].link = "frozen" /\ ~Moved(k, j)))
      BY <2>2, <2>3 DEF SaysAfter
    <3>2. Published(j) /\ j \in DOMAIN buckets /\ m \in 1 .. Len(nodes) /\ m # n
      BY <2>1, <2>2, <3>1, InBucket
    <3>3. nodes'[m] = nodes[m]
      BY <2>1, <3>2
    <3>4. m \in NodesOf(k, j)
      BY <3>1, <3>3 DEF NodesOf, WithKey
    <3>5. n \in LiveNodes(k)
      BY <1>2, <1>4, <1>6 DEF LiveNodes, NodesOf, WithKey
    <3>6. LiveNodes(k) = {n} /\ (nodes[m].link = "frozen" => Moved(k, j))
      BY <1>1, <1>2, <3>2, <3>4, <3>5, OneAuthority DEF KeyAuthority
    <3>7. nodes[m].link = "live" => m \in LiveNodes(k)
      BY <3>2, <3>4 DEF LiveNodes
    <3>8. QED BY <3>1, <3>2, <3>3, <3>6, <3>7
  <2>6. ASSUME NEW q \in Keys, q # k PROVE PresentAfter(q) <=> Present(q)
    <3>1. SameFor(q)
      BY <1>4, <2>1, <2>2, <2>3, <2>6 DEF SameFor
    <3>2. QED BY <3>1, PresentSame
  <2>7. k \in Members /\ Members' = Members \ {k}
    BY <1>1, <2>4, <2>5, <2>6, MembersArePresent DEF Inv, Types
  <2>8. NewAreLive
    BY <2>2 DEF NewAreLive
  <2>9. MarkedAreGone
    BY <1>4, <2>1, <2>5 DEF MarkedAreGone
  <2>10. QED BY <1>6, <2>7, <2>8, <2>9 DEF Unseen
<1>7. QED BY <1>3, <1>5, <1>6

(* insert() adds its key: the highest published bucket of the key is the    *)
(* one that it inserts into, and it has found tombstones there at most.     *)
LEMMA PublishEffect ==
  ASSUME Inv, Types', Keeps, NEW t \in Threads, Publish(t)
  PROVE  /\ Unseen
         /\ \/ Members' = Members /\ Undecided
            \/ /\ Decide(t, TRUE)
               /\ key[t] \notin Members /\ Members' = Members \cup {key[t]}
<1> DEFINE k == key[t]
           j == Bucket(t)
           N == Len(nodes) + 1
<1>1. /\ UNCHANGED table_size /\ pc[t] = "publish" /\ k \in Keys /\ nodes \in Seq(Node)
      /\ TableTypes /\ SizeInv /\ LadderInv
  BY DEF Publish, Inv, Types, TableTypes, LocalTypes, TableInv
<1>2. /\ ts[t] \in Sizes /\ ts[t] <= table_size
      /\ head[t].level <= ts[t] /\ head[t] # Uninitialized
      /\ \A n \in WithKey(head[t].chain, k) : nodes[n].link = "marked"
  <2>1. op[t] = "insert" /\ CallInv(t) /\ rest[t] = {}
    BY <1>1 DEF Inv, CallInv
  <2>2. QED BY <1>1, <2>1 DEF CallInv
<1>3. j \in DOMAIN buckets /\ j = BucketAt(k, ts[t]) /\ j \in Nat /\ Home(k, j)
  BY <1>1, <1>2, BucketFacts DEF Bucket
<1>4. CASE UNCHANGED <<nodes, buckets>> /\ Undecided
  BY <1>1, <1>4, QuietTable DEF Published, PublishedAfter
<1>5. CASE /\ buckets[j] = head[t]
           /\ nodes' = Append(nodes, [key |-> k, link |-> "live"])
           /\ buckets' = [buckets EXCEPT ![j].chain = @ \cup {N}]
           /\ Decide(t, TRUE)
  <2>1. /\ Published(j) /\ buckets[j].level <= ts[t]
        /\ \A n \in WithKey(buckets[j].chain, k) : nodes[n].link = "marked"
    BY <1>2, <1>3, <1>5 DEF Published
  <2>2. /\ Len(nodes) \in Nat
        /\ \A m \in 1 .. Len(nodes) : nodes'[m] = nodes[m]
        /\ nodes'[N].key = k /\ nodes'[N].link = "live"
    <3> DEFINE e == [key |-> k, link |-> "live"]
    <3>1. e \in Node /\ e.key = k /\ e.link = "live" /\ nodes' = Append(nodes, e)
      BY <1>1, <1>5 DEF Node
    <3> HIDE DEF e, k
    <3>2. QED BY <1>1, <3>1, NodeAppended, NodeFacts
  <2>3. buckets[j] = [chain |-> buckets[j].chain, level |-> buckets[j].level]
    BY <1>1, <2>1, PublishedFacts
  <2>4. /\ DOMAIN buckets' = DOMAIN buckets
        /\ \A i \in DOMAIN buckets : i # j => buckets'[i] = buckets[i]
        /\ buckets'[j].chain = buckets[j].chain \cup {N}
    BY <1>3, <1>5, <2>3
  <2> HIDE DEF j, k, N
  <2>5. \A i \in Nat : PublishedAfter(i) <=> Published(i)
    <3>1. PublishedAfter(j)
      BY <1>3, <2>1 DEF Keeps, BucketsKeep
    <3>2. QED BY <2>1, <2>4, <3>1 DEF Published, PublishedAfter
  <2>6. \A q, i : MovedAfter(q, i) <=> Moved(q, i)
    BY <2>5, MovedSame
  <2>7. ~Present(k)
    <3>1. \A i \in Nat : Published(i) /\ Home(k, i) => i <= j
      BY <1>1, <1>2, <1>3, <2>1, NothingAboveUnsealed
    <3>2. QED BY <1>1, <1>3, <2>1, <3>1, TopDecides DEF WithKey
  <2>8. PresentAfter(k)
    BY <1>3, <2>1, <2>2, <2>4, <2>5 DEF PresentAfter, SaysAfter
  <2>9. ASSUME NEW i \in Nat, PublishedAfter(i), NEW n \in buckets'[i].chain
        PROVE  (Published(i) /\ n \in buckets[i].chain) \/ n = N
    BY <2>4, <2>5, <2>9 DEF Published
  <2>10. ASSUME NEW q \in Keys, q # k PROVE PresentAfter(q) <=> Present(q)
    <3>1. SameFor(q)
      BY <2>2, <2>6, <2>9, <2>10 DEF SameFor
    <3>2. QED BY <3>1, PresentSame
  <2>11. k \notin Members /\ Members' = Members \cup {k}
    BY <1>1, <2>7, <2>8, <2>10, MembersArePresent DEF Inv, Types
  <2>12. NewAreLive
    BY <2>2, <2>9 DEF NewAreLive
  <2>13. MarkedAreGone
    BY <2>2 DEF MarkedAreGone
  <2>14. QED BY <1>5, <2>11, <2>12, <2>13 DEF Unseen, k
<1>6. QED BY <1>4, <1>5 DEF Publish

(* A copy freezes a live node whose key is still decided by the bucket that *)
(* is being split.                                                          *)
LEMMA CopyIsQuiet ==
  ASSUME Inv, Types', Keeps, NEW t \in Threads, Copy(t)
  PROVE  Members' = Members /\ Unseen
<1> DEFINE p == Parent(Child(t))
<1>1. UNCHANGED <<allow_delete, table_size, buckets>> /\ pc[t] = "copy" /\ nodes \in Seq(Node) /\ AuthorityInv
  BY DEF Copy, CopyWith, Inv, Types, TableTypes, TableInv
<1>2. Published(p) /\ rest[t] \subseteq buckets[p].chain
  BY <1>1 DEF Inv, SplitInv, Moving, MovingTo
<1>3. PICK n \in rest[t] : \/ UNCHANGED nodes
                           \/ /\ nodes[n].link # "marked"
                              /\ nodes' = [nodes EXCEPT ![n].link = IF allow_delete THEN "frozen" ELSE "live"]
  BY DEF Copy, CopyWith, CopyAt
<1>4. /\ n \in buckets[p].chain /\ n \in 1 .. Len(nodes) /\ p \in Nat
      /\ nodes[n].key \in Keys /\ nodes[n].link \in {"live", "marked", "frozen"}
  BY <1>2, InBucket
<1> HIDE DEF p
<1> DEFINE k == nodes[n].key
<1>5. \A j : (PublishedAfter(j) <=> Published(j)) /\ buckets'[j] = buckets[j]
  BY <1>1 DEF Published, PublishedAfter
<1>6. \A q, j : MovedAfter(q, j) <=> Moved(q, j)
  BY <1>5, MovedSame
<1>7. \/ UNCHANGED nodes
      \/ /\ nodes[n].link # "marked"
         /\ \A m \in 1 .. Len(nodes) : nodes'[m].key = nodes[m].key
         /\ \A m \in 1 .. Len(nodes) : m # n => nodes'[m] = nodes[m]
         /\ nodes'[n].link = IF allow_delete THEN "frozen" ELSE "live"
  <2> DEFINE link == IF allow_delete THEN "frozen" ELSE "live"
  <2>1. link \in {"live", "marked", "frozen"}
    OBVIOUS
  <2> HIDE DEF link
  <2>2. CASE nodes[n].link # "marked" /\ nodes' = [nodes EXCEPT ![n].link = link]
    <3>1. /\ \A m \in 1 .. Len(nodes) : nodes'[m].key = nodes[m].key
          /\ \A m \in 1 .. Len(nodes) : m # n => nodes'[m] = nodes[m]
          /\ nodes'[n].link = link
      BY <1>1, <1>4, <2>1, <2>2, LinkChanged
    <3>2. QED BY <2>2, <3>1 DEF link
  <2>3. QED BY <1>3, <2>2 DEF link
<1>8. ~allow_delete => nodes[n].link = "live"
  BY <1>1, <1>4 DEF AuthorityInv
<1>9. \A m \in 1 .. Len(nodes) :
        \/ nodes'[m].link = nodes[m].link
        \/ m = n /\ allow_delete /\ nodes[n].link = "live" /\ nodes'[n].link = "frozen" /\ nodes'[n].key = k
  BY <1>4, <1>7, <1>8
<1>10. Unseen
  BY <1>5, <1>9 DEF Unseen, NewAreLive, MarkedAreGone
<1>11. ASSUME NEW q \in Keys PROVE PresentAfter(q) <=> Present(q)
  <2>1. CASE \A m \in 1 .. Len(nodes) : nodes[m].key = q => nodes'[m].link = nodes[m].link
    <3>1. SameFor(q)
      BY <1>5, <1>6, <2>1 DEF SameFor
    <3>2. QED BY <3>1, PresentSame
  <2>2. CASE /\ q = k /\ allow_delete /\ nodes[n].link = "live"
             /\ nodes'[n].link = "frozen" /\ nodes'[n].key = k
    <3>1. Present(k)
      BY <1>2, <1>4, <2>2 DEF Present, Says
    <3>2. ~Moved(k, p)
      <4> SUFFICES ASSUME Moved(k, p) PROVE FALSE
        OBVIOUS
      <4>1. PICK i \in Nat : Published(i) /\ Home(k, i) /\ p < i
        BY <1>4, MovedIsAbove
      <4>2. QED BY <1>1, <1>2, <1>4, <2>2, <4>1 DEF AuthorityInv
    <3>3. PresentAfter(k)
      BY <1>2, <1>4, <1>5, <1>6, <2>2, <3>2 DEF PresentAfter, SaysAfter
    <3>4. QED BY <2>2, <3>1, <3>3
  <2>3. QED BY <1>9, <2>1, <2>2
<1>12. QED BY <1>10, <1>11, MembersArePresent DEF Inv, Types

(* A child is published with the keys that were in the set at its parent.   *)
LEMMA PublishChildIsQuiet ==
  ASSUME Inv, Types', Keeps, NEW t \in Threads, PublishChild(t)
  PROVE  Members' = Members /\ Unseen
<1> DEFINE c == Child(t)
           p == Parent(c)
           ks == copies[t]
           N == Len(nodes)
           K == Len(ks)
<1>1. /\ TableTypes /\ SizeInv /\ LadderInv /\ pc[t] = "child" /\ pc[t] \in Splitting
      /\ LocalTypes /\ SplitInv(t)
  BY DEF PublishChild, Splitting, Inv, Types, TableInv
<1>2. c \in InitialSize .. table_size - 1 /\ Published(p)
  BY <1>1, SplitFacts DEF SplitInv
<1>3. CASE UNCHANGED <<nodes, buckets>>
  BY <1>3, QuietTable DEF Published, PublishedAfter
<1>4. CASE buckets[c] = Uninitialized
  <2>1. CopiesOf(c, p, ks) /\ ChildAdded(c, ks)
    BY <1>4, ChildChain
  <2>2. N \in Nat /\ K \in Nat
    BY <1>1, NodeFacts, LenProperties DEF TableTypes, LocalTypes
  <2>3. /\ c \in Nat /\ c \in DOMAIN buckets /\ InitialSize <= c /\ c < MaxSize
        /\ SizeOf(c) = FirstSize(c) /\ p \in Nat /\ p < c /\ ~Published(c)
    BY <1>1, <1>2, <1>4, ChildFacts DEF Published
  <2>4. p = Parent(c)
    OBVIOUS
  <2> HIDE DEF c, p, ks
  <2>5. /\ \A q \in 1 .. K : \E n \in MovingTo(buckets[p].chain, c) : nodes[n].key = ks[q] /\ Final(n)
        /\ \A n \in MovingTo(buckets[p].chain, c) :
             nodes[n].link = "marked" \/ \E q \in 1 .. K : ks[q] = nodes[n].key
    BY <2>1 DEF CopiesOf
  <2>6. /\ \A n \in 1 .. N : nodes'[n] = nodes[n]
        /\ \A q \in 1 .. K : nodes'[N + q].key = ks[q] /\ nodes'[N + q].link = "live"
        /\ DOMAIN buckets' = DOMAIN buckets
        /\ \A i \in DOMAIN buckets : i # c => buckets'[i] = buckets[i]
        /\ buckets'[c].chain = N + 1 .. N + K
    BY <2>1 DEF ChildAdded
  <2> HIDE DEF N, K
  <2>7. \A i : PublishedAfter(i) <=> Published(i) \/ i = c
    <3>1. 0 \notin buckets'[c].chain
      BY <2>2, <2>6
    <3>2. buckets'[c] # Uninitialized
      BY <3>1 DEF Uninitialized
    <3>3. QED BY <2>3, <2>6, <3>2 DEF Published, PublishedAfter
  <2>8. ASSUME NEW m \in buckets'[c].chain
        PROVE  \E q \in 1 .. K : nodes'[m].key = ks[q] /\ nodes'[m].link = "live"
    <3>1. m \in N + 1 .. N + K
      BY <2>6
    <3>2. m - N \in 1 .. K /\ m = N + (m - N)
      BY <2>2, <3>1
    <3> DEFINE q == m - N
    <3>3. q \in 1 .. K /\ m = N + q
      BY <3>2
    <3> HIDE DEF q
    <3>4. QED BY <2>6, <3>3
  <2>9. \A q \in 1 .. K : BucketAt(ks[q], SizeOf(c)) = c
    BY <2>5 DEF MovingTo
  <2>10. ASSUME NEW i \in Nat, PublishedAfter(i), NEW n \in buckets'[i].chain
         PROVE  \/ Published(i) /\ n \in buckets[i].chain
                \/ i = c /\ nodes'[n].link = "live" /\ \E q \in 1 .. K : ks[q] = nodes'[n].key
    <3>1. CASE i = c
      BY <2>8, <2>10, <3>1
    <3>2. CASE i # c
      <4>1. Published(i) /\ i \in DOMAIN buckets
        BY <2>7, <2>10, <3>2 DEF Published
      <4>2. QED BY <2>6, <2>10, <3>2, <4>1
    <3>3. QED BY <3>1, <3>2
  <2>11. NewAreLive
    BY <2>10 DEF NewAreLive
  <2>12. MarkedAreGone
    BY <2>6 DEF MarkedAreGone, N
  <2>13. ASSUME NEW k, NEW j, Moved(k, j) PROVE MovedAfter(k, j)
    BY <2>6, <2>7, <2>13 DEF Moved, MovedAfter
  <2>14. ASSUME NEW k \in Keys, BucketAt(k, SizeOf(c)) # c PROVE PresentAfter(k) <=> Present(k)
    <3>1. ASSUME NEW j, MovedAfter(k, j) PROVE Moved(k, j)
      BY <2>6, <2>7, <2>14, <3>1 DEF Moved, MovedAfter
    <3>2. \A j : MovedAfter(k, j) <=> Moved(k, j)
      BY <2>13, <3>1
    <3>3. ASSUME NEW i \in Nat, PublishedAfter(i), NEW n \in buckets'[i].chain
          PROVE  (Published(i) /\ n \in buckets[i].chain) \/ nodes'[n].key # k
      BY <2>9, <2>10, <2>14, <3>3
    <3>4. SameFor(k)
      BY <2>6, <3>2, <3>3 DEF SameFor, N
    <3>5. QED BY <3>4, PresentSame
  <2>15. ASSUME NEW k \in Keys, BucketAt(k, SizeOf(c)) = c PROVE PresentAfter(k) <=> Present(k)
    <3>1. Home(k, p)
      <4>1. Hash[k] \in Nat /\ Hash[k] % SizeOf(c) = c
        BY <2>15, HashSetAssumption DEF BucketAt
      <4>2. Hash[k] % FirstSize(Parent(c)) = Parent(c)
        BY <2>3, <4>1, ParentIsBelow
      <4>3. QED BY <2>4, <4>2 DEF Home, BucketAt
    <3>2. \A i \in Nat : Published(i) /\ Home(k, i) => i <= p
      BY <1>1, <1>2, <2>3, <2>4, <2>15, NothingAboveParent DEF c
    <3>3. Present(k) <=> \E n \in buckets[p].chain : nodes[n].key = k /\ nodes[n].link # "marked"
      BY <1>2, <2>3, <3>1, <3>2, TopDecides
    <3>4. Present(k) <=> \E q \in 1 .. K : ks[q] = k
      <4>1. ASSUME NEW n \in buckets[p].chain, nodes[n].key = k, nodes[n].link # "marked"
            PROVE  \E q \in 1 .. K : ks[q] = k
        BY <2>5, <2>15, <4>1 DEF MovingTo
      <4>2. ASSUME NEW q \in 1 .. K, ks[q] = k
            PROVE  \E n \in buckets[p].chain : nodes[n].key = k /\ nodes[n].link # "marked"
        BY <2>5, <4>2 DEF MovingTo, Final
      <4>3. QED BY <3>3, <4>1, <4>2
    <3>5. ASSUME NEW q \in 1 .. K, ks[q] = k PROVE PresentAfter(k)
      <4>1. N + q \in buckets'[c].chain
        BY <2>2, <2>6
      <4> DEFINE m == N + q
      <4>2. m \in buckets'[c].chain /\ nodes'[m].key = k /\ nodes'[m].link = "live"
        BY <2>6, <3>5, <4>1
      <4> HIDE DEF m
      <4>3. QED BY <2>3, <2>7, <4>2 DEF PresentAfter, SaysAfter
    <3>6. ASSUME NEW j \in Nat, PublishedAfter(j), SaysAfter(k, j) PROVE \E q \in 1 .. K : ks[q] = k
      <4>1. PICK n \in buckets'[j].chain :
              nodes'[n].key = k /\ (nodes'[n].link = "live" \/ (nodes'[n].link = "frozen" /\ ~MovedAfter(k, j)))
        BY <3>6 DEF SaysAfter
      <4>2. CASE \E q \in 1 .. K : ks[q] = nodes'[n].key
        BY <4>1, <4>2
      <4>3. CASE Published(j) /\ n \in buckets[j].chain
        <5>1. n \in 1 .. N
          BY <4>3, InBucket DEF N
        <5>2. nodes'[n] = nodes[n]
          BY <2>6, <5>1
        <5>3. Present(k)
          BY <2>13, <4>1, <4>3, <5>2 DEF Present, Says
        <5>4. QED BY <3>4, <5>3
      <4>4. QED BY <2>10, <3>6, <4>1, <4>2, <4>3
    <3>7. QED BY <3>4, <3>5, <3>6 DEF PresentAfter
  <2>16. ASSUME NEW k \in Keys PROVE PresentAfter(k) <=> Present(k)
    BY <2>14, <2>15
  <2>17. QED BY <2>11, <2>12, <2>16, MembersArePresent DEF Inv, Types, Unseen
<1>5. QED BY <1>3, <1>4 DEF PublishChild

-----------------------------------------------------------------------------
(* What a thread in a call has seen                                         *)

(* Whether its key is in the set, for every thread in a call                *)
LEMMA WatchSees ==
  ASSUME Watch, TableTypes, TableTypes', LocalTypes', NEW u \in Threads, pc'[u] # "idle"
  PROVE  /\ SeenNow(u)'
         /\ PresentAfter(key'[u]) => TRUE \in seen'[u]
         /\ ~PresentAfter(key'[u]) => FALSE \in seen'[u]
         /\ pc[u] # "idle" => seen[u] \subseteq seen'[u]
<1>1. seen'[u] = (IF pc[u] = "idle" THEN {} ELSE seen[u]) \cup {key'[u] \in Members'}
  BY DEF Watch
<1>2. key'[u] \in Keys
  BY DEF LocalTypes
<1>3. key'[u] \in Members' <=> PresentAfter(key'[u])
  BY <1>2, MembersArePresent
<1>4. SeenNow(u)'
  BY <1>1 DEF SeenNow
<1>5. PresentAfter(key'[u]) => TRUE \in seen'[u]
  <2>1. ASSUME PresentAfter(key'[u]) PROVE (key'[u] \in Members') = TRUE
    BY <1>3, <2>1
  <2>2. QED BY <1>1, <2>1
<1>6. ~PresentAfter(key'[u]) => FALSE \in seen'[u]
  <2>1. ASSUME ~PresentAfter(key'[u]) PROVE (key'[u] \in Members') = FALSE
    BY <1>3, <2>1
  <2>2. QED BY <1>1, <2>1
<1>7. pc[u] # "idle" => seen[u] \subseteq seen'[u]
  BY <1>1
<1>8. QED BY <1>4, <1>5, <1>6, <1>7

(* A thread that looks where it looked has seen its key whenever it can     *)
(* find a node of it that is not marked.                                    *)
LEMMA PresentKept ==
  ASSUME Inv, Types', Keeps, Unseen, Watch, NEW u \in Threads, SeenPresent(u),
         pc[u] # "idle", pc'[u] # "idle", key'[u] = key[u], ts'[u] = ts[u]
  PROVE  SeenPresent(u)'
<1> DEFINE k == key[u]
           j == Bucket(u)
<1>1. TableTypes /\ TableTypes' /\ LocalTypes'
  BY DEF Inv, Types
<1>2. /\ PresentAfter(k) => TRUE \in seen'[u]
      /\ seen[u] \subseteq seen'[u]
  BY <1>1, WatchSees
<1>3. ASSUME j \in Nat, PublishedAfter(j), NEW n \in buckets'[j].chain,
             nodes'[n].key = k, nodes'[n].link # "marked"
      PROVE  TRUE \in seen'[u]
  <2>1. CASE nodes'[n].link = "live"
    BY <1>2, <1>3, <2>1 DEF PresentAfter, SaysAfter
  <2>2. CASE Published(j) /\ n \in buckets[j].chain
    <3>1. n \in 1 .. Len(nodes)
      BY <2>2, InBucket
    <3>2. nodes[n].key = k /\ nodes[n].link # "marked"
      BY <1>3, <3>1 DEF Keeps, NodesKeep
    <3>3. n \in NodesOf(k, j)
      BY <2>2, <3>2 DEF NodesOf, WithKey
    <3>4. QED BY <1>2, <2>2, <3>2, <3>3 DEF SeenPresent
  <2>3. QED BY <1>3, <2>1, <2>2 DEF Unseen, NewAreLive
<1>4. Bucket(u)' = j
  BY DEF Bucket, BucketAt
<1>5. j \in DOMAIN buckets' => j \in Nat
  BY <1>1 DEF TableTypes
<1>6. ASSUME Published(Bucket(u))', NEW n \in NodesOf(key[u], Bucket(u))', nodes'[n].link # "marked"
      PROVE  TRUE \in seen'[u]
  <2> DEFINE b == Bucket(u)'
  <2>1. b \in DOMAIN buckets' /\ buckets'[b] # Uninitialized /\ n \in buckets'[b].chain /\ nodes'[n].key = k
    BY <1>6 DEF Published, NodesOf, WithKey
  <2>2. PublishedAfter(j) /\ n \in buckets'[j].chain
    BY <1>4, <2>1 DEF PublishedAfter
  <2>3. QED BY <1>3, <1>5, <1>6, <2>1, <2>2 DEF PublishedAfter
<1>7. QED BY <1>6 DEF SeenPresent

(* A thread that waits to see its key absent goes on to wait, or sees it.   *)
LEMMA AbsentKept ==
  ASSUME Inv, Types', Keeps, Unseen, Watch, NEW u \in Threads, SeenAbsent(u), pc[u] # "idle",
         UNCHANGED Locals(u)
  PROVE  SeenAbsent(u)'
<1>1. UNCHANGED <<pc[u], op[u], key[u], ts[u], rest[u], stale[u]>>
  BY DEF Locals
<1>2. /\ ~PresentAfter(key[u]) => FALSE \in seen'[u]
      /\ seen[u] \subseteq seen'[u]
  BY <1>1, WatchSees DEF Inv, Types
<1> SUFFICES ASSUME ts[u] = table_size', op[u] # "insert"
             PROVE  /\ pc[u] \in {"walk", "mark"} =>
                         FALSE \in seen'[u] \/ \E n \in rest[u] : nodes'[n].link # "marked"
                    /\ pc[u] = "recheck" /\ ~stale[u] => FALSE \in seen'[u]
  BY <1>1 DEF SeenAbsent
<1>3. ts[u] = table_size
  <2>1. ts[u] \in Sizes /\ ts[u] <= table_size
    BY DEF Inv, CallInv
  <2>2. table_size \in Nat /\ ts[u] \in Nat /\ table_size <= table_size'
    BY <2>1, SizeFacts, TableSize DEF Inv, Types, Keeps, Room
  <2>3. QED BY <2>1, <2>2
<1>4. ASSUME pc[u] \in {"walk", "mark"}, NEW n \in rest[u], nodes[n].link # "marked", nodes'[n].link = "marked"
      PROVE  FALSE \in seen'[u]
  <2>1. Published(Bucket(u)) /\ n \in NodesOf(key[u], Bucket(u))
    BY <1>4 DEF Inv, CallInv
  <2>2. n \in buckets[Bucket(u)].chain /\ nodes[n].key = key[u]
    BY <2>1 DEF NodesOf, WithKey
  <2>3. n \in 1 .. Len(nodes)
    BY <2>1, <2>2, InBucket
  <2>4. QED BY <1>2, <1>4, <2>2, <2>3 DEF Unseen, MarkedAreGone
<1>5. QED BY <1>2, <1>3, <1>4 DEF SeenAbsent

(* Where the table's size is the current one, the bucket decides.           *)
LEMMA CurrentDecides ==
  ASSUME Inv, Types', Keeps, UNCHANGED table, NEW k \in Keys, NEW j, j = BucketAt(k, table_size), Published(j)
  PROVE  PresentAfter(k) <=> \E n \in buckets[j].chain : nodes[n].key = k /\ nodes[n].link # "marked"
<1>1. TableTypes /\ TableTypes' /\ SizeInv
  BY DEF Inv, Types, TableInv
<1>2. j \in Nat /\ Home(k, j)
  BY <1>1, TableSize, BucketFacts
<1>3. \A i \in Nat : Published(i) /\ Home(k, i) => i <= j
  BY <1>1, NothingAboveCurrent
<1>4. Present(k) <=> \E n \in buckets[j].chain : nodes[n].key = k /\ nodes[n].link # "marked"
  BY <1>2, <1>3, TopDecides
<1>5. Members' = Members
  BY QuietStep
<1>6. QED BY <1>1, <1>4, <1>5, MembersArePresent

(* A thread that reads the size sees its key if the bucket has it.          *)
LEMMA PresentAtCurrent ==
  ASSUME Inv, Types', Keeps, UNCHANGED table, Watch, NEW u \in Threads, pc'[u] # "idle", ts'[u] = table_size
  PROVE  SeenPresent(u)'
<1> DEFINE k == key'[u]
           j == BucketAt(k, table_size)
<1>1. k \in Keys /\ (PresentAfter(k) => TRUE \in seen'[u])
  BY WatchSees DEF Inv, Types, LocalTypes
<1>2. Bucket(u)' = j /\ UNCHANGED <<nodes, buckets>>
  BY DEF Bucket, BucketAt, table
<1> HIDE DEF j
<1>3. ASSUME Published(Bucket(u))', NEW n \in NodesOf(key[u], Bucket(u))', nodes'[n].link # "marked"
      PROVE  TRUE \in seen'[u]
  <2> DEFINE b == Bucket(u)'
  <2>1. b \in DOMAIN buckets' /\ buckets'[b] # Uninitialized /\ n \in buckets'[b].chain /\ nodes'[n].key = k
    BY <1>3 DEF Published, NodesOf, WithKey
  <2>2. Published(j) /\ n \in buckets[j].chain /\ nodes[n].key = k /\ nodes[n].link # "marked"
    BY <1>2, <1>3, <2>1 DEF Published
  <2> HIDE DEF k
  <2>3. PresentAfter(k)
    BY <1>1, <2>2, CurrentDecides DEF j
  <2>4. QED BY <1>1, <2>3
<1>4. QED BY <1>3 DEF SeenPresent

(* Steps after which the thread is not waiting to see its key absent        *)
LEMMA GoesElsewhere ==
  ASSUME LocalTypes, NEW t \in Threads, pc'[t] # "idle",
         \/ Call(t) \/ LoadSize(t) \/ Recheck(t) \/ Publish(t) \/ LockResize(t) \/ StoreSize(t)
         \/ LoadParent(t) \/ Seal(t) \/ Copy(t) \/ PublishChild(t)
  PROVE  pc'[t] \notin {"walk", "mark", "recheck"}
<1> USE DEF LocalTypes, Goto, Return, CopyOn, SealOrCopy
<1>1. CASE Call(t) \/ LoadSize(t)
  BY <1>1 DEF Call, LoadSize
<1>2. CASE Recheck(t)
  BY <1>2 DEF Recheck
<1>3. CASE Publish(t)
  BY <1>3 DEF Publish
<1>4. CASE LockResize(t) \/ StoreSize(t)
  BY <1>4 DEF LockResize, StoreSize
<1>5. CASE LoadParent(t)
  BY <1>5 DEF LoadParent
<1>6. CASE Seal(t)
  BY <1>6 DEF Seal
<1>7. CASE Copy(t)
  BY <1>7 DEF Copy, CopyWith, CopyAt
<1>8. CASE PublishChild(t)
  BY <1>8 DEF PublishChild
<1>9. QED BY <1>1, <1>2, <1>3, <1>4, <1>5, <1>6, <1>7, <1>8

(* Each step keeps the key and the size of its thread, or reads the size.   *)
LEMMA KeepsOrReads ==
  ASSUME LocalTypes, NEW t \in Threads, pc'[t] # "idle", Call(t) \/ Step(t)
  PROVE  \/ pc[t] # "idle" /\ key'[t] = key[t] /\ ts'[t] = ts[t]
         \/ ts'[t] = table_size /\ UNCHANGED table
<1> USE DEF LocalTypes, Goto, Return, CopyOn, SealOrCopy
<1>1. CASE Call(t) \/ LoadSize(t)
  BY <1>1 DEF Call, LoadSize
<1>2. CASE LoadHead(t)
  BY <1>2 DEF LoadHead
<1>3. CASE Walk(t)
  BY <1>3 DEF Walk, WalkAt
<1>4. CASE Mark(t)
  BY <1>4 DEF Mark
<1>5. CASE Recheck(t)
  BY <1>5 DEF Recheck
<1>6. CASE Publish(t)
  BY <1>6 DEF Publish
<1>7. CASE LockResize(t) \/ StoreSize(t)
  BY <1>7 DEF LockResize, StoreSize
<1>8. CASE LoadParent(t)
  BY <1>8 DEF LoadParent
<1>9. CASE Seal(t)
  BY <1>9 DEF Seal
<1>10. CASE Copy(t)
  BY <1>10 DEF Copy, CopyWith
<1>11. CASE PublishChild(t)
  BY <1>11 DEF PublishChild
<1>12. QED BY <1>1, <1>2, <1>3, <1>4, <1>5, <1>6, <1>7, <1>8, <1>9, <1>10, <1>11 DEF Step

(* A thread that reads the head of its bucket, and finds tombstones of its  *)
(* key at most, sees it absent if the size is still the current one.        *)
LEMMA LoadHeadSees ==
  ASSUME Inv, Types', Keeps, Watch, NEW t \in Threads, LoadHead(t)
  PROVE  SeenAbsent(t)'
<1> DEFINE k == key[t]
           j == Bucket(t)
<1>1. UNCHANGED table /\ UNCHANGED <<nodes, table_size>> /\ key'[t] = k /\ op'[t] = op[t] /\ pc[t] = "head"
  BY DEF LoadHead, table
<1>2. TableTypes /\ LocalTypes /\ LocalTypes' /\ TableTypes'
  BY DEF Inv, Types
<1>3. CASE pc'[t] \in {"parent", "size"}
  BY <1>3 DEF SeenAbsent
<1>4. CASE buckets[j] # Uninitialized /\ WalkOn(t, WithKey(buckets[j].chain, k)) /\ ts'[t] = ts[t]
  <2>1. /\ rest'[t] = WithKey(buckets[j].chain, k)
        /\ pc'[t] \in {"walk", "publish", "recheck"}
    BY <1>2, <1>4 DEF WalkOn, Goto, LocalTypes
  <2>2. pc'[t] # "idle" /\ (~PresentAfter(k) => FALSE \in seen'[t])
    BY <1>1, <1>2, <2>1, WatchSees
  <2>3. pc'[t] = "recheck" => rest'[t] = {}
    BY <1>2, <1>4, <2>1 DEF WalkOn, Goto, LocalTypes
  <2>4. ASSUME ts'[t] = table_size', \A n \in rest'[t] : nodes'[n].link = "marked"
        PROVE  FALSE \in seen'[t]
    <3>1. j = BucketAt(k, table_size)
      BY <1>1, <1>4, <2>4 DEF Bucket
    <3>2. k \in Keys /\ j \in DOMAIN buckets
      <4>1. k \in Keys
        BY <1>2 DEF LocalTypes
      <4>2. table_size \in Sizes /\ table_size <= table_size
        BY <1>2, TableSize
      <4>3. QED BY <1>2, <3>1, <4>1, <4>2, BucketFacts
    <3>3. Published(j)
      BY <1>4, <3>2 DEF Published
    <3>4. \A n \in buckets[j].chain : nodes[n].key = k => nodes[n].link = "marked"
      BY <1>1, <2>1, <2>4 DEF WithKey
    <3> HIDE DEF j, k
    <3>5. ~PresentAfter(k)
      BY <1>1, <3>1, <3>2, <3>3, <3>4, CurrentDecides
    <3>6. QED BY <2>2, <3>5
  <2>5. QED BY <2>1, <2>3, <2>4 DEF SeenAbsent
<1>5. \/ pc'[t] \in {"parent", "size"}
      \/ buckets[j] # Uninitialized /\ WalkOn(t, WithKey(buckets[j].chain, k)) /\ ts'[t] = ts[t]
  BY <1>2 DEF LoadHead, LocalTypes, Goto
<1>6. QED BY <1>3, <1>4, <1>5

(* Walking past tombstones                                                  *)
LEMMA WalkSees ==
  ASSUME Inv, Types', Keeps, Watch, NEW t \in Threads, Walk(t), pc'[t] # "idle", SeenAbsent(t)
  PROVE  SeenAbsent(t)'
<1>1. UNCHANGED <<nodes, table_size>> /\ pc[t] = "walk"
  BY DEF Walk, table
<1>2. LocalTypes /\ LocalTypes'
  BY DEF Inv, Types
<1>3. seen[t] \subseteq seen'[t]
  BY <1>1, WatchSees DEF Inv, Types
<1>4. PICK n \in rest[t] : WalkAt(t, n)
  BY DEF Walk
<1>5. CASE nodes[n].link = "marked" /\ WalkOn(t, rest[t] \ {n}) /\ UNCHANGED <<op, ts>>
  <2>1. rest'[t] = rest[t] \ {n} /\ (rest'[t] # {} => pc'[t] = "walk")
    BY <1>2, <1>5 DEF WalkOn, Goto, LocalTypes
  <2>2. ASSUME ts'[t] = table_size', op'[t] # "insert"
        PROVE  FALSE \in seen'[t] \/ (pc'[t] = "walk" /\ \E m \in rest'[t] : nodes'[m].link # "marked")
    <3>1. FALSE \in seen[t] \/ \E m \in rest[t] : nodes[m].link # "marked"
      BY <1>1, <1>5, <2>2 DEF SeenAbsent
    <3>2. QED BY <1>1, <1>3, <1>5, <2>1, <3>1
  <2>3. QED BY <2>2 DEF SeenAbsent
<1>6. CASE /\ nodes[n].link # "marked" /\ rest'[t] = {n}
           /\ stale'[t] = (nodes[n].link = "frozen")
           /\ pc'[t] = IF nodes[n].link = "frozen" THEN "recheck" ELSE "mark"
  BY <1>1, <1>6 DEF SeenAbsent
<1>7. QED BY <1>2, <1>4, <1>5, <1>6 DEF WalkAt, Return, Goto, LocalTypes

(* A node that was not marked when erase() stopped at it, and is marked now *)
LEMMA MarkSees ==
  ASSUME Inv, Types', Keeps, Watch, NEW t \in Threads, Mark(t), pc'[t] # "idle", SeenAbsent(t)
  PROVE  SeenAbsent(t)'
<1>1. UNCHANGED table_size /\ pc[t] = "mark" /\ LocalTypes /\ op[t] = "erase"
  BY DEF Mark, Inv, Types, CallInv
<1>2. seen[t] \subseteq seen'[t]
  BY <1>1, WatchSees DEF Inv, Types
<1>3. PICK n \in rest[t] :
        /\ nodes[n].link # "live" /\ stale'[t] = (nodes[n].link = "frozen") /\ pc'[t] = "recheck"
        /\ UNCHANGED <<nodes, op, ts, rest>>
  BY <1>1 DEF Mark, Return, Goto, LocalTypes
<1>4. rest[t] = {n}
  BY <1>1, <1>3 DEF Inv, CallInv
<1>5. n \in 1 .. Len(nodes) /\ nodes[n].link \in {"live", "marked", "frozen"}
  BY <1>1, <1>3, NodeFacts DEF LocalTypes, Inv, Types, TableTypes
<1>6. ASSUME ts'[t] = table_size', ~stale'[t] PROVE FALSE \in seen'[t]
  <2>1. nodes[n].link = "marked"
    BY <1>3, <1>5, <1>6
  <2>2. FALSE \in seen[t]
    BY <1>1, <1>3, <1>4, <1>6, <2>1 DEF SeenAbsent
  <2>3. QED BY <1>2, <2>2
<1>7. QED BY <1>3, <1>6 DEF SeenAbsent

(* What a step may do to the members, and what is seen of it                *)
LEMMA StepUnseen ==
  ASSUME Inv, Types', Keeps, NEW t \in Threads, Call(t) \/ Step(t)
  PROVE  Unseen
<1>1. CASE Call(t) \/ LoadSize(t) \/ LoadHead(t) \/ Walk(t) \/ Recheck(t) \/ LoadParent(t)
  <2>1. UNCHANGED table
    BY <1>1 DEF Call, LoadSize, LoadHead, Walk, Recheck, LoadParent
  <2>2. QED BY <2>1, QuietStep
<1>2. QED
  BY <1>1, MarkEffect, PublishEffect, CopyIsQuiet, PublishChildIsQuiet, ResizeIsQuiet, SealIsQuiet DEF Step

(* What the threads have seen is kept by every step.                        *)
LEMMA SeenStep ==
  ASSUME Inv, SeenInv, [Next]_vars
  PROVE  SeenInv'
<1>1. Types' /\ Types /\ Keeps /\ LocalTypes /\ LocalTypes' /\ TableTypes /\ TableTypes'
  BY StepInv DEF Inv, Types
<1>2. CASE UNCHANGED vars
  <2>1. UNCHANGED <<allow_delete, table_size, buckets, nodes, resize_lock, pc, op, key, ts, head, rest, stale,
                    splits, copies, seen, decision>> /\ UNCHANGED table
    BY <1>2 DEF vars, table, splitting
  <2>2. Members' = Members
    BY <1>1, <2>1, QuietStep
  <2>3. QED BY <2>1, <2>2 DEF SeenInv, WatchInv, SeenNow, SeenPresent, SeenAbsent, Bucket, BucketAt,
                             Published, NodesOf, WithKey
<1>3. CASE Next
  <2>1. PICK t \in Threads : (Call(t) \/ Step(t)) /\ Watch
    BY <1>3 DEF Next
  <2>2. Unseen
    BY <1>1, <2>1, StepUnseen
  <2> SUFFICES ASSUME NEW u \in Threads, pc'[u] # "idle"
               PROVE  SeenNow(u)' /\ SeenPresent(u)' /\ SeenAbsent(u)'
    BY DEF SeenInv, WatchInv
  <2>3. SeenNow(u)'
    BY <1>1, <2>1, WatchSees
  <2>4. pc[u] # "idle" => SeenPresent(u) /\ SeenAbsent(u)
    BY DEF SeenInv, WatchInv
  <2>5. CASE u # t
    <3>1. UNCHANGED Locals(u)
      BY <1>1, <2>1, <2>5, OthersKeepLocals
    <3>2. UNCHANGED <<pc[u], key[u], ts[u]>>
      BY <3>1 DEF Locals
    <3>3. QED BY <1>1, <2>1, <2>2, <2>3, <2>4, <3>1, <3>2, PresentKept, AbsentKept
  <2>6. CASE u = t
    <3>1. SeenPresent(t)'
      BY <1>1, <2>1, <2>2, <2>4, <2>6, KeepsOrReads, PresentKept, PresentAtCurrent
    <3>2. SeenAbsent(t)'
      <4>1. CASE LoadHead(t)
        BY <1>1, <2>1, <4>1, LoadHeadSees
      <4>2. CASE Walk(t)
        <5>1. pc[t] # "idle"
          BY <4>2 DEF Walk
        <5>2. QED BY <1>1, <2>1, <2>4, <2>6, <4>2, <5>1, WalkSees
      <4>3. CASE Mark(t)
        <5>1. pc[t] # "idle"
          BY <4>3 DEF Mark
        <5>2. QED BY <1>1, <2>1, <2>4, <2>6, <4>3, <5>1, MarkSees
      <4>4. CASE \/ Call(t) \/ LoadSize(t) \/ Recheck(t) \/ Publish(t) \/ LockResize(t) \/ StoreSize(t)
                 \/ LoadParent(t) \/ Seal(t) \/ Copy(t) \/ PublishChild(t)
        <5>1. pc'[t] \notin {"walk", "mark", "recheck"}
          BY <1>1, <2>6, <4>4, GoesElsewhere
        <5>2. QED BY <5>1 DEF SeenAbsent
      <4>5. QED BY <2>1, <4>1, <4>2, <4>3, <4>4 DEF Step
    <3>3. QED BY <2>3, <2>6, <3>1, <3>2
  <2>7. QED BY <2>5, <2>6
<1>4. QED BY <1>2, <1>3

-----------------------------------------------------------------------------
(* The steps of the set                                                     *)

(* A step of thread t changes the state of its call only.                   *)
LEMMA StateOfCall ==
  ASSUME LocalTypes, LocalTypes', NEW t \in Threads, Call(t) \/ Step(t), NEW s, CallState(t)' = s
  PROVE  [u \in Threads |-> CallState(u)]' = [[u \in Threads |-> CallState(u)] EXCEPT ![t] = s]
<1>1. ASSUME NEW u \in Threads, u # t PROVE CallState(u)' = CallState(u)
  <2>1. UNCHANGED pc[u]
    BY <1>1, OthersKeepLocals DEF Locals
  <2>2. QED BY <2>1 DEF CallState
<1>2. QED BY <1>1

(* What was seen is collected as the set collects it.                       *)
LEMMA WatchIsWatch ==
  ASSUME Watch
  PROVE  S!Watch
<1>1. \A u \in Threads : /\ CallState(u) = "idle" <=> pc[u] = "idle"
                         /\ CallState(u)' = "idle" <=> pc'[u] = "idle"
  BY DEF CallState
<1>2. QED BY <1>1 DEF Watch, S!Watch

(* A step that decides nothing and neither begins nor ends a call           *)
LEMMA PassStep ==
  ASSUME LocalTypes, LocalTypes', NEW t \in Threads, Call(t) \/ Step(t), Undecided, Members' = Members,
         UNCHANGED <<op, key>>, CallState(t)' = CallState(t)
  PROVE  S!Pass
<1>1. [u \in Threads |-> CallState(u)]' = [u \in Threads |-> CallState(u)]
  BY StateOfCall
<1>2. QED BY <1>1 DEF S!Pass, Undecided

(* The decision of a call that has not decided, which may return with it    *)
LEMMA DecideStep ==
  ASSUME LocalTypes, LocalTypes', NEW t \in Threads, Step(t), NEW a,
         pc[t] \notin {"idle", "lock", "store"}, Decide(t, a),
         Return(t) \/ (pc'[t] = "lock" /\ UNCHANGED <<op, key>>)
  PROVE  S!Decide(t, a)
<1>1. CallState(t) = "called"
  BY DEF CallState
<1>2. CASE Return(t)
  <2>1. CallState(t)' = "idle" /\ \A u \in Threads \ {t} : op'[u] = op[u] /\ key'[u] = key[u]
    BY <1>2 DEF Return, Goto, CallState, LocalTypes
  <2>2. [u \in Threads |-> CallState(u)]' = [[u \in Threads |-> CallState(u)] EXCEPT ![t] = "idle"]
    BY <2>1, StateOfCall
  <2>3. QED BY <1>1, <2>1, <2>2 DEF S!Decide, Decide
<1>3. CASE pc'[t] = "lock" /\ UNCHANGED <<op, key>>
  <2>1. CallState(t)' = "decided"
    BY <1>3 DEF CallState
  <2>2. [u \in Threads |-> CallState(u)]' = [[u \in Threads |-> CallState(u)] EXCEPT ![t] = "decided"]
    BY <2>1, StateOfCall
  <2>3. QED BY <1>1, <1>3, <2>2 DEF S!Decide, Decide
<1>4. QED BY <1>2, <1>3

(* A thread calls.                                                          *)
LEMMA CallIsCall ==
  ASSUME LocalTypes, LocalTypes', NEW t \in Threads, Call(t), Members' = Members
  PROVE  S!Call(t)
<1>1. CallState(t) = "idle" /\ CallState(t)' = "called"
  BY DEF Call, CallState, Goto, LocalTypes
<1>2. [u \in Threads |-> CallState(u)]' = [[u \in Threads |-> CallState(u)] EXCEPT ![t] = "called"]
  BY <1>1, StateOfCall
<1>3. \E o \in {"insert", "erase", "contains"}, k \in Keys :
        op' = [op EXCEPT ![t] = o] /\ key' = [key EXCEPT ![t] = k]
  BY DEF Call
<1>4. QED BY <1>1, <1>2, <1>3 DEF S!Call, Call, Undecided

(* A doubling comes after the decision.                                     *)
LEMMA ResizeIsReturn ==
  ASSUME LocalTypes, LocalTypes', NEW t \in Threads, LockResize(t) \/ StoreSize(t),
         Undecided, Members' = Members
  PROVE  S!Return(t) \/ S!Pass
<1>1. CallState(t) = "decided" /\ Step(t)
  BY DEF LockResize, StoreSize, CallState, Step
<1>2. CASE Return(t)
  <2>1. CallState(t)' = "idle" /\ \A u \in Threads \ {t} : op'[u] = op[u] /\ key'[u] = key[u]
    BY <1>2 DEF Return, Goto, CallState, LocalTypes
  <2>2. [u \in Threads |-> CallState(u)]' = [[u \in Threads |-> CallState(u)] EXCEPT ![t] = "idle"]
    BY <1>1, <2>1, StateOfCall
  <2>3. QED BY <1>1, <2>1, <2>2 DEF S!Return, Undecided
<1>3. CASE Goto(t, "store") /\ UNCHANGED <<op, key>>
  <2>1. CallState(t)' = CallState(t)
    BY <1>1, <1>3 DEF Goto, CallState, LocalTypes
  <2>2. QED BY <1>1, <1>3, <2>1, PassStep
<1>4. QED BY <1>2, <1>3 DEF LockResize, StoreSize

(* Reads and splits decide nothing.                                         *)
LEMMA SplitIsPass ==
  ASSUME LocalTypes, LocalTypes', NEW t \in Threads, Undecided, Members' = Members,
         LoadSize(t) \/ LoadHead(t) \/ LoadParent(t) \/ Seal(t) \/ Copy(t) \/ PublishChild(t)
  PROVE  S!Pass
<1>1. Step(t) /\ UNCHANGED <<op, key>>
  BY DEF Step, LoadSize, LoadHead, LoadParent, Seal, Copy, CopyWith, PublishChild
<1>2. pc[t] \notin {"idle", "lock", "store"} /\ pc'[t] \notin {"idle", "lock", "store"}
  <2> USE DEF LocalTypes, Goto, CopyOn, SealOrCopy, WalkOn
  <2>1. CASE LoadSize(t) \/ LoadHead(t)
    BY <2>1 DEF LoadSize, LoadHead
  <2>2. CASE LoadParent(t) \/ Seal(t)
    BY <2>2 DEF LoadParent, Seal
  <2>3. CASE Copy(t)
    BY <2>3 DEF Copy, CopyWith, CopyAt
  <2>4. CASE PublishChild(t)
    BY <2>4 DEF PublishChild
  <2>5. QED BY <2>1, <2>2, <2>3, <2>4
<1>3. CallState(t)' = CallState(t)
  BY <1>2 DEF CallState
<1>4. QED BY <1>1, <1>3, PassStep

(* contains() and insert() report a node that is not marked: their key was  *)
(* in the set since they were called.                                       *)
LEMMA WalkReports ==
  ASSUME Inv, SeenInv, LocalTypes', NEW t \in Threads, Walk(t), Members' = Members
  PROVE  S!Report(t) \/ S!Pass
<1>1. LocalTypes /\ Step(t) /\ pc[t] = "walk" /\ pc[t] \notin {"idle", "lock", "store"}
  BY DEF Walk, Step, Inv, Types
<1>2. PICK n \in rest[t] : WalkAt(t, n)
  BY DEF Walk
<1>3. CASE nodes[n].link # "marked" /\ op[t] # "erase" /\ Decide(t, op[t] = "contains") /\ Return(t)
  <2>1. Published(Bucket(t)) /\ n \in NodesOf(key[t], Bucket(t))
    BY <1>1 DEF Inv, CallInv
  <2>2. TRUE \in seen[t]
    BY <1>1, <1>3, <2>1 DEF SeenInv, WatchInv, SeenPresent
  <2>3. S!Decide(t, op[t] = "contains")
    BY <1>1, <1>3, DecideStep DEF Inv, Types
  <2>4. op[t] \in {"insert", "contains"}
    BY <1>1, <1>3 DEF LocalTypes
  <2>5. CASE op[t] = "contains"
    BY <2>2, <2>3, <2>5 DEF S!Report
  <2>6. CASE op[t] = "insert"
    BY <2>2, <2>3, <2>6 DEF S!Report
  <2>7. QED BY <2>4, <2>5, <2>6
<1>4. CASE Undecided /\ UNCHANGED <<op, key>> /\ pc'[t] \notin {"idle", "lock", "store"}
  <2>1. CallState(t)' = CallState(t)
    BY <1>1, <1>4 DEF CallState
  <2>2. QED BY <1>1, <1>4, <2>1, PassStep
<1>5. QED BY <1>1, <1>2, <1>3, <1>4 DEF WalkAt, WalkOn, Goto, LocalTypes

(* A miss that counts was true since the call.                              *)
LEMMA RecheckReports ==
  ASSUME Inv, SeenInv, LocalTypes', NEW t \in Threads, Recheck(t), Members' = Members
  PROVE  S!Report(t) \/ S!Pass
<1>1. /\ LocalTypes /\ Step(t) /\ pc[t] = "recheck" /\ pc[t] \notin {"idle", "lock", "store"}
      /\ op[t] \in {"erase", "contains"}
  <2>1. LocalTypes /\ Step(t) /\ pc[t] = "recheck" /\ op[t] # "insert"
    BY DEF Recheck, Step, Inv, Types, CallInv
  <2>2. QED BY <2>1 DEF LocalTypes
<1>2. CASE table_size = ts[t] /\ ~stale[t] /\ Decide(t, FALSE) /\ Return(t)
  <2>1. FALSE \in seen[t]
    BY <1>1, <1>2 DEF SeenInv, WatchInv, SeenAbsent
  <2>2. S!Decide(t, FALSE)
    BY <1>1, <1>2, DecideStep
  <2>3. QED BY <1>1, <2>1, <2>2 DEF S!Report
<1>3. CASE Undecided /\ UNCHANGED <<op, key>> /\ Goto(t, "head")
  <2>1. CallState(t)' = CallState(t)
    BY <1>1, <1>3 DEF CallState, Goto, LocalTypes
  <2>2. QED BY <1>1, <1>3, <2>1, PassStep
<1>4. QED BY <1>2, <1>3 DEF Recheck

(* erase() takes its key out of the set, or goes on.                        *)
LEMMA MarkErases ==
  ASSUME Inv, Types', Keeps, NEW t \in Threads, Mark(t)
  PROVE  S!Erase(t) \/ S!Pass
<1>1. /\ LocalTypes /\ LocalTypes' /\ Step(t) /\ op[t] = "erase"
      /\ pc[t] = "mark" /\ pc[t] \notin {"idle", "lock", "store"}
  BY DEF Mark, Step, Inv, Types, CallInv
<1>2. CASE Decide(t, TRUE) /\ Return(t) /\ key[t] \in Members /\ Members' = Members \ {key[t]}
  <2>1. S!Decide(t, TRUE)
    BY <1>1, <1>2, DecideStep
  <2>2. QED BY <1>1, <1>2, <2>1 DEF S!Erase
<1>3. CASE Undecided /\ UNCHANGED <<op, key>> /\ Goto(t, "recheck") /\ Members' = Members
  <2>1. CallState(t)' = CallState(t)
    BY <1>1, <1>3 DEF CallState, Goto, LocalTypes
  <2>2. QED BY <1>1, <1>3, <2>1, PassStep
<1>4. CASE \E n \in rest[t] : nodes[n].link = "live" /\ nodes' = [nodes EXCEPT ![n].link = "marked"]
  <2>1. ~UNCHANGED nodes
    <3>1. PICK n \in rest[t] : nodes[n].link = "live" /\ nodes' = [nodes EXCEPT ![n].link = "marked"]
      BY <1>4
    <3>2. n \in 1 .. Len(nodes) /\ nodes \in Seq(Node)
      BY <1>1, <3>1 DEF LocalTypes, Inv, Types, TableTypes
    <3>3. nodes'[n].link = "marked"
      BY <3>1, <3>2, LinkChanged
    <3>4. QED BY <3>1, <3>3
  <2>2. QED BY <1>2, <2>1, MarkEffect
<1>5. CASE \E n \in rest[t] :
             nodes[n].link # "live" /\ Goto(t, "recheck") /\ UNCHANGED <<nodes, op, key>> /\ Undecided
  <2>1. ~Return(t)
    BY <1>1, <1>5 DEF Return, Goto, LocalTypes
  <2>2. Members' = Members
    BY <2>1, MarkEffect
  <2>3. QED BY <1>3, <1>5, <2>2
<1>6. QED BY <1>4, <1>5 DEF Mark

(* insert() puts its key into the set, or starts over.                      *)
LEMMA PublishInserts ==
  ASSUME Inv, Types', Keeps, NEW t \in Threads, Publish(t)
  PROVE  S!Insert(t) \/ S!Pass
<1>1. /\ LocalTypes /\ LocalTypes' /\ Step(t) /\ op[t] = "insert"
      /\ pc[t] = "publish" /\ pc[t] \notin {"idle", "lock", "store"}
  BY DEF Publish, Step, Inv, Types, CallInv
<1>2. ~(Decide(t, TRUE) /\ Undecided)
  <2>1. <<t, TRUE>> \in Threads \X BOOLEAN
    OBVIOUS
  <2>2. QED BY <2>1, HashSetAssumption DEF Decide, Undecided
<1>3. CASE Decide(t, TRUE) /\ (Return(t) \/ (pc'[t] = "lock" /\ UNCHANGED <<op, key>>))
  <2>1. S!Decide(t, TRUE)
    BY <1>1, <1>3, DecideStep
  <2>2. key[t] \notin Members /\ Members' = Members \cup {key[t]}
    BY <1>2, <1>3, PublishEffect
  <2>3. QED BY <1>1, <2>1, <2>2 DEF S!Insert
<1>4. CASE Undecided /\ UNCHANGED <<op, key>> /\ Goto(t, "size")
  <2>1. CallState(t)' = CallState(t)
    BY <1>1, <1>4 DEF CallState, Goto, LocalTypes
  <2>2. Members' = Members
    BY <1>2, <1>4, PublishEffect
  <2>3. QED BY <1>1, <1>4, <2>1, <2>2, PassStep
<1>5. QED BY <1>1, <1>3, <1>4 DEF Publish, Goto, LocalTypes

(* Every step of the hash set is one of the set.                            *)
LEMMA StepIsStep ==
  ASSUME Inv, SeenInv, [Next]_vars
  PROVE  [S!Next]_S!vars
<1>1. Types' /\ Types /\ Keeps /\ LocalTypes /\ LocalTypes'
  BY StepInv DEF Inv, Types
<1>2. CASE UNCHANGED vars
  <2>1. UNCHANGED <<pc, op, key, seen, decision>> /\ UNCHANGED table
    BY <1>2 DEF vars, table
  <2>2. Members' = Members
    BY <1>1, <2>1, QuietStep
  <2>3. [u \in Threads |-> CallState(u)]' = [u \in Threads |-> CallState(u)]
    BY <2>1 DEF CallState
  <2>4. QED BY <2>1, <2>2, <2>3 DEF S!vars
<1>3. CASE Next
  <2>1. PICK t \in Threads : (Call(t) \/ Step(t)) /\ Watch
    BY <1>3 DEF Next
  <2>2. S!Watch
    BY <2>1, WatchIsWatch
  <2>3. CASE Call(t)
    <3>1. Members' = Members
      BY <1>1, <2>3, QuietStep DEF Call
    <3>2. S!Call(t)
      BY <1>1, <2>3, <3>1, CallIsCall
    <3>3. QED BY <2>2, <3>2 DEF S!Next
  <2>4. CASE Walk(t) \/ Recheck(t)
    <3>1. Members' = Members
      BY <1>1, <2>4, QuietStep DEF Walk, Recheck
    <3>2. S!Report(t) \/ S!Pass
      BY <1>1, <2>4, <3>1, WalkReports, RecheckReports
    <3>3. QED BY <2>2, <3>2 DEF S!Next
  <2>5. CASE Mark(t)
    BY <1>1, <2>2, <2>5, MarkErases DEF S!Next
  <2>6. CASE Publish(t)
    BY <1>1, <2>2, <2>6, PublishInserts DEF S!Next
  <2>7. CASE (LockResize(t) \/ StoreSize(t)) /\ Undecided
    <3>1. S!Return(t) \/ S!Pass
      BY <1>1, <2>7, ResizeIsQuiet, ResizeIsReturn
    <3>2. QED BY <2>2, <3>1 DEF S!Next
  <2>8. CASE (LoadSize(t) \/ LoadHead(t) \/ LoadParent(t) \/ Seal(t) \/ Copy(t) \/ PublishChild(t)) /\ Undecided
    <3>1. CASE LoadSize(t) \/ LoadHead(t) \/ LoadParent(t)
      <4>1. UNCHANGED table
        BY <3>1 DEF LoadSize, LoadHead, LoadParent
      <4>2. Members' = Members
        BY <1>1, <4>1, QuietStep
      <4>3. QED BY <1>1, <2>2, <2>8, <4>2, SplitIsPass DEF S!Next
    <3>2. CASE Seal(t) \/ Copy(t) \/ PublishChild(t)
      <4>1. Members' = Members
        BY <1>1, <3>2, SealIsQuiet, CopyIsQuiet, PublishChildIsQuiet
      <4>2. QED BY <1>1, <2>2, <2>8, <4>1, SplitIsPass DEF S!Next
    <3>3. QED BY <2>8, <3>1, <3>2
  <2>9. QED BY <2>1, <2>3, <2>4, <2>5, <2>6, <2>7, <2>8 DEF Step
<1>4. QED BY <1>2, <1>3

(* The set begins empty, with no calls.                                     *)
LEMMA InitIsInit ==
  ASSUME Init
  PROVE  SeenInv /\ S!Init
<1>1. Inv
  BY InitInv
<1>2. nodes = <<>> /\ pc = [t \in Threads |-> "idle"] /\ seen = [t \in Threads |-> {}] /\ decision = None
  BY DEF Init
<1>3. SeenInv
  BY <1>2 DEF SeenInv, WatchInv
<1>4. Members = {}
  <2> SUFFICES ASSUME NEW k \in Keys, Member(k) PROVE FALSE
    BY DEF Members
  <2>1. PICK j \in DOMAIN buckets : Published(j) /\ NodesOf(k, j) # {}
    BY DEF Member, LiveNodes
  <2> PICK n \in NodesOf(k, j) : TRUE
    BY <2>1
  <2>2. n \in buckets[j].chain
    BY <2>1 DEF NodesOf, WithKey
  <2>3. n \in 1 .. Len(nodes)
    BY <1>1, <2>1, <2>2, InBucket
  <2>4. QED BY <1>2, <2>3
<1>5. [t \in Threads |-> CallState(t)] = [t \in Threads |-> "idle"]
  BY <1>2 DEF CallState
<1>6. QED BY <1>2, <1>3, <1>4, <1>5 DEF S!Init

(* The hash set implements the linearizable set: exactly one insert() wins  *)
(* for a key that is absent, exactly one erase() for one that is present,   *)
(* and a call that changes nothing answers what was true during the call,   *)
(* while the table doubles (concurrent_hash_set.h:111-131).                  *)
THEOREM HashSetImplementsSet == Spec => ImplementsSet
<1>1. Init => SeenInv /\ S!Init
  BY InitIsInit
<1>2. Inv /\ SeenInv /\ [Next]_vars => SeenInv' /\ [S!Next]_S!vars
  BY SeenStep, StepIsStep
<1>3. QED BY <1>1, <1>2, Invariance, PTL DEF Spec, ImplementsSet, S!Spec

=============================================================================
