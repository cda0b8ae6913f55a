-------------------------- MODULE AppendDequeProofs --------------------------
(***************************************************************************)
(* The deque is an append-only log, and nobody touches memory that is not  *)
(* a constructed element: for any writers, readers and block size.         *)
(*                                                                         *)
(* Blocks are allocated in the order of the indices they hold and numbered *)
(* in the order of their allocation: block k of the deque is block k + 1.  *)
(* So an entry of a directory, current, retired or being filled, is 0 or   *)
(* the number that follows from its place, and an address follows from the *)
(* index: readers find the same element in whichever directory they loaded,*)
(* as long as the entry was there.                                         *)
(***************************************************************************)
EXTENDS AppendDeque, RingLemmas, SequenceTheorems

Directories == UNION {[0 .. n - 1 -> Nat] : n \in Nat}
BlockType   == [0 .. BlockSize - 1 -> Values \cup {Raw}]

(* The address of index n, and what is there                                *)
Address(n) == <<BlockOf(n) + 1, OffsetOf(n)>>
Cell(n)    == blocks[BlockOf(n) + 1][OffsetOf(n)]

(* A directory of capacity c with all blocks                                *)
Filled(c) == [b \in 0 .. c - 1 |-> IF b < Len(blocks) THEN b + 1 ELSE 0]

Holding == {"copy", "swap", "block", "construct", "publish"}

(* The number of elements that are constructed, and of those that have a    *)
(* block                                                                    *)
Built ==
  IF holder = NoThread THEN size
  ELSE IF pc[holder] = "publish" /\ op[holder] = "emplace" THEN i[holder] + 1
  ELSE i[holder]
Allocated ==
  IF holder # NoThread /\ pc[holder] = "construct" THEN i[holder] + 1 ELSE Built

-----------------------------------------------------------------------------
TypeInv ==
  /\ dirs \in Seq(Directories) /\ blocks \in Seq(BlockType)
  /\ size \in Nat /\ directory_capacity \in Nat
  /\ directory \in 0 .. Len(dirs) /\ retired \subseteq 1 .. Len(dirs)
  /\ holder \in Writers \cup {NoThread}
  /\ pc \in [Writers -> WriterPCs]
  /\ op \in [Writers -> {"emplace", "resize", "reserve"}]
  /\ arg \in [Writers -> Nat]
  /\ i \in [Writers -> Nat]

ReaderTypes ==
  /\ rpc \in [Readers -> ReaderPCs]
  /\ rop \in [Readers -> {"index", "construct", "dereference"}]
  /\ at \in [Readers -> Nat]
  /\ dir \in [Readers -> 0 .. Len(dirs)]
  /\ addr \in [Readers -> (Nat \X Nat) \cup {NoAddress}]
  /\ index \in [Readers -> Nat]
  /\ cache \in [Readers -> (Nat \X Nat) \cup {NoAddress}]

(* What a writer has established where it is                                *)
WriterInv(w) ==
  /\ holder = w <=> pc[w] \in Holding
  /\ pc[w] = "check" => op[w] = "resize"
  /\ pc[w] \in Holding => size <= i[w] /\ (op[w] = "emplace" => i[w] = size)
  /\ pc[w] \in {"copy", "swap"} => i[w] = size /\ NeedsDirectory(w) /\ ~NothingToDo(w)
  /\ pc[w] \in {"block", "construct", "publish"} =>
       op[w] # "reserve" /\ (op[w] = "resize" => BlocksFor(arg[w]) <= directory_capacity)
  /\ pc[w] \in {"block", "construct"} =>
       BlockOf(i[w]) < directory_capacity /\ (op[w] = "resize" => i[w] < arg[w])
  /\ pc[w] = "publish" /\ op[w] = "resize" => i[w] = arg[w] /\ size < arg[w]

WritersInv == \A w \in Writers : WriterInv(w)

(* Directories and blocks                                                   *)
DirInv ==
  /\ directory # 0 => dirs[directory] = Filled(directory_capacity)
  /\ directory = 0 => directory_capacity = 0
  /\ Len(blocks) <= directory_capacity
  /\ \A d \in 1 .. Len(dirs), k \in Nat :
       k \in DOMAIN dirs[d] => dirs[d][k] = 0 \/ (dirs[d][k] = k + 1 /\ k < Len(blocks))
  /\ \A w \in Writers : pc[w] = "swap" =>
       Len(dirs) # 0 /\ Len(dirs) \notin Live /\ dirs[Len(dirs)] = Filled(NewCapacity(w))
  /\ directory \notin retired
  /\ \A d \in 1 .. Len(dirs) : d \in Live \/ (d = Len(dirs) /\ \E w \in Writers : pc[w] = "swap")

(* Elements                                                                 *)
ElementInv ==
  /\ Len(blocks) = BlocksFor(Allocated)
  /\ \A n \in Nat : BlockOf(n) < Len(blocks) => (Cell(n) # Raw <=> n < Built)
  /\ \A w \in Writers : pc[w] \in Holding =>
       /\ op[w] = "resize" => \A n \in Nat : size <= n /\ n < i[w] => Cell(n) = Zero
       /\ op[w] = "emplace" /\ pc[w] = "publish" => Cell(i[w]) = w

ReaderInv(r) ==
  /\ rpc[r] \in {"dir", "entry", "elem"} => at[r] < size
  /\ rpc[r] = "entry" => dir[r] \in Live /\ Covers(dir[r], at[r])
  /\ rpc[r] = "elem" => addr[r] = Address(at[r])
  /\ rpc[r] \in {"dir", "entry"} /\ rop[r] # "index" => at[r] = index[r]
  /\ cache[r] # NoAddress => BlockOf(index[r]) < Len(blocks) /\ cache[r] = Address(index[r])

ReadersInv == \A r \in Readers : ReaderInv(r)

Inv == TypeInv /\ ReaderTypes /\ WritersInv /\ DirInv /\ ElementInv /\ ReadersInv

-----------------------------------------------------------------------------
(* Arithmetic of blocks                                                     *)

(* An index is its block's first index plus its offset.                     *)
LEMMA DivFacts ==
  ASSUME NEW n \in Nat
  PROVE  /\ BlockOf(n) \in Nat /\ OffsetOf(n) \in 0 .. BlockSize - 1
         /\ n = BlockSize * BlockOf(n) + OffsetOf(n)
  BY DivMod, ModRange, AppendDequeAssumption DEF BlockOf, OffsetOf

(* A block and an offset determine their index.                             *)
LEMMA DivUnique ==
  ASSUME NEW n \in Nat, NEW q \in Nat, NEW r \in 0 .. BlockSize - 1, n = BlockSize * q + r
  PROVE  BlockOf(n) = q /\ OffsetOf(n) = r
<1> USE AppendDequeAssumption
<1>1. OffsetOf(n) = r
  BY ModUnique DEF OffsetOf
<1>2. BlockOf(n) \in Nat /\ n = BlockSize * BlockOf(n) + r
  BY <1>1, DivFacts
<1>3. BlockSize * (q - BlockOf(n)) = 0
  <2>1. BlockSize * (q - BlockOf(n)) = BlockSize * q - BlockSize * BlockOf(n)
    BY <1>2
  <2>2. BlockSize * q \in Int /\ BlockSize * BlockOf(n) \in Int
    BY <1>2
  <2>3. QED BY <1>2, <2>1, <2>2
<1>4. q - BlockOf(n) = 0
  BY <1>2, <1>3, SmallMultiple
<1>5. QED BY <1>1, <1>2, <1>4

(* In one block the offsets differ as the indices do.                       *)
LEMMA SameBlock ==
  ASSUME NEW m \in Nat, NEW n \in Nat, BlockOf(m) = BlockOf(n)
  PROVE  OffsetOf(n) = OffsetOf(m) + (n - m)
<1>1. /\ m = BlockSize * BlockOf(m) + OffsetOf(m) /\ n = BlockSize * BlockOf(m) + OffsetOf(n)
      /\ OffsetOf(m) \in Int /\ OffsetOf(n) \in Int /\ BlockOf(m) \in Nat
  BY DivFacts
<1>2. BlockSize * BlockOf(m) \in Int
  BY <1>1, AppendDequeAssumption
<1>3. QED BY <1>1, <1>2

(* The next index is in the same block unless it starts one.                *)
LEMMA NextIndex ==
  ASSUME NEW n \in Nat, OffsetOf(n + 1) # 0
  PROVE  BlockOf(n + 1) = BlockOf(n)
<1> USE AppendDequeAssumption
<1>1. /\ n + 1 = BlockSize * BlockOf(n + 1) + OffsetOf(n + 1)
      /\ OffsetOf(n + 1) \in 0 .. BlockSize - 1 /\ BlockOf(n + 1) \in Nat
  BY DivFacts
<1>2. OffsetOf(n + 1) - 1 \in 0 .. BlockSize - 1 /\ BlockSize * BlockOf(n + 1) \in Nat
  BY <1>1
<1>3. n = BlockSize * BlockOf(n + 1) + (OffsetOf(n + 1) - 1)
  BY <1>1, <1>2
<1>4. QED BY <1>1, <1>2, <1>3, DivUnique

(* A greater index is in no earlier block.                                  *)
LEMMA BlockOfMonotone ==
  ASSUME NEW m \in Nat, NEW n \in Nat, m <= n
  PROVE  BlockOf(m) <= BlockOf(n)
<1> USE AppendDequeAssumption
<1> DEFINE a == BlockOf(m)  b == BlockOf(n)
<1>1. /\ a \in Nat /\ m = BlockSize * a + OffsetOf(m) /\ OffsetOf(m) \in 0 .. BlockSize - 1
      /\ b \in Nat /\ n = BlockSize * b + OffsetOf(n) /\ OffsetOf(n) \in 0 .. BlockSize - 1
  BY DivFacts
<1> HIDE DEF a, b
<1>2. CASE a >= b + 1
  <2>1. BlockSize * a >= BlockSize * (b + 1)
    BY <1>1, <1>2
  <2>2. BlockSize * (b + 1) = BlockSize * b + BlockSize
    BY <1>1
  <2>3. BlockSize * a \in Nat /\ BlockSize * b \in Nat
    BY <1>1
  <2>4. QED BY <1>1, <2>1, <2>2, <2>3
<1>3. a <= b
  BY <1>1, <1>2
<1>4. QED BY <1>3 DEF a, b

(* The last element of n + 1 is in the last block.                          *)
LEMMA BlocksForNext ==
  ASSUME NEW n \in Nat
  PROVE  BlocksFor(n + 1) = BlockOf(n) + 1
<1> USE AppendDequeAssumption
<1>1. /\ n = BlockSize * BlockOf(n) + OffsetOf(n)
      /\ OffsetOf(n) \in 0 .. BlockSize - 1 /\ BlockOf(n) \in Nat
  BY DivFacts
<1>2. BlockSize * (BlockOf(n) + 1) = BlockSize * BlockOf(n) + BlockSize
  BY <1>1
<1>3. n + BlockSize = BlockSize * (BlockOf(n) + 1) + OffsetOf(n)
  BY <1>1, <1>2
<1>4. BlockOf(n + BlockSize) = BlockOf(n) + 1
  BY <1>1, <1>3, DivUnique
<1>5. n + 1 + BlockSize - 1 = n + BlockSize
  OBVIOUS
<1>6. QED BY <1>4, <1>5 DEF BlocksFor, BlockOf

(* No element needs no block.                                               *)
LEMMA BlocksForZero == BlocksFor(0) = 0
<1>1. BlockSize - 1 \in Nat /\ BlockSize - 1 \in 0 .. BlockSize - 1
      /\ BlockSize - 1 = BlockSize * 0 + (BlockSize - 1)
  BY AppendDequeAssumption
<1>2. BlockOf(BlockSize - 1) = 0
  BY <1>1, DivUnique
<1>3. 0 + BlockSize - 1 = BlockSize - 1
  BY AppendDequeAssumption
<1>4. QED BY <1>2, <1>3 DEF BlocksFor, BlockOf

(* The block of n is the next one to allocate exactly if n is its first     *)
(* index.                                                                   *)
LEMMA BlocksForFacts ==
  ASSUME NEW n \in Nat
  PROVE  /\ BlocksFor(n) \in Nat
         /\ BlocksFor(n) = IF OffsetOf(n) = 0 THEN BlockOf(n) ELSE BlockOf(n) + 1
<1> USE AppendDequeAssumption
<1>1. BlockOf(n) \in Nat /\ OffsetOf(n) \in 0 .. BlockSize - 1
  BY DivFacts
<1>2. CASE n = 0
  <2>1. 0 = BlockSize * 0 + 0 /\ 0 \in 0 .. BlockSize - 1
    OBVIOUS
  <2>2. BlockOf(0) = 0 /\ OffsetOf(0) = 0
    BY <2>1, DivUnique
  <2>3. QED BY <1>2, <2>2, BlocksForZero
<1>3. CASE n # 0
  <2> DEFINE m == n - 1
  <2>1. m \in Nat /\ n = m + 1
    BY <1>3
  <2> HIDE DEF m
  <2>2. BlocksFor(n) = BlockOf(m) + 1 /\ BlockOf(m) \in Nat
    BY <2>1, BlocksForNext, DivFacts
  <2>3. CASE OffsetOf(n) # 0
    BY <2>1, <2>2, <2>3, NextIndex
  <2>4. CASE OffsetOf(n) = 0
    <3> DEFINE q == BlockOf(n)
    <3>1. q \in Nat /\ n = BlockSize * q
      BY <2>4, DivFacts
    <3> HIDE DEF q
    <3>2. q # 0
      BY <1>3, <3>1
    <3>3. BlockSize * q = BlockSize * (q - 1) + BlockSize
      BY <3>1
    <3>4. q - 1 \in Nat /\ BlockSize - 1 \in 0 .. BlockSize - 1 /\ BlockSize * (q - 1) \in Nat
      BY <3>1, <3>2
    <3>5. m = BlockSize * (q - 1) + (BlockSize - 1)
      BY <2>1, <3>1, <3>3, <3>4
    <3>6. BlockOf(m) = q - 1
      BY <2>1, <3>4, <3>5, DivUnique
    <3>7. QED BY <2>2, <2>4, <3>1, <3>6 DEF q
  <2>5. QED BY <2>3, <2>4
<1>4. QED BY <1>2, <1>3

(* BlocksFor(n) blocks hold n elements, and no fewer do.                    *)
LEMMA BlocksForBound ==
  ASSUME NEW n \in Nat, NEW c \in Nat, BlocksFor(n) <= c
  PROVE  n <= c * BlockSize
<1> USE AppendDequeAssumption
<1> DEFINE q == BlockOf(n)
<1>1. q \in Nat /\ n = BlockSize * q + OffsetOf(n) /\ OffsetOf(n) \in 0 .. BlockSize - 1
  BY DivFacts
<1>2. BlocksFor(n) = IF OffsetOf(n) = 0 THEN q ELSE q + 1
  BY BlocksForFacts
<1> HIDE DEF q
<1>3. BlockSize * (q + 1) = BlockSize * q + BlockSize /\ BlockSize * q \in Nat
  BY <1>1
<1>4. CASE OffsetOf(n) = 0
  <2>1. BlockSize * q <= BlockSize * c
    BY <1>1, <1>2, <1>4
  <2>2. QED BY <1>1, <1>4, <2>1
<1>5. CASE OffsetOf(n) # 0
  <2>1. BlockSize * (q + 1) <= BlockSize * c
    BY <1>1, <1>2, <1>5
  <2>2. QED BY <1>1, <1>3, <2>1
<1>6. QED BY <1>4, <1>5

(* Every index below n has its block among those that hold n elements.      *)
LEMMA BlocksForCovers ==
  ASSUME NEW m \in Nat, NEW n \in Nat, m < n
  PROVE  BlockOf(m) < BlocksFor(n)
<1> DEFINE k == n - 1
<1>1. k \in Nat /\ n = k + 1 /\ m <= k
  OBVIOUS
<1> HIDE DEF k
<1>2. BlocksFor(n) = BlockOf(k) + 1 /\ BlockOf(m) <= BlockOf(k)
  BY <1>1, BlocksForNext, BlockOfMonotone
<1>3. QED BY <1>1, <1>2, DivFacts

-----------------------------------------------------------------------------
(* What the invariant says of single entries and elements                   *)

(* The numbers of directories and blocks are numbers.                       *)
LEMMA Lengths ==
  ASSUME TypeInv
  PROVE  /\ Len(dirs) \in Nat /\ Len(blocks) \in Nat
         /\ size \in Nat /\ directory_capacity \in Nat
         /\ directory \in 0 .. Len(dirs) /\ retired \subseteq 1 .. Len(dirs)
<1>1. dirs \in Seq(Directories) /\ blocks \in Seq(BlockType)
  BY DEF TypeInv
<1>2. Len(dirs) \in Nat /\ Len(blocks) \in Nat
  BY <1>1, LenProperties
<1>3. QED BY <1>2 DEF TypeInv

(* A local that is assigned, or not, keeps its type.                        *)
LEMMA Assigned ==
  ASSUME NEW D, NEW S, NEW g \in [D -> S], NEW w, NEW v \in S,
         NEW h, h = g \/ h = [g EXCEPT ![w] = v]
  PROVE  h \in [D -> S]
  OBVIOUS

(* Allocating block m extends a directory filled up to it.                  *)
LEMMA FillNext ==
  ASSUME NEW c \in Nat, NEW m \in Nat, m < c
  PROVE  [[b \in 0 .. c - 1 |-> IF b < m THEN b + 1 ELSE 0] EXCEPT ![m] = m + 1]
         = [b \in 0 .. c - 1 |-> IF b < m + 1 THEN b + 1 ELSE 0]
<1> DEFINE f == [b \in 0 .. c - 1 |-> IF b < m THEN b + 1 ELSE 0]
           g == [b \in 0 .. c - 1 |-> IF b < m + 1 THEN b + 1 ELSE 0]
           h == [f EXCEPT ![m] = m + 1]
<1>1. ASSUME NEW b \in 0 .. c - 1 PROVE h[b] = g[b]
  <2>1. CASE b = m
    BY <2>1
  <2>2. CASE b # m
    <3>1. h[b] = f[b]
      BY <2>2
    <3>2. b < m <=> b < m + 1
      BY <2>2
    <3>3. QED BY <3>1, <3>2
  <2>3. QED BY <2>1, <2>2
<1>2. DOMAIN h = 0 .. c - 1 /\ DOMAIN g = 0 .. c - 1
  OBVIOUS
<1>3. h = [b \in DOMAIN h |-> h[b]] /\ g = [b \in DOMAIN g |-> g[b]]
  OBVIOUS
<1> HIDE DEF g, h
<1>4. QED BY <1>1, <1>2, <1>3 DEF g, h

(* A filled directory is a directory.                                       *)
LEMMA FilledType ==
  ASSUME TypeInv, NEW c \in Nat
  PROVE  Filled(c) \in Directories
<1>1. Len(blocks) \in Nat
  BY DEF TypeInv
<1>2. Filled(c) \in [0 .. c - 1 -> Nat]
  BY <1>1 DEF Filled
<1>3. QED BY <1>2 DEF Directories

(* An index within the capacity has an entry in the current directory, null *)
(* exactly if its block is still to be allocated.                           *)
LEMMA CurrentEntry ==
  ASSUME TypeInv, DirInv, NEW n \in Nat, BlockOf(n) < directory_capacity
  PROVE  /\ directory \in 1 .. Len(dirs) /\ BlockOf(n) \in DOMAIN dirs[directory]
         /\ Entry(directory, n) = IF BlockOf(n) < Len(blocks) THEN BlockOf(n) + 1 ELSE 0
<1>1. BlockOf(n) \in Nat
  BY DivFacts
<1>2. directory \in 1 .. Len(dirs)
  BY <1>1 DEF TypeInv, DirInv
<1>3. QED BY <1>1, <1>2 DEF TypeInv, DirInv, Entry, Filled

(* The current directory gives an allocated block its number.               *)
LEMMA CurrentAddress ==
  ASSUME TypeInv, DirInv, NEW n \in Nat, BlockOf(n) < Len(blocks)
  PROVE  /\ AddressIn(directory, n) = Address(n)
         /\ At(AddressIn(directory, n)) = Cell(n)
         /\ Covers(directory, n)
<1>1. BlockOf(n) < directory_capacity /\ BlockOf(n) \in Nat
  BY DivFacts DEF DirInv, TypeInv
<1>2. directory # 0 /\ BlockOf(n) \in DOMAIN dirs[directory] /\ Entry(directory, n) = BlockOf(n) + 1
  BY <1>1, CurrentEntry
<1>3. QED BY <1>1, <1>2 DEF AddressIn, Address, At, Cell, Covers

(* Two indices never share an address.                                      *)
LEMMA AddressesDiffer ==
  ASSUME NEW m \in Nat, NEW n \in Nat, BlockOf(m) = BlockOf(n), OffsetOf(m) = OffsetOf(n)
  PROVE  m = n
  BY SameBlock, DivFacts

(* A writer past the lock is its only holder.                               *)
LEMMA HolderFacts ==
  ASSUME TypeInv, WritersInv, NEW w \in Writers, pc[w] \in Holding
  PROVE  /\ holder = w
         /\ \A v \in Writers \ {w} : pc[v] \notin Holding
         /\ Built = IF pc[w] = "publish" /\ op[w] = "emplace" THEN i[w] + 1 ELSE i[w]
         /\ Allocated = IF pc[w] = "construct" THEN i[w] + 1 ELSE Built
<1>1. holder = w
  BY DEF WritersInv, WriterInv
<1>2. QED BY <1>1, AppendDequeAssumption DEF WritersInv, WriterInv, Built, Allocated

(* What is published has been constructed, and what was constructed has a   *)
(* block.                                                                   *)
LEMMA SizeIsBuilt ==
  ASSUME TypeInv, WritersInv
  PROVE  /\ Built \in Nat /\ Allocated \in Nat
         /\ size <= Built /\ Built <= Allocated
<1>1. CASE holder = NoThread
  BY <1>1 DEF Built, Allocated, TypeInv
<1>2. CASE holder # NoThread
  <2>1. holder \in Writers
    BY <1>2 DEF TypeInv
  <2>2. pc[holder] \in Holding
    BY <2>1 DEF WritersInv, WriterInv
  <2>3. i[holder] \in Nat /\ size \in Nat /\ size <= i[holder]
    BY <2>1, <2>2 DEF TypeInv, WritersInv, WriterInv
  <2>4. QED BY <1>2, <2>3 DEF Built, Allocated
<1>3. QED BY <1>1, <1>2

(* An index below the size has a block and an element.                      *)
LEMMA BelowSize ==
  ASSUME TypeInv, WritersInv, DirInv, ElementInv, NEW n \in Nat, n < size
  PROVE  BlockOf(n) < Len(blocks) /\ Cell(n) # Raw
<1>1. n < Built /\ n < Allocated /\ Allocated \in Nat
  BY SizeIsBuilt DEF TypeInv
<1>2. BlockOf(n) < Len(blocks)
  BY <1>1, BlocksForCovers DEF ElementInv
<1>3. QED BY <1>1, <1>2 DEF ElementInv

-----------------------------------------------------------------------------
(* The steps of a writer that change directories, blocks and elements       *)

(* A new directory is larger than the one it replaces.                      *)
LEMMA NewCapacityGrows ==
  ASSUME TypeInv, DirInv, ElementInv, WritersInv, NEW w \in Writers, pc[w] \in {"copy", "swap"}
  PROVE  /\ NewCapacity(w) \in Nat /\ directory_capacity < NewCapacity(w)
         /\ op[w] = "emplace" => BlockOf(i[w]) < NewCapacity(w)
<1>1. i[w] = size /\ NeedsDirectory(w) /\ op[w] \in {"emplace", "resize", "reserve"} /\ arg[w] \in Nat
  BY DEF WritersInv, WriterInv, TypeInv
<1>2. CASE op[w] # "emplace"
  <2>1. BlocksFor(arg[w]) \in Nat
    BY <1>1, BlocksForFacts
  <2>2. QED BY <1>1, <1>2, <2>1 DEF NewCapacity, NeedsDirectory, TypeInv
<1>3. CASE op[w] = "emplace"
  <2>1. pc[w] \in Holding /\ pc[w] # "publish" /\ pc[w] # "construct"
    BY DEF Holding
  <2>2. Allocated = size
    BY <1>1, <2>1, HolderFacts
  <2>3. BlockOf(size) \in Nat /\ BlockOf(size) <= BlocksFor(size) /\ BlocksFor(size) <= directory_capacity
    <3>1. BlocksFor(size) <= directory_capacity /\ size \in Nat
      BY <2>2 DEF ElementInv, DirInv, TypeInv
    <3>2. BlockOf(size) \in Nat /\ BlockOf(size) <= BlocksFor(size)
      <4>1. /\ BlockOf(size) \in Nat
            /\ BlocksFor(size) = IF OffsetOf(size) = 0 THEN BlockOf(size) ELSE BlockOf(size) + 1
        BY <3>1, BlocksForFacts, DivFacts
      <4>2. QED BY <4>1
    <3>3. QED BY <3>1, <3>2
  <2>4. directory_capacity \in Nat /\ BlockOf(size) <= directory_capacity
    BY <2>3, BlocksForFacts DEF TypeInv
  <2>5. QED BY <1>1, <1>3, <2>3, <2>4 DEF NewCapacity, NeedsDirectory
<1>4. QED BY <1>2, <1>3

(* reallocate_directory() fills the new directory like the current one.     *)
LEMMA CopyFacts ==
  ASSUME TypeInv, DirInv, ElementInv, WritersInv, NEW w \in Writers, Copy(w)
  PROVE  /\ dirs' \in Seq(Directories) /\ Len(dirs') = Len(dirs) + 1
         /\ \A d \in 1 .. Len(dirs) : dirs'[d] = dirs[d]
         /\ dirs'[Len(dirs) + 1] = Filled(NewCapacity(w))
<1> DEFINE new == [b \in 0 .. NewCapacity(w) - 1 |->
                     IF b < directory_capacity THEN dirs[directory][b] ELSE 0]
<1>1. NewCapacity(w) \in Nat /\ directory_capacity < NewCapacity(w)
  BY NewCapacityGrows DEF Copy
<1>2. ASSUME NEW b \in 0 .. NewCapacity(w) - 1
      PROVE  (IF b < directory_capacity THEN dirs[directory][b] ELSE 0)
             = (IF b < Len(blocks) THEN b + 1 ELSE 0)
  <2>1. Len(blocks) \in Nat /\ directory_capacity \in Nat /\ Len(blocks) <= directory_capacity
    BY DEF TypeInv, DirInv
  <2>2. CASE b < directory_capacity
    <3>1. directory # 0
      BY <2>1, <2>2 DEF DirInv
    <3>2. dirs[directory][b] = IF b < Len(blocks) THEN b + 1 ELSE 0
      BY <2>1, <2>2, <3>1 DEF DirInv, Filled
    <3>3. QED BY <2>2, <3>2
  <2>3. QED BY <2>1, <2>2
<1>3. new = Filled(NewCapacity(w))
  BY <1>2 DEF Filled
<1>4. new \in Directories
  BY <1>1, <1>3, FilledType
<1>5. dirs' = Append(dirs, new) /\ dirs \in Seq(Directories)
  BY DEF Copy, TypeInv
<1> HIDE DEF new
<1>6. QED BY <1>3, <1>4, <1>5, AppendProperties

(* The new directory becomes current, the old one is retired, none is lost. *)
LEMMA SwapFacts ==
  ASSUME TypeInv, DirInv, ElementInv, WritersInv, NEW w \in Writers, Swap(w)
  PROVE  /\ directory' = Len(dirs) /\ Len(dirs) \in Nat \ {0} /\ Len(dirs) # directory
         /\ directory_capacity' = NewCapacity(w)
         /\ NewCapacity(w) \in Nat /\ directory_capacity < NewCapacity(w)
         /\ Live' \ {0} = (Live \ {0}) \cup {Len(dirs)}
         /\ UNCHANGED <<dirs, blocks, size>>
<1>1. Len(dirs) \in Nat \ {0} /\ Len(dirs) \notin Live
  BY DEF Swap, DirInv, TypeInv
<1>2. NewCapacity(w) \in Nat /\ directory_capacity < NewCapacity(w)
  BY NewCapacityGrows DEF Swap
<1>3. QED BY <1>1, <1>2 DEF Swap, Live

(* A block is allocated exactly when the index is its first, and takes the  *)
(* next number.                                                             *)
LEMMA BlockFacts ==
  ASSUME TypeInv, DirInv, ElementInv, WritersInv, NEW w \in Writers, Block(w)
  PROVE  \/ BlockOf(i[w]) < Len(blocks) /\ UNCHANGED <<dirs, blocks>>
         \/ /\ BlockOf(i[w]) = Len(blocks) /\ OffsetOf(i[w]) = 0
            /\ blocks' \in Seq(BlockType) /\ Len(blocks') = Len(blocks) + 1
            /\ \A b \in 1 .. Len(blocks) : blocks'[b] = blocks[b]
            /\ \A o \in 0 .. BlockSize - 1 : blocks'[Len(blocks) + 1][o] = Raw
            /\ dirs' \in Seq(Directories) /\ Len(dirs') = Len(dirs)
            /\ \A d \in 1 .. Len(dirs) :
                 dirs'[d] = IF d = directory THEN [dirs[d] EXCEPT ![Len(blocks)] = Len(blocks) + 1]
                            ELSE dirs[d]
<1>1. pc[w] = "block" /\ i[w] \in Nat /\ BlockOf(i[w]) < directory_capacity
  BY DEF Block, TypeInv, WritersInv, WriterInv
<1>2. Len(blocks) = BlocksFor(i[w])
  BY <1>1, HolderFacts DEF ElementInv, Holding
<1>3. BlockOf(i[w]) \in Nat /\ Len(blocks) = IF OffsetOf(i[w]) = 0 THEN BlockOf(i[w]) ELSE BlockOf(i[w]) + 1
  BY <1>1, <1>2, BlocksForFacts, DivFacts
<1>4. /\ directory \in 1 .. Len(dirs) /\ BlockOf(i[w]) \in DOMAIN dirs[directory]
      /\ Entry(directory, i[w]) = IF BlockOf(i[w]) < Len(blocks) THEN BlockOf(i[w]) + 1 ELSE 0
  BY <1>1, CurrentEntry
<1>5. CASE Entry(directory, i[w]) # 0
  BY <1>3, <1>4, <1>5 DEF Block
<1>6. CASE Entry(directory, i[w]) = 0
  <2> DEFINE raw == [o \in 0 .. BlockSize - 1 |-> Raw]
             k   == Len(blocks)
             new == [dirs[directory] EXCEPT ![k] = k + 1]
  <2>1. BlockOf(i[w]) = k /\ OffsetOf(i[w]) = 0 /\ k \in Nat
    BY <1>3, <1>4, <1>6
  <2>2. blocks' = Append(blocks, raw) /\ dirs' = [dirs EXCEPT ![directory] = new]
    BY <1>6, <2>1 DEF Block
  <2>3. raw \in BlockType
    BY DEF BlockType
  <2>4. new \in Directories
    <3>1. dirs[directory] \in Directories
      BY <1>4, ElementOfSeq DEF TypeInv
    <3>2. PICK n \in Nat : dirs[directory] \in [0 .. n - 1 -> Nat]
      BY <3>1 DEF Directories
    <3>3. new \in [0 .. n - 1 -> Nat]
      <4>1. \A g \in [0 .. n - 1 -> Nat], j \in Nat, m \in Nat : [g EXCEPT ![j] = m] \in [0 .. n - 1 -> Nat]
        OBVIOUS
      <4>2. k \in Nat /\ k + 1 \in Nat
        BY <2>1
      <4> HIDE DEF k
      <4>3. QED BY <3>2, <4>1, <4>2
    <3>4. QED BY <3>3 DEF Directories
  <2>5. blocks \in Seq(BlockType) /\ dirs \in Seq(Directories)
    BY DEF TypeInv
  <2>6. /\ blocks' \in Seq(BlockType) /\ Len(blocks') = k + 1
        /\ \A b \in 1 .. k : blocks'[b] = blocks[b]
        /\ blocks'[k + 1] = raw
    <3> HIDE DEF raw
    <3>1. QED BY <2>2, <2>3, <2>5, AppendProperties
  <2>7. /\ dirs' \in Seq(Directories) /\ Len(dirs') = Len(dirs)
        /\ \A d \in 1 .. Len(dirs) : dirs'[d] = IF d = directory THEN new ELSE dirs[d]
    <3> HIDE DEF new
    <3>1. QED BY <1>4, <2>2, <2>4, <2>5, ExceptSeq
  <2>8. QED BY <2>1, <2>6, <2>7
<1>7. QED BY <1>5, <1>6

(* construct_at() changes the element of its index and no other.            *)
LEMMA ConstructFacts ==
  ASSUME TypeInv, DirInv, ElementInv, WritersInv, NEW w \in Writers, Construct(w)
  PROVE  /\ blocks' \in Seq(BlockType) /\ Len(blocks') = Len(blocks)
         /\ Len(blocks) = BlockOf(i[w]) + 1
         /\ \A n \in Nat : BlockOf(n) < Len(blocks) =>
              Cell(n)' = IF n # i[w] THEN Cell(n) ELSE IF op[w] = "emplace" THEN w ELSE Zero
<1> DEFINE v == IF op[w] = "emplace" THEN w ELSE Zero
           k == BlockOf(i[w])
           o == OffsetOf(i[w])
           new == [blocks[k + 1] EXCEPT ![o] = v]
<1>1. pc[w] = "construct" /\ i[w] \in Nat
  BY DEF Construct, TypeInv
<1>2. Len(blocks) = k + 1 /\ k \in Nat /\ o \in 0 .. BlockSize - 1
  BY <1>1, HolderFacts, BlocksForNext, DivFacts DEF ElementInv, Holding
<1>3. AddressIn(directory, i[w]) = <<k + 1, o>>
  BY <1>1, <1>2, CurrentAddress DEF Address
<1>4. blocks' = [blocks EXCEPT ![k + 1] = new]
  BY <1>3 DEF Construct
<1>5. k + 1 \in 1 .. Len(blocks) /\ blocks \in Seq(BlockType)
  BY <1>2 DEF TypeInv
<1>6. new \in BlockType /\ blocks[k + 1] \in BlockType
  <2>1. blocks[k + 1] \in BlockType
    BY <1>5, ElementOfSeq
  <2>2. v \in Values \cup {Raw}
    BY DEF Values
  <2> HIDE DEF v, k, o
  <2>3. QED BY <2>1, <2>2 DEF BlockType
<1>7. /\ blocks' \in Seq(BlockType) /\ Len(blocks') = Len(blocks)
      /\ \A b \in 1 .. Len(blocks) : blocks'[b] = IF b = k + 1 THEN new ELSE blocks[b]
  <2> HIDE DEF new, k
  <2>1. QED BY <1>4, <1>5, <1>6, ExceptSeq
<1>8. ASSUME NEW n \in Nat, BlockOf(n) < Len(blocks)
      PROVE  Cell(n)' = IF n # i[w] THEN Cell(n) ELSE v
  <2>1. BlockOf(n) \in Nat /\ OffsetOf(n) \in 0 .. BlockSize - 1
    BY DivFacts
  <2>2. BlockOf(n) + 1 \in 1 .. Len(blocks)
    BY <1>2, <1>8, <2>1
  <2>3. Cell(n)' = blocks'[BlockOf(n) + 1][OffsetOf(n)]
    BY DEF Cell, BlockOf, OffsetOf
  <2>4. CASE BlockOf(n) # k
    BY <1>7, <2>1, <2>2, <2>3, <2>4, <1>2 DEF Cell
  <2>5. CASE BlockOf(n) = k
    <3>1. n = i[w] <=> OffsetOf(n) = o
      BY <1>1, <2>5, AddressesDiffer
    <3>2. Cell(n)' = new[OffsetOf(n)] /\ Cell(n) = blocks[k + 1][OffsetOf(n)]
      BY <1>7, <2>2, <2>3, <2>5 DEF Cell
    <3>3. DOMAIN blocks[k + 1] = 0 .. BlockSize - 1
      BY <1>6 DEF BlockType
    <3>4. QED
      <4> HIDE DEF v, k, o
      <4>1. QED BY <2>1, <3>1, <3>2, <3>3
  <2>6. QED BY <2>4, <2>5
<1>9. QED BY <1>2, <1>7, <1>8

-----------------------------------------------------------------------------
(* The steps of readers change nothing of this, and a writer that does not  *)
(* hold the lock only its own locals.                                       *)

(* Readers change nothing that is shared.                                   *)
LEMMA ReaderChanges ==
  ASSUME NEW r \in Readers, ReaderCall(r) \/ ReaderStep(r)
  PROVE  UNCHANGED <<shared, holder, writing>>
  BY DEF ReaderCall, ReaderStep, Index, NewIterator, Dereference, Increment, Decrement, Jump,
     IteratorSize, LoadDirectory, LoadEntry, ReadElement

(* Writers keep the types.                                                  *)
LEMMA WriterTypeStep ==
  ASSUME TypeInv, WritersInv, DirInv, ElementInv, NEW w \in Writers, Call(w) \/ WriterStep(w)
  PROVE  TypeInv'
<1> USE DEF TypeInv, Goto, Return, shared, writing, WriterPCs
<1>1. CASE Call(w)
  <2>1. PICK l \in {"lock", "check"} : pc' = [pc EXCEPT ![w] = l]
    BY <1>1 DEF Call
  <2>2. op' \in [Writers -> {"emplace", "resize", "reserve"}] /\ arg' \in [Writers -> Nat]
    <3>1. PICK o \in {"emplace", "resize", "reserve"} : op' = [op EXCEPT ![w] = o]
      BY <1>1 DEF Call
    <3>2. arg' = arg \/ \E n \in Nat : arg' = [arg EXCEPT ![w] = n]
      BY <1>1, AppendDequeAssumption DEF Call
    <3>3. QED BY <3>1, <3>2
  <2>3. QED BY <1>1, <2>1, <2>2 DEF Call
<1>2. CASE Check(w)
  <2>1. PICK l \in {"lock", "idle"} : pc' = [pc EXCEPT ![w] = l]
    BY <1>2 DEF Check
  <2>2. op' \in [Writers -> {"emplace", "resize", "reserve"}]
    <3>1. op' = op \/ op' = [op EXCEPT ![w] = "emplace"]
      BY <1>2 DEF Check
    <3>2. QED BY <3>1, Assigned
  <2>3. arg' \in [Writers -> Nat]
    <3>1. arg' = arg \/ arg' = [arg EXCEPT ![w] = 0]
      BY <1>2 DEF Check
    <3>2. arg \in [Writers -> Nat] /\ 0 \in Nat
      OBVIOUS
    <3> HIDE DEF TypeInv
    <3>3. QED BY <3>1, <3>2, Assigned
  <2>4. i' \in [Writers -> Nat]
    <3>1. i' = i \/ i' = [i EXCEPT ![w] = 0]
      BY <1>2 DEF Check
    <3>2. i \in [Writers -> Nat] /\ 0 \in Nat
      OBVIOUS
    <3> HIDE DEF TypeInv
    <3>3. QED BY <3>1, <3>2, Assigned
  <2>5. QED BY <1>2, <2>1, <2>2, <2>3, <2>4 DEF Check
<1>3. CASE Lock(w)
  <2>1. PICK l \in {"copy", "block", "idle"} : pc' = [pc EXCEPT ![w] = l]
    BY <1>3 DEF Lock
  <2>2. /\ op' \in [Writers -> {"emplace", "resize", "reserve"}] /\ arg' \in [Writers -> Nat]
        /\ i' \in [Writers -> Nat] /\ holder' \in Writers \cup {NoThread}
    <3>1. op' = op \/ op' = [op EXCEPT ![w] = "emplace"]
      BY <1>3 DEF Lock
    <3>2. arg' = arg \/ arg' = [arg EXCEPT ![w] = 0]
      BY <1>3 DEF Lock
    <3>3. i' = [i EXCEPT ![w] = 0] \/ i' = [i EXCEPT ![w] = size]
      BY <1>3 DEF Lock
    <3>4. holder' = holder \/ holder' = w
      BY <1>3 DEF Lock
    <3>5. op' \in [Writers -> {"emplace", "resize", "reserve"}]
      BY <3>1
    <3>6. arg' \in [Writers -> Nat]
      <4>1. arg \in [Writers -> Nat] /\ 0 \in Nat
        OBVIOUS
      <4> HIDE DEF TypeInv
      <4>2. QED BY <3>2, <4>1, Assigned
    <3>7. i' \in [Writers -> Nat]
      <4>1. i \in [Writers -> Nat] /\ 0 \in Nat /\ size \in Nat
        OBVIOUS
      <4> HIDE DEF TypeInv
      <4>2. QED BY <3>3, <4>1, Assigned
    <3>8. QED BY <3>4, <3>5, <3>6, <3>7
  <2>3. QED BY <1>3, <2>1, <2>2 DEF Lock
<1>4. CASE Copy(w)
  <2>1. dirs' \in Seq(Directories) /\ Len(dirs') = Len(dirs) + 1
    BY <1>4, CopyFacts
  <2>2. QED BY <1>4, <2>1 DEF Copy
<1>5. CASE Swap(w)
  <2>1. /\ directory' = Len(dirs) /\ Len(dirs) \in Nat \ {0}
        /\ directory_capacity' \in Nat
    BY <1>5, SwapFacts
  <2>2. retired' \subseteq 1 .. Len(dirs)
    BY <1>5 DEF Swap
  <2>3. CASE op[w] = "reserve" /\ holder' = NoThread /\ Return(w)
    BY <1>5, <2>1, <2>2, <2>3 DEF Swap
  <2>4. CASE Goto(w, "block") /\ UNCHANGED <<holder, op, arg, i>>
    BY <1>5, <2>1, <2>2, <2>4 DEF Swap
  <2>5. QED BY <1>5, <2>3, <2>4 DEF Swap, AfterSwap
<1>6. CASE Block(w)
  <2>1. dirs' \in Seq(Directories) /\ blocks' \in Seq(BlockType) /\ Len(dirs') = Len(dirs)
    BY <1>6, BlockFacts
  <2>2. QED BY <1>6, <2>1 DEF Block
<1>7. CASE Construct(w)
  <2>1. blocks' \in Seq(BlockType)
    BY <1>7, ConstructFacts
  <2>2. PICK l \in {"block", "publish"} : pc' = [pc EXCEPT ![w] = l]
    BY <1>7 DEF Construct
  <2>3. i' = i \/ i' = [i EXCEPT ![w] = @ + 1]
    BY <1>7 DEF Construct
  <2>4. QED BY <1>7, <2>1, <2>2, <2>3 DEF Construct
<1>8. CASE Publish(w)
  BY <1>8 DEF Publish
<1>9. QED
  BY <1>1, <1>2, <1>3, <1>4, <1>5, <1>6, <1>7, <1>8 DEF WriterStep

(* What a writer has established stays true while another one steps.        *)
LEMMA OthersStep ==
  ASSUME TypeInv, WritersInv, NEW w \in Writers, NEW v \in Writers \ {w},
         pc'[v] = pc[v], op'[v] = op[v], arg'[v] = arg[v], i'[v] = i[v],
         \/ /\ UNCHANGED <<size, directory_capacity>>
            /\ holder' = holder \/ (holder = NoThread /\ holder' = w)
         \/ pc[w] \in Holding /\ holder' \in {w, NoThread}
  PROVE  WriterInv(v)'
<1>1. CASE pc[w] \in Holding /\ holder' \in {w, NoThread}
  <2>1. pc[v] \notin Holding
    BY <1>1, HolderFacts
  <2>2. holder' # v
    BY <1>1, AppendDequeAssumption
  <2>3. QED BY <2>1, <2>2 DEF WritersInv, WriterInv, Holding
<1>2. CASE /\ UNCHANGED <<size, directory_capacity>>
           /\ holder' = holder \/ (holder = NoThread /\ holder' = w)
  <2>1. holder' = v <=> holder = v
    BY <1>2, AppendDequeAssumption
  <2>2. NeedsDirectory(v)' = NeedsDirectory(v) /\ NothingToDo(v)' = NothingToDo(v)
    BY <1>2 DEF NeedsDirectory, NothingToDo, BlockOf, BlocksFor
  <2>3. BlocksFor(arg[v])' = BlocksFor(arg[v]) /\ BlockOf(i[v])' = BlockOf(i[v])
    BY DEF BlocksFor, BlockOf
  <2>4. QED BY <1>2, <2>1, <2>2, <2>3 DEF WritersInv, WriterInv
<1>3. QED BY <1>1, <1>2

(* What writers have established, after a writer's step                     *)
LEMMA WritersStep ==
  ASSUME TypeInv, WritersInv, DirInv, ElementInv, NEW w \in Writers, Call(w) \/ WriterStep(w)
  PROVE  WritersInv'
<1> USE AppendDequeAssumption DEF Goto, Return, shared, writing
<1>1. WriterInv(w) /\ i[w] \in Nat /\ arg[w] \in Nat /\ size \in Nat /\ directory_capacity \in Nat
      /\ op[w] \in {"emplace", "resize", "reserve"}
  BY DEF WritersInv, TypeInv
<1>2. SUFFICES WriterInv(w)'
  <2>1. \/ /\ UNCHANGED <<size, directory_capacity>>
           /\ holder' = holder \/ (holder = NoThread /\ holder' = w)
        \/ pc[w] \in Holding /\ holder' \in {w, NoThread}
    BY <1>1 DEF WriterStep, Call, Check, Lock, Copy, Swap, AfterSwap, Block, Construct, Publish,
       Holding, WriterInv
  <2>2. \A v \in Writers \ {w} : pc'[v] = pc[v] /\ op'[v] = op[v] /\ arg'[v] = arg[v] /\ i'[v] = i[v]
    <3> USE DEF TypeInv
    <3>1. CASE Call(w)
      BY <3>1 DEF Call
    <3>2. CASE Lock(w)
      BY <3>2 DEF Lock
    <3>3. CASE Check(w) \/ Copy(w) \/ Block(w) \/ Publish(w)
      BY <3>3 DEF Check, Copy, Block, Publish
    <3>4. CASE Swap(w)
      BY <3>4 DEF Swap, AfterSwap
    <3>5. CASE Construct(w)
      BY <3>5 DEF Construct
    <3>6. QED BY <3>1, <3>2, <3>3, <3>4, <3>5 DEF WriterStep
  <2>3. QED BY <2>1, <2>2, OthersStep DEF WritersInv
<1>3. CASE Call(w)
  BY <1>1, <1>3 DEF Call, WriterInv, Holding, TypeInv
<1>4. CASE Check(w)
  BY <1>1, <1>4 DEF Check, WriterInv, Holding, TypeInv
<1>5. CASE Lock(w)
  <2>1. CASE NothingToDo(w)
    <3>1. pc'[w] = "idle" /\ holder' = NoThread
      BY <1>5, <2>1 DEF Lock, TypeInv
    <3>2. QED BY <3>1 DEF WriterInv, Holding
  <2>2. CASE ~NothingToDo(w)
    <3>1. /\ holder' = w /\ i'[w] = size /\ op'[w] = op[w] /\ arg'[w] = arg[w]
          /\ pc'[w] = IF NeedsDirectory(w) THEN "copy" ELSE "block"
          /\ UNCHANGED <<size, directory_capacity>>
      BY <1>5, <2>2 DEF Lock, TypeInv
    <3>2. NeedsDirectory(w)' = NeedsDirectory(w) /\ NothingToDo(w)' = NothingToDo(w)
      BY <3>1 DEF NeedsDirectory, NothingToDo, BlockOf, BlocksFor
    <3>3. CASE NeedsDirectory(w)
      BY <1>1, <2>2, <3>1, <3>2, <3>3 DEF WriterInv, Holding
    <3>4. CASE ~NeedsDirectory(w)
      <4>1. op[w] # "reserve"
        <5>1. op[w] = "reserve" => BlocksFor(arg[w]) <= directory_capacity
          BY <1>1, <3>4, BlocksForFacts DEF NeedsDirectory
        <5>2. QED BY <1>1, <2>2, <5>1, BlocksForBound DEF NothingToDo
      <4>2. op[w] = "emplace" => BlockOf(size) < directory_capacity
        BY <1>1, <3>4, DivFacts DEF NeedsDirectory
      <4>3. op[w] = "resize" => size < arg[w] /\ BlocksFor(arg[w]) <= directory_capacity
        BY <1>1, <2>2, <3>4, BlocksForFacts DEF NeedsDirectory, NothingToDo
      <4>4. BlockOf(size) < directory_capacity
        <5>1. op[w] = "resize" => BlockOf(size) < BlocksFor(arg[w]) /\ BlocksFor(arg[w]) \in Nat
          BY <1>1, <4>3, BlocksForCovers, BlocksForFacts
        <5>2. BlockOf(size) \in Nat
          BY <1>1, DivFacts
        <5>3. QED BY <1>1, <4>1, <4>2, <4>3, <5>1, <5>2
      <4>5. BlockOf(i'[w]) < directory_capacity'
        BY <3>1, <4>4
      <4>6. pc'[w] = "block" /\ BlocksFor(arg'[w]) = BlocksFor(arg[w])
        BY <3>1, <3>4
      <4>7. QED BY <1>1, <3>1, <4>1, <4>3, <4>5, <4>6 DEF WriterInv, Holding, BlockOf, BlocksFor
    <3>5. QED BY <3>3, <3>4
  <2>3. QED BY <2>1, <2>2
<1>6. CASE Copy(w)
  <2>1. /\ pc[w] = "copy" /\ pc'[w] = "swap" /\ UNCHANGED <<size, directory_capacity, holder, op, arg, i>>
    BY <1>6 DEF Copy, TypeInv
  <2>2. NeedsDirectory(w)' = NeedsDirectory(w) /\ NothingToDo(w)' = NothingToDo(w)
    BY <2>1 DEF NeedsDirectory, NothingToDo, BlockOf, BlocksFor
  <2>3. QED BY <1>1, <2>1, <2>2 DEF WriterInv, Holding
<1>7. CASE Swap(w)
  <2>1. pc[w] = "swap" /\ i[w] = size /\ NeedsDirectory(w) /\ ~NothingToDo(w) /\ holder = w
    BY <1>1, <1>7 DEF Swap, WriterInv, Holding
  <2>2. CASE op[w] = "reserve"
    <3>1. pc'[w] = "idle" /\ holder' = NoThread
      BY <1>7, <2>2 DEF Swap, AfterSwap, TypeInv
    <3>2. QED BY <3>1 DEF WriterInv, Holding
  <2>3. CASE op[w] # "reserve"
    <3>1. /\ pc'[w] = "block" /\ UNCHANGED <<holder, op, arg, i, size>>
          /\ directory_capacity' = NewCapacity(w)
      BY <1>7, <2>3 DEF Swap, AfterSwap, TypeInv
    <3>2. NewCapacity(w) \in Nat /\ (op[w] = "emplace" => BlockOf(i[w]) < NewCapacity(w))
      BY <2>1, NewCapacityGrows
    <3>3. op[w] = "resize" => size < arg[w] /\ NewCapacity(w) = BlocksFor(arg[w])
                              /\ BlockOf(i[w]) < NewCapacity(w)
      BY <1>1, <2>1, BlocksForCovers DEF NothingToDo, NewCapacity
    <3>4. BlockOf(i'[w]) < directory_capacity' /\ BlocksFor(arg'[w]) = BlocksFor(arg[w])
      BY <1>1, <2>3, <3>1, <3>2, <3>3
    <3>5. BlocksFor(arg[w]) \in Nat
      BY <1>1, BlocksForFacts
    <3>6. QED BY <1>1, <2>1, <2>3, <3>1, <3>3, <3>4, <3>5 DEF WriterInv, Holding, BlockOf, BlocksFor
  <2>4. QED BY <2>2, <2>3
<1>8. CASE Block(w)
  <2>1. pc[w] = "block" /\ pc'[w] = "construct" /\ UNCHANGED <<holder, op, arg, i, size, directory_capacity>>
    BY <1>8 DEF Block, TypeInv
  <2>2. QED BY <1>1, <2>1 DEF WriterInv, Holding, BlockOf, BlocksFor
<1>9. CASE Construct(w)
  <2>1. pc[w] = "construct" /\ UNCHANGED <<holder, op, arg, size, directory_capacity>>
    BY <1>9 DEF Construct
  <2>2. CASE op[w] = "emplace"
    <3>1. pc'[w] = "publish" /\ i' = i
      BY <1>9, <2>2 DEF Construct, TypeInv
    <3>2. QED BY <1>1, <2>1, <2>2, <3>1 DEF WriterInv, Holding, BlockOf, BlocksFor
  <2>3. CASE op[w] = "resize"
    <3>1. i'[w] = i[w] + 1 /\ pc'[w] = IF i[w] + 1 < arg[w] THEN "block" ELSE "publish"
      BY <1>9, <2>3 DEF Construct, TypeInv
    <3>2. i[w] < arg[w] /\ size <= i[w] /\ BlocksFor(arg[w]) <= directory_capacity /\ holder = w
      BY <1>1, <2>1, <2>3 DEF WriterInv, Holding
    <3>3. CASE i[w] + 1 < arg[w]
      <4>1. BlockOf(i[w] + 1) < directory_capacity
        <5>1. BlockOf(i[w] + 1) < BlocksFor(arg[w])
          BY <1>1, <3>3, BlocksForCovers
        <5>2. BlockOf(i[w] + 1) \in Nat /\ BlocksFor(arg[w]) \in Nat
          <6>1. i[w] + 1 \in Nat
            BY <1>1
          <6>2. QED BY <1>1, <6>1, DivFacts, BlocksForFacts
        <5>3. QED BY <1>1, <3>2, <5>1, <5>2
      <4>2. BlockOf(i'[w]) < directory_capacity' /\ BlocksFor(arg'[w]) = BlocksFor(arg[w])
        BY <2>1, <3>1, <4>1
      <4>3. QED BY <1>1, <2>1, <2>3, <3>1, <3>2, <3>3, <4>2 DEF WriterInv, Holding, BlockOf, BlocksFor
    <3>4. CASE i[w] + 1 >= arg[w]
      <4>1. i'[w] = arg[w] /\ pc'[w] = "publish" /\ size < arg[w]
        BY <1>1, <3>1, <3>2, <3>4
      <4>2. QED BY <1>1, <2>1, <2>3, <3>2, <4>1 DEF WriterInv, Holding, BlocksFor
    <3>5. QED BY <1>1, <3>3, <3>4
  <2>4. QED BY <1>1, <2>1, <2>2, <2>3 DEF WriterInv
<1>10. CASE Publish(w)
  <2>1. pc'[w] = "idle" /\ holder' = NoThread
    BY <1>10 DEF Publish, TypeInv
  <2>2. QED BY <2>1 DEF WriterInv, Holding
<1>11. QED
  BY <1>3, <1>4, <1>5, <1>6, <1>7, <1>8, <1>9, <1>10 DEF WriterStep

(* The cells of allocated blocks hold elements or raw memory.               *)
LEMMA CellType ==
  ASSUME TypeInv, NEW n \in Nat, BlockOf(n) < Len(blocks)
  PROVE  Cell(n) \in Values \cup {Raw}
<1>1. BlockOf(n) + 1 \in 1 .. Len(blocks) /\ OffsetOf(n) \in 0 .. BlockSize - 1
  <2>1. BlockOf(n) \in Nat /\ OffsetOf(n) \in 0 .. BlockSize - 1
    BY DivFacts
  <2>2. Len(blocks) \in Nat
    BY Lengths
  <2>3. QED BY <2>1, <2>2
<1>2. blocks[BlockOf(n) + 1] \in BlockType
  BY <1>1, ElementOfSeq DEF TypeInv
<1>3. QED BY <1>1, <1>2 DEF Cell, BlockType

(* A step that changes no directory and does not allocate                   *)
LEMMA DirQuiet ==
  ASSUME DirInv, UNCHANGED <<directory, directory_capacity, retired, dirs>>,
         Len(blocks') = Len(blocks),
         \A v \in Writers : pc'[v] = "swap" <=> pc[v] = "swap",
         \A v \in Writers : pc[v] = "swap" => op'[v] = op[v] /\ arg'[v] = arg[v]
  PROVE  DirInv'
<1>1. ASSUME NEW c PROVE Filled(c)' = Filled(c)
  BY DEF Filled
<1>2. ASSUME NEW v \in Writers, pc[v] = "swap" PROVE NewCapacity(v)' = NewCapacity(v)
  BY <1>2 DEF NewCapacity, BlocksFor
<1>3. Live' = Live
  BY DEF Live
<1>4. Filled(directory_capacity)' = Filled(directory_capacity)
  BY DEF Filled
<1>5. ASSUME NEW v \in Writers, pc'[v] = "swap"
      PROVE  /\ Len(dirs') # 0 /\ Len(dirs') \notin Live'
             /\ dirs'[Len(dirs')] = Filled(NewCapacity(v))'
  <2>1. Filled(NewCapacity(v))' = Filled(NewCapacity(v))
    BY <1>2, <1>5 DEF Filled
  <2>2. QED BY <1>3, <1>5, <2>1 DEF DirInv
<1>6. QED BY <1>3, <1>4, <1>5 DEF DirInv

(* Directories after a writer's step                                        *)
LEMMA DirStep ==
  ASSUME TypeInv, TypeInv', WritersInv, DirInv, ElementInv,
         NEW w \in Writers, Call(w) \/ WriterStep(w)
  PROVE  DirInv'
<1> USE AppendDequeAssumption DEF Goto, Return, shared, writing
<1>1. Len(blocks) \in Nat /\ directory_capacity \in Nat /\ Len(dirs) \in Nat
  BY Lengths
<1>2. CASE Call(w)
  <2>1. UNCHANGED shared /\ pc[w] = "idle" /\ pc'[w] # "swap"
        /\ \A v \in Writers \ {w} : pc'[v] = pc[v] /\ op'[v] = op[v] /\ arg'[v] = arg[v]
    BY <1>2 DEF Call, TypeInv
  <2>2. QED BY <2>1, DirQuiet
<1>3. CASE Check(w)
  <2>1. UNCHANGED shared /\ pc[w] = "check" /\ pc'[w] # "swap"
        /\ \A v \in Writers \ {w} : pc'[v] = pc[v] /\ op'[v] = op[v] /\ arg'[v] = arg[v]
    BY <1>3 DEF Check, TypeInv
  <2>2. QED BY <2>1, DirQuiet
<1>4. CASE Lock(w)
  <2>1. UNCHANGED shared /\ pc[w] = "lock" /\ pc'[w] # "swap"
        /\ \A v \in Writers \ {w} : pc'[v] = pc[v] /\ op'[v] = op[v] /\ arg'[v] = arg[v]
    BY <1>4 DEF Lock, TypeInv
  <2>2. QED BY <2>1, DirQuiet
<1>5. CASE Copy(w)
  <2>1. /\ Len(dirs') = Len(dirs) + 1 /\ \A d \in 1 .. Len(dirs) : dirs'[d] = dirs[d]
        /\ dirs'[Len(dirs) + 1] = Filled(NewCapacity(w))
    BY <1>5, CopyFacts
  <2>2. /\ UNCHANGED <<directory, directory_capacity, retired, blocks, op, arg>>
        /\ pc[w] = "copy" /\ pc'[w] = "swap" /\ \A v \in Writers \ {w} : pc'[v] = pc[v]
    BY <1>5 DEF Copy, TypeInv
  <2>3. \A v \in Writers : pc[v] # "swap"
    <3>1. pc[w] \in Holding
      BY <2>2 DEF Holding
    <3>2. QED BY <2>2, <3>1, HolderFacts DEF Holding
  <2>4. Live' = Live /\ Filled(directory_capacity)' = Filled(directory_capacity)
        /\ Filled(NewCapacity(w))' = Filled(NewCapacity(w))
    BY <2>2 DEF Live, Filled, NewCapacity, BlocksFor
  <2>5. NewCapacity(w) \in Nat
    BY <2>2, NewCapacityGrows
  <2>6. directory \in 0 .. Len(dirs) /\ Live \subseteq 0 .. Len(dirs)
    BY Lengths DEF Live
  <2>7. (directory # 0 => dirs[directory] = Filled(directory_capacity))'
    BY <1>1, <2>1, <2>2, <2>4, <2>6 DEF DirInv
  <2>8. ASSUME NEW d \in 1 .. Len(dirs'), NEW k \in Nat, k \in DOMAIN dirs'[d]
        PROVE  dirs'[d][k] = 0 \/ (dirs'[d][k] = k + 1 /\ k < Len(blocks'))
    <3>1. CASE d \in 1 .. Len(dirs)
      BY <2>1, <2>2, <2>8, <3>1 DEF DirInv
    <3>2. CASE d = Len(dirs) + 1
      BY <2>1, <2>2, <2>8, <3>2 DEF Filled
    <3>3. QED BY <1>1, <2>1, <3>1, <3>2
  <2>9. \A v \in Writers : pc'[v] = "swap" => v = w
    BY <2>2, <2>3
  <2>10. Len(dirs') # 0 /\ Len(dirs') \notin Live' /\ dirs'[Len(dirs')] = Filled(NewCapacity(w))'
    BY <1>1, <2>1, <2>4, <2>6
  <2>11. \A d \in 1 .. Len(dirs') : d \in Live' \/ (d = Len(dirs') /\ \E v \in Writers : pc'[v] = "swap")
    <3>1. \A d \in 1 .. Len(dirs) : d \in Live
      BY <2>3 DEF DirInv
    <3>2. QED BY <1>1, <2>1, <2>2, <2>4, <3>1
  <2>12. QED BY <1>1, <2>2, <2>7, <2>8, <2>9, <2>10, <2>11 DEF DirInv
<1>6. CASE Swap(w)
  <2>1. /\ directory' = Len(dirs) /\ Len(dirs) \in Nat \ {0} /\ Len(dirs) # directory
        /\ directory_capacity' = NewCapacity(w)
        /\ NewCapacity(w) \in Nat /\ directory_capacity < NewCapacity(w)
        /\ Live' \ {0} = (Live \ {0}) \cup {Len(dirs)}
        /\ UNCHANGED <<dirs, blocks, size>>
    BY <1>6, SwapFacts
  <2>2. /\ pc[w] = "swap" /\ pc'[w] # "swap" /\ \A v \in Writers \ {w} : pc'[v] = pc[v]
        /\ retired' = retired \cup ({directory} \ {0})
    BY <1>6 DEF Swap, AfterSwap, TypeInv
  <2>3. \A v \in Writers : pc'[v] # "swap"
    <3>1. pc[w] \in Holding
      BY <2>2 DEF Holding
    <3>2. QED BY <2>2, <3>1, HolderFacts DEF Holding
  <2>4. dirs[Len(dirs)] = Filled(NewCapacity(w)) /\ Len(dirs) \notin Live
    BY <2>2 DEF DirInv
  <2>5. Filled(directory_capacity)' = Filled(NewCapacity(w))
    BY <2>1 DEF Filled
  <2>6. directory' \notin retired'
    BY <2>1, <2>2, <2>4 DEF Live
  <2>7. \A d \in 1 .. Len(dirs) : d \in Live'
    <3>1. \A d \in 1 .. Len(dirs) : d \in (Live \ {0}) \cup {Len(dirs)}
      BY DEF DirInv
    <3>2. QED BY <2>1, <3>1
  <2>8. Len(blocks') <= directory_capacity'
    BY <1>1, <2>1 DEF DirInv
  <2>9. \A d \in 1 .. Len(dirs'), k \in Nat :
          k \in DOMAIN dirs'[d] => dirs'[d][k] = 0 \/ (dirs'[d][k] = k + 1 /\ k < Len(blocks'))
    BY <2>1 DEF DirInv
  <2>10. directory' # 0 /\ dirs'[directory'] = Filled(directory_capacity)'
    BY <2>1, <2>4, <2>5
  <2>11. \A d \in 1 .. Len(dirs') : d \in Live'
    BY <2>1, <2>7
  <2>12. QED BY <2>3, <2>6, <2>8, <2>9, <2>10, <2>11 DEF DirInv
<1>7. CASE Block(w)
  <2>1. /\ pc[w] = "block" /\ pc'[w] = "construct" /\ \A v \in Writers \ {w} : pc'[v] = pc[v]
        /\ UNCHANGED <<size, directory, directory_capacity, retired, op, arg>>
    BY <1>7 DEF Block, TypeInv
  <2>2. CASE UNCHANGED <<dirs, blocks>>
    BY <2>1, <2>2, DirQuiet
  <2>3. CASE ~UNCHANGED <<dirs, blocks>>
    <3> DEFINE k == Len(blocks)
    <3>1. /\ BlockOf(i[w]) = k /\ Len(blocks') = k + 1 /\ Len(dirs') = Len(dirs)
          /\ \A d \in 1 .. Len(dirs) :
               dirs'[d] = IF d = directory THEN [dirs[d] EXCEPT ![k] = k + 1] ELSE dirs[d]
      BY <1>7, <2>3, BlockFacts
    <3>2. i[w] \in Nat /\ BlockOf(i[w]) < directory_capacity
      BY <2>1 DEF TypeInv, WritersInv, WriterInv
    <3>3. k < directory_capacity /\ directory \in 1 .. Len(dirs)
      BY <3>1, <3>2, CurrentEntry
    <3>4. \A v \in Writers : pc[v] # "swap" /\ pc'[v] # "swap"
      <4>1. pc[w] \in Holding
        BY <2>1 DEF Holding
      <4>2. QED BY <2>1, <4>1, HolderFacts DEF Holding
    <3>5. dirs'[directory] = Filled(directory_capacity)'
      <4>1. dirs[directory] = Filled(directory_capacity)
        BY <1>1, <3>3 DEF DirInv
      <4>2. dirs'[directory] = [Filled(directory_capacity) EXCEPT ![k] = k + 1]
        BY <3>1, <3>3, <4>1
      <4>3. Filled(directory_capacity)' = [b \in 0 .. directory_capacity - 1 |-> IF b < k + 1 THEN b + 1 ELSE 0]
        BY <2>1, <3>1 DEF Filled
      <4>4. Filled(directory_capacity) = [b \in 0 .. directory_capacity - 1 |-> IF b < k THEN b + 1 ELSE 0]
        BY DEF Filled
      <4>5. k \in Nat /\ directory_capacity \in Nat
        BY <1>1
      <4>6. ASSUME NEW c \in Nat, NEW m \in Nat, m < c
            PROVE  [[b \in 0 .. c - 1 |-> IF b < m THEN b + 1 ELSE 0] EXCEPT ![m] = m + 1]
                   = [b \in 0 .. c - 1 |-> IF b < m + 1 THEN b + 1 ELSE 0]
        BY <4>6, FillNext
      <4> HIDE DEF k
      <4>7. QED BY <3>3, <4>2, <4>3, <4>4, <4>5, <4>6
    <3>6. ASSUME NEW d \in 1 .. Len(dirs'), NEW b \in Nat, b \in DOMAIN dirs'[d]
          PROVE  dirs'[d][b] = 0 \/ (dirs'[d][b] = b + 1 /\ b < Len(blocks'))
      <4>1. CASE d = directory
        <5>1. dirs'[d] = [j \in 0 .. directory_capacity' - 1 |-> IF j < Len(blocks') THEN j + 1 ELSE 0]
          BY <3>5, <4>1 DEF Filled
        <5>2. b \in 0 .. directory_capacity' - 1
          BY <3>6, <5>1
        <5>3. dirs'[d][b] = IF b < Len(blocks') THEN b + 1 ELSE 0
          BY <5>1, <5>2
        <5>4. QED BY <5>3
      <4>2. CASE d # directory
        <5>1. d \in 1 .. Len(dirs) /\ dirs'[d] = dirs[d] /\ b \in DOMAIN dirs[d]
          BY <3>1, <3>6, <4>2
        <5>2. dirs[d][b] = 0 \/ (dirs[d][b] = b + 1 /\ b < k)
          BY <5>1 DEF DirInv
        <5>3. b < k => b < Len(blocks')
          BY <1>1, <3>1
        <5>4. QED BY <5>1, <5>2, <5>3
      <4>3. QED BY <4>1, <4>2
    <3>7. Live' = Live
      BY <2>1 DEF Live
    <3>8. Len(blocks') <= directory_capacity'
      BY <1>1, <2>1, <3>1, <3>3
    <3>9. \A d \in 1 .. Len(dirs') : d \in Live'
      BY <3>1, <3>4, <3>7 DEF DirInv
    <3>10. directory' # 0 /\ dirs'[directory'] = Filled(directory_capacity)' /\ directory' \notin retired'
      BY <2>1, <3>3, <3>5 DEF DirInv
    <3>11. QED BY <3>4, <3>6, <3>8, <3>9, <3>10 DEF DirInv
  <2>4. QED BY <2>2, <2>3
<1>8. CASE Construct(w)
  <2>1. /\ pc[w] = "construct" /\ pc'[w] # "swap" /\ \A v \in Writers \ {w} : pc'[v] = pc[v]
        /\ UNCHANGED <<size, directory, directory_capacity, retired, dirs, op, arg>>
    BY <1>8 DEF Construct, TypeInv
  <2>2. Len(blocks') = Len(blocks)
    BY <1>8, ConstructFacts
  <2>3. QED BY <2>1, <2>2, DirQuiet
<1>9. CASE Publish(w)
  <2>1. /\ UNCHANGED <<directory, directory_capacity, retired, dirs, blocks>>
        /\ pc[w] = "publish" /\ pc'[w] = "idle"
        /\ \A v \in Writers \ {w} : pc'[v] = pc[v] /\ op'[v] = op[v] /\ arg'[v] = arg[v]
    BY <1>9 DEF Publish, TypeInv
  <2>2. QED BY <2>1, DirQuiet
<1>10. QED
  BY <1>2, <1>3, <1>4, <1>5, <1>6, <1>7, <1>8, <1>9 DEF WriterStep

(* What has to be shown of the elements of the writer that holds the lock   *)
NewElements(w) ==
  pc[w] \in Holding =>
    /\ op[w] = "resize" => \A n \in Nat : size <= n /\ n < i[w] => Cell(n) = Zero
    /\ op[w] = "emplace" /\ pc[w] = "publish" => Cell(i[w]) = w

(* A cell in the next state is at the same address.                         *)
LEMMA CellAfter ==
  ASSUME NEW n \in Nat
  PROVE  Cell(n)' = blocks'[BlockOf(n) + 1][OffsetOf(n)] /\ Cell(n) = blocks[BlockOf(n) + 1][OffsetOf(n)]
  BY DEF Cell, BlockOf, OffsetOf

(* A step that constructs nothing and allocates nothing                     *)
LEMMA ElementQuiet ==
  ASSUME ElementInv, UNCHANGED blocks, Built' = Built, Allocated' = Allocated,
         \A v \in Writers : NewElements(v)'
  PROVE  ElementInv'
<1>1. BlocksFor(Allocated)' = BlocksFor(Allocated)
  BY DEF BlocksFor
<1>2. \A n \in Nat : BlockOf(n)' = BlockOf(n) /\ Cell(n)' = Cell(n)
  BY CellAfter DEF BlockOf
<1>3. QED BY <1>1, <1>2 DEF ElementInv, NewElements

(* The elements of a writer that does nothing, in a step that changes no    *)
(* element                                                                  *)
LEMMA OthersElements ==
  ASSUME TypeInv, ElementInv, NEW v \in Writers,
         pc'[v] = pc[v], op'[v] = op[v], i'[v] = i[v], UNCHANGED <<size, blocks>>
  PROVE  NewElements(v)'
<1>1. NewElements(v)
  BY DEF ElementInv, NewElements
<1>2. \A n \in Nat : Cell(n)' = Cell(n)
  BY CellAfter
<1>3. i[v] \in Nat
  BY DEF TypeInv
<1>4. pc[v] \in Holding /\ op[v] = "emplace" /\ pc[v] = "publish" => Cell(i[v])' = v
  BY <1>1, <1>2, <1>3 DEF NewElements
<1>5. QED BY <1>1, <1>2, <1>4 DEF NewElements

(* Elements after a writer's step                                           *)
LEMMA ElementStep ==
  ASSUME TypeInv, TypeInv', WritersInv, WritersInv', DirInv, ElementInv,
         NEW w \in Writers, Call(w) \/ WriterStep(w)
  PROVE  ElementInv'
<1> USE AppendDequeAssumption DEF Goto, Return, shared, writing
<1>1. i[w] \in Nat /\ size \in Nat /\ arg[w] \in Nat /\ op[w] \in {"emplace", "resize", "reserve"}
  BY DEF TypeInv
<1>2. CASE Call(w) \/ Check(w)
  <2>1. /\ pc[w] \notin Holding /\ pc'[w] \notin Holding /\ UNCHANGED <<shared, holder>>
        /\ \A v \in Writers \ {w} : pc'[v] = pc[v] /\ op'[v] = op[v] /\ i'[v] = i[v]
    <3>1. CASE Call(w)
      BY <3>1 DEF Call, Holding, TypeInv
    <3>2. CASE Check(w)
      BY <3>2 DEF Check, Holding, TypeInv
    <3>3. QED BY <1>2, <3>1, <3>2
  <2>2. holder # w
    BY <2>1 DEF WritersInv, WriterInv
  <2>3. holder = NoThread \/ holder \in Writers \ {w}
    BY <2>2 DEF TypeInv
  <2>4. Built' = Built /\ Allocated' = Allocated
    BY <2>1, <2>3 DEF Built, Allocated
  <2>5. NewElements(w)'
    BY <2>1 DEF NewElements
  <2>6. \A v \in Writers \ {w} : NewElements(v)'
    BY <2>1, OthersElements
  <2>7. QED BY <2>1, <2>4, <2>5, <2>6, ElementQuiet
<1>3. CASE Lock(w)
  <2>1. /\ pc[w] = "lock" /\ holder = NoThread /\ UNCHANGED shared
        /\ \A v \in Writers \ {w} : pc'[v] = pc[v] /\ op'[v] = op[v] /\ i'[v] = i[v]
    BY <1>3 DEF Lock, TypeInv
  <2>2. \A v \in Writers \ {w} : NewElements(v)'
    BY <2>1, OthersElements
  <2>3. CASE NothingToDo(w)
    <3>1. holder' = holder /\ pc'[w] = "idle"
      BY <1>3, <2>3 DEF Lock, TypeInv
    <3>2. Built' = Built /\ Allocated' = Allocated
      BY <2>1, <3>1 DEF Built, Allocated
    <3>3. NewElements(w)'
      BY <3>1 DEF NewElements, Holding
    <3>4. QED BY <2>1, <2>2, <3>2, <3>3, ElementQuiet
  <2>4. CASE ~NothingToDo(w)
    <3>1. holder' = w /\ i'[w] = size /\ pc'[w] \in {"copy", "block"} /\ size' = size
      BY <1>3, <2>4 DEF Lock, TypeInv
    <3>2. Built' = Built /\ Allocated' = Allocated
      BY <2>1, <3>1 DEF Built, Allocated
    <3>3. NewElements(w)'
      BY <1>1, <3>1 DEF NewElements
    <3>4. QED BY <2>1, <2>2, <3>2, <3>3, ElementQuiet
  <2>5. QED BY <2>3, <2>4
<1>4. CASE Copy(w)
  <2>1. /\ pc[w] = "copy" /\ pc'[w] = "swap" /\ UNCHANGED <<size, blocks, holder, op, i>>
        /\ \A v \in Writers \ {w} : pc'[v] = pc[v]
    BY <1>4 DEF Copy, TypeInv
  <2>2. holder = w /\ i[w] = size
    BY <2>1 DEF WritersInv, WriterInv, Holding
  <2>3. Built' = Built /\ Allocated' = Allocated
    BY <2>1, <2>2 DEF Built, Allocated
  <2>4. \A v \in Writers \ {w} : NewElements(v)'
    BY <2>1, OthersElements
  <2>5. NewElements(w)'
    BY <1>1, <2>1, <2>2 DEF NewElements
  <2>6. QED BY <2>1, <2>3, <2>4, <2>5, ElementQuiet
<1>5. CASE Swap(w)
  <2>1. /\ pc[w] = "swap" /\ UNCHANGED <<size, blocks>>
        /\ \A v \in Writers \ {w} : pc'[v] = pc[v] /\ op'[v] = op[v] /\ i'[v] = i[v]
    BY <1>5 DEF Swap, AfterSwap, TypeInv
  <2>2. holder = w /\ i[w] = size
    BY <2>1 DEF WritersInv, WriterInv, Holding
  <2>3. (holder' = NoThread /\ pc'[w] = "idle") \/ (holder' = w /\ pc'[w] = "block" /\ UNCHANGED <<i, op>>)
    BY <1>5, <2>2 DEF Swap, AfterSwap, TypeInv
  <2>4. Built' = Built /\ Allocated' = Allocated
    BY <2>1, <2>2, <2>3 DEF Built, Allocated
  <2>5. \A v \in Writers \ {w} : NewElements(v)'
    BY <2>1, OthersElements
  <2>6. NewElements(w)'
    BY <1>1, <2>1, <2>2, <2>3 DEF NewElements, Holding
  <2>7. QED BY <2>1, <2>4, <2>5, <2>6, ElementQuiet
<1>6. CASE Block(w)
  <2>1. /\ pc[w] = "block" /\ pc'[w] = "construct" /\ UNCHANGED <<size, holder, op, arg, i>>
        /\ \A v \in Writers \ {w} : pc'[v] = pc[v]
    BY <1>6 DEF Block, TypeInv
  <2>2. holder = w
    BY <2>1 DEF WritersInv, WriterInv, Holding
  <2>3. Built = i[w] /\ Built' = i[w] /\ Allocated' = i[w] + 1 /\ Allocated = i[w]
    BY <2>1, <2>2 DEF Built, Allocated
  <2>4. BlocksFor(Allocated)' = BlockOf(i[w]) + 1
    <3>1. BlocksFor(Allocated)' = BlocksFor(i[w] + 1)
      BY <2>3 DEF BlocksFor
    <3>2. QED BY <1>1, <3>1, BlocksForNext
  <2>5. Len(blocks) \in Nat /\ BlockOf(i[w]) \in Nat
    BY <1>1, Lengths, DivFacts
  <2>6. CASE BlockOf(i[w]) < Len(blocks) /\ UNCHANGED <<dirs, blocks>>
    <3>1. Len(blocks) = BlocksFor(i[w])
      BY <2>3 DEF ElementInv
    <3>2. Len(blocks) = BlockOf(i[w]) + 1
      <4>1. BlocksFor(i[w]) = IF OffsetOf(i[w]) = 0 THEN BlockOf(i[w]) ELSE BlockOf(i[w]) + 1
        BY <1>1, BlocksForFacts
      <4>2. QED BY <2>5, <2>6, <3>1, <4>1
    <3>3. \A n \in Nat : BlockOf(n)' = BlockOf(n) /\ Cell(n)' = Cell(n)
      BY <2>6, CellAfter DEF BlockOf
    <3>4. \A v \in Writers : NewElements(v)'
      <4>1. \A v \in Writers \ {w} : NewElements(v)'
        BY <2>1, <2>6, OthersElements
      <4>2. NewElements(w)'
        BY <1>1, <2>1, <3>3 DEF NewElements, ElementInv, Holding
      <4>3. QED BY <4>1, <4>2
    <3>5. QED BY <2>3, <2>4, <2>6, <3>2, <3>3, <3>4 DEF ElementInv, NewElements
  <2>7. CASE BlockOf(i[w]) = Len(blocks)
    <3>1. /\ OffsetOf(i[w]) = 0 /\ Len(blocks') = Len(blocks) + 1
          /\ \A b \in 1 .. Len(blocks) : blocks'[b] = blocks[b]
          /\ \A o \in 0 .. BlockSize - 1 : blocks'[Len(blocks) + 1][o] = Raw
      BY <1>6, <2>5, <2>7, BlockFacts
    <3>2. ASSUME NEW n \in Nat, BlockOf(n) < Len(blocks) PROVE Cell(n)' = Cell(n)
      <4>1. BlockOf(n) + 1 \in 1 .. Len(blocks)
        <5>1. BlockOf(n) \in Nat
          BY DivFacts
        <5>2. QED BY <2>5, <3>2, <5>1
      <4>2. QED BY <3>1, <4>1, CellAfter
    <3>3. ASSUME NEW n \in Nat, BlockOf(n) = Len(blocks) PROVE Cell(n)' = Raw /\ ~(n < i[w])
      <4>1. OffsetOf(n) \in 0 .. BlockSize - 1
        BY DivFacts
      <4>2. Cell(n)' = Raw
        BY <3>1, <3>3, <4>1, CellAfter
      <4>3. OffsetOf(n) = OffsetOf(i[w]) + (n - i[w])
        BY <1>1, <2>7, <3>3, SameBlock
      <4>4. QED BY <1>1, <3>1, <4>1, <4>2, <4>3
    <3>4. ASSUME NEW n \in Nat, BlockOf(n) < Len(blocks') PROVE Cell(n)' # Raw <=> n < Built'
      <4>1. BlockOf(n) \in Nat /\ (BlockOf(n) < Len(blocks) \/ BlockOf(n) = Len(blocks))
        BY <2>5, <3>1, <3>4, DivFacts
      <4>2. CASE BlockOf(n) < Len(blocks)
        BY <2>3, <3>2, <4>2 DEF ElementInv
      <4>3. CASE BlockOf(n) = Len(blocks)
        BY <2>3, <3>3, <4>3
      <4>4. QED BY <4>1, <4>2, <4>3
    <3>5. ASSUME NEW n \in Nat, n < i[w] PROVE Cell(n)' = Cell(n)
      <4>1. BlockOf(n) < BlocksFor(i[w])
        BY <1>1, <3>5, BlocksForCovers
      <4>2. QED BY <2>3, <3>2, <4>1 DEF ElementInv
    <3>6. NewElements(w)'
      <4>1. NewElements(w)
        BY DEF ElementInv, NewElements
      <4>2. QED BY <1>1, <2>1, <3>5, <4>1 DEF NewElements, Holding
    <3>7. \A v \in Writers \ {w} : pc'[v] \notin Holding
      <4>1. pc[w] \in Holding
        BY <2>1 DEF Holding
      <4>2. QED BY <2>1, <4>1, HolderFacts
    <3>8. \A n \in Nat : BlockOf(n)' = BlockOf(n)
      BY DEF BlockOf
    <3>9. QED BY <2>4, <2>7, <3>1, <3>4, <3>6, <3>7, <3>8 DEF ElementInv, NewElements
  <2>8. QED BY <1>6, <2>6, <2>7, BlockFacts
<1>7. CASE Construct(w)
  <2>1. /\ pc[w] = "construct" /\ UNCHANGED <<size, holder, op, arg>>
        /\ \A v \in Writers \ {w} : pc'[v] = pc[v]
    BY <1>7 DEF Construct, TypeInv
  <2>2. holder = w /\ op[w] # "reserve" /\ size <= i[w]
    BY <2>1 DEF WritersInv, WriterInv, Holding
  <2>3. \/ op[w] = "emplace" /\ pc'[w] = "publish" /\ i' = i
        \/ op[w] = "resize" /\ pc'[w] \in {"block", "publish"} /\ i'[w] = i[w] + 1
    BY <1>7 DEF Construct, TypeInv
  <2>4. Built = i[w] /\ Built' = i[w] + 1 /\ Allocated' = i[w] + 1
    BY <2>1, <2>2, <2>3 DEF Built, Allocated
  <2>5. /\ Len(blocks') = Len(blocks) /\ Len(blocks) = BlockOf(i[w]) + 1
        /\ \A n \in Nat : BlockOf(n) < Len(blocks) =>
             Cell(n)' = IF n # i[w] THEN Cell(n) ELSE IF op[w] = "emplace" THEN w ELSE Zero
    BY <1>7, ConstructFacts
  <2>6. BlocksFor(Allocated)' = Len(blocks')
    <3>1. BlocksFor(Allocated)' = BlocksFor(i[w] + 1)
      BY <2>4 DEF BlocksFor
    <3>2. QED BY <1>1, <2>5, <3>1, BlocksForNext
  <2>7. ASSUME NEW n \in Nat, BlockOf(n) < Len(blocks) PROVE Cell(n)' # Raw <=> n < Built'
    <3>1. CASE n = i[w]
      BY <1>1, <2>4, <2>5, <2>7, <3>1
    <3>2. CASE n # i[w]
      <4>1. n < i[w] <=> n < i[w] + 1
        BY <1>1, <3>2
      <4>2. Cell(n) # Raw <=> n < i[w]
        BY <2>4, <2>7 DEF ElementInv
      <4>3. QED BY <2>4, <2>5, <2>7, <3>2, <4>1, <4>2
    <3>3. QED BY <3>1, <3>2
  <2>8. ASSUME NEW n \in Nat, n <= i[w] PROVE BlockOf(n) < Len(blocks)
    <3>1. BlockOf(n) <= BlockOf(i[w]) /\ BlockOf(n) \in Nat /\ BlockOf(i[w]) \in Nat
      BY <1>1, <2>8, BlockOfMonotone, DivFacts
    <3>2. QED BY <2>5, <3>1
  <2>9. NewElements(w)'
    <3>1. NewElements(w)
      BY DEF ElementInv, NewElements
    <3>2. CASE op[w] = "emplace"
      <4>1. Cell(i[w])' = w
        BY <1>1, <2>3, <2>5, <2>8, <3>2
      <4>2. QED BY <2>1, <3>2, <4>1 DEF NewElements
    <3>3. CASE op[w] = "resize"
      <4>1. ASSUME NEW n \in Nat, size <= n, n < i[w] + 1 PROVE Cell(n)' = Zero
        <5>1. BlockOf(n) < Len(blocks)
          BY <1>1, <2>8, <4>1
        <5>2. CASE n = i[w]
          BY <2>5, <3>3, <5>1, <5>2
        <5>3. CASE n # i[w]
          BY <1>1, <2>1, <2>5, <3>1, <3>3, <4>1, <5>1, <5>3 DEF NewElements, Holding
        <5>4. QED BY <5>2, <5>3
      <4>2. QED BY <2>1, <2>3, <3>3, <4>1 DEF NewElements
    <3>4. QED BY <1>1, <2>2, <3>2, <3>3
  <2>10. \A v \in Writers \ {w} : pc'[v] \notin Holding
    <3>1. pc[w] \in Holding
      BY <2>1 DEF Holding
    <3>2. QED BY <2>1, <3>1, HolderFacts
  <2>11. \A n \in Nat : BlockOf(n)' = BlockOf(n)
    BY DEF BlockOf
  <2>12. QED BY <2>5, <2>6, <2>7, <2>9, <2>10, <2>11 DEF ElementInv, NewElements
<1>8. CASE Publish(w)
  <2>1. /\ pc[w] = "publish" /\ pc'[w] = "idle" /\ holder' = NoThread /\ UNCHANGED blocks
        /\ size' = IF op[w] = "emplace" THEN i[w] + 1 ELSE arg[w]
        /\ \A v \in Writers \ {w} : pc'[v] = pc[v]
    BY <1>8 DEF Publish, TypeInv
  <2>2. holder = w /\ op[w] # "reserve" /\ (op[w] = "resize" => i[w] = arg[w])
    BY <2>1 DEF WritersInv, WriterInv, Holding
  <2>3. Built' = Built /\ Allocated' = Allocated
    BY <1>1, <2>1, <2>2 DEF Built, Allocated
  <2>4. \A v \in Writers : pc'[v] \notin Holding
    <3>1. pc[w] \in Holding
      BY <2>1 DEF Holding
    <3>2. QED BY <2>1, <3>1, HolderFacts DEF Holding
  <2>5. \A v \in Writers : NewElements(v)'
    BY <2>4 DEF NewElements
  <2>6. QED BY <2>1, <2>3, <2>5, ElementQuiet
<1>9. QED
  BY <1>2, <1>3, <1>4, <1>5, <1>6, <1>7, <1>8 DEF WriterStep

-----------------------------------------------------------------------------
(* Readers                                                                  *)

(* What a writer's step leaves to readers: the size does not shrink, no     *)
(* directory is freed, and no entry that is there changes.                  *)
LEMMA WritersPreserve ==
  ASSUME TypeInv, TypeInv', WritersInv, DirInv, ElementInv,
         NEW w \in Writers, Call(w) \/ WriterStep(w)
  PROVE  /\ size <= size' /\ Len(blocks) <= Len(blocks') /\ Len(dirs) <= Len(dirs')
         /\ Live \ {0} \subseteq Live'
         /\ \A d \in 1 .. Len(dirs), n \in Nat : Covers(d, n) => Covers(d, n)'
         /\ UNCHANGED reading
<1> USE DEF Goto, Return
<1>1. Len(blocks) \in Nat /\ Len(dirs) \in Nat /\ size \in Nat
  BY Lengths
<1>2. ASSUME UNCHANGED <<size, directory, retired, dirs>>, Len(blocks') = Len(blocks)
      PROVE  /\ size <= size' /\ Len(blocks) <= Len(blocks') /\ Len(dirs) <= Len(dirs')
             /\ Live \ {0} \subseteq Live'
             /\ \A d \in 1 .. Len(dirs), n \in Nat : Covers(d, n) => Covers(d, n)'
  BY <1>1, <1>2 DEF Live, Covers, Entry, BlockOf
<1>3. CASE Call(w) \/ Check(w) \/ Lock(w)
  BY <1>2, <1>3 DEF Call, Check, Lock, shared
<1>4. CASE Copy(w)
  <2>1. /\ Len(dirs') = Len(dirs) + 1 /\ \A d \in 1 .. Len(dirs) : dirs'[d] = dirs[d]
    BY <1>4, CopyFacts
  <2>2. UNCHANGED <<size, directory, retired, blocks, reading>>
    BY <1>4 DEF Copy
  <2>3. \A d \in 1 .. Len(dirs), n \in Nat : Covers(d, n) => Covers(d, n)'
    BY <2>1 DEF Covers, Entry, BlockOf
  <2>4. QED BY <1>1, <2>1, <2>2, <2>3 DEF Live
<1>5. CASE Swap(w)
  <2>1. UNCHANGED <<dirs, blocks, size>> /\ Live' \ {0} = (Live \ {0}) \cup {Len(dirs)}
    BY <1>5, SwapFacts
  <2>2. \A d \in 1 .. Len(dirs), n \in Nat : Covers(d, n) => Covers(d, n)'
    BY <2>1 DEF Covers, Entry, BlockOf
  <2>3. UNCHANGED reading
    BY <1>5 DEF Swap
  <2>4. QED BY <1>1, <2>1, <2>2, <2>3
<1>6. CASE Block(w)
  <2>1. UNCHANGED <<size, directory, retired, reading>>
    BY <1>6 DEF Block
  <2>2. CASE UNCHANGED <<dirs, blocks>>
    BY <1>2, <2>1, <2>2
  <2>3. CASE ~UNCHANGED <<dirs, blocks>>
    <3>1. /\ Len(blocks') = Len(blocks) + 1 /\ Len(dirs') = Len(dirs)
          /\ \A d \in 1 .. Len(dirs) :
               dirs'[d] = IF d = directory THEN [dirs[d] EXCEPT ![Len(blocks)] = Len(blocks) + 1] ELSE dirs[d]
      BY <1>6, <2>3, BlockFacts
    <3>2. ASSUME NEW d \in 1 .. Len(dirs), NEW n \in Nat, Covers(d, n) PROVE Covers(d, n)'
      <4> DEFINE k == BlockOf(n)
      <4>1. k \in DOMAIN dirs[d] /\ dirs[d][k] # 0
        BY <3>2 DEF Covers, Entry
      <4>2. k \in DOMAIN dirs'[d]
        BY <3>1, <4>1
      <4>3. dirs'[d][k] # 0
        <5> HIDE DEF k
        <5>1. CASE d = directory /\ k = Len(blocks)
          <6>1. dirs'[d][k] = Len(blocks) + 1
            BY <3>1, <4>1, <5>1
          <6>2. QED BY <1>1, <6>1
        <5>2. CASE ~(d = directory /\ k = Len(blocks))
          BY <3>1, <4>1, <5>2
        <5>3. QED BY <5>1, <5>2
      <4>4. QED BY <3>2, <4>2, <4>3 DEF Covers, Entry, BlockOf
    <3>3. QED BY <1>1, <2>1, <3>1, <3>2 DEF Live
  <2>4. QED BY <2>2, <2>3
<1>7. CASE Construct(w)
  <2>1. UNCHANGED <<size, directory, retired, dirs, reading>>
    BY <1>7 DEF Construct
  <2>2. Len(blocks') = Len(blocks)
    BY <1>7, ConstructFacts
  <2>3. QED BY <1>2, <2>1, <2>2
<1>8. CASE Publish(w)
  <2>1. /\ UNCHANGED <<directory, retired, dirs, blocks, reading>>
        /\ pc[w] = "publish" /\ size' = IF op[w] = "emplace" THEN i[w] + 1 ELSE arg[w]
    BY <1>8 DEF Publish
  <2>2. size <= size'
    <3>1. /\ op[w] # "reserve" /\ (op[w] = "resize" => size < arg[w])
          /\ (op[w] = "emplace" => i[w] = size)
      BY <2>1 DEF WritersInv, WriterInv, Holding
    <3>2. op[w] \in {"emplace", "resize", "reserve"} /\ arg[w] \in Nat
      BY DEF TypeInv
    <3>3. QED BY <1>1, <2>1, <3>1, <3>2
  <2>3. QED BY <1>1, <2>1, <2>2 DEF Live, Covers, Entry, BlockOf
<1>9. QED
  BY <1>3, <1>4, <1>5, <1>6, <1>7, <1>8 DEF WriterStep

(* What readers rely on stays true when a writer steps.                     *)
LEMMA ReadersKeep ==
  ASSUME TypeInv, TypeInv', WritersInv, DirInv, ElementInv, ReaderTypes, ReadersInv,
         NEW w \in Writers, Call(w) \/ WriterStep(w)
  PROVE  ReaderTypes' /\ ReadersInv'
<1>1. /\ size <= size' /\ Len(blocks) <= Len(blocks') /\ Len(dirs) <= Len(dirs')
      /\ Live \ {0} \subseteq Live'
      /\ \A d \in 1 .. Len(dirs), n \in Nat : Covers(d, n) => Covers(d, n)'
      /\ UNCHANGED reading
  BY WritersPreserve
<1>2. /\ Len(blocks) \in Nat /\ Len(dirs) \in Nat /\ size \in Nat
      /\ Len(blocks') \in Nat /\ Len(dirs') \in Nat /\ size' \in Nat
  <2>1. dirs' \in Seq(Directories) /\ blocks' \in Seq(BlockType) /\ size' \in Nat
    BY DEF TypeInv
  <2>2. QED BY <2>1, Lengths, LenProperties
<1>3. ReaderTypes'
  BY <1>1, <1>2 DEF ReaderTypes, reading
<1>4. ASSUME NEW r \in Readers PROVE ReaderInv(r)'
  <2>1. ReaderInv(r) /\ at[r] \in Nat /\ dir[r] \in 0 .. Len(dirs) /\ index[r] \in Nat
    BY DEF ReadersInv, ReaderTypes
  <2>2. /\ rpc' = rpc /\ rop' = rop /\ at' = at /\ dir' = dir /\ addr' = addr
        /\ index' = index /\ cache' = cache
    BY <1>1 DEF reading
  <2>3. rpc'[r] \in {"dir", "entry", "elem"} => at'[r] < size'
    BY <1>1, <1>2, <2>1, <2>2 DEF ReaderInv
  <2>4. ASSUME rpc'[r] = "entry" PROVE dir'[r] \in Live' /\ Covers(dir[r], at[r])'
    <3>1. dir[r] \in Live /\ Covers(dir[r], at[r])
      BY <2>1, <2>2, <2>4 DEF ReaderInv
    <3>2. dir[r] # 0
      BY <3>1 DEF Covers
    <3>3. \A d, n : d = dir[r] /\ n = at[r] /\ Covers(d, n)' => Covers(dir[r], at[r])'
      BY <2>2 DEF Covers, Entry, BlockOf
    <3>4. QED BY <1>1, <1>2, <2>1, <2>2, <3>1, <3>2, <3>3
  <2>5. rpc'[r] = "elem" => addr'[r] = Address(at[r])'
    BY <2>1, <2>2 DEF ReaderInv, Address, BlockOf, OffsetOf
  <2>6. cache'[r] # NoAddress => BlockOf(index[r])' < Len(blocks') /\ cache'[r] = Address(index[r])'
    <3>1. BlockOf(index[r])' = BlockOf(index[r]) /\ Address(index[r])' = Address(index[r])
      BY <2>2 DEF Address, BlockOf, OffsetOf
    <3>2. BlockOf(index[r]) \in Nat
      BY <2>1, DivFacts
    <3>3. QED BY <1>1, <1>2, <2>1, <2>2, <3>1, <3>2 DEF ReaderInv
  <2>7. QED BY <2>1, <2>2, <2>3, <2>4, <2>5, <2>6 DEF ReaderInv
<1>5. QED BY <1>3, <1>4 DEF ReadersInv

(* Addresses are pairs, so never NoAddress.                                 *)
LEMMA AddressType ==
  ASSUME NEW n \in Nat
  PROVE  Address(n) \in Nat \X Nat /\ Address(n) # NoAddress
  BY DivFacts, AppendDequeAssumption DEF Address

(* In whichever directory a reader finds an entry, it is the one of its     *)
(* place.                                                                   *)
LEMMA AnyDirectory ==
  ASSUME TypeInv, DirInv, NEW d \in 0 .. Len(dirs), NEW n \in Nat, Covers(d, n)
  PROVE  AddressIn(d, n) = Address(n) /\ BlockOf(n) < Len(blocks)
<1>1. d \in 1 .. Len(dirs) /\ BlockOf(n) \in DOMAIN dirs[d] /\ dirs[d][BlockOf(n)] # 0 /\ BlockOf(n) \in Nat
  <2>1. d # 0 /\ BlockOf(n) \in DOMAIN dirs[d] /\ dirs[d][BlockOf(n)] # 0
    BY DEF Covers, Entry
  <2>2. Len(dirs) \in Nat /\ BlockOf(n) \in Nat
    BY Lengths, DivFacts
  <2>3. QED BY <2>1, <2>2
<1>2. dirs[d][BlockOf(n)] = BlockOf(n) + 1 /\ BlockOf(n) < Len(blocks)
  BY <1>1 DEF DirInv
<1>3. QED BY <1>2 DEF AddressIn, Address, Entry

(* A cached address follows its index inside a block.                       *)
LEMMA CacheMoves ==
  ASSUME NEW m \in Nat, NEW n \in Nat, BlockOf(m) = BlockOf(n), NEW d \in Int, d = n - m
  PROVE  Moved(Address(m), d) = Address(n)
<1>1. OffsetOf(n) = OffsetOf(m) + d
  BY SameBlock
<1>2. Address(m) # NoAddress
  BY AddressType
<1>3. Moved(Address(m), d) = <<Address(m)[1], Address(m)[2] + d>>
  BY <1>2 DEF Moved
<1>4. QED BY <1>1, <1>3 DEF Address

(* A reader's step is correct if it is for that reader.                     *)
LEMMA ReaderAlone ==
  ASSUME TypeInv, ReadersInv, NEW r \in Readers, UNCHANGED shared,
         \A s \in Readers \ {r} :
           /\ rpc'[s] = rpc[s] /\ rop'[s] = rop[s] /\ at'[s] = at[s] /\ dir'[s] = dir[s]
           /\ addr'[s] = addr[s] /\ index'[s] = index[s] /\ cache'[s] = cache[s],
         ReaderInv(r)'
  PROVE  ReadersInv'
<1>1. ASSUME NEW s \in Readers \ {r} PROVE ReaderInv(s)'
  <2>1. ReaderInv(s)
    BY DEF ReadersInv
  <2>2. /\ rpc'[s] = rpc[s] /\ rop'[s] = rop[s] /\ at'[s] = at[s] /\ dir'[s] = dir[s]
        /\ addr'[s] = addr[s] /\ index'[s] = index[s] /\ cache'[s] = cache[s]
    OBVIOUS
  <2>3. QED BY <2>1, <2>2 DEF ReaderInv, shared, Live, Covers, Entry, Address, BlockOf, OffsetOf
<1>2. QED BY <1>1 DEF ReadersInv

(* Readers' own steps keep what they rely on.                               *)
LEMMA ReaderMoves ==
  ASSUME TypeInv, WritersInv, DirInv, ElementInv, ReaderTypes, ReadersInv,
         NEW r \in Readers, ReaderCall(r) \/ ReaderStep(r)
  PROVE  ReaderTypes' /\ ReadersInv'
<1> USE DEF RGoto, RReturn, Resolve, ReaderPCs
<1>1. UNCHANGED <<shared, holder, writing>>
  BY ReaderChanges
<1>2. /\ ReaderInv(r) /\ at[r] \in Nat /\ dir[r] \in 0 .. Len(dirs) /\ index[r] \in Nat
      /\ size \in Nat /\ Len(dirs) \in Nat /\ Len(blocks) \in Nat
  BY Lengths DEF ReadersInv, ReaderTypes
<1>3. /\ rpc \in [Readers -> ReaderPCs] /\ rop \in [Readers -> {"index", "construct", "dereference"}]
      /\ at \in [Readers -> Nat] /\ dir \in [Readers -> 0 .. Len(dirs)]
      /\ addr \in [Readers -> (Nat \X Nat) \cup {NoAddress}] /\ index \in [Readers -> Nat]
      /\ cache \in [Readers -> (Nat \X Nat) \cup {NoAddress}]
  BY DEF ReaderTypes
<1>4. CASE Index(r)
  <2>1. PICK n \in 0 .. size - 1 : rop' = [rop EXCEPT ![r] = "index"] /\ at' = [at EXCEPT ![r] = n]
                                   /\ rpc' = [rpc EXCEPT ![r] = "dir"]
    BY <1>4 DEF Index
  <2>2. UNCHANGED <<dir, addr, index, cache>> /\ n \in Nat /\ n < size
    BY <1>2, <1>4 DEF Index
  <2>3. ReaderTypes'
    BY <1>1, <1>3, <2>1, <2>2 DEF ReaderTypes, shared
  <2>4. ReaderInv(r)'
    BY <1>1, <1>2, <1>3, <2>1, <2>2 DEF ReaderInv, shared, Address, BlockOf, OffsetOf
  <2>5. QED BY <1>1, <1>3, <2>1, <2>2, <2>3, <2>4, ReaderAlone
<1>5. CASE NewIterator(r)
  <2>1. PICK n \in {0, size} : index' = [index EXCEPT ![r] = n]
    BY <1>5 DEF NewIterator
  <2>2. /\ UNCHANGED <<rop, at, dir, addr>> /\ n \in Nat
        /\ cache' = [cache EXCEPT ![r] = NoAddress] /\ rpc' = [rpc EXCEPT ![r] = "size"]
    BY <1>2, <1>5 DEF NewIterator
  <2>3. ReaderTypes'
    BY <1>1, <1>3, <2>1, <2>2 DEF ReaderTypes, shared
  <2>4. ReaderInv(r)'
    BY <1>3, <2>1, <2>2 DEF ReaderInv
  <2>5. QED BY <1>1, <1>3, <2>1, <2>2, <2>3, <2>4, ReaderAlone
<1>6. CASE IteratorSize(r)
  <2>1. UNCHANGED <<dir, addr, index, cache>>
    BY <1>6 DEF IteratorSize
  <2>2. CASE /\ index[r] < size /\ rop' = [rop EXCEPT ![r] = "construct"]
             /\ at' = [at EXCEPT ![r] = index[r]] /\ rpc' = [rpc EXCEPT ![r] = "dir"]
    <3>1. ReaderTypes'
      BY <1>1, <1>2, <1>3, <2>1, <2>2 DEF ReaderTypes, shared
    <3>2. ReaderInv(r)'
      BY <1>1, <1>2, <1>3, <2>1, <2>2 DEF ReaderInv, shared, Address, BlockOf, OffsetOf
    <3>3. QED BY <1>1, <1>3, <2>1, <2>2, <3>1, <3>2, ReaderAlone
  <2>3. CASE rpc' = [rpc EXCEPT ![r] = "idle"] /\ UNCHANGED <<rop, at>>
    <3>1. ReaderTypes'
      BY <1>1, <1>3, <2>1, <2>3 DEF ReaderTypes, shared
    <3>2. ReaderInv(r)'
      BY <1>1, <1>2, <1>3, <2>1, <2>3 DEF ReaderInv, shared, Address, BlockOf, OffsetOf
    <3>3. QED BY <1>1, <1>3, <2>1, <2>3, <3>1, <3>2, ReaderAlone
  <2>4. QED BY <1>6, <2>2, <2>3 DEF IteratorSize
<1>7. CASE Dereference(r)
  <2>1. rpc[r] = "idle" /\ index[r] < size /\ UNCHANGED <<dir, index, cache>>
    BY <1>7 DEF Dereference
  <2>2. CASE /\ rop' = [rop EXCEPT ![r] = "dereference"] /\ at' = [at EXCEPT ![r] = index[r]]
             /\ rpc' = [rpc EXCEPT ![r] = "dir"] /\ UNCHANGED addr
    <3>1. ReaderTypes'
      BY <1>1, <1>2, <1>3, <2>1, <2>2 DEF ReaderTypes, shared
    <3>2. ReaderInv(r)'
      BY <1>1, <1>2, <1>3, <2>1, <2>2 DEF ReaderInv, shared, Address, BlockOf, OffsetOf
    <3>3. QED BY <1>1, <1>3, <2>1, <2>2, <3>1, <3>2, ReaderAlone
  <2>3. CASE /\ cache[r] # NoAddress /\ addr' = [addr EXCEPT ![r] = cache[r]]
             /\ at' = [at EXCEPT ![r] = index[r]] /\ rpc' = [rpc EXCEPT ![r] = "elem"] /\ UNCHANGED rop
    <3>1. ReaderTypes'
      BY <1>1, <1>2, <1>3, <2>1, <2>3 DEF ReaderTypes, shared
    <3>2. cache[r] = Address(index[r])
      BY <1>2, <2>3 DEF ReaderInv
    <3>3. ReaderInv(r)'
      BY <1>1, <1>2, <1>3, <2>1, <2>3, <3>2 DEF ReaderInv, shared, Address, BlockOf, OffsetOf
    <3>4. QED BY <1>1, <1>3, <2>1, <2>3, <3>1, <3>3, ReaderAlone
  <2>4. QED BY <1>7, <2>2, <2>3 DEF Dereference
<1>8. CASE LoadDirectory(r)
  <2>1. /\ rpc[r] = "dir" /\ dir' = [dir EXCEPT ![r] = directory]
        /\ rpc' = [rpc EXCEPT ![r] = "entry"] /\ UNCHANGED <<rop, at, addr, index, cache>>
    BY <1>8 DEF LoadDirectory
  <2>2. directory \in 0 .. Len(dirs)
    BY Lengths
  <2>3. ReaderTypes'
    BY <1>1, <1>3, <2>1, <2>2 DEF ReaderTypes, shared
  <2>4. at[r] < size
    BY <1>2, <2>1 DEF ReaderInv
  <2>5. Covers(directory, at[r])
    BY <1>2, <2>4, BelowSize, CurrentAddress
  <2>6. dir'[r] \in Live' /\ Covers(dir[r], at[r])'
    BY <1>1, <1>3, <2>1, <2>5 DEF Covers, Entry, BlockOf, shared, Live
  <2>7. ReaderInv(r)'
    BY <1>1, <1>2, <1>3, <2>1, <2>6 DEF ReaderInv, shared, Address, BlockOf, OffsetOf
  <2>8. QED BY <1>1, <1>3, <2>1, <2>3, <2>7, ReaderAlone
<1>9. CASE LoadEntry(r)
  <2>1. rpc[r] = "entry" /\ UNCHANGED index
    BY <1>9 DEF LoadEntry
  <2>2. Covers(dir[r], at[r]) /\ at[r] < size /\ (rop[r] # "index" => at[r] = index[r])
    BY <1>2, <2>1 DEF ReaderInv
  <2>3. AddressIn(dir[r], at[r]) = Address(at[r]) /\ BlockOf(at[r]) < Len(blocks)
    BY <1>2, <2>2, AnyDirectory
  <2>4. Address(at[r]) \in Nat \X Nat
    BY <1>2, AddressType
  <2>5. cache' = IF rop[r] = "index" THEN cache ELSE [cache EXCEPT ![r] = Address(at[r])]
    BY <1>9, <2>3 DEF LoadEntry
  <2>6. /\ cache' \in [Readers -> (Nat \X Nat) \cup {NoAddress}]
        /\ \A s \in Readers \ {r} : cache'[s] = cache[s]
    BY <1>3, <2>4, <2>5
  <2>7. cache'[r] # NoAddress => BlockOf(index[r]) < Len(blocks) /\ cache'[r] = Address(index[r])
    BY <1>2, <1>3, <2>2, <2>3, <2>5 DEF ReaderInv
  <2>8. (cache[r] # NoAddress => BlockOf(index[r]) < Len(blocks) /\ cache[r] = Address(index[r]))'
    BY <1>1, <2>1, <2>7 DEF shared, Address, BlockOf, OffsetOf
  <2>9. CASE RReturn(r)
    <3>1. ReaderTypes'
      BY <1>1, <1>2, <1>3, <2>1, <2>6, <2>9 DEF ReaderTypes, shared
    <3>2. ReaderInv(r)'
      BY <1>3, <2>8, <2>9 DEF ReaderInv
    <3>3. QED BY <1>1, <1>3, <2>1, <2>6, <2>9, <3>1, <3>2, ReaderAlone
  <2>10. CASE ~RReturn(r)
    <3>1. /\ addr' = [addr EXCEPT ![r] = Address(at[r])] /\ dir' = [dir EXCEPT ![r] = 0]
          /\ rop' = [rop EXCEPT ![r] = "index"] /\ rpc' = [rpc EXCEPT ![r] = "elem"] /\ UNCHANGED at
      BY <1>9, <2>3, <2>10 DEF LoadEntry
    <3>2. ReaderTypes'
      BY <1>1, <1>2, <1>3, <2>1, <2>4, <2>6, <3>1 DEF ReaderTypes, shared
    <3>3. ReaderInv(r)'
      BY <1>1, <1>3, <2>2, <2>8, <3>1 DEF ReaderInv, shared, Address, BlockOf, OffsetOf
    <3>4. QED BY <1>1, <1>3, <2>1, <2>6, <3>1, <3>2, <3>3, ReaderAlone
  <2>11. QED BY <2>9, <2>10
<1>10. CASE ReadElement(r)
  <2>1. RReturn(r) /\ UNCHANGED <<index, cache>>
    BY <1>10 DEF ReadElement
  <2>2. ReaderTypes'
    BY <1>1, <1>2, <1>3, <2>1 DEF ReaderTypes, shared
  <2>3. ReaderInv(r)'
    BY <1>1, <1>2, <1>3, <2>1 DEF ReaderInv, shared, Address, BlockOf, OffsetOf
  <2>4. QED BY <1>1, <1>3, <2>1, <2>2, <2>3, ReaderAlone
<1>11. ASSUME rpc[r] = "idle", UNCHANGED <<rpc, rop, at, dir, addr>>, NEW n \in Nat,
              index' = [index EXCEPT ![r] = n], NEW a, cache' = [cache EXCEPT ![r] = a],
              a = NoAddress \/ (BlockOf(n) = BlockOf(index[r]) /\ a = Moved(cache[r], n - index[r]))
       PROVE  ReaderTypes' /\ ReadersInv'
  <2>1. a = NoAddress \/ (BlockOf(n) < Len(blocks) /\ a = Address(n))
    <3>1. CASE cache[r] = NoAddress
      BY <1>11, <3>1 DEF Moved
    <3>2. CASE cache[r] # NoAddress
      <4>1. cache[r] = Address(index[r]) /\ BlockOf(index[r]) < Len(blocks)
        BY <1>2, <3>2 DEF ReaderInv
      <4>2. n - index[r] \in Int
        BY <1>2
      <4>3. QED BY <1>2, <1>11, <4>1, <4>2, CacheMoves
    <3>3. QED BY <3>1, <3>2
  <2>2. a \in (Nat \X Nat) \cup {NoAddress}
    BY <2>1, AddressType
  <2>3. ReaderTypes'
    BY <1>1, <1>3, <1>11, <2>2 DEF ReaderTypes, shared
  <2>4. ReaderInv(r)'
    BY <1>1, <1>3, <1>11, <2>1 DEF ReaderInv, shared, Address, BlockOf, OffsetOf
  <2>5. QED BY <1>1, <1>3, <1>11, <2>3, <2>4, ReaderAlone
<1>12. CASE Increment(r)
  <2> DEFINE n == index[r] + 1
             a == IF OffsetOf(n) = 0 THEN NoAddress ELSE Moved(cache[r], 1)
  <2>1. /\ rpc[r] = "idle" /\ UNCHANGED <<rpc, rop, at, dir, addr>>
        /\ index' = [index EXCEPT ![r] = n] /\ cache' = [cache EXCEPT ![r] = a]
    BY <1>12 DEF Increment
  <2>2. n \in Nat /\ n - index[r] = 1
    BY <1>2
  <2>3. a = NoAddress \/ (BlockOf(n) = BlockOf(index[r]) /\ a = Moved(cache[r], n - index[r]))
    BY <1>2, <2>2, NextIndex
  <2> HIDE DEF n, a
  <2>4. QED BY <1>11, <2>1, <2>2, <2>3
<1>13. CASE Decrement(r)
  <2> DEFINE n == index[r] - 1
             a == IF OffsetOf(index[r]) = 0 THEN NoAddress ELSE Moved(cache[r], -1)
  <2>1. /\ rpc[r] = "idle" /\ UNCHANGED <<rpc, rop, at, dir, addr>>
        /\ index' = [index EXCEPT ![r] = n] /\ cache' = [cache EXCEPT ![r] = a] /\ index[r] > 0
    BY <1>13 DEF Decrement
  <2>2. n \in Nat /\ n - index[r] = -1 /\ index[r] = n + 1
    BY <1>2, <2>1
  <2>3. OffsetOf(index[r]) # 0 => BlockOf(n) = BlockOf(index[r])
    <3> HIDE DEF n
    <3>1. QED BY <2>2, NextIndex
  <2>4. a = NoAddress \/ (BlockOf(n) = BlockOf(index[r]) /\ a = Moved(cache[r], n - index[r]))
    BY <2>2, <2>3
  <2> HIDE DEF n, a
  <2>5. QED BY <1>11, <2>1, <2>2, <2>4
<1>14. CASE Jump(r)
  <2>1. PICK n \in 0 .. MaxSize :
          /\ index' = [index EXCEPT ![r] = n]
          /\ cache' = [cache EXCEPT ![r] =
                         IF BlockOf(n) = BlockOf(index[r]) THEN Moved(@, n - index[r]) ELSE NoAddress]
    BY <1>14 DEF Jump
  <2> DEFINE a == IF BlockOf(n) = BlockOf(index[r]) THEN Moved(cache[r], n - index[r]) ELSE NoAddress
  <2>2. rpc[r] = "idle" /\ UNCHANGED <<rpc, rop, at, dir, addr>> /\ cache' = [cache EXCEPT ![r] = a]
    BY <1>14, <2>1 DEF Jump
  <2>3. n \in Nat
    BY AppendDequeAssumption
  <2>4. a = NoAddress \/ (BlockOf(n) = BlockOf(index[r]) /\ a = Moved(cache[r], n - index[r]))
    OBVIOUS
  <2> HIDE DEF a
  <2>5. QED BY <1>11, <2>1, <2>2, <2>3, <2>4
<1>15. QED
  BY <1>4, <1>5, <1>6, <1>7, <1>8, <1>9, <1>10, <1>12, <1>13, <1>14 DEF ReaderCall, ReaderStep

-----------------------------------------------------------------------------
(* The inductive invariant                                                  *)

(* The empty deque                                                          *)
LEMMA InitInv == Init => Inv
<1> SUFFICES ASSUME Init PROVE Inv
  OBVIOUS
<1>1. /\ size = 0 /\ directory = 0 /\ directory_capacity = 0 /\ retired = {}
      /\ dirs = <<>> /\ blocks = <<>> /\ holder = NoThread
      /\ pc = [w \in Writers |-> "idle"] /\ op = [w \in Writers |-> "emplace"]
      /\ arg = [w \in Writers |-> 0] /\ i = [w \in Writers |-> 0]
      /\ rpc = [r \in Readers |-> "idle"] /\ cache = [r \in Readers |-> NoAddress]
  BY DEF Init
<1>2. <<>> \in Seq(Directories) /\ <<>> \in Seq(BlockType) /\ Len(dirs) = 0 /\ Len(blocks) = 0
  BY <1>1
<1>3. TypeInv
  BY <1>1, <1>2 DEF TypeInv, WriterPCs
<1>4. ReaderTypes
  BY <1>2 DEF Init, ReaderTypes, ReaderPCs
<1>5. WritersInv
  BY <1>1, AppendDequeAssumption DEF WritersInv, WriterInv, Holding
<1>6. DirInv
  BY <1>1, <1>2 DEF DirInv
<1>7. ElementInv
  <2>1. Built = 0 /\ Allocated = 0
    BY <1>1 DEF Built, Allocated
  <2>2. Len(blocks) = BlocksFor(Allocated)
    BY <1>2, <2>1, BlocksForZero
  <2>3. \A n \in Nat : ~(BlockOf(n) < Len(blocks))
    BY <1>2, DivFacts
  <2>4. \A w \in Writers : pc[w] \notin Holding
    BY <1>1 DEF Holding
  <2>5. QED BY <2>2, <2>3, <2>4 DEF ElementInv
<1>8. ReadersInv
  BY <1>1 DEF ReadersInv, ReaderInv
<1>9. QED BY <1>3, <1>4, <1>5, <1>6, <1>7, <1>8 DEF Inv

(* What a step of a reader, or none, leaves as it was                       *)
LEMMA SharedInv ==
  ASSUME TypeInv, WritersInv, DirInv, ElementInv, UNCHANGED <<shared, holder, writing>>
  PROVE  TypeInv' /\ WritersInv' /\ DirInv' /\ ElementInv'
<1>1. TypeInv'
  BY DEF TypeInv, shared, writing
<1>2. WritersInv'
  BY DEF WritersInv, WriterInv, NothingToDo, NeedsDirectory, BlocksFor, BlockOf, shared, writing
<1>3. DirInv'
  BY DirQuiet DEF shared, writing
<1>4. ElementInv'
  <2>1. UNCHANGED <<size, blocks, holder, pc, op, i>>
    BY DEF shared, writing
  <2>2. Built' = Built /\ Allocated' = Allocated
    BY <2>1 DEF Built, Allocated
  <2>3. \A v \in Writers : NewElements(v)'
    BY <2>1, OthersElements
  <2>4. QED BY <2>1, <2>2, <2>3, ElementQuiet
<1>5. QED BY <1>1, <1>2, <1>3, <1>4

(* Every step keeps the invariant.                                          *)
LEMMA NextInv == Inv /\ [Next]_vars => Inv'
<1> SUFFICES ASSUME Inv, [Next]_vars PROVE Inv'
  OBVIOUS
<1>1. TypeInv /\ ReaderTypes /\ WritersInv /\ DirInv /\ ElementInv /\ ReadersInv
  BY DEF Inv
<1>2. ASSUME NEW w \in Writers, Call(w) \/ WriterStep(w) PROVE Inv'
  <2>1. TypeInv'
    BY <1>1, <1>2, WriterTypeStep
  <2>2. WritersInv'
    BY <1>1, <1>2, WritersStep
  <2>3. DirInv'
    BY <1>1, <1>2, <2>1, DirStep
  <2>4. ElementInv'
    BY <1>1, <1>2, <2>1, <2>2, ElementStep
  <2>5. ReaderTypes' /\ ReadersInv'
    BY <1>1, <1>2, <2>1, ReadersKeep
  <2>6. QED BY <2>1, <2>2, <2>3, <2>4, <2>5 DEF Inv
<1>3. ASSUME NEW r \in Readers, ReaderCall(r) \/ ReaderStep(r) PROVE Inv'
  <2>1. TypeInv' /\ WritersInv' /\ DirInv' /\ ElementInv'
    BY <1>1, <1>3, ReaderChanges, SharedInv
  <2>2. ReaderTypes' /\ ReadersInv'
    BY <1>1, <1>3, ReaderMoves
  <2>3. QED BY <2>1, <2>2 DEF Inv
<1>4. CASE UNCHANGED vars
  <2>1. TypeInv' /\ WritersInv' /\ DirInv' /\ ElementInv'
    BY <1>1, <1>4, SharedInv DEF vars
  <2>2. ReaderTypes' /\ ReadersInv'
    BY <1>1, <1>4 DEF vars, shared, reading, ReaderTypes, ReadersInv, ReaderInv, Live, Covers, Entry,
       Address, BlockOf, OffsetOf
  <2>3. QED BY <2>1, <2>2 DEF Inv
<1>5. QED BY <1>2, <1>3, <1>4 DEF Next

(* The invariant holds always.                                              *)
LEMMA Invariance == Spec => []Inv
  BY InitInv, NextInv, PTL DEF Spec

-----------------------------------------------------------------------------
(* What the invariant says of the properties                                *)

(* The types of TypeOK                                                      *)
LEMMA TypesAreRight == Inv => TypeOK
<1> SUFFICES ASSUME Inv PROVE TypeOK
  OBVIOUS
<1>1. TypeInv /\ ReaderTypes /\ DirInv /\ dirs \in Seq(Directories) /\ blocks \in Seq(BlockType)
  BY DEF Inv, TypeInv
<1>2. Len(dirs) \in Nat /\ Len(blocks) \in Nat
  BY <1>1, Lengths
<1>3. directory # 0 => DOMAIN dirs[directory] = 0 .. directory_capacity - 1
  BY <1>1 DEF DirInv, Filled
<1>4. \A d \in 1 .. Len(dirs) : \A b \in DOMAIN dirs[d] : dirs[d][b] \in 0 .. Len(blocks)
  <2> SUFFICES ASSUME NEW d \in 1 .. Len(dirs), NEW b \in DOMAIN dirs[d]
               PROVE  dirs[d][b] \in 0 .. Len(blocks)
    OBVIOUS
  <2>1. dirs[d] \in Directories
    BY <1>1, ElementOfSeq
  <2>2. b \in Nat
    BY <2>1 DEF Directories
  <2>3. dirs[d][b] = 0 \/ (dirs[d][b] = b + 1 /\ b < Len(blocks))
    BY <1>1, <2>2 DEF DirInv
  <2>4. QED BY <1>2, <2>2, <2>3
<1>5. \A b \in 1 .. Len(blocks) : blocks[b] \in [0 .. BlockSize - 1 -> Values \cup {Raw}]
  BY <1>1, ElementOfSeq DEF BlockType
<1>6. QED BY <1>1, <1>3, <1>4, <1>5 DEF TypeOK, TypeInv, ReaderTypes, DirInv

(* A reader's index is below a size it saw, so it has a block and an        *)
(* element.                                                                 *)
LEMMA ReadersAreSafe == Inv => ReadsAreSafe
<1> SUFFICES ASSUME Inv, NEW r \in Readers
             PROVE  /\ rpc[r] = "entry" => dir[r] \in Live /\ Covers(dir[r], at[r])
                    /\ rpc[r] = "elem" => addr[r] = AddressIn(directory, at[r]) /\ At(addr[r]) # Raw
  BY DEF ReadsAreSafe
<1>1. ReaderInv(r) /\ at[r] \in Nat
  BY DEF Inv, ReadersInv, ReaderTypes
<1>2. ASSUME rpc[r] = "elem"
      PROVE  addr[r] = AddressIn(directory, at[r]) /\ At(addr[r]) # Raw
  <2>1. at[r] < size /\ addr[r] = Address(at[r])
    BY <1>1, <1>2 DEF ReaderInv
  <2>2. BlockOf(at[r]) < Len(blocks) /\ Cell(at[r]) # Raw
    BY <1>1, <2>1, BelowSize DEF Inv
  <2>3. AddressIn(directory, at[r]) = Address(at[r]) /\ At(AddressIn(directory, at[r])) = Cell(at[r])
    BY <1>1, <2>2, CurrentAddress DEF Inv
  <2>4. QED BY <2>1, <2>2, <2>3
<1>3. QED BY <1>1, <1>2 DEF ReaderInv

(* A writer stores at or above the size, a reader reads below it.           *)
LEMMA WritersAreAlone == Inv => PlainStoresDontRace
<1> SUFFICES ASSUME Inv, NEW r \in Readers, NEW w \in Writers
             PROVE  /\ pc[w] = "block" /\ rpc[r] = "entry" /\ dir[r] = directory
                          /\ Entry(directory, i[w]) = 0
                        => BlockOf(at[r]) # BlockOf(i[w])
                    /\ pc[w] = "construct" /\ rpc[r] = "elem" => addr[r] # AddressIn(directory, i[w])
  BY DEF PlainStoresDontRace
<1>1. ReaderInv(r) /\ at[r] \in Nat /\ i[w] \in Nat /\ WriterInv(w) /\ TypeInv /\ WritersInv
      /\ DirInv /\ ElementInv
  BY DEF Inv, ReadersInv, ReaderTypes, WritersInv, TypeInv
<1>2. ASSUME rpc[r] = "entry", dir[r] = directory, Entry(directory, i[w]) = 0
      PROVE  BlockOf(at[r]) # BlockOf(i[w])
  BY <1>1, <1>2 DEF ReaderInv, Covers, Entry
<1>3. ASSUME pc[w] = "construct", rpc[r] = "elem"
      PROVE  addr[r] # AddressIn(directory, i[w])
  <2>1. at[r] < size /\ addr[r] = Address(at[r]) /\ size <= i[w]
    BY <1>1, <1>3 DEF ReaderInv, WriterInv, Holding
  <2>2. Len(blocks) = BlockOf(i[w]) + 1
    BY <1>1, <1>3, HolderFacts, BlocksForNext DEF ElementInv, Holding
  <2>3. AddressIn(directory, i[w]) = Address(i[w])
    <3>1. BlockOf(i[w]) < Len(blocks)
      <4>1. BlockOf(i[w]) \in Nat
        BY <1>1, DivFacts
      <4>2. QED BY <2>2, <4>1
    <3>2. QED BY <1>1, <3>1, CurrentAddress
  <2>4. at[r] # i[w]
    BY <1>1, <2>1, Lengths
  <2>5. ASSUME Address(at[r]) = Address(i[w]) PROVE FALSE
    <3>1. BlockOf(at[r]) + 1 = BlockOf(i[w]) + 1 /\ OffsetOf(at[r]) = OffsetOf(i[w])
      BY <2>5 DEF Address
    <3>2. BlockOf(at[r]) = BlockOf(i[w])
      BY <1>1, <3>1, DivFacts
    <3>3. QED BY <1>1, <2>4, <3>1, <3>2, AddressesDiffer
  <2>6. QED BY <2>1, <2>3, <2>5
<1>4. QED BY <1>2, <1>3

(* With all writers idle, block b is entry b - 1 of the current directory.  *)
LEMMA NothingIsLost == Inv => DestructorIsSafe
<1> SUFFICES ASSUME Inv, \A w \in Writers : pc[w] = "idle"
             PROVE  /\ Live \ {0} = 1 .. Len(dirs) /\ directory \notin retired
                    /\ \A b \in 1 .. Len(blocks) :
                         \E k \in 0 .. directory_capacity - 1 :
                           /\ \A j \in 0 .. directory_capacity - 1 : dirs[directory][j] = b <=> j = k
                           /\ \A o \in 0 .. BlockSize - 1 :
                                blocks[b][o] # Raw <=> k * BlockSize + o < size
  BY DEF DestructorIsSafe
<1>1. TypeInv /\ WritersInv /\ DirInv /\ ElementInv
  BY DEF Inv
<1>2. /\ Len(dirs) \in Nat /\ Len(blocks) \in Nat /\ size \in Nat /\ directory_capacity \in Nat
      /\ directory \in 0 .. Len(dirs) /\ retired \subseteq 1 .. Len(dirs)
  BY <1>1, Lengths
<1>3. directory \notin retired /\ \A d \in 1 .. Len(dirs) : d \in Live
  BY <1>1 DEF DirInv
<1>4. Live \ {0} = 1 .. Len(dirs)
  <2>1. \A d \in 1 .. Len(dirs) : d \in Live \ {0}
    BY <1>2, <1>3
  <2>2. \A d \in Live \ {0} : d \in 1 .. Len(dirs)
    BY <1>2 DEF Live
  <2>3. QED BY <2>1, <2>2
<1>5. Built = size
  <2>1. holder \notin Writers
    BY <1>1 DEF WritersInv, WriterInv, Holding
  <2>2. QED BY <1>1, <2>1 DEF Built, TypeInv
<1>6. ASSUME NEW b \in 1 .. Len(blocks)
      PROVE  \E k \in 0 .. directory_capacity - 1 :
               /\ \A j \in 0 .. directory_capacity - 1 : dirs[directory][j] = b <=> j = k
               /\ \A o \in 0 .. BlockSize - 1 : blocks[b][o] # Raw <=> k * BlockSize + o < size
  <2> DEFINE k == b - 1
  <2>1. k \in 0 .. directory_capacity - 1 /\ k \in Nat /\ k < Len(blocks) /\ b = k + 1
    BY <1>1, <1>2 DEF DirInv
  <2> HIDE DEF k
  <2>2. dirs[directory] = Filled(directory_capacity)
    BY <1>1, <1>2, <2>1 DEF DirInv
  <2>3. \A j \in 0 .. directory_capacity - 1 : dirs[directory][j] = b <=> j = k
    BY <1>2, <2>1, <2>2 DEF Filled
  <2>4. ASSUME NEW o \in 0 .. BlockSize - 1
        PROVE  blocks[b][o] # Raw <=> k * BlockSize + o < size
    <3> DEFINE n == k * BlockSize + o
    <3>1. n \in Nat /\ n = BlockSize * k + o
      BY <2>1, AppendDequeAssumption
    <3> HIDE DEF n
    <3>2. BlockOf(n) = k /\ OffsetOf(n) = o
      BY <2>1, <3>1, DivUnique
    <3>3. Cell(n) # Raw <=> n < size
      BY <1>1, <1>5, <2>1, <3>1, <3>2 DEF ElementInv
    <3>4. QED BY <2>1, <3>2, <3>3 DEF Cell, n
  <2>5. QED BY <2>1, <2>3, <2>4
<1>7. QED BY <1>3, <1>4, <1>6

(* The address of an index does not depend on the directory.                *)
LEMMA CachesAreRight == Inv => CacheIsCurrent
<1> SUFFICES ASSUME Inv, NEW r \in Readers, cache[r] # NoAddress
             PROVE  Covers(directory, index[r]) /\ cache[r] = AddressIn(directory, index[r])
  BY DEF CacheIsCurrent
<1>1. BlockOf(index[r]) < Len(blocks) /\ cache[r] = Address(index[r]) /\ index[r] \in Nat
  BY DEF Inv, ReadersInv, ReaderInv, ReaderTypes
<1>2. QED BY <1>1, CurrentAddress DEF Inv

-----------------------------------------------------------------------------
(* Every variable has its type, of the directories and blocks too: an entry *)
(* is null or a block that exists.                                          *)
THEOREM AppendDequeTypeOK == Spec => []TypeOK
  BY Invariance, TypesAreRight, PTL

(* A reader follows only what is there and reads only constructed elements, *)
(* no plain store of a writer meets it, and the destructor finds each       *)
(* element and each block once.                                             *)
THEOREM AppendDequeMemoryIsSafe == Spec => []MemoryIsSafe
<1>1. Inv => MemoryIsSafe
  BY ReadersAreSafe, WritersAreAlone, NothingIsLost DEF MemoryIsSafe
<1>2. QED BY <1>1, Invariance, PTL

(* The address an iterator keeps is the one it would look up, whatever      *)
(* writers did since it looked.                                             *)
THEOREM AppendDequeCacheIsCurrent == Spec => []CacheIsCurrent
  BY Invariance, CachesAreRight, PTL

-----------------------------------------------------------------------------
(* The refinement: the log is the elements below the size.                  *)

Log == [n \in 1 .. size |-> At(AddressIn(directory, n - 1))]

(* A function on 1 .. n is a sequence of length n.                          *)
LEMMA FunctionIsSequence ==
  ASSUME NEW S, NEW n \in Nat, NEW f \in [1 .. n -> S]
  PROVE  f \in Seq(S) /\ Len(f) = n
<1>1. f \in Seq(S)
  BY SeqDef
<1>2. Len(f) \in Nat /\ 1 .. n = 1 .. Len(f)
  BY <1>1, LenProperties
<1>3. QED BY <1>1, <1>2

(* The log is the cells below the size.                                     *)
LEMMA LogIsCells ==
  Inv => /\ Log = [n \in 1 .. size |-> Cell(n - 1)]
         /\ Log \in [1 .. size -> Values \cup {Raw}]
<1> SUFFICES ASSUME Inv
             PROVE  /\ Log = [n \in 1 .. size |-> Cell(n - 1)]
                    /\ Log \in [1 .. size -> Values \cup {Raw}]
  OBVIOUS
<1>1. TypeInv /\ WritersInv /\ DirInv /\ ElementInv
  BY DEF Inv
<1>2. ASSUME NEW n \in 1 .. size
      PROVE  At(AddressIn(directory, n - 1)) = Cell(n - 1) /\ Cell(n - 1) \in Values \cup {Raw}
  <2> DEFINE m == n - 1
  <2>1. m \in Nat /\ m < size
    BY <1>1, Lengths
  <2> HIDE DEF m
  <2>2. BlockOf(m) < Len(blocks)
    BY <1>1, <2>1, BelowSize
  <2>3. At(AddressIn(directory, m)) = Cell(m) /\ Cell(m) \in Values \cup {Raw}
    BY <1>1, <2>1, <2>2, CurrentAddress, CellType
  <2>4. QED BY <2>3 DEF m
<1>3. QED BY <1>2 DEF Log

(* A step changes no element below the size.                                *)
LEMMA CellsStay ==
  ASSUME TypeInv, WritersInv, DirInv, ElementInv, NEW n \in Nat, n < size,
         NEW w \in Writers, Call(w) \/ WriterStep(w)
  PROVE  Cell(n)' = Cell(n)
<1>1. /\ BlockOf(n) < Len(blocks) /\ BlockOf(n) \in Nat /\ Len(blocks) \in Nat
      /\ i[w] \in Nat /\ size \in Nat /\ WriterInv(w)
  BY BelowSize, DivFacts, Lengths DEF TypeInv, WritersInv
<1>2. BlockOf(n) + 1 \in 1 .. Len(blocks)
  BY <1>1
<1>3. CASE Block(w)
  BY <1>2, <1>3, BlockFacts, CellAfter
<1>4. CASE Construct(w)
  <2>1. size <= i[w]
    BY <1>1, <1>4 DEF Construct, WriterInv, Holding
  <2>2. n # i[w]
    BY <1>1, <2>1
  <2>3. QED BY <1>1, <1>4, <2>2, ConstructFacts
<1>5. CASE ~Block(w) /\ ~Construct(w)
  <2>1. UNCHANGED blocks
    BY <1>5 DEF WriterStep, Call, Check, Lock, Copy, Swap, Publish, shared
  <2>2. QED BY <2>1, CellAfter
<1>6. QED BY <1>3, <1>4, <1>5

(* The store of the size appends to the log what the call constructed.      *)
LEMMA PublishAppends ==
  ASSUME Inv, Log' = [n \in 1 .. size |-> Cell(n - 1)]', NEW w \in Writers, Publish(w)
  PROVE  L!Next
<1>1. /\ TypeInv /\ WritersInv /\ DirInv /\ ElementInv /\ size \in Nat /\ WriterInv(w)
      /\ i[w] \in Nat /\ arg[w] \in Nat /\ op[w] \in {"emplace", "resize", "reserve"}
  BY Lengths DEF Inv, TypeInv, WritersInv
<1>2. pc[w] = "publish" /\ UNCHANGED <<directory, blocks>> /\ op[w] # "reserve"
      /\ size' = IF op[w] = "emplace" THEN i[w] + 1 ELSE arg[w]
  BY <1>1 DEF Publish, WriterInv
<1>3. /\ Log = [n \in 1 .. size |-> Cell(n - 1)]
      /\ Log \in Seq(Values \cup {Raw}) /\ Len(Log) = size
  BY <1>1, LogIsCells, FunctionIsSequence
<1>4. \A n \in Nat : Cell(n)' = Cell(n)
  BY <1>2, CellAfter
<1>5. Log' = [n \in 1 .. size' |-> Cell(n - 1)]
  <2>1. \A n \in 1 .. size' : Cell(n - 1)' = Cell(n - 1)
    BY <1>1, <1>2 DEF Cell, BlockOf, OffsetOf
  <2>2. QED BY <2>1
<1>6. CASE op[w] = "emplace"
  <2>1. size' = size + 1 /\ Cell(size) = w
    BY <1>1, <1>2, <1>6 DEF WriterInv, ElementInv, Holding
  <2>2. /\ Append(Log, w) \in Seq(Values \cup {Raw}) /\ Len(Append(Log, w)) = size + 1
        /\ \A n \in 1 .. size : Append(Log, w)[n] = Log[n]
        /\ Append(Log, w)[size + 1] = w
    <3>1. w \in Values \cup {Raw}
      BY DEF Values
    <3>2. Log \in Seq(Values \cup {Raw}) /\ Len(Log) = size
      BY <1>3
    <3>3. /\ Append(Log, w) \in Seq(Values \cup {Raw}) /\ Len(Append(Log, w)) = Len(Log) + 1
          /\ \A n \in 1 .. Len(Log) : Append(Log, w)[n] = Log[n]
          /\ Append(Log, w)[Len(Log) + 1] = w
      BY <3>1, <3>2, AppendProperties
    <3>4. QED BY <3>2, <3>3
  <2>3. Append(Log, w) = [n \in 1 .. size + 1 |-> Append(Log, w)[n]]
    BY <2>2, LenProperties
  <2>4. ASSUME NEW n \in 1 .. size + 1 PROVE Append(Log, w)[n] = Cell(n - 1)
    <3>1. CASE n = size + 1
      BY <1>1, <2>1, <2>2, <3>1
    <3>2. CASE n # size + 1
      <4>1. n \in 1 .. size
        BY <1>1, <3>2
      <4>2. QED BY <1>3, <2>2, <4>1
    <3>3. QED BY <3>1, <3>2
  <2>5. Log' = Append(Log, w)
    BY <1>5, <2>1, <2>3, <2>4
  <2>6. L!Append1
    BY <2>5 DEF L!Append1, Log
  <2>7. QED BY <2>6 DEF L!Next
<1>7. CASE op[w] = "resize"
  <2>1. size' = arg[w] /\ size < arg[w] /\ \A n \in Nat : size <= n /\ n < arg[w] => Cell(n) = Zero
    BY <1>1, <1>2, <1>7 DEF WriterInv, ElementInv, Holding
  <2>2. Len(Log') = arg[w]
    <3> DEFINE c == [n \in 1 .. arg[w] |-> Cell(n - 1)]
               S == {Cell(n - 1) : n \in 1 .. arg[w]}
    <3>1. c \in [1 .. arg[w] -> S]
      OBVIOUS
    <3>2. Log' = c
      BY <1>5, <2>1
    <3> HIDE DEF c, S
    <3>3. Len(c) = arg[w]
      BY <1>1, <3>1, FunctionIsSequence
    <3>4. QED BY <3>2, <3>3
  <2>3. ASSUME NEW n \in 1 .. arg[w]
        PROVE  Cell(n - 1) = IF n <= size THEN Log[n] ELSE Zero
    <3>1. CASE n <= size
      BY <1>1, <1>3, <3>1
    <3>2. CASE ~(n <= size)
      <4>1. n - 1 \in Nat /\ size <= n - 1 /\ n - 1 < arg[w]
        BY <1>1, <3>2
      <4>2. QED BY <2>1, <3>2, <4>1
    <3>3. QED BY <3>1, <3>2
  <2>4. Log' = [n \in 1 .. arg[w] |-> IF n <= size THEN Log[n] ELSE Zero]
    BY <1>5, <2>1, <2>3
  <2>5. L!Grow
    BY <1>1, <1>3, <2>1, <2>2, <2>4 DEF L!Grow, Log
  <2>6. QED BY <2>5 DEF L!Next
<1>8. QED BY <1>1, <1>2, <1>6, <1>7

(* Any step appends to the log or leaves it alone.                          *)
LEMMA LogStep ==
  ASSUME Inv, Inv', Log' = [n \in 1 .. size |-> Cell(n - 1)]', [Next]_vars
  PROVE  [L!Next]_Log
<1>1. /\ TypeInv /\ WritersInv /\ DirInv /\ ElementInv /\ size \in Nat
      /\ Log = [n \in 1 .. size |-> Cell(n - 1)]
  BY Lengths, LogIsCells DEF Inv
<1>2. ASSUME UNCHANGED size, \A n \in Nat : n < size => Cell(n)' = Cell(n)
      PROVE  UNCHANGED Log
  <2>1. \A n \in 1 .. size : Cell(n - 1)' = Cell(n - 1)
    <3> SUFFICES ASSUME NEW n \in 1 .. size PROVE Cell(n - 1)' = Cell(n - 1)
      OBVIOUS
    <3> DEFINE m == n - 1
    <3>1. m \in Nat /\ m < size
      BY <1>1
    <3>2. Cell(n - 1)' = blocks'[BlockOf(m) + 1][OffsetOf(m)]
      BY DEF Cell, BlockOf, OffsetOf
    <3> HIDE DEF m
    <3>3. blocks'[BlockOf(m) + 1][OffsetOf(m)] = Cell(m)
      BY <1>2, <3>1, CellAfter
    <3>4. QED BY <3>2, <3>3 DEF m
  <2>2. Log' = [n \in 1 .. size' |-> Cell(n - 1)']
    OBVIOUS
  <2>3. QED BY <1>1, <1>2, <2>1, <2>2
<1>3. ASSUME NEW w \in Writers, Call(w) \/ WriterStep(w)
      PROVE  [L!Next]_Log
  <2>1. CASE Publish(w)
    BY <2>1, PublishAppends
  <2>2. CASE ~Publish(w)
    <3>1. UNCHANGED size
      BY <1>3, <2>2 DEF WriterStep, Call, Check, Lock, Copy, Swap, Block, Construct, shared
    <3>2. \A n \in Nat : n < size => Cell(n)' = Cell(n)
      BY <1>1, <1>3, CellsStay
    <3>3. QED BY <1>2, <3>1, <3>2
  <2>3. QED BY <2>1, <2>2
<1>4. CASE UNCHANGED shared
  <2>1. UNCHANGED <<size, blocks>>
    BY <1>4 DEF shared
  <2>2. QED BY <1>2, <2>1, CellAfter
<1>5. ASSUME NEW r \in Readers, ReaderCall(r) \/ ReaderStep(r)
      PROVE  UNCHANGED shared
  BY <1>5, ReaderChanges
<1>6. QED BY <1>3, <1>4, <1>5 DEF Next, vars

(* A step that ends a call delivers what the call promises.                 *)
LEMMA CallsStep ==
  ASSUME Inv, [Next]_vars
  PROVE  CallsDeliver
<1>1. TypeInv /\ WritersInv /\ DirInv /\ ElementInv /\ size \in Nat /\ directory_capacity \in Nat
  BY Lengths DEF Inv
<1> SUFFICES ASSUME NEW v \in Writers, pc[v] # "idle", pc'[v] = "idle"
             PROVE  CASE op[v] = "emplace" -> i[v] < size' /\ At(AddressIn(directory, i[v])) = v
                      [] op[v] = "resize"  -> arg[v] <= size'
                      [] op[v] = "reserve" -> arg[v] <= directory_capacity' * BlockSize
  BY DEF CallsDeliver
<1>2. /\ op[v] \in {"emplace", "resize", "reserve"} /\ arg[v] \in Nat /\ i[v] \in Nat /\ WriterInv(v)
      /\ pc \in [Writers -> WriterPCs]
  BY <1>1 DEF TypeInv, WritersInv
<1>3. ~(UNCHANGED <<shared, holder, writing>>)
  BY DEF writing
<1>4. PICK w \in Writers : Call(w) \/ WriterStep(w)
  BY <1>3, ReaderChanges DEF Next, vars
<1>5. w = v
  BY <1>2, <1>4 DEF WriterStep, Call, Check, Lock, Copy, Swap, AfterSwap, Block, Construct, Publish, Goto, Return
<1>6. ~Call(v) /\ ~Copy(v) /\ ~Block(v) /\ ~Construct(v)
  BY <1>2 DEF Call, Copy, Block, Construct, Goto
<1>7. CASE Check(v)
  <2>1. op[v] = "resize" /\ arg[v] <= size' 
    BY <1>2, <1>7 DEF Check, Goto, shared, WriterInv
  <2>2. QED BY <2>1
<1>8. CASE Lock(v)
  <2>1. NothingToDo(v) /\ UNCHANGED shared
    BY <1>2, <1>8 DEF Lock, Goto
  <2>2. QED BY <2>1 DEF NothingToDo, shared
<1>9. CASE Swap(v)
  <2>1. pc[v] = "swap" /\ op[v] = "reserve"
    BY <1>2, <1>9 DEF Swap, AfterSwap, Goto
  <2>2. directory_capacity' = BlocksFor(arg[v]) /\ BlocksFor(arg[v]) \in Nat
    BY <1>2, <1>9, <2>1, BlocksForFacts DEF Swap, NewCapacity
  <2>3. arg[v] <= directory_capacity' * BlockSize
    BY <1>2, <2>2, BlocksForBound
  <2>4. QED BY <2>1, <2>3
<1>10. CASE Publish(v)
  <2>1. pc[v] = "publish" /\ op[v] # "reserve" /\ size' = IF op[v] = "emplace" THEN i[v] + 1 ELSE arg[v]
    BY <1>2, <1>10 DEF Publish, WriterInv
  <2>2. CASE op[v] = "emplace"
    <3>1. Cell(i[v]) = v /\ Built = i[v] + 1 /\ Allocated = Built
      BY <1>1, <2>1, <2>2, HolderFacts DEF ElementInv, Holding
    <3>2. BlockOf(i[v]) < Len(blocks)
      <4>1. Len(blocks) = BlockOf(i[v]) + 1 /\ BlockOf(i[v]) \in Nat
        BY <1>1, <1>2, <3>1, BlocksForNext, DivFacts DEF ElementInv
      <4>2. QED BY <4>1
    <3>3. At(AddressIn(directory, i[v])) = v
      BY <1>1, <1>2, <3>1, <3>2, CurrentAddress
    <3>4. QED BY <1>2, <2>1, <2>2, <3>3
  <2>3. CASE op[v] = "resize"
    BY <1>2, <2>1, <2>3
  <2>4. QED BY <1>2, <2>1, <2>2, <2>3
<1>11. QED BY <1>4, <1>5, <1>6, <1>7, <1>8, <1>9, <1>10 DEF WriterStep

(* The elements below the size are a log that only grows, by the element of *)
(* an emplace_back() or by the zeros of a resize(), and every call returns  *)
(* what it promises: for any number of writers, readers and calls.          *)
THEOREM AppendDequeImplementsLog == Spec => ImplementsAppendLog
<1>1. Init => L!Init
  <2> SUFFICES ASSUME Init PROVE L!Init
    OBVIOUS
  <2>1. 1 .. size = {}
    BY DEF Init
  <2>2. QED BY <2>1 DEF L!Init
<1>2. Inv => Log = [n \in 1 .. size |-> Cell(n - 1)]
  BY LogIsCells
<1>3. Inv /\ Inv' /\ (Log = [n \in 1 .. size |-> Cell(n - 1)])' /\ [Next]_vars
        => [L!Next]_Log /\ [CallsDeliver]_vars
  BY LogStep, CallsStep
<1>4. Spec => [][L!Next]_Log /\ [][CallsDeliver]_vars
  BY <1>2, <1>3, Invariance, PTL DEF Spec
<1>5. QED BY <1>1, <1>4, PTL DEF Spec, L!Spec, ImplementsAppendLog, Log
=============================================================================
