----------------------------- MODULE AppendDeque -----------------------------
(***************************************************************************)
(* ConcurrentAppendDeque of Chapter07/05_concurrent_deque: an append-only  *)
(* segmented array whose writers take a SpinLock (module SpinLock, seen    *)
(* through module Lock) and whose readers and iterators take nothing.      *)
(*                                                                         *)
(* One action per access that a thread without the lock can observe: the   *)
(* directory pointer, a block pointer in a directory, an element, the      *)
(* size.  Memory is sequentially consistent.  An access and the unlock that *)
(* follows it are one action: what the unlock enables is enabled no earlier.*)
(*                                                                         *)
(* An element is named by the writer whose call appended it.  Directories  *)
(* and blocks are numbered in the order of their allocation, 0 is nullptr. *)
(* For a power of two, >> BlockShift and & BlockMask are \div and %.       *)
(***************************************************************************)
EXTENDS Integers, Sequences

CONSTANTS
  Writers,      (* the threads that call emplace_back, resize and reserve   *)
  Readers,      (* the threads that read, by index and with an iterator     *)
  BlockSize,    (* elements in a block                                      *)
  NoThread,     (* the lock is free                                         *)
  Zero,         (* an element that resize() constructed                     *)
  Raw,          (* memory without an element                                *)
  NoAddress,    (* an iterator without a cached address                     *)
  ResizeTo,     (* the sizes the callers ask resize() for                   *)
  ReserveFor,   (* the capacities they ask reserve() for                    *)
  MaxSize       (* bound of the model: no emplace_back() is called from     *)
                (* this size on, and no iterator moves past it              *)

ASSUME AppendDequeAssumption ==
  /\ BlockSize \in Nat \ {0}
  /\ ResizeTo \subseteq Nat /\ ReserveFor \subseteq Nat
  /\ MaxSize \in Nat
  /\ NoThread \notin Writers
  /\ Zero \notin Writers
  /\ Raw \notin Writers \cup {Zero}
  /\ NoAddress \notin Nat \X Nat

VARIABLES
  size,                 (* size_                                            *)
  directory,            (* directory_                                       *)
  directory_capacity,   (* directory_capacity_                              *)
  retired,              (* retired_directories_                             *)
  dirs,                 (* the directories allocated so far                 *)
  blocks,               (* the blocks allocated so far                      *)
  holder,               (* spinlock_                                        *)
  pc, op, arg,          (* writer: where it is, its call and new_size       *)
  i,                    (* writer: the index it constructs                  *)
  rpc, rop,             (* reader: where it is and what it does             *)
  at, dir, addr,        (* reader: the index it resolves, the directory it  *)
                        (* loaded for it and the address it found           *)
  index, cache          (* reader: its iterator                             *)

shared  == <<size, directory, directory_capacity, retired, dirs, blocks>>
writing == <<pc, op, arg, i>>
reading == <<rpc, rop, at, dir, addr, index, cache>>
vars    == <<shared, holder, writing, reading>>

Values == Writers \cup {Zero}

BlockOf(n)  == n \div BlockSize
OffsetOf(n) == n % BlockSize

(* The number of blocks that hold n elements                                *)
BlocksFor(n) == (n + BlockSize - 1) \div BlockSize

(* The block pointer of index n in directory d, and the address of n        *)
Entry(d, n)     == dirs[d][BlockOf(n)]
AddressIn(d, n) == <<Entry(d, n), OffsetOf(n)>>

(* What is in memory at an address                                          *)
At(a) == blocks[a[1]][a[2]]

WriterPCs == {"idle", "check", "lock", "copy", "swap", "block", "construct",
              "publish"}
ReaderPCs == {"idle", "size", "dir", "entry", "elem"}

Init ==
  /\ size = 0 /\ directory = 0 /\ directory_capacity = 0 /\ retired = {}
  /\ dirs = <<>> /\ blocks = <<>>
  /\ holder = NoThread
  /\ pc = [w \in Writers |-> "idle"]
  /\ op = [w \in Writers |-> "emplace"]
  /\ arg = [w \in Writers |-> 0]
  /\ i = [w \in Writers |-> 0]
  /\ rpc = [r \in Readers |-> "idle"]
  /\ rop = [r \in Readers |-> "index"]
  /\ at = [r \in Readers |-> 0]
  /\ dir = [r \in Readers |-> 0]
  /\ addr = [r \in Readers |-> NoAddress]
  /\ index = [r \in Readers |-> 0]
  /\ cache = [r \in Readers |-> NoAddress]

-----------------------------------------------------------------------------
(* Writers                                                                  *)

Goto(w, l) == pc' = [pc EXCEPT ![w] = l]

(* The call is over: its locals are gone.                                   *)
Return(w) ==
  /\ Goto(w, "idle")
  /\ op' = [op EXCEPT ![w] = "emplace"]
  /\ arg' = [arg EXCEPT ![w] = 0]
  /\ i' = [i EXCEPT ![w] = 0]

Call(w) ==
  /\ pc[w] = "idle"
  /\ \/ /\ size < MaxSize
        /\ op' = [op EXCEPT ![w] = "emplace"]
        /\ UNCHANGED arg
        /\ Goto(w, "lock")
     \/ \E n \in ResizeTo :
          /\ op' = [op EXCEPT ![w] = "resize"]
          /\ arg' = [arg EXCEPT ![w] = n]
          /\ Goto(w, "check")
     \/ \E n \in ReserveFor :
          /\ op' = [op EXCEPT ![w] = "reserve"]
          /\ arg' = [arg EXCEPT ![w] = n]
          /\ Goto(w, "lock")
  /\ UNCHANGED <<shared, holder, i, reading>>

(* The first check of resize(), without the lock                            *)
Check(w) ==
  /\ pc[w] = "check"
  /\ \/ arg[w] <= size /\ Return(w)
     \/ arg[w] > size /\ Goto(w, "lock") /\ UNCHANGED <<op, arg, i>>
  /\ UNCHANGED <<shared, holder, reading>>

(* What the holder of the lock has to do: nothing, replace the directory,   *)
(* or construct elements.                                                   *)
NothingToDo(w) ==
  \/ op[w] = "resize" /\ arg[w] <= size
  \/ op[w] = "reserve" /\ arg[w] <= directory_capacity * BlockSize

NeedsDirectory(w) ==
  \/ op[w] = "emplace" /\ BlockOf(size) >= directory_capacity
  \/ op[w] # "emplace" /\ BlocksFor(arg[w]) > directory_capacity

Lock_NoRecheck(w) ==           \* mutant: resize() trusts its first check
  /\ pc[w] = "lock"
  /\ holder = NoThread
  /\ \/ op[w] = "reserve" /\ NothingToDo(w) /\ Return(w) /\ UNCHANGED holder
     \/ /\ op[w] = "resize" \/ ~NothingToDo(w)
        /\ holder' = w
        /\ i' = [i EXCEPT ![w] = size]
        /\ Goto(w, IF NothingToDo(w) THEN "publish" ELSE IF NeedsDirectory(w) THEN "copy" ELSE "block")
        /\ UNCHANGED <<op, arg>>
  /\ UNCHANGED <<shared, reading>>

(* std::lock_guard, and the check under the lock                            *)
Lock(w) ==
  /\ pc[w] = "lock"
  /\ holder = NoThread
  /\ \/ NothingToDo(w) /\ Return(w) /\ UNCHANGED holder
     \/ /\ ~NothingToDo(w)
        /\ holder' = w
        /\ i' = [i EXCEPT ![w] = size]
        /\ Goto(w, IF NeedsDirectory(w) THEN "copy" ELSE "block")
        /\ UNCHANGED <<op, arg>>
  /\ UNCHANGED <<shared, reading>>

NewCapacity(w) ==
  IF op[w] # "emplace" THEN BlocksFor(arg[w])
  ELSE IF directory_capacity = 0 THEN 1 ELSE 2 * directory_capacity

(* reallocate_directory(): the new directory, filled before it is published *)
Copy(w) ==
  /\ pc[w] = "copy"
  /\ dirs' = Append(dirs, [b \in 0 .. NewCapacity(w) - 1 |->
                             IF b < directory_capacity THEN dirs[directory][b] ELSE 0])
  /\ Goto(w, "swap")
  /\ UNCHANGED <<size, directory, directory_capacity, retired, blocks, holder,
                 op, arg, i, reading>>

(* reserve() is done and unlocks, the other calls go on.                    *)
AfterSwap(w) ==
  \/ op[w] = "reserve" /\ holder' = NoThread /\ Return(w)
  \/ op[w] # "reserve" /\ Goto(w, "block") /\ UNCHANGED <<holder, op, arg, i>>

Swap_KeepsCapacity(w) ==       \* mutant: the capacity is not updated
  /\ pc[w] = "swap"
  /\ directory' = Len(dirs)
  /\ retired' = retired \cup ({directory} \ {0})
  /\ AfterSwap(w)
  /\ UNCHANGED <<size, directory_capacity, dirs, blocks, reading>>

(* directory_.store(new_dir) and what only the holder sees of it            *)
Swap(w) ==
  /\ pc[w] = "swap"
  /\ directory' = Len(dirs)
  /\ retired' = retired \cup ({directory} \ {0})
  /\ directory_capacity' = NewCapacity(w)
  /\ AfterSwap(w)
  /\ UNCHANGED <<size, dirs, blocks, reading>>

Block_SizeFirst(w) ==          \* mutant: the size is stored before the element
  /\ pc[w] = "block"
  /\ \/ /\ Entry(directory, i[w]) # 0
        /\ UNCHANGED <<dirs, blocks>>
     \/ /\ Entry(directory, i[w]) = 0
        /\ blocks' = Append(blocks, [o \in 0 .. BlockSize - 1 |-> Raw])
        /\ dirs' = [dirs EXCEPT ![directory][BlockOf(i[w])] = Len(blocks) + 1]
  /\ size' = i[w] + 1
  /\ Goto(w, "construct")
  /\ UNCHANGED <<directory, directory_capacity, retired, holder, op, arg, i, reading>>

(* if (!dir[block_idx]) dir[block_idx] = allocate_block();                  *)
Block(w) ==
  /\ pc[w] = "block"
  /\ \/ /\ Entry(directory, i[w]) # 0
        /\ UNCHANGED <<dirs, blocks>>
     \/ /\ Entry(directory, i[w]) = 0
        /\ blocks' = Append(blocks, [o \in 0 .. BlockSize - 1 |-> Raw])
        /\ dirs' = [dirs EXCEPT ![directory][BlockOf(i[w])] = Len(blocks) + 1]
  /\ Goto(w, "construct")
  /\ UNCHANGED <<size, directory, directory_capacity, retired, holder, op, arg, i, reading>>

(* std::construct_at(); in resize() the loop goes on to new_size            *)
Construct(w) ==
  /\ pc[w] = "construct"
  /\ LET a == AddressIn(directory, i[w]) IN
       blocks' = [blocks EXCEPT ![a[1]][a[2]] = IF op[w] = "emplace" THEN w ELSE Zero]
  /\ \/ /\ op[w] = "resize"
        /\ i' = [i EXCEPT ![w] = @ + 1]
        /\ Goto(w, IF i[w] + 1 < arg[w] THEN "block" ELSE "publish")
     \/ op[w] = "emplace" /\ UNCHANGED i /\ Goto(w, "publish")
  /\ UNCHANGED <<size, directory, directory_capacity, retired, dirs, holder, op, arg, reading>>

(* size_.store(); the guard releases the lock, and the call returns         *)
(* (emplace_back the index i).                                              *)
Publish(w) ==
  /\ pc[w] = "publish"
  /\ size' = IF op[w] = "emplace" THEN i[w] + 1 ELSE arg[w]
  /\ holder' = NoThread
  /\ Return(w)
  /\ UNCHANGED <<directory, directory_capacity, retired, dirs, blocks, reading>>

WriterStep(w) ==
  \/ Check(w) \/ Lock(w) \/ Copy(w) \/ Swap(w) \/ Block(w) \/ Construct(w)
  \/ Publish(w)

-----------------------------------------------------------------------------
(* Readers                                                                  *)

RGoto(r, l) == rpc' = [rpc EXCEPT ![r] = l]

(* The call is over: its locals are gone.                                   *)
RReturn(r) ==
  /\ RGoto(r, "idle")
  /\ rop' = [rop EXCEPT ![r] = "index"]
  /\ at' = [at EXCEPT ![r] = 0]
  /\ dir' = [dir EXCEPT ![r] = 0]
  /\ addr' = [addr EXCEPT ![r] = NoAddress]

(* Resolve index n for an operation o, from the directory on                *)
Resolve(r, o, n) ==
  /\ rop' = [rop EXCEPT ![r] = o]
  /\ at' = [at EXCEPT ![r] = n]
  /\ RGoto(r, "dir")

(* operator[], of an index below the size: the caller has called size()     *)
Index(r) ==
  /\ rpc[r] = "idle"
  /\ \E n \in 0 .. size - 1 : Resolve(r, "index", n)
  /\ UNCHANGED <<shared, holder, writing, dir, addr, index, cache>>

(* begin(), and end() after its call of size()                              *)
NewIterator(r) ==
  /\ rpc[r] = "idle"
  /\ \E n \in {0, size} : index' = [index EXCEPT ![r] = n]
  /\ cache' = [cache EXCEPT ![r] = NoAddress]
  /\ RGoto(r, "size")
  /\ UNCHANGED <<shared, holder, writing, rop, at, dir, addr>>

(* The iterator's constructor: index_ < deque_->size()                      *)
IteratorSize(r) ==
  /\ rpc[r] = "size"
  /\ \/ index[r] < size /\ Resolve(r, "construct", index[r])
     \/ index[r] >= size /\ RGoto(r, "idle") /\ UNCHANGED <<rop, at>>
  /\ UNCHANGED <<shared, holder, writing, dir, addr, index, cache>>

(* operator*, of an iterator below the size                                 *)
Dereference(r) ==
  /\ rpc[r] = "idle"
  /\ index[r] < size
  /\ \/ cache[r] = NoAddress /\ Resolve(r, "dereference", index[r]) /\ UNCHANGED addr
     \/ /\ cache[r] # NoAddress
        /\ addr' = [addr EXCEPT ![r] = cache[r]]
        /\ at' = [at EXCEPT ![r] = index[r]]
        /\ RGoto(r, "elem")
        /\ UNCHANGED rop
  /\ UNCHANGED <<shared, holder, writing, dir, index, cache>>

LoadDirectory_Locked(r) ==     \* mutant: the reader waits for the lock
  /\ rpc[r] = "dir"
  /\ holder = NoThread
  /\ dir' = [dir EXCEPT ![r] = directory]
  /\ RGoto(r, "entry")
  /\ UNCHANGED <<shared, holder, writing, rop, at, addr, index, cache>>

(* directory_.load()                                                        *)
LoadDirectory(r) ==
  /\ rpc[r] = "dir"
  /\ dir' = [dir EXCEPT ![r] = directory]
  /\ RGoto(r, "entry")
  /\ UNCHANGED <<shared, holder, writing, rop, at, addr, index, cache>>

(* &dir[block_idx][local_offset]; of the locals the caller has the address. *)
LoadEntry(r) ==
  /\ rpc[r] = "entry"
  /\ cache' = IF rop[r] = "index" THEN cache
              ELSE [cache EXCEPT ![r] = AddressIn(dir[r], at[r])]
  /\ \/ rop[r] = "construct" /\ RReturn(r)
     \/ /\ rop[r] # "construct"
        /\ addr' = [addr EXCEPT ![r] = AddressIn(dir[r], at[r])]
        /\ dir' = [dir EXCEPT ![r] = 0]
        /\ rop' = [rop EXCEPT ![r] = "index"]
        /\ RGoto(r, "elem")
        /\ UNCHANGED at
  /\ UNCHANGED <<shared, holder, writing, index>>

(* The caller uses the element.                                             *)
ReadElement(r) ==
  /\ rpc[r] = "elem"
  /\ RReturn(r)
  /\ UNCHANGED <<shared, holder, writing, index, cache>>

(* operator++ and operator--: the cache follows inside a block              *)
Moved(a, n) == IF a = NoAddress THEN NoAddress ELSE <<a[1], a[2] + n>>

Increment_KeepsCache(r) ==         \* mutant: the cache survives the end of a block
  /\ rpc[r] = "idle"
  /\ index[r] < MaxSize
  /\ index' = [index EXCEPT ![r] = @ + 1]
  /\ cache' = [cache EXCEPT ![r] = Moved(@, 1)]
  /\ UNCHANGED <<shared, holder, writing, rpc, rop, at, dir, addr>>

Increment(r) ==
  /\ rpc[r] = "idle"
  /\ index[r] < MaxSize
  /\ index' = [index EXCEPT ![r] = @ + 1]
  /\ cache' = [cache EXCEPT ![r] =
                 IF OffsetOf(index[r] + 1) = 0 THEN NoAddress ELSE Moved(@, 1)]
  /\ UNCHANGED <<shared, holder, writing, rpc, rop, at, dir, addr>>

Decrement(r) ==
  /\ rpc[r] = "idle"
  /\ index[r] > 0
  /\ index' = [index EXCEPT ![r] = @ - 1]
  /\ cache' = [cache EXCEPT ![r] =
                 IF OffsetOf(index[r]) = 0 THEN NoAddress ELSE Moved(@, -1)]
  /\ UNCHANGED <<shared, holder, writing, rpc, rop, at, dir, addr>>

(* operator+= and operator-=                                                *)
Jump(r) ==
  /\ rpc[r] = "idle"
  /\ \E n \in 0 .. MaxSize :
       /\ index' = [index EXCEPT ![r] = n]
       /\ cache' = [cache EXCEPT ![r] =
                      IF BlockOf(n) = BlockOf(index[r]) THEN Moved(@, n - index[r])
                      ELSE NoAddress]
  /\ UNCHANGED <<shared, holder, writing, rpc, rop, at, dir, addr>>

ReaderStep(r) == IteratorSize(r) \/ LoadDirectory(r) \/ LoadEntry(r) \/ ReadElement(r)

ReaderCall(r) ==
  Index(r) \/ NewIterator(r) \/ Dereference(r) \/ Increment(r) \/ Decrement(r) \/ Jump(r)

-----------------------------------------------------------------------------
Next ==
  \/ \E w \in Writers : Call(w) \/ WriterStep(w)
  \/ \E r \in Readers : ReaderCall(r) \/ ReaderStep(r)

Spec == Init /\ [][Next]_vars

(* Readers inside a call are scheduled; of writers nothing is assumed.      *)
ReaderSpec == Spec /\ \A r \in Readers : WF_vars(ReaderStep(r))

-----------------------------------------------------------------------------
TypeOK ==
  /\ size \in Nat
  /\ directory \in 0 .. Len(dirs)
  /\ directory_capacity \in Nat
  /\ directory # 0 => DOMAIN dirs[directory] = 0 .. directory_capacity - 1
  /\ directory = 0 => directory_capacity = 0
  /\ retired \subseteq 1 .. Len(dirs)
  /\ \A d \in 1 .. Len(dirs) : \A b \in DOMAIN dirs[d] : dirs[d][b] \in 0 .. Len(blocks)
  /\ \A b \in 1 .. Len(blocks) : blocks[b] \in [0 .. BlockSize - 1 -> Values \cup {Raw}]
  /\ holder \in Writers \cup {NoThread}
  /\ pc \in [Writers -> WriterPCs]
  /\ op \in [Writers -> {"emplace", "resize", "reserve"}]
  /\ arg \in [Writers -> Nat]
  /\ i \in [Writers -> Nat]
  /\ rpc \in [Readers -> ReaderPCs]
  /\ rop \in [Readers -> {"index", "construct", "dereference"}]
  /\ at \in [Readers -> Nat]
  /\ dir \in [Readers -> 0 .. Len(dirs)]
  /\ addr \in [Readers -> (Nat \X Nat) \cup {NoAddress}]
  /\ index \in [Readers -> Nat]
  /\ cache \in [Readers -> (Nat \X Nat) \cup {NoAddress}]

(* The directories that have not been freed.                                *)
Live == {directory} \cup retired

(* Index n has a block in directory d.                                      *)
Covers(d, n) == d # 0 /\ BlockOf(n) \in DOMAIN dirs[d] /\ Entry(d, n) # 0

(* A reader never follows a null or freed directory, a null block pointer   *)
(* or raw memory, and what it reads is the element of its index, whichever  *)
(* directory it loaded ("Why any directory loaded here is safe for every    *)
(* index below the observed size", lines 394-404).                          *)
ReadsAreSafe ==
  \A r \in Readers :
    /\ rpc[r] = "entry" => dir[r] \in Live /\ Covers(dir[r], at[r])
    /\ rpc[r] = "elem" => /\ addr[r] = AddressIn(directory, at[r])
                          /\ At(addr[r]) # Raw

(* The plain stores of a writer meet no load of a reader: a block pointer   *)
(* is stored, and an element constructed, only where no reader may be       *)
(* ("race-free with concurrent wait-free readers", lines 509-513).          *)
PlainStoresDontRace ==
  \A r \in Readers, w \in Writers :
    /\ pc[w] = "block" /\ rpc[r] = "entry" /\ dir[r] = directory
          /\ Entry(directory, i[w]) = 0
        => BlockOf(at[r]) # BlockOf(i[w])
    /\ pc[w] = "construct" /\ rpc[r] = "elem" => addr[r] # AddressIn(directory, i[w])

(* A cached address is the one the current directory gives for the index,   *)
(* through all moves and reallocations (lines 112-117).                     *)
CacheIsCurrent ==
  \A r \in Readers :
    cache[r] # NoAddress =>
      Covers(directory, index[r]) /\ cache[r] = AddressIn(directory, index[r])

(* Between calls, what the destructor does is right: the elements it        *)
(* destroys are those that were constructed, each block is in the current   *)
(* directory once, and every directory is either current or retired.        *)
DestructorIsSafe ==
  (\A w \in Writers : pc[w] = "idle") =>
    /\ Live \ {0} = 1 .. Len(dirs) /\ directory \notin retired
    /\ \A b \in 1 .. Len(blocks) :
         \E k \in 0 .. directory_capacity - 1 :
           /\ \A j \in 0 .. directory_capacity - 1 : dirs[directory][j] = b <=> j = k
           /\ \A o \in 0 .. BlockSize - 1 : blocks[b][o] # Raw <=> k * BlockSize + o < size

(* The three together: no thread touches memory that is not a constructed    *)
(* element, or that another thread is writing, and the destructor finds     *)
(* each element and each block once.                                        *)
MemoryIsSafe == ReadsAreSafe /\ PlainStoresDontRace /\ DestructorIsSafe

(* What a call promises when it returns: emplace_back the index of its      *)
(* element, resize at least its size even if it only looked, reserve the    *)
(* capacity.                                                                *)
CallsDeliver ==
  \A w \in Writers :
    pc[w] # "idle" /\ pc'[w] = "idle" =>
      CASE op[w] = "emplace" -> i[w] < size' /\ At(AddressIn(directory, i[w])) = w
        [] op[w] = "resize"  -> arg[w] <= size'
        [] op[w] = "reserve" -> arg[w] <= directory_capacity' * BlockSize

L == INSTANCE AppendLog WITH
       Values <- Writers, log <- [n \in 1 .. size |-> At(AddressIn(directory, n - 1))]

(* The deque implements the append-only log, and its calls return what they *)
(* promise.                                                                 *)
ImplementsAppendLog == L!Spec /\ [][CallsDeliver]_vars

(* Readers are wait-free: a call returns although writers may stop anywhere,*)
(* with the lock held or in the middle of a reallocation.                   *)
ReadersAreWaitFree == \A r \in Readers : rpc[r] # "idle" ~> rpc[r] = "idle"
=============================================================================
