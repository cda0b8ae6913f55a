------------------------------- MODULE Buffers -------------------------------
(***************************************************************************)
(* How the benchmarks of Chapter09 get the memory for a string of a random *)
(* length: a new array each time, one array of the greatest length, or a   *)
(* Buffer that grows (04a to 04e_buffer.C; in 04d and 04e every thread     *)
(* runs the same loop), and the Pool of 06_pool.C, which hands out pieces  *)
(* of one mapping.                                                         *)
(*                                                                         *)
(* The heap is a set of blocks with their sizes; of a block's contents the *)
(* model keeps how many of its first bytes have been written.              *)
(***************************************************************************)
EXTENDS Integers, FiniteSets

CONSTANTS
  Runners,    (* benchmark threads                                         *)
  NMax,       (* state.range(0)                                            *)
  Laps,       (* iterations of each                                        *)
  MaxRandom   (* RAND_MAX                                                  *)

Ways == {"new", "max", "buffer", "pool"}
Blocks == 1 .. 2 * Cardinality(Runners)

VARIABLES
  way,
  heap,       (* size of each block, 0 where there is none                 *)
  written,    (* how much of each block has been written                   *)
  at, lap,    (* each runner,                                              *)
  length,     (* its N,                                                    *)
  buf, old,   (* its array, and the one it is growing out of,              *)
  size_,      (* and Buffer::size_                                         *)
  pool,       (* Pool::size_                                               *)
  pieces      (* what the pool has handed out: first byte and length       *)

vars == <<way, heap, written, at, lap, length, buf, old, size_, pool, pieces>>

Null == 0

Init ==
  /\ way \in Ways
  /\ heap = [b \in Blocks |-> 0] /\ written = [b \in Blocks |-> 0]
  /\ at = [t \in Runners |-> "start"] /\ lap = [t \in Runners |-> 0]
  /\ length = [t \in Runners |-> 0]
  /\ buf = [t \in Runners |-> Null] /\ old = [t \in Runners |-> Null]
  /\ size_ = [t \in Runners |-> 0]
  /\ pool = 0 /\ pieces = {}

Goto(t, l) == at' = [at EXCEPT ![t] = l]

(* new char[n], delete []                                                   *)
NewBlock == CHOOSE b \in Blocks : heap[b] = 0
Allocate(n, b) == heap' = [heap EXCEPT ![b] = n]
Delete(b) ==
  /\ heap' = [heap EXCEPT ![b] = 0]
  /\ written' = [written EXCEPT ![b] = 0]

Greater(m, n) == IF m > n THEN m ELSE n

-----------------------------------------------------------------------------
(* before the loop: the greatest array, or Buffer buf(1)                    *)
StartMax(t) ==
  /\ at[t] = "start" /\ way = "max"
  /\ Allocate(NMax, NewBlock) /\ buf' = [buf EXCEPT ![t] = NewBlock]
  /\ Goto(t, "draw")
  /\ UNCHANGED <<way, written, lap, length, old, size_, pool, pieces>>

StartBuffer(t) ==
  /\ at[t] = "start" /\ way = "buffer"
  /\ Allocate(1, NewBlock) /\ buf' = [buf EXCEPT ![t] = NewBlock]
  /\ size_' = [size_ EXCEPT ![t] = 1]
  /\ Goto(t, "draw")
  /\ UNCHANGED <<way, written, lap, length, old, pool, pieces>>

StartNew(t) ==
  /\ at[t] = "start" /\ way \in {"new", "pool"}
  /\ Goto(t, "draw")
  /\ UNCHANGED <<way, heap, written, lap, length, buf, old, size_, pool, pieces>>

(* N = (r % NMax) + 1                                                       *)
Draw(t) ==
  /\ at[t] = "draw" /\ lap[t] < Laps
  /\ \E r \in 0 .. MaxRandom : length' = [length EXCEPT ![t] = (r % NMax) + 1]
  /\ lap' = [lap EXCEPT ![t] = @ + 1]
  /\ Goto(t, CASE way = "new" -> "new" [] way = "max" -> "fill"
               [] way = "buffer" -> "resize" [] OTHER -> "allocate")
  /\ UNCHANGED <<way, heap, written, buf, old, size_, pool, pieces>>

NewArray(t) ==
  /\ at[t] = "new"
  /\ Allocate(length[t], NewBlock) /\ buf' = [buf EXCEPT ![t] = NewBlock]
  /\ Goto(t, "fill")
  /\ UNCHANGED <<way, written, lap, length, old, size_, pool, pieces>>

(* Buffer::resize(): a buffer that is long enough stays,                    *)
LongEnough(t) ==
  /\ at[t] = "resize" /\ length[t] <= size_[t]
  /\ Goto(t, "fill")
  /\ UNCHANGED <<way, heap, written, lap, length, buf, old, size_, pool, pieces>>

(* a longer one takes over its contents                                     *)
Grow(t) ==
  /\ at[t] = "resize" /\ length[t] > size_[t]
  /\ Allocate(length[t], NewBlock)
  /\ written' = [written EXCEPT ![NewBlock] = IF written[buf[t]] < size_[t] THEN written[buf[t]]
                                              ELSE size_[t]]
  /\ old' = [old EXCEPT ![t] = buf[t]] /\ buf' = [buf EXCEPT ![t] = NewBlock]
  /\ Goto(t, "reset")
  /\ UNCHANGED <<way, lap, length, size_, pool, pieces>>

Reset(t) ==
  /\ at[t] = "reset"
  /\ Delete(old[t]) /\ old' = [old EXCEPT ![t] = Null]
  /\ size_' = [size_ EXCEPT ![t] = length[t]]
  /\ Goto(t, "fill")
  /\ UNCHANGED <<way, lap, length, buf, pool, pieces>>

(* memset(buf, 0xab, N)                                                     *)
Fill(t) ==
  /\ at[t] = "fill"
  /\ written' = [written EXCEPT ![buf[t]] = Greater(@, length[t])]
  /\ Goto(t, IF way = "new" THEN "delete" ELSE "draw")
  /\ UNCHANGED <<way, heap, lap, length, buf, old, size_, pool, pieces>>

DeleteArray(t) ==
  /\ at[t] = "delete"
  /\ Delete(buf[t]) /\ buf' = [buf EXCEPT ![t] = Null]
  /\ Goto(t, "draw")
  /\ UNCHANGED <<way, lap, length, old, size_, pool, pieces>>

(* Pool::allocate(): fetch_add                                              *)
AllocatePiece(t) ==
  /\ at[t] = "allocate"
  /\ pieces' = pieces \cup {<<pool, length[t]>>}
  /\ pool' = pool + length[t]
  /\ Goto(t, "draw")
  /\ UNCHANGED <<way, heap, written, lap, length, buf, old, size_>>

(* after the loop: delete [] of 04b, ~Buffer()                              *)
Leave(t) ==
  /\ at[t] = "draw" /\ lap[t] = Laps
  /\ IF buf[t] = Null THEN UNCHANGED <<heap, written, buf>>
     ELSE Delete(buf[t]) /\ buf' = [buf EXCEPT ![t] = Null]
  /\ Goto(t, "done")
  /\ UNCHANGED <<way, lap, length, old, size_, pool, pieces>>

Runner(t) ==
  \/ StartNew(t) \/ StartMax(t) \/ StartBuffer(t) \/ Draw(t)
  \/ NewArray(t) \/ LongEnough(t) \/ Grow(t) \/ Reset(t)
  \/ Fill(t) \/ DeleteArray(t) \/ AllocatePiece(t) \/ Leave(t)

Next == \E t \in Runners : Runner(t)

Spec == Init /\ [][Next]_vars

-----------------------------------------------------------------------------
(* Nothing is written beyond the end of its array, however lengths that     *)
(* grow and shrink follow each other; a Buffer's size_ is its array's.      *)
WritesStayInside ==
  /\ \A b \in Blocks : written[b] <= heap[b]
  /\ \A t \in Runners :
       way = "buffer" /\ buf[t] # Null /\ at[t] # "reset" => size_[t] = heap[buf[t]]

(* Every array has one owner, and none is left when its runner has gone.    *)
NothingLeaks ==
  {b \in Blocks : heap[b] > 0}
    = ({buf[t] : t \in Runners} \cup {old[t] : t \in Runners}) \ {Null}

(* The pool's pieces do not overlap and fill it from its beginning.         *)
PiecesAreDisjoint ==
  /\ \A p, q \in pieces : p # q => p[1] + p[2] <= q[1] \/ q[1] + q[2] <= p[1]
  /\ \A b \in 0 .. pool - 1 : \E p \in pieces : p[1] <= b /\ b < p[1] + p[2]

BuffersAreSound == WritesStayInside /\ NothingLeaks /\ PiecesAreDisjoint

(* Growing keeps what the buffer holds.                                     *)
GrowingKeepsContents ==
  \A t \in Runners :
    at[t] = "resize" => written'[buf'[t]] >= written[buf[t]]

BuffersTypeOK ==
  /\ way \in Ways
  /\ \A t \in Runners : lap[t] \in 0 .. Laps /\ length[t] \in 0 .. NMax
  /\ \A b \in Blocks : heap[b] \in 0 .. NMax
=============================================================================
