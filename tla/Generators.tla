----------------------------- MODULE Generators -----------------------------
(***************************************************************************)
(* The generators of Chapter08: coroutines that yield Fibonacci numbers    *)
(* (14, 14a and 15_coroutine_generator.C), the class Generator that 15     *)
(* compares its coroutine with, and the two ways of walking through a      *)
(* four-dimensional matrix of 16 and 16a_coroutine_iterator.C: nested      *)
(* loops in a coroutine, and iterators that turn the loops inside out.     *)
(*                                                                         *)
(* Where a program compares two implementations, both move in the same     *)
(* step.  An unsigned long is a number modulo Modulus.  The cells of the   *)
(* matrix are their positions in its deque; 16a has no padding.            *)
(***************************************************************************)
EXTENDS Integers, Sequences

CONSTANTS
  Modulus,   (* 2^64 in the code                                           *)
  Rounds,    (* iterations of 14's main() and of 14a's coro()              *)
  Calls,     (* bound of the model: iterations of the benchmarks of 15     *)
  Pad,       (* PAD, 8 in the code                                         *)
  Sizes      (* the sizes of the matrix's dimensions                       *)

GeneratorsAssumption == /\ Modulus \in Nat \ {0, 1} /\ Rounds \in Nat /\ Calls \in Nat
                        /\ Pad \in Nat /\ Sizes \subseteq Nat \ {0}

Fibonaccis == {"forever", "finite", "compared"}
Walks == {"row", "col"}

VARIABLES
  program,
  matrix,    (* n: the four sizes, pad: the padding of a row               *)
  coro,      (* the coroutine's frame and its promise's value              *)
  object,    (* the Generator, or the iterator of a ManualRange            *)
  yielded,   (* what the coroutine yielded,                                *)
  printed,   (* what its caller took from the promise,                     *)
  answered   (* and what the object answered                               *)

vars == <<program, matrix, coro, object, yielded, printed, answered>>

Zero == [d \in 1 .. 4 |-> 0]
Inside == {x \in [1 .. 4 -> UNION {0 .. s - 1 : s \in Sizes}] : \A d \in 1 .. 4 : x[d] < matrix.n[d]}

(* Matrix4D::at(), and the same without padding                             *)
At(x) == ((x[1] * matrix.n[2] + x[2]) * matrix.n[3] + x[3])
           * (matrix.n[4] + matrix.pad) + x[4]

Data == 0 .. matrix.n[1] * matrix.n[2] * matrix.n[3] * (matrix.n[4] + matrix.pad) - 1

(* the loops of matrix_gen_row() and matrix_gen_col(), the outermost first  *)
Nest == IF program = "row" THEN <<1, 2, 3, 4>> ELSE <<4, 3, 2, 1>>

Earlier(x, y) ==
  \E d \in 1 .. 4 : /\ x[Nest[d]] < y[Nest[d]]
                    /\ \A e \in 1 .. d - 1 : x[Nest[e]] = y[Nest[e]]

First(S) == CHOOSE x \in S : \A y \in S \ {x} : Earlier(x, y)

-----------------------------------------------------------------------------
(* A coroutine runs from one co_yield to the next; initial_suspend() makes  *)
(* it run to the first one when it is called, final_suspend() keeps the     *)
(* frame for done().                                                        *)
Yield(frame, v) == [frame EXCEPT !.value = v]

NextNumber(frame) ==
  LET n == (frame.n1 + frame.n2) % Modulus
  IN Yield([frame EXCEPT !.n1 = frame.n2, !.n2 = n, !.i = @ + 1], n)

ResumeNumbers(frame, finite) ==
  CASE frame.at = "start" -> Yield([frame EXCEPT !.n1 = 1, !.at = "first"], 1)
    [] frame.at = "first" -> Yield([frame EXCEPT !.n2 = 1, !.at = "loop"], 1)
    [] frame.at = "loop" /\ finite /\ frame.i = Rounds -> [frame EXCEPT !.at = "done"]
    [] OTHER -> NextNumber(frame)

ResumeLoops(frame) ==
  LET left == {x \in Inside : frame.at = "start" \/ Earlier(frame.x, x)}
  IN IF left = {} THEN [frame EXCEPT !.at = "done"]
     ELSE Yield([frame EXCEPT !.x = First(left), !.at = "loop"], At(First(left)))

Resume(frame) ==
  IF program \in Walks THEN ResumeLoops(frame) ELSE ResumeNumbers(frame, program = "finite")

Frame == [at |-> "start", n1 |-> 0, n2 |-> 0, i |-> 0, x |-> Zero, value |-> -1]

(* h(): a finished coroutine must not be resumed                            *)
Go == /\ coro.at \notin {"done", "destroyed"}
      /\ coro' = Resume(coro)
      /\ yielded' = IF coro'.at = "done" THEN yielded ELSE Append(yielded, coro'.value)

TakeValue == printed' = Append(printed, coro.value)

Destroy == coro' = [coro EXCEPT !.at = "destroyed"]

-----------------------------------------------------------------------------
(* Generator::operator(): zero stands for `not yet'                         *)
Generate ==
  /\ LET n == (object.n1 + object.n2) % Modulus
     IN CASE object.n1 = 0 -> /\ object' = [object EXCEPT !.n1 = 1]
                              /\ answered' = Append(answered, 1)
          [] object.n1 # 0 /\ object.n2 = 0 -> /\ object' = [object EXCEPT !.n2 = 1]
                                               /\ answered' = Append(answered, 1)
          [] OTHER -> /\ object' = [object EXCEPT !.n1 = object.n2, !.n2 = n]
                      /\ answered' = Append(answered, n)

Carry_NoReset(x, order) ==     \* mutant: the indices before it stay where they are
  LET stays == {c \in 1 .. 3 : x[order[c]] + 1 < matrix.n[order[c]]}
      moves == IF stays = {} THEN 4 ELSE CHOOSE c \in stays : \A b \in stays : c <= b
  IN [x EXCEPT ![order[moves]] = @ + 1]

(* ++ of the two ManualRange iterators: the first index in the order of     *)
(* carrying that stays in its range moves on, and those before it start     *)
(* again; the last one is not tested                                        *)
Carry(x, order) ==
  LET stays == {c \in 1 .. 3 : x[order[c]] + 1 < matrix.n[order[c]]}
      moves == IF stays = {} THEN 4 ELSE CHOOSE c \in stays : \A b \in stays : c <= b
  IN [d \in 1 .. 4 |-> IF d = order[moves] THEN x[d] + 1
                       ELSE IF \E c \in 1 .. moves - 1 : order[c] = d THEN 0 ELSE x[d]]

RowIncrement(x) == Carry(x, <<4, 3, 2, 1>>)
ColIncrement(x) == Carry(x, <<1, 2, 3, 4>>)

(* operator!= compares the outermost index with that of end()               *)
AtEnd(x) == IF program = "row" THEN x[1] = matrix.n[1] ELSE x[4] = matrix.n[4]

-----------------------------------------------------------------------------
Init ==
  /\ program \in Fibonaccis \cup Walks
  /\ matrix \in [n : IF program \in Walks THEN [1 .. 4 -> Sizes] ELSE {Zero}, pad : {0, Pad}]
  /\ matrix.pad = 0 \/ program \in Walks
  /\ coro = Frame
  /\ object = [n1 |-> 0, n2 |-> 0, x |-> Zero]
  /\ yielded = <<>> /\ printed = <<>> /\ answered = <<>>

(* the call of the coroutine                                                *)
Start ==
  /\ coro.at = "start" /\ Go
  /\ UNCHANGED <<program, matrix, object, printed, answered>>

(* main() of 14 resumes a coroutine without an end a fixed number of times, *)
RunForever ==
  /\ program = "forever" /\ coro.at \in {"first", "loop"}
  /\ IF Len(printed) < Rounds
     THEN TakeValue /\ Go
     ELSE Destroy /\ UNCHANGED <<yielded, printed>>
  /\ UNCHANGED <<program, matrix, object, answered>>

(* main() of 14a resumes one until it is done                               *)
RunFinite ==
  /\ program = "finite" /\ coro.at \in {"first", "loop", "done"}
  /\ IF coro.at # "done"
     THEN TakeValue /\ Go
     ELSE Destroy /\ UNCHANGED <<yielded, printed>>
  /\ UNCHANGED <<program, matrix, object, answered>>

(* BM_coro() and BM_generator() of 15                                       *)
Compare ==
  /\ program = "compared" /\ coro.at \in {"first", "loop"}
  /\ IF Len(printed) < Calls
     THEN TakeValue /\ Go /\ Generate
     ELSE Destroy /\ UNCHANGED <<yielded, printed, object, answered>>
  /\ UNCHANGED <<program, matrix>>

(* one element of the range-for loops of BM_coro_* and BM_manual_*; the     *)
(* loops end apart only if they visit different numbers of elements         *)
Element ==
  /\ program \in Walks /\ coro.at = "loop"
  /\ TakeValue /\ Go
  /\ IF AtEnd(object.x)
     THEN UNCHANGED <<object, answered>>
     ELSE /\ answered' = Append(answered, At(object.x))
          /\ object' = [object EXCEPT !.x = IF program = "row" THEN RowIncrement(@)
                                            ELSE ColIncrement(@)]
  /\ UNCHANGED <<program, matrix>>

(* the end of the coroutine's loop, ~generator()                            *)
EndOfRange ==
  /\ program \in Walks /\ coro.at = "done"
  /\ Destroy
  /\ UNCHANGED <<program, matrix, object, yielded, printed, answered>>

Next == Start \/ RunForever \/ RunFinite \/ Compare \/ Element \/ EndOfRange

Spec == Init /\ [][Next]_vars

-----------------------------------------------------------------------------
(* Every caller takes each value of its coroutine once, in the order of the *)
(* yields, and never the stale one of a coroutine that is done:             *)
EachYieldIsTaken ==
  IF coro.at = "done" \/ (coro.at = "destroyed" /\ program \in {"finite"} \cup Walks)
  THEN printed = yielded
  ELSE coro.at # "start" => Append(printed, coro.value) = yielded

(* What the coroutine and the class of 15 compute is the same for as long   *)
(* as no sum wraps around to zero, which Generator takes for its beginning; *)
(* the first value after that zero is the coroutine's alone.                *)
GeneratorsAgree ==
  program = "compared" =>
    \A k \in 1 .. Len(answered) :
      (\A j \in 1 .. k - 1 : printed[j] # 0) => answered[k] = printed[k]

(* The loops and the iterators visit the same cells in the same order, and  *)
(* stop together; they stay inside the data and have visited every cell of  *)
(* the matrix once when they stop.                                          *)
WalksAgree ==
  program \in Walks =>
    /\ answered = printed
    /\ \A k \in 1 .. Len(answered) : answered[k] \in Data
    /\ \A j, k \in 1 .. Len(answered) : answered[j] = answered[k] => j = k
    /\ coro.at \in {"done", "destroyed"} <=> (coro.at # "start" /\ AtEnd(object.x))
    /\ AtEnd(object.x) => Len(answered) = matrix.n[1] * matrix.n[2] * matrix.n[3] * matrix.n[4]

GeneratorsAreSound == EachYieldIsTaken /\ GeneratorsAgree /\ WalksAgree

GeneratorsTypeOK ==
  /\ program \in Fibonaccis \cup Walks
  /\ coro.at \in {"start", "first", "loop", "done", "destroyed"}
  /\ object.x \in [1 .. 4 -> Nat]
=============================================================================
