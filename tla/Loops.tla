-------------------------------- MODULE Loops --------------------------------
(***************************************************************************)
(* The loops of Chapter03 and Chapter09 that compute the same with and     *)
(* without a branch, with more or fewer instructions, unrolled, or with a  *)
(* test moved to the caller.  The functions of one program run side by     *)
(* side over the same random numbers.                                      *)
(*                                                                         *)
(* An unsigned long is a number modulo Word; rand() returns 0 .. RandMax,  *)
(* and an int holds no more than RandMax, so rand() + 1 may overflow: the  *)
(* result is then the sum or, wrapped and converted, Word - RandMax - 1.   *)
(***************************************************************************)
EXTENDS Integers, FiniteSets

CONSTANTS
  Word,      (* 2^64 in the code                                           *)
  RandMax,   (* RAND_MAX, the greatest int                                 *)
  Numbers,   (* the numbers rand() returns in the model                    *)
  Length,    (* state.range(0)                                             *)
  Unroll     (* 16 in 18_unrolled.C                                        *)

LoopsAssumption ==
  /\ RandMax \in Nat /\ Word > 2 * (RandMax + 1)
  /\ Numbers \subseteq 0 .. RandMax
  /\ Unroll \in Nat \ {0} /\ Length % Unroll = 0

VARIABLES
  suite,     (* which program, and which condition data                    *)
  i,         (* iterations done                                            *)
  cond,      (* c1[i - 1]                                                  *)
  acc,       (* the sums of each function                                  *)
  divisor    (* v2[i - 1] of BM_divide                                     *)

vars == <<suite, i, cond, acc, divisor>>

Sums == {"sums", "sums predicted", "terms", "terms predicted",
         "calls", "calls predicted", "calls inline"}
Patterns == {"always", "random", "alternating", "threes"}
Suites == Sums \cup Patterns \cup
          {"false branch", "flag", "swap", "comparison", "comparison predicted", "arithmetic"}

Wrap(n) == n % Word
Add(a, f, n) == [a EXCEPT ![f] = Wrap(@ + n)]

(* an int that may have overflowed, as an unsigned long                     *)
FromInt(n) == IF n <= RandMax THEN {n} ELSE {n, Word - 2 * (RandMax + 1) + n}

Bit(c) == IF c THEN 1 ELSE 0

-----------------------------------------------------------------------------
(* 19_branchless.C: the branch, and the table of pointers that replaces it  *)
Branched(a, x, c) == IF c THEN Add(a, "a1", x) ELSE Add(a, "a2", x)

Branchless(a, x, c) ==
  LET table == [b \in 0 .. 1 |-> <<"a2", "a1">>[b + 1]]
  IN Add(a, table[Bit(c)], x)

(* 20_branchless.C: two tables of terms, or one and a table of pointers     *)
BranchedTerms(a, x, y, c) == IF c THEN Add(a, "a1", x - y) ELSE Add(a, "a2", x * y)

BranchlessTerms(a, x, y, c) ==
  LET s1 == <<0, x - y>>
      s2 == <<x * y, 0>>
  IN Add(Add(a, "a1", s1[Bit(c) + 1]), "a2", s2[Bit(c) + 1])

BranchlessTerms2(a, x, y, c) ==
  LET s == <<x * y, x - y>>
  IN Add(a, <<"a2", "a1">>[Bit(c) + 1], s[Bit(c) + 1])

(* 21_branchless_functions.C: a call in each branch, or a table of calls    *)
f1(x, y) == Wrap(x - y)
f2(x, y) == Wrap(x * y)

BranchedCalls(a, x, y, c) == Add(a, "a1", IF c THEN f1(x, y) ELSE f2(x, y))

BranchlessCalls(a, x, y, c) ==
  LET f == <<f2(x, y), f1(x, y)>>
  IN Add(a, "a1", f[Bit(c) + 1])

(* 17_false_branch.C: four ways to compute a condition that always holds    *)
Take(a, x, y, c) == IF c THEN Add(a, "a1", x) ELSE [a EXCEPT !.a1 = Wrap(@ * y)]

FalseBranch(a, x, y, b1, b2) == Take(a, x, y, b1 \/ b2)
FalseBranchTmp(a, x, y, b1, b2) == LET tmp == b1 \/ b2 IN Take(a, x, y, tmp)
FalseBranchArith(a, x, y, b1, b2) == Take(a, x, y, Bit(b1) + Bit(b2) # 0)
FalseBranchBitwise(a, x, y, b1, b2) == Take(a, x, y, {1} \cap {Bit(b1), Bit(b2)} # {})

(* 07_cond.C and 08_cond_opt.C of Chapter09                                 *)
AddIf(a, x, b) == IF b THEN Add(a, "a1", x) ELSE a
AddProduct(a, x, b) == Add(a, "a1", Bit(b) * x)

(* 09_swap.C of Chapter09: p is null or points to a, q is null or to b      *)
myswap(a, p, q) == IF p /\ q THEN [a EXCEPT !.a1 = a.a2, !.a2 = a.a1] ELSE a
CheckedSwap(a, p, q) == IF p /\ q THEN myswap(a, p, q) ELSE a

(* 11_cond.C and 12_cond.C, and the conditional move of 13_cmove.C          *)
Conditional(a, x, y) == IF x > y THEN Add(a, "a1", x + y) ELSE Add(a, "a2", x * y)
ConditionalMove(a, x, y) == Add(a, "a1", IF x > y THEN x + y ELSE x * y)

(* 01 to 03, 18 and 04_superscalar.C: more and more of the same additions   *)
BM_add(a, x, y) == Add(a, "a1", x + y)
BM_multiply(a, x, y) == Add(a, "a2", x * y)
BM_add_multiply(a, x, y) == Add(Add(a, "a1", x + y), "a2", x * y)
BM_sub_shift(a, x, y) == Add(Add(BM_add_multiply(a, x, y), "a3", x * 4), "a4", y - x)
BM_instructions1(a, x, y) == Add(Add(BM_sub_shift(a, x, y), "a5", y * 2), "a6", y - 3)
BM_instructions2(a, x, y) ==
  Add(Add(BM_sub_shift(a, x, y), "a5", y * 2 * y), "a6", (y - 3) * x)
BM_divide(a, x, d) == Add(a, "a2", x \div d)

(* one addition for every Unroll iterations; part is the sum so far         *)
BM_unrolled(a, x, y) ==
  IF (i + 1) % Unroll = 0
  THEN [Add(a, "a2", a.part + x * y) EXCEPT !.part = 0]
  ELSE Add(a, "part", x * y)

-----------------------------------------------------------------------------
Zero == [a1 |-> 0, a2 |-> 0]
Six == [a1 |-> 0, a2 |-> 0, a3 |-> 0, a4 |-> 0, a5 |-> 0, a6 |-> 0]

Start ==
  CASE suite \in {"sums", "sums predicted", "calls", "calls predicted", "calls inline"} ->
         [branched |-> Zero, branchless |-> Zero]
    [] suite \in {"terms", "terms predicted"} ->
         [branched |-> Zero, branchless |-> Zero, v2 |-> Zero]
    [] suite = "false branch" -> [branch |-> Zero, tmp |-> Zero, arith |-> Zero, bitwise |-> Zero]
    [] suite = "flag" -> [cond |-> Zero, opt |-> Zero]
    [] suite = "swap" -> [checked |-> [a1 |-> 1, a2 |-> 2], unchecked |-> [a1 |-> 1, a2 |-> 2]]
    [] suite \in Patterns -> [sum |-> Zero]
    [] suite \in {"comparison", "comparison predicted"} -> [branch |-> Zero, cmove |-> Zero]
    [] OTHER -> [add |-> Zero, multiply |-> Zero, both |-> Zero, four |-> Six, six |-> Six,
                 six2 |-> Six, divide |-> Zero, unrolled |-> [a2 |-> 0, part |-> 0]]

Init ==
  /\ suite \in Suites
  /\ i = 0 /\ cond = FALSE /\ divisor = 1
  /\ acc = Start

(* the condition data: rand() & 0x1, rand() >= 0                            *)
RandomBits == BOOLEAN
Predicted == {TRUE}

(* b1[i] of 16_branch_prediction.C; the first one of a pattern is true      *)
PatternBits ==
  CASE suite = "always" -> {TRUE}
    [] suite = "random" -> RandomBits
    [] suite = "alternating" -> IF i = 0 THEN {TRUE} ELSE {~cond}
    [] OTHER -> {CASE i % 3 = 0 -> TRUE [] i % 3 = 1 -> cond [] OTHER -> ~cond}

Iterate(name) == suite = name /\ i < Length /\ i' = i + 1 /\ UNCHANGED suite

SumLoops(name, Bits) ==
  /\ Iterate(name)
  /\ \E x \in Numbers, c \in Bits :
       /\ cond' = c
       /\ acc' = [branched |-> Branched(acc.branched, x, c),
                  branchless |-> Branchless(acc.branchless, x, c)]
  /\ UNCHANGED divisor

SumsRandom == SumLoops("sums", RandomBits)
SumsPredicted == SumLoops("sums predicted", Predicted)

TermLoops(name, Bits) ==
  /\ Iterate(name)
  /\ \E x, y \in Numbers, c \in Bits :
       /\ cond' = c
       /\ acc' = [branched |-> BranchedTerms(acc.branched, x, y, c),
                  branchless |-> BranchlessTerms(acc.branchless, x, y, c),
                  v2 |-> BranchlessTerms2(acc.v2, x, y, c)]
  /\ UNCHANGED divisor

TermsRandom == TermLoops("terms", RandomBits)
TermsPredicted == TermLoops("terms predicted", Predicted)

(* the `predicted' functions of 21 draw their conditions at random, too     *)
CallLoops(name, Bits) ==
  /\ Iterate(name)
  /\ \E x, y \in Numbers, c \in Bits :
       /\ cond' = c
       /\ acc' = [branched |-> BranchedCalls(acc.branched, x, y, c),
                  branchless |-> BranchlessCalls(acc.branchless, x, y, c)]
  /\ UNCHANGED divisor

CallsRandom == CallLoops("calls", RandomBits)
CallsPredicted == CallLoops("calls predicted", RandomBits)
CallsInline == CallLoops("calls inline", RandomBits)

FalseBranches ==
  /\ Iterate("false branch")
  /\ \E x, y \in Numbers, b1 \in RandomBits :
       /\ cond' = b1
       /\ acc' = [branch |-> FalseBranch(acc.branch, x, y, b1, ~b1),
                  tmp |-> FalseBranchTmp(acc.tmp, x, y, b1, ~b1),
                  arith |-> FalseBranchArith(acc.arith, x, y, b1, ~b1),
                  bitwise |-> FalseBranchBitwise(acc.bitwise, x, y, b1, ~b1)]
  /\ UNCHANGED divisor

Predictions ==
  /\ \E name \in Patterns : Iterate(name)
  /\ \E x, y \in Numbers, c \in PatternBits :
       /\ cond' = c
       /\ acc' = [sum |-> Take(acc.sum, x, y, c)]
  /\ UNCHANGED divisor

Flags ==
  /\ Iterate("flag")
  /\ \E x \in Numbers, b \in BOOLEAN :
       /\ cond' = b
       /\ acc' = [cond |-> AddIf(acc.cond, x, b), opt |-> AddProduct(acc.opt, x, b)]
  /\ UNCHANGED divisor

Swaps ==
  /\ Iterate("swap")
  /\ \E p, q \in BOOLEAN :
       acc' = [checked |-> CheckedSwap(acc.checked, p, q), unchecked |-> myswap(acc.unchecked, p, q)]
  /\ UNCHANGED <<cond, divisor>>

Compare(x, y) ==
  acc' = [branch |-> Conditional(acc.branch, x, y), cmove |-> ConditionalMove(acc.cmove, x, y)]

Comparisons ==
  /\ Iterate("comparison")
  /\ \E x, y \in Numbers : Compare(x, y)
  /\ UNCHANGED <<cond, divisor>>

(* v1[i] = rand() % 10 and v2[i] = rand() + 20, in smaller numbers          *)
ComparisonsPredicted ==
  /\ Iterate("comparison predicted")
  /\ \E x, r \in Numbers : \E y \in FromInt(r + 2) : Compare(x % 2, y)
  /\ UNCHANGED <<cond, divisor>>

Arithmetic ==
  /\ Iterate("arithmetic")
  /\ \E x, y, r \in Numbers : \E d \in FromInt(r + 1) :
       /\ divisor' = d
       /\ acc' = [add |-> BM_add(acc.add, x, y), multiply |-> BM_multiply(acc.multiply, x, y),
                  both |-> BM_add_multiply(acc.both, x, y), four |-> BM_sub_shift(acc.four, x, y),
                  six |-> BM_instructions1(acc.six, x, y), six2 |-> BM_instructions2(acc.six2, x, y),
                  divide |-> BM_divide(acc.divide, x, d),
                  unrolled |-> BM_unrolled(acc.unrolled, x, y)]
  /\ UNCHANGED cond

Next ==
  \/ SumsRandom \/ SumsPredicted \/ TermsRandom \/ TermsPredicted
  \/ CallsRandom \/ CallsPredicted \/ CallsInline
  \/ FalseBranches \/ Predictions \/ Flags \/ Swaps
  \/ Comparisons \/ ComparisonsPredicted \/ Arithmetic

Spec == Init /\ [][Next]_vars

-----------------------------------------------------------------------------
(* Removing a branch does not change what a loop computes: after every      *)
(* iteration the functions of one program have the same sums.               *)
BranchlessAgrees ==
  suite \in Sums \cup {"false branch", "flag", "swap"} =>
    \A v, w \in DOMAIN acc : acc[v] = acc[w]

(* The two accumulators of 11 and 12 add up to that of the conditional      *)
(* move; where 12 means the branch to be predicted, it is never taken.      *)
MovesAgree ==
  suite \in {"comparison", "comparison predicted"} =>
    /\ acc.cmove.a1 = Wrap(acc.branch.a1 + acc.branch.a2)
    /\ suite = "comparison predicted" => acc.branch.a1 = 0

(* More instructions in a loop do not change the sums it had; the unrolled  *)
(* loop agrees with the plain one after each group; nothing is divided by   *)
(* zero, not even when rand() + 1 overflows.                                *)
InstructionsAgree ==
  suite = "arithmetic" =>
    /\ \A v \in {"both", "four", "six", "six2"} :
         acc[v].a1 = acc.add.a1 /\ acc[v].a2 = acc.multiply.a2
    /\ acc.six.a3 = acc.six2.a3 /\ acc.six.a4 = acc.six2.a4
    /\ Wrap(acc.unrolled.a2 + acc.unrolled.part) = acc.multiply.a2
    /\ i = Length => acc.unrolled.part = 0
    /\ divisor # 0

(* The patterns of 16 are true, false, true, false, ... and true, true,     *)
(* false, true, true, false, ...                                            *)
PatternsRepeat ==
  i > 0 => /\ suite = "alternating" => (cond <=> i % 2 = 1)
           /\ suite = "threes" => (cond <=> i % 3 # 0)

LoopsAgree == BranchlessAgrees /\ MovesAgree /\ InstructionsAgree /\ PatternsRepeat

LoopsTypeOK ==
  /\ suite \in Suites /\ i \in 0 .. Length /\ cond \in BOOLEAN
  /\ \A v \in DOMAIN acc : \A f \in DOMAIN acc[v] : acc[v][f] \in 0 .. Word - 1
=============================================================================
