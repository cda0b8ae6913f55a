------------------------------ MODULE Substrings ------------------------------
(***************************************************************************)
(* The substring sorts of Chapter02: pointers into one long string are     *)
(* sorted by a comparison function that walks through the two substrings,  *)
(* with a bound on the length (01, 05, 06 and compare_uint_l of 12) or     *)
(* without one (02, 03, 07 to 10, and compare_int and compare_uint of 11   *)
(* and 12).                                                                *)
(*                                                                         *)
(* std::sort is external: here it compares neighbours in any order, swaps  *)
(* those that the function wants swapped, and ends when there are none.    *)
(* Positions start at 1; the end of the string, 0, is its last character   *)
(* and the only one of its kind.                                           *)
(***************************************************************************)
EXTENDS Integers, Sequences, FiniteSets

CONSTANTS
  L,        (* length of the string, with the 0 at its end                 *)
  N,        (* number of substrings                                        *)
  Letters   (* 'a' .. 'z', positive numbers                                *)

SubstringsAssumption == L \in Nat \ {0, 1} /\ N \in Nat \ {0} /\ Letters \subseteq Nat \ {0}

VARIABLES
  program,  (* which comparison function                                   *)
  s,        (* the string                                                  *)
  vs,       (* the substrings: where they start                            *)
  at,       (* choose a pair, compare it, done                             *)
  pair,     (* the first of the two neighbours that are compared           *)
  i,        (* the index of the comparison's loop                          *)
  sorts,    (* how many sorts have ended                                   *)
  settled   (* neighbours known to need no swap                            *)

vars == <<program, s, vs, at, pair, i, sorts, settled>>

Bounded == {"bounded", "two sorts"}
Unbounded == {"unbounded"}
Benchmarks == {"benchmark", "benchmark bounded"}
Programs == Bounded \cup Unbounded \cup Benchmarks

Pairs == 1 .. N - 1

(* 00_substring_sort_prep.C: the 0 is written last, and no substring starts *)
(* at it                                                                    *)
Prepare ==
  /\ s \in {Append(t, 0) : t \in [1 .. L - 1 -> Letters]}
  /\ vs \in [1 .. N -> 1 .. L - 1]

(* the benchmarks compare the two halves of a string of equal letters       *)
Halves ==
  /\ s \in {Append([k \in 1 .. 2 * N - 1 |-> c], 0) : c \in Letters}
  /\ vs = <<1 + N, 1>>

Init ==
  /\ program \in Programs
  /\ IF program \in Benchmarks THEN Halves ELSE Prepare
  /\ at = "choose" /\ pair = 0 /\ i = 0 /\ sorts = 0 /\ settled = {}

-----------------------------------------------------------------------------
(* compare(vs[k + 1], vs[k]): is the second to come before the first?       *)
Choose(k) ==
  /\ at = "choose" /\ k \notin settled
  /\ k \in IF program \in Benchmarks THEN {1} ELSE Pairs
  /\ pair' = k /\ i' = 0 /\ at' = "compare"
  /\ UNCHANGED <<program, s, vs, sorts, settled>>

s1 == vs[pair + 1]
s2 == vs[pair]

(* the bound of the loop; without one it ends only at a difference          *)
MayLoop ==
  CASE program \in Bounded -> i < L
    [] program = "benchmark bounded" -> i < 2 * N
    [] OTHER -> TRUE

(* 05 compares two characters in a function of its own, and its two sorts   *)
(* do not ask for the same sign                                             *)
compare(c1, c2) == IF c1 > c2 THEN 1 ELSE IF c1 < c2 THEN -1 ELSE 0
compare1(c1, c2) == compare(c1, c2) > 0
compare2(c1, c2) == compare(c1, c2) < 0

(* what a comparison function returns at the first difference               *)
Before(c1, c2) ==
  CASE program # "two sorts" -> c1 > c2
    [] program = "two sorts" /\ sorts = 0 -> compare1(c1, c2)
    [] program = "two sorts" /\ sorts = 1 -> compare2(c1, c2)

(* what the sort does with the answer                                       *)
Answer(yes) ==
  /\ at' = "choose"
  /\ IF yes
     THEN /\ vs' = [vs EXCEPT ![pair] = s1, ![pair + 1] = s2]
          /\ settled' = (settled \ {pair - 1, pair + 1}) \cup {pair}
     ELSE UNCHANGED vs /\ settled' = settled \cup {pair}
  /\ UNCHANGED <<program, s, pair, i, sorts>>

SamePointer ==
  /\ at = "compare" /\ i = 0 /\ s1 = s2
  /\ Answer(FALSE)

NextCharacter ==
  /\ at = "compare" /\ s1 # s2 /\ MayLoop
  /\ s[s1 + i] = s[s2 + i]
  /\ i' = i + 1
  /\ UNCHANGED <<program, s, vs, at, pair, sorts, settled>>

(* the loop ends at a difference, or because its bound is reached           *)
LoopEnds ==
  /\ at = "compare" /\ s1 # s2
  /\ MayLoop => s[s1 + i] # s[s2 + i]
  /\ Answer(MayLoop /\ Before(s[s1 + i], s[s2 + i]))

(* 05 sorts a second time                                                   *)
SortEnds ==
  /\ at = "choose"
  /\ settled = IF program \in Benchmarks THEN {1} ELSE Pairs
  /\ sorts' = sorts + 1
  /\ IF program = "two sorts" /\ sorts = 0
     THEN settled' = {} /\ UNCHANGED at
     ELSE at' = "done" /\ UNCHANGED settled
  /\ UNCHANGED <<program, s, vs, pair, i>>

Compare == SamePointer \/ NextCharacter \/ LoopEnds

Next == (\E k \in 1 .. N : Choose(k)) \/ Compare \/ SortEnds

Spec == Init /\ [][Next]_vars

-----------------------------------------------------------------------------
(* the order of the substrings as strings                                   *)
Greater(p, q) ==
  \E k \in 1 .. Len(s) :
    /\ p + k - 1 <= Len(s) /\ q + k - 1 <= Len(s)
    /\ s[p + k - 1] > s[q + k - 1]
    /\ \A m \in 1 .. k - 1 : s[p + m - 1] = s[q + m - 1]

(* No comparison reads beyond the end of the string, with or without a      *)
(* bound, because two different substrings differ before both are over;     *)
(* so the bound is never reached.                                           *)
ReadsStayInside ==
  at = "compare" =>
    /\ s1 + i <= Len(s) /\ s2 + i <= Len(s)
    /\ MayLoop

(* A sort ends with the substrings in descending order, the second one of   *)
(* 05 in ascending order: the comparisons are an order of the substrings,   *)
(* whatever function computes them.                                         *)
SortsAreRight ==
  /\ at = "done" =>
       \A j, k \in DOMAIN vs :
         j < k => IF program = "two sorts" THEN ~Greater(vs[j], vs[k]) ELSE ~Greater(vs[k], vs[j])
  /\ \A k \in settled :
       program # "two sorts" /\ at = "choose" => vs[k] = vs[k + 1] \/ Greater(vs[k], vs[k + 1])

SubstringsAreSound == ReadsStayInside /\ SortsAreRight

SubstringsTypeOK ==
  /\ program \in Programs /\ at \in {"choose", "compare", "done"}
  /\ \A k \in DOMAIN vs : vs[k] \in 1 .. Len(s) - 1
  /\ sorts \in 0 .. 2 /\ pair \in 0 .. N - 1
=============================================================================
