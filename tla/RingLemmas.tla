----------------------------- MODULE RingLemmas -----------------------------
(***************************************************************************)
(* Arithmetic of a ring of N slots: the slot of index i is i % N, which    *)
(* the code computes as i & (N - 1), N being a power of two.               *)
(***************************************************************************)
EXTENDS Integers, TLAPS

LEMMA ModRange ==
  ASSUME NEW N \in Nat \ {0}, NEW i \in Nat
  PROVE  i % N \in 0 .. N - 1
  OBVIOUS

LEMMA DivMod ==
  ASSUME NEW N \in Nat \ {0}, NEW i \in Nat
  PROVE  i \div N \in Nat /\ i = N * (i \div N) + (i % N)
  OBVIOUS

(* A multiple of N strictly between -N and N is zero.                       *)
LEMMA SmallMultiple ==
  ASSUME NEW N \in Nat \ {0}, NEW d \in Int, -N < N * d, N * d < N
  PROVE  d = 0
<1>1. CASE d >= 1
  <2>1. N * d >= N
    BY <1>1
  <2>2. QED BY <2>1
<1>2. CASE d <= -1
  <2>1. N * d <= -N
    BY <1>2
  <2>2. QED BY <2>1
<1>3. QED BY <1>1, <1>2

(* Division with remainder is unique.                                       *)
LEMMA ModUnique ==
  ASSUME NEW N \in Nat \ {0}, NEW i \in Nat,
         NEW q \in Nat, NEW r \in 0 .. N - 1, i = N * q + r
  PROVE  i % N = r
<1> DEFINE b == i \div N
<1>1. b \in Nat /\ i = N * b + (i % N) /\ i % N \in 0 .. N - 1
  BY DivMod, ModRange
<1> HIDE DEF b
<1>2. N * (q - b) = N * q - N * b
  BY <1>1
<1>3. N * q \in Int /\ N * b \in Int
  BY <1>1
<1>4. N * (q - b) = (i % N) - r
  BY <1>1, <1>2, <1>3
<1>5. q - b = 0
  BY <1>1, <1>4, SmallMultiple
<1>6. QED
  BY <1>1, <1>4, <1>5

(* One lap later the slot is the same.                                      *)
LEMMA ModLap ==
  ASSUME NEW N \in Nat \ {0}, NEW i \in Nat
  PROVE  (i + N) % N = i % N
<1> DEFINE b == i \div N
<1>1. b \in Nat /\ i = N * b + (i % N) /\ i % N \in 0 .. N - 1
  BY DivMod, ModRange
<1> HIDE DEF b
<1>2. N * (b + 1) = N * b + N
  BY <1>1
<1>3. i + N = N * (b + 1) + (i % N)
  BY <1>1, <1>2
<1>4. b + 1 \in Nat /\ i + N \in Nat
  BY <1>1
<1>5. \A j, q \in Nat, r \in 0 .. N - 1 : j = N * q + r => j % N = r
  BY ModUnique
<1>6. QED
  BY <1>1, <1>3, <1>4, <1>5

(* Two indices less than a lap apart have different slots.                  *)
LEMMA ModInjective ==
  ASSUME NEW N \in Nat \ {0}, NEW i \in Nat, NEW j \in Nat,
         i % N = j % N, i < j + N, j < i + N
  PROVE  i = j
<1> DEFINE a == i \div N
           b == j \div N
<1>1. a \in Nat /\ i = N * a + (i % N) /\ i % N \in 0 .. N - 1
  BY DivMod, ModRange
<1>2. b \in Nat /\ j = N * b + (j % N)
  BY DivMod
<1> HIDE DEF a, b
<1>3. N * (a - b) = N * a - N * b
  BY <1>1, <1>2
<1>4. N * a \in Int /\ N * b \in Int
  BY <1>1, <1>2
<1>5. N * (a - b) = i - j
  BY <1>1, <1>2, <1>3, <1>4
<1>6. a - b = 0
  BY <1>1, <1>2, <1>5, SmallMultiple
<1>7. QED
  BY <1>5, <1>6

(* Any N consecutive indices cover all slots.                               *)
LEMMA ModSurjective ==
  ASSUME NEW N \in Nat \ {0}, NEW h \in Nat, NEW s \in 0 .. N - 1
  PROVE  \E i \in h .. h + N - 1 : i % N = s
<1> DEFINE b == h \div N
<1>1. b \in Nat /\ h = N * b + (h % N) /\ h % N \in 0 .. N - 1
  BY DivMod, ModRange
<1> HIDE DEF b
<1>2. N * b \in Nat /\ N * (b + 1) = N * b + N
  BY <1>1
<1>3. CASE s >= h % N
  <2>1. N * b + s \in h .. h + N - 1
    BY <1>1, <1>2, <1>3
  <2>2. (N * b + s) % N = s
    BY <1>1, <1>2, ModUnique
  <2>3. QED BY <2>1, <2>2
<1>4. CASE s < h % N
  <2>1. N * (b + 1) + s \in h .. h + N - 1
    BY <1>1, <1>2, <1>4
  <2>2. (N * (b + 1) + s) % N = s
    <3>1. b + 1 \in Nat /\ N * (b + 1) + s \in Nat
      BY <1>1, <1>2
    <3>2. \A i, q \in Nat : i = N * q + s => i % N = s
      BY ModUnique
    <3>3. QED BY <3>1, <3>2
  <2>3. QED BY <2>1, <2>2
<1>5. QED BY <1>1, <1>3, <1>4
=============================================================================
