------------------------ MODULE AtomicSharedPtrProofs ------------------------
(***************************************************************************)
(* The counts of both atomic shared pointers are exact, nothing is freed   *)
(* that is still referred to, and a compare-and-swap replaces what its     *)
(* caller expected: for any threads and objects.                           *)
(*                                                                         *)
(* The count of an object is the cardinality of a set of references, so    *)
(* what has to be known of a step is how many references to an object its  *)
(* thread has before and after it.  The references of the other threads    *)
(* (OthersIn) are the same set, and those of the thread are a sum of eight *)
(* terms (RefsOf), of which one step changes a few.                        *)
(***************************************************************************)
EXTENDS AtomicSharedPtr, FiniteSetTheorems, TLAPS

(* Where a call can be, by class and operation.                             *)
CallInv(t) ==
  /\ pc[t] = "idle" <=> op[t] = "none"
  /\ impl = "intr" => pc[t] \in {"idle", "enter", "get", "set"}
  /\ impl = "parlay" => pc[t] \in {"idle", "enter", "try", "reload", "increment", "loaded"}
  /\ op[t] = "load" => pc[t] \in {"enter", "get", "increment", "loaded"}
  /\ op[t] = "store" => pc[t] \in {"enter", "set"}
  /\ op[t] = "move" => impl = "parlay"
  /\ impl = "parlay" /\ op[t] \in {"cas", "move"} => pc[t] # "enter"
  /\ op[t] \in {"none", "load"} => arg[t] = Nil
  /\ pc[t] = "increment" => val[t].obj # NoObject
  /\ impl = "intr" /\ op[t] = "cas" => old[t] = e[t]
  /\ pc[t] = "set" /\ op[t] = "cas" => val[t] = old[t]

CallsInv == \A t \in Threads : CallInv(t)

(* The lock bit, and what its holder knows of the word                      *)
WordInv ==
  /\ \A t \in Threads : pc[t] \in {"get", "set"} => locked /\ val[t] = word
  /\ \A t, u \in Threads : pc[t] \in {"get", "set"} /\ pc[u] \in {"get", "set"} => t = u
  /\ ~open => word = Nil /\ \A t \in Threads : op[t] = "none"

(* The count of an object is the number of its references.                  *)
CountInv ==
  \A o \in Objects :
    /\ count[o] = Cardinality(References(o)) + One(word.obj = o)
    /\ count[o] > 0 <=> memory[o] = "live"

(* What an increment looks at is not freed.                                 *)
HazardInv == \A t \in Threads : pc[t] = "increment" => memory[val[t].obj] # "free"

Inv == TypeOK /\ CallsInv /\ WordInv /\ CountInv /\ HazardInv

-----------------------------------------------------------------------------
(* Counting references                                                      *)

(* Any set of references is finite: there are finitely many threads.        *)
LEMMA FiniteReferences ==
  ASSUME NEW R \in SUBSET (Threads \X Places)
  PROVE  IsFiniteSet(R)
<1>1. IsFiniteSet(Places)
  <2>1. Places = ((((((({} \cup {"p"}) \cup {"e"}) \cup {"arg"}) \cup {"ahead"}) \cup {"result"})
                    \cup {"drop1"}) \cup {"drop2"}) \cup {"drop3"}
    BY DEF Places
  <2>2. \A S, x : IsFiniteSet(S) => IsFiniteSet(S \cup {x})
    BY FS_AddElement
  <2>3. QED BY <2>1, <2>2, FS_EmptySet
<1>2. IsFiniteSet(Threads \X Places)
  BY <1>1, FS_Product, AtomicSharedPtrAssumption
<1>3. QED BY <1>2, FS_Subset

(* Of a set R of references, those of the other threads and those of t in   *)
(* the places L                                                             *)
Part(R, t, L) == {r \in R : r[1] # t \/ r[2] \in L}

(* One more place counts at most one more reference.                        *)
LEMMA AddPlace ==
  ASSUME NEW R \in SUBSET (Threads \X Places), NEW t, NEW L, NEW l, l \notin L
  PROVE  /\ Cardinality(Part(R, t, L)) \in Nat
         /\ Cardinality(Part(R, t, L \cup {l})) = Cardinality(Part(R, t, L)) + One(<<t, l>> \in R)
<1>1. IsFiniteSet(Part(R, t, L)) /\ <<t, l>> \notin Part(R, t, L)
  BY FiniteReferences DEF Part
<1>2. CASE <<t, l>> \in R
  <2>1. Part(R, t, L \cup {l}) = Part(R, t, L) \cup {<<t, l>>}
    BY <1>2 DEF Part
  <2>2. QED BY <1>1, <1>2, <2>1, FS_AddElement, FS_CardinalityType DEF One
<1>3. CASE <<t, l>> \notin R
  <2>1. Part(R, t, L \cup {l}) = Part(R, t, L)
    BY <1>3 DEF Part
  <2>2. QED BY <1>1, <1>3, <2>1, FS_CardinalityType DEF One
<1>4. QED BY <1>2, <1>3

(* Those of the other threads, and the number of those of t                 *)
OthersIn(R, t) == Part(R, t, {})

MineIn(R, t) ==
  One(<<t, "p">> \in R) + One(<<t, "e">> \in R) + One(<<t, "arg">> \in R)
  + One(<<t, "ahead">> \in R) + One(<<t, "result">> \in R)
  + One(<<t, "drop1">> \in R) + One(<<t, "drop2">> \in R) + One(<<t, "drop3">> \in R)

(* The references are those of the other threads and those of t.            *)
LEMMA SplitReferences ==
  ASSUME NEW R \in SUBSET (Threads \X Places), NEW t \in Threads
  PROVE  /\ Cardinality(OthersIn(R, t)) \in Nat
         /\ Cardinality(R) = Cardinality(OthersIn(R, t)) + MineIn(R, t)
<1> DEFINE L1 == {} \cup {"p"}      L2 == L1 \cup {"e"}      L3 == L2 \cup {"arg"}
           L4 == L3 \cup {"ahead"}  L5 == L4 \cup {"result"} L6 == L5 \cup {"drop1"}
           L7 == L6 \cup {"drop2"}  L8 == L7 \cup {"drop3"}
           C(L) == Cardinality(Part(R, t, L))
<1>1. C({}) \in Nat /\ C(L1) = C({}) + One(<<t, "p">> \in R)
  BY AddPlace
<1>2. C(L1) \in Nat /\ C(L2) = C(L1) + One(<<t, "e">> \in R)
  <2>1. "e" \notin L1  OBVIOUS
  <2> HIDE DEF L1
  <2>2. QED BY <2>1, AddPlace
<1>3. C(L2) \in Nat /\ C(L3) = C(L2) + One(<<t, "arg">> \in R)
  <2>1. "arg" \notin L2  OBVIOUS
  <2> HIDE DEF L2
  <2>2. QED BY <2>1, AddPlace
<1>4. C(L3) \in Nat /\ C(L4) = C(L3) + One(<<t, "ahead">> \in R)
  <2>1. "ahead" \notin L3  OBVIOUS
  <2> HIDE DEF L3
  <2>2. QED BY <2>1, AddPlace
<1>5. C(L4) \in Nat /\ C(L5) = C(L4) + One(<<t, "result">> \in R)
  <2>1. "result" \notin L4  OBVIOUS
  <2> HIDE DEF L4
  <2>2. QED BY <2>1, AddPlace
<1>6. C(L5) \in Nat /\ C(L6) = C(L5) + One(<<t, "drop1">> \in R)
  <2>1. "drop1" \notin L5  OBVIOUS
  <2> HIDE DEF L5
  <2>2. QED BY <2>1, AddPlace
<1>7. C(L6) \in Nat /\ C(L7) = C(L6) + One(<<t, "drop2">> \in R)
  <2>1. "drop2" \notin L6  OBVIOUS
  <2> HIDE DEF L6
  <2>2. QED BY <2>1, AddPlace
<1>8. C(L7) \in Nat /\ C(L8) = C(L7) + One(<<t, "drop3">> \in R)
  <2>1. "drop3" \notin L7  OBVIOUS
  <2> HIDE DEF L7
  <2>2. QED BY <2>1, AddPlace
<1>9. Part(R, t, L8) = R
  <2>1. L8 = Places
    BY DEF Places
  <2> HIDE DEF L8
  <2>2. QED BY <2>1 DEF Part
<1> HIDE DEF L1, L2, L3, L4, L5, L6, L7, L8
<1>10. Cardinality(R) = C({}) + MineIn(R, t)
  BY <1>1, <1>2, <1>3, <1>4, <1>5, <1>6, <1>7, <1>8, <1>9 DEF MineIn, One
<1>11. QED BY <1>1, <1>10 DEF OthersIn

(* The number of references to o that thread t has                          *)
RefsOf(t, o) ==
  One(p[t].obj = o) + One(e[t].obj = o) + One(arg[t].obj = o)
  + One(CountsAhead(t) /\ arg[t].obj = o) + One(pc[t] = "loaded" /\ val[t].obj = o)
  + One(drop[t][1] = o) + One(drop[t][2] = o) + One(drop[t][3] = o)

(* RefsOf counts the references of t, before a step and after it.           *)
LEMMA ReferencesOfThread ==
  ASSUME NEW t \in Threads, NEW o
  PROVE  /\ References(o) \in SUBSET (Threads \X Places)
         /\ MineIn(References(o), t) = RefsOf(t, o)
  BY DEF References, Refers, MineIn, RefsOf, Places

LEMMA ReferencesOfThreadAfter ==
  ASSUME NEW t \in Threads, NEW o
  PROVE  /\ References(o)' \in SUBSET (Threads \X Places)
         /\ MineIn(References(o)', t) = RefsOf(t, o)'
  BY DEF References, Refers, MineIn, RefsOf, Places

(* A step of t changes no references but its own.                           *)
StepOf(t) ==
  /\ impl' = impl
  /\ \A u \in Threads \ {t} :
       /\ p'[u] = p[u] /\ e'[u] = e[u] /\ arg'[u] = arg[u] /\ val'[u] = val[u]
       /\ old'[u] = old[u] /\ drop'[u] = drop[u] /\ op'[u] = op[u] /\ pc'[u] = pc[u]

(* What a step of t changes in the number of references is what it changes  *)
(* in those of t.                                                           *)
LEMMA OwnReferences ==
  ASSUME NEW t \in Threads, StepOf(t), NEW o
  PROVE  \E n \in Nat :
           /\ Cardinality(References(o)) = n + RefsOf(t, o)
           /\ Cardinality(References(o)') = n + RefsOf(t, o)'
<1>1. OthersIn(References(o)', t) = OthersIn(References(o), t)
  BY DEF OthersIn, Part, References, Refers, CountsAhead, StepOf
<1>2. QED BY <1>1, SplitReferences, ReferencesOfThread, ReferencesOfThreadAfter

(* AddRefs adds to the count of the object, if there is one.                *)
LEMMA AddRefsCounts ==
  ASSUME TypeOK, NEW v \in Values, NEW n \in Nat, AddRefs(v, n)
  PROVE  /\ count' \in [Objects -> Nat]
         /\ \A o \in Objects : count'[o] = IF v.obj = o THEN count[o] + n ELSE count[o]
  BY AtomicSharedPtrAssumption DEF AddRefs, TypeOK, Values

(* A count stays exact if it changes with the references of t and of the    *)
(* word.                                                                    *)
Gain(t, o) == RefsOf(t, o)' + One(word'.obj = o) - RefsOf(t, o) - One(word.obj = o)

Exact(o) == count[o] = Cardinality(References(o)) + One(word.obj = o)

(* The number of references of a thread is a number.                        *)
LEMMA RefsAreNat ==
  ASSUME NEW t, NEW o
  PROVE  RefsOf(t, o) \in Nat /\ RefsOf(t, o)' \in Nat
<1>1. \A b : One(b) \in Nat
  BY DEF One
<1>2. QED BY <1>1 DEF RefsOf

(* A count that grows by what t and the word gain stays exact.              *)
LEMMA StayExact ==
  ASSUME NEW t \in Threads, StepOf(t), NEW o \in Objects, Exact(o),
         count'[o] = count[o] + Gain(t, o)
  PROVE  Exact(o)'
<1>1. PICK n \in Nat : /\ Cardinality(References(o)) = n + RefsOf(t, o)
                       /\ Cardinality(References(o)') = n + RefsOf(t, o)'
  BY OwnReferences
<1>2. RefsOf(t, o) \in Nat /\ RefsOf(t, o)' \in Nat
  BY RefsAreNat
<1>3. One(word.obj = o) \in Nat /\ One(word'.obj = o) \in Nat
  BY DEF One
<1>4. QED BY <1>1, <1>2, <1>3 DEF Exact, Gain

(* An exact count is at least the number of the references of t and of the  *)
(* word.                                                                    *)
LEMMA ReferredIsCounted ==
  ASSUME NEW t \in Threads, NEW o \in Objects, Exact(o)
  PROVE  count[o] >= RefsOf(t, o) + One(word.obj = o)
<1>1. /\ Cardinality(OthersIn(References(o), t)) \in Nat
      /\ Cardinality(References(o)) = Cardinality(OthersIn(References(o), t)) + RefsOf(t, o)
  BY SplitReferences, ReferencesOfThread
<1>2. RefsOf(t, o) \in Nat /\ One(word.obj = o) \in Nat
  BY RefsAreNat DEF One
<1>3. QED BY <1>1, <1>2 DEF Exact

-----------------------------------------------------------------------------
(* Types                                                                    *)

(* nullptr is a value, and nothing to release a list of objects.            *)
LEMMA NilType == Nil \in Values /\ Nothing \in [1 .. 3 -> Objects \cup {NoObject}]
  BY DEF Nil, Values, Nothing

(* What is to be released after Drop                                        *)
LEMMA DropType ==
  ASSUME TypeOK, NEW t \in Threads, NEW v1 \in Values, NEW v2 \in Values, NEW v3 \in Values,
         Drop(t, v1, v2, v3)
  PROVE  /\ drop' \in [Threads -> [1 .. 3 -> Objects \cup {NoObject}]]
         /\ drop'[t][1] = v1.obj /\ drop'[t][2] = v2.obj /\ drop'[t][3] = v3.obj
         /\ \A u \in Threads \ {t} : drop'[u] = drop[u]
<1>1. <<v1.obj, v2.obj, v3.obj>> \in [1 .. 3 -> Objects \cup {NoObject}]
  BY DEF Values
<1>2. QED BY <1>1 DEF Drop, TypeOK

(* What a thread releases is counted.                                       *)
LEMMA DroppedIsCounted ==
  ASSUME TypeOK, CountInv, NEW t \in Threads, NEW n \in 1 .. 3, drop[t][n] # NoObject
  PROVE  drop[t][n] \in Objects /\ count[drop[t][n]] \in Nat \ {0}
<1> DEFINE o == drop[t][n]
<1>1. o \in Objects /\ count[o] \in Nat
  BY DEF TypeOK
<1>2. Exact(o)
  BY <1>1 DEF CountInv, Exact
<1>3. RefsOf(t, o) >= 1
  <2>1. n = 1 \/ n = 2 \/ n = 3
    OBVIOUS
  <2>2. QED BY <2>1 DEF RefsOf, One
<1>4. count[o] >= RefsOf(t, o) + One(word.obj = o) /\ One(word.obj = o) >= 0
  BY <1>1, <1>2, ReferredIsCounted DEF One
<1>5. QED BY <1>1, <1>3, <1>4, RefsAreNat DEF One

(* A step keeps the types: a count that is decremented is not 0, because    *)
(* the reference that is released is counted.                               *)
LEMMA TypeStep ==
  ASSUME TypeOK, CountInv, [Next]_vars
  PROVE  TypeOK'
<1> USE NilType DEF TypeOK, memories, locals, Goto, Done
<1>1. ASSUME NEW t \in Threads, DelRef(t) PROVE TypeOK'
  <2>1. PICK n \in 1 .. 3 :
          /\ drop[t][n] # NoObject
          /\ count' = [count EXCEPT ![drop[t][n]] = @ - 1]
          /\ memory' = [memory EXCEPT ![drop[t][n]] =
                          IF count[drop[t][n]] > 1 THEN @
                          ELSE IF impl = "intr" THEN "free" ELSE "retired"]
          /\ drop' = [drop EXCEPT ![t][n] = NoObject]
    BY <1>1 DEF DelRef
  <2>2. drop[t][n] \in Objects /\ count[drop[t][n]] \in Nat \ {0}
    BY <2>1, DroppedIsCounted
  <2>3. count' \in [Objects -> Nat]
    BY <2>1, <2>2
  <2>4. memory' \in [Objects -> {"free", "live", "retired"}]
    BY <2>1, <2>2
  <2>5. drop' \in [Threads -> [1 .. 3 -> Objects \cup {NoObject}]]
    BY <2>1
  <2>6. QED BY <1>1, <2>3, <2>4, <2>5 DEF DelRef
<1>2. ASSUME NEW o \in Objects, Reclaim(o) PROVE TypeOK'
  BY <1>2 DEF Reclaim
<1>3. ASSUME NEW t \in Threads, New(t) PROVE TypeOK'
  <2>1. PICK o \in Objects : p' = [p EXCEPT ![t] = [obj |-> o, mark |-> FALSE]]
                             /\ count' = [count EXCEPT ![o] = 1]
                             /\ memory' = [memory EXCEPT ![o] = "live"]
    BY <1>3 DEF New
  <2>2. [obj |-> o, mark |-> FALSE] \in Values
    BY DEF Values
  <2>3. /\ p' \in [Threads -> Values] /\ count' \in [Objects -> Nat]
        /\ memory' \in [Objects -> {"free", "live", "retired"}]
    BY <2>1, <2>2
  <2>4. QED BY <1>3, <2>3 DEF New
<1>4. ASSUME NEW t \in Threads, Forget(t) PROVE TypeOK'
  <2>1. PICK v \in {p[t], e[t]} : Drop(t, v, Nil, Nil)
    BY <1>4 DEF Forget
  <2>2. drop' \in [Threads -> [1 .. 3 -> Objects \cup {NoObject}]]
    BY <2>1, DropType
  <2>3. \/ p' = [p EXCEPT ![t] = Nil] /\ UNCHANGED e
        \/ e' = [e EXCEPT ![t] = Nil] /\ UNCHANGED p
    BY <1>4 DEF Forget
  <2>4. p' \in [Threads -> Values] /\ e' \in [Threads -> Values]
    BY <2>3
  <2>5. QED BY <1>4, <2>2, <2>4 DEF Forget
<1>5. ASSUME NEW t \in Threads, Unmark(t) PROVE TypeOK'
  <2>1. e' \in [Threads -> Values]
    <3>1. e[t] \in Values /\ [e[t] EXCEPT !.mark = FALSE] \in Values
      BY DEF Values
    <3>2. e' = [e EXCEPT ![t] = [e[t] EXCEPT !.mark = FALSE]]
      BY <1>5 DEF Unmark
    <3>3. QED BY <3>1, <3>2
  <2>2. count' \in [Objects -> Nat]
    BY <1>5, AddRefsCounts DEF Unmark, AddRef
  <2>3. QED BY <1>5, <2>1, <2>2, DropType DEF Unmark
<1>6. ASSUME NEW t \in Threads, CallLoad(t) PROVE TypeOK'
  BY <1>6 DEF CallLoad
<1>7. ASSUME NEW t \in Threads, CallStore(t) PROVE TypeOK'
  <2>1. count' \in [Objects -> Nat]
    BY <1>7, AddRefsCounts DEF CallStore, One
  <2>2. QED BY <1>7, <2>1 DEF CallStore
<1>8. ASSUME NEW t \in Threads, CallCas(t) PROVE TypeOK'
  <2>1. PICK c \in {"cas", "move"}, d \in {p[t], [e[t] EXCEPT !.mark = TRUE]} :
           /\ op' = [op EXCEPT ![t] = c] /\ arg' = [arg EXCEPT ![t] = d]
           /\ AddRefs(d, IF impl = "intr" \/ c = "move" THEN 1 ELSE 2)
    BY <1>8 DEF CallCas
  <2>2. d \in Values
    <3>1. p[t] \in Values /\ e[t] \in Values
      OBVIOUS
    <3>2. [e[t] EXCEPT !.mark = TRUE] \in Values
      BY <3>1 DEF Values
    <3>3. QED BY <3>1, <3>2
  <2>3. count' \in [Objects -> Nat]
    BY <2>1, <2>2, AddRefsCounts
  <2>4. QED BY <1>8, <2>1, <2>2, <2>3 DEF CallCas
<1>9. ASSUME NEW t \in Threads, Construct(t) PROVE TypeOK'
  <2>1. count' \in [Objects -> Nat]
    BY <1>9, AddRefsCounts DEF Construct, AddRef
  <2>2. QED BY <1>9, <2>1 DEF Construct
<1>10. ASSUME NEW t \in Threads, Destroy(t) PROVE TypeOK'
  BY <1>10, DropType DEF Destroy
<1>11. ASSUME NEW t \in Threads, Lock(t) PROVE TypeOK'
  BY <1>11 DEF Lock
<1>12. ASSUME NEW t \in Threads, Get(t) PROVE TypeOK'
  <2>1. count' \in [Objects -> Nat]
    BY <1>12, AddRefsCounts DEF Get, AddRef
  <2>2. QED BY <1>12, <2>1, DropType DEF Get
<1>13. ASSUME NEW t \in Threads, Set(t) PROVE TypeOK'
  <2>1. count' \in [Objects -> Nat]
    BY <1>13, AddRefsCounts DEF Set, AddRef
  <2>2. QED BY <1>13, <2>1, DropType DEF Set
<1>14. ASSUME NEW t \in Threads, Exchange(t) PROVE TypeOK'
  BY <1>14, DropType DEF Exchange
<1>15. ASSUME NEW t \in Threads, CasTry(t) PROVE TypeOK'
  <2>1. word \in Values /\ arg[t] \in Values /\ Copied(t) \in Values
    BY DEF Copied
  <2>2. drop' \in [Threads -> [1 .. 3 -> Objects \cup {NoObject}]]
    BY <1>15, <2>1, DropType DEF CasTry
  <2>3. CASE /\ Done(t) /\ word' = arg[t]
             /\ arg' = [arg EXCEPT ![t] = Nil] /\ old' = [old EXCEPT ![t] = Nil]
    BY <1>15, <2>2, <2>3 DEF CasTry
  <2>4. CASE Goto(t, "reload") /\ UNCHANGED <<word, op, arg, old>>
    BY <1>15, <2>2, <2>4 DEF CasTry
  <2>5. QED BY <1>15, <2>3, <2>4 DEF CasTry
<1>16. ASSUME NEW t \in Threads, Protect(t) PROVE TypeOK'
  BY <1>16 DEF Protect
<1>17. ASSUME NEW t \in Threads, Increment(t) PROVE TypeOK'
  <2>1. count' \in [Objects -> Nat]
    BY <1>17, AddRefsCounts DEF Increment, AddRef
  <2>2. QED BY <1>17, <2>1 DEF Increment
<1>18. ASSUME NEW t \in Threads, Loaded(t) PROVE TypeOK'
  <2>1. /\ e[t] \in Values /\ arg[t] \in Values /\ val[t] \in Values
        /\ Copied(t) \in Values
    BY DEF Copied
  <2>2. drop' \in [Threads -> [1 .. 3 -> Objects \cup {NoObject}]]
    BY <1>18, <2>1, DropType DEF Loaded
  <2>3. e' \in [Threads -> Values] /\ val' \in [Threads -> Values]
    BY <1>18, <2>1 DEF Loaded
  <2>4. CASE Goto(t, "try") /\ UNCHANGED <<op, arg, old>>
    BY <1>18, <2>2, <2>3, <2>4 DEF Loaded
  <2>5. CASE Done(t) /\ arg' = [arg EXCEPT ![t] = Nil] /\ old' = [old EXCEPT ![t] = Nil]
    BY <1>18, <2>2, <2>3, <2>5 DEF Loaded
  <2>6. QED BY <1>18, <2>4, <2>5 DEF Loaded
<1>19. CASE UNCHANGED vars
  BY <1>19 DEF vars
<1>20. QED
  BY <1>1, <1>2, <1>3, <1>4, <1>5, <1>6, <1>7, <1>8, <1>9, <1>10, <1>11, <1>12, <1>13, <1>14,
     <1>15, <1>16, <1>17, <1>18, <1>19
  DEF Next, Call, Step

(* A step keeps where the calls can be.                                     *)
LEMMA CallStep ==
  ASSUME TypeOK, CallsInv, [Next]_vars
  PROVE  CallsInv'
<1> USE DEF CallsInv, CallInv, TypeOK, memories, locals, Goto, Done, At
<1>1. ASSUME NEW t \in Threads, DelRef(t) \/ New(t) PROVE CallsInv'
  BY <1>1 DEF DelRef, New
<1>2. ASSUME NEW o \in Objects, Reclaim(o) PROVE CallsInv'
  BY <1>2 DEF Reclaim
<1>3. ASSUME NEW t \in Threads, Forget(t) \/ Unmark(t) PROVE CallsInv'
  BY <1>3 DEF Forget, Unmark
<1>4. ASSUME NEW t \in Threads, CallLoad(t) \/ CallStore(t) PROVE CallsInv'
  BY <1>4 DEF CallLoad, CallStore
<1>5. ASSUME NEW t \in Threads, CallCas(t) PROVE CallsInv'
  BY <1>5 DEF CallCas
<1>6. ASSUME NEW t \in Threads, Construct(t) \/ Destroy(t) PROVE CallsInv'
  BY <1>6 DEF Construct, Destroy
<1>7. ASSUME NEW t \in Threads, Lock(t) PROVE CallsInv'
  BY <1>7 DEF Lock
<1>8. ASSUME NEW t \in Threads, Get(t) \/ Set(t) PROVE CallsInv'
  BY <1>8 DEF Get, Set
<1>9. ASSUME NEW t \in Threads, Exchange(t) PROVE CallsInv'
  BY <1>9 DEF Exchange
<1>10. ASSUME NEW t \in Threads, CasTry(t) PROVE CallsInv'
  BY <1>10 DEF CasTry
<1>11. ASSUME NEW t \in Threads, Protect(t) PROVE CallsInv'
  BY <1>11 DEF Protect
<1>12. ASSUME NEW t \in Threads, Increment(t) PROVE CallsInv'
  BY <1>12 DEF Increment
<1>13. ASSUME NEW t \in Threads, Loaded(t) PROVE CallsInv'
  BY <1>13 DEF Loaded
<1>14. CASE UNCHANGED vars
  BY <1>14 DEF vars
<1>15. QED
  BY <1>1, <1>2, <1>3, <1>4, <1>5, <1>6, <1>7, <1>8, <1>9, <1>10, <1>11, <1>12, <1>13, <1>14
  DEF Next, Call, Step

(* A step keeps the word and the lock bit as their holder knows them.       *)
LEMMA WordStep ==
  ASSUME TypeOK, CallsInv, WordInv, [Next]_vars
  PROVE  WordInv'
<1> USE DEF WordInv, TypeOK, memories, locals, Goto, Done, At
<1>1. ASSUME NEW t \in Threads, DelRef(t) \/ New(t) PROVE WordInv'
  BY <1>1 DEF DelRef, New
<1>2. ASSUME NEW o \in Objects, Reclaim(o) PROVE WordInv'
  BY <1>2 DEF Reclaim
<1>3. ASSUME NEW t \in Threads, Forget(t) \/ Unmark(t) PROVE WordInv'
  BY <1>3 DEF Forget, Unmark
<1>4. ASSUME NEW t \in Threads, CallLoad(t) \/ CallStore(t) PROVE WordInv'
  BY <1>4 DEF CallLoad, CallStore
<1>5. ASSUME NEW t \in Threads, CallCas(t) PROVE WordInv'
  BY <1>5 DEF CallCas
<1>6. ASSUME NEW t \in Threads, Construct(t) \/ Destroy(t) PROVE WordInv'
  BY <1>6 DEF Construct, Destroy, CallsInv, CallInv
<1>7. ASSUME NEW t \in Threads, Lock(t) PROVE WordInv'
  <2>1. PICK l \in {"get", "set"} : pc' = [pc EXCEPT ![t] = l]
    BY <1>7 DEF Lock
  <2>2. /\ ~locked /\ locked' = TRUE /\ val' = [val EXCEPT ![t] = word]
        /\ UNCHANGED <<open, word, op>>
    BY <1>7 DEF Lock
  <2>3. QED BY <2>1, <2>2
<1>8. ASSUME NEW t \in Threads, Get(t) \/ Set(t) PROVE WordInv'
  <2>1. /\ pc[t] \in {"get", "set"} /\ open' = open
        /\ pc' = [pc EXCEPT ![t] = "idle"] /\ op' = [op EXCEPT ![t] = "none"]
        /\ \A u \in Threads \ {t} : val'[u] = val[u]
    BY <1>8 DEF Get, Set
  <2>2. open
    BY <2>1 DEF CallsInv, CallInv
  <2>3. QED BY <2>1, <2>2
<1>9. ASSUME NEW t \in Threads, Exchange(t) \/ CasTry(t) PROVE WordInv'
  <2>1. PICK l \in {"idle", "reload"} : pc' = [pc EXCEPT ![t] = l]
    BY <1>9 DEF Exchange, CasTry
  <2>2. impl = "parlay" /\ open
    BY <1>9 DEF Exchange, CasTry, CallsInv, CallInv
  <2>3. \A u \in Threads : pc[u] \notin {"get", "set"}
    BY <2>2 DEF CallsInv, CallInv
  <2>4. open' = open
    BY <1>9 DEF Exchange, CasTry
  <2>5. QED BY <2>1, <2>2, <2>3, <2>4
<1>10. ASSUME NEW t \in Threads, Protect(t) PROVE WordInv'
  <2>1. PICK l \in {"loaded", "increment"} : pc' = [pc EXCEPT ![t] = l]
    BY <1>10 DEF Protect
  <2>2. val' = [val EXCEPT ![t] = word] /\ UNCHANGED <<open, word, op, locked>>
    BY <1>10 DEF Protect
  <2>3. QED BY <2>1, <2>2
<1>11. ASSUME NEW t \in Threads, Increment(t) PROVE WordInv'
  <2>1. PICK l \in {"loaded", "enter", "reload"} : pc' = [pc EXCEPT ![t] = l]
    BY <1>11 DEF Increment
  <2>2. UNCHANGED <<open, word, op, locked, val>>
    BY <1>11 DEF Increment
  <2>3. QED BY <2>1, <2>2
<1>12. ASSUME NEW t \in Threads, Loaded(t) PROVE WordInv'
  <2>1. PICK l \in {"try", "idle"} : pc' = [pc EXCEPT ![t] = l]
    BY <1>12 DEF Loaded
  <2>2. val' = [val EXCEPT ![t] = Nil] /\ UNCHANGED <<open, word, locked>>
    BY <1>12 DEF Loaded
  <2>3. op' = op \/ op' = [op EXCEPT ![t] = "none"]
    BY <1>12 DEF Loaded
  <2>4. QED BY <2>1, <2>2, <2>3
<1>13. CASE UNCHANGED vars
  BY <1>13 DEF vars
<1>14. QED
  BY <1>1, <1>2, <1>3, <1>4, <1>5, <1>6, <1>7, <1>8, <1>9, <1>10, <1>11, <1>12, <1>13
  DEF Next, Call, Step

-----------------------------------------------------------------------------
(* The steps that count up what their thread refers to already, or only     *)
(* pass a reference on: the counts stay exact, and no object appears or     *)
(* goes.                                                                    *)
LEMMA KeepsCounts ==
  ASSUME TypeOK, CountInv, NEW t \in Threads, StepOf(t), memory' = memory,
         count' \in [Objects -> Nat],
         \A o \in Objects : count'[o] = count[o] + Gain(t, o),
         \A o \in Objects : count[o] > 0 <=> count'[o] > 0
  PROVE  CountInv'
<1>1. ASSUME NEW o \in Objects PROVE Exact(o)'
  BY StayExact DEF CountInv, Exact
<1>2. QED BY <1>1 DEF CountInv, Exact

(* Without AddRef: no reference is gained or lost.                          *)
LEMMA PassingOn ==
  ASSUME TypeOK, CountInv, NEW t \in Threads, StepOf(t), UNCHANGED <<memory, count>>,
         \A o \in Objects : Gain(t, o) = 0
  PROVE  CountInv'
  BY KeepsCounts DEF TypeOK

(* With AddRefs, of an object that t or the word refers to                  *)
LEMMA CountingUp ==
  ASSUME TypeOK, CountInv, NEW t \in Threads, StepOf(t), memory' = memory,
         NEW v \in Values, NEW n \in Nat, AddRefs(v, n),
         \A o \in Objects : Gain(t, o) = IF v.obj = o THEN n ELSE 0,
         v.obj \in Objects => count[v.obj] > 0
  PROVE  CountInv'
<1>1. /\ count' \in [Objects -> Nat]
      /\ \A o \in Objects : count'[o] = IF v.obj = o THEN count[o] + n ELSE count[o]
  BY AddRefsCounts
<1>2. \A o \in Objects : count[o] \in Nat
  BY DEF TypeOK
<1>3. \A o \in Objects : count'[o] = count[o] + Gain(t, o)
  BY <1>1, <1>2
<1>4. \A o \in Objects : count[o] > 0 <=> count'[o] > 0
  BY <1>1, <1>2
<1>5. QED BY <1>1, <1>3, <1>4, KeepsCounts

(* What a thread or the word refers to has a count.                         *)
LEMMA ReferredIsThere ==
  ASSUME TypeOK, CountInv, NEW t \in Threads, NEW o \in Objects,
         RefsOf(t, o) > 0 \/ word.obj = o
  PROVE  count[o] > 0
<1>1. Exact(o) /\ count[o] \in Nat
  BY DEF CountInv, Exact, TypeOK
<1>2. count[o] >= RefsOf(t, o) + One(word.obj = o)
  BY <1>1, ReferredIsCounted
<1>3. QED BY <1>1, <1>2, RefsAreNat DEF One

(* A step keeps the counts exact.                                           *)
LEMMA CountStep ==
  ASSUME TypeOK, TypeOK', CallsInv, WordInv, CountInv, [Next]_vars
  PROVE  CountInv'
<1> USE NilType, AtomicSharedPtrAssumption DEF memories, locals, Goto, Done
<1>1. ASSUME NEW t \in Threads, DelRef(t) PROVE CountInv'
  <2>1. PICK n \in 1 .. 3 :
          /\ drop[t][n] # NoObject
          /\ count' = [count EXCEPT ![drop[t][n]] = @ - 1]
          /\ memory' = [memory EXCEPT ![drop[t][n]] =
                          IF count[drop[t][n]] > 1 THEN @
                          ELSE IF impl = "intr" THEN "free" ELSE "retired"]
          /\ drop' = [drop EXCEPT ![t][n] = NoObject]
    BY <1>1 DEF DelRef
  <2> DEFINE d == drop[t][n]
  <2>2. d \in Objects /\ count[d] \in Nat \ {0}
    BY <2>1, DroppedIsCounted
  <2>3. StepOf(t)
    BY <1>1, <2>1 DEF DelRef, StepOf, TypeOK
  <2>4. ASSUME NEW o \in Objects PROVE Gain(t, o) = IF o = d THEN -1 ELSE 0
    <3>1. UNCHANGED <<impl, word, op, pc, p, e, arg, val>>
      BY <1>1 DEF DelRef
    <3>2. \A m \in 1 .. 3 : drop'[t][m] = IF m = n THEN NoObject ELSE drop[t][m]
      BY <2>1 DEF TypeOK
    <3>3. n = 1 \/ n = 2 \/ n = 3
      OBVIOUS
    <3>4. CASE n = 1
      <4>1. drop'[t][1] = NoObject /\ drop'[t][2] = drop[t][2] /\ drop'[t][3] = drop[t][3]
        BY <3>2, <3>4
      <4>2. QED BY <2>4, <3>1, <3>4, <4>1 DEF Gain, RefsOf, One, CountsAhead
    <3>5. CASE n = 2
      <4>1. drop'[t][1] = drop[t][1] /\ drop'[t][2] = NoObject /\ drop'[t][3] = drop[t][3]
        BY <3>2, <3>5
      <4>2. QED BY <2>4, <3>1, <3>5, <4>1 DEF Gain, RefsOf, One, CountsAhead
    <3>6. CASE n = 3
      <4>1. drop'[t][1] = drop[t][1] /\ drop'[t][2] = drop[t][2] /\ drop'[t][3] = NoObject
        BY <3>2, <3>6
      <4>2. QED BY <2>4, <3>1, <3>6, <4>1 DEF Gain, RefsOf, One, CountsAhead
    <3>7. QED BY <3>3, <3>4, <3>5, <3>6
  <2>5. ASSUME NEW o \in Objects PROVE Exact(o)'
    <3>1. count'[o] = count[o] + Gain(t, o)
      BY <2>1, <2>2, <2>4 DEF TypeOK
    <3>2. QED BY <2>3, <3>1, StayExact DEF CountInv, Exact
  <2>6. ASSUME NEW o \in Objects PROVE count'[o] > 0 <=> memory'[o] = "live"
    <3>1. count[o] > 0 <=> memory[o] = "live"
      BY DEF CountInv
    <3>2. /\ count'[o] = IF o = d THEN count[o] - 1 ELSE count[o]
          /\ memory'[o] = IF o # d \/ count[o] > 1 THEN memory[o]
                          ELSE IF impl = "intr" THEN "free" ELSE "retired"
      BY <2>1, <2>2 DEF TypeOK
    <3>3. CASE o # d
      BY <3>1, <3>2, <3>3
    <3>4. CASE o = d
      BY <2>2, <3>1, <3>2, <3>4
    <3>5. QED BY <3>3, <3>4
  <2>7. QED BY <2>5, <2>6 DEF CountInv, Exact
<1>2. ASSUME NEW r \in Objects, Reclaim(r) PROVE CountInv'
  <2>1. ASSUME NEW o \in Objects PROVE References(o)' = References(o)
    BY <1>2 DEF Reclaim, References, Refers, CountsAhead
  <2>2. ASSUME NEW o \in Objects PROVE memory'[o] = "live" <=> memory[o] = "live"
    BY <1>2 DEF Reclaim, TypeOK
  <2>3. UNCHANGED <<count, word>>
    BY <1>2 DEF Reclaim
  <2>4. QED BY <2>1, <2>2, <2>3 DEF CountInv
<1>3. ASSUME NEW t \in Threads, New(t) PROVE CountInv'
  <2>1. PICK d \in Objects : /\ memory[d] = "free"
                             /\ memory' = [memory EXCEPT ![d] = "live"]
                             /\ count' = [count EXCEPT ![d] = 1]
                             /\ p' = [p EXCEPT ![t] = [obj |-> d, mark |-> FALSE]]
    BY <1>3 DEF New
  <2>2. count[d] = 0
    <3>1. count[d] \in Nat /\ ~(count[d] > 0)
      BY <2>1 DEF CountInv, TypeOK
    <3>2. QED BY <3>1
  <2>3. StepOf(t)
    BY <1>3, <2>1 DEF New, StepOf, TypeOK
  <2>4. ASSUME NEW o \in Objects PROVE Gain(t, o) = IF o = d THEN 1 ELSE 0
    <3>1. p[t].obj = NoObject /\ p'[t].obj = d /\ UNCHANGED <<impl, word, op, pc, e, arg, val, drop>>
      BY <1>3, <2>1 DEF New, TypeOK
    <3>2. QED BY <2>4, <3>1 DEF Gain, RefsOf, One, CountsAhead
  <2>5. ASSUME NEW o \in Objects PROVE Exact(o)'
    <3>1. count'[o] = count[o] + Gain(t, o)
      BY <2>1, <2>2, <2>4 DEF TypeOK
    <3>2. QED BY <2>3, <3>1, StayExact DEF CountInv, Exact
  <2>6. ASSUME NEW o \in Objects PROVE count'[o] > 0 <=> memory'[o] = "live"
    BY <2>1 DEF CountInv, TypeOK
  <2>7. QED BY <2>5, <2>6 DEF CountInv, Exact
<1>4. ASSUME NEW t \in Threads, Forget(t) PROVE CountInv'
  <2>1. StepOf(t)
    BY <1>4 DEF Forget, StepOf, Drop, TypeOK
  <2>2. ASSUME NEW o \in Objects PROVE Gain(t, o) = 0
    BY <1>4, <2>2, DropType DEF Forget, At, Gain, RefsOf, One, CountsAhead, Nil, Nothing, TypeOK
  <2>3. QED BY <1>4, <2>1, <2>2, PassingOn DEF Forget
<1>5. ASSUME NEW t \in Threads, Unmark(t) PROVE CountInv'
  <2>1. StepOf(t)
    BY <1>5 DEF Unmark, StepOf, Drop, TypeOK
  <2>2. ASSUME NEW o \in Objects PROVE Gain(t, o) = IF e[t].obj = o THEN 1 ELSE 0
    <3>1. /\ e'[t].obj = e[t].obj /\ UNCHANGED <<impl, word, op, pc, p, arg, val>>
          /\ pc[t] = "idle" /\ drop[t] = Nothing
      BY <1>5 DEF Unmark, At, TypeOK, Values
    <3>2. drop'[t][1] = e[t].obj /\ drop'[t][2] = NoObject /\ drop'[t][3] = NoObject
      BY <1>5, DropType DEF Unmark, Nil, TypeOK
    <3>3. drop[t][1] = NoObject /\ drop[t][2] = NoObject /\ drop[t][3] = NoObject
      BY <3>1 DEF Nothing
    <3>4. QED BY <2>2, <3>1, <3>2, <3>3 DEF Gain, RefsOf, One, CountsAhead
  <2>3. e[t].obj \in Objects => count[e[t].obj] > 0
    <3>1. e[t].obj \in Objects => RefsOf(t, e[t].obj) > 0
      BY DEF RefsOf, One
    <3>2. QED BY <3>1, ReferredIsThere
  <2>4. e[t] \in Values /\ AddRefs(e[t], 1) /\ memory' = memory
    BY <1>5 DEF Unmark, AddRef, TypeOK
  <2>5. QED BY <2>1, <2>2, <2>3, <2>4, CountingUp
<1>6. ASSUME NEW t \in Threads, CallLoad(t) PROVE CountInv'
  <2>1. StepOf(t)
    BY <1>6 DEF CallLoad, StepOf, TypeOK
  <2>2. /\ arg[t] = Nil /\ pc[t] = "idle" /\ pc'[t] = "enter"
        /\ UNCHANGED <<impl, word, memory, count, p, e, arg, val, drop>>
    BY <1>6 DEF CallLoad, At, TypeOK, CallsInv, CallInv
  <2>3. ASSUME NEW o \in Objects PROVE Gain(t, o) = 0
    BY <2>2, <2>3 DEF Gain, RefsOf, One, CountsAhead, Nil
  <2>4. QED BY <2>1, <2>2, <2>3, PassingOn
<1>7. ASSUME NEW t \in Threads, CallStore(t) PROVE CountInv'
  <2>1. StepOf(t)
    BY <1>7 DEF CallStore, StepOf, TypeOK
  <2>2. arg[t] = Nil
    BY <1>7 DEF CallStore, At, CallsInv, CallInv
  <2>3. p[t].obj \in Objects => count[p[t].obj] > 0
    <3>1. p[t].obj \in Objects => RefsOf(t, p[t].obj) > 0
      BY DEF RefsOf, One
    <3>2. QED BY <3>1, ReferredIsThere
  <2>4. /\ arg'[t] = p[t] /\ op'[t] = "store" /\ op[t] = "none" /\ pc[t] = "idle"
        /\ pc'[t] = "enter" /\ UNCHANGED <<impl, word, memory, e, val, drop>> /\ p[t] \in Values
    BY <1>7 DEF CallStore, At, TypeOK, CallsInv, CallInv
  <2> DEFINE own == One(impl = "intr")
  <2>5. own \in {0, 1}
    BY DEF One
  <2>6. CASE p'[t] = p[t] /\ AddRefs(p[t], 1 + own)
    <3>1. ASSUME NEW o \in Objects PROVE Gain(t, o) = IF p[t].obj = o THEN 1 + own ELSE 0
      BY <2>2, <2>4, <2>6, <3>1 DEF Gain, RefsOf, One, CountsAhead, Nil
    <3> HIDE DEF own
    <3>2. QED BY <2>1, <2>3, <2>4, <2>5, <2>6, <3>1, CountingUp
  <2>7. CASE p'[t] = Nil /\ AddRefs(p[t], own)
    <3>1. ASSUME NEW o \in Objects PROVE Gain(t, o) = IF p[t].obj = o THEN own ELSE 0
      BY <2>2, <2>4, <2>7, <3>1 DEF Gain, RefsOf, One, CountsAhead, Nil
    <3> HIDE DEF own
    <3>2. QED BY <2>1, <2>3, <2>4, <2>5, <2>7, <3>1, CountingUp
  <2>8. QED BY <1>7, <2>6, <2>7 DEF CallStore, TypeOK
<1>8. ASSUME NEW t \in Threads, CallCas(t) PROVE CountInv'
  <2>1. StepOf(t)
    BY <1>8 DEF CallCas, StepOf, TypeOK
  <2>2. PICK c \in {"cas"} \cup (IF impl = "intr" THEN {} ELSE {"move"}),
             d \in {p[t], [e[t] EXCEPT !.mark = TRUE]} :
           /\ op' = [op EXCEPT ![t] = c] /\ arg' = [arg EXCEPT ![t] = d]
           /\ AddRefs(d, IF impl = "intr" \/ c = "move" THEN 1 ELSE 2)
    BY <1>8 DEF CallCas
  <2> DEFINE n == IF impl = "intr" \/ c = "move" THEN 1 ELSE 2
  <2>3. d \in Values /\ (d.obj = p[t].obj \/ d.obj = e[t].obj)
    <3>1. p[t] \in Values /\ e[t] \in Values
      BY DEF TypeOK
    <3>2. [e[t] EXCEPT !.mark = TRUE] \in Values /\ [e[t] EXCEPT !.mark = TRUE].obj = e[t].obj
      BY <3>1 DEF Values
    <3>3. QED BY <3>1, <3>2
  <2>4. d.obj \in Objects => count[d.obj] > 0
    <3>1. d.obj \in Objects => RefsOf(t, d.obj) > 0
      BY <2>3 DEF RefsOf, One
    <3>2. QED BY <3>1, ReferredIsThere
  <2>5. /\ arg[t] = Nil /\ arg'[t] = d /\ op[t] = "none" /\ op'[t] = c
        /\ pc[t] = "idle" /\ pc'[t] \in {"enter", "try"}
        /\ UNCHANGED <<impl, word, memory, p, e, val, drop>>
    BY <1>8, <2>2 DEF CallCas, At, TypeOK, CallsInv, CallInv
  <2>6. ASSUME NEW o \in Objects PROVE Gain(t, o) = IF d.obj = o THEN n ELSE 0
    <3>1. impl \in {"intr", "parlay"} /\ (c = "cas" \/ (c = "move" /\ impl = "parlay"))
      BY DEF TypeOK
    <3>2. CountsAhead(t)' <=> n = 2
      BY <2>5, <3>1 DEF CountsAhead
    <3>3. QED BY <2>5, <2>6, <3>1, <3>2 DEF Gain, RefsOf, One, Nil
  <2>7. n \in Nat /\ AddRefs(d, n)
    BY <2>2
  <2> HIDE DEF n
  <2>8. QED BY <2>1, <2>2, <2>3, <2>4, <2>5, <2>6, <2>7, CountingUp
<1>9. ASSUME NEW t \in Threads, Construct(t) PROVE CountInv'
  <2>1. StepOf(t)
    BY <1>9 DEF Construct, StepOf, TypeOK
  <2>2. /\ word = Nil /\ word' = p[t] /\ p[t] \in Values
        /\ UNCHANGED <<impl, memory, op, pc, e, arg, val, drop>>
    BY <1>9 DEF Construct, WordInv, TypeOK
  <2>3. p[t].obj \in Objects => count[p[t].obj] > 0
    <3>1. p[t].obj \in Objects => RefsOf(t, p[t].obj) > 0
      BY DEF RefsOf, One
    <3>2. QED BY <3>1, ReferredIsThere
  <2>4. CASE p' = p /\ AddRefs(p[t], 1)
    <3>1. ASSUME NEW o \in Objects PROVE Gain(t, o) = IF p[t].obj = o THEN 1 ELSE 0
      BY <2>2, <2>4, <3>1 DEF Gain, RefsOf, One, CountsAhead, Nil
    <3>2. QED BY <2>1, <2>2, <2>3, <2>4, <3>1, CountingUp
  <2>5. CASE p'[t] = Nil /\ UNCHANGED count
    <3>1. ASSUME NEW o \in Objects PROVE Gain(t, o) = 0
      BY <2>2, <2>5, <3>1 DEF Gain, RefsOf, One, CountsAhead, Nil
    <3>2. QED BY <2>1, <2>2, <2>5, <3>1, PassingOn
  <2>6. QED BY <1>9, <2>4, <2>5 DEF Construct, AddRef, TypeOK
<1>10. ASSUME NEW t \in Threads, Destroy(t) PROVE CountInv'
  <2>1. StepOf(t)
    BY <1>10 DEF Destroy, Drop, StepOf, TypeOK
  <2>2. /\ word' = Nil /\ drop[t] = Nothing /\ word \in Values
        /\ UNCHANGED <<impl, memory, count, op, pc, p, e, arg, val>>
    BY <1>10 DEF Destroy, At, TypeOK
  <2>3. drop'[t][1] = word.obj /\ drop'[t][2] = NoObject /\ drop'[t][3] = NoObject
    BY <1>10, <2>2, DropType DEF Destroy, Nil
  <2>4. ASSUME NEW o \in Objects PROVE Gain(t, o) = 0
    BY <2>2, <2>3, <2>4 DEF Gain, RefsOf, One, CountsAhead, Nil, Nothing
  <2>5. QED BY <2>1, <2>2, <2>4, PassingOn
<1>11. ASSUME NEW t \in Threads, Lock(t) PROVE CountInv'
  <2>1. StepOf(t)
    BY <1>11 DEF Lock, StepOf, TypeOK
  <2>2. /\ pc[t] = "enter" /\ pc'[t] \in {"get", "set"}
        /\ UNCHANGED <<impl, memory, count, op, p, e, arg, drop, word>>
    BY <1>11 DEF Lock, At, TypeOK
  <2>3. ASSUME NEW o \in Objects PROVE Gain(t, o) = 0
    BY <2>2, <2>3 DEF Gain, RefsOf, One, CountsAhead
  <2>4. QED BY <2>1, <2>2, <2>3, PassingOn
<1>12. ASSUME NEW t \in Threads, Get(t) PROVE CountInv'
  <2>1. StepOf(t)
    BY <1>12 DEF Get, Drop, StepOf, TypeOK
  <2>2. /\ pc[t] = "get" /\ pc'[t] = "idle" /\ drop[t] = Nothing /\ ~CountsAhead(t)
        /\ op'[t] = "none" /\ word' = val[t] /\ val[t] = word
        /\ e'[t] = val[t] /\ arg'[t] = Nil /\ UNCHANGED <<impl, memory, p>>
    <3>1. /\ pc[t] = "get" /\ drop[t] = Nothing /\ word' = val[t] /\ UNCHANGED <<impl, memory, p>>
          /\ pc'[t] = "idle" /\ op'[t] = "none" /\ e'[t] = val[t] /\ arg'[t] = Nil
      BY <1>12 DEF Get, At, TypeOK
    <3>2. val[t] = word
      BY <3>1 DEF WordInv
    <3>3. impl = "intr" /\ op[t] # "store"
      BY <3>1 DEF CallsInv, CallInv, TypeOK
    <3>4. QED BY <3>1, <3>2, <3>3 DEF CountsAhead
  <2>3. e[t] \in Values /\ arg[t] \in Values /\ val[t] \in Values
    BY DEF TypeOK
  <2>4. drop'[t][1] = e[t].obj /\ drop'[t][2] = arg[t].obj /\ drop'[t][3] = NoObject
    BY <1>12, <2>3, DropType DEF Get, Nil
  <2>5. ASSUME NEW o \in Objects PROVE Gain(t, o) = IF val[t].obj = o THEN 1 ELSE 0
    BY <2>2, <2>4, <2>5 DEF Gain, RefsOf, One, CountsAhead, Nil, Nothing
  <2>6. val[t].obj \in Objects => count[val[t].obj] > 0
    BY <2>2, ReferredIsThere
  <2>7. AddRefs(val[t], 1)
    BY <1>12 DEF Get, AddRef
  <2>8. QED BY <2>1, <2>2, <2>3, <2>5, <2>6, <2>7, CountingUp
<1>13. ASSUME NEW t \in Threads, Set(t) PROVE CountInv'
  <2>1. StepOf(t)
    BY <1>13 DEF Set, Drop, StepOf, TypeOK
  <2>2. /\ pc[t] = "set" /\ pc'[t] = "idle" /\ drop[t] = Nothing /\ impl = "intr"
        /\ op[t] \in {"store", "cas"} /\ op'[t] = "none"
        /\ val[t] = word /\ word' = arg[t] /\ arg'[t] = Nil
        /\ UNCHANGED <<impl, memory, p, e>>
    <3>1. /\ pc[t] = "set" /\ drop[t] = Nothing /\ word' = arg[t] /\ UNCHANGED <<impl, memory, p, e>>
          /\ pc'[t] = "idle" /\ op'[t] = "none" /\ arg'[t] = Nil
      BY <1>13 DEF Set, At, TypeOK
    <3>2. val[t] = word
      BY <3>1 DEF WordInv
    <3>3. impl = "intr" /\ op[t] \in {"store", "cas"}
      BY <3>1 DEF CallsInv, CallInv, TypeOK
    <3>4. QED BY <3>1, <3>2, <3>3
  <2>3. arg[t] \in Values /\ val[t] \in Values
    BY DEF TypeOK
  <2>4. drop'[t][1] = word.obj /\ drop'[t][2] = arg[t].obj /\ drop'[t][3] = NoObject
    BY <1>13, <2>2, <2>3, DropType DEF Set, Nil
  <2>5. CASE op[t] = "cas"
    <3>1. ASSUME NEW o \in Objects PROVE Gain(t, o) = IF arg[t].obj = o THEN 1 ELSE 0
      BY <2>2, <2>4, <2>5, <3>1 DEF Gain, RefsOf, One, CountsAhead, Nil, Nothing
    <3>2. arg[t].obj \in Objects => count[arg[t].obj] > 0
      <4>1. arg[t].obj \in Objects => RefsOf(t, arg[t].obj) > 0
        BY DEF RefsOf, One
      <4>2. QED BY <4>1, ReferredIsThere
    <3>3. AddRefs(arg[t], 1)
      BY <1>13, <2>5 DEF Set, AddRef
    <3>4. QED BY <2>1, <2>2, <2>3, <3>1, <3>2, <3>3, CountingUp
  <2>6. CASE op[t] = "store"
    <3>1. ASSUME NEW o \in Objects PROVE Gain(t, o) = 0
      BY <2>2, <2>4, <2>6, <3>1 DEF Gain, RefsOf, One, CountsAhead, Nil, Nothing
    <3>2. UNCHANGED count
      BY <1>13, <2>6 DEF Set
    <3>3. QED BY <2>1, <2>2, <3>1, <3>2, PassingOn
  <2>7. QED BY <2>2, <2>5, <2>6
<1>14. ASSUME NEW t \in Threads, Exchange(t) PROVE CountInv'
  <2>1. StepOf(t)
    BY <1>14 DEF Exchange, Drop, StepOf, TypeOK
  <2>2. /\ pc[t] = "enter" /\ pc'[t] = "idle" /\ drop[t] = Nothing /\ impl = "parlay"
        /\ op[t] = "store" /\ op'[t] = "none" /\ word' = arg[t] /\ arg'[t] = Nil
        /\ UNCHANGED <<impl, memory, count, p, e, val>> /\ word \in Values
    BY <1>14 DEF Exchange, At, TypeOK
  <2>3. drop'[t][1] = word.obj /\ drop'[t][2] = NoObject /\ drop'[t][3] = NoObject
    BY <1>14, <2>2, DropType DEF Exchange, Nil
  <2>4. ASSUME NEW o \in Objects PROVE Gain(t, o) = 0
    BY <2>2, <2>3, <2>4 DEF Gain, RefsOf, One, CountsAhead, Nil, Nothing
  <2>5. QED BY <2>1, <2>2, <2>4, PassingOn
<1>15. ASSUME NEW t \in Threads, CasTry(t) PROVE CountInv'
  <2>1. /\ pc[t] = "try" /\ drop[t] = Nothing /\ word \in Values
        /\ arg[t] \in Values /\ Copied(t) \in Values
        /\ UNCHANGED <<impl, memory, count, p, e, val>>
    BY <1>15 DEF CasTry, At, TypeOK, Copied
  <2>2. impl = "parlay" /\ Copied(t).obj = IF CountsAhead(t) THEN arg[t].obj ELSE NoObject
    BY <2>1 DEF Copied, CountsAhead, CallsInv, CallInv, TypeOK, Nil
  <2>3. CASE /\ word' = arg[t] /\ Drop(t, word, Copied(t), Nil) /\ Done(t)
             /\ arg' = [arg EXCEPT ![t] = Nil] /\ old' = [old EXCEPT ![t] = Nil]
    <3>1. StepOf(t)
      BY <2>1, <2>3 DEF Drop, StepOf, TypeOK
    <3>2. drop'[t][1] = word.obj /\ drop'[t][2] = Copied(t).obj /\ drop'[t][3] = NoObject
      BY <2>1, <2>3, DropType DEF Nil
    <3>3. arg'[t] = Nil /\ op'[t] = "none" /\ pc'[t] = "idle"
      BY <2>3 DEF TypeOK
    <3>4. ASSUME NEW o \in Objects PROVE Gain(t, o) = 0
      <4>1. ~CountsAhead(t)'
        BY <3>3 DEF CountsAhead
      <4>2. QED BY <2>1, <2>2, <2>3, <3>2, <3>3, <3>4, <4>1 DEF Gain, RefsOf, One, Nil, Nothing
    <3>5. QED BY <2>1, <3>1, <3>4, PassingOn
  <2>4. CASE Goto(t, "reload") /\ UNCHANGED <<word, op, arg, old, drop>>
    <3>1. StepOf(t)
      BY <2>1, <2>4 DEF StepOf, TypeOK
    <3>2. pc'[t] = "reload"
      BY <2>4 DEF TypeOK
    <3>3. ASSUME NEW o \in Objects PROVE Gain(t, o) = 0
      BY <2>1, <2>4, <3>2, <3>3 DEF Gain, RefsOf, One, CountsAhead
    <3>4. QED BY <2>1, <3>1, <3>3, PassingOn
  <2>5. QED BY <1>15, <2>3, <2>4 DEF CasTry
<1>16. ASSUME NEW t \in Threads, Protect(t) PROVE CountInv'
  <2>1. StepOf(t)
    BY <1>16 DEF Protect, StepOf, TypeOK
  <2>2. /\ pc[t] # "loaded" /\ val'[t] = word
        /\ pc'[t] = IF word.obj = NoObject THEN "loaded" ELSE "increment"
        /\ UNCHANGED <<impl, memory, count, word, op, p, e, arg, drop>>
    BY <1>16 DEF Protect, At, TypeOK
  <2>3. ASSUME NEW o \in Objects PROVE Gain(t, o) = 0
    BY <2>2, <2>3 DEF Gain, RefsOf, One, CountsAhead
  <2>4. QED BY <2>1, <2>2, <2>3, PassingOn
<1>17. ASSUME NEW t \in Threads, Increment(t) PROVE CountInv'
  <2>1. StepOf(t)
    BY <1>17 DEF Increment, StepOf, TypeOK
  <2>2. /\ pc[t] = "increment" /\ val[t] \in Values
        /\ UNCHANGED <<impl, memory, word, op, p, e, arg, val, drop>>
    BY <1>17 DEF Increment, At, TypeOK
  <2>3. CASE count[val[t].obj] > 0 /\ AddRef(val[t]) /\ Goto(t, "loaded")
    <3>1. pc'[t] = "loaded"
      BY <2>3 DEF TypeOK
    <3>2. ASSUME NEW o \in Objects PROVE Gain(t, o) = IF val[t].obj = o THEN 1 ELSE 0
      BY <2>2, <3>1, <3>2 DEF Gain, RefsOf, One, CountsAhead
    <3>3. QED BY <2>1, <2>2, <2>3, <3>2, CountingUp DEF AddRef
  <2>4. CASE UNCHANGED count /\ pc'[t] \in {"enter", "reload"}
    <3>1. ASSUME NEW o \in Objects PROVE Gain(t, o) = 0
      BY <2>2, <2>4, <3>1 DEF Gain, RefsOf, One, CountsAhead
    <3>2. QED BY <2>1, <2>2, <2>4, <3>1, PassingOn
  <2>5. QED BY <1>17, <2>3, <2>4 DEF Increment, TypeOK
<1>18. ASSUME NEW t \in Threads, Loaded(t) PROVE CountInv'
  <2>1. /\ pc[t] = "loaded" /\ drop[t] = Nothing /\ impl = "parlay"
        /\ op[t] \in {"load", "cas", "move"} /\ (op[t] = "load" => arg[t] = Nil)
        /\ e[t] \in Values /\ arg[t] \in Values
        /\ e'[t] = val[t] /\ UNCHANGED <<impl, memory, count, word, p>>
    <3>1. /\ pc[t] = "loaded" /\ drop[t] = Nothing /\ e' = [e EXCEPT ![t] = val[t]]
          /\ UNCHANGED <<impl, memory, count, word, p>>
      BY <1>18 DEF Loaded, At
    <3>2. impl = "parlay" /\ op[t] \in {"load", "cas", "move"} /\ (op[t] = "load" => arg[t] = Nil)
      <4>1. CallInv(t) /\ impl \in {"intr", "parlay"} /\ op[t] \in {"none", "load", "store", "cas", "move"}
        BY DEF CallsInv, TypeOK
      <4>2. QED BY <3>1, <4>1 DEF CallInv
    <3>3. QED BY <3>1, <3>2 DEF TypeOK
  <2>2. /\ \A u \in Threads \ {t} : e'[u] = e[u] /\ val'[u] = val[u]
        /\ UNCHANGED p
    BY <1>18 DEF Loaded, TypeOK
  <2>3. CASE Goto(t, "try") /\ Drop(t, e[t], Nil, Nil) /\ UNCHANGED <<op, arg, old>>
    <3>1. StepOf(t)
      BY <2>1, <2>2, <2>3 DEF StepOf, Drop, TypeOK
    <3>2. drop'[t][1] = e[t].obj /\ drop'[t][2] = NoObject /\ drop'[t][3] = NoObject
      BY <2>1, <2>3, DropType DEF Nil
    <3>3. pc'[t] = "try"
      BY <2>3 DEF TypeOK
    <3>4. ASSUME NEW o \in Objects PROVE Gain(t, o) = 0
      BY <2>1, <2>3, <3>2, <3>3, <3>4 DEF Gain, RefsOf, One, CountsAhead, Nothing
    <3>5. QED BY <2>1, <3>1, <3>4, PassingOn
  <2>4. CASE /\ Done(t) /\ Drop(t, e[t], arg[t], Copied(t))
             /\ arg' = [arg EXCEPT ![t] = Nil] /\ old' = [old EXCEPT ![t] = Nil]
    <3>1. StepOf(t)
      BY <2>1, <2>2, <2>4 DEF StepOf, Drop, TypeOK
    <3>2. drop'[t][1] = e[t].obj /\ drop'[t][2] = arg[t].obj /\ drop'[t][3] = Copied(t).obj
      <4>1. Copied(t) \in Values
        BY <2>1 DEF Copied
      <4>2. QED BY <2>1, <2>4, <4>1, DropType
    <3>3. pc'[t] = "idle" /\ op'[t] = "none" /\ arg'[t] = Nil
      BY <2>4 DEF TypeOK
    <3>4. ASSUME NEW o \in Objects PROVE Gain(t, o) = 0
      <4>1. Copied(t).obj = IF CountsAhead(t) THEN arg[t].obj ELSE NoObject
        BY <2>1 DEF Copied, CountsAhead, Nil
      <4>2. ~CountsAhead(t)'
        BY <3>3 DEF CountsAhead
      <4>3. QED BY <2>1, <3>2, <3>3, <3>4, <4>1, <4>2 DEF Gain, RefsOf, One, Nil, Nothing
    <3>5. QED BY <2>1, <3>1, <3>4, PassingOn
  <2>5. QED BY <1>18, <2>3, <2>4 DEF Loaded
<1>19. CASE UNCHANGED vars
  <2>1. ASSUME NEW o \in Objects PROVE References(o)' = References(o)
    BY <1>19 DEF vars, References, Refers, CountsAhead
  <2>2. UNCHANGED <<count, word, memory>>
    BY <1>19 DEF vars
  <2>3. QED BY <2>1, <2>2 DEF CountInv
<1>20. QED
  BY <1>1, <1>2, <1>3, <1>4, <1>5, <1>6, <1>7, <1>8, <1>9, <1>10, <1>11, <1>12, <1>13, <1>14,
     <1>15, <1>16, <1>17, <1>18, <1>19
  DEF Next, Call, Step

-----------------------------------------------------------------------------
(* What an increment looks at is not freed: the word's object was counted   *)
(* when it was announced, a count that reaches 0 only retires the object,   *)
(* and a retired object that is announced stays.                            *)
LEMMA HazardStep ==
  ASSUME TypeOK, CallsInv, CountInv, HazardInv, [Next]_vars
  PROVE  HazardInv'
<1> USE DEF memories, locals, Goto, Done
<1>1. ASSUME NEW t \in Threads, pc[t] = "increment"
      PROVE  /\ impl = "parlay" /\ val[t] \in Values /\ val[t].obj \in Objects
             /\ memory[val[t].obj] # "free" /\ Hazard(t) = val[t].obj
  BY <1>1 DEF TypeOK, CallsInv, CallInv, HazardInv, Values, Hazard
<1>2. ASSUME \A u \in Threads : pc'[u] = "increment" => pc[u] = "increment" /\ val'[u] = val[u],
             \A o \in Objects : memory'[o] = "free" =>
                memory[o] = "free" \/ impl = "intr" \/ \A u \in Threads : Hazard(u) # o
      PROVE  HazardInv'
  <2>1. ASSUME NEW u \in Threads, pc'[u] = "increment" PROVE memory'[val'[u].obj] # "free"
    BY <1>1, <1>2, <2>1
  <2>2. QED BY <2>1 DEF HazardInv
<1>3. ASSUME NEW t \in Threads, DelRef(t) PROVE HazardInv'
  <2>1. UNCHANGED <<pc, val>>
    BY <1>3 DEF DelRef
  <2>2. \A o \in Objects : memory'[o] = "free" => memory[o] = "free" \/ impl = "intr"
    BY <1>3 DEF DelRef, TypeOK
  <2>3. QED BY <1>2, <2>1, <2>2
<1>4. ASSUME NEW r \in Objects, Reclaim(r) PROVE HazardInv'
  <2>1. UNCHANGED <<pc, val>>
    BY <1>4 DEF Reclaim
  <2>2. \A o \in Objects : memory'[o] = "free" => memory[o] = "free" \/ \A u \in Threads : Hazard(u) # o
    BY <1>4 DEF Reclaim, TypeOK
  <2>3. QED BY <1>2, <2>1, <2>2
<1>5. ASSUME NEW t \in Threads, New(t) PROVE HazardInv'
  <2>1. UNCHANGED <<pc, val>>
    BY <1>5 DEF New
  <2>2. \A o \in Objects : memory'[o] = "free" => memory[o] = "free"
    BY <1>5 DEF New, TypeOK
  <2>3. QED BY <1>2, <2>1, <2>2
<1>6. ASSUME NEW t \in Threads, Protect(t) PROVE HazardInv'
  <2>1. /\ val'[t] = word /\ word \in Values /\ UNCHANGED memory
        /\ pc'[t] = IF word.obj = NoObject THEN "loaded" ELSE "increment"
        /\ \A u \in Threads \ {t} : pc'[u] = pc[u] /\ val'[u] = val[u]
    BY <1>6 DEF Protect, TypeOK
  <2>2. ASSUME NEW u \in Threads, pc'[u] = "increment" PROVE memory'[val'[u].obj] # "free"
    <3>1. CASE u = t
      <4>1. word.obj \in Objects
        BY <2>1, <2>2, <3>1 DEF Values
      <4>2. count[word.obj] > 0
        BY <4>1, ReferredIsThere
      <4>3. QED BY <2>1, <3>1, <4>1, <4>2 DEF CountInv
    <3>2. CASE u # t
      BY <2>1, <2>2, <3>2, <1>1
    <3>3. QED BY <3>1, <3>2
  <2>3. QED BY <2>2 DEF HazardInv
<1>7. ASSUME NEW t \in Threads, UNCHANGED memory,
             \A u \in Threads \ {t} : pc'[u] = pc[u] /\ val'[u] = val[u],
             pc'[t] # "increment" \/ UNCHANGED <<pc, val>>
      PROVE  HazardInv'
  BY <1>2, <1>7
<1>8. ASSUME NEW t \in Threads, Forget(t) \/ Unmark(t) \/ Construct(t) \/ Destroy(t) PROVE HazardInv'
  BY <1>7, <1>8 DEF Forget, Unmark, Construct, Destroy
<1>9. ASSUME NEW t \in Threads, CallLoad(t) \/ CallStore(t) PROVE HazardInv'
  BY <1>7, <1>9 DEF CallLoad, CallStore, TypeOK
<1>10. ASSUME NEW t \in Threads, CallCas(t) PROVE HazardInv'
  BY <1>7, <1>10 DEF CallCas, TypeOK
<1>11. ASSUME NEW t \in Threads, Lock(t) PROVE HazardInv'
  BY <1>7, <1>11 DEF Lock, TypeOK
<1>12. ASSUME NEW t \in Threads, Get(t) \/ Set(t) PROVE HazardInv'
  BY <1>7, <1>12 DEF Get, Set, TypeOK
<1>13. ASSUME NEW t \in Threads, Exchange(t) \/ CasTry(t) PROVE HazardInv'
  BY <1>7, <1>13 DEF Exchange, CasTry, TypeOK
<1>14. ASSUME NEW t \in Threads, Increment(t) PROVE HazardInv'
  BY <1>7, <1>14 DEF Increment, TypeOK
<1>15. ASSUME NEW t \in Threads, Loaded(t) PROVE HazardInv'
  BY <1>7, <1>15 DEF Loaded, TypeOK
<1>16. CASE UNCHANGED vars
  BY <1>16 DEF vars, HazardInv
<1>17. QED
  BY <1>3, <1>4, <1>5, <1>6, <1>8, <1>9, <1>10, <1>11, <1>12, <1>13, <1>14, <1>15, <1>16
  DEF Next, Call, Step

(* Initially there are no references.                                       *)
LEMMA InitInv == Init => Inv
<1> SUFFICES ASSUME Init PROVE Inv
  OBVIOUS
<1>1. TypeOK /\ CallsInv /\ WordInv /\ HazardInv
  BY NilType, AtomicSharedPtrAssumption
  DEF Init, TypeOK, CallsInv, CallInv, WordInv, HazardInv, Nil, Nothing
<1>2. ASSUME NEW o \in Objects PROVE References(o) = {}
  BY <1>2, AtomicSharedPtrAssumption DEF Init, References, Refers, Nil, Nothing
<1>3. CountInv
  <2>1. Cardinality({}) = 0
    BY FS_EmptySet
  <2>2. ASSUME NEW o \in Objects
        PROVE  count[o] = 0 /\ word.obj # o /\ memory[o] = "free"
    BY AtomicSharedPtrAssumption DEF Init, Nil
  <2>3. QED BY <1>2, <2>1, <2>2 DEF CountInv, One
<1>4. QED BY <1>1, <1>3 DEF Inv

(* The invariant is inductive.                                              *)
LEMMA NextInv == Inv /\ [Next]_vars => Inv'
  BY TypeStep, CallStep, WordStep, CountStep, HazardStep DEF Inv

(* It holds always.                                                         *)
LEMMA Invariance == Spec => []Inv
<1>1. QED BY InitInv, NextInv, PTL DEF Spec

-----------------------------------------------------------------------------
(* The state of both classes has its type: no count is ever taken below 0.  *)
THEOREM AtomicSharedPtrTypeOK == Spec => []TypeOK
<1>1. Inv => TypeOK
  BY DEF Inv
<1>2. QED BY <1>1, Invariance, PTL

(* An object has the count of its references and is live exactly as long as *)
(* there are some; what load() or a failed CAS is about to count is counted *)
(* (intr_shared_ptr) or not yet freed (atomic_shared_ptr).                  *)
THEOREM AtomicSharedPtrCounts == Spec => []CountsAreExact
<1>1. Inv => CountsAreExact
  <2> SUFFICES ASSUME Inv PROVE CountsAreExact
    OBVIOUS
  <2> USE DEF Inv
  <2>1. ASSUME NEW t \in Threads, pc[t] = "get"
        PROVE  val[t].obj = NoObject \/ count[val[t].obj] > 0
    <3>1. val[t] \in Values /\ val[t] = word
      BY <2>1 DEF TypeOK, WordInv
    <3>2. QED BY <3>1, ReferredIsThere DEF Values
  <2>2. QED BY <2>1 DEF CountsAreExact, CountInv, HazardInv
<1>2. QED BY <1>1, Invariance, PTL

(* A compare_exchange_strong() that succeeds replaces the pointer and mark  *)
(* that its caller expected.                                                *)
THEOREM AtomicSharedPtrSwaps == Spec => CasSwapsExpected
<1>1. Inv /\ [Next]_vars => [\A t \in Threads : SwapsWhatIsExpected(t)]_vars
  <2> SUFFICES ASSUME Inv, Next, NEW t \in Threads,
                      op[t] \in {"cas", "move"}, pc[t] \in {"set", "try"}, pc'[t] = "idle"
               PROVE  word = e[t] /\ word' = arg[t]
    BY DEF SwapsWhatIsExpected
  <2> USE DEF Inv, TypeOK, memories, locals, Goto, Done, At
  <2>1. ASSUME Set(t) PROVE word = e[t] /\ word' = arg[t]
    BY <2>1 DEF Set, WordInv, CallsInv, CallInv
  <2>2. ASSUME CasTry(t) PROVE word = e[t] /\ word' = arg[t]
    BY <2>2 DEF CasTry
  <2>3. ASSUME NEW u \in Threads, Call(u) \/ Step(u), pc'[t] # pc[t] PROVE u = t
    BY <2>3 DEF Call, Step, New, Forget, Unmark, CallLoad, CallStore, CallCas, Construct, Destroy,
       DelRef, Lock, Get, Set, Exchange, CasTry, Protect, Increment, Loaded
  <2>4. ASSUME Call(t) PROVE FALSE
    BY <2>4 DEF Call, New, Forget, Unmark, CallLoad, CallStore, CallCas, Construct, Destroy
  <2>5. ASSUME Step(t) PROVE Set(t) \/ CasTry(t)
    BY <2>5 DEF Step, DelRef, Lock, Get, Exchange, Protect, Increment, Loaded
  <2>6. QED BY <2>1, <2>2, <2>3, <2>4, <2>5 DEF Next, Reclaim
<1>2. QED BY <1>1, Invariance, PTL DEF Spec, CasSwapsExpected
=============================================================================
