------------------------------ MODULE NodeChain ------------------------------
(***************************************************************************)
(* What becomes of the nodes of a LockFreeList                             *)
(* (Chapter07/08_concurrent_list/lock_free_list.h) when the list is        *)
(* destroyed while iterators still hold some of them: ~Node() dismantles   *)
(* the chain behind it as far as it is the only owner, and whoever drops   *)
(* the last reference to a node later goes on from there.                  *)
(*                                                                         *)
(* A reference is one that a shared_ptr_type holds (an iterator's, or a    *)
(* local of ~Node()) or one of a `next`; each change of a count is a step. *)
(***************************************************************************)
EXTENDS Integers, Sequences, FiniteSets

CONSTANTS
  Chain,       (* nodes in the list; node 1 is the dummy head              *)
  Iterators,   (* iterators, each in a thread of its own                   *)
  TheList      (* the list as an owner: its head_                          *)

NodeChainAssumption ==
  /\ Chain \in Nat \ {0} /\ IsFiniteSet(Iterators) /\ TheList \notin Iterators

Nil == 0
Grave == Chain + 1   (* a node that was erased: it still has its `next`    *)
Nodes == 1 .. Chain + 1
Owners == Iterators \cup {TheList}

VARIABLES
  next, refs,
  alive,       (* nodes whose memory has not been freed                    *)
  hold, ahead, (* an owner's node; the one that ++ has loaded              *)
  stack,       (* the calls of ~Node() that an owner is in, innermost last *)
  links,       (* history: `next` as it was                                *)
  given        (* history: how often an iterator gave up a reference       *)

history == <<links, given>>
vars == <<next, refs, alive, hold, ahead, stack, history>>

Call(x) == [node |-> x, pc |-> "load", curr |-> Nil, next_curr |-> Nil]

(* Who refers to node x: places are nodes' `next`, and what owners hold,    *)
(* the locals of the calls they are in included.                            *)
Places ==
  ({"next"} \X alive \X {0}) \cup ({"hold", "ahead"} \X Owners \X {0})
    \cup UNION {{"curr", "next_curr"} \X {o} \X DOMAIN stack[o] : o \in Owners}

In(k, a, i) ==
  CASE k = "next"      -> next[a]
    [] k = "hold"      -> hold[a]
    [] k = "ahead"     -> ahead[a]
    [] k = "curr"      -> stack[a][i].curr
    [] k = "next_curr" -> stack[a][i].next_curr

References(x) == {w \in Places : In(w[1], w[2], w[3]) = x}

Count(x) == Cardinality(References(x))

(* An iterator may be at any node; only an iterator keeps the erased one.   *)
Init ==
  /\ \E g \in 2 .. Chain + 2 :
       next = [x \in Nodes |-> IF x < Chain THEN x + 1
                               ELSE IF x = Grave /\ g <= Chain THEN g ELSE Nil]
  /\ links = next /\ given = 0
  /\ hold \in [Owners -> Nodes] /\ hold[TheList] = 1
  /\ ahead = [o \in Owners |-> Nil] /\ stack = [o \in Owners |-> <<>>]
  /\ alive = (1 .. Chain) \cup {hold[o] : o \in Owners}
  /\ refs = [x \in Nodes |-> Count(x)]

-----------------------------------------------------------------------------
Add(x, r) == IF x = Nil THEN r ELSE [r EXCEPT ![x] = @ + 1]

(* Gives up a reference to x: the last one runs ~Node(), as a call on top   *)
(* of the stack s.                                                          *)
Release(o, x, s) ==
  /\ refs' = IF x = Nil THEN refs ELSE [refs EXCEPT ![x] = @ - 1]
  /\ stack' = [stack EXCEPT ![o] = IF x # Nil /\ refs[x] = 1 THEN Append(s, Call(x)) ELSE s]

Gives(o) == given' = IF o \in Iterators THEN given + 1 ELSE given

(* An iterator is dropped; the list is destroyed.                           *)
Drop(o) ==
  /\ stack[o] = <<>> /\ hold[o] # Nil /\ ahead[o] = Nil
  /\ hold' = [hold EXCEPT ![o] = Nil]
  /\ Release(o, hold[o], <<>>) /\ Gives(o)
  /\ UNCHANGED <<next, alive, ahead, links>>

(* ++it                                                                     *)
LoadAhead(o) ==
  /\ o \in Iterators /\ stack[o] = <<>> /\ hold[o] # Nil /\ ahead[o] = Nil
  /\ next[hold[o]] # Nil
  /\ ahead' = [ahead EXCEPT ![o] = next[hold[o]]]
  /\ refs' = Add(next[hold[o]], refs)
  /\ UNCHANGED <<next, alive, hold, stack, history>>

Advance(o) ==
  /\ stack[o] = <<>> /\ ahead[o] # Nil
  /\ hold' = [hold EXCEPT ![o] = ahead[o]] /\ ahead' = [ahead EXCEPT ![o] = Nil]
  /\ Release(o, hold[o], <<>>) /\ Gives(o)
  /\ UNCHANGED <<next, alive, links>>

-----------------------------------------------------------------------------
(* ~Node()                                                                  *)
Top(o) == stack[o][Len(stack[o])]

At(o, l) == stack[o] # <<>> /\ Top(o).pc = l

(* The innermost call goes on as f.                                         *)
Then(o, f) == [stack[o] EXCEPT ![Len(stack[o])] = f]

(* curr = next.load(); next.store(nullptr)                                  *)
Load(o) ==
  /\ At(o, "load")
  /\ LET x == next[Top(o).node] IN
       /\ stack' = [stack EXCEPT ![o] = Then(o, [Top(o) EXCEPT !.curr = x, !.pc = "clear"])]
       /\ refs' = Add(x, refs)
  /\ UNCHANGED <<next, alive, hold, ahead, history>>

Clear(o) ==
  /\ At(o, "clear")
  /\ next' = [next EXCEPT ![Top(o).node] = Nil]
  /\ Release(o, next[Top(o).node], Then(o, [Top(o) EXCEPT !.pc = "test"]))
  /\ UNCHANGED <<alive, hold, ahead, history>>

Test_Ignored(o) ==             \* mutant: the walk does not look at the count
  /\ At(o, "test")
  /\ LET more == Top(o).curr # Nil IN
       stack' = [stack EXCEPT ![o] = Then(o, [Top(o) EXCEPT !.pc = IF more THEN "ahead" ELSE "drop"])]
  /\ UNCHANGED <<next, refs, alive, hold, ahead, history>>

(* while (curr && curr.use_count() == 1)                                    *)
Test(o) ==
  /\ At(o, "test")
  /\ LET more == Top(o).curr # Nil /\ refs[Top(o).curr] = 1 IN
       stack' = [stack EXCEPT ![o] = Then(o, [Top(o) EXCEPT !.pc = IF more THEN "ahead" ELSE "drop"])]
  /\ UNCHANGED <<next, refs, alive, hold, ahead, history>>

(* next_curr = curr->next.load(); curr->next.store(nullptr);                *)
(* curr = std::move(next_curr), which deletes the old one                   *)
LoadNext(o) ==
  /\ At(o, "ahead")
  /\ LET x == next[Top(o).curr] IN
       /\ stack' = [stack EXCEPT ![o] = Then(o, [Top(o) EXCEPT !.next_curr = x, !.pc = "cut"])]
       /\ refs' = Add(x, refs)
  /\ UNCHANGED <<next, alive, hold, ahead, history>>

Cut(o) ==
  /\ At(o, "cut")
  /\ next' = [next EXCEPT ![Top(o).curr] = Nil]
  /\ Release(o, next[Top(o).curr], Then(o, [Top(o) EXCEPT !.pc = "move"]))
  /\ UNCHANGED <<alive, hold, ahead, history>>

Move(o) ==
  /\ At(o, "move")
  /\ Release(o, Top(o).curr,
             Then(o, [Top(o) EXCEPT !.curr = Top(o).next_curr, !.next_curr = Nil, !.pc = "test"]))
  /\ UNCHANGED <<next, alive, hold, ahead, history>>

(* At the end curr is released, and then the node's memory.                 *)
DropCurr(o) ==
  /\ At(o, "drop")
  /\ Release(o, Top(o).curr, Then(o, [Top(o) EXCEPT !.curr = Nil, !.pc = "free"]))
  /\ UNCHANGED <<next, alive, hold, ahead, history>>

Free(o) ==
  /\ At(o, "free")
  /\ alive' = alive \ {Top(o).node}
  /\ stack' = [stack EXCEPT ![o] = SubSeq(@, 1, Len(@) - 1)]
  /\ UNCHANGED <<next, refs, hold, ahead, history>>

-----------------------------------------------------------------------------
Owner(o) ==
  \/ Drop(o) \/ LoadAhead(o) \/ Advance(o)
  \/ Load(o) \/ Clear(o) \/ Test(o) \/ LoadNext(o) \/ Cut(o) \/ Move(o) \/ DropCurr(o) \/ Free(o)

Next == \E o \in Owners : Owner(o)

Spec == Init /\ [][Next]_vars

-----------------------------------------------------------------------------
Calls == [node : Nodes, curr : Nodes \cup {Nil}, next_curr : Nodes \cup {Nil},
          pc : {"load", "clear", "test", "ahead", "cut", "move", "drop", "free"}]

TypeOK ==
  /\ next \in [Nodes -> Nodes \cup {Nil}] /\ links \in [Nodes -> Nodes \cup {Nil}]
  /\ given \in Nat /\ refs \in [Nodes -> Nat] /\ alive \subseteq Nodes
  /\ hold \in [Owners -> Nodes \cup {Nil}] /\ ahead \in [Owners -> Nodes \cup {Nil}]
  /\ stack \in [Owners -> Seq(Calls)]

Destroyed == UNION {{stack[o][i].node : i \in DOMAIN stack[o]} : o \in Owners}

(* Nobody refers to a node that is being destroyed or is gone, and a node   *)
(* is destroyed once,                                                       *)
CountsInv == \A x \in Nodes : IsFiniteSet(References(x)) /\ refs[x] = Count(x)

DeadInv ==
  /\ \A x \in Nodes : refs[x] > 0 => x \in alive \ Destroyed
  /\ \A o, u \in Owners : \A i \in DOMAIN stack[o], j \in DOMAIN stack[u] :
       stack[o][i].node = stack[u][j].node => o = u /\ i = j

NobodyHoldsTheDead == CountsInv /\ DeadInv

(* an iterator finds the way on as it was: a destructor takes apart only    *)
(* what nobody else holds,                                                  *)
WaysStayOpen == \A o \in Iterators : hold[o] # Nil => next[hold[o]] = links[hold[o]]

(* and however long the chain is, ~Node() calls itself once for a node, and *)
(* once more for each reference that an iterator gave up meanwhile.         *)
CallsNestByIterators == \A o \in Owners : Len(stack[o]) <= 2 + given

ChainsAreDismantled == NobodyHoldsTheDead /\ WaysStayOpen /\ CallsNestByIterators

-----------------------------------------------------------------------------
(* Why: a `next` is what it was, or cut; what a call knows of its curr;     *)
LinksInv ==
  /\ \A x \in 1 .. Chain - 1 : links[x] = x + 1
  /\ links[Chain] = Nil /\ links[Grave] \in (2 .. Chain) \cup {Nil}
  /\ \A x \in Nodes : next[x] \in {links[x], Nil}
  /\ hold[TheList] \in {1, Nil} /\ ahead[TheList] = Nil

Knows(f) ==
  /\ f.node \in alive
  /\ f.pc \in {"load", "free"} => f.curr = Nil
  /\ f.next_curr # Nil => f.pc \in {"cut", "move"}
  /\ f.pc \in {"ahead", "cut", "move"} => f.curr # Nil /\ refs[f.curr] = 1
  /\ f.pc = "clear" => next[f.node] = f.curr
  /\ f.pc \notin {"load", "clear"} => next[f.node] = Nil
  /\ f.pc = "cut" => next[f.curr] = f.next_curr
  /\ f.pc = "move" => next[f.curr] = Nil

CallsInv ==
  \A o \in Owners : \A i \in DOMAIN stack[o] :
    /\ Knows(stack[o][i])
    /\ i < Len(stack[o]) =>
         \/ stack[o][i].pc = "free"
         \/ /\ stack[o][i].pc = "test" /\ i = Len(stack[o]) - 1
            /\ next[Top(o).node] = Nil /\ Top(o).curr = Nil

(* only a call that is about to delete a node has cut its `next`;           *)
OpenInv ==
  \A x \in alive \ Destroyed : next[x] # links[x] =>
    \E o \in Owners : \E i \in DOMAIN stack[o] : stack[o][i].pc = "move" /\ stack[o][i].curr = x

(* a link that was cut is carried by one call, and only the node behind the *)
(* erased one, which had two, by two (`had`: it was there at the start);    *)
Carries(k, o, i) ==
  IF \/ k = "curr" /\ stack[o][i].pc # "clear"
     \/ k = "next_curr" /\ stack[o][i].pc # "cut" THEN In(k, o, i) ELSE Nil

Carrying(k, o, i, x) ==
  /\ k \in {"curr", "next_curr"} /\ o \in Owners /\ i \in DOMAIN stack[o]
  /\ Carries(k, o, i) = x /\ x # Nil

IsCut(y, x) == links[y] = x /\ next[y] # x

TokenInv(had) ==
  /\ Grave \in alive => had
  /\ \A k, l \in {"curr", "next_curr"}, o, u \in Owners, x \in Nodes :
       \A i \in DOMAIN stack[o], j \in DOMAIN stack[u] :
         /\ Carrying(k, o, i, x) => x \in 2 .. Chain /\ (IsCut(x - 1, x) \/ (had /\ IsCut(Grave, x)))
         /\ Carrying(k, o, i, x) /\ Carrying(l, u, j, x) /\ <<k, o, i>> # <<l, u, j>> =>
              had /\ IsCut(Grave, x) /\ IsCut(x - 1, x)

(* and a call within a call takes an iterator that gave up the reference    *)
(* for which the walk had stopped, or the erased node, which ends only once.*)
Depth(o) ==
  IF stack[o] = <<>> THEN 0
  ELSE IF Len(stack[o]) >= 2 /\ stack[o][Len(stack[o]) - 1].pc = "test"
  THEN Len(stack[o]) - 2 ELSE Len(stack[o]) - 1

Passed(o) ==
  \E i \in 1 .. Len(stack[o]) - 1 :
    stack[o][i].pc = "free" /\ stack[o][i + 1].node = links[Grave]

Late(had, o) == had /\ Grave \notin alive \ Destroyed /\ ~Passed(o)

BudgetInv(had) ==
  \A o \in Owners :
    /\ Depth(o) <= given /\ (Late(had, o) => Depth(o) + 1 <= given)
    /\ At(o, "drop") /\ Top(o).curr # Nil /\ refs[Top(o).curr] = 1 =>
         /\ Depth(o) + 1 <= given
         /\ Late(had, o) /\ Top(o).curr # links[Grave] => Depth(o) + 2 <= given

ChainInv ==
  /\ TypeOK /\ CountsInv /\ DeadInv /\ LinksInv /\ CallsInv /\ OpenInv
  /\ \E had \in BOOLEAN : TokenInv(had) /\ BudgetInv(had)
=============================================================================
