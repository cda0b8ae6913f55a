------------------------------ MODULE NodeList -------------------------------
(***************************************************************************)
(* What a linearizable list promises to threads that insert and erase      *)
(* after an anchor: each call that returns true changes the list in one    *)
(* step, and a call returns false only when, at a moment of the call, its  *)
(* anchor is not in the list or (an erase) has nothing after it.           *)
(***************************************************************************)
EXTENDS Sequences, SequencesExt

CONSTANTS Threads, First, None

VARIABLES
  list,         (* the nodes, the dummy head first                          *)
  op,           (* the call of each thread                                  *)
  anchor, node, (* its arguments                                            *)
  decision      (* what the last step decided, and for whom                 *)

vars == <<list, op, anchor, node, decision>>

Init ==
  /\ list = <<First>>
  /\ op = [t \in Threads |-> "none"]
  /\ decision = None

In(a) == a \in ToSet(list)

Position(a) == CHOOSE i \in DOMAIN list : list[i] = a

Decide(t, answer) == decision' = <<t, answer>>

Insert(t) ==
  /\ op[t] = "insert" /\ In(anchor[t]) /\ ~In(node[t])
  /\ list' = InsertAt(list, Position(anchor[t]) + 1, node[t])
  /\ Decide(t, TRUE)

(* The node that goes follows the anchor, if that is still there.           *)
Erase(t) ==
  /\ op[t] = "erase"
  /\ \E i \in 2 .. Len(list) :
       /\ In(anchor[t]) => Position(anchor[t]) < i
       /\ list' = RemoveAt(list, i)
  /\ Decide(t, TRUE)

Refuse(t) ==
  /\ op[t] # "none"
  /\ \/ ~In(anchor[t])
     \/ op[t] = "erase" /\ Position(anchor[t]) = Len(list)
  /\ Decide(t, FALSE)
  /\ UNCHANGED list

Pass == decision' = None /\ UNCHANGED list

Next == (\E t \in Threads : Insert(t) \/ Erase(t) \/ Refuse(t)) \/ Pass

Spec == Init /\ [][Next]_vars
=============================================================================
