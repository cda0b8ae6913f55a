---------------------------- MODULE LockFreeList -----------------------------
(***************************************************************************)
(* LockFreeList of Chapter07/08_concurrent_list: a forward list whose      *)
(* nodes hold atomic shared pointers to their successors.  With a pointer  *)
(* that supports marking, a node is erased by a mark on its own next       *)
(* pointer and unlinked later, by whoever gets to it; without, it is only  *)
(* unlinked.                                                               *)
(*                                                                         *)
(* One action per access of a next pointer that other threads can reach.   *)
(* The pointers are as module AtomicSharedPtr shows them to be: each       *)
(* operation is one step, and a node that somebody refers to is not freed, *)
(* so that its address is not that of another.  Nodes are inserted once.   *)
(***************************************************************************)
EXTENDS Integers, FiniteSets, Sequences, SequencesExt

CONSTANTS
  Threads,
  Nodes,        (* the nodes that threads may insert                        *)
  Dummy,        (* the head of the list                                     *)
  Null,         (* nullptr                                                  *)
  None          (* no decision                                              *)

ASSUME LockFreeListAssumption ==
  /\ IsFiniteSet(Nodes)
  /\ Dummy \notin Nodes
  /\ Null \notin Nodes \cup {Dummy}
  /\ None \notin Threads \X BOOLEAN

VARIABLES
  marking,      (* AtomicPtr<Node>::supports_marking                        *)
  next,         (* the next pointer of each node, with its mark             *)
  fresh,        (* nodes that were not created yet                          *)
  pc, op,       (* where each thread is, and its call                       *)
  anchor, node, (* its arguments; anchor is its iterator between calls      *)
  expected,     (* expected_next of an insert, target of an erase           *)
  after,        (* target_next                                              *)
  decision      (* history: what the last step decided, and for whom        *)

locals == <<anchor, node, expected, after>>
vars   == <<marking, next, fresh, pc, op, locals, decision>>

All == Nodes \cup {Dummy}

To(n) == [to |-> n, mark |-> FALSE]

Marked(v) == [v EXCEPT !.mark = TRUE]

Unmarked(v) == [v EXCEPT !.mark = FALSE]

Init ==
  /\ marking \in BOOLEAN
  /\ next = [n \in All |-> To(Null)]
  /\ fresh = Nodes
  /\ pc = [t \in Threads |-> "idle"] /\ op = [t \in Threads |-> "none"]
  /\ anchor = [t \in Threads |-> Dummy]
  /\ node = [t \in Threads |-> Null]
  /\ expected = [t \in Threads |-> To(Null)] /\ after = [t \in Threads |-> To(Null)]
  /\ decision = None

-----------------------------------------------------------------------------
Goto(t, l) == pc' = [pc EXCEPT ![t] = l]

Undecided == decision' = None

Answer(t, a) ==
  /\ decision' = <<t, a>>
  /\ Goto(t, "idle")
  /\ op' = [op EXCEPT ![t] = "none"]
  /\ node' = [node EXCEPT ![t] = Null]
  /\ expected' = [expected EXCEPT ![t] = To(Null)]
  /\ after' = [after EXCEPT ![t] = To(Null)]
  /\ UNCHANGED anchor

(* before_begin(), and ++ which goes to the next node whether it is erased  *)
(* or not.                                                                  *)
Begin(t) ==
  /\ pc[t] = "idle" /\ anchor[t] # Dummy
  /\ anchor' = [anchor EXCEPT ![t] = Dummy]
  /\ Undecided
  /\ UNCHANGED <<marking, next, fresh, pc, op, node, expected, after>>

Advance(t) ==
  /\ pc[t] = "idle" /\ anchor[t] # Null
  /\ anchor' = [anchor EXCEPT ![t] = next[anchor[t]].to]
  /\ Undecided
  /\ UNCHANGED <<marking, next, fresh, pc, op, node, expected, after>>

(* Calls are made at any node that the iterator is at; without marks, at    *)
(* the head only (lines 304-310 say what goes wrong elsewhere).             *)
MayCall(t) == anchor[t] # Null /\ (marking \/ anchor[t] = Dummy)

CallInsert(t) ==
  /\ pc[t] = "idle" /\ MayCall(t)
  /\ \E n \in fresh : fresh' = fresh \ {n} /\ node' = [node EXCEPT ![t] = n]
  /\ op' = [op EXCEPT ![t] = "insert"] /\ Goto(t, "load")
  /\ Undecided
  /\ UNCHANGED <<marking, next, anchor, expected, after>>

CallErase(t) ==
  /\ pc[t] = "idle" /\ MayCall(t)
  /\ op' = [op EXCEPT ![t] = "erase"] /\ Goto(t, "load")
  /\ Undecided
  /\ UNCHANGED <<marking, next, fresh, locals>>

-----------------------------------------------------------------------------
(* insert_after()                                                           *)

(* The new node is reached by nobody yet: its store comes with the load.    *)
Prepare(t, v) ==
  /\ expected' = [expected EXCEPT ![t] = v]
  /\ next' = [next EXCEPT ![node[t]] = v]
  /\ Goto(t, "link")
  /\ Undecided
  /\ UNCHANGED <<op, anchor, node, after>>

InsertLoad_AnyAnchor(t) ==     \* mutant: the mark of the anchor is not checked
  /\ pc[t] = "load" /\ op[t] = "insert"
  /\ Prepare(t, next[anchor[t]])
  /\ UNCHANGED <<marking, fresh>>

InsertLoad(t) ==
  /\ pc[t] = "load" /\ op[t] = "insert"
  /\ \/ next[anchor[t]].mark /\ Answer(t, FALSE) /\ UNCHANGED next
     \/ ~next[anchor[t]].mark /\ Prepare(t, next[anchor[t]])
  /\ UNCHANGED <<marking, fresh>>

(* The CAS on anchor->next.  With marks a failure reloads it; without, it   *)
(* is the value that the CAS returned.                                      *)
Link(t) ==
  /\ pc[t] = "link"
  /\ \/ /\ next[anchor[t]] = expected[t]
        /\ next' = [next EXCEPT ![anchor[t]] = To(node[t])]
        /\ Answer(t, TRUE)
     \/ /\ next[anchor[t]] # expected[t] /\ marking
        /\ Goto(t, "load")
        /\ expected' = [expected EXCEPT ![t] = To(Null)]
        /\ Undecided /\ UNCHANGED <<next, op, anchor, node, after>>
     \/ next[anchor[t]] # expected[t] /\ ~marking /\ Prepare(t, next[anchor[t]])
  /\ UNCHANGED <<marking, fresh>>

-----------------------------------------------------------------------------
(* erase_after()                                                            *)

(* anchor->next was v: it is the target, unless there is none or the anchor *)
(* is erased.                                                               *)
Target(t, v) ==
  \/ (v.to = Null \/ v.mark) /\ Answer(t, FALSE)
  \/ /\ v.to # Null /\ ~v.mark
     /\ expected' = [expected EXCEPT ![t] = v]
     /\ after' = [after EXCEPT ![t] = To(Null)]
     /\ Goto(t, "target")
     /\ Undecided /\ UNCHANGED <<op, anchor, node>>

EraseLoad(t) ==
  /\ pc[t] = "load" /\ op[t] = "erase"
  /\ Target(t, next[anchor[t]])
  /\ UNCHANGED <<marking, next, fresh>>

(* The successor of the target                                              *)
LoadAfter(t) ==
  /\ pc[t] = "target"
  /\ LET v == next[expected[t].to] IN
       /\ after' = [after EXCEPT ![t] = v]
       /\ Goto(t, IF marking /\ ~v.mark THEN "mark" ELSE "unlink")
  /\ Undecided
  /\ UNCHANGED <<marking, next, fresh, op, anchor, node, expected>>

Mark_Store(t) ==               \* mutant: the mark is stored without a comparison
  /\ pc[t] = "mark"
  /\ LET n == expected[t].to IN
       /\ next' = [next EXCEPT ![n] = Marked(after[t])]
       /\ after' = [after EXCEPT ![t] = Marked(after[t])]
       /\ decision' = <<t, TRUE>>
       /\ op' = [op EXCEPT ![t] = "erased"]
       /\ Goto(t, "unlink")
  /\ UNCHANGED <<marking, fresh, anchor, node, expected>>

(* The CAS that marks the target, which erases it                           *)
Mark(t) ==
  /\ pc[t] = "mark"
  /\ LET n == expected[t].to IN
       \/ /\ next[n] = after[t]
          /\ next' = [next EXCEPT ![n] = Marked(@)]
          /\ after' = [after EXCEPT ![t] = Marked(@)]
          /\ decision' = <<t, TRUE>>
          /\ op' = [op EXCEPT ![t] = "erased"]
          /\ Goto(t, "unlink")
       \/ /\ next[n] # after[t]
          /\ after' = [after EXCEPT ![t] = next[n]]
          /\ Goto(t, IF next[n].mark THEN "unlink" ELSE "mark")
          /\ Undecided /\ UNCHANGED <<next, op>>
  /\ UNCHANGED <<marking, fresh, anchor, node, expected>>

(* The call is over; its answer was given by the mark.                      *)
Return(t) ==
  /\ Goto(t, "idle")
  /\ op' = [op EXCEPT ![t] = "none"]
  /\ expected' = [expected EXCEPT ![t] = To(Null)]
  /\ after' = [after EXCEPT ![t] = To(Null)]
  /\ Undecided

Unlink_NoHelp(t) ==            \* mutant: only the eraser of a node unlinks it
  /\ pc[t] = "unlink" /\ marking
  /\ next' = IF op[t] = "erased" /\ next[anchor[t]] = expected[t]
             THEN [next EXCEPT ![anchor[t]] = Unmarked(after[t])] ELSE next
  /\ \/ op[t] = "erased" /\ Return(t)
     \/ /\ op[t] = "erase" /\ Goto(t, "load")
        /\ expected' = [expected EXCEPT ![t] = To(Null)]
        /\ after' = [after EXCEPT ![t] = To(Null)]
        /\ Undecided /\ UNCHANGED op
  /\ UNCHANGED <<marking, fresh, anchor, node>>

Unlink_Clears(t) ==            \* mutant: an unlinked node forgets its successor
  /\ pc[t] = "unlink" /\ marking
  /\ next' = IF next[anchor[t]] = expected[t]
             THEN [next EXCEPT ![anchor[t]] = Unmarked(after[t]),
                               ![expected[t].to] = Marked(To(Null))]
             ELSE next
  /\ \/ op[t] = "erased" /\ Return(t)
     \/ /\ op[t] = "erase" /\ Goto(t, "load")
        /\ expected' = [expected EXCEPT ![t] = To(Null)]
        /\ after' = [after EXCEPT ![t] = To(Null)]
        /\ Undecided /\ UNCHANGED op
  /\ UNCHANGED <<marking, fresh, anchor, node>>

(* With marks: the CAS that unlinks the target, for its eraser or to help;  *)
(* it may fail, and a call that has only helped starts over.                *)
Unlink(t) ==
  /\ pc[t] = "unlink" /\ marking
  /\ next' = IF next[anchor[t]] = expected[t]
             THEN [next EXCEPT ![anchor[t]] = Unmarked(after[t])] ELSE next
  /\ \/ op[t] = "erased" /\ Return(t)
     \/ /\ op[t] = "erase" /\ Goto(t, "load")
        /\ expected' = [expected EXCEPT ![t] = To(Null)]
        /\ after' = [after EXCEPT ![t] = To(Null)]
        /\ Undecided /\ UNCHANGED op
  /\ UNCHANGED <<marking, fresh, anchor, node>>

(* Without marks: the CAS that erases the target                            *)
UnlinkPlain(t) ==
  /\ pc[t] = "unlink" /\ ~marking
  /\ \/ /\ next[anchor[t]] = expected[t]
        /\ next' = [next EXCEPT ![anchor[t]] = after[t]]
        /\ Answer(t, TRUE)
     \/ next[anchor[t]] # expected[t] /\ Target(t, next[anchor[t]]) /\ UNCHANGED next
  /\ UNCHANGED <<marking, fresh>>

-----------------------------------------------------------------------------
Call(t) == Begin(t) \/ Advance(t) \/ CallInsert(t) \/ CallErase(t)

Step(t) ==
  \/ InsertLoad(t) \/ Link(t)
  \/ EraseLoad(t) \/ LoadAfter(t) \/ Mark(t) \/ Unlink(t) \/ UnlinkPlain(t)

Next == \E t \in Threads : Call(t) \/ Step(t)

Spec == Init /\ [][Next]_vars

(* A thread inside a call is scheduled.                                     *)
FairSpec == Spec /\ \A t \in Threads : WF_vars(Step(t))

-----------------------------------------------------------------------------
Links == [to : Nodes \cup {Null}, mark : BOOLEAN]

TypeOK ==
  /\ marking \in BOOLEAN
  /\ next \in [All -> Links]
  /\ fresh \subseteq Nodes
  /\ pc \in [Threads -> {"idle", "load", "link", "target", "mark", "unlink"}]
  /\ op \in [Threads -> {"none", "insert", "erase", "erased"}]
  /\ anchor \in [Threads -> All \cup {Null}]
  /\ node \in [Threads -> Nodes \cup {Null}]
  /\ expected \in [Threads -> {l \in Links : ~l.mark}]
  /\ after \in [Threads -> Links]
  /\ decision \in (Threads \X BOOLEAN) \cup {None}

(* An iterator that goes from a node through the links nx, as many steps as *)
(* there are nodes: the nodes that it finds, which are not erased, and      *)
(* where it ends.                                                           *)
WalkIn(nx) ==
  LET from[k \in 0 .. Cardinality(All)] ==
        [n \in All \cup {Null} |->
           IF k = 0 \/ n = Null THEN [live |-> <<>>, end |-> n]
           ELSE LET rest == from[k - 1][nx[n].to] IN
                  [live |-> (IF nx[n].mark THEN <<>> ELSE <<n>>) \o rest.live,
                   end |-> rest.end]]
  IN  from[Cardinality(All)]

Live(n) == WalkIn(next)[n].live

InList == ToSet(Live(Dummy))

(* The nodes that the iterator of t is at or has still to come to           *)
Finds(t) == ToSet(Live(anchor[t]))

(* From wherever it is parked, an iterator comes to the end, and what it    *)
(* finds is the last part of the list in its order, behind nodes that were  *)
(* erased (with marks it can tell those, and they are not counted).         *)
FindsInOrder ==
  \A t \in Threads :
    LET found == Live(anchor[t]) IN
      /\ WalkIn(next)[anchor[t]].end = Null
      /\ \E k \in 0 .. Len(found) :
           /\ \A i \in 1 .. k : ~marking /\ found[i] \notin InList
           /\ IsSuffix(SubSeq(found, k + 1, Len(found)), Live(Dummy))

(* A node that an iterator would find is not lost to it while the node is   *)
(* in the list, whatever anybody does, the erasure and the unlinking of the *)
(* node that the iterator is at included: it goes only from the iterator    *)
(* that stands on it and moves on.                                          *)
NoneIsMissed ==
  \A t \in Threads : \A n \in Finds(t) :
    n \in InList' => n \in Finds(t)' \/ (n = anchor[t] /\ anchor'[t] # n)

(* An iterator that is parked on a node, erased or not, "can keep walking   *)
(* through the graveyard chain back into the live suffix" (lines 62-66 and  *)
(* 128-132): all the nodes that were live behind its node when that was     *)
(* erased, and still are, are found, in the order of the list, and the end. *)
IteratorsReachTheRest == []FindsInOrder /\ [][NoneIsMissed]_vars

(* The list implements the abstract one: no inserted node is lost, none     *)
(* comes back, and the answers are right.  Without marks this needs calls   *)
(* that are made at the head only (the comment at lines 304-310 says why).  *)
L == INSTANCE NodeList WITH
       list <- Live(Dummy), First <- Dummy,
       op <- [t \in Threads |-> IF op[t] = "erased" THEN "none" ELSE op[t]]

ImplementsList == L!Spec

(* Every call returns: it goes round only because another one got through.  *)
CallsReturn == \A t \in Threads : pc[t] # "idle" ~> pc[t] = "idle"
=============================================================================
