---------------------------- MODULE ConcurrentSet ----------------------------
(***************************************************************************)
(* What a linearizable set of keys promises to threads that call insert,   *)
(* erase and contains.  A call that changes the set does so in one step.   *)
(* A call that does not may answer whatever was true of its key at some    *)
(* moment since it began: seen[t] collects these.                          *)
(***************************************************************************)
CONSTANTS Threads, Keys, None

VARIABLES
  set,          (* the keys                                                 *)
  state,        (* of each thread: idle, in a call, or decided and still to *)
                (* return                                                   *)
  op, key,      (* the call of t and its key, while it is in a call         *)
  seen,         (* whether the key was in the set, since the call began     *)
  decision      (* what the last step decided, and for whom                 *)

vars == <<set, state, op, key, seen, decision>>

Init ==
  /\ set = {}
  /\ state = [t \in Threads |-> "idle"]
  /\ seen = [t \in Threads |-> {}]
  /\ decision = None

(* Threads inside a call see the set change.                                *)
Watch ==
  seen' = [t \in Threads |->
             IF state'[t] = "idle" THEN {}
             ELSE (IF state[t] = "idle" THEN {} ELSE seen[t]) \cup {key'[t] \in set'}]

Call(t) ==
  /\ state[t] = "idle"
  /\ state' = [state EXCEPT ![t] = "called"]
  /\ \E o \in {"insert", "erase", "contains"}, k \in Keys :
       op' = [op EXCEPT ![t] = o] /\ key' = [key EXCEPT ![t] = k]
  /\ decision' = None
  /\ UNCHANGED set

(* A call decides, and returns now or later.                                *)
Decide(t, a) ==
  /\ state[t] = "called"
  /\ decision' = <<t, a>>
  /\ \/ state' = [state EXCEPT ![t] = "decided"] /\ UNCHANGED <<op, key>>
     \/ state' = [state EXCEPT ![t] = "idle"]
          /\ \A u \in Threads \ {t} : op'[u] = op[u] /\ key'[u] = key[u]

Insert(t) == op[t] = "insert" /\ key[t] \notin set /\ set' = set \cup {key[t]} /\ Decide(t, TRUE)

Erase(t) == op[t] = "erase" /\ key[t] \in set /\ set' = set \ {key[t]} /\ Decide(t, TRUE)

Report(t) ==
  /\ \E a \in BOOLEAN :
       /\ Decide(t, a)
       /\ \/ op[t] = "contains" /\ a \in seen[t]
          \/ op[t] = "insert" /\ ~a /\ TRUE \in seen[t]
          \/ op[t] = "erase" /\ ~a /\ FALSE \in seen[t]
  /\ UNCHANGED set

Return(t) ==
  /\ state[t] = "decided"
  /\ state' = [state EXCEPT ![t] = "idle"]
  /\ \A u \in Threads \ {t} : op'[u] = op[u] /\ key'[u] = key[u]
  /\ decision' = None
  /\ UNCHANGED set

(* A step that decides nothing                                              *)
Pass == decision' = None /\ UNCHANGED <<set, state, op, key>>

Next ==
  /\ \/ \E t \in Threads : Call(t) \/ Insert(t) \/ Erase(t) \/ Report(t) \/ Return(t)
     \/ Pass
  /\ Watch

Spec == Init /\ [][Next]_vars
=============================================================================
