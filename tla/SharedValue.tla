----------------------------- MODULE SharedValue -----------------------------
(***************************************************************************)
(* The benchmarks of Chapters 05 to 07 whose threads count, or look for a  *)
(* maximum, in a value that they share or own, and the ways in which they  *)
(* protect it: atomic increments, compare-and-swap loops, std::mutex, the  *)
(* spinlocks, the pointer lock and double-checked locking.                 *)
(*                                                                         *)
(* One action per access of shared memory.  Each benchmark is a record: a  *)
(* file is the set of its benchmarks.  The harness (Google Benchmark) is   *)
(* external: all threads pass a barrier before the loop and one after it.  *)
(* Back-off, pinning, repetition by macro and per-thread work only cost    *)
(* time, and are left out.                                                 *)
(***************************************************************************)
EXTENDS Integers, FiniteSets, FiniteSetsExt

CONSTANTS
  Count,       (* number of threads, with the indices 0 .. Count - 1       *)
  Laps,        (* iterations of the benchmark loop                         *)
  Bases,       (* what a value may be before                               *)
  Offers,      (* numbers that a generator yields                          *)
  None

SharedValueAssumption ==
  /\ Count \in Nat \ {0} /\ Laps \in Nat \ {0}
  /\ Bases \subseteq Nat /\ Offers \subseteq Nat

Threads == 0 .. Count - 1

Incr(how)   == [what |-> "incr", how |-> how, where |-> "one", reset |-> FALSE, sum |-> FALSE]
Cleared(b)  == [b EXCEPT !.reset = TRUE]
Own(b)      == [b EXCEPT !.where = "own"]
PerNode(b)  == [b EXCEPT !.where = "node"]
Summed(b)   == [Own(b) EXCEPT !.sum = TRUE]
Largest(w, how) == [Cleared(Incr(how)) EXCEPT !.what = w]

(* Chapter05: the increments are not protected in 03, as the book intends.  *)
Racing == Incr("plain")
shared_increment  == {Cleared(Own(Racing)), Racing}
mutex             == {Incr("mutex")}
atomic_one        == {Incr("atomic")}
atomic_each       == {Own(Incr("atomic"))}
atomic_local      == {Cleared(Own(Incr("atomic")))}
false_sharing     == {Cleared(Summed(Racing))}
no_sharing        == {Cleared(Summed(Racing))}
no_sharing_local  == {Cleared(Summed(Racing))}
barrier_incr_numa == {Incr("atomic")}
barrier_incr_many == {Incr("atomic")}
barrier_incr_two  == {Incr("atomic")}
numa_counter      == {Incr("atomic"), PerNode(Incr("atomic"))}

(* Chapter06                                                                *)
shared_incr  == {Incr("atomic")} \cup {Cleared(Incr(h)) : h \in {"mutex", "cas", "weak cas"}}
spinlock     == {Incr("atomic")} \cup {Cleared(Incr(h)) : h \in {"mutex", "exchange lock", "lock"}}
overhead     == {Incr("atomic"), Incr("cas")} \cup {Cleared(Incr(h)) : h \in {"mutex", "lock"}}
ptrlock      == {Incr("atomic"), Incr("lock")}
shared_index == {Incr("atomic")} \cup {Cleared(Incr(h)) : h \in {"cas", "weak cas"}}
maximum      == {Largest(w, h) : w \in {"never", "grow"}, h \in {"cas", "lock", "dclp"}}

(* Chapter07 (the per-thread counts are added under a mutex)                *)
shared_count     == {Cleared(Incr("atomic"))}
per_thread_count == {Cleared(Incr("mutex"))}

Benchmarks ==
  shared_increment \cup mutex \cup atomic_one \cup atomic_each \cup atomic_local
  \cup false_sharing \cup no_sharing \cup no_sharing_local
  \cup barrier_incr_numa \cup barrier_incr_many \cup barrier_incr_two \cup numa_counter
  \cup shared_incr \cup spinlock \cup overhead \cup ptrlock \cup shared_index \cup maximum
  \cup shared_count \cup per_thread_count

-----------------------------------------------------------------------------
VARIABLES
  bench,       (* the benchmark                                            *)
  base,        (* what its values are at first                             *)
  cell,        (* the values, by the thread that owns them (0: shared)     *)
  sum,         (* the sum over threads, where there is one                 *)
  holder,      (* who has the lock                                         *)
  pc, laps,    (* where each thread is, and its finished iterations        *)
  seen,        (* what it has loaded                                       *)
  n            (* what it offers as a maximum                              *)

vars == <<bench, base, cell, sum, holder, pc, laps, seen, n>>

(* The value that thread t works on: nodes are numbered by thread.          *)
Place(t) ==
  IF bench.where = "own" THEN t
  ELSE IF bench.where = "node" /\ t % 2 # 0 THEN 1 ELSE 0

Init ==
  /\ bench \in Benchmarks
  /\ base \in Bases
  /\ cell = [t \in Threads |-> base] /\ sum = base
  /\ holder = None
  /\ pc = [t \in Threads |-> "setup"] /\ laps = [t \in Threads |-> 0]
  /\ seen = [t \in Threads |-> 0]
  /\ n \in IF bench.what = "never" THEN [Threads -> Offers]
           ELSE {[t \in Threads |-> IF bench.what = "grow" THEN t ELSE 0]}

Goto(t, l) == pc' = [pc EXCEPT ![t] = l]

Setup(t) ==
  /\ pc[t] = "setup"
  /\ cell' = IF bench.reset /\ (bench.where = "own" \/ t = 0)
             THEN [cell EXCEPT ![t] = 0] ELSE cell
  /\ Goto(t, "ready")
  /\ UNCHANGED <<bench, base, sum, holder, laps, seen, n>>

Entry ==
  CASE bench.how = "plain"                         -> "read"
    [] bench.how = "atomic"                        -> "add"
    [] bench.how \in {"cas", "weak cas", "dclp"}   -> "load"
    [] bench.how = "mutex"                         -> "acquire"
    [] bench.how = "exchange lock"                 -> "exchange"
    [] bench.how = "lock"                          -> "test"

Begin(t) ==
  /\ pc[t] = "ready" /\ \A u \in Threads : pc[u] # "setup"
  /\ n' = IF bench.what = "grow" THEN [n EXCEPT ![t] = @ + Count] ELSE n
  /\ Goto(t, Entry)
  /\ UNCHANGED <<bench, base, cell, sum, holder, laps, seen>>

EndLap(t) ==
  /\ laps' = [laps EXCEPT ![t] = @ + 1]
  /\ Goto(t, IF laps[t] + 1 = Laps THEN "stopped" ELSE "ready")

(* What a thread that saw v stores, and whether it stores at all            *)
Result(t, v)  == IF bench.what = "incr" THEN v + 1 ELSE n[t]
Improves(t, v) == bench.what = "incr" \/ n[t] > v

Put(t, v) == cell' = [cell EXCEPT ![Place(t)] = v]

Add(t) ==
  /\ pc[t] = "add"
  /\ Put(t, cell[Place(t)] + 1)
  /\ EndLap(t)
  /\ UNCHANGED <<bench, base, sum, holder, seen, n>>

(* The load before a CAS, and the first check of double-checked locking     *)
Load(t) ==
  /\ pc[t] = "load"
  /\ seen' = [seen EXCEPT ![t] = cell[Place(t)]]
  /\ \/ ~Improves(t, cell[Place(t)]) /\ EndLap(t)
     \/ /\ Improves(t, cell[Place(t)])
        /\ Goto(t, IF bench.how = "dclp" THEN "test" ELSE "cas")
        /\ UNCHANGED laps
  /\ UNCHANGED <<bench, base, cell, sum, holder, n>>

CasOk(t) ==
  /\ pc[t] = "cas" /\ cell[Place(t)] = seen[t]
  /\ Put(t, Result(t, seen[t]))
  /\ EndLap(t)
  /\ UNCHANGED <<bench, base, sum, holder, seen, n>>

(* A failure loads the value, and a weak one needs no reason.               *)
CasFails(t) ==
  /\ pc[t] = "cas" /\ (cell[Place(t)] # seen[t] \/ bench.how = "weak cas")
  /\ seen' = [seen EXCEPT ![t] = cell[Place(t)]]
  /\ \/ ~Improves(t, cell[Place(t)]) /\ EndLap(t)
     \/ Improves(t, cell[Place(t)]) /\ Goto(t, "cas") /\ UNCHANGED laps
  /\ UNCHANGED <<bench, base, cell, sum, holder, n>>

-----------------------------------------------------------------------------
Take(t) == holder = None /\ holder' = t /\ Goto(t, "read")

Acquire(t) ==
  /\ pc[t] = "acquire" /\ Take(t)
  /\ UNCHANGED <<bench, base, cell, sum, laps, seen, n>>

(* flag_.load() (of the pointer lock: p_.load()), which leaves the loop     *)
(* when the lock is free,                                                   *)
Test(t) ==
  /\ pc[t] = "test" /\ holder = None
  /\ Goto(t, "exchange")
  /\ UNCHANGED <<bench, base, cell, sum, holder, laps, seen, n>>

(* and flag_.exchange()                                                     *)
Exchange(t) ==
  /\ pc[t] = "exchange"
  /\ \/ Take(t)
     \/ /\ holder # None /\ UNCHANGED holder
        /\ Goto(t, IF bench.how = "exchange lock" THEN "exchange" ELSE "test")
  /\ UNCHANGED <<bench, base, cell, sum, laps, seen, n>>

Locking == bench.how \notin {"plain", "atomic", "cas", "weak cas"}

(* The value is read, compared if it is a maximum,                          *)
Read(t) ==
  /\ pc[t] = "read"
  /\ seen' = [seen EXCEPT ![t] = cell[Place(t)]]
  /\ Goto(t, IF Improves(t, cell[Place(t)]) THEN "write" ELSE "release")
  /\ UNCHANGED <<bench, base, cell, sum, holder, laps, n>>

(* and stored.                                                              *)
Write(t) ==
  /\ pc[t] = "write"
  /\ Put(t, Result(t, seen[t]))
  /\ IF Locking THEN Goto(t, "release") /\ UNCHANGED laps ELSE EndLap(t)
  /\ UNCHANGED <<bench, base, sum, holder, seen, n>>

Release(t) ==
  /\ pc[t] = "release"
  /\ holder' = None
  /\ EndLap(t)
  /\ UNCHANGED <<bench, base, cell, sum, seen, n>>

(* After the loop                                                           *)
Finish(t) ==
  /\ pc[t] = "stopped" /\ \A u \in Threads : pc[u] \in {"stopped", "done"}
  /\ sum' = IF bench.sum THEN sum + cell[t] ELSE sum
  /\ Goto(t, "done")
  /\ UNCHANGED <<bench, base, cell, holder, laps, seen, n>>

-----------------------------------------------------------------------------
Thread(t) ==
  \/ Setup(t) \/ Begin(t) \/ Add(t) \/ Load(t) \/ CasOk(t) \/ CasFails(t)
  \/ Acquire(t) \/ Test(t) \/ Exchange(t) \/ Read(t) \/ Write(t) \/ Release(t)
  \/ Finish(t)

Next == \E t \in Threads : Thread(t)

Spec == Init /\ [][Next]_vars

(* Every thread is scheduled, and a lock or a CAS that others keep winning  *)
(* is won in the end: they run a bounded number of laps.                    *)
Fairness == \A t \in Threads : WF_vars(Thread(t)) /\ WF_vars(CasOk(t))

-----------------------------------------------------------------------------
TypeOK ==
  /\ bench \in Benchmarks /\ base \in Bases
  /\ cell \in [Threads -> Nat] /\ sum \in Nat
  /\ holder \in Threads \cup {None}
  /\ pc \in [Threads -> {"setup", "ready", "add", "load", "cas", "acquire", "test",
                         "exchange", "read", "write", "release", "stopped", "done"}]
  /\ laps \in [Threads -> 0 .. Laps]
  /\ seen \in [Threads -> Nat] /\ n \in [Threads -> Nat]

Racy == bench = Racing

(* No two threads access a plain value at the same time, and one of them to *)
(* write it, except where the book shows what comes of it.                  *)
NoRace ==
  \A t, u \in Threads :
    t # u /\ pc[t] = "write" /\ pc[u] \in {"read", "write"} /\ Place(t) = Place(u) => Racy

First == IF bench.reset THEN 0 ELSE base

(* When all threads are done, no increment is lost and the maximum is that  *)
(* of all offers, whatever protects the value.                              *)
Exact ==
  (\A t \in Threads : pc[t] = "done") =>
    CASE bench.what # "incr" ->
           cell[0] = Max({0} \cup {n[t] : t \in Threads})
      [] bench.sum -> sum = base + Count * Laps
      [] bench.where = "own" -> \A t \in Threads : cell[t] = First + Laps
      [] bench.where = "node" -> cell[0] + cell[1] = 2 * First + Count * Laps
      [] OTHER -> Racy \/ cell[0] = First + Count * Laps

ValuesAreExact == NoRace /\ Exact

(* Every thread has done its laps, whatever exchanges failed.               *)
Over == \A t \in Threads : pc[t] = "done"
=============================================================================
