------------------------------ MODULE MCPrograms ------------------------------
(***************************************************************************)
(* One instance for TLC of fourteen small modules: the tests, benchmarks   *)
(* and examples that are programs of their own, and what the end of a      *)
(* LockFreeList does.  `which` is the one that a behavior is of; v1, v2,   *)
(* ... hold its variables, in the order of its declaration, and those it   *)
(* does not need are None.                                                 *)
(***************************************************************************)
EXTENDS Integers

CONSTANTS
  None,
  N, Chunk, Threshold, MaxThreads,   (* of WorkStealing                    *)
  Chain, Iterators, TheList          (* of NodeChain                       *)

VARIABLES which, v1, v2, v3, v4, v5, v6, v7, v8, v9, v10, v11, v12, v13, v14, v15

all == <<which, v1, v2, v3, v4, v5, v6, v7, v8, v9, v10, v11, v12, v13, v14, v15>>

S == INSTANCE WorkStealing WITH
  stealing <- v1, mutex <- v2, waiting <- v3, remaining <- v4, threads <- v5,
  finished <- v6, pc <- v7, range <- v8, runsOn <- v9, new <- v10,
  old <- v11, os <- v12, main <- v13, worked <- v14,
  N <- N, Chunk <- Chunk, Threshold <- Threshold, MaxThreads <- MaxThreads

V == INSTANCE SharedValue WITH
  bench <- v1, base <- v2, cell <- v3, sum <- v4, holder <- v5, pc <- v6,
  laps <- v7, seen <- v8, n <- v9,
  Count <- 2, Laps <- 2, Bases <- {0, 1}, Offers <- 0 .. 2

P == INSTANCE Publishing WITH
  class <- v1, p <- v2, q <- v3, holder <- v4, refs <- v5, ready <- v6,
  pc <- v7, calls <- v8, arg <- v9, seen <- v10, put <- v11, out <- v12,
  Publishers <- {"w1", "w2"}, Readers <- {"r1"}, Objects <- {"o1", "o2", "o3"}, Calls <- 2

W == INSTANCE Waits WITH
  prog <- v1, main <- v2, step <- v3, word <- v4, stop <- v5, handle <- v6,
  dead <- v7, scope <- v8, stale <- v9,
  MaxPrints <- 2,
  WaitPrograms <- {"thread", "jthread", "cancel", "wait", "latch", "semaphore", "hop"}

Q == INSTANCE QueueBenchmarks WITH
  driver <- v1, queue <- v2, q1 <- v3, q2 <- v4, latch <- v5, stop <- v6,
  boss <- v7, at <- v8, round <- v9, calls <- v10, hand <- v11, stats <- v12,
  total <- v13, rem <- v14,
  Workers <- 2, Slots <- 2, Batch <- 2, Warmup <- 1, Messages <- 3, MaxCalls <- 4

D == INSTANCE DequeBenchmarks WITH
  scenario <- v1, round <- v2, deque <- v3, size <- v4, wrote <- v5,
  arrived <- v6, passed <- v7, at <- v8, seen <- v9, stop <- v10,
  writer_done <- v11, mine <- v12, polls <- v13,
  Crew <- 2, Rounds <- 2, Pushes <- 2, MaxPolls <- 2

F == INSTANCE FixtureBenchmarks WITH
  fixture <- v1, thing <- v2, keys <- v3, next <- v4, erased <- v5,
  start_positions <- v6, at <- v7, left <- v8, op <- v9, tries <- v10,
  ok <- v11, it <- v12, anchor <- v13, cursor <- v14, sizes <- v15,
  Hands <- 2, Iterations <- 2, Prefill <- 2, Stride <- 2, InsertEvery <- 2,
  ListSize <- 3, Window <- 2

G == INSTANCE Generators WITH
  program <- v1, matrix <- v2, coro <- v3, object <- v4, yielded <- v5,
  printed <- v6, answered <- v7,
  Modulus <- 16, Rounds <- 10, Calls <- 13, Pad <- 2, Sizes <- {1, 2}

T == INSTANCE IndexTree WITH
  tree <- v1, guarded <- v2, data <- v3, idx <- v4, owner <- v5, at <- v6,
  arg <- v7, pos <- v8, finds <- v9, found <- v10,
  Users <- {"u1", "u2"}, Values <- {0, 1}, N <- 3, MaxFinds <- 1

B == INSTANCE Buffers WITH
  way <- v1, heap <- v2, written <- v3, at <- v4, lap <- v5, length <- v6,
  buf <- v7, old <- v8, size_ <- v9, pool <- v10, pieces <- v11,
  Runners <- {"r1", "r2"}, NMax <- 3, Laps <- 2, MaxRandom <- 3

H == INSTANCE Histogram WITH
  stats <- v1, samples <- v2, result <- v3, phase <- v4,
  Recorders <- {"r1", "r2"}, Latencies <- {0, 3, 5, 12, 31}, Samples <- 3,
  TickBits <- 5, kHistSubBits <- 2, kLatPercentiles <- {500, 900, 950, 990, 999}

Lp == INSTANCE Loops WITH
  suite <- v1, i <- v2, cond <- v3, acc <- v4, divisor <- v5,
  Word <- 16, RandMax <- 3, Numbers <- {1, 3}, Length <- 4, Unroll <- 2

C == INSTANCE Substrings WITH
  program <- v1, s <- v2, vs <- v3, at <- v4, pair <- v5, i <- v6,
  sorts <- v7, settled <- v8,
  L <- 4, N <- 3, Letters <- {1, 2}

K == INSTANCE NodeChain WITH
  next <- v1, refs <- v2, alive <- v3, hold <- v4, ahead <- v5, stack <- v6,
  links <- v7, given <- v8,
  Chain <- Chain, Iterators <- Iterators, TheList <- TheList

ASSUME ProgramAssumptions ==
  /\ S!WorkStealingAssumption /\ V!SharedValueAssumption /\ F!FixtureAssumption
  /\ G!GeneratorsAssumption /\ H!HistogramAssumption /\ Lp!LoopsAssumption
  /\ C!SubstringsAssumption /\ K!NodeChainAssumption

-----------------------------------------------------------------------------
(* what a program of k variables does not need                              *)
No14 == v15 = None
No13 == v14 = None /\ No14
No12 == v13 = None /\ No13
No11 == v12 = None /\ No12
No10 == v11 = None /\ No11
No9  == v10 = None /\ No10
No8  == v9  = None /\ No9
No7  == v8  = None /\ No8
No6  == v7  = None /\ No7
No5  == v6  = None /\ No6
No4  == v5  = None /\ No5

Rest14 == <<which, v15>>
Rest13 == <<v14, Rest14>>
Rest12 == <<v13, Rest13>>
Rest11 == <<v12, Rest12>>
Rest10 == <<v11, Rest11>>
Rest9  == <<v10, Rest10>>
Rest8  == <<v9, Rest9>>
Rest7  == <<v8, Rest8>>
Rest6  == <<v7, Rest7>>
Rest5  == <<v6, Rest6>>
Rest4  == <<v5, Rest5>>

ProgramsInit ==
  \/ which = "steal" /\ S!Init /\ No14
  \/ which = "shared" /\ V!Init /\ No9
  \/ which = "publishing" /\ P!Init /\ No12
  \/ which = "waits" /\ W!Init /\ No9
  \/ which = "queue" /\ Q!Init /\ No14
  \/ which = "deque" /\ D!Init /\ No13
  \/ which = "fixture" /\ F!Init
  \/ which = "generator" /\ G!Init /\ No7
  \/ which = "tree" /\ T!Init /\ No10
  \/ which = "buffer" /\ B!Init /\ No11
  \/ which = "histogram" /\ H!Init /\ No4
  \/ which = "loop" /\ Lp!Init /\ No5
  \/ which = "substring" /\ C!Init /\ No8
  \/ which = "chain" /\ K!Init /\ No8

ProgramsNext ==
  \/ which = "steal" /\ S!Next /\ UNCHANGED Rest14
  \/ which = "shared" /\ V!Next /\ UNCHANGED Rest9
  \/ which = "publishing" /\ P!Next /\ UNCHANGED Rest12
  \/ which = "waits" /\ W!Next /\ UNCHANGED Rest9
  \/ which = "queue" /\ Q!Next /\ UNCHANGED Rest14
  \/ which = "deque" /\ D!Next /\ UNCHANGED Rest13
  \/ which = "fixture" /\ F!Next /\ UNCHANGED which
  \/ which = "generator" /\ G!Next /\ UNCHANGED Rest7
  \/ which = "tree" /\ T!Next /\ UNCHANGED Rest10
  \/ which = "buffer" /\ B!Next /\ UNCHANGED Rest11
  \/ which = "histogram" /\ H!Next /\ UNCHANGED Rest4
  \/ which = "loop" /\ Lp!Next /\ UNCHANGED Rest5
  \/ which = "substring" /\ C!Next /\ UNCHANGED Rest8
  \/ which = "chain" /\ K!Next /\ UNCHANGED Rest8

ProgramsSpec == ProgramsInit /\ [][ProgramsNext]_all

(* The threads of the programs are scheduled, as their modules say; the     *)
(* sequential programs need no more than to be run.                         *)
FairProgramsSpec ==
  /\ ProgramsSpec
  /\ \A i \in S!Workers : WF_all(which = "steal" /\ S!Worker(i) /\ UNCHANGED Rest14)
  /\ \A k \in S!OsThreads : WF_all(which = "steal" /\ S!ThreadEnds(k) /\ UNCHANGED Rest14)
  /\ WF_all(which = "steal" /\ S!Main /\ UNCHANGED Rest14)
  /\ \A t \in V!Threads :
       /\ WF_all(which = "shared" /\ V!Thread(t) /\ UNCHANGED Rest9)
       /\ WF_all(which = "shared" /\ V!CasOk(t) /\ UNCHANGED Rest9)
  /\ WF_all(which = "waits" /\ W!Main /\ UNCHANGED Rest9)
  /\ WF_all(which = "waits" /\ W!Hops /\ UNCHANGED Rest9)
  /\ \A t \in 1 .. 5 :
       WF_all(which = "waits" /\ t \in DOMAIN v3 /\ W!Thread(t) /\ UNCHANGED Rest9)
  /\ WF_all(which = "queue" /\ Q!Boss /\ UNCHANGED Rest14)
  /\ \A t \in Q!Team : WF_all(which = "queue" /\ Q!Worker(t) /\ UNCHANGED Rest14)
  /\ WF_all(which = "deque" /\ D!BenchmarkThread /\ UNCHANGED Rest13)
  /\ \A t \in D!Threads : WF_all(which = "deque" /\ D!Thread(t) /\ UNCHANGED Rest13)
  /\ \A t \in F!Threads : WF_all(which = "fixture" /\ F!Thread(t) /\ UNCHANGED which)
  /\ WF_all(which = "substring" /\ C!Next /\ UNCHANGED Rest8)
  /\ \A o \in K!Owners : WF_all(which = "chain" /\ K!Owner(o) /\ UNCHANGED Rest8)

-----------------------------------------------------------------------------
(* The types of the state of each program, and that the bound on threads of *)
(* WorkStealing never binds                                                 *)
ProgramTypesOK ==
  CASE which = "steal" -> S!TypeOK /\ S!EnoughThreads
    [] which = "shared" -> V!TypeOK
    [] which = "publishing" -> P!TypeOK
    [] which = "waits" -> W!TypeOK
    [] which = "queue" -> Q!TypeOK
    [] which = "deque" -> D!TypeOK
    [] which = "fixture" -> F!TypeOK
    [] which = "generator" -> G!GeneratorsTypeOK
    [] which = "tree" -> T!IndexTreeTypeOK
    [] which = "buffer" -> B!BuffersTypeOK
    [] which = "histogram" -> H!HistogramTypeOK
    [] which = "loop" -> Lp!LoopsTypeOK
    [] which = "substring" -> C!SubstringsTypeOK
    [] which = "chain" -> K!TypeOK

(* Work stealing: each item is worked on at most once, a coroutine is       *)
(* resumed only when it is suspended and on one thread at a time, and when  *)
(* both are out of work both are woken.                                     *)
StealingIsSafe ==
  which = "steal" =>
    S!EachItemOnce /\ S!ResumedOnce /\ S!LastTwoLeaveTogether

(* Threads that share a value, publish an object or wait for one another:   *)
(* no update is lost, and an object is replaced once.  A reader meets       *)
(* complete data; what get() of a counted class gave it is not deleted      *)
(* while it reads, and what operator* gave it may be, once it was replaced. *)
(* No thread uses a local of main that has gone, but for t2 of              *)
(* 17_coroutines_change_threads.C, which may be assigned then.              *)
SharingIsSafe ==
  /\ which = "shared" => V!ValuesAreExact
  /\ which = "publishing" => P!ReadersAreSafe /\ P!ReplacedOnce
  /\ which = "waits" => W!LocalsOutliveThreads

(* ~Node() frees no node that is referred to and takes apart no chain that  *)
(* an iterator may still walk.                                              *)
ChainsAreDismantled == which = "chain" => K!ChainsAreDismantled

(* The benchmarks measure what they say: a container is made before its     *)
(* threads use it and destroyed after, rounds do not run into each other,   *)
(* and what is counted is what happened.                                    *)
BenchmarksAreSound ==
  /\ which = "queue" => Q!QueueRunsAreSound
  /\ which = "deque" => D!RoundsStayApart
  /\ which = "fixture" => F!FixturesAreSound

(* The sequential programs, and the index trees with two users, compute     *)
(* what their simpler versions compute, at every step.                      *)
AlgorithmsAgree ==
  [][/\ which = "generator" => (G!GeneratorsAreSound)'
     /\ which = "tree" => (T!IndexTreesAreSound)' /\ T!AnswersAreRight
     /\ which = "buffer" => (B!BuffersAreSound)' /\ B!GrowingKeepsContents
     /\ which = "histogram" => (H!HistogramsAreSound)'
     /\ which = "loop" => (Lp!LoopsAgree)'
     /\ which = "substring" => (C!SubstringsAreSound)']_all

(* The threads of every program join, and the program ends; the substring   *)
(* sorts end, which an order of the substrings is needed for; every node of *)
(* a destroyed list is freed when the iterators are gone.                   *)
ProgramsEnd ==
  <>CASE which = "steal" -> S!Over
      [] which = "shared" -> V!Over
      [] which = "waits" -> W!Over
      [] which = "queue" -> Q!Over
      [] which = "deque" -> D!Over
      [] which = "fixture" -> F!Over
      [] which = "substring" -> v4 = "done"
      [] which = "chain" -> v3 = {}
      [] OTHER -> TRUE
=============================================================================
