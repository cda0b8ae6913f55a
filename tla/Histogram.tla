------------------------------- MODULE Histogram -------------------------------
(***************************************************************************)
(* The latency statistics of latbench_common.h: each thread records its    *)
(* latencies in a log-linear histogram of its own and keeps their number,  *)
(* sum, sum of squares and extremes; the main thread adds them up,         *)
(* interpolates percentiles and prints the histogram.                      *)
(*                                                                         *)
(* A Tick has TickBits bits, 64 in the code.  Numbers of type double are   *)
(* exact here: a percentile is a fraction <<numerator, denominator>>.      *)
(***************************************************************************)
EXTENDS Integers, Sequences, FiniteSets, FiniteSetsExt, Functions

CONSTANTS
  Recorders,     (* threads                                                *)
  Latencies,     (* the latencies they record                              *)
  Samples,       (* how many, in all (a bound of the model)                *)
  TickBits,
  kHistSubBits,
  kLatPercentiles  (* in tenths of a per cent                                *)

kHistSubs == 2 ^ kHistSubBits
kHistBuckets == TickBits * kHistSubs

HistogramAssumption ==
  /\ kHistSubBits \in Nat /\ TickBits \in Nat /\ kHistSubBits < TickBits
  /\ Latencies \subseteq 0 .. 2 ^ TickBits - 1
  /\ kLatPercentiles \subseteq 1 .. 1000

VARIABLES
  stats,      (* each thread's ThreadStats                                 *)
  samples,    (* all recorded latencies, in order                          *)
  result,     (* RunResult                                                 *)
  phase       (* record, reduced                                           *)

vars == <<stats, samples, result, phase>>

-----------------------------------------------------------------------------
(* the position of the highest bit                                          *)
Exponent(v) == CHOOSE e \in 0 .. TickBits - 1 : 2 ^ e <= v /\ v < 2 ^ (e + 1)

bucket_index(v) ==
  IF v < kHistSubs THEN v
  ELSE LET exp == Exponent(v)
           sub == (v \div 2 ^ (exp - kHistSubBits)) % kHistSubs
       IN (exp - kHistSubBits + 1) * kHistSubs + sub

BucketExponent(b) == b \div kHistSubs + kHistSubBits - 1

bucket_lower(b) ==
  IF b < kHistSubs THEN b
  ELSE (kHistSubs + (b % kHistSubs)) * 2 ^ (BucketExponent(b) - kHistSubBits)

bucket_width(b) == IF b < kHistSubs THEN 1 ELSE 2 ^ (BucketExponent(b) - kHistSubBits)

Buckets == 0 .. kHistBuckets - 1
MaxTick == 2 ^ TickBits - 1

NoStats == [lat_count |-> 0, lat_sum |-> 0, lat_sumsq |-> 0,
            lat_min |-> MaxTick, lat_max |-> 0, hist |-> [b \in Buckets |-> 0]]

Init ==
  /\ stats = [t \in Recorders |-> NoStats]
  /\ samples = <<>>
  /\ result = NoStats
  /\ phase = "record"

Less(x, y) == IF x < y THEN x ELSE y
More(x, y) == IF x > y THEN x ELSE y

record_latency(t, lat) ==
  LET s == stats[t]
  IN stats' = [stats EXCEPT ![t] =
       [lat_count |-> s.lat_count + 1,
        lat_sum |-> s.lat_sum + lat, lat_sumsq |-> s.lat_sumsq + lat * lat,
        lat_min |-> Less(lat, s.lat_min), lat_max |-> More(lat, s.lat_max),
        hist |-> [s.hist EXCEPT ![bucket_index(lat)] = @ + 1]]]

Record(t) ==
  /\ phase = "record" /\ Len(samples) < Samples
  /\ \E lat \in Latencies :
       record_latency(t, lat) /\ samples' = Append(samples, lat)
  /\ UNCHANGED <<result, phase>>

reduce ==
  /\ phase = "record"
  /\ phase' = "reduced"
  /\ LET Total(f(_)) == MapThenSumSet(f, Recorders)
     IN result' =
          [lat_count |-> Total(LAMBDA t : stats[t].lat_count),
           lat_sum |-> Total(LAMBDA t : stats[t].lat_sum),
           lat_sumsq |-> Total(LAMBDA t : stats[t].lat_sumsq),
           lat_min |-> FoldFunction(LAMBDA x, m : Less(x, m), MaxTick,
                                    [t \in Recorders |-> stats[t].lat_min]),
           lat_max |-> FoldFunction(LAMBDA x, m : More(x, m), 0,
                                    [t \in Recorders |-> stats[t].lat_max]),
           hist |-> [b \in Buckets |-> Total(LAMBDA t : stats[t].hist[b])]]
  /\ UNCHANGED <<stats, samples>>

Next == (\E t \in Recorders : Record(t)) \/ reduce

Spec == Init /\ [][Next]_vars

-----------------------------------------------------------------------------
(* how many samples are in the buckets up to b                              *)
Cumulated(h, b) == MapThenSumSet(LAMBDA c : h[c], 0 .. b)

(* percentile_cycles(): the first bucket that reaches p per cent of the     *)
(* total, and how much of it is needed                                      *)
PercentileBucket(h, total, p) ==
  CHOOSE b \in Buckets :
    /\ h[b] > 0 /\ 1000 * Cumulated(h, b) >= p * total
    /\ \A c \in 0 .. b - 1 : h[c] = 0 \/ 1000 * Cumulated(h, c) < p * total

percentile_cycles(h, total, p) ==
  LET b == PercentileBucket(h, total, p)
      scale == 1000 * h[b]
  IN IF total = 0 THEN <<0, 1>>
     ELSE <<bucket_lower(b) * scale
              + (p * total - 1000 * (Cumulated(h, b) - h[b])) * bucket_width(b), scale>>

AtMost(x, y) == x[1] * y[2] <= y[1] * x[2]

(* dump_histogram(): the bars are scaled to the fullest bucket              *)
kBarWidth == 40
BarLength(h, b) ==
  LET max_cnt == CHOOSE m \in {h[c] : c \in Buckets} : \A c \in Buckets : h[c] <= m
  IN (kBarWidth * h[b]) \div max_cnt

(* print_row(): the variance, times the square of the number of samples     *)
Variance(r) == r.lat_count * r.lat_sumsq - r.lat_sum * r.lat_sum

-----------------------------------------------------------------------------
(* The buckets follow each other without a gap or an overlap, every Tick    *)
(* falls into the bucket that contains it, and the greatest one is inside   *)
(* the array.                                                               *)
BucketsTile ==
  \A v \in 0 .. MaxTick :
    LET b == bucket_index(v)
    IN /\ b \in Buckets
       /\ bucket_lower(b) <= v /\ v < bucket_lower(b) + bucket_width(b)
       /\ bucket_lower(b + 1) = bucket_lower(b) + bucket_width(b)

Values == {samples[k] : k \in DOMAIN samples}
CountOf(P(_)) == Cardinality({k \in DOMAIN samples : P(samples[k])})

(* Nothing is lost between the threads' statistics and the result: it is    *)
(* what one thread would have recorded.                                     *)
ReductionIsExact ==
  phase = "reduced" =>
    /\ result.lat_count = Len(samples)
    /\ \A b \in Buckets : result.hist[b] = CountOf(LAMBDA v : bucket_index(v) = b)
    /\ samples # <<>> =>
         /\ result.lat_min \in Values /\ result.lat_max \in Values
         /\ \A v \in Values : result.lat_min <= v /\ v <= result.lat_max

(* A percentile lies in a bucket with samples, and that many of the samples *)
(* are below the bucket's end and not more are below its beginning;         *)
(* a greater percentile is never a smaller number, and all of them are      *)
(* within the buckets of the extremes.                                      *)
PercentilesAreRight ==
  phase = "reduced" /\ samples # <<>> =>
    LET h == result.hist
        n == result.lat_count
    IN \A p \in kLatPercentiles :
         LET b == PercentileBucket(h, n, p)
         IN /\ 1000 * CountOf(LAMBDA v : v < bucket_lower(b) + bucket_width(b)) >= p * n
            /\ 1000 * CountOf(LAMBDA v : v < bucket_lower(b)) < p * n
            /\ \A q \in kLatPercentiles :
                 p <= q => AtMost(percentile_cycles(h, n, p), percentile_cycles(h, n, q))
            /\ AtMost(<<bucket_lower(bucket_index(result.lat_min)), 1>>, percentile_cycles(h, n, p))
            /\ AtMost(percentile_cycles(h, n, p),
                      <<bucket_lower(bucket_index(result.lat_max) + 1), 1>>)

(* The printed histogram accounts for all samples, its bars fit, and the    *)
(* variance is negative only by rounding.                                   *)
RowsAreRight ==
  phase = "reduced" /\ samples # <<>> =>
    /\ Cumulated(result.hist, kHistBuckets - 1) = result.lat_count
    /\ \A b \in Buckets : BarLength(result.hist, b) \in 0 .. kBarWidth
    /\ \E b \in Buckets : BarLength(result.hist, b) = kBarWidth
    /\ Variance(result) >= 0

HistogramsAreSound == BucketsTile /\ ReductionIsExact /\ PercentilesAreRight /\ RowsAreRight

HistogramTypeOK ==
  /\ phase \in {"record", "reduced"}
  /\ \A t \in Recorders : \A b \in Buckets : stats[t].hist[b] \in 0 .. Samples
=============================================================================
