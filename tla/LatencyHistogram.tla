-------------------------- MODULE LatencyHistogram --------------------------
(***************************************************************************)
(* The HDR histogram of instrumentation.hpp: a value is counted in one of  *)
(* sub_bucket_count linear sub-buckets of its power-of-two bucket, and a   *)
(* percentile is read back by scanning the counts.  Both users, the book   *)
(* thread of run_pipeline() and the live consumer, record and take         *)
(* snapshots on the same thread, so each call is one step.                 *)
(*                                                                         *)
(* A machine word has Bits bits (64 in the code), and unit_magnitude_ is 0 *)
(* as init() sets it.  A percentile is given in hundredths of a percent.   *)
(***************************************************************************)
EXTENDS Integers, FiniteSetsExt, Functions

CONSTANTS Bits,         \* the width of std::uint64_t
          Shapes,       \* the constructor arguments <<highest_ns, sig_figs>> tried
          Inputs,       \* the values recorded, clamped or not
          Percentiles,  \* the percentiles asked for besides those of snapshot()
          MaxSamples    \* bound: records between two resets

ASSUME HistogramAssumption ==
  /\ Bits \in Nat \ {0} /\ MaxSamples \in Nat
  /\ Shapes \subseteq Nat \X Nat
  /\ Inputs \subseteq 0..(2^Bits - 1) /\ Percentiles \subseteq 0..10000

VARIABLES
  highest, sig,    \* the shape the constructor is given
  sub_bucket_half_count_magnitude, counts_len,   \* and what init() derives
  counts,          \* index -> how many values were counted there
  total_count, sum, min, max,
  report,          \* the last LatencySnapshot, or NoReport
  samples          \* history: clamped value -> times recorded since reset()

shape == <<highest, sig, sub_bucket_half_count_magnitude, counts_len>>
vars == <<shape, counts, total_count, sum, min, max, report, samples>>

MaxWord == 2^Bits - 1
Word == 0..MaxWord

-----------------------------------------------------------------------------
(* What init() derives from the shape.  buckets_needed() shifts until the  *)
(* first untrackable value exceeds `value`; where that shift would leave   *)
(* the word it returns one more, which is the same number.                 *)

ceil_log2(v) == Min({m \in 0..v : 2^m >= v})

HalfCountMagnitude == LET m == ceil_log2(2 * 10^sig) IN IF m > 1 THEN m - 1 ELSE 0
sub_bucket_count == 2^(sub_bucket_half_count_magnitude + 1)
sub_bucket_half_count == sub_bucket_count \div 2
sub_bucket_mask == sub_bucket_count - 1
leading_zero_count_base == Bits - (sub_bucket_half_count_magnitude + 1)

buckets_needed_strict(value) == \* a fault: the last power of two is left out
  Min({n \in 1..(Bits + 1) : sub_bucket_count * 2^(n - 1) >= value})
buckets_needed(value) ==
  Min({n \in 1..(Bits + 1) : sub_bucket_count * 2^(n - 1) > value})

CountsLen == (buckets_needed(highest) + 1) * (sub_bucket_count \div 2)

-----------------------------------------------------------------------------
(* From a value to its index and back.  The mask is all ones in its low    *)
(* bits, so `v | mask` replaces those bits of v.                           *)

OrMask(v) == v - (v % sub_bucket_count) + sub_bucket_mask
clz64(v) == Bits - Min({m \in 0..Bits : 2^m > v})

get_bucket_index(v) == leading_zero_count_base - clz64(OrMask(v))
get_sub_bucket_index(v, bi) == v \div 2^bi
counts_index(bi, sub) == (bi + 1) * 2^sub_bucket_half_count_magnitude
                           + (sub - sub_bucket_half_count)
counts_index_for(v) == LET bi == get_bucket_index(v)
                       IN counts_index(bi, get_sub_bucket_index(v, bi))

value_from_sub(bi, sub) == sub * 2^bi
value_from_index(index) ==
  LET bi == (index \div 2^sub_bucket_half_count_magnitude) - 1
      low == index % sub_bucket_half_count
  IN IF bi < 0 THEN value_from_sub(0, low)
               ELSE value_from_sub(bi, low + sub_bucket_half_count)

size_of_equivalent_range(v) == 2^get_bucket_index(v)
lowest_equivalent(v) == LET bi == get_bucket_index(v)
                        IN value_from_sub(bi, get_sub_bucket_index(v, bi))
highest_equivalent_open(v) == \* a fault: the first value of the next range
  lowest_equivalent(v) + size_of_equivalent_range(v)
highest_equivalent(v) == lowest_equivalent(v) + size_of_equivalent_range(v) - 1

-----------------------------------------------------------------------------
NoReport == [count |-> 0]

Empty == /\ counts' = [i \in 0..(counts_len - 1) |-> 0]
         /\ total_count' = 0 /\ sum' = 0 /\ min' = MaxWord /\ max' = 0
         /\ samples' = [v \in {} |-> 0]

Init == /\ \E s \in Shapes : /\ highest = IF s[1] < 2 THEN 2 ELSE s[1]
                             /\ sig = s[2]
        /\ sub_bucket_half_count_magnitude = HalfCountMagnitude
        /\ counts_len = CountsLen
        /\ counts = [i \in 0..(counts_len - 1) |-> 0]
        /\ total_count = 0 /\ sum = 0 /\ min = MaxWord /\ max = 0
        /\ report = NoReport /\ samples = [v \in {} |-> 0]

Clamp(v) == IF v < 1 THEN 1 ELSE IF v > highest THEN highest ELSE v

record(value_ns) ==
  /\ total_count < MaxSamples
  /\ LET v == Clamp(value_ns)
     IN /\ counts' = [counts EXCEPT ![counts_index_for(v)] = @ + 1]
        /\ sum' = (sum + v) % (MaxWord + 1)
        /\ min' = IF v < min THEN v ELSE min
        /\ max' = IF v > max THEN v ELSE max
        /\ samples' = [w \in DOMAIN samples \cup {v} |->
                         (IF w \in DOMAIN samples THEN samples[w] ELSE 0)
                           + (IF w = v THEN 1 ELSE 0)]
  /\ total_count' = total_count + 1
  /\ report' = NoReport
  /\ UNCHANGED shape

(* The rank ceil(p/100 * total).  p/100 is exact in a double for the       *)
(* quarters only; elsewhere a product that should be an integer may round  *)
(* to just above it, and ceil() then takes the next rank (`up`).           *)
MayRoundUp(p, total) == (p * total) % 10000 = 0 /\ p % 2500 # 0
Target(p, total, up) ==
  LET t == (p * total + 9999) \div 10000 + (IF up THEN 1 ELSE 0)
  IN IF t < 1 THEN 1 ELSE IF t > total THEN total ELSE t

(* The scan stops at the first index where the running count reaches the   *)
(* target, which is one with a count of its own.                           *)
Scan(target) ==
  LET used == {i \in DOMAIN counts : counts[i] > 0}
      Running(i) == SumFunctionOnSet(counts, {j \in used : j <= i})
      stops == {i \in used : Running(i) >= target}
  IN IF stops = {} THEN max ELSE highest_equivalent(value_from_index(Min(stops)))

value_at_percentile(p, up) ==
  IF total_count = 0 THEN 0 ELSE Scan(Target(p, total_count, up))

(* snapshot() with the five percentiles it asks for, and next to it those  *)
(* a caller asks for itself.  The mean is kept as its sum.                 *)
Asked == {5000, 9000, 9900, 9990, 9999} \cup Percentiles

snapshot ==
  /\ \E ups \in SUBSET {p \in Asked : MayRoundUp(p, total_count)} :
       report' = IF total_count = 0 THEN NoReport
                 ELSE [count |-> total_count, min_ns |-> min, max_ns |-> max, sum |-> sum,
                       pct |-> [p \in Asked |-> value_at_percentile(p, p \in ups)]]
  /\ UNCHANGED <<shape, counts, total_count, sum, min, max, samples>>

reset == /\ Empty /\ report' = NoReport /\ UNCHANGED shape

Next == (\E v \in Inputs : record(v)) \/ snapshot \/ reset

Spec == Init /\ [][Next]_vars

-----------------------------------------------------------------------------
TypeOK == /\ counts \in [0..(counts_len - 1) -> 0..MaxSamples]
          /\ total_count \in 0..MaxSamples
          /\ sum \in Word /\ min \in Word /\ max \in Word

(* No record is lost or counted at an index outside the array, whatever    *)
(* the shape: for each bucket, its count is the number of samples in the   *)
(* range of values that index stands for, up to the largest trackable one. *)
InBucket(i) == LET low == value_from_index(i)
               IN {v \in DOMAIN samples : low <= v /\ v <= highest_equivalent(low)}
CountsMatchSamples ==
  /\ TypeOK
  /\ \A v \in DOMAIN samples : counts_index_for(v) \in DOMAIN counts
  /\ total_count = SumFunction(samples)
  /\ \A i \in DOMAIN counts :
       counts[i] = SumFunctionOnSet(samples, InBucket(i))

(* The sample of rank r: the reference the percentiles are compared with.  *)
RankSample(r) ==
  Min({v \in DOMAIN samples :
         SumFunctionOnSet(samples, {w \in DOMAIN samples : w <= v}) >= r})

(* instrumentation.hpp:36-37: "constant relative error (here ~0.1% with 3  *)
(* significant figures)".  Each percentile of a snapshot is the sample of  *)
(* its nearest rank, or of the next one where the product falls on a rank, *)
(* rounded up by less than one part in 10^sig; count, min and max are      *)
(* exact, and the sum the mean is made of is, up to the size of its word.  *)
WithinError(x, v) == x >= v /\ (x - v) * 10^sig < v
SnapshotAccurate ==
  report # NoReport =>
    /\ report.count = SumFunction(samples)
    /\ report.min_ns = Min(DOMAIN samples) /\ report.max_ns = Max(DOMAIN samples)
    /\ report.sum = MapThenSumSet(LAMBDA v : v * samples[v], DOMAIN samples) % (MaxWord + 1)
    /\ \A p \in DOMAIN report.pct :
         \E r \in 1..report.count :
           /\ p * report.count <= 10000 * r \/ r = report.count
           /\ 10000 * (r - 1) <= p * report.count
           /\ WithinError(report.pct[p], RankSample(r))
=============================================================================
