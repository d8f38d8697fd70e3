----------------------------- MODULE Histogram ------------------------------
(***************************************************************************)
(* The class of bench/util/histogram.cc as operators on its fields.  A     *)
(* value is a whole number of microseconds.  A percentile is a fraction    *)
(* [n, d], because the code scales linearly within a bucket, and d is 0    *)
(* where the code's division gives NaN; p is in hundredths of a percent.   *)
(***************************************************************************)
EXTENDS Integers, Sequences
LOCAL INSTANCE FiniteSetsExt
LOCAL INSTANCE Functions

CONSTANT kBucketLimit   \* the upper ends of the buckets; the last is beyond any value

ASSUME BucketLimitAssumption ==
  /\ kBucketLimit \in Seq(Nat) /\ kBucketLimit # <<>>
  /\ \A b \in 2 .. Len(kBucketLimit) : kBucketLimit[b - 1] < kBucketLimit[b]

kNumBuckets == Len(kBucketLimit)
Buckets == 1 .. kNumBuckets

Clear ==
  [min_ |-> kBucketLimit[kNumBuckets], max_ |-> 0, num_ |-> 0, sum_ |-> 0,
   sum_squares_ |-> 0, buckets_ |-> [b \in Buckets |-> 0]]

(* Bug: a value on a border goes to the bucket below it. *)
BucketOfInclusive(value) ==
  Min({b \in Buckets : b = kNumBuckets \/ value <= kBucketLimit[b]})

(* Add's linear search. *)
BucketOf(value) ==
  Min({b \in Buckets : b = kNumBuckets \/ value < kBucketLimit[b]})

Add(h, value) ==
  [min_ |-> Min({h.min_, value}),
   max_ |-> Max({h.max_, value}),
   num_ |-> h.num_ + 1,
   sum_ |-> h.sum_ + value,
   sum_squares_ |-> h.sum_squares_ + value * value,
   buckets_ |-> [h.buckets_ EXCEPT ![BucketOf(value)] = @ + 1]]

(* Bug: the other's smallest value is forgotten. *)
MergeMinKept(h, other) == h.min_

MergeMin(h, other) == IF other.min_ < h.min_ THEN other.min_ ELSE h.min_

Merge(h, other) ==
  [min_ |-> MergeMin(h, other),
   max_ |-> Max({h.max_, other.max_}),
   num_ |-> h.num_ + other.num_,
   sum_ |-> h.sum_ + other.sum_,
   sum_squares_ |-> h.sum_squares_ + other.sum_squares_,
   buckets_ |-> [b \in Buckets |-> h.buckets_[b] + other.buckets_[b]]]

(* How many values are in the buckets up to b. *)
Upto(h, b) == SumFunctionOnSet(h.buckets_, 1 .. b)

(* Bug: the count has to go past the threshold. *)
AtThresholdPast(h, p) == {b \in Buckets : Upto(h, b) * 10000 > h.num_ * p}

(* The buckets where "sum >= threshold", both sides scaled by 10000. *)
AtThreshold(h, p) == {b \in Buckets : Upto(h, b) * 10000 >= h.num_ * p}

Percentile(h, p) ==
  IF AtThreshold(h, p) = {} THEN [n |-> h.max_, d |-> 1]
  ELSE LET b == Min(AtThreshold(h, p))
           count == h.buckets_[b]
           left_point == IF b = 1 THEN 0 ELSE kBucketLimit[b - 1]
           above == h.num_ * p - (Upto(h, b) - count) * 10000
           r == [n |-> left_point * count * 10000 + (kBucketLimit[b] - left_point) * above,
                 d |-> count * 10000]
           q == IF r.n < h.min_ * r.d THEN [n |-> h.min_, d |-> 1] ELSE r
       IN  IF q.n > h.max_ * q.d THEN [n |-> h.max_, d |-> 1] ELSE q

(* The percentiles ToString prints. *)
Printed == {5000, 7500, 9900, 9990, 9999}
=============================================================================
