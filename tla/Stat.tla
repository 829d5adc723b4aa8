-------------------------------- MODULE Stat --------------------------------
(***************************************************************************)
(* performance_metrics::Stat: count, extremes, mean and standard deviation *)
(* of the samples added so far, by the shifted data algorithm: the sums    *)
(* are over the distances from the first sample, K.  The doubles are       *)
(* integers here, so mean and variance are compared as their numerators.   *)
(***************************************************************************)
EXTENDS Integers

\* max, min and K have no initial value in the code and no meaning while
\* _n is 0; here they start as 0 and are not read before the first sample.
NoSamples == [n |-> 0, max |-> 0, min |-> 0, K |-> 0, Ex |-> 0, Ex2 |-> 0]

\* For the mutation runs: a first sample that does not become the shift.
WithSampleUnshifted(stat, x) ==
  [n |-> stat.n + 1,
   max |-> IF x > stat.max THEN x ELSE stat.max,
   min |-> IF x < stat.min THEN x ELSE stat.min,
   K |-> stat.K, Ex |-> stat.Ex + (x - stat.K),
   Ex2 |-> stat.Ex2 + (x - stat.K) * (x - stat.K)]

\* Stat::add_sample.
WithSample(stat, x) ==
  LET first == stat.n = 0
      K == IF first THEN x ELSE stat.K
  IN [n |-> stat.n + 1,
      max |-> IF first \/ x > stat.max THEN x ELSE stat.max,
      min |-> IF first \/ x < stat.min THEN x ELSE stat.min,
      K |-> K,
      Ex |-> stat.Ex + (x - K),
      Ex2 |-> stat.Ex2 + (x - K) * (x - K)]

\* n * mean(), and n^2 * stddev()^2 for n > 0: K + Ex / n, (Ex2 - Ex^2 / n) / n.
MeanTimesN(stat) == stat.n * stat.K + stat.Ex
VarianceTimesNN(stat) == stat.n * stat.Ex2 - stat.Ex * stat.Ex
=============================================================================
