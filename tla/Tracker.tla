------------------------------ MODULE Tracker ------------------------------
(***************************************************************************)
(* performance_metrics::Tracker: the per-entity statistics of one          *)
(* publisher, subscription, client or server.  The class has no thread of  *)
(* its own, so it is a module of operators; the modules that own trackers  *)
(* (publishers, subscriptions, clients, servers) keep them in variables.   *)
(*                                                                         *)
(* Periods and thresholds are in microseconds, latencies in nanoseconds.   *)
(* The widths of C++'s integers and floats are parameters, so that an      *)
(* instance can be small enough to reach their limits.                     *)
(***************************************************************************)
EXTENDS Integers

CONSTANTS
  TrackingMod,      \* 2^32: uint32_t tracking_number
  LatencyMod,       \* 2^64: uint64_t latency samples
  IntMod,           \* 2^32: int and unsigned int
  FloatMod,         \* 2^24: the mantissa of a float is below it
  MaxScale,         \* 149: the last bit of a float is worth 2^-149 or more
  MicrosPerSecond,  \* the literal 1000000
  NanosPerMicro,    \* the literal 1000
  LatePercentage, LateAbsolute,        \* Tracker::Options
  TooLatePercentage, TooLateAbsolute

MinInt == -(IntMod \div 2)
MaxInt == IntMod \div 2 - 1

\* A value stored in an int or in an unsigned int.
ToInt(x) == LET r == x % IntMod IN IF r <= MaxInt THEN r ELSE r - IntMod
ToUnsigned(x) == x % IntMod

\* Integer division of C++: it truncates towards zero.
TruncDiv(a, b) == IF a >= 0 THEN a \div b ELSE -((-a) \div b)

-----------------------------------------------------------------------------
(* float: a fraction num / den with the 24 most significant bits of its    *)
(* value.                                                                  *)

Frequency == [num : Nat, den : Nat \ {0}]

PowerOfTwo[k \in 0 .. MaxScale] ==
  IF k = 0 THEN 1 ELSE 2 * PowerOfTwo[k - 1]

ASSUME TrackerAssumption ==
  /\ TrackingMod \in Nat \ {0, 1}
  /\ LatencyMod \in Nat \ {0}
  /\ IntMod \in Nat \ {0}
  /\ FloatMod \in Nat \ {0}
  /\ MaxScale \in Nat \ {0} /\ FloatMod * FloatMod <= PowerOfTwo[MaxScale]
  /\ MicrosPerSecond \in Nat \ {0} /\ MicrosPerSecond < FloatMod
  /\ NanosPerMicro \in Nat \ {0}

\* The least k for which a * 2^k is b at least, as far as exponents go.
LeastPower(a, b) ==
  CHOOSE k \in 0 .. MaxScale :
    /\ b <= a * PowerOfTwo[k] \/ k = MaxScale
    /\ k = 0 \/ a * PowerOfTwo[k - 1] < b

\* The integer nearest to num / den, the even one of two.
RoundToEven(num, den) ==
  LET whole == num \div den
      rest == 2 * (num % den)
  IN IF rest > den \/ (rest = den /\ whole % 2 = 1) THEN whole + 1 ELSE whole

\* The float nearest to num / den, whose last bit is worth 2^down / 2^up: its
\* mantissa lies between half of FloatMod and FloatMod.
Float(num, den) ==
  LET up == LeastPower(2 * num, FloatMod * den)
      down == LeastPower(FloatMod * den, num + 1)
  IN IF num = 0
       THEN [num |-> 0, den |-> 1]
       ELSE [num |-> PowerOfTwo[down]
                       * RoundToEven(num * PowerOfTwo[up],
                                     den * PowerOfTwo[down]),
             den |-> PowerOfTwo[up]]

-----------------------------------------------------------------------------
(* Message headers, with the frequency of the sender in a float.           *)

\* float pub_frequency = 1000000.0 / period.count().  The division is one of
\* doubles; rounding its quotient again gives the float nearest to the exact
\* one, since a double has more than twice the bits of the period.
PublisherFrequency(period) == Float(MicrosPerSecond, period)

\* set_frequency(1000000 / period.count()): an integer division.
ClientFrequency(period) == Float(MicrosPerSecond \div period, 1)

\* const int period_us = 1000000 / header.frequency: the quotient is a float,
\* which the conversion truncates.  Converting an infinity or a value beyond
\* int is undefined: x86 yields the smallest int, ARM saturates at the largest.
PeriodsUs(frequency) ==
  IF frequency.num = 0
    THEN {MinInt, MaxInt}
    ELSE LET quotient == Float(MicrosPerSecond * frequency.den, frequency.num)
             period == quotient.num \div quotient.den
         IN IF period <= MaxInt THEN {period} ELSE {MinInt, MaxInt}

\* std::min(absolute_us, percentage * period_us / 100), kept as unsigned int.
ThresholdUs(absolute, percentage, period) ==
  LET relative == TruncDiv(ToInt(percentage * period), 100)
  IN ToUnsigned(IF relative < absolute THEN relative ELSE absolute)

LateThresholdUs(period) == ThresholdUs(LateAbsolute, LatePercentage, period)
TooLateThresholdUs(period) ==
  ThresholdUs(TooLateAbsolute, TooLatePercentage, period)

\* uint64_t lat_us = lat.count() / 1000: nanoseconds are dropped, and a negative
\* number of microseconds wraps around.
LatencyUs(latency) ==
  LET micros == TruncDiv(latency, NanosPerMicro)
  IN IF micros >= 0 THEN micros ELSE micros + LatencyMod

\* For the mutation runs: too late at the threshold, not only above it.
IsTooLateAtThreshold(latency, period) ==
  LatencyUs(latency) >= TooLateThresholdUs(period)

IsTooLate(latency, period) == LatencyUs(latency) > TooLateThresholdUs(period)

\* For the mutation runs: a message that is too late is late, too.
IsLateOrTooLate(latency, period) ==
  LatencyUs(latency) > LateThresholdUs(period)

IsLate(latency, period) ==
  /\ LatencyUs(latency) > LateThresholdUs(period)
  /\ ~IsTooLate(latency, period)

-----------------------------------------------------------------------------
(* The tracker. *)

Stats == [n : Nat, sum : Nat]

Trackers ==
  [is_enabled : BOOLEAN, tracking_number_count : 0 .. TrackingMod - 1,
   lost : Nat, late : Nat, too_late : Nat,
   received : Nat, delta_received : Nat, stat : Stats, delta_stat : Stats]

EmptyStat == [n |-> 0, sum |-> 0]

StatWith(stat, sample) == [n |-> stat.n + 1, sum |-> stat.sum + sample]

NewTracker(enabled) ==
  [is_enabled |-> enabled, tracking_number_count |-> 0,
   lost |-> 0, late |-> 0, too_late |-> 0,
   received |-> 0, delta_received |-> 0,
   stat |-> EmptyStat, delta_stat |-> EmptyStat]

\* Successor, predecessor and difference of uint32_t tracking numbers.
NextNumber(n) == IF n = TrackingMod - 1 THEN 0 ELSE n + 1
PrevNumber(n) == IF n = 0 THEN TrackingMod - 1 ELSE n - 1
Gap(expected, number) ==
  IF number >= expected THEN number - expected
                        ELSE number - expected + TrackingMod

\* get_and_update_tracking_number returns the old number and counts.
GetAndUpdateTrackingNumber(tracker) ==
  [number |-> tracker.tracking_number_count,
   tracker |-> [tracker EXCEPT
                  !.tracking_number_count = NextNumber(@)]]

AddSample(tracker, sample) ==
  [tracker EXCEPT !.stat = StatWith(@, sample),
                  !.delta_stat = StatWith(@, sample)]

\* How many messages a header makes the tracker count as lost.
NewlyLost(tracker, header) ==
  IF tracker.is_enabled
    THEN Gap(tracker.tracking_number_count, header.tracking_number)
    ELSE 0

\* The numbers the text of the lost_messages event names, if one is written.
LostEventNumbers(tracker, header) ==
  LET first == PrevNumber(header.tracking_number)
      lost == NewlyLost(tracker, header)
  IN CASE lost = 0 -> {}
       [] lost = 1 -> {first}
       [] OTHER -> first .. (first + lost)

\* The counters of a tracker that expects `number' from now on.
Counted(tracker, number, lost, late, too_late) ==
  [tracker EXCEPT !.tracking_number_count = number,
                  !.lost = @ + lost,
                  !.late = @ + late,
                  !.too_late = @ + too_late,
                  !.received = @ + 1,
                  !.delta_received = @ + 1]

\* Mistakes scan could contain, for the mutation runs: expecting again the
\* number just received, and not catching up after a gap.
NextExpectedRepeated(tracker, header) ==
  IF tracker.is_enabled THEN header.tracking_number
                        ELSE tracker.tracking_number_count
NextExpectedWithoutCatchUp(tracker, header) ==
  IF tracker.is_enabled THEN NextNumber(tracker.tracking_number_count)
                        ELSE tracker.tracking_number_count

NextExpected(tracker, header) ==
  IF tracker.is_enabled THEN NextNumber(header.tracking_number)
                        ELSE tracker.tracking_number_count

OneIf(tracker, class) == IF tracker.is_enabled /\ class THEN 1 ELSE 0

\* Tracker::scan of a header whose latency is `latency' nanoseconds and
\* whose frequency was converted to `period'.
Scan(tracker, header, latency, period) ==
  AddSample(
    Counted(tracker,
            NextExpected(tracker, header),
            NewlyLost(tracker, header),
            OneIf(tracker, IsLate(latency, period)),
            OneIf(tracker, IsTooLate(latency, period))),
    LatencyUs(latency))

\* reset_delta_received and reset_delta_stat, which get_trackers_avg_latency
\* calls one after the other.
ResetDeltaReceived(tracker) == [tracker EXCEPT !.delta_received = 0]
ResetDeltaStat(tracker) == [tracker EXCEPT !.delta_stat = EmptyStat]

=============================================================================
