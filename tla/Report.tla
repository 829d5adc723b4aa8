------------------------------- MODULE Report -------------------------------
(***************************************************************************)
(* The totals of a process as latency_total.txt holds them, and as the     *)
(* parent process reads them back (stat_logger.cpp, system.cpp).           *)
(*                                                                         *)
(* Of the text of a number there are two things that matter: its length,   *)
(* for columns are separated only by the blanks that pad them, and what    *)
(* strtoul makes of it.  Counters have fewer digits than their columns.    *)
(***************************************************************************)
EXTENDS Integers, Sequences, FiniteSets, FiniteSetsExt

Text(length, value) == [length |-> length, value |-> value]

PowerOfTen == [k \in 0 .. 9 |-> 10^k]

Digits(n) == Cardinality({k \in 0 .. 9 : k = 0 \/ n >= PowerOfTen[k]})
IntegerText(n) == Text(Digits(n), n)

\* The power of ten of the first digit of num / den, for 0 < num.
Exponent(num, den) ==
  IF num >= den
    THEN Digits(num \div den) - 1
    ELSE -CHOOSE k \in 1 .. 9 :
           num * PowerOfTen[k] >= den /\ num * PowerOfTen[k - 1] < den

\* The first six digits of num / den, rounded.
Mantissa(num, den, e) ==
  LET p == 100 * (IF e < 0 THEN num * PowerOfTen[-e] ELSE num)
      q == IF e > 0 THEN den * PowerOfTen[e] ELSE den
      rest == 1000 * (p % q)
  IN 1000 * (p \div q) + rest \div q + (IF 2 * (rest % q) >= q THEN 1 ELSE 0)

\* A decimal on an std::ostream, from its first six digits: the significant ones
\* without trailing zeros, in scientific notation if it is very small or large.
DecimalText(mantissa, exp) ==
  LET digits == 6 - Max({k \in 0 .. 5 : mantissa % PowerOfTen[k] = 0})
      point == IF digits > 1 THEN 1 ELSE 0
  IN IF exp \in 0 .. 5
       THEN Text(IF digits > exp + 1 THEN digits + 1 ELSE exp + 1,
                 mantissa \div PowerOfTen[5 - exp])
     ELSE IF exp \in -4 .. -1
       THEN Text(digits + 1 - exp, 0)
       ELSE Text(digits + point + 4, mantissa \div PowerOfTen[5])

\* The double num / den, where rounding may carry into a seventh digit; the text
\* of 0 / 0 is -nan, which is read as 0.
DoubleText(num, den) ==
  LET e == Exponent(num, den)
      mantissa == Mantissa(num, den, e)
  IN IF den = 0 THEN Text(4, 0)
     ELSE IF num = 0 THEN Text(1, 0)
     ELSE IF mantissa = PowerOfTen[6] THEN DecimalText(PowerOfTen[5], e + 1)
     ELSE DecimalText(mantissa, e)

PercentText(part, whole) == DoubleText(100 * part, whole)

-----------------------------------------------------------------------------
(* log_trackers_latency_total_stats: the sums over the trackers of a       *)
(* process.  A tracker without samples has the mean NaN, and so has the    *)
(* process then.                                                           *)

SumOf(trackers, field) ==
  LET sum[k \in 0 .. Len(trackers)] ==
        IF k = 0 THEN 0 ELSE sum[k - 1] + trackers[k][field]
  IN sum[Len(trackers)]

Total(trackers) ==
  LET received == SumOf(trackers, "received")
      latency == SumOf(trackers, "latency")
      idle == \E i \in DOMAIN trackers : trackers[i].received = 0
  IN [received |-> received,
      lost |-> SumOf(trackers, "lost"),
      late |-> SumOf(trackers, "late"),
      too_late |-> SumOf(trackers, "too_late"),
      mean |-> IF received = 0 \/ idle
                 THEN <<0, 0>>
                 ELSE <<(2 * latency + received) \div (2 * received), 1>>]

\* The second line of log_total_stats.
Columns(total) ==
  << <<15, IntegerText(total.received)>>,
     <<10, DoubleText(total.mean[1], total.mean[2])>>,
     <<10, IntegerText(total.late)>>,
     <<10, PercentText(total.late, total.received)>>,
     <<15, IntegerText(total.too_late)>>,
     <<15, PercentText(total.too_late, total.received)>>,
     <<10, IntegerText(total.lost)>>,
     <<10, PercentText(total.lost, total.received + total.lost)>> >>

\* The values of the line's tokens: without commas, a column that is full
\* has no blank after it and the next one continues its token.
Tokens(total, csv_out) ==
  LET columns == Columns(total)
      starts == {i \in 1 .. 8 :
                   \/ i = 1
                   \/ csv_out
                   \/ columns[i - 1][2].length < columns[i - 1][1]}
      start(k) == CHOOSE i \in starts :
                    Cardinality({j \in starts : j <= i}) = k
  IN [k \in 1 .. Cardinality(starts) |-> columns[start(k)][2].value]

\* The k-th call of parse_line: the last token has nothing after it, and
\* parse_line returns 0 and stays there.
Parsed(tokens, k) == IF k < Len(tokens) THEN tokens[k] ELSE 0

\* What print_aggregate_stats adds for a file, and for a file without a line.
Figures(tokens) ==
  [received |-> Parsed(tokens, 1), latency |-> Parsed(tokens, 2),
   late |-> Parsed(tokens, 3), too_late |-> Parsed(tokens, 5),
   lost |-> Parsed(tokens, 7)]
=============================================================================
