--------------------------- MODULE Classification ---------------------------
(***************************************************************************)
(* What the tracker of one subscription or client promises: each message   *)
(* is scanned in one step, and is counted as late or as too late by the    *)
(* definition in irobot_benchmark/README.md, to the microsecond: the code  *)
(* keeps whole microseconds of a latency and of a period.                  *)
(***************************************************************************)
EXTENDS Tracker

CONSTANTS
  Senders,      \* pairs of a kind of sender and its period
  Latencies     \* by sender: latencies of its messages, in nanoseconds

VARIABLES
  sender,    \* the sender: its kind and the period of its timer
  tracker,   \* the tracker that scans its messages
  late,      \* messages judged late
  too_late   \* messages judged too late

classification_vars == <<sender, tracker, late, too_late>>

\* The frequency a header carries: publish_msg divides as a double,
\* add_periodic_client as an integer.
HeaderFrequency(s) ==
  IF s[1] = "publisher" THEN PublisherFrequency(s[2])
                        ELSE ClientFrequency(s[2])

-----------------------------------------------------------------------------
(* The definition, for the sender's period: too late above                 *)
(* min(period, 50ms), late above min(0.2*period, 5ms) but not too late.    *)
(* The percentages and absolute values are options.                        *)

Exceeds(s, latency, percentage, absolute) ==
  \/ latency > absolute * NanosPerMicro
  \/ latency * 100 > percentage * s[2] * NanosPerMicro

\* A verdict is right to the microsecond if one on a latency that is a
\* microsecond shorter, or longer, could be the same.
Surely(s, latency, percentage, absolute) ==
  Exceeds(s, latency - NanosPerMicro, percentage, absolute)
Possibly(s, latency, percentage, absolute) ==
  Exceeds(s, latency + NanosPerMicro, percentage, absolute)
MayJudge(verdict, s, latency, percentage, absolute) ==
  /\ Surely(s, latency, percentage, absolute) => verdict
  /\ verdict => Possibly(s, latency, percentage, absolute)

\* The messages that may be counted as too late, and as late.
MayBeTooLate(s, latency) ==
  MayJudge(TRUE, s, latency, TooLatePercentage, TooLateAbsolute)
MayBeLate(s, latency) ==
  /\ MayJudge(TRUE, s, latency, LatePercentage, LateAbsolute)
  /\ MayJudge(FALSE, s, latency, TooLatePercentage, TooLateAbsolute)

-----------------------------------------------------------------------------
ClassificationInit ==
  /\ sender \in Senders
  /\ \E enabled \in BOOLEAN : tracker = NewTracker(enabled)
  /\ late = 0
  /\ too_late = 0

\* A message arrives: handle_sub_received_msg, or
\* handle_client_received_response.
HandleReceived(number, latency) ==
  LET header == [tracking_number |-> number,
                 frequency |-> HeaderFrequency(sender)]
  IN /\ \E period \in PeriodsUs(header.frequency) :
          tracker' = Scan(tracker, header, latency, period)
     /\ \E above, far_above \in BOOLEAN :
          /\ MayJudge(above, sender, latency, LatePercentage, LateAbsolute)
          /\ MayJudge(far_above, sender, latency,
                      TooLatePercentage, TooLateAbsolute)
          /\ late' = late + OneIf(tracker, above /\ ~far_above)
          /\ too_late' = too_late + OneIf(tracker, far_above)
     /\ UNCHANGED sender

ClassificationNext ==
  \E number \in 0 .. TrackingMod - 1, latency \in Latencies[sender] :
    HandleReceived(number, latency)

ClassificationSpec ==
  ClassificationInit /\ [][ClassificationNext]_classification_vars
=============================================================================
