-------------------------- MODULE MCConcurrentScan --------------------------
(* ConcurrentScan with a second of 1000 "microseconds": the constants of   *)
(* the code and its int are scaled by 1000.                                *)
EXTENDS ConcurrentScan, TLC

\* A period of 29 "microseconds", which is 28 once it has been through a float,
\* and the longest whose percentage fits an int.
MCPublishers == {"publisher"} \X {29, 20970}
\* Latencies, in halves of a microsecond.  Of the first period: 28 us, late, and
\* 29 us, too late for the code though not above 29; of the second: 5.5 us, not
\* late for the code though above 5, and 51.5 us, too late.
MCLatencies ==
  [s \in MCPublishers |-> IF s[2] = 29 THEN {56, 58} ELSE {11, 103}]
\* Gaps the events tell in either way: of several messages, and of one.
MCSkips == [s \in MCPublishers |-> IF s[2] = 29 THEN {0, 2} ELSE {0, 1}]
\* Senders the definition in the README does not fit: a client whose period
\* is above a second, and a sender whose clock is ahead.
MCSlowClient == {<<"client", 2000>>}
MCShort == [s \in MCSlowClient |-> {2}]
MCNoSkips == [s \in MCSlowClient |-> {0}]
MCClockBehind == [s \in MCPublishers |-> {-2}]
\* Threads are interchangeable, and so are entities.
MCSymmetry == Permutations(Threads) \cup Permutations(Entities)
=============================================================================
