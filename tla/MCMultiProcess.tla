--------------------------- MODULE MCMultiProcess ---------------------------
(* MultiProcess for one, two and three topologies, and for two files of    *)
(* the same name in different directories.                                 *)
EXTENDS MultiProcess

CONSTANTS a, b, c

\* With and without the two options that matter to the results.
CommandLinesFor(lists) ==
  {[topology |-> list] @@ more :
     list \in lists,
     more \in {<<>>, [results_dir |-> "results"], [csv_out |-> "on"],
               [results_dir |-> "results", csv_out |-> "on"]}}

\* And command lines that parse refuses.
MCCommandLines ==
  CommandLinesFor({<<a>>, <<a, b>>, <<a, b, c>>})
    \union {[csv_out |-> "on"], [topology |-> <<b>>, csv_out |-> "yes"],
            [topology |-> <<c, b>>, help |-> ""]}
SameStem == CommandLinesFor({<<a, a>>})
OneTopology == CommandLinesFor({<<a>>})

Tracker(received, lost, late, too_late, latency) ==
  [received |-> received, lost |-> lost, late |-> late, too_late |-> too_late,
   latency |-> latency]

MCTrackers ==
  << <<Tracker(300, 4, 2, 1, 90000), Tracker(700, 0, 6, 0, 41000)>>,
     <<Tracker(64, 0, 0, 0, 70000)>>,
     <<Tracker(3, 1, 2, 1, 1500000)>> >>
MCPreviousTotal == Total(<<Tracker(500, 9, 5, 3, 80000)>>)

\* A minute of a robot's traffic with a message too late, one late and some
\* lost; and a subscription to which nothing was published.
LongRun == << <<Tracker(30000, 12, 1, 2, 10350000)>> >>
IdleTracker == << <<Tracker(300, 4, 2, 1, 90000), Tracker(0, 0, 0, 0, 0)>> >>

\* The theorems about the processes are about such names and figures.
ASSUME NamesAndFigures ==
  CommandLines = MCCommandLines /\ Trackers = MCTrackers =>
    DistinctNames /\ MeansLegible /\ ColumnsSuffice /\ LinesOfNumbers
=============================================================================
