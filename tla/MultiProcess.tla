---------------------------- MODULE MultiProcess ----------------------------
(***************************************************************************)
(* The processes of irobot_benchmark: main forks one for each topology,    *)
(* every one runs its experiment and saves its results in a directory of   *)
(* its own, and the parent, which runs the last topology, waits for the    *)
(* others and adds their results up.                                       *)
(*                                                                         *)
(* The experiment itself is one step, after which the trackers of the      *)
(* process hold what Trackers gives them.                                  *)
(***************************************************************************)
EXTENDS Report, Options

CONSTANTS
  Stems,          \* names of topology files, without directory and extension
  CommandLines,   \* records of options, see Options; topology: stems of files
  Trackers,       \* Trackers[i]: the trackers of the process of topology i
  PreviousTotal,  \* the total of an earlier run in the same directories
  MayCrash        \* whether children may crash

ASSUME MultiProcessAssumption ==
  /\ \A arguments \in Accepted(CommandLines) :
       /\ arguments.topology \in Seq(Stems) \ {<<>>}
       /\ DOMAIN arguments.topology \subseteq DOMAIN Trackers
  /\ \A i \in DOMAIN Trackers :
       Trackers[i] \in Seq([received : Nat, lost : Nat, late : Nat,
                           too_late : Nat, latency : Nat])
  /\ MayCrash \in BOOLEAN

VARIABLES
  options,      \* what parse_options has returned to main
  forked,       \* how many children the parent has forked
  process,      \* process[i]: where the process of topology i is
  files,        \* files[d]: the tokens of d/latency_total.txt
  aggregate     \* what print_aggregate_stats has read, in order

processVars == <<options, forked, process, files, aggregate>>

topologies == options.topology
results_dir == options.results_dir # ""
csv_out == options.csv_out

Processes == DOMAIN topologies
Parent == Len(topologies)
Multi == Len(topologies) > 1

\* A file that is not there, or has no second line yet, adds nothing.
NoLine == <<>>

\* The line log_latency_total_stats prints for each process.
TotalLine == [i \in DOMAIN Trackers |->
                [csv \in BOOLEAN |-> Tokens(Total(Trackers[i]), csv)]]
PreviousLine == [csv \in BOOLEAN |-> Tokens(PreviousTotal, csv)]

Directories ==
  LET asked == {Parse(arguments).results_dir :
                  arguments \in Accepted(CommandLines)} \ {""}
  IN {<<dir>> : dir \in asked}
       \union (asked \X Stems) \union (Stems \X {"_log"})

\* For the mutation runs: all the processes in the directory asked for.
SharedDirectory(i) ==
  IF results_dir THEN <<options.results_dir>> ELSE <<topologies[i], "_log">>

\* create_result_directory, and the path print_aggregate_stats composes.
Directory(i) ==
  CASE results_dir /\ Multi -> <<options.results_dir, topologies[i]>>
    [] results_dir /\ ~Multi -> <<options.results_dir>>
    [] OTHER -> <<topologies[i], "_log">>

AggregateDirectory(i) ==
  IF results_dir
    THEN IF Len(topologies) > 1 THEN <<options.results_dir, topologies[i]>>
                                ELSE <<options.results_dir>>
    ELSE <<topologies[i], "_log">>

-----------------------------------------------------------------------------
\* Other command lines end main before it forks.
ProcessesInit ==
  /\ \E arguments \in Accepted(CommandLines) : options = Parse(arguments)
  /\ forked = 0
  /\ process = [i \in Processes |-> IF i = Parent THEN "forking" ELSE "none"]
  /\ \E old \in {NoLine, PreviousLine[csv_out]} :
       files = [d \in Directories |-> old]
  /\ aggregate = <<>>

Move(i, from, to) == process[i] = from /\ process' = [process EXCEPT ![i] = to]

\* For the mutation runs: a fork for the last topology too.
ForkTooOften ==
  /\ process[Parent] = "forking"
  /\ IF forked < Parent
       THEN /\ forked' = forked + 1
            /\ process' = [process EXCEPT ![forked + 1] = "running"]
       ELSE /\ process' = [process EXCEPT ![Parent] = "running"]
            /\ UNCHANGED forked
  /\ UNCHANGED <<options, files, aggregate>>

\* An iteration of fork_process: a child, or the end of the loop.
Fork ==
  /\ process[Parent] = "forking"
  /\ IF forked < Parent - 1
       THEN /\ forked' = forked + 1
            /\ process' = [process EXCEPT ![forked + 1] = "running"]
       ELSE /\ process' = [process EXCEPT ![Parent] = "running"]
            /\ UNCHANGED forked
  /\ UNCHANGED <<options, files, aggregate>>

\* The experiment is over, and save_latency_total_stats opens its file, which
\* empties it.
OpenTotals(i) ==
  /\ Move(i, "running", "saving")
  /\ files' = [files EXCEPT ![Directory(i)] = NoLine]
  /\ UNCHANGED <<options, forked, aggregate>>

\* The rest of save_latency_total_stats, log_latency_total_stats.  A child
\* leaves main.
WriteTotals(i) ==
  /\ Move(i, "saving", IF i = Parent THEN "waiting" ELSE "exited")
  /\ files' = [files EXCEPT
                 ![Directory(i)] = TotalLine[i][csv_out]]
  /\ UNCHANGED <<options, forked, aggregate>>

\* A child dies: an exception, an assertion, a signal.
Crash(i) ==
  /\ MayCrash /\ i # Parent
  /\ Move(i, "running", "crashed") \/ Move(i, "saving", "crashed")
  /\ UNCHANGED <<options, forked, files, aggregate>>

\* For the mutation runs: waiting for one child, and for children that exit
\* by themselves.
WaitForOneChild ==
  /\ Move(Parent, "waiting", "aggregating")
  /\ Multi => \E i \in Processes : process[i] \in {"exited", "crashed"}
  /\ UNCHANGED <<options, forked, files, aggregate>>

WaitForExits ==
  /\ Move(Parent, "waiting", "aggregating")
  /\ \A i \in Processes \ {Parent} : process[i] = "exited"
  /\ UNCHANGED <<options, forked, files, aggregate>>

\* while (waitpid(-1, nullptr, 0) > 0): until there is no child any more.
WaitForChildren ==
  /\ Move(Parent, "waiting", "aggregating")
  /\ \A i \in Processes \ {Parent} : process[i] \in {"exited", "crashed"}
  /\ UNCHANGED <<options, forked, files, aggregate>>

\* print_aggregate_stats, the file of the next topology.
Aggregate ==
  LET next == Len(aggregate) + 1
  IN /\ process[Parent] = "aggregating"
     /\ aggregate' =
          Append(aggregate, Figures(files[AggregateDirectory(next)]))
     /\ process' = [process EXCEPT
                      ![Parent] = IF next = Len(topologies) THEN "exited" ELSE @]
     /\ UNCHANGED <<options, forked, files>>

Step ==
  \/ Fork
  \/ WaitForChildren
  \/ Aggregate
  \/ \E i \in Processes : OpenTotals(i) \/ WriteTotals(i)

ProcessesNext == Step \/ \E i \in Processes : Crash(i)

\* Processes are scheduled and experiments end; nobody need crash.
ProcessesSpec == ProcessesInit /\ [][ProcessesNext]_processVars /\ WF_processVars(Step)

-----------------------------------------------------------------------------
\* The types of the variables.
ProcessesTypeOK ==
  /\ topologies \in Seq(Stems) /\ csv_out \in BOOLEAN
  /\ forked \in 0 .. Parent - 1
  /\ process \in [Processes -> {"none", "forking", "running", "saving",
                                "waiting", "aggregating", "exited", "crashed"}]
  /\ \A i \in 1 .. forked : process[i] # "none"
  /\ files \in [Directories -> Seq(Nat)]
  /\ aggregate \in Seq([received : Nat, latency : Nat, late : Nat,
                        too_late : Nat, lost : Nat])

\* The figures of a process are those of its trackers.
Accurate(figures, trackers) ==
  LET messages == SumOf(trackers, "received")
      latencies == SumOf(trackers, "latency")
  IN /\ figures.received = messages
     /\ figures.lost = SumOf(trackers, "lost")
     /\ figures.late = SumOf(trackers, "late")
     /\ figures.too_late = SumOf(trackers, "too_late")
     /\ messages > 0 =>
          2 * (figures.latency * messages - latencies) \in -messages .. messages

\* No two topologies of a command line have files of the same name.
DistinctNames ==
  \A arguments \in Accepted(CommandLines) :
    \A i, j \in DOMAIN arguments.topology :
      arguments.topology[i] = arguments.topology[j] => i = j

\* No process has a subscription that hears nothing beside one that does, and
\* the mean latencies are below a second.
MeansLegible ==
  \A i \in DOMAIN Trackers :
    LET total == Total(Trackers[i])
    IN  /\ total.mean[2] = 0 => total.received = 0
        /\ total.mean[1] < 1000000

\* The counters have fewer digits than their columns, and the late messages are
\* none or at least 0.01 % of those received.
ColumnsSuffice ==
  \A i \in DOMAIN Trackers :
    LET total == Total(Trackers[i])
    IN  /\ total.received < 1000000000 /\ total.lost < 1000000000
        /\ total.late <= total.received /\ total.too_late <= total.received
        /\ total.late = 0 \/ total.received <= 10000 * total.late

\* Every run asks for commas.
CommasAsked == \A arguments \in Accepted(CommandLines) : Parse(arguments).csv_out

\* The tokens of a line are numbers.
LinesOfNumbers ==
  /\ \A i \in DOMAIN Trackers, csv \in BOOLEAN : TotalLine[i][csv] \in Seq(Nat)
  /\ \A csv \in BOOLEAN : PreviousLine[csv] \in Seq(Nat)

\* The system total is over this run: the parent has added the counters and
\* the mean latency of every process that finished, each once, none that was
\* still being written, and none that changed on its way through the file
\* (main, save_latency_total_stats, print_aggregate_stats).
AggregateIsComplete ==
  \A i \in DOMAIN aggregate :
    process[i] # "crashed" => Accurate(aggregate[i], Trackers[i])

\* A process never touches results another one has saved
\* (irobot_benchmark.cpp: "each forked process needs its own subdir to avoid
\* overwriting peer files").
NoPeerOverwritten ==
  [][\A i \in Processes :
       process[i] \in {"waiting", "aggregating", "exited"} =>
         files'[Directory(i)] = files[Directory(i)]]_processVars

\* The parent reports a total and exits, whatever became of its children.
ParentReports == <>(process[Parent] = "exited")
=============================================================================
