------------------------------- MODULE Options -------------------------------
(***************************************************************************)
(* The command lines of the programs and the options they make: of         *)
(* irobot_benchmark (performance_test_factory::Options), of the examples   *)
(* (ExamplesOptions) and of the composition benchmark                      *)
(* (CompositionOptions).                                                   *)
(*                                                                         *)
(* A command line is a record of the options it gives, each a number, a    *)
(* word or, for topology, a sequence; --tracking fills                     *)
(* tracking_options.is_enabled, and so on.  That a number is one is        *)
(* cxxopts' concern, which ends the program otherwise.                     *)
(***************************************************************************)
EXTENDS Integers, Sequences, TLC

\* The values a constructor gives where the command line has none.
Defaults ==
  [topology |-> <<>>, ipc |-> TRUE, ros_params |-> TRUE, time |-> 5,
   sampling |-> 1000, executor |-> 1, threads |-> 0,
   callback_group_type |-> "mutually_exclusive", node |-> 1,
   tracking |-> FALSE, late_percentage |-> 20, late_absolute |-> 5000,
   too_late_percentage |-> 100, too_late_absolute |-> 50000,
   csv_out |-> FALSE, results_dir |-> ""]

Switches == {"ipc", "ros_params", "tracking", "csv_out"}

\* The words that are checked; --ros_params takes any.
Words ==
  [ipc |-> {"on", "off"}, tracking |-> {"on", "off"},
   csv_out |-> {"on", "off"},
   callback_group_type |-> {"mutually_exclusive", "reentrant"}]

\* parse prints the help and exits with 0, or it exits with 1, or it returns.
ParseEnds(arguments) ==
  CASE "help" \in DOMAIN arguments -> "exit 0"
    [] \/ "topology" \notin DOMAIN arguments
       \/ \E w \in DOMAIN Words \intersect DOMAIN arguments :
            arguments[w] \notin Words[w] -> "exit 1"
    [] OTHER -> "returns"

\* What it returns with: a switch is on at the word "on" and off at any other.
Parse(arguments) ==
  [option \in DOMAIN arguments \union DOMAIN Defaults |->
     CASE option \notin DOMAIN arguments -> Defaults[option]
       [] option \in DOMAIN arguments \intersect Switches ->
            arguments[option] = "on"
       [] OTHER -> arguments[option]]

\* The command lines that get main to its first fork.
Accepted(commandLines) ==
  {arguments \in commandLines : ParseEnds(arguments) = "returns"}

\* How many callbacks of nodes with the same executor run at a time
\* (make_executor), and how many of one node (its callback group).
ExecutorThreads(options, hardware_concurrency) ==
  CASE options.executor \in {1, 2} -> 1
    [] options.threads = 0 -> hardware_concurrency
    [] OTHER -> options.threads
NodeThreads(options, hardware_concurrency) ==
  IF options.callback_group_type = "mutually_exclusive"
    THEN 1 ELSE ExecutorThreads(options, hardware_concurrency)

-----------------------------------------------------------------------------
(* The examples: numbers stand for flags, and nothing is checked. *)

ExampleDefaults ==
  [subs |-> 2, pubs |-> 1, clients |-> 2, services |-> 1, frequency |-> 10,
   executor |-> 1, use_ipc |-> 0, use_ros_params |-> 1, ros_namespace |-> "",
   duration |-> 5, monitor_stats |-> 0, sampling |-> 500, json |-> "",
   experiment_name |-> "", experiment_path |-> ".", verbose |-> 0]

ExampleOptions(arguments) == arguments @@ ExampleDefaults

-----------------------------------------------------------------------------
(* The composition benchmark: pairs of a key and a value, no option names. *)

CompositionDefaults ==
  [subs |-> 0, freq |-> 0, ipc |-> 0, spin_t |-> "spin", name |-> "node"]

CompositionOptions(arguments) == arguments @@ CompositionDefaults
=============================================================================
