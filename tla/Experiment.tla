----------------------------- MODULE Experiment -----------------------------
(***************************************************************************)
(* A program that runs an experiment, from the resource logger's start to  *)
(* the reports and the end of the system: irobot_benchmark (one of its     *)
(* processes), the examples and the composition benchmark.  Composes       *)
(* SystemSpin, the threads of the executors, with the main functions, the  *)
(* logger's thread and the trackers the reports are made from.             *)
(*                                                                         *)
(* Of the trackers of the nodes of an executor the sum of their counts of  *)
(* received messages is kept; what is in a count is Tracker's matter, and  *)
(* what becomes of the total in a file is Report's and MultiProcess's.     *)
(***************************************************************************)
EXTENDS SystemSpin, Sequences, Naturals

CONSTANTS
  Programs,        \* programs considered, see below
  MaxReceived,     \* bound: messages the nodes of an executor receive
  GraceSuffices    \* whether the callbacks that run when rclcpp is shut down
                   \* return in the 500 ms the programs then sleep

ASSUME ExperimentAssumption ==
  MaxReceived \in Nat /\ GraceSuffices \in BOOLEAN

\* A program that starts the logger stops it before it ends.
ASSUME ProgramsAssumption ==
  \A p \in Programs :
    /\ p.steps \in Seq(STRING)
    /\ \A i \in 1 .. Len(p.steps) :
         p.steps[i] = "start logger" =>
           \E j \in i + 1 .. Len(p.steps) : p.steps[j] = "join logger"

Reports == {"log all", "log total", "save all", "save total", "log nodes"}

\* Step k of program p comes after a step of the given name ...
Past(p, k, step) == \E i \in 1 .. k - 1 : p.steps[i] = step

\* ... or after a sleep that followed a shutdown.
Waited(p, k) ==
  \E i \in 1 .. k - 1 :
    p.steps[i] = "sleep 500ms" /\ Past(p, i, "shut down")

\* A program reports only after it has shut rclcpp down and slept.
ASSUME ReportsAssumption ==
  \A p \in Programs : \A k \in 1 .. Len(p.steps) :
    p.steps[k] \in Reports => Waited(p, k)

-----------------------------------------------------------------------------
(* The programs: the steps of a main function, between the construction of *)
(* the logger and the end of the system, and what it hands to              *)
(* save_latency_all_stats: a folder, the name of a file, or nothing.       *)

StopLogger == <<"stop logger", "join logger">>
ShutDownAndWait == <<"shut down", "sleep 500ms">>
When(condition, steps) == IF condition THEN steps ELSE <<>>

\* irobot_benchmark, by its options.
IRobotBenchmark(options) ==
  [steps |->
     <<"start logger", "set latency callback", "discover", "spin">>
       \o StopLogger \o ShutDownAndWait
       \o <<"log all">> \o When(Len(options.topology) > 1, <<"log total">>)
       \o <<"save all", "save total">>,
   results |-> "folder"]

JsonSystem ==
  [steps |->
     <<"start logger", "discover", "spin">> \o StopLogger \o ShutDownAndWait
       \o <<"log all", "log total", "save all", "save total">>,
   results |-> "file"]

\* The other examples differ in their nodes and in whether they discover.
Example(options, wait_discovery) ==
  [steps |->
     When(options.monitor_stats # 0, <<"start logger">>)
       \o When(wait_discovery, <<"discover">>)
       \o <<"spin">> \o ShutDownAndWait
       \o When(options.monitor_stats # 0, StopLogger)
       \o <<"log all", "log total", "save all">>,
   results |-> IF options.experiment_name # "" THEN "file" ELSE "none"]
SimplePubSub(options) == Example(options, TRUE)
SimpleClientService(options) == Example(options, FALSE)
SubscriberNodesProgram(options) == Example(options, FALSE)
PublisherNodesProgram(options) == Example(options, FALSE)
ClientNodesProgram(options) == Example(options, FALSE)
ServerNodesProgram(options) == Example(options, FALSE)

\* The composition benchmark leaves the reports to its nodes: those of base and
\* composable nodes print their trackers when they are destroyed, after the
\* system, for main has created them before it.
BaseProgram ==
  [steps |-> <<"spin", "shut down">>, results |-> "none"]
ComposablePubSub == BaseProgram
MultiProducer ==
  [steps |-> <<"start logger", "spin">> \o StopLogger \o <<"shut down">>,
   results |-> "file"]
LogsAtDestruction(p) == p = BaseProgram

-----------------------------------------------------------------------------
VARIABLES
  program,
  at,          \* the index of the step the main function is at
  logger,      \* what the logger's thread does
  m_is_logging,
  callback,    \* whether the logger has the system's latency callback
  received,    \* received[e]: messages the nodes of executor e counted
  report       \* report[r]: the counts in report r so far, by executor

experimentVars == <<program, at, logger, m_is_logging, callback, received,
                    report>>
allVars == <<vars, experimentVars>>

NoCounts == [e \in {} |-> 0]

ExperimentInit ==
  /\ Init
  /\ program \in Programs
  /\ at = 1
  /\ logger = "none"
  /\ m_is_logging = FALSE
  /\ callback = FALSE
  /\ received = [e \in Executors |-> 0]
  /\ report = [r \in Reports |-> NoCounts]

\* The main function is at the given step, or past the last one.
Doing(step) == at <= Len(program.steps) /\ program.steps[at] = step
Over == at > Len(program.steps)
Proceed == at' = at + 1

-----------------------------------------------------------------------------
(* The steps of the main function. *)

\* start; without the name of a file there is no thread.
StartLogger ==
  /\ ~terminated /\ Doing("start logger") /\ Proceed
  /\ m_is_logging' = TRUE
  /\ logger' = IF program.results = "none" THEN logger ELSE "asleep"
  /\ UNCHANGED <<vars, program, callback, received, report>>

SetLatencyCallback ==
  /\ ~terminated /\ Doing("set latency callback") /\ Proceed
  /\ callback' = TRUE
  /\ UNCHANGED <<vars, program, logger, m_is_logging, received, report>>

\* wait_discovery returns, or it takes too long and an assertion fails.
WaitDiscovery ==
  /\ ~terminated /\ Doing("discover")
  /\ \/ Proceed /\ UNCHANGED terminated
     \/ terminated' = TRUE /\ UNCHANGED at
  /\ UNCHANGED <<configuration, main, todo, thread, spinning, m_promise,
                 futureTaken, ok, program, logger, m_is_logging, callback,
                 received, report>>

\* spin: its threads, its sleep and its cancels.
Spin ==
  /\ Doing("spin")
  /\ \/ Wake \/ BlockInSleep
     \/ \E e \in Executors : CreateThread(e) \/ Cancel(e)
  /\ IF main' = "spun" THEN Proceed ELSE UNCHANGED at
  /\ UNCHANGED <<program, logger, m_is_logging, callback, received, report>>

\* For the mutation runs: stop leaves m_is_logging set.
KeepLogging ==
  /\ ~terminated /\ Doing("stop logger") /\ Proceed
  /\ UNCHANGED <<vars, program, logger, m_is_logging, callback, received,
                 report>>

\* stop, which returns at once if the logger was never started ...
ClearLogging ==
  /\ ~terminated /\ Doing("stop logger") /\ Proceed
  /\ m_is_logging' = FALSE
  /\ UNCHANGED <<vars, program, logger, callback, received, report>>

\* For the mutation runs: stop without the join.
LeaveLogger ==
  /\ ~terminated /\ Doing("join logger") /\ Proceed
  /\ UNCHANGED <<vars, program, logger, m_is_logging, callback, received,
                 report>>

\* ... and joins the thread.
JoinLogger ==
  /\ ~terminated /\ Doing("join logger") /\ Proceed
  /\ logger \in {"none", "ended"}
  /\ UNCHANGED <<vars, program, logger, m_is_logging, callback, received,
                 report>>

\* For the mutation runs: a program that forgets to shut rclcpp down.
SkipShutDown ==
  /\ MainAt("spun") /\ Doing("shut down") /\ Proceed
  /\ UNCHANGED <<vars, program, logger, m_is_logging, callback, received,
                 report>>

ShutDownRclcpp ==
  /\ Doing("shut down") /\ Proceed
  /\ ShutDown
  /\ UNCHANGED <<program, logger, m_is_logging, callback, received, report>>

SleepGrace ==
  /\ ~terminated /\ Doing("sleep 500ms") /\ Proceed
  /\ GraceSuffices => \A e \in Executors : thread[e] # "callback"
  /\ UNCHANGED <<vars, program, logger, m_is_logging, callback, received,
                 report>>

\* log_* and save_* copy the trackers of a node after the other's; a file that
\* cannot be opened is not written.
CanReport(r) == r = "save all" => program.results = "folder"
WithCount(counts, e) ==
  [x \in DOMAIN counts \union {e} |-> IF x = e THEN received[e] ELSE counts[x]]
Reported(e, r) ==
  /\ report' = [report EXCEPT ![r] = WithCount(@, e)]
  /\ IF DOMAIN report'[r] = m_executors_map THEN Proceed ELSE UNCHANGED at
Report ==
  /\ ~terminated
  /\ \E r \in Reports :
       /\ Doing(r)
       /\ \/ /\ CanReport(r)
             /\ \E e \in m_executors_map \ DOMAIN report[r] : Reported(e, r)
          \/ ~CanReport(r) /\ Proceed /\ UNCHANGED report
  /\ UNCHANGED <<vars, program, logger, m_is_logging, callback, received>>

\* ~BaseNode and ~ComposableSubscriber: log_trackers_latency_all_stats.
DestroyNodes ==
  /\ ~terminated /\ main = "destroyed" /\ LogsAtDestruction(program)
  /\ \E e \in m_executors_map \ DOMAIN report["log nodes"] :
       report' = [report EXCEPT !["log nodes"] = WithCount(@, e)]
  /\ UNCHANGED <<vars, program, at, logger, m_is_logging, callback, received>>

\* The end of the scope: ~System.
EndScope ==
  /\ Over
  /\ Destroy \/ \E e \in Executors : Cancel(e) \/ Join(e)
  /\ UNCHANGED experimentVars

ProgramStep ==
  \/ StartLogger \/ SetLatencyCallback \/ WaitDiscovery \/ Spin
  \/ ClearLogging \/ JoinLogger \/ ShutDownRclcpp \/ SleepGrace
  \/ Report \/ EndScope \/ DestroyNodes

-----------------------------------------------------------------------------
(* The other threads. *)

\* The logger's thread: it samples, through the callback if it has it, and
\* looks at m_is_logging before it sleeps again.
LoggerStep ==
  /\ ~terminated
  /\ \/ logger = "asleep"
        /\ logger' = IF callback THEN "in the system" ELSE "sampled"
     \/ logger = "in the system" /\ logger' = "sampled"
     \/ logger = "sampled" /\ logger' = IF m_is_logging THEN "asleep"
                                                        ELSE "ended"
  /\ UNCHANGED <<vars, program, at, m_is_logging, callback, received, report>>

\* A thread of an executor: a callback that returns may have counted a message.
ExecutorStep(e) ==
  /\ ThreadStep(e)
  /\ \/ UNCHANGED received
     \/ /\ thread[e] = "callback" /\ received[e] < MaxReceived
        /\ received' = [received EXCEPT ![e] = @ + 1]
  /\ UNCHANGED <<program, at, logger, m_is_logging, callback, report>>

ExperimentNext ==
  \/ ProgramStep
  \/ LoggerStep
  \/ \E e \in Executors : ExecutorStep(e)
  \/ Signal /\ UNCHANGED experimentVars

\* Threads are scheduled and callbacks return; a signal need not come.
ExperimentSpec ==
  /\ ExperimentInit /\ [][ExperimentNext]_allVars
  /\ WF_allVars(ProgramStep)
  /\ WF_allVars(LoggerStep)
  /\ \A e \in Executors : WF_allVars(ExecutorStep(e))

-----------------------------------------------------------------------------
Complete(r) == DOMAIN report[r] = m_executors_map

\* The types of the variables.
ExperimentTypeOK ==
  /\ TypeOK
  /\ program \in Programs /\ at \in 1 .. Len(program.steps) + 1
  /\ logger \in {"none", "asleep", "in the system", "sampled", "ended"}
  /\ m_is_logging \in BOOLEAN
  /\ callback \in BOOLEAN
  /\ received \in [Executors -> 0 .. MaxReceived]
  /\ report \in [Reports -> UNION {[S -> 0 .. MaxReceived] :
                                    S \in SUBSET m_executors_map}]

\* When the system is destroyed, with its nodes and their trackers, nothing
\* uses it any more nor will: its threads have ended, and so has the logger's
\* if it has the system's callback (~System, ResourceUsageLogger::stop).
NothingOutlivesSystem ==
  main = "destroyed" =>
    /\ \A e \in m_executors_map : thread[e] = "ended"
    /\ callback => logger \in {"none", "ended"}

\* The reports of an experiment are about the same messages, although each
\* copies the trackers anew: printed and saved, by tracker and in total, they
\* count as many for every executor, and no message is received after them
\* (irobot_benchmark and examples: shut down and sleep first; composition
\* benchmark: the nodes report when the system is gone).
ReportsAgree ==
  /\ \A q, r \in Reports : Complete(q) /\ Complete(r) => report[q] = report[r]
  /\ main = "destroyed" =>
       \A r \in Reports :
         Complete(r) => \A e \in m_executors_map : report[r][e] = received[e]

\* Every report the program asks for is there when it ends by itself.
ReportsWritten ==
  main = "destroyed" =>
    \A r \in Reports :
      (\E i \in DOMAIN program.steps : program.steps[i] = r) => Complete(r)

\* A program comes to its end, however late the threads start and whatever
\* the logger does, unless the assertion of wait_discovery ends it, or a signal
\* whose shutdown meets the end of the duration leaves sleep_task and the
\* shutdown waiting for each other (executors.cpp:106-109; SleepDeadlock.cfg
\* has the trace).  With NothingOutlivesSystem, all its spin functions have
\* stopped when it ends.
ExperimentEnds ==
  <>(\/ main = "destroyed"
     \/ terminated /\ Doing("discover")
     \/ main = "blocked")
=============================================================================
