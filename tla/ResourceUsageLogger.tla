------------------------ MODULE ResourceUsageLogger ------------------------
(***************************************************************************)
(* ResourceUsageLogger: a thread that writes a line of resource usage each *)
(* period, the main thread that starts and stops it, and the callback by   *)
(* which it samples the average latency of the subscriptions while the     *)
(* executors' threads scan messages.                                       *)
(*                                                                         *)
(* Neither get_trackers_avg_latency nor scan locks a tracker: each access  *)
(* to a counter is a step of its own.  Of a message only its presence      *)
(* counts: whether the mean of a tracker exists, not what it is.  CPU and  *)
(* memory figures are the operating system's and are left out.             *)
(***************************************************************************)
EXTENDS Naturals, FiniteSets, FiniteSetsExt

CONSTANTS
  Subscriptions,
  MaxMessages,   \* bound: messages a subscription receives
  MaxLines       \* bound: lines the thread writes before it is stopped

ASSUME ResourceUsageLoggerAssumption == {MaxMessages, MaxLines} \subseteq Nat

VARIABLES
  main,           \* where the main thread is
  m_is_logging,
  file,           \* whether m_file is open
  callback,       \* whether m_get_average_latency_func is set
  thread,         \* where m_logger_thread is
  todo,           \* subscriptions get_trackers_avg_latency has yet to read
  tracker,        \* the subscription it reads
  total_received, \* its local variable of that name
  nan,            \* whether its total_latency is not a number
  lines,          \* history: lines written
  reported,       \* history: messages the written averages are over
  scanning,       \* scanning[s]: where the thread that scans for s is
  loaded,         \* loaded[s]: the counter as that thread's ++ has read it
  delta_received, \* delta_received[s]: m_delta_received_messages
  delta_n,        \* delta_n[s]: the number of samples of m_delta_stat
  received        \* received[s]: m_received_messages

mainVars == <<main, m_is_logging, callback>>
sampleVars == <<todo, tracker, total_received, nan>>
historyVars == <<lines, reported>>
scanVars == <<scanning, loaded, received>>
deltaVars == <<delta_received, delta_n>>
loggerVars == <<mainVars, file, thread, sampleVars, historyVars, scanVars,
          deltaVars>>

Sum(f) == MapThenSumSet(LAMBDA s : f[s], Subscriptions)

-----------------------------------------------------------------------------
LoggerInit ==
  /\ main = "constructed"
  /\ m_is_logging = FALSE
  /\ file = FALSE
  /\ callback = FALSE
  /\ thread = "none"
  /\ todo = {}
  /\ tracker = CHOOSE s \in Subscriptions : TRUE
  /\ total_received = 0
  /\ nan = FALSE
  /\ lines = 0
  /\ reported = 0
  /\ scanning = [s \in Subscriptions |-> "idle"]
  /\ loaded = [s \in Subscriptions |-> 0]
  /\ delta_received = [s \in Subscriptions |-> 0]
  /\ delta_n = [s \in Subscriptions |-> 0]
  /\ received = [s \in Subscriptions |-> 0]

\* start; without the file it logs nothing but m_is_logging stays set.
Start ==
  /\ main = "constructed"
  /\ main' = "started"
  /\ m_is_logging' = TRUE
  /\ \/ file' = TRUE /\ thread' = "test"
     \/ UNCHANGED <<file, thread>>
  /\ UNCHANGED <<callback, sampleVars, historyVars, scanVars, deltaVars>>

\* set_get_latency_callback, by System::set_latency_callback.
SetCallback ==
  /\ main = "started"
  /\ main' = "spinning"
  /\ callback' = TRUE
  /\ UNCHANGED <<m_is_logging, file, thread, sampleVars, historyVars,
                 scanVars, deltaVars>>

\* stop, as far as the join.
Stop ==
  /\ main = "spinning"
  /\ main' = "joining"
  /\ m_is_logging' = FALSE
  /\ UNCHANGED <<callback, file, thread, sampleVars, historyVars, scanVars,
                 deltaVars>>

\* For the mutation runs: stop without the join.
CloseWithoutJoin ==
  /\ main = "joining"
  /\ main' = "stopped"
  /\ file' = FALSE
  /\ UNCHANGED <<m_is_logging, callback, thread, sampleVars, historyVars,
                 scanVars, deltaVars>>

\* The rest of stop: join the thread, if there is one, and close the file.
Close ==
  /\ main = "joining"
  /\ thread \in {"none", "done"}
  /\ main' = "stopped"
  /\ file' = FALSE
  /\ UNCHANGED <<m_is_logging, callback, thread, sampleVars, historyVars,
                 scanVars, deltaVars>>

\* The system joins its threads and is destroyed with the nodes and their
\* trackers; then the logger, whose destructor finds nothing to stop.
Destroy ==
  /\ main = "stopped"
  /\ \A s \in Subscriptions : scanning[s] = "idle"
  /\ main' = "destroyed"
  /\ UNCHANGED <<m_is_logging, callback, file, thread, sampleVars,
                 historyVars, scanVars, deltaVars>>

-----------------------------------------------------------------------------
(* The logger thread. *)

\* For the mutation runs: a loop that does not test m_is_logging.
TestIgnored ==
  /\ thread = "test"
  /\ lines < MaxLines
  /\ thread' = "asleep"
  /\ UNCHANGED <<mainVars, file, sampleVars, historyVars, scanVars, deltaVars>>

\* while (m_is_logging).
Test ==
  /\ thread = "test"
  /\ \/ m_is_logging /\ lines < MaxLines /\ thread' = "asleep"
     \/ ~m_is_logging /\ thread' = "done"
  /\ UNCHANGED <<mainVars, file, sampleVars, historyVars, scanVars, deltaVars>>

\* The period is over: _get runs, with the callback if it is set.
Get ==
  /\ thread = "asleep"
  /\ thread' = IF callback /\ Subscriptions # {} THEN "next" ELSE "print"
  /\ todo' = Subscriptions
  /\ total_received' = 0
  /\ nan' = FALSE
  /\ UNCHANGED <<mainVars, file, tracker, historyVars, scanVars, deltaVars>>

\* get_trackers_avg_latency, a tracker at a time: its count of messages ...
ReadReceived(s) ==
  /\ thread = "next"
  /\ s \in todo
  /\ thread' = "multiply"
  /\ tracker' = s
  /\ todo' = todo \ {s}
  /\ total_received' = total_received + delta_received[s]
  /\ UNCHANGED <<mainVars, file, nan, historyVars, scanVars, deltaVars>>

\* ... the product with the mean, which is NaN without samples ...
AddProduct ==
  /\ thread = "multiply"
  /\ thread' = "reset"
  /\ nan' = (nan \/ delta_n[tracker] = 0)
  /\ UNCHANGED <<mainVars, file, todo, tracker, total_received, historyVars,
                 scanVars, deltaVars>>

\* ... and the two resets.
ResetReceived ==
  /\ thread = "reset"
  /\ thread' = "reset stat"
  /\ delta_received' = [delta_received EXCEPT ![tracker] = 0]
  /\ UNCHANGED <<mainVars, file, sampleVars, historyVars, scanVars, delta_n>>

ResetStat ==
  /\ thread = "reset stat"
  /\ thread' = IF todo = {} THEN "print" ELSE "next"
  /\ delta_n' = [delta_n EXCEPT ![tracker] = 0]
  /\ UNCHANGED <<mainVars, file, sampleVars, historyVars, scanVars,
                 delta_received>>

\* _print.
PrintLine ==
  /\ thread = "print"
  /\ thread' = "test"
  /\ lines' = lines + 1
  /\ reported' = reported + total_received
  /\ UNCHANGED <<mainVars, file, sampleVars, scanVars, deltaVars>>

LoggerStep ==
  \/ Test
  \/ Get
  \/ \E s \in Subscriptions : ReadReceived(s)
  \/ AddProduct
  \/ ResetReceived
  \/ ResetStat
  \/ PrintLine

-----------------------------------------------------------------------------
(* scan, in the thread of the subscription's executor. *)

AddSample(s) ==
  /\ scanning[s] = "idle"
  /\ main \in {"spinning", "joining", "stopped"}
  /\ received[s] < MaxMessages
  /\ scanning' = [scanning EXCEPT ![s] = "load"]
  /\ delta_n' = [delta_n EXCEPT ![s] = @ + 1]
  /\ UNCHANGED <<mainVars, file, thread, sampleVars, historyVars, loaded,
                 received, delta_received>>

\* m_received_messages++, and m_delta_received_messages++ as far as its read.
LoadDelta(s) ==
  /\ scanning[s] = "load"
  /\ scanning' = [scanning EXCEPT ![s] = "store"]
  /\ received' = [received EXCEPT ![s] = @ + 1]
  /\ loaded' = [loaded EXCEPT ![s] = delta_received[s]]
  /\ UNCHANGED <<mainVars, file, thread, sampleVars, historyVars, deltaVars>>

\* For the mutation runs: the message counted twice.
StoreDeltaTwice(s) ==
  /\ scanning[s] = "store"
  /\ scanning' = [scanning EXCEPT ![s] = "idle"]
  /\ delta_received' = [delta_received EXCEPT ![s] = loaded[s] + 2]
  /\ UNCHANGED <<mainVars, file, thread, sampleVars, historyVars, loaded,
                 received, delta_n>>

StoreDelta(s) ==
  /\ scanning[s] = "store"
  /\ scanning' = [scanning EXCEPT ![s] = "idle"]
  /\ delta_received' = [delta_received EXCEPT ![s] = loaded[s] + 1]
  /\ UNCHANGED <<mainVars, file, thread, sampleVars, historyVars, loaded,
                 received, delta_n>>

ScanStep(s) == AddSample(s) \/ LoadDelta(s) \/ StoreDelta(s)

LoggerNext ==
  \/ Start
  \/ SetCallback
  \/ Stop
  \/ Close
  \/ Destroy
  \/ LoggerStep
  \/ \E s \in Subscriptions : ScanStep(s)

\* Threads are scheduled and periods pass; only Start need not happen.
LoggerSpec ==
  /\ LoggerInit /\ [][LoggerNext]_loggerVars
  /\ WF_loggerVars(SetCallback \/ Stop \/ Close)
  /\ WF_loggerVars(LoggerStep)

-----------------------------------------------------------------------------
\* The types of the variables.
LoggerTypeOK ==
  /\ main \in {"constructed", "started", "spinning", "joining", "stopped",
               "destroyed"}
  /\ {m_is_logging, file, callback, nan} \subseteq BOOLEAN
  /\ thread \in {"none", "test", "asleep", "next", "multiply", "reset",
                 "reset stat", "print", "done"}
  /\ todo \subseteq Subscriptions /\ tracker \in Subscriptions
  /\ {total_received, reported} \subseteq Nat
  /\ lines \in 0 .. MaxLines
  /\ scanning \in [Subscriptions -> {"idle", "load", "store"}]
  /\ \A f \in {loaded, delta_received, delta_n, received} :
       f \in [Subscriptions -> 0 .. MaxMessages]

\* Once stop has returned, no sample is in progress or to come: nothing
\* writes to the closed file, or reads trackers that are being destroyed.
NothingAfterStop ==
  main \in {"stopped", "destroyed"} => thread \in {"none", "done"}

\* stop returns, wherever the thread is in its period, and whether or not it
\* was ever created.
StopReturns == main = "joining" ~> main = "stopped"

\* The figure is an average (resource_usage_logger.cpp: "get the average
\* latency in microseconds") whenever a message arrived in the period.
AverageIsANumber == thread = "print" /\ total_received > 0 => ~nan

\* The values are reset after they are read (stat_logger.cpp: "Reset values
\* after read"): no message is in the averages of two periods.
EachMessageReportedOnce == reported <= Sum(received)
=============================================================================
