----------------------------- MODULE WaitProofs -----------------------------
(***************************************************************************)
(* Theorems about what waits for something else to end: sleep_task for a   *)
(* shutdown, ResourceUsageLogger::stop for the logger's thread, and the    *)
(* parent process of irobot_benchmark for its children.  They hold for any *)
(* number of threads that sleep, subscriptions and processes.              *)
(***************************************************************************)
EXTENDS SleepTask, ResourceUsageLogger, MultiProcess, FiniteSetTheorems,
        SequenceTheorems, WellFoundedInduction, TLAPS

-----------------------------------------------------------------------------
(* sleep_task: the inductive invariant. *)

\* The types, with the size of `current' as the callback that runs.
TypeInv ==
  /\ pc \in [Sleepers -> {"register", "lock", "check", "waiting", "woken",
                          "expired", "remove", "returned"}]
  /\ mtx \in [Sleepers -> {"free", "sleeper"}]
  /\ triggered \in [Sleepers -> BOOLEAN]
  /\ callbacks \subseteq Sleepers
  /\ callbacksMutex \in BOOLEAN
  /\ shutdown \in {"idle", "pick", "set", "notify", "done"}
  /\ toCall \subseteq Sleepers

\* shutdown runs at most one callback, and between two of them none.
CurrentInv ==
  /\ shutdown \in {"idle", "pick", "done"} => current = {}
  /\ shutdown \in {"set", "notify"} => \E s \in Sleepers : current = {s}

\* The mutex protects what shutdown is going to call: while there is anything
\* left, shutdown holds the mutex, and all of it is still registered.
MutexInv ==
  /\ shutdown \in {"pick", "set", "notify"} => callbacksMutex
  /\ shutdown \in {"idle", "done"} => toCall = {}
  /\ toCall \union current \subseteq callbacks

\* A callback is registered only between add_ and remove_on_shutdown_callback.
RegisteredInv ==
  \A s \in callbacks : pc[s] \notin {"register", "returned"}

Inv == TypeInv /\ CurrentInv /\ MutexInv /\ RegisteredInv

-----------------------------------------------------------------------------
\* Initially nothing is registered and nothing runs.
LEMMA InvInit == Init => Inv
  BY DEF Init, Inv, TypeInv, CurrentInv, MutexInv, RegisteredInv

\* What a step of a sleeper in the middle of sleep_task leaves alone.
Local(s) ==
  /\ s \in Sleepers
  /\ UNCHANGED <<callbacks, callbacksMutex, shutdown, toCall, current>>
  /\ \E to \in {"check", "waiting", "woken", "expired", "remove"} :
       pc' = [pc EXCEPT ![s] = to]
  /\ mtx' \in [Sleepers -> {"free", "sleeper"}]
  /\ triggered' \in [Sleepers -> BOOLEAN]

\* Such a step preserves the invariant.
LEMMA LocalStep ==
  ASSUME Inv, NEW s, Local(s)
  PROVE  Inv'
<1>1. TypeInv'
  <2>1. pc' \in [Sleepers -> {"register", "lock", "check", "waiting", "woken",
                             "expired", "remove", "returned"}]
    BY DEF Local, Inv, TypeInv
  <2>2. /\ mtx' \in [Sleepers -> {"free", "sleeper"}]
        /\ triggered' \in [Sleepers -> BOOLEAN]
    BY DEF Local
  <2> QED
    BY <2>1, <2>2 DEF Local, Inv, TypeInv
<1>2. CurrentInv' /\ MutexInv'
  BY DEF Local, Inv, CurrentInv, MutexInv
<1>3. RegisteredInv'
  BY DEF Local, Inv, TypeInv, RegisteredInv
<1> QED
  BY <1>1, <1>2, <1>3 DEF Inv

\* Everything a thread in sleep_task does preserves the invariant: only
\* Register and Remove touch the callbacks, and only while shutdown does not
\* hold their mutex.
LEMMA SleeperStep ==
  ASSUME Inv, NEW s \in Sleepers, Sleeper(s) \/ TimeOut(s)
  PROVE  Inv'
<1>1. CASE Register(s)
  <2>1. shutdown \in {"idle", "done"}
    BY <1>1 DEF Register, Inv, TypeInv, MutexInv
  <2>2. toCall = {} /\ current = {}
    BY <2>1 DEF Inv, CurrentInv, MutexInv
  <2>3. TypeInv'
    BY <1>1 DEF Register, Goto, Inv, TypeInv
  <2>4. CurrentInv' /\ MutexInv'
    BY <1>1, <2>1, <2>2 DEF Register, Inv, CurrentInv, MutexInv
  <2>5. RegisteredInv'
    BY <1>1 DEF Register, Goto, Inv, TypeInv, RegisteredInv
  <2> QED BY <2>3, <2>4, <2>5 DEF Inv
<1>2. CASE Lock(s)
  BY <1>2, LocalStep DEF Lock, Goto, Acquire, Local, Inv, TypeInv
<1>3. CASE Check(s)
  BY <1>3, LocalStep DEF Check, Goto, Release, Local, Inv, TypeInv
<1>4. CASE Reacquire(s)
  BY <1>4, LocalStep DEF Reacquire, Goto, Acquire, Local, Inv, TypeInv
<1>5. CASE TimeOut(s)
  BY <1>5, LocalStep DEF TimeOut, Goto, Local, Inv, TypeInv
<1>6. CASE Remove(s)
  <2>1. shutdown \in {"idle", "done"}
    BY <1>6 DEF Remove, Inv, TypeInv, MutexInv
  <2>2. toCall = {} /\ current = {}
    BY <2>1 DEF Inv, CurrentInv, MutexInv
  <2>3. TypeInv'
    BY <1>6 DEF Remove, Goto, Release, Inv, TypeInv
  <2>4. CurrentInv' /\ MutexInv'
    BY <1>6, <2>1, <2>2 DEF Remove, Inv, CurrentInv, MutexInv
  <2>5. RegisteredInv'
    BY <1>6 DEF Remove, Goto, Inv, TypeInv, RegisteredInv
  <2> QED BY <2>3, <2>4, <2>5 DEF Inv
<1> QED
  BY <1>1, <1>2, <1>3, <1>4, <1>5, <1>6 DEF Sleeper

\* Every step of the thread in rclcpp::shutdown preserves the invariant.
LEMMA ShutdownStep ==
  ASSUME Inv, BeginShutdown \/ RunCallbacks
  PROVE  Inv'
<1>1. CASE BeginShutdown
  BY <1>1 DEF BeginShutdown, Inv, TypeInv, CurrentInv, MutexInv, RegisteredInv
<1>2. CASE EndShutdown
  BY <1>2 DEF EndShutdown, Inv, TypeInv, CurrentInv, MutexInv, RegisteredInv
<1>3. ASSUME NEW s \in Sleepers, PickCallback(s)
      PROVE  Inv'
  <2>1. current' = {s}
    BY <1>3 DEF PickCallback, Inv, CurrentInv
  <2> QED
    BY <1>3, <2>1
    DEF PickCallback, Inv, TypeInv, CurrentInv, MutexInv, RegisteredInv
<1>4. ASSUME NEW s \in Sleepers, SetTriggered(s)
      PROVE  Inv'
  BY <1>4
  DEF SetTriggered, Inv, TypeInv, CurrentInv, MutexInv, RegisteredInv
<1>5. ASSUME NEW s \in Sleepers, NotifyAll(s)
      PROVE  Inv'
  <2>1. current' = {}
    BY <1>5 DEF NotifyAll, Inv, CurrentInv
  <2>2. TypeInv'
    BY <1>5 DEF NotifyAll, Inv, TypeInv
  <2>3. CurrentInv' /\ MutexInv'
    BY <1>5, <2>1 DEF NotifyAll, Inv, CurrentInv, MutexInv
  <2>4. RegisteredInv'
    BY <1>5 DEF NotifyAll, Inv, TypeInv, RegisteredInv
  <2> QED BY <2>2, <2>3, <2>4 DEF Inv
<1> QED
  BY <1>1, <1>2, <1>3, <1>4, <1>5 DEF RunCallbacks

\* The invariant is inductive.
LEMMA InvStep == Inv /\ [Next]_vars => Inv'
<1> SUFFICES ASSUME Inv, [Next]_vars PROVE Inv'
  OBVIOUS
<1>1. CASE \E s \in Sleepers : Sleeper(s) \/ TimeOut(s)
  BY <1>1, SleeperStep
<1>2. CASE BeginShutdown \/ RunCallbacks
  BY <1>2, ShutdownStep
<1>3. CASE UNCHANGED vars
  BY <1>3
  DEF vars, Inv, TypeInv, CurrentInv, MutexInv, RegisteredInv
<1> QED
  BY <1>1, <1>2, <1>3 DEF Next

\* The invariant holds in every state.
LEMMA InvAlways == Spec => []Inv
  BY InvInit, InvStep, PTL DEF Spec

-----------------------------------------------------------------------------
\* The variables of SleepTask keep their types, and shutdown runs one callback
\* at a time, for any number of sleeping threads.
THEOREM TypeCorrect == Spec => []TypeOK
<1>1. Inv => TypeOK
  <2> SUFFICES ASSUME Inv PROVE TypeOK
    OBVIOUS
  <2>1. current = {} \/ \E s \in Sleepers : current = {s}
    BY DEF Inv, TypeInv, CurrentInv
  <2>2. current \subseteq Sleepers
    BY <2>1
  <2>3. CASE current = {}
    <3>1. Cardinality(current) = 0
      BY <2>3, FS_EmptySet
    <3> QED
      BY <2>2, <3>1 DEF Inv, TypeInv, TypeOK
  <2>4. ASSUME NEW s \in Sleepers, current = {s}
        PROVE  TypeOK
    <3>1. Cardinality(current) = 1
      BY <2>4, FS_Singleton
    <3> QED
      BY <2>2, <3>1 DEF Inv, TypeInv, TypeOK
  <2> QED
    BY <2>1, <2>3, <2>4
<1> QED
  BY <1>1, InvAlways, PTL

\* Once sleep_task has returned, nothing will run its callback, which refers
\* to its dead stack frame: remove_on_shutdown_callback and the mutex shutdown
\* holds see to it, whatever the deadlines.
THEOREM CallbacksNeverDangle == Spec => []NoDanglingCallback
<1>1. Inv => NoDanglingCallback
  BY DEF Inv, MutexInv, RegisteredInv, NoDanglingCallback
<1> QED
  BY <1>1, InvAlways, PTL

-----------------------------------------------------------------------------
(* The logger. *)

Sampling ==
  {"asleep", "next", "multiply", "reset", "reset stat", "print"}

LoggerTypeInv ==
  /\ main \in {"constructed", "started", "spinning", "joining", "stopped",
               "destroyed"}
  /\ m_is_logging \in BOOLEAN /\ file \in BOOLEAN /\ callback \in BOOLEAN
  /\ thread \in Sampling \union {"none", "test", "done"}
  /\ todo \subseteq Subscriptions /\ tracker \in Subscriptions
  /\ nan \in BOOLEAN
  /\ total_received \in Nat /\ reported \in Nat /\ lines \in Nat
  /\ scanning \in [Subscriptions -> {"idle", "load", "store"}]
  /\ loaded \in [Subscriptions -> Nat] /\ received \in [Subscriptions -> Nat]
  /\ delta_received \in [Subscriptions -> Nat]
  /\ delta_n \in [Subscriptions -> Nat]

\* What the counters of a subscription are while its thread is in scan, which
\* counts a sample before the message and the message in two steps.
CountersInv ==
  \A s \in Subscriptions :
    /\ received[s] <= MaxMessages
    /\ scanning[s] = "load" => received[s] < MaxMessages
    /\ scanning[s] # "load" => delta_n[s] <= received[s]
    /\ delta_n[s] <= received[s] + 1
    /\ delta_received[s] <= received[s]
    /\ loaded[s] <= received[s]
    /\ scanning[s] = "store" => loaded[s] < received[s]

\* The thread has seen that it may write a line until it has written it.
LinesInv ==
  /\ lines <= MaxLines
  /\ thread \in Sampling => lines < MaxLines

LoggerInv == LoggerTypeInv /\ CountersInv /\ LinesInv

LEMMA LoggerBounds == MaxMessages \in Nat /\ MaxLines \in Nat
  BY ResourceUsageLoggerAssumption

\* Initially there is no thread and nothing has been counted.
LEMMA LoggerInvInit ==
  ASSUME Subscriptions # {}, LoggerInit
  PROVE  LoggerInv
<1>1. (CHOOSE s \in Subscriptions : TRUE) \in Subscriptions
  OBVIOUS
<1> QED
  <2>1. LoggerTypeInv
    BY <1>1 DEF LoggerInit, LoggerTypeInv
  <2>2. CountersInv /\ LinesInv
    BY LoggerBounds DEF LoggerInit, CountersInv, LinesInv, Sampling
  <2> QED
    BY <2>1, <2>2 DEF LoggerInv

\* The main thread touches no counter.
LEMMA LoggerMainStep ==
  ASSUME LoggerInv,
         \/ Start \/ SetCallback \/ Stop \/ Close
         \/ Destroy
  PROVE  LoggerInv'
<1>1. UNCHANGED <<todo, tracker, total_received, nan, lines, reported, scanning,
                  loaded, received, delta_received, delta_n>>
  BY DEF Start, SetCallback, Stop, Close, Destroy,
         sampleVars, historyVars, scanVars, deltaVars
<1>2. /\ main' \in {"constructed", "started", "spinning", "joining", "stopped",
                    "destroyed"}
      /\ m_is_logging' \in BOOLEAN /\ file' \in BOOLEAN /\ callback' \in BOOLEAN
      /\ thread' \in {thread, "test"}
  BY DEF LoggerInv, LoggerTypeInv, Start, SetCallback, Stop,
         Close, Destroy
<1> QED
  BY <1>1, <1>2 DEF LoggerInv, LoggerTypeInv, CountersInv, LinesInv, Sampling

\* Between two samples the logger's thread touches no counter; in a sample it
\* reads some and sets some to 0.
LEMMA LoggerThreadStep ==
  ASSUME LoggerInv, LoggerStep
  PROVE  LoggerInv'
<1> USE LoggerBounds DEF mainVars, sampleVars, historyVars, scanVars, deltaVars
<1>1. CASE Test \/ Get \/ AddProduct
  <2>1. UNCHANGED <<main, m_is_logging, callback, file, tracker, lines, reported,
                    scanning, loaded, received, delta_received, delta_n>>
    BY <1>1 DEF Test, Get, AddProduct
  <2>2. /\ thread' \in {"asleep", "done", "next", "print", "reset"}
        /\ todo' \in {todo, Subscriptions} /\ total_received' \in {total_received, 0}
    BY <1>1 DEF Test, Get, AddProduct
  <2>3. nan' \in BOOLEAN
    <3>1. nan' = nan \/ nan' = FALSE \/ nan' = (nan \/ delta_n[tracker] = 0)
      BY <1>1 DEF Test, Get, AddProduct
    <3> QED
      BY <3>1 DEF LoggerInv, LoggerTypeInv
  <2>4. thread' \in Sampling => lines < MaxLines
    BY <1>1 DEF LoggerInv, LinesInv, Sampling, Test, Get,
                AddProduct
  <2>5. LoggerTypeInv'
    <3>1. todo' \subseteq Subscriptions /\ total_received' \in Nat
      BY <2>2 DEF LoggerInv, LoggerTypeInv
    <3>2. thread' \in Sampling \union {"none", "test", "done"}
      BY <2>2 DEF Sampling
    <3> QED
      BY <2>1, <2>3, <3>1, <3>2 DEF LoggerInv, LoggerTypeInv
  <2>6. CountersInv' /\ LinesInv'
    BY <2>1, <2>4 DEF LoggerInv, CountersInv, LinesInv
  <2> QED
    BY <2>5, <2>6 DEF LoggerInv
<1>2. ASSUME NEW s \in Subscriptions, ReadReceived(s)
      PROVE  LoggerInv'
  <2>1. UNCHANGED <<main, m_is_logging, callback, file, nan, lines, reported,
                    scanning, loaded, received, delta_received, delta_n>>
    BY <1>2 DEF ReadReceived
  <2>2. /\ thread = "next" /\ thread' = "multiply" /\ tracker' \in Subscriptions
        /\ todo' \subseteq Subscriptions
        /\ total_received' = total_received + delta_received[s]
    BY <1>2 DEF LoggerInv, LoggerTypeInv, ReadReceived
  <2>3. total_received' \in Nat
    BY <2>2 DEF LoggerInv, LoggerTypeInv
  <2> QED
    BY <2>1, <2>2, <2>3
    DEF LoggerInv, LoggerTypeInv, CountersInv, LinesInv, Sampling
<1>3. CASE ResetReceived
  <2>1. UNCHANGED <<main, m_is_logging, callback, file, todo, tracker,
                    total_received, nan, lines, reported, scanning, loaded,
                    received, delta_n>>
    BY <1>3 DEF ResetReceived
  <2>2. /\ delta_received' = [delta_received EXCEPT ![tracker] = 0]
        /\ thread = "reset" /\ thread' = "reset stat"
    BY <1>3 DEF ResetReceived
  <2>3. LoggerTypeInv'
    BY <2>1, <2>2 DEF LoggerInv, LoggerTypeInv, Sampling
  <2>4. CountersInv'
    <3>1. \A s \in Subscriptions : delta_received'[s] \in {0, delta_received[s]}
      BY <2>2 DEF LoggerInv, LoggerTypeInv
    <3> QED
      BY <2>1, <3>1 DEF LoggerInv, LoggerTypeInv, CountersInv
  <2>5. LinesInv'
    BY <2>1, <2>2 DEF LoggerInv, LinesInv, Sampling
  <2> QED
    BY <2>3, <2>4, <2>5 DEF LoggerInv
<1>4. CASE ResetStat
  <2>1. UNCHANGED <<main, m_is_logging, callback, file, todo, tracker,
                    total_received, nan, lines, reported, scanning, loaded,
                    received, delta_received>>
    BY <1>4 DEF ResetStat
  <2>2. /\ delta_n' = [delta_n EXCEPT ![tracker] = 0]
        /\ thread = "reset stat" /\ thread' \in {"next", "print"}
    BY <1>4 DEF ResetStat
  <2>3. LoggerTypeInv'
    BY <2>1, <2>2 DEF LoggerInv, LoggerTypeInv, Sampling
  <2>4. CountersInv'
    <3>1. \A s \in Subscriptions : delta_n'[s] \in {0, delta_n[s]}
      BY <2>2 DEF LoggerInv, LoggerTypeInv
    <3> QED
      BY <2>1, <3>1 DEF LoggerInv, LoggerTypeInv, CountersInv
  <2>5. LinesInv'
    BY <2>1, <2>2 DEF LoggerInv, LinesInv, Sampling
  <2> QED
    BY <2>3, <2>4, <2>5 DEF LoggerInv
<1>5. CASE PrintLine
  <2>1. UNCHANGED <<main, m_is_logging, callback, file, todo, tracker,
                    total_received, nan, scanning, loaded, received,
                    delta_received, delta_n>>
    BY <1>5 DEF PrintLine
  <2>2. /\ thread = "print" /\ thread' = "test" /\ lines' = lines + 1
        /\ reported' = reported + total_received
    BY <1>5 DEF PrintLine
  <2> QED
    BY <2>1, <2>2 DEF LoggerInv, LoggerTypeInv, CountersInv, LinesInv, Sampling
<1> QED
  BY <1>1, <1>2, <1>3, <1>4, <1>5 DEF LoggerStep

\* A scan adds one to each counter, and the last it does is to store what it has
\* loaded, one higher.
LEMMA LoggerScanStep ==
  ASSUME LoggerInv, NEW s \in Subscriptions, ScanStep(s)
  PROVE  LoggerInv'
<1> USE LoggerBounds DEF mainVars, sampleVars, historyVars, scanVars, deltaVars
<1>1. CASE AddSample(s)
  BY <1>1 DEF LoggerInv, LoggerTypeInv, CountersInv, LinesInv, AddSample
<1>2. CASE LoadDelta(s)
  BY <1>2 DEF LoggerInv, LoggerTypeInv, CountersInv, LinesInv, LoadDelta
<1>3. CASE StoreDelta(s)
  BY <1>3 DEF LoggerInv, LoggerTypeInv, CountersInv, LinesInv, StoreDelta
<1> QED
  BY <1>1, <1>2, <1>3 DEF ScanStep

\* The variables keep their types although samples and scans race: no race makes
\* a counter of a period larger than the number of messages of all periods
\* (stat_logger.cpp: get_trackers_avg_latency; tracker.cpp: scan).
THEOREM LoggerTypeCorrect ==
  ASSUME Subscriptions # {}
  PROVE  LoggerSpec => []LoggerTypeOK
<1>1. LoggerInit => LoggerInv
  BY LoggerInvInit
<1>2. LoggerInv /\ [LoggerNext]_loggerVars => LoggerInv'
  <2> SUFFICES ASSUME LoggerInv, [LoggerNext]_loggerVars PROVE LoggerInv'
    OBVIOUS
  <2>1. CASE UNCHANGED loggerVars
    <3>1. UNCHANGED <<main, m_is_logging, callback, file, thread, todo, tracker,
                      total_received, nan, lines, reported, scanning, loaded,
                      received, delta_received, delta_n>>
      BY <2>1 DEF loggerVars, mainVars, sampleVars, historyVars, scanVars,
                  deltaVars
    <3>2. LoggerTypeInv'
      BY <3>1 DEF LoggerInv, LoggerTypeInv
    <3>3. CountersInv'
      BY <3>1 DEF LoggerInv, CountersInv
    <3>4. LinesInv'
      BY <3>1 DEF LoggerInv, LinesInv
    <3> QED
      BY <3>2, <3>3, <3>4 DEF LoggerInv
  <2>2. CASE Start \/ SetCallback \/ Stop \/ Close \/ Destroy
    BY <2>2, LoggerMainStep
  <2>3. CASE LoggerStep
    BY <2>3, LoggerThreadStep
  <2>4. ASSUME NEW s \in Subscriptions, ScanStep(s)
        PROVE  LoggerInv'
    BY <2>4, LoggerScanStep
  <2> QED
    BY <2>1, <2>2, <2>3, <2>4 DEF LoggerNext
<1>3. LoggerInv => LoggerTypeOK
  <2> SUFFICES ASSUME LoggerInv PROVE LoggerTypeOK
    OBVIOUS
  <2>1. \A f \in {loaded, delta_received, delta_n, received} :
          f \in [Subscriptions -> 0 .. MaxMessages]
    <3>1. /\ loaded \in [Subscriptions -> 0 .. MaxMessages]
          /\ received \in [Subscriptions -> 0 .. MaxMessages]
          /\ delta_received \in [Subscriptions -> 0 .. MaxMessages]
      BY LoggerBounds DEF LoggerInv, LoggerTypeInv, CountersInv
    <3>2. \A s \in Subscriptions : delta_n[s] \in 0 .. MaxMessages
      BY LoggerBounds DEF LoggerInv, LoggerTypeInv, CountersInv
    <3> QED
      BY <3>1, <3>2 DEF LoggerInv, LoggerTypeInv
  <2>2. lines \in 0 .. MaxLines
    BY LoggerBounds DEF LoggerInv, LoggerTypeInv, LinesInv
  <2> QED
    BY <2>1, <2>2 DEF LoggerInv, LoggerTypeInv, Sampling, LoggerTypeOK
<1> QED
  BY <1>1, <1>2, <1>3, PTL DEF LoggerSpec

\* Once stop has returned, no sample of the logger's thread is in progress or to
\* come, wherever in its period stop found it and whether or not start had
\* opened its file (resource_usage_logger.cpp: start, stop).
THEOREM NoSampleAfterStop == LoggerSpec => []NothingAfterStop
<1> USE DEF NothingAfterStop
<1>1. LoggerInit => NothingAfterStop
  BY DEF LoggerInit
<1>2. ASSUME NothingAfterStop, [LoggerNext]_loggerVars
      PROVE  NothingAfterStop'
  <2>1. CASE Start \/ SetCallback \/ Stop \/ Close
    BY <2>1 DEF Start, SetCallback, Stop, Close
  <2>2. CASE Destroy
    BY <1>2, <2>2 DEF Destroy
  <2>3. CASE LoggerStep
    BY <1>2, <2>3
    DEF LoggerStep, Test, Get, ReadReceived,
        AddProduct, ResetReceived, ResetStat,
        PrintLine, mainVars
  <2>4. ASSUME NEW s \in Subscriptions, ScanStep(s)
        PROVE  NothingAfterStop'
    BY <1>2, <2>4
    DEF ScanStep, AddSample, LoadDelta, StoreDelta,
        mainVars
  <2>5. CASE UNCHANGED loggerVars
    BY <1>2, <2>5 DEF loggerVars, mainVars
  <2> QED
    BY <1>2, <2>1, <2>2, <2>3, <2>4, <2>5 DEF LoggerNext
<1> QED
  BY <1>1, <1>2, PTL DEF LoggerSpec
-----------------------------------------------------------------------------
(* The processes of irobot_benchmark. *)

\* The options are those of a command line main has accepted.
OptionsInv ==
  \E arguments \in Accepted(CommandLines) :
    options = Parse(arguments)

\* What parse_options makes of an accepted command line.
LEMMA ParsedOptions ==
  ASSUME NEW arguments \in Accepted(CommandLines)
  PROVE  /\ Parse(arguments).topology = arguments.topology
         /\ Parse(arguments).csv_out \in BOOLEAN
<1>1. "topology" \in DOMAIN arguments
  BY DEF Accepted, ParseEnds
<1>2. "csv_out" \in DOMAIN Defaults /\ Defaults.csv_out = FALSE
  BY DEF Defaults
<1>3. "topology" \notin Switches /\ "csv_out" \in Switches
  BY DEF Switches
<1>4. Parse(arguments).topology = arguments.topology
  BY <1>1, <1>3 DEF Parse
<1>5. CASE "csv_out" \in DOMAIN arguments
  <2>1. Parse(arguments).csv_out = (arguments["csv_out"] = "on")
    BY <1>3, <1>5 DEF Parse
  <2> QED
    BY <1>4, <2>1
<1>6. CASE "csv_out" \notin DOMAIN arguments
  BY <1>2, <1>4, <1>6 DEF Parse
<1> QED
  BY <1>5, <1>6

\* The processes, and their directories: each has one of its own, and it is the
\* one the parent looks into.
LEMMA DirectoryFacts ==
  ASSUME OptionsInv
  PROVE  /\ topologies \in Seq(Stems)
         /\ Parent \in Nat \ {0}
         /\ Processes = 1 .. Parent
         /\ Processes \subseteq DOMAIN Trackers
         /\ csv_out \in BOOLEAN
         /\ \A i \in Processes :
              /\ Directory(i) \in Directories
              /\ AggregateDirectory(i) = Directory(i)
         /\ DistinctNames =>
              \A i, j \in Processes :
                Directory(i) = Directory(j) => i = j
<1>1. PICK arguments \in Accepted(CommandLines) :
        options = Parse(arguments)
  BY DEF OptionsInv
<1>2. /\ topologies = arguments.topology
      /\ csv_out \in BOOLEAN
  BY <1>1, ParsedOptions DEF topologies, csv_out
<1>3. /\ topologies \in Seq(Stems) /\ topologies # <<>>
      /\ DOMAIN topologies \subseteq DOMAIN Trackers
  BY <1>2, MultiProcessAssumption
<1>4. /\ Parent \in Nat \ {0}
      /\ Processes = 1 .. Parent
  BY <1>3 DEF Parent, Processes
<1>5. \A i \in Processes :
        AggregateDirectory(i) = Directory(i)
  BY DEF AggregateDirectory, Directory, Multi
<1>6. \A i \in Processes : topologies[i] \in Stems
  BY <1>3 DEF Processes
<1>7. results_dir =>
        options.results_dir
          \in {Parse(line).results_dir :
                 line \in Accepted(CommandLines)} \ {""}
  BY <1>1 DEF results_dir
<1>8. \A i \in Processes :
        Directory(i) \in Directories
  BY <1>6, <1>7 DEF Directory, Directories
<1>9. ASSUME DistinctNames, NEW i \in Processes,
             NEW j \in Processes,
             Directory(i) = Directory(j)
      PROVE  i = j
  <2>1. CASE results_dir /\ ~Multi
    BY <1>4, <2>1 DEF Multi, Parent
  <2>2. CASE ~(results_dir /\ ~Multi)
    <3>1. topologies[i] = topologies[j]
      BY <1>9, <2>2 DEF Directory
    <3> QED
      BY <1>2, <1>9, <3>1 DEF DistinctNames, Processes
  <2> QED
    BY <2>1, <2>2
<1>10. Processes \subseteq DOMAIN Trackers
  BY <1>3 DEF Processes
<1> QED
  BY <1>2, <1>3, <1>4, <1>5, <1>8, <1>9, <1>10
\* Only the parent forks, waits and aggregates, and it cannot crash; by the time
\* it aggregates, the others are gone.
ProcessInv ==
  /\ OptionsInv
  /\ forked \in 0 .. Parent - 1
  /\ process \in [Processes -> {"none", "forking", "running", "saving",
                      "waiting", "aggregating", "exited", "crashed"}]
  /\ \A i \in 1 .. forked : process[i] # "none"
  /\ process[Parent] \notin {"none", "crashed"}
  /\ \A i \in Processes \ {Parent} :
       process[i] \notin {"forking", "waiting", "aggregating"}
  /\ process[Parent] \in {"aggregating", "exited"} =>
       \A i \in Processes \ {Parent} :
         process[i] \in {"exited", "crashed"}

\* The options of main do not change, and nothing that depends on them.
LEMMA SameOptions ==
  ASSUME UNCHANGED options
  PROVE  /\ OptionsInv => OptionsInv'
         /\ UNCHANGED <<Parent, Processes, csv_out,
                        topologies>>
         /\ \A i : /\ Directory(i)' = Directory(i)
                   /\ AggregateDirectory(i)'
                        = AggregateDirectory(i)
<1>1. UNCHANGED <<topologies, results_dir, csv_out>>
  BY DEF topologies, results_dir, csv_out
<1>2. UNCHANGED <<Parent, Processes, Multi>>
  BY <1>1 DEF Parent, Processes, Multi
<1>3. \A i : /\ Directory(i)' = Directory(i)
            /\ AggregateDirectory(i)' = AggregateDirectory(i)
  BY <1>1, <1>2 DEF Directory, AggregateDirectory
<1>4. OptionsInv => OptionsInv'
  BY DEF OptionsInv
<1> QED
  BY <1>1, <1>2, <1>3, <1>4

LEMMA ProcessInvInit ==
  ASSUME ProcessesInit
  PROVE  ProcessInv
<1>1. OptionsInv
  BY DEF ProcessesInit, OptionsInv
<1>2. /\ Parent \in Nat \ {0}
      /\ Processes = 1 .. Parent
  BY <1>1, DirectoryFacts
<1>3. /\ forked = 0
      /\ process = [i \in Processes |->
                      IF i = Parent THEN "forking" ELSE "none"]
  BY DEF ProcessesInit
<1> QED
  BY <1>1, <1>2, <1>3 DEF ProcessInv

\* A process goes on, or the parent forks another.
LEMMA ProcessInvStep ==
  ASSUME ProcessInv, ProcessesNext
  PROVE  ProcessInv'
<1> DEFINE P == Parent
           Procs == Processes
<1>1. UNCHANGED options
  BY DEF ProcessesNext, Step, Fork, WaitForChildren,
         Aggregate, OpenTotals, WriteTotals,
         Crash
<1>2. OptionsInv' /\ UNCHANGED <<P, Procs>>
  BY <1>1, SameOptions DEF ProcessInv
<1>3. P \in Nat \ {0} /\ Procs = 1 .. P /\ P \in Procs
  BY DirectoryFacts DEF ProcessInv
<1>4. ASSUME NEW i \in Procs, NEW to, process' = [process EXCEPT ![i] = to],
             to \in {"running", "saving", "exited", "crashed", "waiting",
                    "aggregating"},
             i # P => to \notin {"waiting", "aggregating"},
             i = P => to # "crashed",
             process[P] \in {"aggregating", "exited"} => i = P,
             i = P /\ to \in {"aggregating", "exited"} =>
               \A j \in Procs \ {P} : process[j] \in {"exited", "crashed"},
             \/ UNCHANGED forked
             \/ forked' = forked + 1 /\ i = forked' /\ forked < P - 1
      PROVE  ProcessInv'
  <2>1. /\ process'[i] = to
        /\ \A j \in Procs \ {i} : process'[j] = process[j]
    BY <1>4 DEF ProcessInv
  <2>2. process' \in [Procs -> {"none", "forking", "running", "saving", "waiting",
                               "aggregating", "exited", "crashed"}]
    BY <1>4 DEF ProcessInv
  <2>3. forked' \in 0 .. P - 1
    BY <1>3, <1>4 DEF ProcessInv
  <2>4. \A j \in 1 .. forked' : process'[j] # "none"
    BY <1>3, <1>4, <2>1, <2>3 DEF ProcessInv
  <2>5. /\ process'[P] \notin {"none", "crashed"}
        /\ \A j \in Procs \ {P} :
             process'[j] \notin {"forking", "waiting", "aggregating"}
    BY <1>3, <1>4, <2>1 DEF ProcessInv
  <2>6. process'[P] \in {"aggregating", "exited"} =>
          \A j \in Procs \ {P} : process'[j] \in {"exited", "crashed"}
    BY <1>3, <1>4, <2>1 DEF ProcessInv
  <2> QED
    BY <1>2, <2>2, <2>3, <2>4, <2>5, <2>6 DEF ProcessInv
<1>5. CASE Fork
  <2>1. CASE forked < P - 1
    <3>1. forked + 1 \in Procs /\ forked + 1 # P
      BY <1>3, <2>1 DEF ProcessInv
    <3>2. /\ process[P] = "forking" /\ forked' = forked + 1
          /\ process' = [process EXCEPT ![forked + 1] = "running"]
      BY <1>5, <2>1 DEF Fork
    <3> QED
      BY <1>4, <2>1, <3>1, <3>2
  <2>2. CASE ~(forked < P - 1)
    <3>1. /\ UNCHANGED forked /\ process[P] = "forking"
          /\ process' = [process EXCEPT ![P] = "running"]
      BY <1>5, <2>2 DEF Fork
    <3> QED
      BY <1>3, <1>4, <3>1
  <2> QED
    BY <2>1, <2>2
<1>6. CASE WaitForChildren
  <2>1. /\ UNCHANGED forked
        /\ process' = [process EXCEPT ![P] = "aggregating"]
        /\ \A j \in Procs \ {P} : process[j] \in {"exited", "crashed"}
    BY <1>6 DEF WaitForChildren, Move
  <2> QED
    BY <1>3, <1>4, <2>1
<1>7. CASE Aggregate
  <2>1. /\ UNCHANGED forked /\ process[P] = "aggregating"
        /\ \/ process' = [process EXCEPT ![P] = "exited"]
           \/ process' = [process EXCEPT ![P] = process[P]]
    BY <1>7 DEF Aggregate
  <2> QED
    BY <1>3, <1>4, <2>1 DEF ProcessInv
<1>8. ASSUME NEW i \in Procs, OpenTotals(i)
      PROVE  ProcessInv'
  <2>1. /\ UNCHANGED forked /\ process[i] = "running"
        /\ process' = [process EXCEPT ![i] = "saving"]
    BY <1>8 DEF OpenTotals, Move
  <2> QED
    BY <1>4, <2>1 DEF ProcessInv
<1>9. ASSUME NEW i \in Procs, WriteTotals(i)
      PROVE  ProcessInv'
  <2>1. /\ UNCHANGED forked /\ process[i] = "saving"
        /\ i = P => process' = [process EXCEPT ![i] = "waiting"]
        /\ i # P => process' = [process EXCEPT ![i] = "exited"]
    BY <1>9 DEF WriteTotals, Move
  <2> QED
    BY <1>4, <2>1 DEF ProcessInv
<1>10. ASSUME NEW i \in Procs, Crash(i)
       PROVE  ProcessInv'
  <2>1. /\ UNCHANGED forked /\ i # P /\ process[i] \in {"running", "saving"}
        /\ process' = [process EXCEPT ![i] = "crashed"]
    BY <1>10 DEF Crash, Move
  <2> QED
    BY <1>4, <2>1 DEF ProcessInv
<1> QED
  BY <1>5, <1>6, <1>7, <1>8, <1>9, <1>10 DEF ProcessesNext, Step

\* A process whose results are saved keeps its directory to itself, when no two
\* topologies have files of the same name (irobot_benchmark.cpp:
\* create_result_directory, "each forked process needs its own subdir").
THEOREM PeersNotOverwritten ==
  ASSUME DistinctNames
  PROVE  ProcessesSpec => NoPeerOverwritten
<1>1. ProcessesInit => ProcessInv
  BY ProcessInvInit
<1>2. ProcessInv /\ [ProcessesNext]_processVars => ProcessInv'
  <2>1. CASE UNCHANGED processVars
    <3>1. UNCHANGED <<options, forked, process>>
      BY <2>1 DEF processVars
    <3> QED
      BY <3>1, SameOptions DEF ProcessInv
  <2> QED
    BY <2>1, ProcessInvStep
<1>3. ASSUME ProcessInv, ProcessesNext, NEW i \in Processes,
             process[i] \in {"waiting", "aggregating", "exited"}
      PROVE  files'[Directory(i)] = files[Directory(i)]
  <2>1. \A j \in Processes :
          Directory(i) = Directory(j) => i = j
    BY <1>3, DirectoryFacts DEF ProcessInv
  <2>2. \/ UNCHANGED files
        \/ \E j \in Processes : \E line :
             /\ process[j] \in {"running", "saving"}
             /\ files' = [files EXCEPT ![Directory(j)] = line]
    BY <1>3 DEF ProcessesNext, Step, Fork,
                WaitForChildren, Aggregate,
                OpenTotals, WriteTotals, Crash,
                Move
  <2>3. ASSUME NEW j \in Processes, NEW line,
               process[j] \in {"running", "saving"},
               files' = [files EXCEPT ![Directory(j)] = line]
        PROVE  files'[Directory(i)] = files[Directory(i)]
    <3>1. Directory(i) # Directory(j)
      BY <1>3, <2>1, <2>3
    <3> QED
      BY <2>3, <3>1
  <2> QED
    BY <2>2, <2>3
<1>4. ProcessInv /\ [ProcessesNext]_processVars
        => [\A i \in Processes :
              process[i] \in {"waiting", "aggregating", "exited"} =>
                files'[Directory(i)]
                  = files[Directory(i)]]_processVars
  BY <1>3
<1> QED
  BY <1>1, <1>2, <1>4, PTL DEF ProcessesSpec, NoPeerOverwritten
-----------------------------------------------------------------------------
(* What the parent reads, and what the others have written. *)

\* The parent reads once for each topology, and only when it aggregates.
ReadingInv ==
  /\ \E S : aggregate \in Seq(S)
  /\ process[Parent] \notin {"aggregating", "exited"} => aggregate = <<>>
  /\ Len(aggregate) <= Parent
  /\ process[Parent] = "aggregating" => Len(aggregate) < Parent

\* A step that reads nothing, after which the parent has at most begun to.
LEMMA KeepReading ==
  ASSUME ProcessInv, ReadingInv,
         UNCHANGED <<options, aggregate>>,
         process'[Parent] \notin {"aggregating", "exited"} =>
           process[Parent] \notin {"aggregating", "exited"},
         process'[Parent] = "aggregating" =>
           process[Parent] # "exited"
  PROVE  ReadingInv'
<1>1. UNCHANGED Parent
  BY SameOptions
<1>2. Parent \in Nat \ {0}
  BY DirectoryFacts DEF ProcessInv
<1>3. process'[Parent] = "aggregating" =>
        Len(aggregate) < Parent
  <2>1. CASE process[Parent] = "aggregating"
    BY <2>1 DEF ReadingInv
  <2>2. CASE process[Parent] \notin {"aggregating", "exited"}
    <3>1. Len(aggregate) = 0
      BY <2>2 DEF ReadingInv
    <3> QED
      BY <1>2, <3>1
  <2> QED
    BY <2>1, <2>2
<1>4. /\ \E S : aggregate \in Seq(S)
      /\ Len(aggregate) <= Parent
  BY DEF ReadingInv
<1>5. process'[Parent] \notin {"aggregating", "exited"} =>
        aggregate = <<>>
  BY DEF ReadingInv
<1> QED
  BY <1>1, <1>3, <1>4, <1>5 DEF ReadingInv

\* What an iteration of print_aggregate_stats reads.
LEMMA ReadNext ==
  ASSUME ProcessInv, ReadingInv, Aggregate
  PROVE  LET next == Len(aggregate) + 1
             figures == Figures(files[Directory(next)])
         IN /\ next \in Processes /\ next \in Nat
            /\ DOMAIN aggregate = 1 .. Len(aggregate) /\ DOMAIN aggregate' = 1 .. next
            /\ aggregate' = Append(aggregate, figures)
            /\ \A k \in 1 .. Len(aggregate) : aggregate'[k] = aggregate[k]
            /\ aggregate'[next] = figures
            /\ ReadingInv'
<1> DEFINE P == Parent
           next == Len(aggregate) + 1
           figures == Figures(files[Directory(next)])
<1>1. UNCHANGED options /\ process[P] = "aggregating"
  BY DEF Aggregate
<1>2. UNCHANGED P
  BY <1>1, SameOptions
<1>3. OptionsInv
  BY DEF ProcessInv
<1>4. P \in Nat \ {0} /\ Processes = 1 .. P
  BY <1>3, DirectoryFacts
<1>5. PICK S : aggregate \in Seq(S)
  BY DEF ReadingInv
<1>6. Len(aggregate) \in Nat /\ DOMAIN aggregate = 1 .. Len(aggregate)
  BY <1>5
<1>7. Len(aggregate) < P /\ next \in Processes
  BY <1>1, <1>4, <1>6 DEF ReadingInv
<1>8. AggregateDirectory(next) = Directory(next)
  BY <1>3, <1>7, DirectoryFacts
<1>9. aggregate' = Append(aggregate, figures)
  BY <1>8 DEF Aggregate
<1> HIDE DEF figures
<1> DEFINE T == S \union {figures}
<1>10. aggregate \in Seq(T) /\ figures \in T
  BY <1>5
<1>11. /\ aggregate' \in Seq(T) /\ Len(aggregate') = next
       /\ \A k \in 1 .. Len(aggregate) : aggregate'[k] = aggregate[k]
       /\ aggregate'[next] = figures
       /\ DOMAIN aggregate' = 1 .. next
  BY <1>9, <1>10, AppendProperties
<1>12. /\ next = P => process' = [process EXCEPT ![P] = "exited"]
       /\ next # P => process' = [process EXCEPT ![P] = process[P]]
  BY DEF Aggregate, Parent
<1>13. /\ next = P => process'[P] = "exited"
       /\ next # P => process'[P] = "aggregating"
  BY <1>1, <1>4, <1>12 DEF ProcessInv
<1>14. /\ process'[P] \in {"aggregating", "exited"}
       /\ Len(aggregate') <= P
       /\ process'[P] = "aggregating" => Len(aggregate') < P
  BY <1>4, <1>6, <1>7, <1>11, <1>13
<1>15. ReadingInv'
  BY <1>2, <1>11, <1>14 DEF ReadingInv
<1> QED
  BY <1>6, <1>7, <1>9, <1>11, <1>15 DEF figures

\* How the other steps change the states of the processes.
LEMMA OtherSteps ==
  ASSUME ProcessInv, ProcessesNext,
         ~Aggregate
  PROVE  /\ UNCHANGED <<options, aggregate>>
         /\ process'[Parent] \notin {"aggregating", "exited"} =>
              process[Parent] \notin {"aggregating", "exited"}
         /\ process'[Parent] = "aggregating" =>
              process[Parent] # "exited"
         /\ \/ /\ UNCHANGED files
               /\ \A j \in Processes :
                    process'[j] \in {"waiting", "aggregating", "exited"} =>
                      process[j] \in {"waiting", "aggregating", "exited"}
            \/ \E i \in Processes :
                 OpenTotals(i) \/ WriteTotals(i)
<1> DEFINE P == Parent
           Procs == Processes
<1>1. OptionsInv /\ process[P] \notin {"none", "crashed"}
  BY DEF ProcessInv
<1>2. P \in Procs
  BY <1>1, DirectoryFacts
<1>3. CASE Fork
  <2>1. UNCHANGED <<options, files, aggregate>> /\ process[P] = "forking"
    BY <1>3 DEF Fork
  <2>2. PICK i \in Procs : process' = [process EXCEPT ![i] = "running"]
    <3>1. forked \in 0 .. P - 1 /\ P \in Nat \ {0} /\ Procs = 1 .. P
      BY <1>1, DirectoryFacts DEF ProcessInv
    <3>2. \/ process' = [process EXCEPT ![P] = "running"]
          \/ /\ forked + 1 \in Procs
             /\ process' = [process EXCEPT ![forked + 1] = "running"]
      BY <1>3, <3>1 DEF Fork
    <3> QED
      BY <1>2, <3>2
  <2>3. process'[i] = "running" /\ \A j \in Procs \ {i} : process'[j] = process[j]
    BY <2>2 DEF ProcessInv
  <2> QED
    BY <1>2, <2>1, <2>3
<1>4. CASE WaitForChildren
  <2>1. /\ UNCHANGED <<options, files, aggregate>> /\ process[P] = "waiting"
        /\ process' = [process EXCEPT ![P] = "aggregating"]
    BY <1>4 DEF WaitForChildren, Move
  <2>2. /\ process'[P] = "aggregating"
        /\ \A j \in Procs \ {P} : process'[j] = process[j]
    BY <1>2, <2>1 DEF ProcessInv
  <2> QED
    BY <2>1, <2>2
<1>5. ASSUME NEW i \in Procs, OpenTotals(i)
      PROVE  /\ UNCHANGED <<options, aggregate>>
             /\ process[P] \notin {"aggregating", "exited"}
                  \/ process'[P] = process[P]
             /\ process'[P] # "aggregating" \/ process[P] = "aggregating"
  <2>1. /\ UNCHANGED <<options, aggregate>> /\ process[i] = "running"
        /\ process' = [process EXCEPT ![i] = "saving"]
    BY <1>5 DEF OpenTotals, Move
  <2>2. process'[i] = "saving" /\ \A j \in Procs \ {i} : process'[j] = process[j]
    BY <2>1 DEF ProcessInv
  <2> QED
    BY <1>2, <2>1, <2>2
<1>6. ASSUME NEW i \in Procs, WriteTotals(i)
      PROVE  /\ UNCHANGED <<options, aggregate>>
             /\ process[P] \notin {"aggregating", "exited"}
                  \/ process'[P] = process[P]
             /\ process'[P] # "aggregating" \/ process[P] = "aggregating"
  <2> DEFINE to == IF i = P THEN "waiting" ELSE "exited"
  <2>1. /\ UNCHANGED <<options, aggregate>> /\ process[i] = "saving"
        /\ process' = [process EXCEPT ![i] = to]
    BY <1>6 DEF WriteTotals, Move
  <2>2. process'[i] = to /\ \A j \in Procs \ {i} : process'[j] = process[j]
    BY <2>1 DEF ProcessInv
  <2> QED
    BY <1>2, <2>1, <2>2
<1>7. ASSUME NEW i \in Procs, Crash(i)
      PROVE  /\ UNCHANGED <<options, files, aggregate>>
             /\ process'[P] = process[P]
             /\ \A j \in Procs :
                  process'[j] \in {"waiting", "aggregating", "exited"} =>
                    process[j] \in {"waiting", "aggregating", "exited"}
  <2>1. /\ UNCHANGED <<options, files, aggregate>> /\ i # P
        /\ process' = [process EXCEPT ![i] = "crashed"]
    BY <1>7 DEF Crash, Move
  <2>2. process'[i] = "crashed" /\ \A j \in Procs \ {i} : process'[j] = process[j]
    BY <2>1 DEF ProcessInv
  <2> QED
    BY <1>2, <2>1, <2>2
<1> QED
  BY <1>3, <1>4, <1>5, <1>6, <1>7 DEF ProcessesNext, Step

LEMMA ReadingStep ==
  ASSUME ProcessInv, ReadingInv, ProcessesNext
  PROVE  ReadingInv'
<1>1. CASE Aggregate
  BY <1>1, ReadNext
<1>2. CASE ~Aggregate
  BY <1>2, OtherSteps, KeepReading
<1> QED
  BY <1>1, <1>2

\* Results that are saved stay, and what the parent has read so far is what the
\* files still hold: nothing is written once it has begun to read.
ResultsInv ==
  /\ ReadingInv
  /\ DOMAIN files = Directories
  /\ \A i \in Processes :
       process[i] \in {"waiting", "aggregating", "exited"} =>
         files[Directory(i)] = TotalLine[i][csv_out]
  /\ \A k \in DOMAIN aggregate :
       aggregate[k] = Figures(files[Directory(k)])

LEMMA ReadingInit ==
  ASSUME ProcessInv, ProcessesInit
  PROVE  ReadingInv
<1>1. Parent \in Nat \ {0}
  BY DirectoryFacts DEF ProcessInv
<1>2. aggregate = <<>> /\ process[Parent] # "aggregating"
  BY DirectoryFacts DEF ProcessesInit, ProcessInv
<1>3. aggregate \in Seq({}) /\ Len(aggregate) = 0
  BY <1>2
<1> QED
  BY <1>1, <1>2, <1>3 DEF ReadingInv

LEMMA ResultsInit ==
  ASSUME ProcessInv, ProcessesInit
  PROVE  ResultsInv
<1>1. /\ DOMAIN files = Directories /\ aggregate = <<>>
      /\ \A i \in Processes : process[i] \in {"forking", "none"}
  BY DirectoryFacts DEF ProcessesInit, ProcessInv
<1> QED
  BY <1>1, ReadingInit DEF ResultsInv

\* A process that is not finished may write to its directory.
LEMMA WriteResults ==
  ASSUME DistinctNames, ProcessInv, ResultsInv,
         ReadingInv', UNCHANGED <<options, aggregate>>,
         NEW i \in Processes, process[i] \in {"running", "saving"},
         NEW to \in {"saving", "exited", "waiting"},
         process' = [process EXCEPT ![i] = to],
         NEW line, files' = [files EXCEPT ![Directory(i)] = line],
         to # "saving" => line = TotalLine[i][csv_out]
  PROVE  ResultsInv'
<1>1. /\ UNCHANGED <<Parent, Processes, csv_out>>
      /\ \A j : Directory(j)' = Directory(j)
  BY SameOptions
<1>2. /\ Parent \in Processes
      /\ \A j \in Processes :
           Directory(j) \in Directories
      /\ \A j \in Processes :
           Directory(i) = Directory(j) => i = j
  <2>1. OptionsInv
    BY DEF ProcessInv
  <2>2. /\ Parent \in Nat \ {0}
        /\ Processes = 1 .. Parent
    BY <2>1, DirectoryFacts
  <2>3. Parent \in Processes
    BY <2>2
  <2>4. \A j \in Processes :
          Directory(j) \in Directories
    BY <2>1, DirectoryFacts
  <2>5. \A j \in Processes :
          Directory(i) = Directory(j) => i = j
    BY <2>1, DirectoryFacts
  <2> QED
    BY <2>3, <2>4, <2>5
<1>3. /\ process'[i] = to
      /\ \A j \in Processes \ {i} : process'[j] = process[j]
  BY DEF ProcessInv
<1>4. /\ DOMAIN files' = Directories
      /\ files'[Directory(i)] = line
      /\ \A j \in Processes \ {i} :
           files'[Directory(j)] = files[Directory(j)]
  BY <1>2 DEF ResultsInv
<1>5. aggregate = <<>>
  <2>1. process[Parent] \notin {"aggregating", "exited"}
    BY <1>2 DEF ProcessInv
  <2> QED
    BY <2>1 DEF ResultsInv, ReadingInv
<1>6. DOMAIN aggregate' = {}
  BY <1>5
<1>7. ASSUME NEW j \in Processes,
             process'[j] \in {"waiting", "aggregating", "exited"}
      PROVE  files'[Directory(j)]
               = TotalLine[j][csv_out]
  BY <1>3, <1>4, <1>7 DEF ResultsInv
<1>8. UNCHANGED <<Directories, TotalLine>>
  BY DEF Directories, TotalLine
<1> QED
  BY <1>1, <1>4, <1>6, <1>7, <1>8 DEF ResultsInv

\* What does not touch the files.
LEMMA KeepResults ==
  ASSUME ProcessInv, ResultsInv, ReadingInv',
         UNCHANGED <<options, files, aggregate>>,
         \A j \in Processes :
           process'[j] \in {"waiting", "aggregating", "exited"} =>
             process[j] \in {"waiting", "aggregating", "exited"}
  PROVE  ResultsInv'
<1>1. /\ UNCHANGED <<Processes, csv_out>>
      /\ \A j : Directory(j)' = Directory(j)
  BY SameOptions
<1>2. UNCHANGED <<Directories, TotalLine>>
  BY DEF Directories, TotalLine
<1>3. ASSUME NEW k \in DOMAIN aggregate
      PROVE  aggregate[k] = Figures(files[Directory(k)])
  BY DEF ResultsInv
<1>4. DOMAIN files = Directories
  BY DEF ResultsInv
<1>5. ASSUME NEW j \in Processes,
             process'[j] \in {"waiting", "aggregating", "exited"}
      PROVE  files[Directory(j)]
               = TotalLine[j][csv_out]
  BY <1>5 DEF ResultsInv
<1> QED
  BY <1>1, <1>2, <1>3, <1>4, <1>5 DEF ResultsInv

\* The parent adds the figures of the next topology.
LEMMA AddResults ==
  ASSUME ProcessInv, ResultsInv, Aggregate
  PROVE  ResultsInv'
<1> DEFINE P == Parent
           next == Len(aggregate) + 1
           figures == Figures(files[Directory(next)])
<1>1. UNCHANGED <<options, files>> /\ process[P] = "aggregating"
  BY DEF Aggregate
<1>2. /\ UNCHANGED <<Processes, csv_out>>
      /\ \A j : Directory(j)' = Directory(j)
  BY <1>1, SameOptions
<1>3. UNCHANGED <<Directories, TotalLine>>
  BY DEF Directories, TotalLine
<1>4. P \in Processes
  BY DirectoryFacts DEF ProcessInv
<1>5. ReadingInv
  BY DEF ResultsInv
<1>6. /\ next \in Nat /\ ReadingInv'
      /\ DOMAIN aggregate = 1 .. Len(aggregate) /\ DOMAIN aggregate' = 1 .. next
      /\ \A k \in 1 .. Len(aggregate) : aggregate'[k] = aggregate[k]
      /\ aggregate'[next] = figures
  BY <1>5, ReadNext
<1>7. ASSUME NEW k \in DOMAIN aggregate'
      PROVE  aggregate'[k] = Figures(files[Directory(k)])
  <2>1. CASE k = next
    BY <1>6, <2>1
  <2>2. CASE k # next
    <3> HIDE DEF figures
    <3>1. Len(aggregate) \in Nat
      BY <1>5 DEF ReadingInv
    <3>2. k \in 1 .. Len(aggregate)
      BY <1>6, <2>2, <3>1
    <3> QED
      BY <1>6, <3>2 DEF ResultsInv
  <2> QED
    BY <2>1, <2>2
<1>8. \E to : process' = [process EXCEPT ![P] = to]
  BY DEF Aggregate
<1>9. \A j \in Processes \ {P} : process'[j] = process[j]
  BY <1>8 DEF ProcessInv
<1>10. ASSUME NEW j \in Processes,
              process'[j] \in {"waiting", "aggregating", "exited"}
       PROVE  files[Directory(j)]
                = TotalLine[j][csv_out]
  <2>1. process[j] \in {"waiting", "aggregating", "exited"}
    BY <1>1, <1>9, <1>10
  <2> QED
    BY <2>1 DEF ResultsInv
<1>11. DOMAIN files' = Directories
  BY <1>1 DEF ResultsInv
<1> QED
  BY <1>1, <1>2, <1>3, <1>6, <1>7, <1>10, <1>11 DEF ResultsInv

LEMMA ResultsStep ==
  ASSUME DistinctNames, ProcessInv, ResultsInv,
         ProcessesNext
  PROVE  ResultsInv'
<1>1. ReadingInv'
  BY ReadingStep DEF ResultsInv
<1>2. CASE Aggregate
  BY <1>2, AddResults
<1>3. ASSUME NEW i \in Processes, OpenTotals(i)
      PROVE  ResultsInv'
  <2>1. /\ UNCHANGED <<options, aggregate>> /\ process[i] = "running"
        /\ process' = [process EXCEPT ![i] = "saving"]
        /\ files' = [files EXCEPT ![Directory(i)] = NoLine]
    BY <1>3 DEF OpenTotals, Move
  <2> QED
    BY <1>1, <2>1, WriteResults
<1>4. ASSUME NEW i \in Processes, WriteTotals(i)
      PROVE  ResultsInv'
  <2> DEFINE to == IF i = Parent THEN "waiting" ELSE "exited"
  <2>1. /\ UNCHANGED <<options, aggregate>> /\ process[i] = "saving"
        /\ process' = [process EXCEPT ![i] = to]
        /\ files' = [files EXCEPT ![Directory(i)]
                       = TotalLine[i][csv_out]]
    BY <1>4 DEF WriteTotals, Move
  <2>2. to \in {"saving", "exited", "waiting"}
    OBVIOUS
  <2> QED
    BY <1>1, <2>1, <2>2, WriteResults
<1>5. CASE ~Aggregate
  BY <1>1, <1>3, <1>4, <1>5, OtherSteps, KeepResults
<1> QED
  BY <1>2, <1>5

-----------------------------------------------------------------------------
(* Numbers as text. *)

\* The powers of ten a number is compared with.
LEMMA PowersOfTen ==
  /\ PowerOfTen[0] = 1 /\ PowerOfTen[1] = 10 /\ PowerOfTen[2] = 100
  /\ PowerOfTen[3] = 1000 /\ PowerOfTen[4] = 10000 /\ PowerOfTen[5] = 100000
  /\ PowerOfTen[6] = 1000000 /\ PowerOfTen[7] = 10000000
  /\ PowerOfTen[8] = 100000000 /\ PowerOfTen[9] = 1000000000
<1>1. PowerOfTen[0] = 10^0 /\ PowerOfTen[1] = 10^1 /\ PowerOfTen[2] = 10^2
  BY DEF PowerOfTen
<1>2. PowerOfTen[3] = 10^3 /\ PowerOfTen[4] = 10^4 /\ PowerOfTen[5] = 10^5
  BY DEF PowerOfTen
<1>3. PowerOfTen[6] = 10^6 /\ PowerOfTen[7] = 10^7 /\ PowerOfTen[8] = 10^8
  BY DEF PowerOfTen
<1>4. PowerOfTen[9] = 10^9
  BY DEF PowerOfTen
<1> QED
  BY <1>1, <1>2, <1>3, <1>4

LEMMA PowersGrow ==
  /\ \A k \in 0 .. 9 : PowerOfTen[k] \in Nat \ {0}
  /\ \A j, k \in 0 .. 9 : j <= k => PowerOfTen[j] <= PowerOfTen[k]
<1>1. ASSUME NEW k \in 0 .. 9
      PROVE  k \in {0, 1, 2, 3, 4, 5, 6, 7, 8, 9}
  OBVIOUS
<1>2. ASSUME NEW k \in 0 .. 9 PROVE PowerOfTen[k] \in Nat \ {0}
  BY <1>1, PowersOfTen
<1>3. ASSUME NEW j \in 0 .. 9, NEW k \in 0 .. 9, j <= k
      PROVE  PowerOfTen[j] <= PowerOfTen[k]
  BY <1>1, <1>3, PowersOfTen
<1> QED
  BY <1>2, <1>3

LEMMA DigitsAtMost ==
  ASSUME NEW n \in Nat, NEW e \in 0 .. 9, e = 9 \/ n < PowerOfTen[e + 1]
  PROVE  Digits(n) \in 1 .. e + 1
<1> DEFINE S == {k \in 0 .. 9 : k = 0 \/ n >= PowerOfTen[k]}
<1>1. ASSUME NEW k \in S PROVE k \in 0 .. e
  <2>1. CASE e < k /\ k # 0
    <3>1. e + 1 \in 0 .. 9 /\ e + 1 <= k /\ k \in 0 .. 9 /\ n >= PowerOfTen[k]
      BY <2>1
    <3>2. /\ PowerOfTen[e + 1] <= PowerOfTen[k] /\ PowerOfTen[e + 1] \in Nat
          /\ PowerOfTen[k] \in Nat
      BY <3>1, PowersGrow
    <3> HIDE DEF S
    <3> QED
      BY <2>1, <3>1, <3>2
  <2> QED
    BY <2>1
<1>2. S \subseteq 0 .. e /\ 0 \in S
  BY <1>1
<1>3. IsFiniteSet(0 .. e) /\ Cardinality(0 .. e) = e + 1
  BY FS_Interval
<1>4. IsFiniteSet(S) /\ Cardinality(S) <= e + 1
  BY <1>2, <1>3, FS_Subset
<1>5. Cardinality(S) \in Nat /\ Cardinality(S) # 0
  BY <1>2, <1>4, FS_CardinalityType, FS_EmptySet
<1>6. Digits(n) = Cardinality(S)
  BY DEF Digits
<1> HIDE DEF S
<1> QED
  BY <1>4, <1>5, <1>6

LEMMA DigitsOf ==
  ASSUME NEW n \in Nat, NEW e \in 0 .. 9, e = 0 \/ PowerOfTen[e] <= n,
         e = 9 \/ n < PowerOfTen[e + 1]
  PROVE  Digits(n) = e + 1
<1> DEFINE S == {k \in 0 .. 9 : k = 0 \/ n >= PowerOfTen[k]}
<1>1. ASSUME NEW k \in 0 .. e PROVE k \in S
  <2>1. CASE k # 0
    <3>1. /\ PowerOfTen[k] <= PowerOfTen[e] /\ PowerOfTen[k] \in Nat
          /\ PowerOfTen[e] \in Nat
      BY PowersGrow
    <3> QED
      BY <2>1, <3>1
  <2> QED
    BY <2>1
<1>2. 0 .. e \subseteq S
  BY <1>1
<1>3. IsFiniteSet(0 .. 9) /\ Cardinality(0 .. e) = e + 1
  <2>1. IsFiniteSet(0 .. 9)
    <3>1. \A b \in Nat : IsFiniteSet(0 .. b)
      BY FS_Interval
    <3> QED
      BY <3>1
  <2>2. Cardinality(0 .. e) = e + 1
    BY FS_Interval
  <2> QED
    BY <2>1, <2>2
<1>4. IsFiniteSet(S)
  BY <1>3, FS_Subset
<1>5. Cardinality(0 .. e) <= Cardinality(S) /\ Cardinality(S) \in Nat
  BY <1>2, <1>4, FS_Subset, FS_CardinalityType
<1>6. Digits(n) = Cardinality(S)
  BY DEF Digits
<1>7. Digits(n) \in 1 .. e + 1
  BY DigitsAtMost
<1> HIDE DEF S
<1> QED
  BY <1>3, <1>5, <1>6, <1>7

LEMMA DivisionType ==
  ASSUME NEW a \in Nat, NEW b \in Nat \ {0}
  PROVE  /\ a \div b \in Nat /\ a % b \in Nat /\ a % b < b
         /\ a = b * (a \div b) + (a % b)
OBVIOUS

\* A fraction of at least a billionth has an exponent.
LEMMA ExponentRange ==
  ASSUME NEW num \in Nat \ {0}, NEW den \in Nat \ {0}, den <= 1000000000 * num
  PROVE  /\ Exponent(num, den) \in -9 .. 9
         /\ den <= 100 * num => -2 <= Exponent(num, den)
         /\ num < 1000 * den => Exponent(num, den) <= 2
<1>1. CASE num >= den
  <2> DEFINE q == num \div den
  <2>1. q \in Nat /\ Exponent(num, den) = Digits(q) - 1
    BY <1>1, DivisionType DEF Exponent
  <2>2. num < 1000 * den => q < 1000
    BY DivisionType
  <2>3. Digits(q) \in 1 .. 10
    BY <2>1, DigitsAtMost
  <2> HIDE DEF q
  <2>4. q < 1000 => Digits(q) \in 1 .. 3
    <3>1. PowerOfTen[2 + 1] = 1000
      BY PowersOfTen
    <3> QED
      BY <2>1, <3>1, DigitsAtMost
  <2> QED
    BY <2>1, <2>2, <2>3, <2>4
<1>2. CASE num < den
  <2> DEFINE Fits(k) == num * PowerOfTen[k] >= den /\ num * PowerOfTen[k - 1] < den
             k0 == CHOOSE k \in 1 .. 9 : Fits(k)
  <2>1. \E k \in 1 .. 9 : Fits(k)
    <3>1. \/ num * 10 >= den /\ num * 1 < den
          \/ num * 100 >= den /\ num * 10 < den
          \/ num * 1000 >= den /\ num * 100 < den
          \/ num * 10000 >= den /\ num * 1000 < den
          \/ num * 100000 >= den /\ num * 10000 < den
          \/ num * 1000000 >= den /\ num * 100000 < den
          \/ num * 10000000 >= den /\ num * 1000000 < den
          \/ num * 100000000 >= den /\ num * 10000000 < den
          \/ num * 1000000000 >= den /\ num * 100000000 < den
      BY <1>2
    <3>2. \/ Fits(1) \/ Fits(2) \/ Fits(3) \/ Fits(4) \/ Fits(5) \/ Fits(6)
          \/ Fits(7) \/ Fits(8) \/ Fits(9)
      BY <3>1, PowersOfTen
    <3> HIDE DEF Fits
    <3> QED
      BY <3>2
  <2>2. k0 \in 1 .. 9 /\ Fits(k0)
    BY <2>1
  <2>3. Exponent(num, den) = -k0
    BY <1>2 DEF Exponent
  <2> HIDE DEF k0
  <2>4. den <= 100 * num => k0 <= 2
    <3> SUFFICES ASSUME den <= 100 * num, 3 <= k0 PROVE FALSE
      BY <2>2
    <3>1. PowerOfTen[2] <= PowerOfTen[k0 - 1] /\ PowerOfTen[k0 - 1] \in Nat
      <4>1. 2 \in 0 .. 9 /\ k0 - 1 \in 0 .. 9 /\ 2 <= k0 - 1
        BY <2>2
      <4> QED
        BY <4>1, PowersGrow
    <3>2. PowerOfTen[2] = 100
      BY PowersOfTen
    <3>3. num * 100 <= num * PowerOfTen[k0 - 1]
      BY <3>1, <3>2
    <3> QED
      BY <2>2, <3>1, <3>3
  <2> QED
    BY <2>2, <2>3, <2>4
<1> QED
  BY <1>1, <1>2

LEMMA MantissaType ==
  ASSUME NEW num \in Nat, NEW den \in Nat \ {0}, NEW e \in -9 .. 9
  PROVE  Mantissa(num, den, e) \in Nat
<1> DEFINE p == 100 * (IF e < 0 THEN num * PowerOfTen[-e] ELSE num)
           q == IF e > 0 THEN den * PowerOfTen[e] ELSE den
           rest == 1000 * (p % q)
<1>1. p \in Nat
  <2>1. CASE e < 0
    <3>1. PowerOfTen[-e] \in Nat
      BY <2>1, PowersGrow
    <3>2. num * PowerOfTen[-e] \in Nat
      BY <3>1
    <3> QED
      BY <2>1, <3>2
  <2>2. CASE e >= 0
    BY <2>2
  <2> QED
    BY <2>1, <2>2
<1>2. q \in Nat \ {0}
  <2>1. CASE e > 0
    <3>1. PowerOfTen[e] \in Nat \ {0}
      BY <2>1, PowersGrow
    <3>2. den * PowerOfTen[e] \in Nat \ {0}
      BY <3>1
    <3> QED
      BY <2>1, <3>2
  <2>2. CASE e <= 0
    BY <2>2
  <2> QED
    BY <2>1, <2>2
<1>3. Mantissa(num, den, e) = 1000 * (p \div q) + rest \div q
                                + (IF 2 * (rest % q) >= q THEN 1 ELSE 0)
  BY DEF Mantissa
<1> HIDE DEF p, q
<1>4. p \div q \in Nat /\ rest \in Nat
  BY <1>1, <1>2, DivisionType
<1> HIDE DEF rest
<1>5. rest \div q \in Nat
  BY <1>2, <1>4, DivisionType
<1> QED
  BY <1>3, <1>4, <1>5

\* A decimal has one to six significant digits.
LEMMA SignificantDigits ==
  ASSUME NEW m \in Nat
  PROVE  6 - Max({k \in 0 .. 5 : m % PowerOfTen[k] = 0}) \in 1 .. 6
<1> DEFINE S == {k \in 0 .. 5 : m % PowerOfTen[k] = 0}
<1>1. 0 \in S
  <2>1. m % 1 = 0
    OBVIOUS
  <2> QED
    BY <2>1, PowersOfTen
<1>2. S \subseteq {0, 1, 2, 3, 4, 5}
  OBVIOUS
<1>3. 6 - Max(S) \in 1 .. 6
  <2> HIDE DEF S
  <2>1. \E x \in S : \A y \in S : x >= y
    BY <1>1, <1>2
  <2>2. Max(S) \in S
    BY <2>1 DEF Max
  <2>3. Max(S) \in {0, 1, 2, 3, 4, 5}
    BY <1>2, <2>2
  <2> QED
    BY <2>3
<1> QED
  BY <1>3

\* It takes eleven characters at most, and fewer than ten unless it is very small.
LEMMA DecimalLength ==
  ASSUME NEW m \in Nat, NEW exp \in -9 .. 10
  PROVE  /\ DecimalText(m, exp).length \in Nat /\ DecimalText(m, exp).length <= 11
         /\ exp \in -2 .. 5 => DecimalText(m, exp).length < 10
         /\ exp \in 0 .. 5 => DecimalText(m, exp).value = m \div PowerOfTen[5 - exp]
<1> DEFINE digits == 6 - Max({k \in 0 .. 5 : m % PowerOfTen[k] = 0})
           point == IF digits > 1 THEN 1 ELSE 0
<1>1. DecimalText(m, exp) =
        IF exp \in 0 .. 5
          THEN Text(IF digits > exp + 1 THEN digits + 1 ELSE exp + 1,
                    m \div PowerOfTen[5 - exp])
        ELSE IF exp \in -4 .. -1
          THEN Text(digits + 1 - exp, 0)
          ELSE Text(digits + point + 4, m \div PowerOfTen[5])
  BY DEF DecimalText
<1>2. digits \in 1 .. 6
  BY SignificantDigits
<1>3. \A x, y : Text(x, y).length = x /\ Text(x, y).value = y
  BY DEF Text
<1> HIDE DEF digits
<1>4. CASE exp \in 0 .. 5
  <2>1. DecimalText(m, exp).length = IF digits > exp + 1 THEN digits + 1 ELSE exp + 1
    BY <1>1, <1>3, <1>4
  <2>2. DecimalText(m, exp).value = m \div PowerOfTen[5 - exp]
    BY <1>1, <1>3, <1>4
  <2> QED
    BY <1>2, <1>4, <2>1, <2>2
<1>5. CASE exp \in -4 .. -1
  <2>1. DecimalText(m, exp).length = digits + 1 - exp
    BY <1>1, <1>3, <1>5
  <2> QED
    BY <1>2, <1>5, <2>1
<1>6. CASE exp \notin -4 .. 5
  <2>1. DecimalText(m, exp).length = digits + point + 4
    BY <1>1, <1>3, <1>6
  <2> QED
    BY <1>2, <1>6, <2>1
<1> QED
  BY <1>4, <1>5, <1>6

\* So does a double that is not below a billionth, and one of a hundredth to a
\* thousand leaves a blank in a column of ten.
LEMMA DoubleLength ==
  ASSUME NEW num \in Nat, NEW den \in Nat,
         num = 0 \/ den <= 1000000000 * num
  PROVE  /\ DoubleText(num, den).length \in Nat
         /\ DoubleText(num, den).length <= 11
         /\ num = 0 \/ (den <= 100 * num /\ num < 1000 * den) =>
              DoubleText(num, den).length < 10
<1>1. CASE den = 0
  <2>1. DoubleText(num, den) = Text(4, 0)
    BY <1>1 DEF DoubleText
  <2> QED
    BY <2>1 DEF Text
<1>2. CASE den # 0 /\ num = 0
  <2>1. DoubleText(num, den) = Text(1, 0)
    BY <1>2 DEF DoubleText
  <2> QED
    BY <2>1 DEF Text
<1>3. CASE den # 0 /\ num # 0
  <2> DEFINE e == Exponent(num, den)
             m == Mantissa(num, den, e)
  <2>0. num \in Nat \ {0} /\ den \in Nat \ {0} /\ den <= 1000000000 * num
    BY <1>3, SMT
  <2>1. /\ e \in -9 .. 9
        /\ den <= 100 * num => -2 <= e
        /\ num < 1000 * den => e <= 2
    BY <2>0, ExponentRange, SMT
  <2>2. DoubleText(num, den) = IF m = PowerOfTen[6] THEN DecimalText(PowerOfTen[5], e + 1)
                               ELSE DecimalText(m, e)
    BY <1>3 DEF DoubleText
  <2> HIDE DEF e
  <2>3. m \in Nat
    <3>1. num \in Nat /\ den \in Nat \ {0} /\ e \in -9 .. 9
      BY <2>0, <2>1
    <3> QED
      BY ONLY <3>1, MantissaType, Zenon
  <2>4. PowerOfTen[5] \in Nat
    BY PowersOfTen
  <2> HIDE DEF m
  <2>5. num = 0 \/ (den <= 100 * num /\ num < 1000 * den) =>
          e \in -2 .. 5 /\ e + 1 \in -2 .. 5
    BY <2>0, <2>1, SMT
  <2>6. CASE m = PowerOfTen[6]
    <3>1. e + 1 \in -9 .. 10
      BY <2>1
    <3>2. /\ DecimalText(PowerOfTen[5], e + 1).length \in Nat
          /\ DecimalText(PowerOfTen[5], e + 1).length <= 11
          /\ e + 1 \in -2 .. 5 => DecimalText(PowerOfTen[5], e + 1).length < 10
      BY ONLY <2>4, <3>1, DecimalLength, Zenon
    <3>3. DoubleText(num, den) = DecimalText(PowerOfTen[5], e + 1)
      BY <2>2, <2>6
    <3> QED
      BY ONLY <2>5, <3>2, <3>3
  <2>7. CASE m # PowerOfTen[6]
    <3>1. e \in -9 .. 10
      BY <2>1
    <3>2. /\ DecimalText(m, e).length \in Nat
          /\ DecimalText(m, e).length <= 11
          /\ e \in -2 .. 5 => DecimalText(m, e).length < 10
      BY ONLY <2>3, <3>1, DecimalLength, Zenon
    <3>3. DoubleText(num, den) = DecimalText(m, e)
      BY <2>2, <2>7
    <3> QED
      BY ONLY <2>5, <3>2, <3>3
  <2> QED
    BY <2>6, <2>7
<1> QED
  BY <1>1, <1>2, <1>3

\* The quotient and the remainder of a division are known from a remainder that
\* is small enough.
LEMMA DivisionOf ==
  ASSUME NEW a \in Nat, NEW b \in Nat \ {0}, NEW r \in Nat, r < b
  PROVE  (a * b + r) \div b = a /\ (a * b + r) % b = r
<1> DEFINE p == a * b + r
<1>1. p \in Nat
  OBVIOUS
<1> HIDE DEF p
<1>2. /\ p \div b \in Nat /\ p % b \in Nat /\ p % b < b
      /\ p = b * (p \div b) + (p % b)
  BY <1>1, DivisionType
<1>3. ASSUME NEW q \in Nat, NEW s \in Nat, s < b, a * b + r = b * q + s
      PROVE  q = a /\ s = r
  <2>1. CASE q < a
    <3>1. PICK d \in Nat : a = q + 1 + d
      BY <2>1
    <3>2. a * b = b * q + b + b * d
      BY <3>1
    <3>3. b * d \in Nat
      OBVIOUS
    <3> QED
      BY <1>3, <3>2, <3>3
  <2>2. CASE q > a
    <3>1. PICK d \in Nat : q = a + 1 + d
      BY <2>2
    <3>2. b * q = a * b + b + b * d
      BY <3>1
    <3>3. b * d \in Nat
      OBVIOUS
    <3> QED
      BY <1>3, <3>2, <3>3
  <2>3. CASE q = a
    BY <1>3, <2>3
  <2> QED
    BY <2>1, <2>2, <2>3
<1>4. p \div b = a /\ p % b = r
  BY <1>2, <1>3 DEF p
<1> QED
  BY <1>4 DEF p

\* The six digits of a number of up to six digits are exact.
LEMMA IntegralMantissa ==
  ASSUME NEW m \in Nat, NEW e \in 0 .. 5
  PROVE  Mantissa(m, 1, e) = m * PowerOfTen[5 - e]
<1> DEFINE p == 100 * m
           q == IF e > 0 THEN 1 * PowerOfTen[e] ELSE 1
           rest == 1000 * (p % q)
<1>1. Mantissa(m, 1, e) = 1000 * (p \div q) + rest \div q
                            + (IF 2 * (rest % q) >= q THEN 1 ELSE 0)
  BY DEF Mantissa
<1>2. CASE e \in {0, 1}
  <2>1. e = 0 => q = 1 /\ PowerOfTen[5 - e] = 100000
    BY PowersOfTen
  <2>2. e = 1 => q = 10 /\ PowerOfTen[5 - e] = 10000
    BY PowersOfTen
  <2>3. e = 0 => Mantissa(m, 1, e) = m * PowerOfTen[5 - e]
    BY <1>1, <2>1, SMT
  <2>4. e = 1 => Mantissa(m, 1, e) = m * PowerOfTen[5 - e]
    BY <1>1, <2>2, SMT
  <2> QED
    BY <1>2, <2>3, <2>4
<1>3. CASE e \in 2 .. 5
  <2> DEFINE w == PowerOfTen[e - 2]
             v == PowerOfTen[5 - e]
             a == m \div w
             b == m % w
  <2>1. w \in Nat \ {0} /\ v \in Nat /\ w * v = 1000 /\ PowerOfTen[e] = 100 * w
    <3>1. e = 2 \/ e = 3 \/ e = 4 \/ e = 5
      BY <1>3
    <3> QED
      BY <3>1, PowersOfTen
  <2>2. q = 100 * w
    BY <1>3, <2>1
  <2> HIDE DEF w, v, q
  <2>3. a \in Nat /\ b \in Nat /\ b < w /\ m = w * a + b
    BY <2>1, DivisionType
  <2> HIDE DEF a, b
  <2>4. q \in Nat \ {0} /\ 100 * b \in Nat /\ 100 * b < q
    BY <2>1, <2>2, <2>3
  <2>5. p = a * q + 100 * b
    <3>1. p = 100 * (w * a) + 100 * b
      <4>1. w * a \in Nat
        BY <2>1, <2>3
      <4>2. ASSUME NEW x \in Nat, m = x + b PROVE 100 * m = 100 * x + 100 * b
        BY <2>3, <4>2
      <4> QED
        BY <2>3, <4>1, <4>2
    <3>2. 100 * (w * a) = a * q
      BY <2>1, <2>2, <2>3
    <3> QED
      BY <3>1, <3>2
  <2> HIDE DEF p
  <2>6. p \div q = a /\ p % q = 100 * b
    <3>1. \A x \in Nat : x < q => (a * q + x) \div q = a /\ (a * q + x) % q = x
      BY <2>3, <2>4, DivisionOf
    <3> QED
      BY <2>4, <2>5, <3>1
  <2>7. v * b \in Nat /\ rest = (v * b) * q + 0
    <3>1. v * b \in Nat
      BY <2>1, <2>3
    <3>2. (v * b) * q = 100 * ((w * v) * b)
      BY <2>1, <2>2, <2>3
    <3>3. rest = 1000 * (100 * b)
      BY <2>6
    <3> QED
      BY <2>1, <2>3, <3>1, <3>2, <3>3
  <2> HIDE DEF rest
  <2>8. rest \div q = v * b /\ rest % q = 0
    <3>1. 0 \in Nat /\ 0 < q
      BY <2>4
    <3>2. \A x \in Nat : (x * q + 0) \div q = x /\ (x * q + 0) % q = 0
      BY <2>4, <3>1, DivisionOf
    <3> QED
      BY <2>7, <3>2
  <2>9. 1000 * a + v * b = m * v
    <3>1. m * v = (w * v) * a + v * b
      BY <2>1, <2>3
    <3> QED
      BY <2>1, <2>3, <3>1
  <2>10. Mantissa(m, 1, e) = 1000 * a + v * b + 0
    BY <1>1, <2>4, <2>6, <2>8
  <2>11. Mantissa(m, 1, e) = m * v
    BY <2>3, <2>7, <2>9, <2>10
  <2> QED
    BY <2>11 DEF v
<1> QED
  BY <1>2, <1>3

\* A number of up to six digits is read as it was written.
LEMMA IntegralText ==
  ASSUME NEW m \in Nat, m < 1000000
  PROVE  /\ DoubleText(m, 1).value = m
         /\ DoubleText(m, 1).length \in Nat /\ DoubleText(m, 1).length < 10
<1>1. CASE m = 0
  <2>1. DoubleText(m, 1) = Text(1, 0)
    BY <1>1 DEF DoubleText
  <2> QED
    BY <1>1, <2>1 DEF Text
<1>2. CASE m # 0
  <2> DEFINE e == Exponent(m, 1)
             w == PowerOfTen[5 - e]
  <2>1. m \div 1 = m
    OBVIOUS
  <2>2. e = Digits(m) - 1
    BY <1>2, <2>1 DEF Exponent
  <2>3. e \in 0 .. 5 /\ m < PowerOfTen[e + 1]
    <3>1. PICK k \in 0 .. 5 : (k = 0 \/ PowerOfTen[k] <= m) /\ m < PowerOfTen[k + 1]
      <4>1. \/ m < 10 \/ (10 <= m /\ m < 100) \/ (100 <= m /\ m < 1000)
            \/ (1000 <= m /\ m < 10000) \/ (10000 <= m /\ m < 100000)
            \/ (100000 <= m /\ m < 1000000)
        OBVIOUS
      <4> QED
        BY <4>1, PowersOfTen
    <3>2. Digits(m) = k + 1
      BY <3>1, DigitsOf
    <3> QED
      BY <2>2, <3>1, <3>2
  <2>4. w \in Nat \ {0} /\ m * w \in Nat /\ m * w < 1000000
    <3> HIDE DEF e
    <3>1. e = 0 \/ e = 1 \/ e = 2 \/ e = 3 \/ e = 4 \/ e = 5
      BY <2>3
    <3> QED
      BY <2>3, <3>1, PowersOfTen
  <2>5. Mantissa(m, 1, e) = m * w
    BY <2>3, IntegralMantissa
  <2>6. DoubleText(m, 1) = DecimalText(m * w, e)
    <3>1. PowerOfTen[6] = 1000000
      BY PowersOfTen
    <3> QED
      BY <1>2, <2>4, <2>5, <3>1 DEF DoubleText
  <2> HIDE DEF e
  <2>7. /\ DecimalText(m * w, e).value = (m * w) \div w
        /\ DecimalText(m * w, e).length \in Nat /\ DecimalText(m * w, e).length < 10
    <3>1. m * w \in Nat /\ e \in -9 .. 10 /\ e \in -2 .. 5 /\ e \in 0 .. 5
      BY <2>3, <2>4
    <3> QED
      BY ONLY <3>1, DecimalLength, Zenon
  <2>8. (m * w) \div w = m
    <3>1. w \in Nat \ {0} /\ 0 \in Nat /\ 0 < w /\ m * w = m * w + 0
      BY <2>4
    <3> HIDE DEF w
    <3>2. (m * w + 0) \div w = m
      BY ONLY <3>1, DivisionOf, Zenon
    <3> QED
      BY ONLY <3>1, <3>2, Zenon
  <2> QED
    BY <2>6, <2>7, <2>8
<1> QED
  BY <1>1, <1>2

-----------------------------------------------------------------------------
(* The totals of a process and the line they make. *)

\* The order of the natural numbers, as a relation; it descends nowhere for ever.
Below == {p \in Nat \X Nat : p[1] < p[2]}

LEMMA BelowWF == IsWellFoundedOn(Below, Nat)
<1>1. IsWellFoundedOn(OpToRel(<, Nat), Nat)
  BY NatLessThanWellFounded
<1>2. OpToRel(<, Nat) = Below
  BY DEF OpToRel, Below
<1> QED
  BY <1>1, <1>2

\* A set with 0 that has the successor of each of its numbers has them all.
LEMMA SetInduction ==
  ASSUME NEW S, 0 \in S, \A n \in Nat : n \in S => n + 1 \in S
  PROVE  \A n \in Nat : n \in S
<1> SUFFICES ASSUME NEW k \in Nat, k \notin S PROVE FALSE
  OBVIOUS
<1> DEFINE T == Nat \ S
<1>1. PICK x \in T : \A y \in T : <<y, x>> \notin Below
  BY BelowWF, WFMin
<1>2. x # 0 /\ x - 1 \in Nat
  OBVIOUS
<1>3. x - 1 \in T
  BY <1>2
<1>4. <<x - 1, x>> \in Below
  BY <1>2 DEF Below
<1> QED
  BY <1>1, <1>3, <1>4

\* The loop of log_trackers_latency_total_stats leaves natural numbers.
IsSum(g, trackers, field) ==
  g = [k \in 0 .. Len(trackers) |->
         IF k = 0 THEN 0 ELSE g[k - 1] + trackers[k][field]]

LEMMA SumExists ==
  ASSUME NEW trackers, NEW field, Len(trackers) \in Nat,
         \A k \in 1 .. Len(trackers) : trackers[k][field] \in Nat
  PROVE  \E g : IsSum(g, trackers, field)
<1> DEFINE L == Len(trackers)
           v(k) == trackers[k][field]
           Starts(g, m) == /\ g \in [0 .. m -> Nat] /\ g[0] = 0
                           /\ \A k \in 1 .. m : g[k] = g[k - 1] + v(k)
           S == {m \in Nat : m <= L => \E g : Starts(g, m)}
<1>1. 0 \in S
  <2>1. Starts([k \in 0 .. 0 |-> 0], 0)
    OBVIOUS
  <2> QED
    BY <2>1
<1>2. ASSUME NEW m \in Nat, m \in S PROVE m + 1 \in S
  <2>1. CASE m + 1 <= L
    <3>1. PICK g : Starts(g, m)
      <4> HIDE DEF Starts
      <4> QED
        BY <1>2, <2>1
    <3> DEFINE h == [k \in 0 .. m + 1 |-> IF k = m + 1 THEN g[m] + v(m + 1) ELSE g[k]]
    <3>2. g[m] \in Nat /\ v(m + 1) \in Nat
      BY <2>1, <3>1
    <3>3. h \in [0 .. m + 1 -> Nat]
      BY <3>1, <3>2
    <3>4. h[0] = 0
      BY <3>1
    <3>5. ASSUME NEW k \in 1 .. m + 1 PROVE h[k] = h[k - 1] + v(k)
      <4>1. CASE k = m + 1
        BY <4>1
      <4>2. CASE k # m + 1
        BY <3>1, <4>2
      <4> QED
        BY <4>1, <4>2
    <3>6. Starts(h, m + 1)
      BY <3>3, <3>4, <3>5
    <3> HIDE DEF Starts, h
    <3> QED
      BY <3>6
  <2>2. CASE ~(m + 1 <= L)
    BY <2>2
  <2> QED
    BY <2>1, <2>2
<1>3. \A m \in Nat : m \in S
  <2> HIDE DEF S
  <2> QED
    BY <1>1, <1>2, SetInduction
<1>4. PICK g : Starts(g, L)
  <2> HIDE DEF Starts
  <2> QED
    BY <1>3
<1>5. g = [k \in 0 .. L |-> IF k = 0 THEN 0 ELSE g[k - 1] + v(k)]
  BY <1>4
<1> QED
  BY <1>5 DEF IsSum

LEMMA SumType ==
  ASSUME NEW trackers, NEW field, Len(trackers) \in Nat,
         \A k \in 1 .. Len(trackers) : trackers[k][field] \in Nat
  PROVE  SumOf(trackers, field) \in Nat
<1> DEFINE L == Len(trackers)
           g == CHOOSE f : IsSum(f, trackers, field)
<1>1. SumOf(trackers, field) = g[L]
  BY DEF SumOf, IsSum
<1>2. IsSum(g, trackers, field)
  BY SumExists
<1> HIDE DEF g
<1>3. /\ g[0] = 0
      /\ \A k \in 1 .. L : g[k] = g[k - 1] + trackers[k][field]
  BY <1>2 DEF IsSum
<1> DEFINE S == {m \in Nat : m <= L => g[m] \in Nat}
<1>4. 0 \in S
  BY <1>3
<1>5. ASSUME NEW m \in Nat, m \in S PROVE m + 1 \in S
  BY <1>3, <1>5
<1>6. \A m \in Nat : m \in S
  <2> HIDE DEF S
  <2> QED
    BY <1>4, <1>5, SetInduction
<1> QED
  BY <1>1, <1>6

\* Without a full column each column is a token of its own.
LEMMA TokensOfColumns ==
  ASSUME NEW total, NEW csv,
         csv \/ \A k \in 1 .. 7 :
                  Columns(total)[k][2].length < Columns(total)[k][1]
  PROVE  /\ Len(Tokens(total, csv)) = 8
         /\ \A k \in 1 .. 8 : Tokens(total, csv)[k] = Columns(total)[k][2].value
<1> DEFINE columns == Columns(total)
           starts == {i \in 1 .. 8 : \/ i = 1
                                     \/ csv
                                     \/ columns[i - 1][2].length < columns[i - 1][1]}
           start(k) == CHOOSE i \in starts : Cardinality({j \in starts : j <= i}) = k
<1>1. Tokens(total, csv) = [k \in 1 .. Cardinality(starts) |-> columns[start(k)][2].value]
  BY DEF Tokens
<1>2. starts = 1 .. 8
  <2> HIDE DEF columns
  <2>1. ASSUME NEW i \in 1 .. 8, i # 1, ~csv
        PROVE  columns[i - 1][2].length < columns[i - 1][1]
    <3>1. i - 1 \in 1 .. 7
      BY <2>1
    <3> QED
      BY <2>1, <3>1 DEF columns
  <2> QED
    BY <2>1
<1> HIDE DEF starts, columns
<1>0. ASSUME NEW i \in Nat PROVE Cardinality(1 .. i) = i
  BY FS_Interval
<1>3. Cardinality(starts) = 8
  BY <1>0, <1>2
<1>4. ASSUME NEW i \in 1 .. 8 PROVE Cardinality({j \in starts : j <= i}) = i
  <2>1. {j \in starts : j <= i} = 1 .. i
    BY <1>2
  <2>2. Cardinality(1 .. i) = i
    BY <1>0
  <2> QED
    BY <2>1, <2>2
<1>5. ASSUME NEW k \in 1 .. 8 PROVE start(k) = k
  <2>1. k \in starts /\ Cardinality({j \in starts : j <= k}) = k
    BY <1>2, <1>4
  <2>2. \A i \in starts : Cardinality({j \in starts : j <= i}) = k => i = k
    BY <1>2, <1>4
  <2> QED
    BY <2>1, <2>2
<1> HIDE DEF start
<1>6. Tokens(total, csv) = [k \in 1 .. 8 |-> columns[k][2].value]
  BY <1>1, <1>3, <1>5
<1> DEFINE values == {columns[k][2].value : k \in 1 .. 8}
<1>7. Tokens(total, csv) \in Seq(values)
  <2>1. \A k \in 1 .. 8 : columns[k][2].value \in values
    OBVIOUS
  <2> HIDE DEF values
  <2>2. [k \in 1 .. 8 |-> columns[k][2].value] \in Seq(values)
    BY <2>1
  <2> QED
    BY <1>6, <2>2
<1>8. DOMAIN Tokens(total, csv) = 1 .. 8
  BY <1>6
<1>9. Len(Tokens(total, csv)) = 8
  BY <1>7, <1>8, LenProperties
<1> QED
  BY <1>6, <1>9 DEF columns

\* The mean latency of a process, rounded to a microsecond, is off by half a one
\* at most.
LEMMA MeanRounds ==
  ASSUME NEW m \in Nat \ {0}, NEW l \in Nat
  PROVE  /\ (2 * l + m) \div (2 * m) \in Nat
         /\ 2 * (((2 * l + m) \div (2 * m)) * m - l) \in -m .. m
<1> DEFINE q == (2 * l + m) \div (2 * m)
           r == (2 * l + m) % (2 * m)
<1>1. q \in Nat /\ r \in Nat /\ r < 2 * m /\ 2 * l + m = (2 * m) * q + r
  <2>1. 2 * l + m \in Nat /\ 2 * m \in Nat \ {0}
    OBVIOUS
  <2> QED
    BY ONLY <2>1, DivisionType, Zenon
<1> HIDE DEF q, r
<1>2. (2 * m) * q = 2 * (q * m)
  BY <1>1
<1>3. q * m \in Nat
  BY <1>1
<1>4. 2 * (q * m - l) = m - r
  BY <1>1, <1>2, <1>3
<1>5. m - r \in -m .. m
  BY <1>1
<1>6. 2 * (q * m - l) \in -m .. m
  BY <1>4, <1>5
<1> QED
  BY <1>1, <1>6 DEF q

\* The totals of a process are natural numbers, and so is its mean, if it has one.
LEMMA TotalType ==
  ASSUME NEW i \in DOMAIN Trackers
  PROVE  LET total == Total(Trackers[i])
             sum(field) == SumOf(Trackers[i], field)
         IN /\ total.received \in Nat /\ total.lost \in Nat /\ total.late \in Nat
            /\ total.too_late \in Nat /\ sum("latency") \in Nat
            /\ total.received = sum("received") /\ total.lost = sum("lost")
            /\ total.late = sum("late") /\ total.too_late = sum("too_late")
            /\ \/ total.mean = <<0, 0>>
               \/ /\ total.received > 0
                  /\ total.mean = <<(2 * sum("latency") + total.received)
                                      \div (2 * total.received), 1>>
<1> DEFINE trackers == Trackers[i]
           total == Total(trackers)
           messages == SumOf(trackers, "received")
           latencies == SumOf(trackers, "latency")
           idle == \E j \in DOMAIN trackers : trackers[j].received = 0
<1>1. trackers \in Seq([received : Nat, lost : Nat, late : Nat, too_late : Nat,
                        latency : Nat])
  BY MultiProcessAssumption
<1>2. /\ Len(trackers) \in Nat
      /\ \A k \in 1 .. Len(trackers) :
           /\ trackers[k]["received"] \in Nat /\ trackers[k]["lost"] \in Nat
           /\ trackers[k]["late"] \in Nat /\ trackers[k]["too_late"] \in Nat
           /\ trackers[k]["latency"] \in Nat
  <2> DEFINE R == [received : Nat, lost : Nat, late : Nat, too_late : Nat,
                   latency : Nat]
  <2>1. ASSUME NEW r \in R
        PROVE  /\ r["received"] \in Nat /\ r["lost"] \in Nat /\ r["late"] \in Nat
               /\ r["too_late"] \in Nat /\ r["latency"] \in Nat
    OBVIOUS
  <2>2. trackers \in Seq(R)
    BY <1>1
  <2> HIDE DEF R, trackers
  <2>3. Len(trackers) \in Nat /\ \A k \in 1 .. Len(trackers) : trackers[k] \in R
    BY <2>2
  <2> QED
    BY <2>1, <2>3
<1> HIDE DEF trackers
<1>3. /\ messages \in Nat /\ SumOf(trackers, "lost") \in Nat
      /\ SumOf(trackers, "late") \in Nat /\ SumOf(trackers, "too_late") \in Nat
      /\ latencies \in Nat
  BY <1>2, SumType
<1>4. total = [received |-> messages, lost |-> SumOf(trackers, "lost"),
               late |-> SumOf(trackers, "late"),
               too_late |-> SumOf(trackers, "too_late"),
               mean |-> IF messages = 0 \/ idle THEN <<0, 0>>
                        ELSE <<(2 * latencies + messages) \div (2 * messages), 1>>]
  BY DEF Total
<1> HIDE DEF messages, latencies, idle, total
<1>5. /\ total.received = messages /\ total.lost = SumOf(trackers, "lost")
      /\ total.late = SumOf(trackers, "late")
      /\ total.too_late = SumOf(trackers, "too_late")
      /\ total.mean = IF messages = 0 \/ idle THEN <<0, 0>>
                      ELSE <<(2 * latencies + messages) \div (2 * messages), 1>>
  BY <1>4
<1>6. \/ total.mean = <<0, 0>>
      \/ /\ total.received > 0
         /\ total.mean = <<(2 * latencies + total.received)
                             \div (2 * total.received), 1>>
  BY <1>3, <1>5
<1> QED
  BY <1>3, <1>5, <1>6 DEF trackers, total, messages, latencies

\* Counters of fewer digits than their columns, and percentages that are none or
\* not too small, leave a blank in each column.
LEMMA ColumnsLeaveBlanks ==
  ASSUME MeansLegible, ColumnsSuffice, NEW i \in DOMAIN Trackers,
         NEW k \in 1 .. 7
  PROVE  Columns(Total(Trackers[i]))[k][2].length < Columns(Total(Trackers[i]))[k][1]
<1> DEFINE total == Total(Trackers[i])
<1>1. /\ total.received \in Nat /\ total.lost \in Nat /\ total.late \in Nat
      /\ total.too_late \in Nat
      /\ \/ total.mean = <<0, 0>>
         \/ /\ total.received > 0
            /\ total.mean = <<(2 * SumOf(Trackers[i], "latency") + total.received)
                                \div (2 * total.received), 1>>
      /\ SumOf(Trackers[i], "latency") \in Nat
  BY TotalType
<1>2. /\ total.mean[1] < 1000000
      /\ total.received < 1000000000 /\ total.lost < 1000000000
      /\ total.late <= total.received /\ total.too_late <= total.received
      /\ total.late = 0 \/ total.received <= 10000 * total.late
  BY DEF MeansLegible, ColumnsSuffice
<1> HIDE DEF total
<1>3. ASSUME NEW n \in Nat, n < 1000000000
      PROVE  IntegerText(n).length \in Nat /\ IntegerText(n).length < 10
  <2>1. PowerOfTen[8 + 1] = 1000000000
    BY PowersOfTen
  <2>2. Digits(n) \in 1 .. 8 + 1
    BY <1>3, <2>1, DigitsAtMost
  <2> QED
    BY <2>2 DEF IntegerText, Text
<1>4. /\ DoubleText(total.mean[1], total.mean[2]).length \in Nat
      /\ DoubleText(total.mean[1], total.mean[2]).length < 10
  <2>1. CASE total.mean = <<0, 0>>
    <3>1. DoubleText(total.mean[1], total.mean[2]) = Text(4, 0)
      BY <2>1 DEF DoubleText
    <3> QED
      BY <3>1 DEF Text
  <2>2. CASE total.mean # <<0, 0>>
    <3>0. /\ total.received \in Nat \ {0} /\ SumOf(Trackers[i], "latency") \in Nat
          /\ total.mean = <<(2 * SumOf(Trackers[i], "latency") + total.received)
                              \div (2 * total.received), 1>>
      BY <1>1, <2>2
    <3>1. total.mean[1] \in Nat /\ total.mean[2] = 1
      <4>1. (2 * SumOf(Trackers[i], "latency") + total.received)
              \div (2 * total.received) \in Nat
        BY ONLY <3>0, MeanRounds, Zenon
      <4> QED
        BY <3>0, <4>1
    <3> QED
      BY <1>2, <3>1, IntegralText
  <2> QED
    BY <2>1, <2>2
<1>5. /\ PercentText(total.late, total.received).length \in Nat
      /\ PercentText(total.late, total.received).length < 10
  <2> DEFINE num == 100 * total.late
             den == total.received
  <2>1. /\ num \in Nat /\ den \in Nat
        /\ num = 0 \/ den <= 1000000000 * num
        /\ num = 0 \/ (den <= 100 * num /\ num < 1000 * den)
    BY <1>1, <1>2
  <2>2. /\ DoubleText(num, den).length \in Nat
        /\ DoubleText(num, den).length < 10
    <3> HIDE DEF num, den
    <3> QED
      BY <2>1, DoubleLength
  <2> QED
    BY <2>2 DEF PercentText
<1>6. /\ PercentText(total.too_late, total.received).length \in Nat
      /\ PercentText(total.too_late, total.received).length <= 11
  <2> DEFINE num == 100 * total.too_late
             den == total.received
  <2>1. num \in Nat /\ den \in Nat /\ (num = 0 \/ den <= 1000000000 * num)
    BY <1>1, <1>2
  <2>2. /\ DoubleText(num, den).length \in Nat
        /\ DoubleText(num, den).length <= 11
    <3> HIDE DEF num, den
    <3> QED
      BY <2>1, DoubleLength
  <2> QED
    BY <2>2 DEF PercentText
<1>7. /\ IntegerText(total.received).length < 15 /\ IntegerText(total.late).length < 10
      /\ IntegerText(total.too_late).length < 15 /\ IntegerText(total.lost).length < 10
  <2>1. total.late < 1000000000 /\ total.too_late < 1000000000
    BY <1>1, <1>2
  <2> QED
    BY <1>1, <1>2, <1>3, <2>1
<1>8. k = 1 \/ k = 2 \/ k = 3 \/ k = 4 \/ k = 5 \/ k = 6 \/ k = 7
  OBVIOUS
<1> DEFINE columns == Columns(total)
<1>9. /\ columns[1] = <<15, IntegerText(total.received)>>
      /\ columns[2] = <<10, DoubleText(total.mean[1], total.mean[2])>>
      /\ columns[3] = <<10, IntegerText(total.late)>>
      /\ columns[4] = <<10, PercentText(total.late, total.received)>>
      /\ columns[5] = <<15, IntegerText(total.too_late)>>
      /\ columns[6] = <<15, PercentText(total.too_late, total.received)>>
      /\ columns[7] = <<10, IntegerText(total.lost)>>
  BY DEF Columns
<1> HIDE DEF columns
<1>10. columns[k][2].length < columns[k][1]
  <2>1. CASE k \in {1, 2, 3}
    BY <1>4, <1>7, <1>9, <2>1
  <2>2. CASE k \in {4, 5}
    BY <1>5, <1>7, <1>9, <2>2
  <2>3. CASE k \in {6, 7}
    BY <1>6, <1>7, <1>9, <2>3
  <2> QED
    BY <1>8, <2>1, <2>2, <2>3
<1> QED
  BY <1>10 DEF columns, total

\* The line of a process reads back as the figures of its trackers.
LEMMA LineReadsBack ==
  ASSUME MeansLegible, NEW i \in DOMAIN Trackers, NEW csv \in BOOLEAN,
         csv \/ ColumnsSuffice
  PROVE  Accurate(Figures(TotalLine[i][csv]), Trackers[i])
<1> DEFINE total == Total(Trackers[i])
           columns == Columns(total)
           tokens == Tokens(total, csv)
           figures == Figures(tokens)
           latencies == SumOf(Trackers[i], "latency")
<1>1. Len(tokens) = 8 /\ \A k \in 1 .. 8 : tokens[k] = columns[k][2].value
  <2>1. csv \/ \A k \in 1 .. 7 : columns[k][2].length < columns[k][1]
    BY ColumnsLeaveBlanks
  <2> HIDE DEF total
  <2> QED
    BY <2>1, TokensOfColumns
<1>2. TotalLine[i][csv] = tokens
  BY DEF TotalLine
<1>3. /\ columns[1] = <<15, IntegerText(total.received)>>
      /\ columns[2] = <<10, DoubleText(total.mean[1], total.mean[2])>>
      /\ columns[3] = <<10, IntegerText(total.late)>>
      /\ columns[5] = <<15, IntegerText(total.too_late)>>
      /\ columns[7] = <<10, IntegerText(total.lost)>>
  <2> HIDE DEF total
  <2> QED
    BY DEF Columns
<1>4. /\ total.received \in Nat /\ latencies \in Nat
      /\ total.received = SumOf(Trackers[i], "received")
      /\ total.lost = SumOf(Trackers[i], "lost")
      /\ total.late = SumOf(Trackers[i], "late")
      /\ total.too_late = SumOf(Trackers[i], "too_late")
      /\ \/ total.mean = <<0, 0>>
         \/ /\ total.received > 0
            /\ total.mean = <<(2 * latencies + total.received)
                                \div (2 * total.received), 1>>
  BY TotalType
<1>5. total.mean[2] = 0 => total.received = 0
  BY DEF MeansLegible
<1>6. total.mean[1] < 1000000
  BY DEF MeansLegible
<1> HIDE DEF total, columns, tokens, latencies
<1>7. /\ figures.received = tokens[1] /\ figures.latency = tokens[2]
      /\ figures.late = tokens[3] /\ figures.too_late = tokens[5]
      /\ figures.lost = tokens[7]
  BY <1>1 DEF Figures, Parsed
<1>8. \A n : IntegerText(n).value = n
  BY DEF IntegerText, Text
<1>9. /\ figures.received = total.received /\ figures.late = total.late
      /\ figures.too_late = total.too_late /\ figures.lost = total.lost
      /\ figures.latency = DoubleText(total.mean[1], total.mean[2]).value
  BY <1>1, <1>3, <1>7, <1>8
<1>10. ASSUME total.received > 0
       PROVE  2 * (figures.latency * total.received - latencies)
                \in -total.received .. total.received
  <2> DEFINE mean == (2 * latencies + total.received) \div (2 * total.received)
  <2>1. total.mean = <<mean, 1>>
    BY <1>4, <1>5, <1>10
  <2>2. mean \in Nat /\ 2 * (mean * total.received - latencies)
                          \in -total.received .. total.received
    <3>1. total.received \in Nat \ {0} /\ latencies \in Nat
      BY <1>4, <1>10
    <3> QED
      BY ONLY <3>1, MeanRounds, Zenon
  <2> HIDE DEF mean
  <2>3. DoubleText(mean, 1).value = mean
    BY <1>6, <2>1, <2>2, IntegralText
  <2>4. figures.latency = mean
    BY <1>9, <2>1, <2>3
  <2> QED
    BY <2>2, <2>4
<1> HIDE DEF figures
<1>11. Accurate(figures, Trackers[i])
  BY <1>4, <1>9, <1>10 DEF Accurate, latencies
<1> QED
  BY <1>2, <1>11 DEF figures

-----------------------------------------------------------------------------
(* The aggregate. *)

\* When the parent reads the file of a process that has not crashed, the
\* process has saved its line there, and the line is still there.
LEMMA ReadsSaved ==
  ASSUME ProcessInv, ResultsInv,
         NEW i \in DOMAIN aggregate, process[i] # "crashed"
  PROVE  /\ i \in DOMAIN Trackers /\ csv_out \in BOOLEAN
         /\ aggregate[i]
              = Figures(TotalLine[i][csv_out])
<1>1. OptionsInv
  BY DEF ProcessInv
<1>2. /\ Parent \in Nat \ {0}
      /\ Processes = 1 .. Parent
      /\ Processes \subseteq DOMAIN Trackers
      /\ csv_out \in BOOLEAN
  BY <1>1, DirectoryFacts
<1>3. i \in Processes
  <2>1. PICK S : aggregate \in Seq(S)
    BY DEF ResultsInv, ReadingInv
  <2>2. Len(aggregate) \in Nat /\ i \in 1 .. Len(aggregate)
    BY <2>1
  <2>3. Len(aggregate) <= Parent
    BY DEF ResultsInv, ReadingInv
  <2> QED
    BY <1>2, <2>2, <2>3
<1>4. process[Parent] \in {"aggregating", "exited"}
  <2>1. aggregate # <<>>
    OBVIOUS
  <2> QED
    BY <2>1 DEF ResultsInv, ReadingInv
<1>5. process[i] \in {"waiting", "aggregating", "exited"}
  BY <1>3, <1>4 DEF ProcessInv
<1> QED
  BY <1>2, <1>3, <1>5 DEF ResultsInv

\* The system total is over this run: the parent adds the counters and the mean
\* latency of every process that has not crashed, of its last save, after it and
\* unchanged, when no two topologies share a directory, the means are legible and
\* the columns suffice or commas separate them (irobot_benchmark.cpp: main,
\* stat_logger.cpp: log_total_stats, system.cpp: print_aggregate_stats).
THEOREM AggregateComplete ==
  ASSUME DistinctNames, MeansLegible, ColumnsSuffice \/ CommasAsked
  PROVE  ProcessesSpec => []AggregateIsComplete
<1> DEFINE Inv2 == ProcessInv /\ ResultsInv
<1>1. ProcessesInit => Inv2
  BY ProcessInvInit, ResultsInit
<1>2. Inv2 /\ [ProcessesNext]_processVars => Inv2'
  <2>1. CASE UNCHANGED processVars
    <3>1. UNCHANGED <<options, forked, process, files, aggregate>>
      BY <2>1 DEF processVars
    <3>2. ProcessInv => ProcessInv'
      BY <3>1, SameOptions DEF ProcessInv
    <3>3. Inv2 => ResultsInv'
      BY <3>1, KeepReading, KeepResults DEF ResultsInv
    <3> QED
      BY <3>2, <3>3
  <2> QED
    BY <2>1, ProcessInvStep, ResultsStep
<1>3. Inv2 => AggregateIsComplete
  <2> SUFFICES ASSUME Inv2, NEW i \in DOMAIN aggregate, process[i] # "crashed"
               PROVE  Accurate(aggregate[i], Trackers[i])
    BY DEF AggregateIsComplete
  <2>1. /\ i \in DOMAIN Trackers /\ csv_out \in BOOLEAN
        /\ aggregate[i] = Figures(TotalLine[i][csv_out])
    BY ReadsSaved
  <2>2. csv_out \/ ColumnsSuffice
    BY DEF CommasAsked, ProcessInv, OptionsInv, csv_out
  <2> QED
    BY <2>1, <2>2, LineReadsBack
<1> QED
  BY <1>1, <1>2, <1>3, PTL DEF ProcessesSpec

FigureRecords == [received : Nat, latency : Nat, late : Nat, too_late : Nat,
                  lost : Nat]

NumbersInv ==
  /\ files \in [Directories -> Seq(Nat)]
  /\ aggregate \in Seq(FigureRecords)

LEMMA FiguresAreNumbers ==
  ASSUME NEW tokens \in Seq(Nat)
  PROVE  Figures(tokens) \in FigureRecords
<1>1. \A k \in Nat \ {0} : Parsed(tokens, k) \in Nat
  BY DEF Parsed
<1> QED
  BY <1>1 DEF Figures, FigureRecords

LEMMA NumbersStep ==
  ASSUME LinesOfNumbers, ProcessInv, ReadingInv,
         NumbersInv, ProcessesNext
  PROVE  NumbersInv'
<1>1. Directories' = Directories
  BY DEF Directories
<1>2. OptionsInv
  BY DEF ProcessInv
<1>3. /\ Parent \in Nat \ {0}
      /\ Processes = 1 .. Parent
      /\ Processes \subseteq DOMAIN Trackers
      /\ csv_out \in BOOLEAN
      /\ \A i \in Processes :
           /\ Directory(i) \in Directories
           /\ AggregateDirectory(i) = Directory(i)
  BY <1>2, DirectoryFacts
<1>4. CASE UNCHANGED <<files, aggregate>>
  BY <1>1, <1>4 DEF NumbersInv
<1>5. CASE Aggregate
  <2> DEFINE next == Len(aggregate) + 1
             figures == Figures(files[Directory(next)])
  <2>1. next \in Processes /\ aggregate' = Append(aggregate, figures)
    BY <1>5, ReadNext
  <2>2. figures \in FigureRecords
    BY <1>3, <2>1, FiguresAreNumbers DEF NumbersInv
  <2> HIDE DEF figures
  <2>3. aggregate' \in Seq(FigureRecords)
    BY <2>1, <2>2 DEF NumbersInv
  <2>4. UNCHANGED files
    BY <1>5 DEF Aggregate
  <2> QED
    BY <1>1, <2>3, <2>4 DEF NumbersInv
<1>6. ASSUME NEW i \in Processes, NEW line \in Seq(Nat),
             UNCHANGED aggregate,
             files' = [files EXCEPT ![Directory(i)] = line]
      PROVE  NumbersInv'
  <2>1. files' \in [Directories -> Seq(Nat)]
    BY <1>3, <1>6 DEF NumbersInv
  <2> QED
    BY <1>1, <1>6, <2>1 DEF NumbersInv
<1>7. ASSUME NEW i \in Processes, OpenTotals(i)
      PROVE  NumbersInv'
  <2>1. /\ UNCHANGED aggregate /\ NoLine \in Seq(Nat)
        /\ files' = [files EXCEPT ![Directory(i)] = NoLine]
    BY <1>7 DEF OpenTotals, NoLine
  <2> QED
    BY <1>6, <2>1
<1>8. ASSUME NEW i \in Processes, WriteTotals(i)
      PROVE  NumbersInv'
  <2> DEFINE line == TotalLine[i][csv_out]
  <2>1. /\ UNCHANGED aggregate
        /\ files' = [files EXCEPT ![Directory(i)] = line]
    BY <1>8 DEF WriteTotals
  <2>2. line \in Seq(Nat)
    BY <1>3 DEF LinesOfNumbers
  <2> HIDE DEF line
  <2> QED
    BY <1>6, <2>1, <2>2
<1>9. Fork \/ WaitForChildren
        \/ (\E i \in Processes : Crash(i))
        => UNCHANGED <<files, aggregate>>
  BY DEF Fork, WaitForChildren, Crash
<1> QED
  BY <1>4, <1>5, <1>7, <1>8, <1>9 DEF ProcessesNext, Step

\* The processes of irobot_benchmark keep the types of their states, and the
\* files and the totals hold numbers, as the lines do.
THEOREM ProcessesTypeCorrect ==
  ASSUME LinesOfNumbers
  PROVE  ProcessesSpec => []ProcessesTypeOK
<1> DEFINE Inv3 == ProcessInv /\ ReadingInv /\ NumbersInv
<1>1. ProcessesInit => Inv3
  <2> SUFFICES ASSUME ProcessesInit PROVE Inv3
    OBVIOUS
  <2>1. ProcessInv /\ ReadingInv
    BY ProcessInvInit, ReadingInit
  <2>2. csv_out \in BOOLEAN
    BY <2>1, DirectoryFacts DEF ProcessInv
  <2>3. /\ NoLine \in Seq(Nat)
        /\ PreviousLine[csv_out] \in Seq(Nat)
    BY <2>2 DEF NoLine, LinesOfNumbers
  <2>4. NumbersInv
    BY <2>3 DEF ProcessesInit, NumbersInv
  <2> QED
    BY <2>1, <2>4
<1>2. Inv3 /\ [ProcessesNext]_processVars => Inv3'
  <2>1. CASE UNCHANGED processVars
    <3>1. UNCHANGED <<options, forked, process, files, aggregate>>
      BY <2>1 DEF processVars
    <3>2. ProcessInv => ProcessInv'
      BY <3>1, SameOptions DEF ProcessInv
    <3>3. ProcessInv /\ ReadingInv => ReadingInv'
      BY <3>1, KeepReading
    <3>4. NumbersInv => NumbersInv'
      BY <3>1 DEF NumbersInv, Directories
    <3> QED
      BY <3>2, <3>3, <3>4
  <2> QED
    BY <2>1, ProcessInvStep, ReadingStep, NumbersStep
<1>3. Inv3 => ProcessesTypeOK
  <2> SUFFICES ASSUME Inv3 PROVE ProcessesTypeOK
    OBVIOUS
  <2>1. OptionsInv
    BY DEF ProcessInv
  <2>2. /\ topologies \in Seq(Stems) /\ csv_out \in BOOLEAN
    BY <2>1, DirectoryFacts
  <2> QED
    BY <2>2 DEF ProcessInv, NumbersInv, FigureRecords, ProcessesTypeOK
<1> QED
  BY <1>1, <1>2, <1>3, PTL DEF ProcessesSpec
=============================================================================
