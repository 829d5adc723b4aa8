# A TLA+ model of ros2-performance

This directory holds specifications of the programs in this repository that
measure ROS 2: TLA+ modules, the TLC configurations that check them on small
instances, and theorems that the TLA+ proof system (TLAPS) checks for all
values of the constants. Paths below are relative to the repository's root.

Contents

1. [The system](#1-the-system)
2. [Modules and how they correspond to the code](#2-modules-and-how-they-correspond-to-the-code)
3. [Runs, bounds and what they show](#3-runs-bounds-and-what-they-show)
4. [Fairness](#4-fairness)
5. [Theorems](#5-theorems)
6. [Disagreements between the code and what is said of it](#6-disagreements-between-the-code-and-what-is-said-of-it)
7. [What is assumed of ROS 2 and of the build](#7-what-is-assumed-of-ros-2-and-of-the-build)
8. [What is not modelled](#8-what-is-not-modelled)
9. [Plan](#9-plan)
10. [Running the checks](#10-running-the-checks)

## 1. The system

A program (`irobot_benchmark`, or one of `performance_test_examples`) builds
*nodes* with publishers, subscriptions, clients, servers, action clients and
action servers, hands them to a `System`, lets it spin for some seconds, and
reports what the *trackers* of the entities have counted: received, late, too
late and lost messages, and latencies. What makes such a program correct is
that its figures are true: nothing counted twice, nothing forgotten, no message
called lost that arrives, the figures of all processes in the total, and an end
to the experiment at all.

| Component | State | Operations | Talks to | Hard to get right |
|---|---|---|---|---|
| `Tracker` (`performance_metrics/src/tracker.cpp`) | counters, expected tracking number, statistics over the whole run and since the last sample | `scan`, `add_sample`, `get_and_update_tracking_number`, resets | called from every callback; writes events; read by the logger's thread and the reports | fixed-width arithmetic on numbers and times; no lock |
| Publishers and subscriptions (`performance_node_base*`) | `m_pubs`, `m_subs`: a tracker for each topic | timer -> `publish_msg`; `topic_callback` -> `handle_sub_received_msg` | the middleware | loss, late matching, two timers on one publisher, several publishers on one topic |
| Clients and services | tracker and tracking number of each, `m_client_lock` of the node | `send_request` (test the lock, set it, wait for the service, number, send, count, release), the callbacks of request and response | the middleware, each other | the lock is read and written in two steps, and shared by all clients of a node; either message may be lost |
| Action clients and servers | the same, `m_action_client_lock` | goal, acceptance, feedback, result | the same | the lock is released only by the result; feedback and result take different ways but share numbers |
| `sleep_task` (`executors.cpp`) | a mutex, a flag, a condition variable, on the stack | register a shutdown callback, wait until the deadline or the callback, unregister | `rclcpp::Context` | lost wake-ups, lock order, a callback to a dead stack frame |
| `System` (`system.cpp`) | nodes, executors, their threads, a promise | `add_node`, `spin`, destructor | executors, `sleep_task`, discovery | threads that start late miss the cancel; nothing is joined before the destructor |
| Discovery (`system.cpp`) | none but the graph of each node | `wait_pdp_discovery`, `wait_edp_discovery` | DDS | polling a graph that changes under the poll; a time limit |
| `ResourceUsageLogger` | a thread, `m_is_logging`, a file, a callback into the system | `start`, `set_get_latency_callback`, `stop` | the trackers, in other threads | stopping at any point of a sample; reading and resetting counters that are being written |
| Processes (`fork_process.cpp`, `irobot_benchmark.cpp`, `print_aggregate_stats`) | results directories, one `latency_total.txt` per process | fork, save, `waitpid`, add up | the file system | crashes, files of earlier runs, a text format read back by position |
| `TemplateFactory` | none | topology or numbers -> nodes, entities, timers, executors | used once, before everything else | names, ids and QoS that must fit those of another process; entities listed twice |
| Events logger (`events_logger.cpp`) | a file and a mutex | `write_event`: stamp, lock, write part by part | called from every `scan` and by discovery | lines of different callers in one file; the events and the counters must tell the same |
| Options (`cli_options.cpp`, `examples_options.hpp`, `helper_options.hpp`) | the values of a command line | parse, check, default | the programs, the factory, the executors | what threads and callback groups the options make |
| Composition benchmark | nodes created before the system, which report when they are destroyed | as the programs | rclcpp's components | what is reported, and when, if `main` reports nothing |
| Programs (`main` functions) | none of their own | logger, discovery, spin, shutdown, reports, destruction, in this order | all of the above | what may still run when the reports are made |

Components that carry no such behaviour are listed in section 8.

For each component the properties that make it correct are those of the runs in
section 3. The places in the code that a test hardly reaches, with the properties
that watch over them, are the `hazards` of `PROJECT.json`.

## 2. Modules and how they correspond to the code

`PROJECT.json` maps every definition to its lines. In short:

**Tracker** is a module of operators, since the class has no thread: records with
the counters of `Tracker`, `Scan` for `scan`, and the conversions on the
way: the frequency of a header and the quotient `scan` derives the period from are floats (`Float`: a fraction
whose mantissa has so many bits, rounded to the nearest, ties to even), which the conversion to an `int` truncates; the product of a
percentage and the period is an `int`, the `min` an `unsigned int`, and a latency, from which whole
microseconds are taken, a `uint64_t`. The widths are constants, the mantissa's included. There the mean of `Stat` is a sum and a number of samples; the **Stat** module
is the class itself, with sums over the distances from the first sample.

**LossAccounting** is the abstract promise: each arrival settles all the numbers below
it, for good, as arrived or as missing. **PubSub** has the publishers'
timers (`PublishMsg`), the middleware (`Match`, `Lose`, `Deliver`), and the
subscription's callback inside `Deliver`; `PubSub!Accounting` is the refinement
mapping, from the histories of received and lost numbers. ClientService, for the responses a
client scans, and ActionService, for feedback and results, map to the same
specification. The callback of a node runs alone in PubSub, as in the
single-threaded executors and in mutually exclusive groups; what a scan is
otherwise is the next module's.

**ConcurrentScan** is `scan` as the threads of an executor run it: each load and
store of a member of the tracker is a step (`Take`, `Compare`, `Subtract`,
`Expect`, `Load`, `Store`), and so is each event it logs (`Log`) and each part of
a line it writes (`Write`). The callback group of the nodes decides whether two
threads may scan one tracker (`MayRun`). **EventsLogger** is `write_event`: the stamp before the mutex, the parts of
a line under it. **Classification** is the abstract specification of the same:
one message, one atomic step, which puts it into the class the README defines.
ConcurrentScan implements it for every entity while its group is mutually exclusive; a scan
that has begun and not ended is mapped to the tracker as it was before.

**SleepTask** has a program counter for each thread in `sleep_task`, its mutex
and its flag, and the thread in `rclcpp::shutdown` with the callbacks it has yet
to run. Each access to a mutex is a step.

**ClientService** runs `send_request` step by step in threads of executors, because a
reentrant callback group lets several threads of a node into it; the lock, the
counter and the tracker of the client are where the code has them. Queues per client stand for the
middleware. **ActionService** does the same for actions,
a callback at a time: `SendGoal`, `ExecuteGoal` (the server accepts, publishes the
feedback and the result inside one callback), `HandleGoalResponse`,
`HandleFeedback`, `HandleResult`, and losses of each message.

**SystemSpin** is `System::spin`, `create_spin_thread` and `~System`: the main
thread in its loops over the executors, and a thread for each executor under the three spin
types. **Experiment** composes it with the main functions, given as
sequences of steps by their options (`IRobotBenchmark`, `JsonSystem`, `SimplePubSub`, ...,
`BaseProgram`, `ComposablePubSub`, `MultiProducer`), the
logger's thread, the counts the callbacks advance, and the reports, each of
which copies them anew, a node after the other. The nodes of the composition
benchmark report in their destructors (`DestroyNodes`), after the system's.

**ResourceUsageLogger** is `start`, the thread's loop, `stop`, and the
sampling of the trackers in the thread's time: each load, store and reset of a counter is a step, as in the
code, which has no lock there.

**Discovery** is the polling of `wait_pdp_discovery` and `wait_edp_discovery`,
a check of a node at a time, against graphs that grow in any order. **DiscoveredPubSub**
composes it with PubSub: the timers and the callbacks run only once
`wait_discovery` has returned, and a publisher is matched with the subscriptions
its node has discovered and whose QoS it can serve.

**Report** is a module of operators: the totals of a process, the text of each
figure as far as its length and what `strtoul` makes of it matter, the columns of
`latency_total.txt`, and `parse_line`. **MultiProcess** forks a process per
topology of the command line, lets each save its totals with it, possibly crash, and lets the
parent wait, read and add. The experiment of a process is one step there; what
happens in it is Experiment's.

**Options** are the three option parsers: which command lines end the program, what the rest
mean (`Parse`), and how many callbacks of a node may run at a time (`NodeThreads`).

**Factory** turns topologies (sequences of records whose fields may be absent, as in the json files)
and numbers of nodes (the example programs and the composition benchmark) into nodes, entities, timers, QoS and
executors. The maps of a node are by name, as in the code: an entity listed twice is there once,
but the timers of both are. The instances of PubSub, Discovery, ClientService,
ActionService, SystemSpin and Experiment are made with it, from topologies, and the threads of a node with
Options, from command lines.

The **MC** modules give constants their values, and nothing else. Some name a value
twice (`MCX == X`): TLC evaluates a definition substituted for a constant at each use, but keeps
the value of one that is only mentioned in it. The
**Proofs** modules hold the theorems of section 5: those of a module under its name, with ScanProofs for ConcurrentScan,
Factory's in PubSubProofs, DiscoveredPubSub's in DiscoveryProofs, those of SleepTask, ResourceUsageLogger and
MultiProcess in WaitProofs, and in TrackerProofs the lemmas they share. Definitions introduced by
"For the mutation runs" are mistakes the code could contain. No specification uses them; they
exist to confirm that each property fails when the mistake is put in (`mutants` in
`PROJECT.json`).

## 3. Runs, bounds and what they show

All runs but the three named as violations pass. Deadlock is not checked
(`CHECK_DEADLOCK FALSE`): experiments end, and bounded counters run out; that what
must go on does go on is what the liveness properties say.

| Run | Distinct states | Properties |
|---|---|---|
| `pub_sub` | 37,398 | `TypeOK`, `LossIsExact`, `ImplementsAccounting` |
| `sleep_task` | 405 | `TypeOK`, `NoDanglingCallback`, `WokenByShutdown` |
| `sleep_deadlock` | violation | `SleepEnds` |
| `client_service` | 62,966 | `TypeOK`, `RequestsNumberedInOrder`, `ServerCountsOnlyLostRequests`, `ClientCountsFailedRoundTrips`, `LockIsReleased`, `ImplementsAccounting` |
| `client_lock_race` | violation | `OneCallPastLock` |
| `action_service` | 14,037 | `TypeOK`, `LockMeansWaiting`, `RepliesAccounted`, `ImplementsAccounting`, `LockIsReleased` |
| `experiment` | 113,758 | `ExperimentTypeOK`, `NothingOutlivesSystem`, `ReportsAgree`, `ExperimentEnds` |
| `resource_logger` | 177,308 | `LoggerTypeOK`, `NothingAfterStop`, `StopReturns` |
| `multi_process` | 1,168 | `ProcessesTypeOK`, `AggregateIsComplete`, `NoPeerOverwritten`, `ParentReports` |
| `small_percentage` | violation | `AggregateIsComplete` |
| `classification` | 631,957 | `TypeOK`, `StatisticsExact`, `WholeLines`, `EventsMatchCounters`, `NeverOvercounts`, `ImplementsClassification` |
| `discovery` | 41,542 | `TypeOK`, `SpinsDiscovered`, `AbortsUndiscovered`, `NothingLostToDiscovery`, `DiscoveryEnds` |

- **pub_sub.** A topology of three nodes: a publisher heard by a subscription
  that tracks and by one that does not, and a publisher with two timers, since its node
  names the topic twice. Subscriptions match at any time and any message may be
  lost. The counters of lost and received messages are the sizes of the sets
  of numbers lost and received, which partition the numbers below the expected one; and nothing
  counted as lost arrives later. *Bounds:* `MaxPublish = 3` messages each: a gap before, between and
  after arrivals, and gaps of two. `TrackingMod = 5` stands for 2^32, so that a
  wrapped difference would be seen; the counter does not come round within a run, as it does not
  in practice (2^32 messages at 1 kHz take seven weeks). The time scale is 1000 units
  per second.
- **sleep_task.** Two threads asleep while a third shuts down; the deadline of one may
  pass. No callback is registered or runs after its frame has gone, and a shutdown wakes
  every sleeper it found registered, unless the two hold the
  mutexes crosswise. *Bounds:* more sleepers add only copies: they
  share nothing but the context's mutex. The theorem of section 5 is for any number.
- **sleep_deadlock.** The same, with the deadline in play: section 6.
- **client_service.** The nodes of a topology whose node has a client for each of two services, which
  share its lock, and an executor with one thread. What a client counts as lost is
  what it never got an answer to, and the responses are settled in order and for good (`ImplementsAccounting`). *Bounds:* three requests a client, two losses: a lost
  request and a lost response, in sequence and around each other.
- **client_lock_race.** One client, and a command line that asks for a reentrant group and a multi-threaded
  executor with two threads: section 6.
- **action_service.** The nodes of a topology whose node has a client for each of two action servers. The lock is taken exactly while
  a goal is under way; the replies are accounted for although feedback
  may be lost, dropped for want of a handle, or late; the lock comes free
  unless a message of the goal itself is lost. *Bounds:* three goals, two
  losses, `TrackingMod = 13` for twelve replies.
- **experiment.** All the main functions, those of the composition benchmark included, with or without the logger and an experiment's
  name, on two executors, the three spin types (`SPIN_FUTURE_COMPLETE` with
  the one executor it can serve), signals at any time. The program comes to its end, unless a signal's shutdown meets the end of
  the duration: then `sleep_task` and the shutdown may wait for each other (`BlockInSleep`, for the steps that
  `sleep_deadlock` shows), and `ExperimentEnds` excepts that. Without a signal nothing can block. Threads that start after the cancel
  still end, because the programs shut rclcpp down; the destructor waits for all
  of them; the logger is joined before; and the reports count the same
  messages of each executor. The last rests on `GraceSuffices`: a callback that runs when rclcpp is shut down returns
  in the 500 ms the programs then sleep. Nothing in the code sees to that, and with
  `GraceSuffices = FALSE` TLC finds reports that differ. The nodes of the composition benchmark report
  when all threads have been joined, and need no such assumption. *Bounds:* two messages for
  each executor: one before and one between two reports.
- **resource_logger.** Two subscriptions whose executors scan while the logger samples, and the main
  thread stops it at any point; start may fail to open its file.
  *Bounds:* two lines and two messages each: a message before, during
  and after a sample, and a sample after another.
- **multi_process.** Command lines with one, two or three topologies, with and without a results directory and
  csv, and some that the program refuses; files of an earlier run or none, children that crash at any point. The
  parent reports once all others are gone, and what it adds is what the trackers of
  the process held. *Bounds:* with three, the parent is neither first nor waits for
  one child only. The figures include a mean that needs rounding and a percentage of
  seven characters. A child that crashed is left out of the property: its
  file may be empty or an earlier run's (a hazard).
- **small_percentage.** The same with a long run: section 6.
- **classification.** Two threads scan messages of two entities and write to one events file. In a
  mutually exclusive group a scan, with all its steps, is one step of Classification; in
  both kinds of group no class has more messages than arrived and lines are whole; and where scans are not interleaved the
  shifted sums are those of the samples, and file and counters tell the same. A publisher's period of 29 units is 28 once it
  has been through a float, as 13000 us become 12999; the other is 20.97 s, the longest whose percentage
  fits an `int`. Latencies lie at the thresholds and beyond them, some of them half a microsecond.
  So a verdict of `scan` is right to the microsecond, and the properties ask for that: a message may be counted as late,
  or too late, if the README's definition says so of a latency one microsecond off (`MayJudge`). The gaps are of two messages with
  the first publisher and of one with the second: the text of a lost event names the one lost message of a gap of one, and one
  message too many otherwise (section 6), so `EventsMatchCounters` reads it accordingly (`LostBy`).
  *Bounds:* a second has 1000 units, `int` is scaled alike and a float has 14 bits instead of 24. Two messages: two in one tracker, interleaved
  or in sequence, or one in each; the gap before either makes the gap `scan` subtracts. Threads and entities are symmetric.
- **discovery.** Three nodes, two of them subscribers to the first, one publishing to a topic nobody hears,
  in one process. The system spins only once it is discovered, gives up
  only after a round that began before it was, and no message goes to a subscription that is not matched yet. *Bounds:* what can go wrong is one node
  or one subscription missing, or arriving during a round; the theorem is for any number.

Further configurations in this directory are demonstrations and not part of the table:

| Configuration (module) | Property it refutes, or shows | What it shows |
|---|---|---|
| `LostEvents.cfg` (MCPubSub) | `LostEventsNameLostMessages` | events name messages that arrived |
| `ReentrantScan.cfg` (MCConcurrentScan) | `NoPhantomLosses` | two scans of one tracker compute a loss that wraps around, or one that never was |
| `SharedService.cfg` (MCClientService) | `ServerCountsOnlyLostRequests` | two clients of a service make its server count losses that never were |
| `SystemSpin.cfg` (MCSystemSpin) | passes | SystemSpin by itself, without a program |
| `IdleSubscription.cfg` (MCResourceUsageLogger) | `AverageIsANumber` | a subscription without messages spoils the sampled average |
| `ResetRace.cfg` (MCResourceUsageLogger) | `EachMessageReportedOnce` | a reset lost between a load and a store |
| `SameStem.cfg` (MCMultiProcess) | `NoPeerOverwritten` | two topologies of the same file name |
| `Namespaces.cfg` (MCDiscovery) | `AbortsUndiscovered` | node namespaces: discovery never succeeds |
| `OtherProcess.cfg` (MCDiscovery) | `NothingLostToDiscovery` | foreign subscriptions make up for missing ones |

and these are a run's configuration with one constant changed:

| Run and constant | Property it refutes | What it shows |
|---|---|---|
| `action_service`, `System <- SharedAction` | `RepliesAccounted` | the same as `SharedService.cfg`, for two clients of an action |
| `experiment`, `GraceSuffices = FALSE` | `ReportsAgree` | a callback longer than the grace time |
| `experiment`, `Programs <- Examples`, invariant `ReportsWritten` | `ReportsWritten` | the examples do not save their results |
| `SystemSpin.cfg`, `Systems <- SpinSome`, `OwnerShutsDown = FALSE` | `SpinFunctionsStop` | without a shutdown of rclcpp, `SPIN_SOME` never ends |
| `SystemSpin.cfg`, `Systems <- SharedFuture`, property `EachExecutorSpins` | `EachExecutorSpins` | two executors under `SPIN_FUTURE_COMPLETE` end the program |
| `multi_process`, `Trackers <- IdleTracker`, `CommandLines <- OneTopology` | `AggregateIsComplete` | a tracker without messages spoils the process's mean |
| `classification`, `Senders <- MCSlowClient`, `Latencies <- MCShort`, `Skips <- MCNoSkips` | `NeverOvercounts`, `ImplementsClassification` | a client whose period is above a second |
| `classification`, `Latencies <- MCClockBehind` | `NeverOvercounts`, `ImplementsClassification` | a message from a clock that is ahead |
| `discovery`, `Nodes <- MCMismatch` | `NothingLostToDiscovery` | a reliable subscription to a best-effort publisher is waited for, found, and never heard from |

## 4. Fairness

Weak fairness only, and only of what the code or the scheduler sees to:

- `SleepTask`: the sleepers' steps, their deadlines, and the callbacks of a
  shutdown that has begun. Nothing makes a shutdown begin.
- `ClientService`: `SendRequestStep(t)`: inside `send_request` a thread waits for nothing
  but the service, and that for a second at most. Neither timers nor deliveries are fair.
- `ActionService`: `GoalStep(c)`: a goal that is not lost moves on. Losing it is
  another action, which disables the step.
- `Experiment` and `SystemSpin`: the main thread, the logger's thread, and
  each executor's thread. `sleep_task` returns or is blocked for ever; which of the two is not a matter of fairness. A callback returns: those of the nodes wait for a service or
  an action server for a second at most. Signals are not fair.
- `ResourceUsageLogger`: the main thread once it has called `start`, and the logger's
  thread, whose sleeps end. Scans are not fair.
- `MultiProcess`: processes are scheduled and experiments end, as `ExperimentEnds` says and with its exception: a child that a
  signal blocks in `sleep_task` keeps the parent waiting. Crashes are not fair. `Step` is one disjunction: each of its steps brings the run closer to its end, so
  no process can be kept waiting for ever by another.
- `Discovery` and `DiscoveredPubSub`: the polling and the clock. What DDS discovers is not fair.
- `ConcurrentScan` states none: its properties are about what a step may do.

## 5. Theorems

Every theorem is checked by TLAPS down to its leaves and holds for all values of the constants that
satisfy the named assumptions: any number of nodes, threads, clients and messages. Where a theorem has a
hypothesis (`ASSUME` in its statement) it is named here with what makes it true of the code; where it is more than
a matter of types, the demonstrations of section 3 show that the property fails without it.

| Property (run) | Theorem | Hypothesis |
|---|---|---|
| `TypeOK` (`pub_sub`) | PubSubProofs `TypeCorrect` | |
| `LossIsExact`, `ImplementsAccounting` (`pub_sub`) | `LossExact`, `AccountingImplemented` | `OnePublisherPerTopic` |
| `TypeOK` (`client_service`) | ClientServiceProofs `TypeCorrect` | |
| `RequestsNumberedInOrder` | `RequestsInOrder` | `OneThreadPerNode` |
| `ClientCountsFailedRoundTrips`, `ImplementsAccounting` | `ClientCountsExact`, `AccountingImplemented` | `OneThreadPerNode` |
| `ServerCountsOnlyLostRequests` | `ServerCountsSound` | `OneThreadPerNode`, `OneClientPerService` |
| `TypeOK`, `LockMeansWaiting` (`action_service`) | ActionServiceProofs `TypeCorrect`, `LockIsWaiting` | |
| `RepliesAccounted`, `ImplementsAccounting` | `RepliesCountedExactly`, `AccountingImplemented` | `OneClientPerAction` |
| `TypeOK`, `NoDanglingCallback` (`sleep_task`) | WaitProofs `TypeCorrect`, `CallbacksNeverDangle` | |
| `NothingAfterStop` (`resource_logger`) | `NoSampleAfterStop` | |
| `LoggerTypeOK` | `LoggerTypeCorrect` | `Subscriptions # {}` |
| `ProcessesTypeOK` (`multi_process`) | `ProcessesTypeCorrect` | `LinesOfNumbers` |
| `NoPeerOverwritten` | `PeersNotOverwritten` | `DistinctNames` |
| `AggregateIsComplete` | `AggregateComplete` | `DistinctNames`, `MeansLegible`, `ColumnsSuffice \/ CommasAsked` |
| `ExperimentTypeOK`, `NothingOutlivesSystem` (`experiment`) | ExperimentProofs `TypeCorrect`, `NothingOutlives` | |
| `ReportsAgree` | `ReportsAreFinal` | `GraceSuffices` |
| `TypeOK`, `WholeLines` (`classification`) | ScanProofs `TypeCorrect`, `LinesAreWhole` | |
| `NeverOvercounts`, `ImplementsClassification` | `CountersNeverExceed`, `ClassificationImplemented` | `SendersFit` |
| `EventsMatchCounters`, `StatisticsExact` | `EventsTellCounters`, `StatisticsAreExact` | |
| `TypeOK` (`discovery`) | DiscoveryProofs `TypeCorrect` | |
| `SpinsDiscovered` | `SpinsOnlyDiscovered` | `OneProcess` |
| `AbortsUndiscovered` | `AbortsOnlyUndiscovered` | `OneNamespace` |
| `NothingLostToDiscovery` | `NothingIsLostToDiscovery` | `OneProcess`, `AllCompatible`, `OnePublisherPerTopic` |

Not about a run's property: `MessagingImplemented`, `PubSubProgramsFit`, `ClientServerProgramsFit`, `ExampleLossExact`,
`LocksHaveHolders`, `LockIsCall`, `ShiftCancels`, `ClassifiedAsDefined`, described below.

**TrackerProofs** has the lemmas about the operators of Tracker that the other proofs cite: `Scan` and
`Update` keep a tracker a tracker, and what a scan does to each counter when numbers arrive in order. They rest on
`TrackerAssumption`, the widths. The others are about floats: `FloatExact` (integers below the mantissas' bound are themselves),
`FloatBelow` (a value below them is scaled up by a power of two and rounded), and from them `FloatPeriod`: a period that is made a
frequency and a period again is the same or one short. That the exponents suffice (`MaxScale`) is lemma `ScaleSuffices`.

**PubSubProofs.** `TypeCorrect`: the invariant adds that a publisher's tracking
number is the number of its samples (`TypeInv`), from which the numbers in flight are
below `MaxPublish`. `LossIsExact` alone is not inductive: that an arriving number is not
below the expected one needs the order of the messages in flight. `LossInv` has
`OptionsInv` (tracking is on exactly for the tracked), `RoutingInv` (a
message in flight comes from a matched publisher of the topic), `OrderInv` (it was sent
before the publisher's present number and after everything settled) and
`HeardInv` (what is expected is at most what the publisher sends next). With one publisher
per topic all that a subscription hears is in one order, and an arrival
settles an interval (lemma `Settle`). That PubSub implements LossAccounting follows step by step from the same
`LossInv`. `PubSubAssumption` says in particular `MaxPublish <
TrackingMod`: the counter does not come round.

`PubSubProgramsFit`: for any numbers of nodes, the subscriber and the publisher program
give nodes distinct names, subscribe to what is published and to nothing else,
and have one publisher for each topic. `ExampleLossExact` puts the two together: those two programs, run with the same
numbers, satisfy `OnePublisherPerTopic`, so their accounts are exact.
`ClientServerProgramsFit`: likewise the client and the server program: no service has two servers,
and a client node has a client for each service that is served and for no other.

**ClientServiceProofs.** The steps of `send_request` are interleaved with those of all other nodes. `SendInv` ties a
thread inside the call to its client: from `create_msg_header` to `tracking_number++` the thread's copy is the
client's counter (`CallInv`), and the counter is the number of requests sent but for a call that has sent one and not
counted it yet (`CounterInv`). That is false as soon as two threads are in one node's callbacks (`client_lock_race`); hence
`OneThreadPerNode`: the callback group is mutually exclusive, the default of `cli_options.cpp`, or the executor has one
thread. `WireInv` adds where each number may be: requests and responses in transit are in order and above what has been settled,
a response is to a served request, and the tracker's counts are the sizes of the settled sets. `ServerInv` is the
same for the server's tracker, which holds with one client for each service (`OneClientPerService`): `SharedService.cfg` shows it fail with
two.

Two theorems are about the lock of a node, whose test and store are two steps. `LocksHaveHolders`: with any number of
threads, a lock that is taken belongs to a call that will free it. Two calls may be past the same lock, and the first to
end frees it while the other still waits (`client_lock_race`), but no lock stays behind. `LockIsCall`: under `OneThreadPerNode`, the lock is
taken exactly while a call is past the test, and one call is at most. What the steps do to the lock is lemma `LockMoves`.

**ActionServiceProofs.** `LockMeansWaiting` is inductive with the types: a goal takes the lock of its node in the step that
begins it, and only the end of the same goal frees it: that two clients of a node never have goals at once is part of
the property. `RepliesAccounted` needs `ReplyInv`: each executed goal has had two replies with consecutive
numbers (`GoalOK`), and feedback under way, which may be overtaken by the result, is the one before it and not yet passed over
(`FeedbackOK`, `LatestOK`). `OneClientPerAction`: with two, the server numbers their replies in one sequence.

**WaitProofs** is about what waits for something else to end. *`sleep_task`*, for any number of sleepers: the
invariant says that the context's mutex is held while callbacks run
or are to run, that those are all registered (`MutexInv`), and that a sleeper is registered only between the
two calls (`RegisteredInv`). It shows what `remove_on_shutdown_callback` is for, and that
it must wait for the shutdown, which is how the deadlock of section 6 comes about.

*The logger*: whatever is scanned meanwhile and however long the run, once `stop` has returned the thread
has ended and no line is written. `NothingAfterStop` is inductive by itself, from every place of the loop. The types are
not: that the numbers `scan` and the thread's resets leave in a tracker stay natural and bounded
by the messages received, although a reset may come between a scan's load and its store, is `CountersInv`.

*The processes*, for any number of topologies, any command lines and children that crash at any time. `ProcessInv`:
only the parent forks, waits and aggregates, it never dies, and when it aggregates all the others have exited or crashed.
`ReadingInv`: it reads one file for each topology, and none before. With `DistinctNames` two processes
have two directories (lemma `DirectoryFacts`), so saved results are never written again. `ResultsInv` puts this together: a
process that has saved has its line in its file, and what the parent has read so far is what the files still hold.
Then the aggregate is the figures of the last save of every process that lived, and what is left is about one line, without any
behaviour: lemma `LineReadsBack`, that its figures survive the way through the text. For every tracker that is false, as
`small_percentage` shows; the hypotheses say for which it is true. `MeansLegible`: the mean is below a second, above which it
is printed as `1e+06` and read as 1, and no subscription without messages has made it NaN. `ColumnsSuffice`: counters
have at most nine digits, and late messages are none or at least one in ten thousand of those received, so that
their percentage is shorter than its column of ten. That column is the only tight one: a percentage of too late messages has eleven
characters at most, for 15. With `CommasAsked` the columns do not matter. TLC evaluates the hypotheses but the last for the figures of
`multi_process` (MCMultiProcess); `DistinctNames` fails for `SameStem.cfg`.

The proof computes what an `std::ostream` does: `DigitsOf` counts the columns of an integer, `ExponentRange`,
`SignificantDigits` and `DecimalLength` bound those of a double, and `IntegralText` shows that a number
of up to six digits is printed as itself. `MeanRounds`: rounding to a microsecond moves the mean by half a one.
`SumType` is an induction over the trackers (`SetInduction`, below).

**ExperimentProofs.** `NothingOutlives`: whatever program runs on any number of executors, nothing uses
its system once it is destroyed. The destructor's part is `JoinInv`: it runs only after the last
step of the program, and what it has passed in its loop has ended, for good. The logger's part is `LoggerInv`:
it has no thread whenever each of its starts so far was followed by a join. `ReportsAreFinal`: the invariant
`ReportInv` is stronger than the agreement of the reports. What a report says of an executor is what that executor has received
*now*, and it is settled: rclcpp is shut down and no callback runs, or all threads have ended. `GraceInv` connects that to the
program's place: past the shutdown, `ok` is false; past the wait that follows it, no callback runs. The second is
`GraceSuffices`, an assumption about the callbacks: that they return in the 500 ms the programs sleep.
The nodes of the composition benchmark need no grace: they report when all threads have been joined.
That every program joins the logger it starts (`ProgramsAssumption`) and shuts down and waits before each step that
reports (`ReportsAssumption`) is evaluated by TLC for the programs of the run.

**ScanProofs.** `LinesAreWhole`: however many threads scan whatever messages in groups of either type, each line of the events
file is one event. `WriterInv` says who is inside the mutex: a thread that has begun a line holds it, what
stands in the unfinished line is the first part of that thread's event, and nothing stands there while no thread has
begun one.

`CountersNeverExceed`: also where scans of one tracker race, no counter is above the number of
messages given to it. The invariant (`CountInv`) bounds each counter, and each value that a thread has loaded
from it and not stored yet, by the finished scans of messages of its class and those under way that have passed its update. The bound
on the loaded value is what makes it inductive: a scan that stores an old value stores less, and by then is itself among those counted. Threads are a finite set, as what counts them must be.

`ClassificationImplemented`: in a mutually exclusive group a scan with all its steps is one step of Classification. `AloneInv`: a tracker
is in at most one scan; `StageInv`: what that scan has done to the tracker so far is exactly the updates before its place
(`Before`), which depends on the events it must log and on the order of the members in `scan`. All steps but the last leave the
abstract tracker alone (`StepImplements`), and the last makes it what `Scan` makes of the tracker before it.
`ClassifiedAsDefined` is the arithmetic under it: what `scan` judges late and too late, with thresholds computed from a frequency in
a header through floats, an `int` period and a percentage, is what the README of `irobot_benchmark` defines, to the microsecond. To
the microsecond means: if the definition says so of a latency one microsecond shorter, `scan` does, and if `scan` does, the definition
says so of one a microsecond longer. Without that tolerance it is false (section 6). The period `scan` derives is the publisher's or
one short of it (`PeriodWithin`, by `FloatPeriod`), which moves a threshold by one at most, and the dropped nanoseconds are less than
one: that the two do not add up is `ThresholdWithin`. *Hypothesis* `SendersFit`: a publisher's
period is below half the float's mantissas, 8.4 s (the longer one of the run is beyond what is proved), a client's divides a second,
the percentages are at most 100 and their products with periods fit an `int`, and latencies are not negative: what
the code needs and does not check (section 6).

`EventsTellCounters`: between two scans the file tells the counters of an entity whose group is
mutually exclusive: the late and the too late by the number of events, the lost by what the texts name, one message for a text that
names one, and one fewer than named for a text that names several, the message that arrived or one after it being among them. `scan` counts lost messages before it logs them, and late ones after, so that within a scan the two differ;
`ToldInv` says by how much, from the place of the scan and the counter it is about to store (`Unlogged`,
`Uncounted`). Lines of other entities may be written in between. `StampInv` and `OrderInv` are for the order: the stamp is
taken before the mutex, but the next event of the same entity is not stamped until this one's line has ended.

`StatisticsAreExact`: however many samples, what `Stat` reports is the count, minimum, maximum, mean and variance, by
their definitions, of the latencies the entity was given. `ExactInv` says it of the tracker before the scan under way.
`ShiftCancels` is its step: the sums over distances from the first sample give the sum of the samples and the
numerator of their variance, and a further sample keeps it so, for all integers. What the definition
sums, the squared distances from a mean that each sample moves, is brought to these by `SumOfDistances`.

Both need sums over any number of lines or samples, and the library's theorems of induction take operators, which the provers
cannot instantiate. `SetInduction` (of TrackerProofs) takes a set of numbers instead and follows from the order of the naturals; with it,
`FoldExists` and `FoldSum` show that a sum over a finite set exists and does not depend on the order in which the fold takes its elements, and
`SumAdd`, that a further element adds its value.

**DiscoveryProofs.** `SpinsOnlyDiscovered`: under `OneProcess`, spinning begins only
with everything discovered, for any nodes, topics and namespaces. The nodes a round has passed stay good
since a node forgets nothing (`KnownInv`, `HeardInv`). That a count equal to the number of
subscribers means each of them is a matter of injections between finite sets
(`EdpOkMeansHeard`), and it is where a second process would break the argument. `AbortsOnlyUndiscovered` goes the other way: if all
is discovered, each check passes (`CompletePasses`), so that a failed round began before (`UndiscoveredInv`). Other processes do
no harm there, as EDP asks for at least as many subscriptions; a second namespace does, hence `OneNamespace`,
as without the option for node namespaces.

`NothingIsLostToDiscovery` is about the composition. `MessagesInv` says of every publisher and subscription of a topic
that what has arrived are the numbers up to the expected one, that the rest of what was sent is in flight, each
number once, and that nothing was lost (`NothingMissed`). A message published by a node keeps that only
because all subscriptions of its topic are matched by then, which is `SpinsOnlyDiscovered`'s invariant and `AllCompatible`.
`MessagingImplemented`: the composition implements PubSub, whatever the processes, namespaces and QoS: a step of discovery is
a match (`Match`) or a stutter, a timer or a callback is PubSub's own.

Only checked by TLC:

- every liveness property: the prover does not reason about fairness or `ENABLED`. These are `WokenByShutdown`, `LockIsReleased`
  (of requests and of goals), `ExperimentEnds`, `StopReturns`, `ParentReports` and `DiscoveryEnds`.

That Report's texts are those an `std::ostream` prints is not a theorem but the model: the proofs are about
Report's definitions, which TLC evaluates for the figures of `multi_process` and `small_percentage`.

## 6. Disagreements between the code and what is said of it

Each is shown by a counterexample TLC finds.

Runs of the project:

- **A shutdown and a deadline can block each other for ever** (`sleep_deadlock`).
  `sleep_task` unregisters its callback with its mutex held (`executors.cpp:106-109`). If the deadline
  passes while the shutdown, holding the context's mutex, is about to run
  that callback (`:99`), each holds what the other wants. `test_executors.cpp:64`
  expects a shutdown to wake the sleeper up.
- **Two calls can pass the client lock** (`client_lock_race`). The atomic is loaded and stored in two
  operations (`performance_node_base_impl.hpp:550-553`);
  `performance_node_base.hpp:273` says the lock is there "to avoid calling when you are already waiting". It needs a
  reentrant group and several threads.
- **A small percentage shifts the totals** (`small_percentage`). Columns are
  separated by padding only. 1 late message of 30000 prints as `0.00333333`, ten characters in a
  column of ten, and `parse_line` returns 0 for the messages lost and too late; the system total is
  wrong although each file is right.

Demonstrations (see the table in section 3):

- A publisher of 13 ms announces 76.92308 Hz (`performance_node_base_impl.hpp:343`), from which `scan` gets 12999.999 in a float
  and 12999 in an `int` (`tracker.cpp:88`): a message of 13000 us is counted as too late, which by
  `irobot_benchmark/README.md` takes more than the period. Of the periods of 1 to 1000 ms, 80 come out one microsecond short.
  Nanoseconds are dropped before thresholds are compared (`tracker.cpp:46`): 5000.5 us are not above 5 ms. TLC shows both in
  `classification` when the tolerance of a microsecond is taken out of `MayJudge`.
- The event `lost_messages` counts from the message that arrived: expected 5,
  received 8 reads "messages 7 to 10" (`tracker.cpp:79-80`), while the README calls lost what never arrived.
- The examples pass the name of a csv file (`lat_rel_*.csv`; `json_system_main.cpp`: `latency_all.txt`)
  to `save_latency_all_stats`, which takes a folder (`system.cpp:207-217`; the declaration at
  `system.hpp:74` still says `filename`): the file is never written. `performance_test/bash_scriptsREADME.md:151`
  lists it among the results.
- A service, or an action server, with several clients has one tracker, or one sequence
  of reply numbers, for all of them: interleaved numbers look like losses, of up to 2^32.
- `SPIN_FUTURE_COMPLETE` takes the future of one promise once per executor (`system.cpp:199`);
  `SPIN_SOME` does not see the cancel that `system.cpp:170` announces.
- The sampled average and the total of a process are NaN as soon as one tracker has no samples
  (`stat_logger.cpp:204`, `:221`).
- With a reentrant callback group (`--callback-group-type reentrant`, `ReentrantScan.cfg`) two scans compare and subtract
  the expected number while it moves: a loss of almost 2^32 messages appears where none was lost. Its
  help text does not warn of this; counters that are racing only ever fall short (`NeverOvercounts`).
- Events are stamped before `write_event` takes its mutex (`events_logger.cpp:75-81`): the lines of one caller are, with a mutually exclusive group, in the order
  of their stamps, those of different callers need not be.
- EDP counts a subscription that the publisher's QoS cannot serve (`system.cpp:533`): the system spins, and nothing is counted as
  lost for a subscription nothing ever reaches.
- Counters are reset between the load and the store of a scan (`stat_logger.cpp:223`).
- Topologies of the same file name share a directory (`irobot_benchmark.cpp:85`), against the comment before it (`:82-84`).
- The frequency a client announces is an integer division (`performance_node_base_impl.hpp`): above a
  second it is 0, and the thresholds come from the conversion of an infinity. A
  negative latency counts as too late.
- EDP compares with `>=` and counts subscriptions of other processes; it uses names without
  namespaces (`system.cpp:510-534`).

## 7. What is assumed of ROS 2 and of the build

rclcpp, rclcpp_action, rmw and DDS are not in this repository. They are modelled from how
`src/` uses them:

- A publisher whose QoS offers less than a subscription requests is not matched with it, but counted as
  a publisher of the topic by the graph.
- The executor runs one callback of a mutually exclusive group at a time, any number of a reentrant one.
- Messages of one publisher arrive in order, each once, or not at all; matching
  and discovery happen at any time. Requests and responses of a client keep their order.
- `rclcpp::Context` holds one mutex while it runs shutdown callbacks, the same that adding and
  removing them takes.
- `cancel` clears the executor's flag and `spin` sets it on entry; a shutdown ends every spin function.
- rclcpp_action drops feedback for goals the client holds no handle of.
- Waits on condition variables are not woken spuriously where a loop makes that harmless.
- Assertions are on: no build file of the repository defines `NDEBUG`. With it, a discovery that
  never completes would poll for ever, and a system without nodes would spin.
- The conversion of an out-of-range float to `int` is undefined in C++; both the
  values that x86 and ARM produce are allowed.

## 8. What is not modelled

- **The corruption of m_all_latency**: in a reentrant group `push_back` races with itself. Its
  outcome is not a value; ConcurrentScan leaves the vector out.
- **The layout of the events file**: a line is the parts that are streamed; the text of a description is reduced to the
  numbers it names. The events of discovery and of unavailable services go through the same `write_event` and are not
  repeated in the modules of those components.
- **The tables of log_trackers_latency_all_stats**, rates, deviations, minima and maxima:
  output that nothing reads back.
- **CPU and memory figures**: read from the operating system.
- **Node wrappers, message packages, type plugins** (`load_plugins.cpp`, generated
  code): adapters and declarations without behaviour after start-up.
- **Parsing a command line**: cxxopts'. Options begins with the options a command line gives.
- **composition_benchmark**: its programs that create an idle node and sleep (`sleep_task` is SleepTask),
  and the loading of its components into a container of rclcpp.
- **memory_benchmark**: programs that create entities and print the resident memory; what they do is rclcpp's.
- **Scripts**: plots and shell loops over the files the programs write.
- History depth and the other QoS policies, message types and sizes, intra-process communication: the
  middleware's; they decide whether a message is lost, and any message may be.

## 9. Plan

Order of the modules, the most important behaviour first; those with a tick exist.

- [x] Tracker, LossAccounting, PubSub, with proofs: the accounting of losses is what the repository is for
- [x] SleepTask, with proofs (in WaitProofs)
- [x] ClientService, ActionService, with proofs
- [x] ResourceUsageLogger, with proofs (in WaitProofs); Classification
- [x] Report, MultiProcess, with proofs (in WaitProofs)
- [x] Discovery, with proofs; Factory, with proofs (in PubSubProofs)
- [x] SystemSpin, Experiment, with proofs
- [x] ConcurrentScan, EventsLogger, Stat, with proofs; Classification as the abstract specification of `scan`
- [x] DiscoveredPubSub: discovery composed with the messages that depend on it, with proofs
- [x] ClientService and ActionService implement LossAccounting, on nodes made by Factory
- [x] Options; command lines in MultiProcess and in the client runs
- [x] composition_benchmark: its nodes and programs
- [ ] Sampling: the logger's averages against the messages of a period, as an abstract specification that
      ResourceUsageLogger implements where it does

Theorems proved: those of section 5, one for each safety property and refinement that a passing run checks.

## 10. Running the checks

    tlc -config PubSub.cfg MCPubSub        # a run: its cfg and its module
    tlapm PubSubProofs.tla                 # the proofs of a module

The runs take from a second to about a minute and a half (`classification`). The modules use the standard and the
community modules (`FiniteSetsExt`, `Functions`) and, for the proofs, the TLAPS library.
