---------------------------- MODULE MCExperiment ----------------------------
(* Experiment with the executors and spin types of MCSystemSpin.           *)
EXTENDS Experiment, Options

CONSTANT MicrosPerSecond
INSTANCE Factory

\* Systems with two executors, and with a single one: of topologies and of
\* the composition benchmark.
Isolated == CompositionOptions([subs |-> 1, freq |-> 10,
                                spin_t |-> "spin_isolated"])
TwoExecutors ==
  {ExecutorIds(ParseTopology(
     <<[node_name |-> "first"],
       [node_name |-> "second", number |-> 2, executor_id |-> 1]>>)),
   ExecutorIds(PubSubSystem(Isolated))}
OneExecutor ==
  {ExecutorIds(ParseTopology(<<[node_name |-> "only"]>>)),
   ExecutorIds({BasePublisherNode(Isolated)}),
   ExecutorIds({BaseSubscriberNode(Isolated)}),
   ExecutorIds({MultiProducerNode(5)})}

\* SPIN_FUTURE_COMPLETE with the only number of executors it can serve.
SystemsThatWork ==
  {"SPIN", "SPIN_SOME"} \X TwoExecutors
    \cup {"SPIN_FUTURE_COMPLETE"} \X OneExecutor
WorkingSystems == SystemsThatWork
AllExecutors == UNION (TwoExecutors \cup OneExecutor)
MCExecutors == AllExecutors

\* One topology or several; with and without the logger and a name for files.
Benchmarks ==
  {IRobotBenchmark(Parse(arguments)) :
     arguments \in {[topology |-> <<"a">>], [topology |-> <<"a", "b">>]}}
Examples ==
  {JsonSystem}
    \cup UNION {{SimplePubSub(options), SimpleClientService(options),
                 SubscriberNodesProgram(options),
                 PublisherNodesProgram(options), ClientNodesProgram(options),
                 ServerNodesProgram(options)} :
                  options \in {ExampleOptions(arguments) :
                    arguments \in [monitor_stats : {0, 1},
                                   experiment_name : {"", "name"}]}}
Compositions == {BaseProgram, ComposablePubSub, MultiProducer}
AllPrograms == Benchmarks \cup Examples \cup Compositions
MCPrograms == AllPrograms
=============================================================================
