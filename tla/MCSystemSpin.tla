---------------------------- MODULE MCSystemSpin ----------------------------
(* SystemSpin with two executors, under each spin type the code offers.    *)
EXTENDS SystemSpin

CONSTANT MicrosPerSecond
INSTANCE Factory

\* A topology for two executors, and one for a single executor.
MCExecutors ==
  ExecutorIds(ParseTopology(
    <<[node_name |-> "first"],
      [node_name |-> "second", number |-> 2, executor_id |-> 1]>>))
MCOneExecutor == ExecutorIds(ParseTopology(<<[node_name |-> "only"]>>))

\* SPIN_FUTURE_COMPLETE with the only number of executors it can serve.
WorkingSystems ==
  {<<"SPIN", MCExecutors>>, <<"SPIN_SOME", MCExecutors>>,
   <<"SPIN_FUTURE_COMPLETE", MCOneExecutor>>}
SpinSome == {<<"SPIN_SOME", MCExecutors>>}
SharedFuture == {<<"SPIN_FUTURE_COMPLETE", MCExecutors>>}
=============================================================================
