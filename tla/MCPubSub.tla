------------------------------ MODULE MCPubSub ------------------------------
(* PubSub on a small topology: a publisher heard by a subscription that    *)
(* tracks losses and by one that does not, and one with two timers and a   *)
(* topic of its own, because its node names that topic twice.              *)
EXTENDS PubSub, TLC

INSTANCE Factory

MCTopology ==
  <<[node_name |-> "sensor",
     publishers |-> <<[topic_name |-> "x", freq_hz |-> 10]>>],
    [node_name |-> "filter",
     publishers |-> <<[topic_name |-> "y", period_ms |-> 20],
                      [topic_name |-> "y", freq_hz |-> 10]>>,
     subscribers |-> <<[topic_name |-> "x"]>>],
    [node_name |-> "sink",
     subscribers |-> <<[topic_name |-> "x"], [topic_name |-> "y"]>>]>>

MCNodes == ParseTopology(MCTopology)
MCPublishers == PublisherEntities(MCNodes)
MCSubscriptions == SubscriptionEntities(MCNodes)
MCTopics == {entity[2] : entity \in MCPublishers \union MCSubscriptions}
MCPublisherTopic == [p \in MCPublishers |-> p[2]]
MCSubscriptionTopic == [s \in MCSubscriptions |-> s[2]]
MCTimers == [p \in MCPublishers |-> TimersOf(MCNodes, p)]
\* The node "filter" runs without tracking.
MCTracked == {s \in MCSubscriptions : s[1] = <<"sink">>}
MCLatencies == {2, 60}
MCOneLatency == {2}
=============================================================================
