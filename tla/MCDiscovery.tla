---------------------------- MODULE MCDiscovery ----------------------------
(* Discovery with a publisher, a subscription, and a node that subscribes  *)
(* and publishes to a topic nobody hears; with another process that        *)
(* subscribes to the same topic; with two nodes of two namespaces; and     *)
(* with a publisher that offers less than its subscription requests.       *)
EXTENDS DiscoveredPubSub

INSTANCE Factory

Publisher == [node_name |-> "publisher",
              publishers |-> <<[topic_name |-> "x", freq_hz |-> 10]>>]
Subscriber == [node_name |-> "subscriber",
               subscribers |-> <<[topic_name |-> "x"]>>]
Relay == [node_name |-> "relay",
          publishers |-> <<[topic_name |-> "y", freq_hz |-> 10]>>,
          subscribers |-> <<[topic_name |-> "x",
                             qos_reliability |-> "best_effort"]>>]
Other == [node_name |-> "other", subscribers |-> <<[topic_name |-> "x"]>>]
Local == [node_name |-> "subscriber", node_namespace |-> "local",
          subscribers |-> <<[topic_name |-> "x"]>>]
BestEffort == [node_name |-> "best effort",
               publishers |-> <<[topic_name |-> "x", freq_hz |-> 10,
                                 qos_reliability |-> "best_effort"]>>]

Names(nodes) == {node.name : node \in nodes}
Named(nodes, name) == CHOOSE node \in nodes : node.name = name

OneNamespace == ParseTopology(<<Publisher, Subscriber, Relay>>)
TwoNamespaces == ParseTopology(<<Publisher, Local>>)
OtherProcess == ParseTopology(<<Other>>)
Mismatch == ParseTopology(<<BestEffort, Subscriber>>)
AllTopologies == OneNamespace \union OtherProcess \union Mismatch

AllNames == Names(AllTopologies \union TwoNamespaces)
NodeOf == [name \in AllNames |-> Named(AllTopologies \union TwoNamespaces, name)]
OneNamespaceNames == Names(OneNamespace)
TwoNamespacesNames == Names(TwoNamespaces)
MismatchNames == Names(Mismatch)
OtherNames == Names(OtherProcess)
NodeNamespace ==
  [name \in Names(AllTopologies) |-> Named(AllTopologies, name).namespace]
LocalNamespace ==
  [name \in TwoNamespacesNames |-> Named(TwoNamespaces, name).namespace]
PublishedTopics == [name \in AllNames |-> NodeOf[name].pubs]
SubscribedTopics == [name \in AllNames |-> NodeOf[name].subs]
PublisherTimers ==
  [p \in Publishers |->
     {t[3] : t \in {u \in NodeOf[p[1]].timers : u[1] = "pub" /\ u[2] = p[2]}}]
CompatibleQos ==
  {<<p, s>> \in Publishers \X Subscriptions :
     QosMatch(QosOf(NodeOf[p[1]], "pub", p[2]), QosOf(NodeOf[s[1]], "sub", s[2]))}

MCNodes == OneNamespaceNames
MCTwoNodes == TwoNamespacesNames
MCMismatch == MismatchNames
MCOther == OtherNames
MCNamespace == NodeNamespace
MCLocalNamespace == LocalNamespace
MCPublished == PublishedTopics
MCSubscribed == SubscribedTopics
MCTimers == PublisherTimers
MCCompatible == CompatibleQos
MCLatencies == {2}
=============================================================================
