------------------------------- MODULE Factory -------------------------------
(***************************************************************************)
(* TemplateFactory and System::add_nodes: the nodes, entities, timers and  *)
(* executors a topology describes.  Topologies come from a json file, here *)
(* a sequence of records in which a field may be absent, or, in the        *)
(* example programs, from numbers of nodes.                                *)
(*                                                                         *)
(* A name is a tuple of the parts it is put together from.  Message types, *)
(* sizes and the way a message is passed are left to the middleware.       *)
(***************************************************************************)
EXTENDS Integers, Sequences, FiniteSets

CONSTANT MicrosPerSecond   \* 1000000

\* Absent fields of a json object have defaults.
FieldOr(json, field, default) ==
  IF field \in DOMAIN json THEN json[field] ELSE default

\* The elements of an optional json array.
Elements(json, field) ==
  LET array == FieldOr(json, field, <<>>)
  IN {array[i] : i \in DOMAIN array}

\* The period of a timer, in microseconds.  The conversions through float
\* are exact up to the final truncation for whole numbers up to 10000.  An
\* entity with neither field gets a timer without a pause.
TimerPeriod(json) ==
  IF "freq_hz" \in DOMAIN json
    THEN MicrosPerSecond \div json.freq_hz
    ELSE FieldOr(json, "period_ms", 0) * (MicrosPerSecond \div 1000)

\* get_qos_from_json: of the policies those that decide on a match.
Qos(json) ==
  [reliability |-> FieldOr(json, "qos_reliability", "reliable"),
   durability |-> FieldOr(json, "qos_durability", "volatile")]

SensorDataQoS == [reliability |-> "best_effort", durability |-> "volatile"]
ServicesQoS == [reliability |-> "reliable", durability |-> "volatile"]

\* DDS: a publisher that offers less than a subscription requests is not
\* matched with it.
QosMatch(offered, requested) ==
  /\ requested.reliability = "reliable" => offered.reliability = "reliable"
  /\ requested.durability = "transient_local" =>
       offered.durability = "transient_local"

-----------------------------------------------------------------------------
(* Nodes and their entities.  m_pubs, m_subs and their like are maps by    *)
(* name: a second entity of the same name is not inserted, but the timer   *)
(* of a second publisher or client is created and calls the first.         *)

NewNode(name, namespace, executor_id) ==
  [name |-> name, namespace |-> namespace, executor_id |-> executor_id,
   pubs |-> {}, subs |-> {}, clients |-> {}, servers |-> {},
   action_clients |-> {}, action_servers |-> {}, timers |-> {}, qos |-> {}]

\* The entities of one kind that are added to a node: their names, the
\* periods of their timers and their QoS.
Entity(name, period, qos) == [name |-> name, period |-> period, qos |-> qos]
NamesOf(entities) == {e.name : e \in entities}
TimersFor(kind, entities) == {<<kind, e.name, e.period>> : e \in entities}
QosFor(kind, entities) == {<<kind, e.name, e.qos>> : e \in entities}

AddPeriodicPublishers(node, entities) ==
  [node EXCEPT !.pubs = @ \union NamesOf(entities),
               !.timers = @ \union TimersFor("pub", entities),
               !.qos = @ \union QosFor("pub", entities)]
AddSubscribers(node, entities) ==
  [node EXCEPT !.subs = @ \union NamesOf(entities),
               !.qos = @ \union QosFor("sub", entities)]
AddPeriodicClients(node, entities) ==
  [node EXCEPT !.clients = @ \union NamesOf(entities),
               !.timers = @ \union TimersFor("client", entities)]
AddServers(node, entities) ==
  [node EXCEPT !.servers = @ \union NamesOf(entities)]
AddPeriodicActionClients(node, entities) ==
  [node EXCEPT !.action_clients = @ \union NamesOf(entities),
               !.timers = @ \union TimersFor("action_client", entities)]
AddActionServers(node, entities) ==
  [node EXCEPT !.action_servers = @ \union NamesOf(entities)]

\* add_periodic_publisher_from_json for each publisher, and so on.
FromJson(json, array, name) ==
  {Entity(e[name], TimerPeriod(e), Qos(e)) : e \in Elements(json, array)}

CreateNodeEntities(node, json) ==
  LET Listed(array, name) == FromJson(json, array, name)
      publishing == AddPeriodicPublishers(node, Listed("publishers", "topic_name"))
      hearing == AddSubscribers(publishing, Listed("subscribers", "topic_name"))
      requesting == AddPeriodicClients(hearing, Listed("clients", "service_name"))
      serving == AddServers(requesting, Listed("servers", "service_name"))
      asking == AddPeriodicActionClients(serving,
                                         Listed("action_clients", "action_name"))
  IN AddActionServers(asking, Listed("action_servers", "action_name"))

\* create_node_from_json: the suffix tells the copies of a node apart, in
\* their names and, if they have one, in their namespaces.
CreateNode(json, suffix) ==
  NewNode(<<json.node_name>> \o suffix,
          IF "node_namespace" \in DOMAIN json
            THEN <<json.node_namespace>> \o suffix ELSE <<>>,
          FieldOr(json, "executor_id", 0))

\* "number" asks for that many copies of a node.
Suffixes(json) ==
  IF "number" \in DOMAIN json THEN {<<k>> : k \in 1 .. json.number}
                              ELSE {<<>>}

\* parse_topology_from_json, for a topology that gives its nodes distinct names.
ParseTopology(json) ==
  UNION {{CreateNodeEntities(CreateNode(json[i], suffix), json[i]) :
            suffix \in Suffixes(json[i])} : i \in DOMAIN json}

-----------------------------------------------------------------------------
(* The nodes the example programs ask for, by number.                      *)

IdNode(id) == NewNode(<<"node", id>>, <<>>, 0)

SubscriberNode(id, topics) ==
  AddSubscribers(IdNode(id), {Entity(topic, 0, SensorDataQoS) : topic \in topics})
ServerNode(id) == AddServers(IdNode(id), {Entity(id, 0, ServicesQoS)})
PublisherNode(id, frequency) ==
  AddPeriodicPublishers(IdNode(id),
    {Entity(id, MicrosPerSecond \div frequency, SensorDataQoS)})
PeriodicClientNode(id, services, frequency) ==
  AddPeriodicClients(IdNode(id),
    {Entity(service, MicrosPerSecond \div frequency, ServicesQoS) :
       service \in services})

\* Nodes start_id .. end_id - 1 subscribe to the topics from end_id on, and
\* clients likewise; each publisher and server node has a topic or service
\* with its own number.
CreateSubscriberNodes(start_id, end_id, n_publishers) ==
  {SubscriberNode(id, end_id .. end_id + n_publishers - 1) :
     id \in start_id .. end_id - 1}
CreatePeriodicPublisherNodes(start_id, end_id, frequency) ==
  {PublisherNode(id, frequency) : id \in start_id .. end_id - 1}
CreatePeriodicClientNodes(start_id, end_id, n_services, frequency) ==
  {PeriodicClientNode(id, end_id .. end_id + n_services - 1, frequency) :
     id \in start_id .. end_id - 1}
CreateServerNodes(start_id, end_id) ==
  {ServerNode(id) : id \in start_id .. end_id - 1}

\* subscriber_nodes_main and publisher_nodes_main side by side, or both in
\* simple_pub_sub_main; client_nodes_main, server_nodes_main and
\* simple_client_service_main likewise.
SubscriberNodes(n_subscribers, n_publishers) ==
  CreateSubscriberNodes(0, n_subscribers, n_publishers)
PublisherNodes(n_subscribers, n_publishers, frequency) ==
  CreatePeriodicPublisherNodes(n_subscribers, n_subscribers + n_publishers,
                               frequency)
ClientNodes(n_clients, n_services, frequency) ==
  CreatePeriodicClientNodes(0, n_clients, n_services, frequency)
ServerNodes(n_clients, n_services) ==
  CreateServerNodes(n_clients, n_clients + n_services)

-----------------------------------------------------------------------------
(* The nodes of the composition benchmark.  Periods are whole milliseconds. *)

MillisOf(frequency) == (1000 \div frequency) * (MicrosPerSecond \div 1000)

BasePublisherNode(options) ==
  AddPeriodicPublishers(NewNode(<<options.name>>, <<>>, 0),
    {Entity("my_topic", MillisOf(options.freq), SensorDataQoS)})
BaseSubscriberNode(options) ==
  AddSubscribers(NewNode(<<options.name>>, <<>>, 0),
                 {Entity("my_topic", 0, SensorDataQoS)})

ComposablePublisher(name, executor_id, topic, frequency) ==
  AddPeriodicPublishers(NewNode(name, <<>>, executor_id),
                        {Entity(topic, MillisOf(frequency), SensorDataQoS)})
ComposableSubscriber(name, executor_id, topic) ==
  AddSubscribers(NewNode(name, <<>>, executor_id),
                 {Entity(topic, 0, SensorDataQoS)})

\* create_pub_sub_system; "spin_isolated" gives each node an executor.
PubSubSystem(options) ==
  LET ExecutorId(k) == IF options.spin_t = "spin_isolated" THEN k ELSE 0
  IN {ComposablePublisher(<<"pub_node">>, ExecutorId(0), "topic", options.freq)}
       \union {ComposableSubscriber(<<"sub_node", i>>, ExecutorId(i + 1), "topic") :
                 i \in 0 .. options.subs - 1}

\* One timer publishes to all the fast topics, another to the slow one.
MultiProducerNode(topics_number) ==
  AddPeriodicPublishers(NewNode(<<"MultiProducerNode">>, <<>>, 0),
    {Entity(<<"topic", i>>, 10 * (MicrosPerSecond \div 1000), SensorDataQoS) :
       i \in 0 .. topics_number - 1}
    \union {Entity(<<"slow_topic">>, 111 * (MicrosPerSecond \div 1000), SensorDataQoS)})

-----------------------------------------------------------------------------
(* The system that gets these nodes.                                       *)

\* A relative topic belongs to the namespace of its node.
TopicName(node, topic) == <<node.namespace, topic>>

\* The publishers and subscriptions in the system, by node and topic.
Endpoint(node, topic) == <<node.name, TopicName(node, topic)>>
PublisherEntities(nodes) ==
  UNION {{Endpoint(node, topic) : topic \in node.pubs} : node \in nodes}
SubscriptionEntities(nodes) ==
  UNION {{Endpoint(node, topic) : topic \in node.subs} : node \in nodes}

\* The periods of the timers that call publish_msg for a publisher.
TimersOf(nodes, pub) ==
  UNION {{t[3] : t \in {u \in node.timers : u[1] = "pub"
                                            /\ Endpoint(node, u[2]) = pub}} :
           node \in nodes}

\* The QoS of a publisher or subscription; a name has one in each node.
QosOf(node, kind, topic) ==
  CHOOSE qos \in {q[3] : q \in node.qos} : <<kind, topic, qos>> \in node.qos

\* Clients, of services and of actions, by node and name; their timers.
ClientEntities(nodes) ==
  UNION {{node.name} \X node.clients : node \in nodes}
ActionClientEntities(nodes) ==
  UNION {{node.name} \X node.action_clients : node \in nodes}
ClientTimers(nodes, kind, entity) ==
  UNION {{t[3] : t \in {u \in node.timers :
                        u[1] = kind /\ <<node.name, u[2]>> = entity}} :
           node \in nodes}
ServicesOf(nodes) == UNION {node.servers : node \in nodes}
ActionsOf(nodes) == UNION {node.action_servers : node \in nodes}

\* add_node: one executor for each executor_id.
ExecutorIds(nodes) == {node.executor_id : node \in nodes}
=============================================================================
