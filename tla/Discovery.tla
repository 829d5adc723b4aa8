----------------------------- MODULE Discovery -----------------------------
(***************************************************************************)
(* System::wait_discovery: before it spins, the system polls the graph of  *)
(* each of its nodes until the nodes know of each other (PDP) and the      *)
(* publishers of their subscriptions (EDP), or time runs out.              *)
(*                                                                         *)
(* DDS discovery is external: each node learns of nodes and endpoints, of  *)
(* this process and of others, one by one and in any order.  A topic       *)
(* belongs to the namespace of the node that names it.  An assertion that  *)
(* fails ends the program, as in a build without NDEBUG.                   *)
(***************************************************************************)
EXTENDS Naturals, FiniteSets

CONSTANTS
  Nodes,        \* the nodes of the system
  OtherNodes,   \* nodes of other processes
  Namespace,    \* Namespace[n]: the namespace of node n
  Published,    \* Published[n]: the topics of the publishers of n
  Subscribed    \* Subscribed[n]: the topics of the subscriptions of n

ASSUME DiscoveryAssumption ==
  /\ Nodes # {} /\ IsFiniteSet(Nodes)
  /\ Nodes \intersect OtherNodes = {}

AllNodes == Nodes \union OtherNodes
SubscriptionsOf(ns) == UNION {{n} \X Subscribed[n] : n \in ns}

VARIABLES
  phase,       \* "pdp", "edp", "spinning" or "aborted"
  todo,        \* nodes the current round of checks has yet to visit
  failed,      \* whether a check of the round has failed
  expired,     \* whether the phase has lasted more than its maximum
  known,       \* known[n]: the nodes n has discovered
  found,       \* found[n]: the subscriptions n has discovered
  undiscovered \* history: whether discovery was incomplete when the
               \* round began

vars == <<phase, todo, failed, expired, known, found, undiscovered>>
graph == <<known, found>>

-----------------------------------------------------------------------------
\* The system's own nodes and subscriptions have all been discovered.
Complete ==
  \A n \in Nodes :
    /\ Nodes \subseteq known[n]
    /\ SubscriptionsOf(Nodes) \subseteq found[n]

Init ==
  /\ phase = "pdp"
  /\ todo = Nodes
  /\ failed = FALSE
  /\ expired = FALSE
  /\ known = [n \in Nodes |-> {n}]
  /\ found = [n \in Nodes |-> {}]
  /\ undiscovered = TRUE

\* rclcpp's count_subscribers, which expands the topic in the node's namespace.
CountSubscribers(n, topic) ==
  Cardinality({s \in found[n] : s[2] = topic /\ Namespace[s[1]] = Namespace[n]})

\* subs_per_topic, by the names the entities were given.
SubsPerTopic(topic) == Cardinality({n \in Nodes : topic \in Subscribed[n]})

\* For the mutation runs: one node is enough for PDP, one subscription for
\* EDP; a strict comparison.
PdpOkWithOne(n) == known[n] \intersect Nodes # {}
EdpOkWithOne(n) ==
  \A topic \in Published[n] :
    SubsPerTopic(topic) > 0 => CountSubscribers(n, topic) > 0
EdpOkWithOneMore(n) ==
  \A topic \in Published[n] : CountSubscribers(n, topic) > SubsPerTopic(topic)

\* What a node must have discovered to pass the check of a phase.
PdpOk(n) == Cardinality(known[n] \intersect Nodes) = Cardinality(Nodes)

EdpOk(n) ==
  \A topic \in Published[n] : CountSubscribers(n, topic) >= SubsPerTopic(topic)

-----------------------------------------------------------------------------
\* For the mutation runs: the next phase left without its nodes.
PassWithoutNodes(n, ok, from, to) ==
  /\ phase = from /\ ~failed
  /\ n \in todo
  /\ ok
  /\ IF todo = {n}
       THEN /\ phase' = to
            /\ todo' = {}
            /\ expired' = FALSE
            /\ undiscovered' = ~Complete
       ELSE /\ todo' = todo \ {n}
            /\ UNCHANGED <<phase, expired, undiscovered>>
  /\ UNCHANGED <<failed, graph>>

\* A node passes the check; after the last one the phase is over.
Pass(n, ok, from, to) ==
  /\ phase = from /\ ~failed
  /\ n \in todo
  /\ ok
  /\ IF todo = {n}
       THEN /\ phase' = to
            /\ todo' = Nodes
            /\ expired' = FALSE
            /\ undiscovered' = ~Complete
       ELSE /\ todo' = todo \ {n}
            /\ UNCHANGED <<phase, expired, undiscovered>>
  /\ UNCHANGED <<failed, graph>>

\* A node does not, and the rest of the round is skipped.
Fail(n, ok, in) ==
  /\ phase = in /\ ~failed
  /\ n \in todo
  /\ ~ok
  /\ failed' = TRUE
  /\ UNCHANGED <<phase, todo, expired, undiscovered, graph>>

CheckPdp(n) == Pass(n, PdpOk(n), "pdp", "edp") \/ Fail(n, PdpOk(n), "pdp")
CheckEdp(n) == Pass(n, EdpOk(n), "edp", "spinning") \/ Fail(n, EdpOk(n), "edp")

\* For the mutation runs: never giving up.
RetryForEver ==
  /\ failed
  /\ failed' = FALSE
  /\ todo' = Nodes
  /\ undiscovered' = ~Complete
  /\ UNCHANGED <<phase, expired, graph>>

\* After a failed round: another one, or the assertion on the duration.
Retry ==
  /\ failed /\ ~expired
  /\ failed' = FALSE
  /\ todo' = Nodes
  /\ undiscovered' = ~Complete
  /\ UNCHANGED <<phase, expired, graph>>

Abort ==
  /\ failed /\ expired
  /\ failed' = FALSE
  /\ phase' = "aborted"
  /\ UNCHANGED <<todo, expired, undiscovered, graph>>

\* max_discovery_time has passed since the phase began.
Expire ==
  /\ phase \in {"pdp", "edp"}
  /\ ~expired
  /\ expired' = TRUE
  /\ UNCHANGED <<phase, todo, failed, undiscovered, graph>>

WaitStep ==
  \/ \E n \in Nodes : CheckPdp(n) \/ CheckEdp(n)
  \/ Retry
  \/ Abort

-----------------------------------------------------------------------------
\* A node discovers another one, or a subscription.
DiscoverNode(n, m) ==
  /\ m \notin known[n]
  /\ known' = [known EXCEPT ![n] = @ \union {m}]
  /\ UNCHANGED <<phase, todo, failed, expired, found, undiscovered>>

DiscoverSubscription(n, s) ==
  /\ s \notin found[n]
  /\ found' = [found EXCEPT ![n] = @ \union {s}]
  /\ UNCHANGED <<phase, todo, failed, expired, known, undiscovered>>

Next ==
  \/ WaitStep
  \/ Expire
  \/ \E n \in Nodes :
       \/ \E m \in AllNodes : DiscoverNode(n, m)
       \/ \E s \in SubscriptionsOf(AllNodes) : DiscoverSubscription(n, s)

\* The thread runs and time passes; discovery need not make progress.
Spec == Init /\ [][Next]_vars /\ WF_vars(WaitStep) /\ WF_vars(Expire)

-----------------------------------------------------------------------------
\* The types of the variables.
TypeOK ==
  /\ phase \in {"pdp", "edp", "spinning", "aborted"}
  /\ todo \subseteq Nodes /\ todo # {}
  /\ {failed, expired, undiscovered} \subseteq BOOLEAN
  /\ known \in [Nodes -> SUBSET AllNodes]
  /\ found \in [Nodes -> SUBSET SubscriptionsOf(AllNodes)]

\* The system does not spin before it is discovered (system.cpp: "wait until
\* PDP and EDP are finished before starting"): its nodes know of each other
\* and its publishers of all of its subscriptions that are to hear them.
SpinsDiscovered ==
  phase = "spinning" =>
    \A n \in Nodes :
      /\ Nodes \subseteq known[n]
      /\ \A s \in SubscriptionsOf(Nodes) :
           s[2] \in Published[n] /\ Namespace[s[1]] = Namespace[n]
             => s \in found[n]

\* The system gives up only on a discovery that was late: never after a
\* round that began when everything had been discovered.
AbortsUndiscovered == phase = "aborted" => undiscovered

\* wait_discovery comes to an end, one way or the other (system.cpp: "maximum
\* discovery time, after which the experiment is shut down").
DiscoveryEnds == <>(phase \in {"spinning", "aborted"})
=============================================================================
