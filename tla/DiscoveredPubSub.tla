-------------------------- MODULE DiscoveredPubSub --------------------------
(***************************************************************************)
(* System::spin: discovery first, then the executors that run the timers   *)
(* of the publishers and the callbacks of the subscriptions.  A publisher  *)
(* is matched with the subscriptions its node has discovered, if their QoS *)
(* permits.  The middleware loses nothing here: what a subscription does   *)
(* not hear is what was published before it was matched.                   *)
(***************************************************************************)
EXTENDS Discovery, Tracker

CONSTANTS
  Timers,              \* by publisher: the periods of its timers
  Compatible,          \* pairs of a publisher and a subscription by their QoS
  Latencies, MaxPublish               \* as in PubSub

ASSUME DiscoveredPubSubAssumption ==
  /\ Latencies \subseteq {l \in Int : -LatencyMod < l}
  /\ MaxPublish \in Nat
  /\ MaxPublish < TrackingMod

VARIABLES pubs, subs, inFlight, got, missing, named   \* as in PubSub

pub_sub_vars == <<pubs, subs, inFlight, got, missing, named>>
composed_vars == <<vars, pub_sub_vars>>

Publishers == UNION {{n} \X Published[n] : n \in Nodes}
Subscriptions == SubscriptionsOf(Nodes)
\* A topic by its expanded name.
Topic(entity) == <<Namespace[entity[1]], entity[2]>>

\* The publishers that send to a subscription.
Matched ==
  [s \in Subscriptions |->
     {p \in Publishers : /\ Topic(p) = Topic(s)
                         /\ <<p, s>> \in Compatible
                         /\ s \in found[p[1]]}]

Messaging == INSTANCE PubSub WITH
  Topics <- {Topic(entity) : entity \in Publishers \union Subscriptions},
  PublisherTopic <- [p \in Publishers |-> Topic(p)],
  SubscriptionTopic <- [s \in Subscriptions |-> Topic(s)],
  Tracked <- Subscriptions,
  matched <- Matched

-----------------------------------------------------------------------------
ComposedInit == Init /\ Messaging!Init

\* spin: the executors start when wait_discovery has returned.
Wait == (WaitStep \/ Expire) /\ UNCHANGED pub_sub_vars

Graph ==
  /\ \E n \in Nodes :
       \/ \E m \in AllNodes : DiscoverNode(n, m)
       \/ \E s \in SubscriptionsOf(AllNodes) : DiscoverSubscription(n, s)
  /\ UNCHANGED pub_sub_vars

\* For the mutation runs: executors that start before the discovery.
SpinStepUndiscovered ==
  /\ phase # "aborted"
  /\ UNCHANGED vars
  /\ \/ \E p \in Publishers : \E period \in Timers[p] :
          Messaging!PublishMsg(p, period)
     \/ \E s \in Subscriptions : \E msg \in inFlight[s] :
          Messaging!Deliver(s, msg)

SpinStep ==
  /\ phase = "spinning"
  /\ UNCHANGED vars
  /\ \/ \E p \in Publishers : \E period \in Timers[p] :
          Messaging!PublishMsg(p, period)
     \/ \E s \in Subscriptions : \E msg \in inFlight[s] :
          Messaging!Deliver(s, msg)

ComposedNext == Wait \/ Graph \/ SpinStep

ComposedSpec ==
  /\ ComposedInit /\ [][ComposedNext]_composed_vars
  /\ WF_composed_vars(WaitStep /\ UNCHANGED pub_sub_vars)
  /\ WF_composed_vars(Expire /\ UNCHANGED pub_sub_vars)

-----------------------------------------------------------------------------
\* Discovery costs no messages (system.cpp: "wait until PDP and EDP are
\* finished before starting"): a subscription of the system hears its topic
\* from message 0 on, whatever the order of discovery, and counts none lost.
NothingLostToDiscovery ==
  \A p \in Publishers, s \in Subscriptions : Topic(p) = Topic(s) =>
    /\ got[s] \union {msg.tracking_number : msg \in inFlight[s]}
         = 0 .. pubs[p].tracking_number_count - 1
    /\ subs[s].lost = 0
=============================================================================
