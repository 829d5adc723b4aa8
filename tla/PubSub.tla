------------------------------- MODULE PubSub -------------------------------
(***************************************************************************)
(* Publishers and subscriptions of performance_test nodes, between them    *)
(* the middleware.  Every callback runs alone on its tracker, as it does   *)
(* in the single-threaded executors.                                       *)
(*                                                                         *)
(* The middleware (rclcpp, rmw, DDS) is external: it matches publishers    *)
(* and subscriptions at any time, loses messages (best effort, or history  *)
(* depth exceeded) and hands the rest over in the order in which each      *)
(* publisher sent them.                                                    *)
(***************************************************************************)
EXTENDS Tracker, FiniteSets

CONSTANTS
  Publishers, Subscriptions, Topics,
  PublisherTopic,      \* [Publishers -> Topics]
  SubscriptionTopic,   \* [Subscriptions -> Topics]
  Timers,              \* Timers[p]: the periods of the timers of publisher p
  Tracked,             \* subscriptions whose Options::is_enabled is set
  Latencies,           \* latencies a message may have, in nanoseconds
  MaxPublish           \* bound: messages a publisher sends

ASSUME PubSubAssumption ==
  /\ PublisherTopic \in [Publishers -> Topics]
  /\ SubscriptionTopic \in [Subscriptions -> Topics]
  /\ Timers \in [Publishers -> SUBSET (Nat \ {0})]
  /\ Tracked \subseteq Subscriptions
  /\ Latencies \subseteq {l \in Int : -LatencyMod < l}
  /\ MaxPublish \in Nat
  /\ MaxPublish < TrackingMod

VARIABLES
  pubs,      \* pubs[p]: the tracker of publisher p (m_pubs)
  subs,      \* subs[s]: the tracker of subscription s (m_subs)
  matched,   \* matched[s]: the publishers discovery has matched with s
  inFlight,  \* inFlight[s]: the messages on their way to s
  got,       \* history: got[s], the numbers of the messages s received
  missing,   \* history: missing[s], the numbers behind each lost++ of s
  named      \* history: named[s], the numbers the lost_messages events name

vars == <<pubs, subs, matched, inFlight, got, missing, named>>

Numbers == 0 .. MaxPublish - 1

\* The header fields a tracker reads, with the publisher for the middleware.
Messages ==
  [pub : Publishers, tracking_number : Numbers, frequency : Frequency]

CreateMsgHeader(p, number, period) ==
  [pub |-> p, tracking_number |-> number,
   frequency |-> PublisherFrequency(period)]

\* The numbers that a header adds to the count of lost messages.
LostNumbers(tracker, header) ==
  {n \in 0 .. TrackingMod - 1 :
     Gap(tracker.tracking_number_count, n) < NewlyLost(tracker, header)}

-----------------------------------------------------------------------------
Init ==
  /\ pubs = [p \in Publishers |-> NewTracker(TRUE)]
  /\ subs = [s \in Subscriptions |-> NewTracker(s \in Tracked)]
  /\ matched = [s \in Subscriptions |-> {}]
  /\ inFlight = [s \in Subscriptions |-> {}]
  /\ got = [s \in Subscriptions |-> {}]
  /\ missing = [s \in Subscriptions |-> {}]
  /\ named = [s \in Subscriptions |-> {}]

\* For the mutation runs: publish_msg returning before add_sample.
PublishMsgUnsampled(p, period) ==
  LET numbered == GetAndUpdateTrackingNumber(pubs[p])
      msg == CreateMsgHeader(p, numbered.number, period)
  IN /\ pubs[p].stat.n < MaxPublish
     /\ pubs' = [pubs EXCEPT ![p] = numbered.tracker]
     /\ inFlight' = [s \in Subscriptions |->
                       IF p \in matched[s] THEN inFlight[s] \union {msg}
                                           ELSE inFlight[s]]
     /\ UNCHANGED <<subs, matched, got, missing, named>>

\* publish_msg, the callback of a timer; a publisher has several timers when
\* its node names the topic twice.  The time the call took is a sample of the
\* publisher's own statistics; it is not modelled.
PublishMsg(p, period) ==
  LET numbered == GetAndUpdateTrackingNumber(pubs[p])
      msg == CreateMsgHeader(p, numbered.number, period)
  IN /\ pubs[p].stat.n < MaxPublish
     /\ pubs' = [pubs EXCEPT ![p] = AddSample(numbered.tracker, 0)]
     /\ inFlight' = [s \in Subscriptions |->
                       IF p \in matched[s] THEN inFlight[s] \union {msg}
                                           ELSE inFlight[s]]
     /\ UNCHANGED <<subs, matched, got, missing, named>>

\* handle_sub_received_msg, called by topic_callback.
HandleSubReceivedMsg(s, msg) ==
  /\ \E latency \in Latencies, period \in PeriodsUs(msg.frequency) :
       subs' = [subs EXCEPT ![s] = Scan(@, msg, latency, period)]
  /\ got' = [got EXCEPT ![s] = @ \union {msg.tracking_number}]
  /\ missing' = [missing EXCEPT ![s] = @ \union LostNumbers(subs[s], msg)]
  /\ named' = [named EXCEPT ![s] = @ \union LostEventNumbers(subs[s], msg)]
  /\ UNCHANGED <<pubs, matched>>

\* The middleware hands over a message with no older one of the same
\* publisher before it.
Deliver(s, msg) ==
  /\ msg \in inFlight[s]
  /\ \A other \in inFlight[s] :
       other.pub = msg.pub => msg.tracking_number <= other.tracking_number
  /\ inFlight' = [inFlight EXCEPT ![s] = @ \ {msg}]
  /\ HandleSubReceivedMsg(s, msg)

\* The middleware loses a message.
Lose(s, msg) ==
  /\ msg \in inFlight[s]
  /\ inFlight' = [inFlight EXCEPT ![s] = @ \ {msg}]
  /\ UNCHANGED <<pubs, subs, matched, got, missing, named>>

\* Endpoint discovery matches a publisher with a subscription.
Match(p, s) ==
  /\ PublisherTopic[p] = SubscriptionTopic[s]
  /\ p \notin matched[s]
  /\ matched' = [matched EXCEPT ![s] = @ \union {p}]
  /\ UNCHANGED <<pubs, subs, inFlight, got, missing, named>>

Next ==
  \/ \E p \in Publishers : \E period \in Timers[p] : PublishMsg(p, period)
  \/ \E s \in Subscriptions : \E msg \in inFlight[s] :
       Deliver(s, msg) \/ Lose(s, msg)
  \/ \E p \in Publishers, s \in Subscriptions : Match(p, s)

Spec == Init /\ [][Next]_vars

-----------------------------------------------------------------------------
\* Each subscription hears one publisher at most: the topologies of
\* irobot_benchmark give every topic a single publisher.
OnePublisherPerTopic ==
  \A p, q \in Publishers : PublisherTopic[p] = PublisherTopic[q] => p = q

\* The types of the variables.
TypeOK ==
  /\ pubs \in [Publishers -> Trackers]
  /\ subs \in [Subscriptions -> Trackers]
  /\ matched \in [Subscriptions -> SUBSET Publishers]
  /\ inFlight \in [Subscriptions -> SUBSET Messages]
  /\ got \in [Subscriptions -> SUBSET Numbers]
  /\ missing \in [Subscriptions -> SUBSET (0 .. TrackingMod - 1)]
  /\ named \in [Subscriptions -> SUBSET Int]

\* Loss accounting is exact: a tracked subscription that heard something
\* has received each number below the one it expects or has counted it as
\* lost, never both, and m_lost_messages and m_received_messages are the
\* sizes of the two sets (tracker.cpp: scan).
LossIsExact ==
  \A s \in Tracked :
    /\ got[s] \intersect missing[s] = {}
    /\ got[s] \union missing[s] = 0 .. subs[s].tracking_number_count - 1
    /\ subs[s].lost = Cardinality(missing[s])
    /\ subs[s].received = Cardinality(got[s])

\* A loss is never announced for a message that still arrives: every step
\* of the trackers settles numbers for good, in increasing order.
Accounting == INSTANCE LossAccounting
  WITH Subscriptions <- Tracked,
       arrived <- [s \in Tracked |-> got[s]],
       missing <- [s \in Tracked |-> missing[s]]
ImplementsAccounting == Accounting!Spec

\* A lost_messages event names only messages that did not arrive
\* (irobot_benchmark/README.md: a lost message is one that never arrived).
LostEventsNameLostMessages ==
  \A s \in Subscriptions : named[s] \intersect got[s] = {}
=============================================================================
