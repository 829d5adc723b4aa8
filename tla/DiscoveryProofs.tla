--------------------------- MODULE DiscoveryProofs ---------------------------
(***************************************************************************)
(* Theorems about Discovery, for any number of nodes, topics and           *)
(* namespaces.                                                             *)
(***************************************************************************)
EXTENDS DiscoveredPubSub, TrackerProofs

\* No other process takes part: what CountSubscribers counts is the system's.
OneProcess == OtherNodes = {}

\* Topics are named in one namespace, as without the option that gives nodes
\* namespaces of their own.
OneNamespace == \A m, n \in Nodes : Namespace[m] = Namespace[n]

-----------------------------------------------------------------------------
(* Type correctness, whatever other processes and namespaces there are.      *)

\* A set of two flags and a boolean is a set of booleans.
LEMMA FlagsType ==
  ASSUME NEW a, NEW b, NEW c, a \in BOOLEAN, b \in BOOLEAN, c \in BOOLEAN
  PROVE  {a, b, c} \subseteq BOOLEAN
OBVIOUS

LEMMA TypeInit == Init => TypeOK
<1>1. \A n \in Nodes : {n} \subseteq AllNodes
  BY DEF AllNodes
<1> QED
  BY <1>1, DiscoveryAssumption DEF Init, TypeOK

\* A node that passes leaves nodes to visit: the others, or all of them anew.
LEMMA PassType ==
  ASSUME TypeOK, NEW n \in Nodes, NEW ok, NEW from,
         NEW to \in {"pdp", "edp", "spinning", "aborted"},
         Pass(n, ok, from, to)
  PROVE  TypeOK'
<1>1. todo' \subseteq Nodes /\ todo' # {}
  BY DiscoveryAssumption DEF Pass, TypeOK
<1>2. phase' \in {"pdp", "edp", "spinning", "aborted"}
  BY DEF Pass, TypeOK
<1>3. failed' \in BOOLEAN /\ expired' \in BOOLEAN /\ undiscovered' \in BOOLEAN
  BY DEF Pass, TypeOK
<1> QED
  BY <1>1, <1>2, <1>3, FlagsType DEF Pass, graph, TypeOK

LEMMA TypeStep == TypeOK /\ [Next]_vars => TypeOK'
<1> SUFFICES ASSUME TypeOK, [Next]_vars PROVE TypeOK'
  OBVIOUS
<1> USE DEF graph
<1>1. ASSUME NEW n \in Nodes, CheckPdp(n) PROVE TypeOK'
  <2>1. CASE Pass(n, PdpOk(n), "pdp", "edp")
    BY <2>1, PassType
  <2>2. CASE Fail(n, PdpOk(n), "pdp")
    BY <2>2 DEF Fail, TypeOK
  <2> QED BY <1>1, <2>1, <2>2 DEF CheckPdp
<1>2. ASSUME NEW n \in Nodes, CheckEdp(n) PROVE TypeOK'
  <2>1. CASE Pass(n, EdpOk(n), "edp", "spinning")
    BY <2>1, PassType
  <2>2. CASE Fail(n, EdpOk(n), "edp")
    BY <2>2 DEF Fail, TypeOK
  <2> QED BY <1>2, <2>1, <2>2 DEF CheckEdp
<1>3. CASE Retry
  BY <1>3, DiscoveryAssumption DEF Retry, TypeOK
<1>4. CASE Abort
  BY <1>4 DEF Abort, TypeOK
<1>5. CASE Expire
  BY <1>5 DEF Expire, TypeOK
<1>6. ASSUME NEW n \in Nodes, NEW m \in AllNodes, DiscoverNode(n, m)
      PROVE  TypeOK'
  BY <1>6 DEF DiscoverNode, TypeOK
<1>7. ASSUME NEW n \in Nodes, NEW s \in SubscriptionsOf(AllNodes),
             DiscoverSubscription(n, s)
      PROVE  TypeOK'
  BY <1>7 DEF DiscoverSubscription, TypeOK
<1>8. CASE UNCHANGED vars
  BY <1>8 DEF vars, TypeOK
<1> QED
  BY <1>1, <1>2, <1>3, <1>4, <1>5, <1>6, <1>7, <1>8 DEF Next, WaitStep

\* The variables keep their types; a round always has nodes left to visit, so
\* that the loop over them cannot run dry.
THEOREM TypeCorrect == Spec => []TypeOK
BY TypeInit, TypeStep, PTL DEF Spec

-----------------------------------------------------------------------------
(* What passing a check means. *)

\* Node n has discovered every node of the system.
KnowsNodes(n) == Nodes \subseteq known[n]

\* Node n has discovered the subscriptions that are to hear its publishers.
IsHeard(n) ==
  \A s \in SubscriptionsOf(Nodes) :
    s[2] \in Published[n] /\ Namespace[s[1]] = Namespace[n] => s \in found[n]

\* A node that counts as many nodes as the system has knows all of them.
LEMMA PdpOkMeansKnown ==
  ASSUME NEW n, PdpOk(n)
  PROVE  KnowsNodes(n)
<1>1. known[n] \intersect Nodes \in SUBSET Nodes
  OBVIOUS
<1>2. Nodes = known[n] \intersect Nodes
  BY <1>1, FS_Subset, DiscoveryAssumption DEF PdpOk
<1> QED
  BY <1>2 DEF KnowsNodes

\* In one process, a publisher that counts as many subscriptions as the
\* system has on its topic is matched with each of them: they are in
\* different nodes, so the nodes they are in are all of those that subscribe.
LEMMA EdpOkMeansHeard ==
  ASSUME TypeOK, OneProcess, NEW n \in Nodes, EdpOk(n)
  PROVE  IsHeard(n)
<1> SUFFICES ASSUME NEW s \in SubscriptionsOf(Nodes), s[2] \in Published[n]
             PROVE  s \in found[n]
  BY DEF IsHeard
<1> DEFINE topic == s[2]
           counted == {r \in found[n] :
                         r[2] = topic /\ Namespace[r[1]] = Namespace[n]}
           Subscribing == {m \in Nodes : topic \in Subscribed[m]}
           node == [r \in counted |-> r[1]]
<1>1. s[1] \in Subscribing /\ s = <<s[1], topic>>
  BY DEF SubscriptionsOf
<1>2. \A r \in counted : r[1] \in Subscribing /\ r = <<r[1], topic>>
  BY DEF TypeOK, OneProcess, AllNodes, SubscriptionsOf
<1>3. node \in Injection(counted, Subscribing)
  BY <1>2 DEF Injection, IsInjective
<1>4. IsFiniteSet(Subscribing)
  BY FS_Subset, DiscoveryAssumption
<1>5. /\ IsFiniteSet(counted)
      /\ Cardinality(counted) <= Cardinality(Subscribing)
      /\ Cardinality(counted) = Cardinality(Subscribing)
           <=> node \in Surjection(counted, Subscribing)
  BY <1>3, <1>4, FS_Injection
<1>6. Cardinality(counted) >= Cardinality(Subscribing)
  BY DEF EdpOk, CountSubscribers, SubsPerTopic
<1>7. Cardinality(counted) \in Nat /\ Cardinality(Subscribing) \in Nat
  BY <1>4, <1>5, FS_CardinalityType
<1>8. Cardinality(counted) = Cardinality(Subscribing)
  BY <1>5, <1>6, <1>7
<1>9. \A m \in Subscribing : \E r \in counted : node[r] = m
  BY <1>5, <1>8 DEF Surjection
<1>10. PICK r \in counted : node[r] = s[1]
  BY <1>1, <1>9
<1>11. r = s
  BY <1>1, <1>2, <1>10
<1> QED
  BY <1>11

-----------------------------------------------------------------------------
(* The inductive invariant: what the nodes visited so far have passed still  *)
(* holds, because a node never forgets what it has discovered.               *)

KnownInv ==
  /\ phase = "pdp" => \A n \in Nodes \ todo : KnowsNodes(n)
  /\ phase \in {"edp", "spinning"} => \A n \in Nodes : KnowsNodes(n)

HeardInv ==
  /\ phase = "edp" => \A n \in Nodes \ todo : IsHeard(n)
  /\ phase = "spinning" => \A n \in Nodes : IsHeard(n)

Inv == TypeOK /\ KnownInv /\ HeardInv

\* Before the first check, no node has passed.
LEMMA InvInit == Init => Inv
BY TypeInit DEF Init, Inv, KnownInv, HeardInv

\* As long as nodes forget nothing, they stay discovered.
LEMMA DiscoveredForGood ==
  ASSUME NEW n, known[n] \subseteq known'[n], found[n] \subseteq found'[n]
  PROVE  (KnowsNodes(n) => KnowsNodes(n)') /\ (IsHeard(n) => IsHeard(n)')
BY DEF KnowsNodes, IsHeard

\* A step that neither visits a node nor changes the phase preserves the
\* invariant, whatever is discovered meanwhile.
LEMMA Unvisited ==
  ASSUME Inv, TypeOK', UNCHANGED phase, todo \subseteq todo',
         \A n \in Nodes : known[n] \subseteq known'[n]
                          /\ found[n] \subseteq found'[n]
  PROVE  Inv'
<1>1. \A n \in Nodes : (KnowsNodes(n) => KnowsNodes(n)')
                       /\ (IsHeard(n) => IsHeard(n)')
  BY DiscoveredForGood
<1>2. KnownInv'
  BY <1>1 DEF Inv, KnownInv
<1>3. HeardInv'
  BY <1>1 DEF Inv, HeardInv
<1> QED
  BY <1>2, <1>3 DEF Inv

\* Passing PDP: the node joins those that know the others.
LEMMA PassPdp ==
  ASSUME Inv, NEW n \in Nodes, Pass(n, PdpOk(n), "pdp", "edp")
  PROVE  Inv'
<1>1. KnowsNodes(n)
  BY PdpOkMeansKnown DEF Pass
<1>2. \A m \in Nodes : (KnowsNodes(m)' <=> KnowsNodes(m))
  BY DEF Pass, graph, KnowsNodes
<1>3. TypeOK'
  BY PassType DEF Inv
<1>4. KnownInv'
  BY <1>1, <1>2 DEF Pass, Inv, KnownInv
<1>5. HeardInv'
  BY DEF Pass, Inv, HeardInv
<1> QED
  BY <1>3, <1>4, <1>5 DEF Inv

\* Passing EDP: the node joins those whose publishers are heard.
LEMMA PassEdp ==
  ASSUME OneProcess, Inv, NEW n \in Nodes,
         Pass(n, EdpOk(n), "edp", "spinning")
  PROVE  Inv'
<1>1. IsHeard(n)
  BY EdpOkMeansHeard DEF Pass, Inv
<1>2. \A m \in Nodes : (KnowsNodes(m)' <=> KnowsNodes(m))
                       /\ (IsHeard(m)' <=> IsHeard(m))
  BY DEF Pass, graph, KnowsNodes, IsHeard
<1>3. TypeOK'
  BY PassType DEF Inv
<1>4. KnownInv'
  BY <1>2 DEF Pass, Inv, KnownInv
<1>5. HeardInv'
  BY <1>1, <1>2 DEF Pass, Inv, HeardInv
<1> QED
  BY <1>3, <1>4, <1>5 DEF Inv

\* The invariant is inductive.
LEMMA InvStep == OneProcess /\ Inv /\ [Next]_vars => Inv'
<1> SUFFICES ASSUME OneProcess, Inv, [Next]_vars PROVE Inv'
  OBVIOUS
<1> USE DEF graph
<1>0. TypeOK'
  BY TypeStep DEF Inv
<1>1. ASSUME NEW n \in Nodes, CheckPdp(n) PROVE Inv'
  <2>1. CASE Pass(n, PdpOk(n), "pdp", "edp")
    BY <2>1, PassPdp
  <2>2. CASE Fail(n, PdpOk(n), "pdp")
    BY <1>0, <2>2, Unvisited DEF Fail, Inv
  <2> QED BY <1>1, <2>1, <2>2 DEF CheckPdp
<1>2. ASSUME NEW n \in Nodes, CheckEdp(n) PROVE Inv'
  <2>1. CASE Pass(n, EdpOk(n), "edp", "spinning")
    BY <2>1, PassEdp
  <2>2. CASE Fail(n, EdpOk(n), "edp")
    BY <1>0, <2>2, Unvisited DEF Fail, Inv
  <2> QED BY <1>2, <2>1, <2>2 DEF CheckEdp
<1>3. CASE Retry
  BY <1>0, <1>3, Unvisited DEF Retry, Inv, TypeOK
<1>4. CASE Abort
  BY <1>0, <1>4 DEF Abort, Inv, KnownInv, HeardInv
<1>5. CASE Expire
  BY <1>0, <1>5, Unvisited DEF Expire, Inv, TypeOK
<1>6. ASSUME NEW n \in Nodes, NEW m \in AllNodes, DiscoverNode(n, m)
      PROVE  Inv'
  BY <1>0, <1>6, Unvisited DEF DiscoverNode, Inv, TypeOK
<1>7. ASSUME NEW n \in Nodes, NEW s \in SubscriptionsOf(AllNodes),
             DiscoverSubscription(n, s)
      PROVE  Inv'
  BY <1>0, <1>7, Unvisited DEF DiscoverSubscription, Inv, TypeOK
<1>8. CASE UNCHANGED vars
  BY <1>0, <1>8, Unvisited DEF vars, Inv, TypeOK
<1> QED
  BY <1>1, <1>2, <1>3, <1>4, <1>5, <1>6, <1>7, <1>8 DEF Next, WaitStep

-----------------------------------------------------------------------------
\* In one process, the system never spins before its nodes know of each other
\* and its publishers of all of its subscriptions that are to hear them, for
\* any nodes, topics and namespaces (system.cpp: wait_discovery).
THEOREM SpinsOnlyDiscovered ==
  ASSUME OneProcess
  PROVE  Spec => []SpinsDiscovered
<1>1. Inv /\ [Next]_vars => Inv'
  BY InvStep
<1>2. Inv => SpinsDiscovered
  BY DEF Inv, KnownInv, HeardInv, KnowsNodes, IsHeard, SpinsDiscovered
<1> QED
  BY <1>1, <1>2, InvInit, PTL DEF Spec

-----------------------------------------------------------------------------
(* Giving up.  A round that begins when all has been discovered passes, for  *)
(* the graph only grows: a failed round began too early.                     *)

\* What has been discovered is finite, so that counting it means something.
FoundFinite == \A n \in Nodes : IsFiniteSet(found[n])

UndiscoveredInv ==
  /\ ~undiscovered => Complete
  /\ failed => undiscovered /\ phase # "aborted"
  /\ AbortsUndiscovered

\* Once all has been discovered, no check fails: a node counts, on a topic of
\* its namespace, at least one subscription of each node that subscribes.
LEMMA CompletePasses ==
  ASSUME OneNamespace, FoundFinite, Complete, NEW n \in Nodes
  PROVE  PdpOk(n) /\ EdpOk(n)
<1>1. PdpOk(n)
  <2>1. known[n] \intersect Nodes = Nodes
    BY DEF Complete
  <2> QED BY <2>1 DEF PdpOk
<1>2. ASSUME NEW topic \in Published[n]
      PROVE  CountSubscribers(n, topic) >= SubsPerTopic(topic)
  <2> DEFINE counted == {r \in found[n] :
                           r[2] = topic /\ Namespace[r[1]] = Namespace[n]}
             Subscribing == {m \in Nodes : topic \in Subscribed[m]}
             subscription == [m \in Subscribing |-> <<m, topic>>]
  <2>1. \A m \in Subscribing : <<m, topic>> \in counted
    BY DEF Complete, SubscriptionsOf, OneNamespace
  <2>2. subscription \in Injection(Subscribing, counted)
    BY <2>1 DEF Injection, IsInjective
  <2>3. IsFiniteSet(counted)
    BY FS_Subset DEF FoundFinite
  <2>4. IsFiniteSet(Subscribing)
        /\ Cardinality(Subscribing) <= Cardinality(counted)
    BY <2>2, <2>3, FS_Injection
  <2>5. Cardinality(counted) \in Nat /\ Cardinality(Subscribing) \in Nat
    BY <2>3, <2>4, FS_CardinalityType
  <2>6. Cardinality(counted) >= Cardinality(Subscribing)
    BY <2>4, <2>5
  <2> QED BY <2>6 DEF CountSubscribers, SubsPerTopic
<1> QED BY <1>1, <1>2 DEF EdpOk

\* What is discovered stays so.
LEMMA CompleteForGood ==
  ASSUME \A n \in Nodes : known[n] \subseteq known'[n]
                          /\ found[n] \subseteq found'[n],
         Complete
  PROVE  Complete'
BY DEF Complete

\* One subscription at a time, finitely many are discovered.
LEMMA FoundFiniteStep ==
  ASSUME TypeOK, FoundFinite, [Next]_vars
  PROVE  FoundFinite'
<1>1. ASSUME NEW n \in Nodes, NEW s \in SubscriptionsOf(AllNodes),
             DiscoverSubscription(n, s)
      PROVE  FoundFinite'
  <2>1. \A m \in Nodes : found'[m] = found[m]
                         \/ found'[m] = found[m] \union {s}
    BY <1>1 DEF DiscoverSubscription, TypeOK
  <2>2. ASSUME NEW m \in Nodes PROVE IsFiniteSet(found'[m])
    <3>1. IsFiniteSet(found[m])
      BY DEF FoundFinite
    <3>2. IsFiniteSet(found[m] \union {s})
      BY <3>1, FS_AddElement
    <3> QED BY <2>1, <3>1, <3>2
  <2> QED BY <2>2 DEF FoundFinite
<1>2. CASE UNCHANGED found
  BY <1>2 DEF FoundFinite
<1> QED
  BY <1>1, <1>2 DEF Next, WaitStep, CheckPdp, CheckEdp, Pass, Fail, Retry,
       Abort, Expire, DiscoverNode, vars, graph

\* A check fails only in a round that began too early.
LEMMA FailsUndiscovered ==
  ASSUME OneNamespace, FoundFinite, UndiscoveredInv, NEW n \in Nodes, NEW ok,
         Complete => ok, NEW in \in {"pdp", "edp"}, Fail(n, ok, in)
  PROVE  UndiscoveredInv'
<1>1. undiscovered
  BY DEF Fail, UndiscoveredInv
<1> QED
  BY <1>1 DEF Fail, UndiscoveredInv, AbortsUndiscovered

LEMMA UndiscoveredStep ==
  ASSUME OneNamespace, TypeOK, FoundFinite, UndiscoveredInv, [Next]_vars
  PROVE  UndiscoveredInv'
<1> USE DEF graph
<1>1. ASSUME NEW n \in Nodes, NEW ok, NEW from \in {"pdp", "edp"},
             NEW to \in {"edp", "spinning"}, Pass(n, ok, from, to)
      PROVE  UndiscoveredInv'
  <2>1. Complete' <=> Complete
    BY <1>1 DEF Pass, Complete
  <2> QED
    BY <1>1, <2>1 DEF Pass, UndiscoveredInv, AbortsUndiscovered
<1>2. ASSUME NEW n \in Nodes, CheckPdp(n) PROVE UndiscoveredInv'
  BY <1>1, <1>2, CompletePasses, FailsUndiscovered DEF CheckPdp
<1>3. ASSUME NEW n \in Nodes, CheckEdp(n) PROVE UndiscoveredInv'
  BY <1>1, <1>3, CompletePasses, FailsUndiscovered DEF CheckEdp
<1>4. CASE Retry
  <2>1. Complete' <=> Complete
    BY <1>4 DEF Retry, Complete
  <2> QED
    BY <1>4, <2>1 DEF Retry, UndiscoveredInv, AbortsUndiscovered
<1>5. ASSUME \A n \in Nodes : known[n] \subseteq known'[n]
                              /\ found[n] \subseteq found'[n],
             UNCHANGED <<failed, undiscovered>>, phase' = phase
      PROVE  UndiscoveredInv'
  BY <1>5, CompleteForGood DEF UndiscoveredInv, AbortsUndiscovered
<1>6. CASE Abort
  <2>1. Complete' <=> Complete
    BY <1>6 DEF Abort, Complete
  <2> QED
    BY <1>6, <2>1 DEF Abort, UndiscoveredInv, AbortsUndiscovered
<1>7. CASE Expire
  BY <1>5, <1>7 DEF Expire
<1>8. ASSUME NEW n \in Nodes, NEW m \in AllNodes, DiscoverNode(n, m)
      PROVE  UndiscoveredInv'
  BY <1>5, <1>8 DEF DiscoverNode, TypeOK
<1>9. ASSUME NEW n \in Nodes, NEW s \in SubscriptionsOf(AllNodes),
             DiscoverSubscription(n, s)
      PROVE  UndiscoveredInv'
  BY <1>5, <1>9 DEF DiscoverSubscription, TypeOK
<1>10. CASE UNCHANGED vars
  BY <1>5, <1>10 DEF vars
<1> QED
  BY <1>2, <1>3, <1>4, <1>6, <1>7, <1>8, <1>9, <1>10 DEF Next, WaitStep

\* With topics in one namespace, and whatever other processes take part, the
\* system gives up only on a round of checks that began before its nodes and
\* subscriptions had all been discovered (system.cpp: the assertions on the
\* maximum discovery time).
THEOREM AbortsOnlyUndiscovered ==
  ASSUME OneNamespace
  PROVE  Spec => []AbortsUndiscovered
<1> DEFINE I == TypeOK /\ FoundFinite /\ UndiscoveredInv
<1>1. Init => I
  <2>1. ASSUME Init PROVE FoundFinite
    BY <2>1, FS_EmptySet DEF Init, FoundFinite
  <2> QED
    BY <2>1, TypeInit DEF Init, UndiscoveredInv, AbortsUndiscovered
<1>2. I /\ [Next]_vars => I'
  BY TypeStep, FoundFiniteStep, UndiscoveredStep
<1>3. I => AbortsUndiscovered
  BY DEF UndiscoveredInv
<1> QED
  BY <1>1, <1>2, <1>3, PTL DEF Spec

-----------------------------------------------------------------------------
(* Messages on topics whose endpoints have been discovered.                  *)

\* The QoS of each publisher serves the subscriptions of its topic.
AllCompatible ==
  \A p \in Publishers, s \in Subscriptions :
    Topic(p) = Topic(s) => <<p, s>> \in Compatible

\* The messages on their way to s are the publisher's, no two numbered alike,
\* and those that have arrived are all the messages before them.
NothingMissed(p, s) ==
  /\ \A msg \in inFlight[s] :
       /\ msg.pub = p
       /\ msg.tracking_number \in 0 .. pubs[p].tracking_number_count - 1
       /\ msg.tracking_number >= subs[s].tracking_number_count
       /\ \A other \in inFlight[s] :
            other.tracking_number = msg.tracking_number => other = msg
  /\ \A n \in 0 .. pubs[p].tracking_number_count - 1 :
       n >= subs[s].tracking_number_count
         => \E msg \in inFlight[s] : msg.tracking_number = n
  /\ subs[s].tracking_number_count <= pubs[p].tracking_number_count
  /\ got[s] = 0 .. subs[s].tracking_number_count - 1
  /\ subs[s].lost = 0

PublishersInv ==
  /\ pubs \in [Publishers -> Trackers]
  /\ \A p \in Publishers :
       /\ pubs[p].tracking_number_count = pubs[p].stat.n
       /\ pubs[p].stat.n <= MaxPublish

SubscriptionsInv ==
  /\ subs \in [Subscriptions -> Trackers]
  /\ \A s \in Subscriptions : subs[s].is_enabled
  /\ DOMAIN inFlight = Subscriptions /\ DOMAIN got = Subscriptions

MessagesInv ==
  /\ PublishersInv
  /\ SubscriptionsInv
  /\ \A p \in Publishers, s \in Subscriptions :
       Topic(p) = Topic(s) => NothingMissed(p, s)
  /\ \A s \in Subscriptions : \A msg \in inFlight[s] :
       msg.pub \in Publishers /\ Topic(msg.pub) = Topic(s)

\* The composition's trackers are those of Tracker.
LEMMA SameOperators ==
  /\ \A enabled : Messaging!NewTracker(enabled) = NewTracker(enabled)
  /\ \A t : Messaging!GetAndUpdateTrackingNumber(t)
              = GetAndUpdateTrackingNumber(t)
  /\ \A t, sample : Messaging!AddSample(t, sample) = AddSample(t, sample)
<1>1. \A enabled : Messaging!NewTracker(enabled) = NewTracker(enabled)
  BY DEF Messaging!NewTracker, Messaging!EmptyStat, NewTracker, EmptyStat
<1>2. \A t : Messaging!GetAndUpdateTrackingNumber(t)
               = GetAndUpdateTrackingNumber(t)
  BY DEF Messaging!GetAndUpdateTrackingNumber, Messaging!NextNumber,
         GetAndUpdateTrackingNumber, NextNumber
<1>3. \A t, sample : Messaging!AddSample(t, sample) = AddSample(t, sample)
  BY DEF Messaging!AddSample, Messaging!StatWith, AddSample, StatWith
<1> QED
  BY <1>1, <1>2, <1>3

LEMMA SameScan ==
  ASSUME NEW t, NEW header, NEW latency, NEW period
  PROVE  Messaging!Scan(t, header, latency, period)
           = Scan(t, header, latency, period)
  BY DEF Messaging!Scan, Messaging!AddSample, Messaging!StatWith,
         Messaging!Counted, Messaging!NextExpected, Messaging!NextNumber,
         Messaging!NewlyLost, Messaging!Gap, Messaging!OneIf,
         Messaging!IsLate, Messaging!IsTooLate, Messaging!LatencyUs,
         Messaging!LateThresholdUs, Messaging!TooLateThresholdUs,
         Messaging!ThresholdUs, Messaging!TruncDiv, Messaging!ToInt,
         Messaging!ToUnsigned, Messaging!MaxInt,
         Scan, AddSample, StatWith, Counted, NextExpected, NextNumber,
         NewlyLost, Gap, OneIf, IsLate, IsTooLate, LatencyUs,
         LateThresholdUs, TooLateThresholdUs, ThresholdUs, TruncDiv, ToInt,
         ToUnsigned, MaxInt

\* Nothing has been published.
LEMMA MessagesInit == Messaging!Init => MessagesInv
<1> SUFFICES ASSUME Messaging!Init PROVE MessagesInv
  OBVIOUS
<1>1. /\ pubs = [p \in Publishers |-> NewTracker(TRUE)]
      /\ subs = [s \in Subscriptions |-> NewTracker(s \in Subscriptions)]
      /\ inFlight = [s \in Subscriptions |-> {}]
      /\ got = [s \in Subscriptions |-> {}]
  BY SameOperators DEF Messaging!Init
<1>2. PublishersInv
  <2>1. ASSUME NEW p \in Publishers
        PROVE  /\ pubs[p] \in Trackers
               /\ pubs[p].tracking_number_count = pubs[p].stat.n
               /\ pubs[p].stat.n <= MaxPublish
    <3>1. pubs[p] = NewTracker(TRUE)
      BY <1>1
    <3>2. pubs[p].tracking_number_count = 0 /\ pubs[p].stat.n = 0
      BY <3>1, NewTrackerType
    <3>3. pubs[p] \in Trackers
      BY <3>1, NewTrackerType
    <3> QED BY <3>2, <3>3, DiscoveredPubSubAssumption
  <2> QED BY <1>1, <2>1 DEF PublishersInv
<1>3. SubscriptionsInv
  <2>1. ASSUME NEW s \in Subscriptions
        PROVE  subs[s] \in Trackers /\ subs[s].is_enabled
    <3>1. subs[s] = NewTracker(TRUE)
      BY <1>1
    <3> QED BY <3>1, NewTrackerType
  <2> QED BY <1>1, <2>1 DEF SubscriptionsInv
<1>4. ASSUME NEW p \in Publishers, NEW s \in Subscriptions
      PROVE  NothingMissed(p, s)
  <2>1. pubs[p] = NewTracker(TRUE) /\ subs[s] = NewTracker(TRUE)
    BY <1>1
  <2>2. /\ pubs[p].tracking_number_count = 0
        /\ subs[s].tracking_number_count = 0 /\ subs[s].lost = 0
    BY <2>1, NewTrackerType
  <2>3. inFlight[s] = {} /\ got[s] = {}
    BY <1>1
  <2> QED BY <2>2, <2>3 DEF NothingMissed
<1>5. \A s \in Subscriptions : inFlight[s] = {}
  BY <1>1
<1> QED BY <1>2, <1>3, <1>4, <1>5 DEF MessagesInv

\* What publish_msg does to the tracker of a publisher.
LEMMA PublisherCounts ==
  ASSUME PublishersInv, NEW p \in Publishers, NEW period,
         Messaging!PublishMsg(p, period)
  PROVE  /\ PublishersInv'
         /\ pubs[p].tracking_number_count \in Nat
         /\ pubs'[p].tracking_number_count = pubs[p].tracking_number_count + 1
         /\ \A q \in Publishers \ {p} : pubs'[q] = pubs[q]
<1> DEFINE number == pubs[p].tracking_number_count
           numbered == GetAndUpdateTrackingNumber(pubs[p])
           sampled == AddSample(numbered.tracker, 0)
<1>1. pubs' = [pubs EXCEPT ![p] = sampled] /\ pubs[p].stat.n < MaxPublish
  BY SameOperators DEF Messaging!PublishMsg
<1>2. pubs[p] \in Trackers /\ number = pubs[p].stat.n
  BY DEF PublishersInv
<1>3. /\ numbered.tracker \in Trackers
      /\ numbered.tracker.tracking_number_count = NextNumber(number)
      /\ numbered.tracker.stat = pubs[p].stat
  BY <1>2, GetAndUpdateType
<1> HIDE DEF numbered
<1>4. /\ sampled \in Trackers
      /\ sampled.tracking_number_count = NextNumber(number)
      /\ sampled.stat.n = pubs[p].stat.n + 1
  BY <1>3, AddSampleType
<1> HIDE DEF sampled
<1>5. number \in Nat /\ number < MaxPublish
  BY <1>1, <1>2, TrackerAssumption DEF Trackers
<1>6. NextNumber(number) = number + 1
  BY <1>5, DiscoveredPubSubAssumption, TrackerAssumption DEF NextNumber
<1>7. pubs'[p] = sampled /\ \A q \in Publishers \ {p} : pubs'[q] = pubs[q]
  BY <1>1 DEF PublishersInv
<1>8. pubs' \in [Publishers -> Trackers]
  BY <1>1, <1>4 DEF PublishersInv
<1>9. ASSUME NEW q \in Publishers
      PROVE  /\ pubs'[q].tracking_number_count = pubs'[q].stat.n
             /\ pubs'[q].stat.n <= MaxPublish
  <2>1. CASE q = p
    BY <1>2, <1>4, <1>5, <1>6, <1>7, <2>1, DiscoveredPubSubAssumption
  <2>2. CASE q # p
    BY <1>7, <2>2 DEF PublishersInv
  <2> QED BY <2>1, <2>2
<1> QED
  BY <1>4, <1>5, <1>6, <1>7, <1>8, <1>9 DEF PublishersInv

\* A publisher whose subscriptions have all been discovered sends each of
\* them its next message.
LEMMA PublishMisses ==
  ASSUME AllCompatible, Messaging!OnePublisherPerTopic, MessagesInv,
         NEW p \in Publishers, NEW period, IsHeard(p[1]),
         Messaging!PublishMsg(p, period)
  PROVE  MessagesInv'
<1> DEFINE count == pubs[p].tracking_number_count
           sent == Messaging!CreateMsgHeader(p, count, period)
<1>1. /\ PublishersInv' /\ count \in Nat
      /\ pubs'[p].tracking_number_count = count + 1
      /\ \A q \in Publishers \ {p} : pubs'[q] = pubs[q]
  BY PublisherCounts DEF MessagesInv
<1>2. UNCHANGED <<subs, got>>
  BY DEF Messaging!PublishMsg
<1>3. sent.pub = p /\ sent.tracking_number = count
  BY DEF Messaging!CreateMsgHeader
<1>4. inFlight' = [s \in Subscriptions |->
                     IF p \in Matched[s] THEN inFlight[s] \union {sent}
                                         ELSE inFlight[s]]
  <2>1. Messaging!GetAndUpdateTrackingNumber(pubs[p]).number = count
    BY DEF Messaging!GetAndUpdateTrackingNumber
  <2> QED BY <2>1 DEF Messaging!PublishMsg
<1> HIDE DEF sent
<1>5. ASSUME NEW s \in Subscriptions
      PROVE  p \in Matched[s] <=> Topic(p) = Topic(s)
  <2>1. ASSUME Topic(p) = Topic(s) PROVE s \in found[p[1]]
    <3>1. p[1] \in Nodes /\ p[2] \in Published[p[1]]
      BY DEF Publishers
    <3>2. s[2] = p[2] /\ Namespace[s[1]] = Namespace[p[1]]
      BY <2>1 DEF Topic
    <3> QED BY <3>1, <3>2 DEF IsHeard, Subscriptions
  <2> QED BY <2>1 DEF Matched, AllCompatible
<1>6. SubscriptionsInv'
  BY <1>2, <1>4 DEF SubscriptionsInv, MessagesInv
<1>7. ASSUME NEW q \in Publishers, NEW s \in Subscriptions,
             Topic(q) = Topic(s)
      PROVE  NothingMissed(q, s)'
  <2>1. NothingMissed(q, s)
    BY <1>7 DEF MessagesInv
  <2>2. subs'[s] = subs[s] /\ got'[s] = got[s]
    BY <1>2
  <2>3. subs[s].tracking_number_count \in Nat
    BY TrackerAssumption DEF MessagesInv, SubscriptionsInv, Trackers
  <2>4. CASE q # p
    <3>1. p \notin Matched[s]
      BY <1>5, <1>7, <2>4 DEF Messaging!OnePublisherPerTopic
    <3>2. inFlight'[s] = inFlight[s] /\ pubs'[q] = pubs[q]
      BY <1>1, <1>4, <2>4, <3>1
    <3> QED BY <2>1, <2>2, <3>2 DEF NothingMissed
  <2>5. CASE q = p
    <3>1. inFlight'[s] = inFlight[s] \union {sent}
      BY <1>4, <1>5, <1>7, <2>5
    <3>2. ASSUME NEW msg \in inFlight'[s]
          PROVE  /\ msg.pub = q
                 /\ msg.tracking_number \in
                      0 .. pubs'[q].tracking_number_count - 1
                 /\ msg.tracking_number >= subs'[s].tracking_number_count
                 /\ \A other \in inFlight'[s] :
                      other.tracking_number = msg.tracking_number
                        => other = msg
      <4>1. \A m \in inFlight[s] :
              /\ m.pub = p /\ m.tracking_number \in 0 .. count - 1
              /\ m.tracking_number >= subs[s].tracking_number_count
        BY <2>1, <2>5 DEF NothingMissed
      <4>2. subs[s].tracking_number_count <= count
        BY <2>1, <2>5 DEF NothingMissed
      <4>3. CASE msg = sent
        BY <1>1, <1>3, <2>2, <2>3, <2>5, <3>1, <4>1, <4>2, <4>3
      <4>4. CASE msg \in inFlight[s]
        <5>1. \A other \in inFlight[s] :
                other.tracking_number = msg.tracking_number => other = msg
          BY <2>1, <4>4 DEF NothingMissed
        <5> QED BY <1>1, <1>3, <2>2, <2>5, <3>1, <4>1, <4>4, <5>1
      <4> QED BY <3>1, <4>3, <4>4
    <3>3. ASSUME NEW n \in 0 .. pubs'[q].tracking_number_count - 1,
                 n >= subs'[s].tracking_number_count
          PROVE  \E msg \in inFlight'[s] : msg.tracking_number = n
      <4>1. CASE n = count
        BY <1>3, <3>1, <4>1
      <4>2. CASE n # count
        <5>1. n \in 0 .. pubs[q].tracking_number_count - 1
          BY <1>1, <2>5, <4>2
        <5>2. PICK msg \in inFlight[s] : msg.tracking_number = n
          BY <2>1, <2>2, <3>3, <5>1 DEF NothingMissed
        <5> QED BY <3>1, <5>2
      <4> QED BY <4>1, <4>2
    <3>4. subs'[s].tracking_number_count <= pubs'[q].tracking_number_count
      BY <1>1, <2>1, <2>2, <2>3, <2>5 DEF NothingMissed
    <3>5. got'[s] = 0 .. subs'[s].tracking_number_count - 1
          /\ subs'[s].lost = 0
      BY <2>1, <2>2 DEF NothingMissed
    <3> QED BY <3>2, <3>3, <3>4, <3>5 DEF NothingMissed
  <2> QED BY <2>4, <2>5
<1>8. ASSUME NEW s \in Subscriptions, NEW msg \in inFlight'[s]
      PROVE  msg.pub \in Publishers /\ Topic(msg.pub) = Topic(s)
  <2>1. msg \in inFlight[s] \/ (msg = sent /\ p \in Matched[s])
    BY <1>4
  <2> QED BY <1>3, <1>5, <2>1 DEF MessagesInv
<1> QED BY <1>1, <1>6, <1>7, <1>8 DEF MessagesInv

\* A message handed over in order is the one its subscription expects.
LEMMA DeliverMisses ==
  ASSUME Messaging!OnePublisherPerTopic, MessagesInv,
         NEW s \in Subscriptions, NEW msg \in inFlight[s],
         Messaging!Deliver(s, msg)
  PROVE  MessagesInv'
<1> DEFINE t == subs[s]
           e == subs[s].tracking_number_count
           n == msg.tracking_number
           p == msg.pub
<1>1. PICK latency \in Latencies,
           period \in Messaging!PeriodsUs(msg.frequency) :
        subs' = [subs EXCEPT ![s] = Scan(t, msg, latency, period)]
  BY SameScan DEF Messaging!Deliver, Messaging!HandleSubReceivedMsg
<1>2. /\ inFlight' = [inFlight EXCEPT ![s] = @ \ {msg}]
      /\ got' = [got EXCEPT ![s] = @ \union {n}]
      /\ pubs' = pubs
      /\ \A other \in inFlight[s] :
           other.pub = p => n <= other.tracking_number
  BY DEF Messaging!Deliver, Messaging!HandleSubReceivedMsg
<1>3. p \in Publishers /\ Topic(p) = Topic(s)
  BY DEF MessagesInv
<1>4. NothingMissed(p, s)
  BY <1>3 DEF MessagesInv
<1>5. t \in Trackers /\ t.is_enabled /\ e \in Nat
  BY TrackerAssumption DEF MessagesInv, SubscriptionsInv, Trackers
<1>6. /\ pubs[p].tracking_number_count \in Nat
      /\ pubs[p].tracking_number_count <= MaxPublish
  BY <1>3, TrackerAssumption DEF MessagesInv, PublishersInv, Trackers
<1>7. /\ n \in Nat /\ n < pubs[p].tracking_number_count /\ e <= n
      /\ \A m \in inFlight[s] : m.pub = p
  BY <1>4, <1>5, <1>6 DEF NothingMissed
<1>8. n = e
  <2> SUFFICES ASSUME e < n PROVE FALSE
    BY <1>5, <1>7
  <2>1. e \in 0 .. pubs[p].tracking_number_count - 1
    BY <1>5, <1>6, <1>7
  <2>2. PICK m \in inFlight[s] : m.tracking_number = e
    BY <1>4, <1>5, <2>1 DEF NothingMissed
  <2> QED BY <1>2, <1>5, <1>7, <2>2
<1>9. n \in 0 .. TrackingMod - 2
  BY <1>6, <1>7, DiscoveredPubSubAssumption, TrackerAssumption
<1> DEFINE u == Scan(t, msg, latency, period)
<1>10. ReceivedInOrder(u, t, n)
  <2>1. latency \in Int /\ -LatencyMod < latency
    BY <1>1, DiscoveredPubSubAssumption
  <2> QED BY <1>5, <1>7, <1>9, <2>1, ScanInOrder
<1>11. subs' = [subs EXCEPT ![s] = u]
  BY <1>1
<1> HIDE DEF u
<1>12. /\ u \in Trackers /\ u.is_enabled
       /\ u.tracking_number_count = e + 1
       /\ u.lost = t.lost
  <2>1. u.lost = t.lost + (n - e) /\ t.lost \in Nat
    BY <1>5, <1>10 DEF ReceivedInOrder, Trackers
  <2> QED BY <1>5, <1>8, <1>10, <2>1 DEF ReceivedInOrder
<1>13. subs'[s] = u /\ got'[s] = got[s] \union {e}
       /\ inFlight'[s] = inFlight[s] \ {msg}
  BY <1>2, <1>8, <1>11 DEF MessagesInv, SubscriptionsInv
<1>14. \A r \in Subscriptions \ {s} :
         subs'[r] = subs[r] /\ got'[r] = got[r] /\ inFlight'[r] = inFlight[r]
  BY <1>2, <1>11 DEF MessagesInv, SubscriptionsInv
<1>15. SubscriptionsInv'
  <2>1. subs' \in [Subscriptions -> Trackers]
    BY <1>11, <1>12 DEF MessagesInv, SubscriptionsInv
  <2>2. \A r \in Subscriptions : subs'[r].is_enabled
    BY <1>12, <1>13, <1>14 DEF MessagesInv, SubscriptionsInv
  <2>3. DOMAIN inFlight' = Subscriptions /\ DOMAIN got' = Subscriptions
    BY <1>2 DEF MessagesInv, SubscriptionsInv
  <2> QED BY <2>1, <2>2, <2>3 DEF SubscriptionsInv
<1>16. ASSUME NEW q \in Publishers, NEW r \in Subscriptions,
              Topic(q) = Topic(r)
       PROVE  NothingMissed(q, r)'
  <2>1. NothingMissed(q, r)
    BY <1>16 DEF MessagesInv
  <2>2. CASE r # s
    BY <1>2, <1>14, <2>1, <2>2 DEF NothingMissed
  <2>3. CASE r = s
    <3>1. q = p
      BY <1>3, <1>16, <2>3 DEF Messaging!OnePublisherPerTopic
    <3>2. subs'[r].tracking_number_count = e + 1 /\ subs'[r].lost = 0
      BY <1>4, <1>12, <1>13, <2>3 DEF NothingMissed
    <3>3. got'[r] = 0 .. (e + 1) - 1
      <4>1. got[s] = 0 .. e - 1
        BY <1>4 DEF NothingMissed
      <4>2. (0 .. e - 1) \union {e} = 0 .. (e + 1) - 1
        BY <1>5
      <4> QED BY <1>13, <2>3, <4>1, <4>2
    <3>4. e + 1 <= pubs[p].tracking_number_count
      BY <1>5, <1>6, <1>7, <1>8
    <3>5. ASSUME NEW m \in inFlight'[r]
          PROVE  /\ m.pub = p
                 /\ m.tracking_number \in 0 .. pubs[p].tracking_number_count - 1
                 /\ m.tracking_number >= e + 1
                 /\ \A other \in inFlight'[r] :
                      other.tracking_number = m.tracking_number => other = m
      <4>1. m \in inFlight[s] /\ m # msg
        BY <1>13, <2>3
      <4>2. /\ m.pub = p
            /\ m.tracking_number \in 0 .. pubs[p].tracking_number_count - 1
            /\ m.tracking_number >= e
            /\ \A other \in inFlight[s] :
                 other.tracking_number = m.tracking_number => other = m
        BY <1>4, <4>1 DEF NothingMissed
      <4>3. m.tracking_number # e
        BY <1>8, <4>1, <4>2
      <4> QED BY <1>5, <1>6, <1>13, <2>3, <4>2, <4>3
    <3>6. ASSUME NEW k \in 0 .. pubs[p].tracking_number_count - 1,
                 k >= e + 1
          PROVE  \E m \in inFlight'[r] : m.tracking_number = k
      <4>1. k >= e /\ k # n
        BY <1>5, <1>6, <1>8, <3>6
      <4>2. PICK m \in inFlight[s] : m.tracking_number = k
        BY <1>4, <4>1 DEF NothingMissed
      <4> QED BY <1>13, <2>3, <4>1, <4>2
    <3> QED
      BY <1>2, <3>1, <3>2, <3>3, <3>4, <3>5, <3>6 DEF NothingMissed
  <2> QED BY <2>2, <2>3
<1>17. ASSUME NEW r \in Subscriptions, NEW m \in inFlight'[r]
       PROVE  m.pub \in Publishers /\ Topic(m.pub) = Topic(r)
  <2>1. m \in inFlight[r]
    BY <1>13, <1>14
  <2> QED BY <2>1 DEF MessagesInv
<1>18. PublishersInv'
  BY <1>2 DEF MessagesInv, PublishersInv
<1> QED BY <1>15, <1>16, <1>17, <1>18 DEF MessagesInv

\* The composition's discovery is that of Discovery.
LEMMA DiscoverySteps == [ComposedNext]_composed_vars => [Next]_vars
BY DEF ComposedNext, Wait, Graph, SpinStep, Next, composed_vars

\* The invariants hold together: no publisher sends before its node has
\* discovered those that are to hear it.
LEMMA ComposedStep ==
  ASSUME OneProcess, AllCompatible, Messaging!OnePublisherPerTopic,
         Inv, MessagesInv, [ComposedNext]_composed_vars
  PROVE  Inv' /\ MessagesInv'
<1>1. Inv'
  BY DiscoverySteps, InvStep
<1>2. ASSUME UNCHANGED pub_sub_vars PROVE MessagesInv'
  BY <1>2 DEF pub_sub_vars, MessagesInv, PublishersInv, SubscriptionsInv,
              NothingMissed
<1>3. ASSUME NEW p \in Publishers, NEW period \in Timers[p],
             phase = "spinning", Messaging!PublishMsg(p, period)
      PROVE  MessagesInv'
  <2>1. p[1] \in Nodes
    BY DEF Publishers
  <2>2. IsHeard(p[1])
    BY <1>3, <2>1 DEF Inv, HeardInv
  <2> QED BY <1>3, <2>2, PublishMisses
<1>4. ASSUME NEW s \in Subscriptions, NEW msg \in inFlight[s],
             Messaging!Deliver(s, msg)
      PROVE  MessagesInv'
  BY <1>4, DeliverMisses
<1>5. ASSUME SpinStep PROVE MessagesInv'
  BY <1>3, <1>4, <1>5 DEF SpinStep
<1> QED
  BY <1>1, <1>2, <1>5 DEF ComposedNext, Wait, Graph, composed_vars

\* In one process, with one publisher for each topic and compatible QoS,
\* discovery costs no message: the first one a subscription hears is number 0
\* and it counts none as lost, in whatever order the graph of each node fills
\* (system.cpp: spin waits for PDP and EDP).
THEOREM NothingIsLostToDiscovery ==
  ASSUME OneProcess, AllCompatible, Messaging!OnePublisherPerTopic
  PROVE  ComposedSpec => []NothingLostToDiscovery
<1>1. ComposedInit => Inv /\ MessagesInv
  BY InvInit, MessagesInit DEF ComposedInit
<1>2. Inv /\ MessagesInv /\ [ComposedNext]_composed_vars
        => Inv' /\ MessagesInv'
  BY ComposedStep
<1>3. MessagesInv => NothingLostToDiscovery
  <2> SUFFICES ASSUME MessagesInv, NEW p \in Publishers,
                      NEW s \in Subscriptions, Topic(p) = Topic(s)
               PROVE  /\ got[s] \union {msg.tracking_number :
                                          msg \in inFlight[s]}
                           = 0 .. pubs[p].tracking_number_count - 1
                      /\ subs[s].lost = 0
    BY DEF NothingLostToDiscovery
  <2>1. NothingMissed(p, s)
    BY DEF MessagesInv
  <2> DEFINE count == pubs[p].tracking_number_count
             e == subs[s].tracking_number_count
             coming == {msg.tracking_number : msg \in inFlight[s]}
  <2>2. count \in Nat /\ e \in Nat /\ e <= count
    BY <2>1, TrackerAssumption
    DEF NothingMissed, MessagesInv, PublishersInv, SubscriptionsInv, Trackers
  <2>3. coming = {n \in 0 .. count - 1 : n >= e}
    <3>1. coming \subseteq {n \in 0 .. count - 1 : n >= e}
      BY <2>1 DEF NothingMissed
    <3>2. \A n \in 0 .. count - 1 : n >= e => n \in coming
      BY <2>1 DEF NothingMissed
    <3> QED BY <3>1, <3>2
  <2>4. got[s] = 0 .. e - 1 /\ subs[s].lost = 0
    BY <2>1 DEF NothingMissed
  <2> HIDE DEF count, e, coming
  <2>5. got[s] \union coming = 0 .. count - 1
    BY <2>2, <2>3, <2>4
  <2> QED BY <2>4, <2>5 DEF count, coming
<1> QED
  BY <1>1, <1>2, <1>3, PTL DEF ComposedSpec

-----------------------------------------------------------------------------
(* DiscoveredPubSub implements PubSub: what PubSub lets happen at any time,  *)
(* the matching of endpoints, is here what the nodes discover.               *)

\* A subscription that a node discovers is matched with its publisher of the
\* topic, if it has one that suits.
LEMMA DiscoveryMatches ==
  ASSUME TypeOK, NEW n \in Nodes, NEW s \in SubscriptionsOf(AllNodes),
         DiscoverSubscription(n, s), UNCHANGED pub_sub_vars
  PROVE  [Messaging!Next]_(Messaging!vars)
<1> DEFINE p == <<n, s[2]>>
<1>1. /\ s \notin found[n]
      /\ found' = [found EXCEPT ![n] = @ \union {s}]
      /\ found'[n] = found[n] \union {s}
      /\ \A m \in Nodes \ {n} : found'[m] = found[m]
  BY DEF DiscoverSubscription, TypeOK
<1>2. UNCHANGED <<pubs, subs, inFlight, got, missing, named>>
  BY DEF pub_sub_vars
<1>3. \A q \in Publishers : q[1] \in Nodes /\ q = <<q[1], q[2]>>
  BY DEF Publishers
<1>4. ASSUME NEW q \in Publishers, q[1] = n, Topic(q) = Topic(s)
      PROVE  q = p
  BY <1>3, <1>4 DEF Topic
<1>5. CASE /\ s \in Subscriptions /\ p \in Publishers
           /\ Topic(p) = Topic(s) /\ <<p, s>> \in Compatible
  <2>1. p \notin Matched[s]
    BY <1>1, <1>5 DEF Matched
  <2>2. ASSUME NEW r \in Subscriptions, NEW q \in Publishers
        PROVE  q \in Matched'[r] <=> q \in Matched[r] \/ (r = s /\ q = p)
    <3>1. q \in Matched'[r] <=> /\ Topic(q) = Topic(r)
                                /\ <<q, r>> \in Compatible
                                /\ r \in found'[q[1]]
      BY DEF Matched
    <3>2. q \in Matched[r] <=> /\ Topic(q) = Topic(r)
                               /\ <<q, r>> \in Compatible
                               /\ r \in found[q[1]]
      BY DEF Matched
    <3>3. CASE q[1] = n
      BY <1>1, <1>4, <1>5, <3>1, <3>2, <3>3
    <3>4. CASE q[1] # n
      BY <1>1, <1>3, <3>1, <3>2, <3>4
    <3> QED BY <3>3, <3>4
  <2>3. ASSUME NEW r \in Subscriptions
        PROVE  /\ Matched[r] \subseteq Publishers
               /\ Matched'[r] \subseteq Publishers
    BY DEF Matched
  <2>4. Matched' = [Matched EXCEPT ![s] = @ \union {p}]
    <3>1. DOMAIN Matched = Subscriptions /\ DOMAIN Matched' = Subscriptions
          /\ Matched' = [r \in Subscriptions |-> Matched'[r]]
      BY DEF Matched
    <3>2. ASSUME NEW r \in Subscriptions
          PROVE  Matched'[r] = IF r = s THEN Matched[r] \union {p}
                                        ELSE Matched[r]
      BY <1>5, <2>2, <2>3
    <3> HIDE DEF Matched, p
    <3> QED BY <3>1, <3>2
  <2>5. Messaging!Match(p, s)
    BY <1>2, <1>5, <2>1, <2>4 DEF Messaging!Match
  <2> QED BY <1>5, <2>5 DEF Messaging!Next
<1>6. CASE ~(/\ s \in Subscriptions /\ p \in Publishers
             /\ Topic(p) = Topic(s) /\ <<p, s>> \in Compatible)
  <2>1. ASSUME NEW r \in Subscriptions, NEW q \in Publishers,
               Topic(q) = Topic(r), <<q, r>> \in Compatible
        PROVE  r \in found'[q[1]] <=> r \in found[q[1]]
    <3>1. CASE q[1] = n
      BY <1>1, <1>4, <1>6, <2>1, <3>1
    <3>2. CASE q[1] # n
      BY <1>1, <1>3, <3>2
    <3> QED BY <3>1, <3>2
  <2>2. Matched' = Matched
    BY <2>1 DEF Matched
  <2> QED BY <1>2, <2>2 DEF Messaging!vars
<1> QED BY <1>5, <1>6

LEMMA MessagingStep ==
  ASSUME TypeOK, [ComposedNext]_composed_vars
  PROVE  [Messaging!Next]_(Messaging!vars)
<1>1. ASSUME UNCHANGED found, UNCHANGED pub_sub_vars
      PROVE  UNCHANGED Messaging!vars
  BY <1>1 DEF pub_sub_vars, Messaging!vars, Matched
<1>2. CASE Wait
  BY <1>1, <1>2
  DEF Wait, WaitStep, Expire, CheckPdp, CheckEdp, Pass, Fail, Retry, Abort,
      graph
<1>3. ASSUME NEW n \in Nodes, NEW m \in AllNodes, DiscoverNode(n, m),
             UNCHANGED pub_sub_vars
      PROVE  UNCHANGED Messaging!vars
  BY <1>1, <1>3 DEF DiscoverNode
<1>4. CASE Graph
  BY <1>3, <1>4, DiscoveryMatches DEF Graph
<1>5. CASE SpinStep
  BY <1>5 DEF SpinStep, Messaging!Next
<1>6. CASE UNCHANGED composed_vars
  BY <1>1, <1>6 DEF composed_vars, vars
<1> QED BY <1>2, <1>4, <1>5, <1>6 DEF ComposedNext

\* A system that waits for discovery before it spins implements PubSub, whose
\* theorems therefore hold of it: the accounts of every subscription are
\* exact also where discovery was incomplete (system.cpp: spin).
THEOREM MessagingImplemented == ComposedSpec => Messaging!Spec
<1>1. ComposedInit => TypeOK /\ Messaging!Init
  BY TypeInit DEF ComposedInit
<1>2. TypeOK /\ [ComposedNext]_composed_vars => TypeOK'
  BY DiscoverySteps, TypeStep
<1>3. TypeOK /\ [ComposedNext]_composed_vars
        => [Messaging!Next]_(Messaging!vars)
  BY MessagingStep
<1> QED
  BY <1>1, <1>2, <1>3, PTL DEF ComposedSpec, Messaging!Spec
=============================================================================
