---------------------------- MODULE PubSubProofs ----------------------------
(***************************************************************************)
(* Theorems about PubSub, for every topology, bound and tracker option.    *)
(***************************************************************************)
EXTENDS PubSub, TrackerProofs

INSTANCE Factory

-----------------------------------------------------------------------------
(* Type correctness. *)

\* A publisher has numbered exactly the messages it has sent.
NumbersInv ==
  \A p \in Publishers : /\ pubs[p].tracking_number_count = pubs[p].stat.n
                        /\ pubs[p].stat.n <= MaxPublish

TypeInv == TypeOK /\ NumbersInv

\* The numbers named by an event are integers.
LEMMA EventType ==
  ASSUME NEW t \in Trackers, NEW header,
         header.tracking_number \in 0 .. TrackingMod - 1
  PROVE  LostEventNumbers(t, header) \subseteq Int
<1>1. NewlyLost(t, header) \in Int
  BY GapType DEF NewlyLost, Trackers
<1>2. PrevNumber(header.tracking_number) \in Int
  BY TrackerAssumption DEF PrevNumber
<1> QED BY <1>1, <1>2 DEF LostEventNumbers

\* A message created for publisher p is a message.
LEMMA MessageType ==
  ASSUME NEW p \in Publishers, NEW period \in Timers[p], NEW n \in Numbers
  PROVE  /\ CreateMsgHeader(p, n, period) \in Messages
         /\ CreateMsgHeader(p, n, period).pub = p
         /\ CreateMsgHeader(p, n, period).tracking_number = n
<1>1. period \in Nat \ {0}
  BY PubSubAssumption
<1>2. PublisherFrequency(period) \in Frequency
  BY <1>1, FloatType, TrackerAssumption DEF PublisherFrequency
<1> QED
  BY <1>2 DEF CreateMsgHeader, Messages

\* What publish_msg changes, in terms of the fields the invariants mention.
LEMMA PublishStep ==
  ASSUME TypeInv, NEW p \in Publishers, NEW period \in Timers[p],
         PublishMsg(p, period)
  PROVE  /\ pubs' \in [Publishers -> Trackers]
         /\ pubs[p].tracking_number_count \in Numbers
         /\ pubs'[p].tracking_number_count = pubs[p].tracking_number_count + 1
         /\ pubs'[p].stat.n = pubs[p].stat.n + 1
         /\ \A q \in Publishers \ {p} : pubs'[q] = pubs[q]
         /\ \A s \in Subscriptions :
              inFlight'[s] =
                IF p \in matched[s]
                  THEN inFlight[s] \union
                         {CreateMsgHeader(p, pubs[p].tracking_number_count,
                                          period)}
                  ELSE inFlight[s]
         /\ inFlight' \in [Subscriptions -> SUBSET Messages]
         /\ UNCHANGED <<subs, matched, got, missing, named>>
<1> DEFINE number == pubs[p].tracking_number_count
           numbered == GetAndUpdateTrackingNumber(pubs[p])
           sampled == AddSample(numbered.tracker, 0)
<1>1. pubs[p] \in Trackers
  BY DEF TypeInv, TypeOK
<1>2. /\ numbered.number = number
      /\ numbered.tracker \in Trackers
      /\ numbered.tracker.tracking_number_count = NextNumber(number)
      /\ numbered.tracker.stat = pubs[p].stat
  BY <1>1, GetAndUpdateType
<1>3. /\ number \in Numbers
      /\ NextNumber(number) = number + 1
  <2>1. number \in Nat
    BY <1>1, TrackerAssumption DEF Trackers
  <2>2. number = pubs[p].stat.n /\ pubs[p].stat.n < MaxPublish
    BY DEF TypeInv, NumbersInv, PublishMsg
  <2> QED
    BY <2>1, <2>2, PubSubAssumption, TrackerAssumption
    DEF Numbers, NextNumber
<1>4. /\ pubs' = [pubs EXCEPT ![p] = sampled]
      /\ inFlight' = [s \in Subscriptions |->
                        IF p \in matched[s]
                          THEN inFlight[s] \union
                                 {CreateMsgHeader(p, number, period)}
                          ELSE inFlight[s]]
  BY <1>2 DEF PublishMsg
<1> HIDE DEF numbered
<1>5. /\ sampled \in Trackers
      /\ sampled.tracking_number_count
           = numbered.tracker.tracking_number_count
      /\ sampled.stat.n = numbered.tracker.stat.n + 1
  BY <1>2, AddSampleType
<1> HIDE DEF sampled
<1>6. /\ sampled.tracking_number_count = number + 1
      /\ sampled.stat.n = pubs[p].stat.n + 1
  BY <1>2, <1>3, <1>5
<1>7. inFlight' \in [Subscriptions -> SUBSET Messages]
  <2>1. CreateMsgHeader(p, number, period) \in Messages
    BY <1>3, MessageType
  <2>2. inFlight \in [Subscriptions -> SUBSET Messages]
    BY DEF TypeInv, TypeOK
  <2> QED
    BY <1>4, <2>1, <2>2
<1>8. UNCHANGED <<subs, matched, got, missing, named>>
  BY DEF PublishMsg
<1> QED
  BY <1>3, <1>4, <1>5, <1>6, <1>7, <1>8 DEF TypeInv, TypeOK

\* What a delivery changes, in terms of the fields the invariants mention.
LEMMA DeliverStep ==
  ASSUME TypeInv, NEW s \in Subscriptions, NEW msg \in inFlight[s],
         Deliver(s, msg)
  PROVE  /\ subs' \in [Subscriptions -> Trackers]
         /\ Received(subs'[s], subs[s], NextExpected(subs[s], msg),
                     NewlyLost(subs[s], msg))
         /\ \A r \in Subscriptions \ {s} : subs'[r] = subs[r]
<1>1. PICK latency \in Latencies, period \in PeriodsUs(msg.frequency) :
        subs' = [subs EXCEPT ![s] = Scan(subs[s], msg, latency, period)]
  BY DEF Deliver, HandleSubReceivedMsg
<1>2. subs \in [Subscriptions -> Trackers] /\ subs[s] \in Trackers
  BY DEF TypeInv, TypeOK
<1>3. msg.tracking_number \in 0 .. TrackingMod - 1
  <2>1. msg \in Messages
    BY DEF TypeInv, TypeOK
  <2> QED
    BY <2>1, PubSubAssumption, TrackerAssumption DEF Messages, Numbers
<1>4. latency \in Int /\ -LatencyMod < latency
  BY PubSubAssumption
<1> DEFINE scanned == Scan(subs[s], msg, latency, period)
<1>5. Received(scanned, subs[s], NextExpected(subs[s], msg),
               NewlyLost(subs[s], msg))
  BY <1>2, <1>3, <1>4, ScanType
<1>6. subs' = [subs EXCEPT ![s] = scanned]
  BY <1>1
<1> HIDE DEF scanned
<1>7. scanned \in Trackers
  BY <1>5 DEF Received
<1> QED
  BY <1>2, <1>5, <1>6, <1>7

\* The initial states are well typed and number nothing yet.
LEMMA TypeInit == Init => TypeInv
<1> SUFFICES ASSUME Init PROVE TypeInv
  OBVIOUS
<1>1. /\ NewTracker(TRUE) \in Trackers
      /\ \A s \in Subscriptions : NewTracker(s \in Tracked) \in Trackers
  BY TrackerAssumption DEF NewTracker, Trackers, EmptyStat, Stats
<1>2. NumbersInv
  BY PubSubAssumption DEF NumbersInv, Init, NewTracker, EmptyStat
<1>3. TypeOK
  BY <1>1 DEF TypeOK, Init
<1> QED
  BY <1>2, <1>3 DEF TypeInv

\* Every step keeps the types and the numbering.
LEMMA TypeStep == TypeInv /\ [Next]_vars => TypeInv'
<1> SUFFICES ASSUME TypeInv, [Next]_vars PROVE TypeInv'
  OBVIOUS
<1>1. ASSUME NEW p \in Publishers, NEW period \in Timers[p],
             PublishMsg(p, period)
      PROVE  TypeInv'
  <2>1. NumbersInv'
    <3> SUFFICES ASSUME NEW q \in Publishers
                 PROVE  /\ pubs'[q].tracking_number_count = pubs'[q].stat.n
                        /\ pubs'[q].stat.n <= MaxPublish
      BY DEF NumbersInv
    <3>1. pubs[q].tracking_number_count = pubs[q].stat.n
          /\ pubs[q].stat.n <= MaxPublish
      BY DEF TypeInv, NumbersInv
    <3>2. CASE q = p
      BY <1>1, <3>1, <3>2, PublishStep, PubSubAssumption DEF Numbers
    <3>3. CASE q # p
      BY <1>1, <3>1, <3>3, PublishStep
    <3> QED
      BY <3>2, <3>3
  <2> QED
    BY <1>1, <2>1, PublishStep DEF TypeInv, TypeOK
<1>2. ASSUME NEW s \in Subscriptions, NEW msg \in inFlight[s],
             Deliver(s, msg)
      PROVE  TypeInv'
  <2>1. msg \in Messages
    BY DEF TypeInv, TypeOK
  <2>2. msg.tracking_number \in Numbers
        /\ msg.tracking_number \in 0 .. TrackingMod - 1
    BY <2>1, PubSubAssumption, TrackerAssumption DEF Messages, Numbers
  <2>3. LostEventNumbers(subs[s], msg) \subseteq Int
    BY <2>2, EventType DEF TypeInv, TypeOK
  <2>4. LostNumbers(subs[s], msg) \subseteq 0 .. TrackingMod - 1
    BY DEF LostNumbers
  <2> QED
    BY <1>2, <2>2, <2>3, <2>4, DeliverStep
    DEF TypeInv, TypeOK, NumbersInv, Deliver, HandleSubReceivedMsg
<1>3. ASSUME NEW s \in Subscriptions, NEW msg \in inFlight[s], Lose(s, msg)
      PROVE  TypeInv'
  BY <1>3 DEF TypeInv, TypeOK, NumbersInv, Lose
<1>4. ASSUME NEW p \in Publishers, NEW s \in Subscriptions, Match(p, s)
      PROVE  TypeInv'
  BY <1>4 DEF TypeInv, TypeOK, NumbersInv, Match
<1>5. CASE UNCHANGED vars
  BY <1>5 DEF TypeInv, TypeOK, NumbersInv, vars
<1> QED
  BY <1>1, <1>2, <1>3, <1>4, <1>5 DEF Next

\* The variables of every topology keep their types, and no publisher
\* numbers two messages alike (performance_node_base_impl.hpp: publish_msg).
THEOREM TypeCorrect == Spec => []TypeOK
<1>1. TypeInv => TypeOK
  BY DEF TypeInv
<1> QED
  BY <1>1, TypeInit, TypeStep, PTL DEF Spec

-----------------------------------------------------------------------------
(* Loss accounting, when each topic has one publisher. *)

\* The subscriptions that track losses are the ones that were told to.
OptionsInv == \A s \in Tracked : subs[s].is_enabled

\* Publishers are matched, and the messages they create routed, by topic.
RoutingInv ==
  \A s \in Subscriptions :
    /\ \A p \in matched[s] : PublisherTopic[p] = SubscriptionTopic[s]
    /\ \A msg \in inFlight[s] :
         PublisherTopic[msg.pub] = SubscriptionTopic[s]

SameNumber(m1, m2) ==
  m1.pub = m2.pub /\ m1.tracking_number = m2.tracking_number

\* What is in flight is numbered, no two messages of a publisher alike, and
\* no lower than the number expected.
OrderInv ==
  \A s \in Tracked : \A msg \in inFlight[s] :
    /\ subs[s].tracking_number_count <= msg.tracking_number
    /\ msg.tracking_number < pubs[msg.pub].tracking_number_count
    /\ \A other \in inFlight[s] : SameNumber(other, msg) => other = msg

\* No subscription expects more than its publisher has numbered.
HeardInv ==
  \A s \in Tracked, p \in Publishers :
    PublisherTopic[p] = SubscriptionTopic[s] =>
      subs[s].tracking_number_count <= pubs[p].tracking_number_count

LossInv ==
  TypeInv /\ OptionsInv /\ RoutingInv /\ OrderInv /\ HeardInv /\ LossIsExact

\* The numbers that a header in order makes a tracker count as lost.
LEMMA LostInOrder ==
  ASSUME NEW t \in Trackers, t.is_enabled, NEW header,
         header.tracking_number \in Numbers,
         t.tracking_number_count <= header.tracking_number
  PROVE  /\ NewlyLost(t, header)
              = header.tracking_number - t.tracking_number_count
         /\ LostNumbers(t, header)
              = t.tracking_number_count .. header.tracking_number - 1
         /\ NextExpected(t, header) = header.tracking_number + 1
<1> DEFINE e == t.tracking_number_count
           n == header.tracking_number
<1>1. e \in 0 .. TrackingMod - 1 /\ n \in 0 .. TrackingMod - 2
  BY PubSubAssumption, TrackerAssumption DEF Trackers, Numbers
<1>2. NewlyLost(t, header) = n - e /\ NextExpected(t, header) = n + 1
  BY <1>1, CountInOrder
<1>3. LostNumbers(t, header) = e .. n - 1
  BY <1>1, <1>2, TrackerAssumption DEF LostNumbers, Gap
<1> QED
  BY <1>2, <1>3

\* What a delivery does to the accounts of a subscription that tracks.
LEMMA DeliverTracked ==
  ASSUME LossInv, NEW s \in Tracked, NEW msg \in inFlight[s], Deliver(s, msg)
  PROVE  LET e == subs[s].tracking_number_count
             n == msg.tracking_number
         IN /\ n \in Numbers /\ e \in Nat /\ e <= n
            /\ subs'[s].is_enabled
            /\ subs'[s].tracking_number_count = n + 1
            /\ subs'[s].lost = subs[s].lost + (n - e)
            /\ subs'[s].received = subs[s].received + 1
            /\ got'[s] = got[s] \union {n}
            /\ missing'[s] = missing[s] \union (e .. n - 1)
<1> DEFINE e == subs[s].tracking_number_count
           n == msg.tracking_number
           t == subs[s]
<1>1. s \in Subscriptions /\ t \in Trackers /\ t.is_enabled
  BY PubSubAssumption DEF LossInv, TypeInv, TypeOK, OptionsInv
<1>2. n \in Numbers
  <2>1. msg \in Messages
    BY <1>1 DEF LossInv, TypeInv, TypeOK
  <2> QED
    BY <2>1 DEF Messages
<1>3. e \in Nat /\ e <= n
  BY <1>1, TrackerAssumption DEF LossInv, OrderInv, Trackers
<1>4. /\ NewlyLost(t, msg) = n - e
      /\ LostNumbers(t, msg) = e .. n - 1
      /\ NextExpected(t, msg) = n + 1
  BY <1>1, <1>2, <1>3, LostInOrder
<1>5. Received(subs'[s], t, NextExpected(t, msg), NewlyLost(t, msg))
  BY <1>1, DeliverStep DEF LossInv
<1>6. /\ got'[s] = got[s] \union {n}
      /\ missing'[s] = missing[s] \union LostNumbers(t, msg)
  BY <1>1 DEF Deliver, HandleSubReceivedMsg, LossInv, TypeInv, TypeOK
<1> QED
  BY <1>1, <1>2, <1>3, <1>4, <1>5, <1>6 DEF Received

\* Nothing has been published, so nothing is settled: the invariant holds.
LEMMA LossInit == Init => LossInv
<1> SUFFICES ASSUME Init PROVE LossInv
  OBVIOUS
<1>1. TypeInv
  BY TypeInit
<1>2. \A s \in Tracked : /\ s \in Subscriptions
                         /\ subs[s].is_enabled
                         /\ subs[s].tracking_number_count = 0
                         /\ subs[s].lost = 0
                         /\ subs[s].received = 0
  BY PubSubAssumption DEF Init, NewTracker
<1>3. \A s \in Subscriptions : /\ matched[s] = {} /\ inFlight[s] = {}
                               /\ got[s] = {} /\ missing[s] = {}
  BY DEF Init
<1>4. HeardInv
  BY <1>2 DEF HeardInv, Init, NewTracker
<1>5. LossIsExact
  <2>1. {} \union {} = 0 .. 0 - 1 /\ Cardinality({}) = 0
    BY FS_EmptySet
  <2> QED
    BY <1>2, <1>3, <2>1 DEF LossIsExact
<1> QED
  BY <1>1, <1>2, <1>3, <1>4, <1>5
  DEF LossInv, OptionsInv, RoutingInv, OrderInv

\* A new message takes a number no subscription has settled.
LEMMA PublishLossStep ==
  ASSUME LossInv, OnePublisherPerTopic, NEW p \in Publishers,
         NEW period \in Timers[p], PublishMsg(p, period)
  PROVE  OptionsInv' /\ RoutingInv' /\ OrderInv' /\ HeardInv' /\ LossIsExact'
<1> DEFINE msg == CreateMsgHeader(p, pubs[p].tracking_number_count, period)
<1>1. /\ pubs' \in [Publishers -> Trackers]
      /\ pubs[p].tracking_number_count \in Numbers
      /\ pubs'[p].tracking_number_count = pubs[p].tracking_number_count + 1
      /\ \A q \in Publishers \ {p} : pubs'[q] = pubs[q]
      /\ \A s \in Subscriptions :
           inFlight'[s] = IF p \in matched[s] THEN inFlight[s] \union {msg}
                                              ELSE inFlight[s]
      /\ UNCHANGED <<subs, matched, got, missing, named>>
  BY PublishStep DEF LossInv
<1>2. /\ msg \in Messages /\ msg.pub = p
      /\ msg.tracking_number = pubs[p].tracking_number_count
  BY <1>1, MessageType
<1> HIDE DEF msg
<1>3. \A q \in Publishers :
        /\ pubs[q].tracking_number_count \in Nat
        /\ pubs[q].tracking_number_count <= pubs'[q].tracking_number_count
  <2>1. \A q \in Publishers : pubs[q].tracking_number_count \in Nat
    BY TrackerAssumption DEF LossInv, TypeInv, TypeOK, Trackers
  <2> QED
    BY <1>1, <2>1
<1>4. \A s \in Tracked : /\ s \in Subscriptions
                         /\ subs[s].tracking_number_count \in Nat
  BY PubSubAssumption, TrackerAssumption
  DEF LossInv, TypeInv, TypeOK, Trackers
<1>5. OptionsInv' /\ LossIsExact'
  BY <1>1 DEF LossInv, OptionsInv, LossIsExact
<1>6. RoutingInv'
  <2> SUFFICES ASSUME NEW s \in Subscriptions
               PROVE  /\ \A q \in matched[s] :
                           PublisherTopic[q] = SubscriptionTopic[s]
                      /\ \A m \in inFlight'[s] :
                           PublisherTopic[m.pub] = SubscriptionTopic[s]
    BY <1>1 DEF RoutingInv
  <2>1. /\ \A q \in matched[s] : PublisherTopic[q] = SubscriptionTopic[s]
        /\ \A m \in inFlight[s] : PublisherTopic[m.pub] = SubscriptionTopic[s]
    BY DEF LossInv, RoutingInv
  <2>2. \A m \in inFlight'[s] :
          m \in inFlight[s] \/ (m = msg /\ p \in matched[s])
    BY <1>1
  <2> QED
    BY <1>2, <2>1, <2>2
<1>7. HeardInv'
  <2> SUFFICES ASSUME NEW s \in Tracked, NEW q \in Publishers,
                      PublisherTopic[q] = SubscriptionTopic[s]
               PROVE  subs[s].tracking_number_count
                        <= pubs'[q].tracking_number_count
    BY <1>1 DEF HeardInv
  <2>1. subs[s].tracking_number_count <= pubs[q].tracking_number_count
    BY DEF LossInv, HeardInv
  <2>2. pubs'[q].tracking_number_count \in Nat
    BY <1>1, TrackerAssumption DEF Trackers
  <2> QED
    BY <1>3, <1>4, <2>1, <2>2
<1>8. \A s \in Tracked : \A m \in inFlight[s] :
        /\ m.pub \in Publishers
        /\ subs[s].tracking_number_count <= m.tracking_number
        /\ m.tracking_number < pubs'[m.pub].tracking_number_count
        /\ ~SameNumber(m, msg)
  <2> SUFFICES ASSUME NEW s \in Tracked, NEW m \in inFlight[s]
               PROVE  /\ m.pub \in Publishers
                      /\ subs[s].tracking_number_count <= m.tracking_number
                      /\ m.tracking_number < pubs'[m.pub].tracking_number_count
                      /\ ~SameNumber(m, msg)
    OBVIOUS
  <2>1. m \in Messages
    BY <1>4 DEF LossInv, TypeInv, TypeOK
  <2>2. m.pub \in Publishers /\ m.tracking_number \in Nat
    BY <2>1 DEF Messages, Numbers
  <2>3. /\ subs[s].tracking_number_count <= m.tracking_number
        /\ m.tracking_number < pubs[m.pub].tracking_number_count
    BY DEF LossInv, OrderInv
  <2>4. pubs'[m.pub].tracking_number_count \in Nat
    BY <1>1, <2>2, TrackerAssumption DEF Trackers
  <2>5. ~SameNumber(m, msg)
    BY <1>2, <1>3, <2>2, <2>3 DEF SameNumber
  <2> QED
    BY <1>3, <2>2, <2>3, <2>4, <2>5
<1>9. \A s \in Tracked : p \in matched[s] =>
        /\ subs[s].tracking_number_count <= msg.tracking_number
        /\ msg.tracking_number < pubs'[p].tracking_number_count
  <2> SUFFICES ASSUME NEW s \in Tracked, p \in matched[s]
               PROVE  /\ subs[s].tracking_number_count <= msg.tracking_number
                      /\ msg.tracking_number < pubs'[p].tracking_number_count
    OBVIOUS
  <2>1. PublisherTopic[p] = SubscriptionTopic[s]
    BY <1>4 DEF LossInv, RoutingInv
  <2>2. subs[s].tracking_number_count <= pubs[p].tracking_number_count
    BY <2>1 DEF LossInv, HeardInv
  <2> QED
    BY <1>1, <1>2, <1>3, <2>2
<1>10. OrderInv'
  <2> SUFFICES ASSUME NEW s \in Tracked, NEW m \in inFlight'[s]
               PROVE  /\ subs[s].tracking_number_count <= m.tracking_number
                      /\ m.tracking_number < pubs'[m.pub].tracking_number_count
                      /\ \A other \in inFlight'[s] :
                           SameNumber(other, m) => other = m
    BY <1>1 DEF OrderInv
  <2>1. \A n \in inFlight'[s] :
          n \in inFlight[s] \/ (n = msg /\ p \in matched[s])
    BY <1>1, <1>4
  <2>2. CASE m \in inFlight[s]
    <3>1. \A other \in inFlight[s] : SameNumber(other, m) => other = m
      BY <2>2 DEF LossInv, OrderInv
    <3>2. ~SameNumber(msg, m)
      BY <1>8, <2>2 DEF SameNumber
    <3> QED
      BY <1>8, <2>1, <2>2, <3>1, <3>2
  <2>3. CASE m = msg /\ p \in matched[s]
    BY <1>2, <1>8, <1>9, <2>1, <2>3
  <2> QED
    BY <2>1, <2>2, <2>3
<1> QED
  BY <1>5, <1>6, <1>7, <1>10

\* A delivery settles the numbers up to its own in one subscription, and
\* leaves the accounts of the others alone.
LEMMA DeliverLossStep ==
  ASSUME LossInv, OnePublisherPerTopic, NEW s \in Subscriptions,
         NEW msg \in inFlight[s], Deliver(s, msg)
  PROVE  OptionsInv' /\ RoutingInv' /\ OrderInv' /\ HeardInv' /\ LossIsExact'
<1> DEFINE e == subs[s].tracking_number_count
           n == msg.tracking_number
<1>1. /\ inFlight' = [inFlight EXCEPT ![s] = @ \ {msg}]
      /\ UNCHANGED <<pubs, matched>>
      /\ \A r \in Subscriptions \ {s} :
           /\ subs'[r] = subs[r]
           /\ got'[r] = got[r]
           /\ missing'[r] = missing[r]
  BY DeliverStep
  DEF Deliver, HandleSubReceivedMsg, LossInv, TypeInv, TypeOK
<1>2. \A r \in Subscriptions : inFlight'[r] \subseteq inFlight[r]
  BY <1>1 DEF LossInv, TypeInv, TypeOK
<1>3. inFlight'[s] = inFlight[s] \ {msg}
  BY <1>1 DEF LossInv, TypeInv, TypeOK
<1>4. \A r \in Tracked : r \in Subscriptions
  BY PubSubAssumption
<1>5. s \in Tracked =>
        /\ n \in Numbers /\ e \in Nat /\ e <= n
        /\ subs'[s].is_enabled
        /\ subs'[s].tracking_number_count = n + 1
        /\ subs'[s].lost = subs[s].lost + (n - e)
        /\ subs'[s].received = subs[s].received + 1
        /\ got'[s] = got[s] \union {n}
        /\ missing'[s] = missing[s] \union (e .. n - 1)
  BY DeliverTracked
<1>6. msg.pub \in Publishers /\ PublisherTopic[msg.pub] = SubscriptionTopic[s]
  <2>1. msg \in Messages
    BY DEF LossInv, TypeInv, TypeOK
  <2> QED
    BY <2>1 DEF Messages, LossInv, RoutingInv
<1>7. OptionsInv'
  BY <1>1, <1>4, <1>5 DEF LossInv, OptionsInv
<1>8. RoutingInv'
  BY <1>1, <1>2 DEF LossInv, RoutingInv
<1>9. OrderInv'
  <2> SUFFICES ASSUME NEW r \in Tracked, NEW m \in inFlight'[r]
               PROVE  /\ subs'[r].tracking_number_count <= m.tracking_number
                      /\ m.tracking_number < pubs[m.pub].tracking_number_count
                      /\ \A other \in inFlight'[r] :
                           SameNumber(other, m) => other = m
    BY <1>1 DEF OrderInv
  <2>1. /\ m \in inFlight[r] /\ m \in Messages
        /\ subs[r].tracking_number_count <= m.tracking_number
        /\ m.tracking_number < pubs[m.pub].tracking_number_count
        /\ \A other \in inFlight[r] : SameNumber(other, m) => other = m
    BY <1>2, <1>4 DEF LossInv, OrderInv, TypeInv, TypeOK
  <2>2. CASE r = s
    <3>1. /\ m # msg /\ m.pub \in Publishers /\ m.tracking_number \in Nat
          /\ PublisherTopic[m.pub] = PublisherTopic[msg.pub]
      BY <1>3, <1>6, <2>1, <2>2 DEF LossInv, RoutingInv, Messages, Numbers
    <3>2. m.pub = msg.pub
      BY <1>6, <3>1 DEF OnePublisherPerTopic
    <3>3. n <= m.tracking_number
      BY <2>1, <2>2, <3>2 DEF Deliver
    <3>4. n # m.tracking_number
      BY <2>1, <2>2, <3>1, <3>2 DEF SameNumber
    <3>5. subs'[r].tracking_number_count = n + 1 /\ n \in Nat
      BY <1>5, <2>2 DEF Numbers
    <3> QED
      BY <1>2, <1>4, <2>1, <3>1, <3>3, <3>4, <3>5
  <2>3. CASE r # s
    BY <1>1, <1>2, <1>4, <2>1, <2>3
  <2> QED
    BY <2>2, <2>3
<1>10. HeardInv'
  <2> SUFFICES ASSUME NEW r \in Tracked, NEW p \in Publishers,
                      PublisherTopic[p] = SubscriptionTopic[r]
               PROVE  subs'[r].tracking_number_count
                        <= pubs[p].tracking_number_count
    BY <1>1 DEF HeardInv
  <2>1. CASE r = s
    <3>1. p = msg.pub
      BY <1>6, <2>1 DEF OnePublisherPerTopic
    <3>2. n < pubs[p].tracking_number_count
      BY <2>1, <3>1 DEF LossInv, OrderInv
    <3>3. pubs[p].tracking_number_count \in Nat /\ n \in Nat
      BY <1>5, <2>1, TrackerAssumption
      DEF LossInv, TypeInv, TypeOK, Trackers, Numbers
    <3> QED
      BY <1>5, <2>1, <3>2, <3>3
  <2>2. CASE r # s
    BY <1>1, <1>4, <2>2 DEF LossInv, HeardInv
  <2> QED
    BY <2>1, <2>2
<1>11. LossIsExact'
  <2> SUFFICES ASSUME NEW r \in Tracked
               PROVE  /\ got'[r] \intersect missing'[r] = {}
                      /\ got'[r] \union missing'[r]
                           = 0 .. subs'[r].tracking_number_count - 1
                      /\ subs'[r].lost = Cardinality(missing'[r])
                      /\ subs'[r].received = Cardinality(got'[r])
    BY DEF LossIsExact
  <2>1. /\ got[r] \intersect missing[r] = {}
        /\ got[r] \union missing[r] = 0 .. subs[r].tracking_number_count - 1
        /\ subs[r].lost = Cardinality(missing[r])
        /\ subs[r].received = Cardinality(got[r])
    BY DEF LossInv, LossIsExact
  <2>2. CASE r = s
    <3>1. n \in Nat /\ (n + 1) - 1 = n
      BY <1>5, <2>2 DEF Numbers
    <3>2. /\ got'[s] \intersect missing'[s] = {}
          /\ got'[s] \union missing'[s] = 0 .. n
          /\ Cardinality(got'[s]) = Cardinality(got[s]) + 1
          /\ Cardinality(missing'[s]) = Cardinality(missing[s]) + (n - e)
      <4>1. PICK a \in Nat, b \in Nat : a = e /\ b = n
        BY <1>5, <2>2, <3>1
      <4>2. a <= b /\ got[s] \union missing[s] = 0 .. a - 1
        BY <1>5, <2>1, <2>2, <4>1
      <4>3. got'[s] = got[s] \union {b}
            /\ missing'[s] = missing[s] \union (a .. b - 1)
        BY <1>5, <2>2, <4>1
      <4>4. SettledUpTo(got[s], missing[s], a, b)
        BY <2>1, <2>2, <4>2, Settle
      <4> QED
        BY <4>1, <4>3, <4>4 DEF SettledUpTo
    <3> QED
      BY <1>5, <2>1, <2>2, <3>1, <3>2
  <2>3. CASE r # s
    BY <1>1, <1>4, <2>1, <2>3
  <2> QED
    BY <2>2, <2>3
<1> QED
  BY <1>7, <1>8, <1>9, <1>10, <1>11

\* The strengthened invariant is inductive.
LEMMA LossStep == OnePublisherPerTopic /\ LossInv /\ [Next]_vars => LossInv'
<1> SUFFICES ASSUME OnePublisherPerTopic, LossInv, [Next]_vars
             PROVE  LossInv'
  OBVIOUS
<1>1. TypeInv'
  BY TypeStep DEF LossInv
<1> SUFFICES OptionsInv' /\ RoutingInv' /\ OrderInv' /\ HeardInv'
             /\ LossIsExact'
  BY <1>1 DEF LossInv
<1>2. ASSUME NEW p \in Publishers, NEW period \in Timers[p],
             PublishMsg(p, period)
      PROVE  OptionsInv' /\ RoutingInv' /\ OrderInv' /\ HeardInv'
             /\ LossIsExact'
  BY <1>2, PublishLossStep
<1>3. ASSUME NEW s \in Subscriptions, NEW msg \in inFlight[s],
             Deliver(s, msg)
      PROVE  OptionsInv' /\ RoutingInv' /\ OrderInv' /\ HeardInv'
             /\ LossIsExact'
  BY <1>3, DeliverLossStep
<1>4. ASSUME NEW s \in Subscriptions, NEW msg \in inFlight[s], Lose(s, msg)
      PROVE  OptionsInv' /\ RoutingInv' /\ OrderInv' /\ HeardInv'
             /\ LossIsExact'
  <2>1. \A r \in Subscriptions : inFlight'[r] \subseteq inFlight[r]
    BY <1>4 DEF Lose, LossInv, TypeInv, TypeOK
  <2>2. UNCHANGED <<pubs, subs, matched, got, missing>>
    BY <1>4 DEF Lose
  <2>3. \A r \in Tracked : r \in Subscriptions
    BY PubSubAssumption
  <2> QED
    BY <2>1, <2>2, <2>3
    DEF LossInv, OptionsInv, RoutingInv, OrderInv, HeardInv, LossIsExact
<1>5. ASSUME NEW p \in Publishers, NEW s \in Subscriptions, Match(p, s)
      PROVE  OptionsInv' /\ RoutingInv' /\ OrderInv' /\ HeardInv'
             /\ LossIsExact'
  <2>1. RoutingInv'
    BY <1>5 DEF LossInv, TypeInv, TypeOK, RoutingInv, Match
  <2> QED
    BY <1>5, <2>1
    DEF LossInv, OptionsInv, OrderInv, HeardInv, LossIsExact, Match
<1>6. CASE UNCHANGED vars
  BY <1>6 DEF vars, LossInv, OptionsInv, RoutingInv, OrderInv, HeardInv,
              LossIsExact
<1> QED
  BY <1>2, <1>3, <1>4, <1>5, <1>6 DEF Next

\* When every topic has one publisher, the counters of a subscription that
\* tracks losses are exact: each number below the one it expects has arrived
\* or has been counted as lost, and never both (tracker.cpp: scan).
THEOREM LossExact ==
  ASSUME OnePublisherPerTopic
  PROVE  Spec => []LossIsExact
<1>1. LossInv /\ [Next]_vars => LossInv'
  BY LossStep
<1>2. LossInv => LossIsExact
  BY DEF LossInv
<1> QED
  BY <1>1, <1>2, LossInit, PTL DEF Spec

-----------------------------------------------------------------------------
(* PubSub implements LossAccounting. *)

\* Initially every number is open in both specifications.
LEMMA AccountingInit == Init => Accounting!Init
  BY PubSubAssumption DEF Init, Accounting!Init

\* A delivery to a subscription that tracks is an arrival of the accounting.
LEMMA AccountingDeliver ==
  ASSUME LossInv, NEW s \in Tracked, NEW msg \in inFlight[s], Deliver(s, msg)
  PROVE  Accounting!Arrive(s, msg.tracking_number)
<1> DEFINE e == subs[s].tracking_number_count
           n == msg.tracking_number
           lower == {k \in Numbers : k < n}
<1>1. /\ n \in Numbers /\ e \in Nat /\ e <= n
      /\ got'[s] = got[s] \union {n}
      /\ missing'[s] = missing[s] \union (e .. n - 1)
  BY DeliverTracked
<1>2. /\ got[s] \intersect missing[s] = {}
      /\ got[s] \union missing[s] = 0 .. e - 1
  BY DEF LossInv, LossIsExact
<1>3. \A r \in Tracked \ {s} : got'[r] = got[r] /\ missing'[r] = missing[r]
  BY PubSubAssumption
  DEF Deliver, HandleSubReceivedMsg, LossInv, TypeInv, TypeOK
<1>4. n \in Nat /\ lower = 0 .. n - 1
  BY <1>1, PubSubAssumption DEF Numbers
<1>5. \A k \in got[s] \union missing[s] : k < n
  BY <1>1, <1>2, <1>4
<1>6. missing[s] \union (e .. n - 1) = missing[s] \union (lower \ got[s])
  BY <1>1, <1>2, <1>4
<1> HIDE DEF n, e, lower
<1>7. [r \in Tracked |-> got'[r]]
        = [[r \in Tracked |-> got[r]] EXCEPT ![s] = got[s] \union {n}]
  BY <1>1, <1>3
<1>8. [r \in Tracked |-> missing'[r]]
        = [[r \in Tracked |-> missing[r]]
             EXCEPT ![s] = missing[s] \union (lower \ got[s])]
  BY <1>1, <1>3, <1>6
<1> QED
  BY <1>5, <1>7, <1>8 DEF Accounting!Arrive, n, lower

\* Every step is an arrival of the accounting or leaves it alone.
LEMMA AccountingStep ==
  LossInv /\ [Next]_vars => [Accounting!Next]_(Accounting!vars)
<1> SUFFICES ASSUME LossInv, [Next]_vars
             PROVE  [Accounting!Next]_(Accounting!vars)
  OBVIOUS
<1>1. ASSUME NEW s \in Subscriptions, NEW msg \in inFlight[s],
             Deliver(s, msg)
      PROVE  [Accounting!Next]_(Accounting!vars)
  <2>1. CASE s \in Tracked
    <3>1. msg.tracking_number \in Numbers
      BY <1>1, <2>1, DeliverTracked
    <3> QED
      BY <1>1, <2>1, <3>1, AccountingDeliver DEF Accounting!Next
  <2>2. CASE s \notin Tracked
    <3>1. \A r \in Tracked : got'[r] = got[r] /\ missing'[r] = missing[r]
      BY <1>1, <2>2, PubSubAssumption
      DEF Deliver, HandleSubReceivedMsg, LossInv, TypeInv, TypeOK
    <3> QED
      BY <3>1 DEF Accounting!vars
  <2> QED
    BY <2>1, <2>2
<1>2. CASE UNCHANGED <<got, missing>>
  BY <1>2 DEF Accounting!vars
<1> QED
  BY <1>1, <1>2 DEF Next, vars, PublishMsg, Lose, Match

\* When every topic has one publisher, the trackers settle numbers for good
\* and in increasing order: no loss is announced for a message that still
\* arrives (tracker.cpp: scan).
THEOREM AccountingImplemented ==
  ASSUME OnePublisherPerTopic
  PROVE  Spec => ImplementsAccounting
<1>1. LossInv /\ [Next]_vars => LossInv'
  BY LossStep
<1> QED
  BY <1>1, LossInit, AccountingInit, AccountingStep, PTL
  DEF Spec, ImplementsAccounting, Accounting!Spec

-----------------------------------------------------------------------------
(* The systems of the example programs, for any numbers of nodes. *)

\* No two nodes of a system have the same name.
NamesDistinct(nodes) == \A m, n \in nodes : m.name = n.name => m = n

\* What loss accounting rests on: no topic has two publishers.
TopicsHaveOnePublisher(nodes) ==
  \A p, q \in PublisherEntities(nodes) : p[2] = q[2] => p = q

-----------------------------------------------------------------------------
\* Entities made for a set of names have these names.
LEMMA NamesOfEntities ==
  ASSUME NEW names, NEW period, NEW qos
  PROVE  NamesOf({Entity(name, period, qos) : name \in names}) = names
<1>1. \A name : Entity(name, period, qos).name = name
  BY DEF Entity
<1> DEFINE entities == {Entity(n, period, qos) : n \in names}
<1>2. NamesOf(entities) = {e.name : e \in entities}
  BY DEF NamesOf
<1>3. \A e \in entities : e.name \in names
  BY <1>1
<1>4. \A n \in names : \E e \in entities : e.name = n
  BY <1>1
<1> HIDE DEF entities
<1>5. NamesOf(entities) = names
  BY <1>2, <1>3, <1>4
<1> QED
  BY <1>5 DEF entities

\* A node created by number is named after it and has what it is created for.
LEMMA SubscriberNodeFields ==
  ASSUME NEW id, NEW topics
  PROVE  /\ SubscriberNode(id, topics).name = <<"node", id>>
         /\ SubscriberNode(id, topics).pubs = {}
         /\ SubscriberNode(id, topics).subs = topics
<1> DEFINE entities == {Entity(topic, 0, SensorDataQoS) : topic \in topics}
<1>1. NamesOf(entities) = topics
  BY NamesOfEntities
<1> HIDE DEF entities
<1>2. SubscriberNode(id, topics) = AddSubscribers(IdNode(id), entities)
  BY DEF SubscriberNode, entities
<1> QED
  BY <1>1, <1>2 DEF AddSubscribers, IdNode, NewNode

\* And so is a publisher node, whose only topic has its own number.
LEMMA PublisherNodeFields ==
  ASSUME NEW id, NEW frequency
  PROVE  /\ PublisherNode(id, frequency).name = <<"node", id>>
         /\ PublisherNode(id, frequency).namespace = <<>>
         /\ PublisherNode(id, frequency).pubs = {id}
         /\ PublisherNode(id, frequency).subs = {}
<1> DEFINE entities ==
             {Entity(id, MicrosPerSecond \div frequency, SensorDataQoS)}
<1>1. NamesOf(entities) = {id}
  BY DEF NamesOf, Entity
<1> HIDE DEF entities
<1>2. PublisherNode(id, frequency) = AddPeriodicPublishers(IdNode(id), entities)
  BY DEF PublisherNode, entities
<1> QED
  BY <1>1, <1>2 DEF AddPeriodicPublishers, IdNode, NewNode

\* The publisher and subscriber programs, run with the same numbers of nodes,
\* fit together: node names are unique, every subscriber node subscribes to
\* exactly the topics that are published, and each topic has one publisher,
\* which is what loss accounting rests on (factory.cpp:
\* create_subscriber_nodes, create_periodic_publisher_nodes).
THEOREM PubSubProgramsFit ==
  ASSUME NEW n_subscribers \in Nat, NEW n_publishers \in Nat, NEW frequency
  PROVE  LET subscribers == SubscriberNodes(n_subscribers, n_publishers)
             publishers ==
               PublisherNodes(n_subscribers, n_publishers, frequency)
         IN /\ NamesDistinct(subscribers \union publishers)
            /\ \A s \in subscribers :
                 s.subs = UNION {p.pubs : p \in publishers}
            /\ TopicsHaveOnePublisher(subscribers \union publishers)
<1> DEFINE subscribers == SubscriberNodes(n_subscribers, n_publishers)
           publishers == PublisherNodes(n_subscribers, n_publishers, frequency)
           ids == 0 .. n_subscribers - 1
           topics == n_subscribers .. n_subscribers + n_publishers - 1
<1>1. subscribers = {SubscriberNode(id, topics) : id \in ids}
  BY DEF SubscriberNodes, CreateSubscriberNodes
<1>2. publishers = {PublisherNode(id, frequency) : id \in topics}
  BY DEF PublisherNodes, CreatePeriodicPublisherNodes
<1>3. \A i \in ids, j \in topics : i # j
  OBVIOUS
<1> HIDE DEF subscribers, publishers, ids, topics
<1>4. NamesDistinct(subscribers \union publishers)
  <2>1. \A i, j : <<"node", i>> = <<"node", j>> => i = j
    OBVIOUS
  <2>2. \A m \in subscribers :
          \E i \in ids : m = SubscriberNode(i, topics) /\ m.name = <<"node", i>>
    BY <1>1, SubscriberNodeFields
  <2>3. \A m \in publishers :
          \E i \in topics :
            m = PublisherNode(i, frequency) /\ m.name = <<"node", i>>
    BY <1>2, PublisherNodeFields
  <2>4. ASSUME NEW m \in subscribers \union publishers,
               NEW n \in subscribers \union publishers,
               m.name = n.name
        PROVE  m = n
    <3>1. CASE m \in subscribers /\ n \in subscribers
      <4>1. PICK i \in ids :
              m = SubscriberNode(i, topics) /\ m.name = <<"node", i>>
        BY <2>2, <3>1
      <4>2. PICK j \in ids :
              n = SubscriberNode(j, topics) /\ n.name = <<"node", j>>
        BY <2>2, <3>1
      <4> QED
        BY <2>1, <2>4, <4>1, <4>2
    <3>2. CASE m \in publishers /\ n \in publishers
      <4>1. PICK i \in topics :
              m = PublisherNode(i, frequency) /\ m.name = <<"node", i>>
        BY <2>3, <3>2
      <4>2. PICK j \in topics :
              n = PublisherNode(j, frequency) /\ n.name = <<"node", j>>
        BY <2>3, <3>2
      <4> QED
        BY <2>1, <2>4, <4>1, <4>2
    <3>3. CASE m \in subscribers /\ n \in publishers
      <4>1. PICK i \in ids : m.name = <<"node", i>>
        BY <2>2, <3>3
      <4>2. PICK j \in topics : n.name = <<"node", j>>
        BY <2>3, <3>3
      <4> QED
        BY <1>3, <2>1, <2>4, <4>1, <4>2
    <3>4. CASE m \in publishers /\ n \in subscribers
      <4>1. PICK j \in topics : m.name = <<"node", j>>
        BY <2>3, <3>4
      <4>2. PICK i \in ids : n.name = <<"node", i>>
        BY <2>2, <3>4
      <4> QED
        BY <1>3, <2>1, <2>4, <4>1, <4>2
    <3> QED
      BY <3>1, <3>2, <3>3, <3>4
  <2> QED
    BY <2>4 DEF NamesDistinct
<1>5. \A s \in subscribers : s.subs = UNION {p.pubs : p \in publishers}
  <2>1. \A p \in publishers : \E id \in topics : p.pubs = {id}
    BY <1>2, PublisherNodeFields
  <2>2. \A id \in topics : \E p \in publishers : p.pubs = {id}
    BY <1>2, PublisherNodeFields
  <2>3. UNION {p.pubs : p \in publishers} = topics
    BY <2>1, <2>2
  <2> QED
    BY <1>1, <2>3, SubscriberNodeFields
<1>6. TopicsHaveOnePublisher(subscribers \union publishers)
  <2>1. ASSUME NEW e \in PublisherEntities(subscribers \union publishers)
        PROVE  \E id \in topics : e = <<<<"node", id>>, <<<<>>, id>>>>
    <3>1. PICK node \in subscribers \union publishers :
            \E topic \in node.pubs : e = Endpoint(node, topic)
      BY DEF PublisherEntities
    <3>2. PICK topic \in node.pubs : e = Endpoint(node, topic)
      BY <3>1
    <3>3. node \in publishers
      BY <1>1, SubscriberNodeFields
    <3>4. PICK id \in topics : node = PublisherNode(id, frequency)
      BY <1>2, <3>3
    <3> QED
      BY <3>2, <3>4, PublisherNodeFields DEF Endpoint, TopicName
  <2>2. \A i, j : <<<<>>, i>> = <<<<>>, j>> => i = j
    OBVIOUS
  <2>3. \A e \in PublisherEntities(subscribers \union publishers) :
          \E id \in topics : e = <<<<"node", id>>, <<<<>>, id>>>>
                             /\ e[2] = <<<<>>, id>>
    BY <2>1
  <2> QED
    BY <2>2, <2>3, Zenon DEF TopicsHaveOnePublisher
<1> QED
  BY <1>4, <1>5, <1>6 DEF subscribers, publishers

-----------------------------------------------------------------------------
\* Two families of nodes numbered apart.
LEMMA NumberedNamesDistinct ==
  ASSUME NEW I, NEW J, I \intersect J = {},
         NEW f, \A i \in I : f[i].name = <<"node", i>>,
         NEW g, \A j \in J : g[j].name = <<"node", j>>
  PROVE  NamesDistinct({f[i] : i \in I} \union {g[j] : j \in J})
<1>1. \A i, j : <<"node", i>> = <<"node", j>> => i = j
  OBVIOUS
<1>2. \A m \in {f[i] : i \in I} :
        \E i \in I : m = f[i] /\ m.name = <<"node", i>>
  OBVIOUS
<1>3. \A m \in {g[j] : j \in J} :
        \E j \in J : m = g[j] /\ m.name = <<"node", j>>
  OBVIOUS
<1>4. ASSUME NEW m \in {f[i] : i \in I} \union {g[j] : j \in J},
             NEW n \in {f[i] : i \in I} \union {g[j] : j \in J},
             m.name = n.name
      PROVE  m = n
  <2>1. PICK i : /\ m.name = <<"node", i>>
                 /\ (i \in I /\ m = f[i]) \/ (i \in J /\ m = g[i])
    BY <1>2, <1>3
  <2>2. PICK j : /\ n.name = <<"node", j>>
                 /\ (j \in I /\ n = f[j]) \/ (j \in J /\ n = g[j])
    BY <1>2, <1>3
  <2>3. i = j
    BY <1>1, <1>4, <2>1, <2>2
  <2> QED
    BY <2>1, <2>2, <2>3
<1> QED
  BY <1>4 DEF NamesDistinct

\* A client node has the clients it is created for.
LEMMA ClientNodeFields ==
  ASSUME NEW id, NEW services, NEW frequency
  PROVE  /\ PeriodicClientNode(id, services, frequency).name = <<"node", id>>
         /\ PeriodicClientNode(id, services, frequency).clients = services
<1> DEFINE entities ==
             {Entity(service, MicrosPerSecond \div frequency, ServicesQoS) :
                service \in services}
<1>1. NamesOf(entities) = services
  BY NamesOfEntities
<1> HIDE DEF entities
<1>2. PeriodicClientNode(id, services, frequency)
        = AddPeriodicClients(IdNode(id), entities)
  BY DEF PeriodicClientNode, entities
<1> QED
  BY <1>1, <1>2 DEF AddPeriodicClients, IdNode, NewNode

\* And a server node one service, which has its own number.
LEMMA ServerNodeFields ==
  ASSUME NEW id
  PROVE  /\ ServerNode(id).name = <<"node", id>>
         /\ ServerNode(id).servers = {id}
<1>1. NamesOf({Entity(id, 0, ServicesQoS)}) = {id}
  BY DEF NamesOf, Entity
<1> QED
  BY <1>1 DEF ServerNode, AddServers, IdNode, NewNode

\* The client and server programs, run with the same numbers of nodes, fit
\* together: node names are unique, no service has two servers, and a client
\* node has a client for each service there is and for no other, so that no
\* request waits for a service in vain (factory.cpp:
\* create_periodic_client_nodes, create_server_nodes).
THEOREM ClientServerProgramsFit ==
  ASSUME NEW n_clients \in Nat, NEW n_services \in Nat, NEW frequency
  PROVE  LET clients == ClientNodes(n_clients, n_services, frequency)
             servers == ServerNodes(n_clients, n_services)
         IN /\ NamesDistinct(clients \union servers)
            /\ \A c \in clients : c.clients = UNION {s.servers : s \in servers}
            /\ \A s, t \in servers : s.servers \intersect t.servers # {} => s = t
<1> DEFINE clients == ClientNodes(n_clients, n_services, frequency)
           servers == ServerNodes(n_clients, n_services)
           ids == 0 .. n_clients - 1
           services == n_clients .. n_clients + n_services - 1
           f == [id \in ids |-> PeriodicClientNode(id, services, frequency)]
           g == [id \in services |-> ServerNode(id)]
<1>1. clients = {f[id] : id \in ids}
  BY DEF ClientNodes, CreatePeriodicClientNodes
<1>2. servers = {g[id] : id \in services}
  BY DEF ServerNodes, CreateServerNodes
<1>3. ids \intersect services = {}
  OBVIOUS
<1>4. \A id \in ids : /\ f[id].name = <<"node", id>>
                      /\ f[id].clients = services
  BY ClientNodeFields
<1>5. \A id \in services : /\ g[id].name = <<"node", id>>
                           /\ g[id].servers = {id}
  BY ServerNodeFields
<1> HIDE DEF clients, servers, ids, services, f, g
<1>6. NamesDistinct(clients \union servers)
  <2>1. \A id \in ids : f[id].name = <<"node", id>>
    BY <1>4
  <2>2. \A id \in services : g[id].name = <<"node", id>>
    BY <1>5
  <2>3. NamesDistinct({f[i] : i \in ids} \union {g[j] : j \in services})
    BY <1>3, <2>1, <2>2, NumberedNamesDistinct DEF NamesDistinct
  <2> QED
    BY <1>1, <1>2, <2>3
<1>7. UNION {s.servers : s \in servers} = services
  <2>1. \A s \in servers : \E id \in services : s.servers = {id}
    BY <1>2, <1>5
  <2>2. \A id \in services : \E s \in servers : s.servers = {id}
    BY <1>2, <1>5
  <2> QED
    BY <2>1, <2>2
<1>8. \A c \in clients : c.clients = UNION {s.servers : s \in servers}
  BY <1>1, <1>4, <1>7
<1>9. \A s, t \in servers : s.servers \intersect t.servers # {} => s = t
  BY <1>2, <1>5
<1> QED
  BY <1>6, <1>8, <1>9 DEF clients, servers

\* So the loss accounting of the subscriber program is exact, whatever its
\* numbers of nodes, when the publisher program is run with the same ones and
\* nobody else publishes (subscriber_nodes_main.cpp,
\* publisher_nodes_main.cpp).
THEOREM ExampleLossExact ==
  ASSUME NEW n_subscribers \in Nat, NEW n_publishers \in Nat, NEW frequency,
         Publishers =
           PublisherEntities(
             SubscriberNodes(n_subscribers, n_publishers) \union
               PublisherNodes(n_subscribers, n_publishers, frequency)),
         PublisherTopic = [p \in Publishers |-> p[2]]
  PROVE  Spec => []LossIsExact
<1>1. TopicsHaveOnePublisher(
        SubscriberNodes(n_subscribers, n_publishers) \union
          PublisherNodes(n_subscribers, n_publishers, frequency))
  BY PubSubProgramsFit
<1>2. OnePublisherPerTopic
  BY <1>1 DEF OnePublisherPerTopic, TopicsHaveOnePublisher
<1> QED
  BY <1>2, LossExact
=============================================================================
