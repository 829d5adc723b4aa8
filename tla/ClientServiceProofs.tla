------------------------- MODULE ClientServiceProofs -------------------------
(***************************************************************************)
(* Theorems about ClientService, for any nodes, clients, services and      *)
(* threads.  What two calls of a node do to each other when its callbacks  *)
(* overlap is left to the run that shows it: the theorems on numbering and *)
(* on losses are about nodes whose callbacks run one at a time.            *)
(***************************************************************************)
EXTENDS ClientService, TrackerProofs

-----------------------------------------------------------------------------
(* Type correctness. *)

Numbers == 0 .. TrackingMod - 1

\* Scanning a number keeps a tracker a tracker.
LEMMA ScannedType ==
  ASSUME NEW t \in Trackers, NEW c \in Clients, NEW n \in Numbers, NEW period
  PROVE  Scanned(t, c, n, period) \in Trackers
<1> DEFINE header == CreateMsgHeader(c, n)
<1>1. header.tracking_number \in 0 .. TrackingMod - 1
  BY DEF CreateMsgHeader, Numbers
<1>2. NanosPerMicro \in Int /\ -LatencyMod < NanosPerMicro
  BY TrackerAssumption
<1> HIDE DEF header
<1>3. Scan(t, header, NanosPerMicro, period) \in Trackers
  BY <1>1, <1>2, ScanType DEF Received
<1> QED
  BY <1>3 DEF Scanned, header

\* Initially nothing is on its way and nothing has been counted.
LEMMA TypeInit == Init => TypeOK
<1> SUFFICES ASSUME Init PROVE TypeOK
  OBVIOUS
<1>1. NewTracker(TRUE) \in Trackers
  BY NewTrackerType
<1>2. client \in [Threads -> Clients]
  <2>1. \A t \in Threads : (CHOOSE c \in Clients : TRUE) \in Clients
    BY ClientServiceAssumption
  <2> QED
    BY <2>1 DEF Init
<1>3. 0 \in 0 .. TrackingMod - 1
  BY TrackerAssumption
<1>4. /\ requests \in [Clients -> Seq(0 .. TrackingMod - 1)]
      /\ responses \in [Clients -> Seq(0 .. TrackingMod - 1)]
      /\ sent \in [Clients -> Seq(0 .. TrackingMod - 1)]
  BY DEF Init
<1>5. /\ pc \in [Threads -> {"idle"}]
      /\ number \in [Threads -> 0 .. TrackingMod - 1]
      /\ lock \in [Nodes -> BOOLEAN]
      /\ counter \in [Clients -> 0 .. TrackingMod - 1]
      /\ clients \in [Clients -> Trackers]
      /\ servers \in [Services -> Trackers]
      /\ online \subseteq Services
      /\ served \in [Clients -> SUBSET (0 .. TrackingMod - 1)]
      /\ answered \in [Clients -> SUBSET (0 .. TrackingMod - 1)]
      /\ lostOnWay \in [Clients -> SUBSET (0 .. TrackingMod - 1)]
  BY <1>1, <1>3 DEF Init
<1> QED
  BY <1>2, <1>4, <1>5 DEF TypeOK

\* A step of send_request keeps the types.
LEMMA SendRequestType ==
  ASSUME TypeOK, NEW t \in Threads, SendRequestStep(t)
  PROVE  TypeOK'
<1>1. CASE SetLock(t)
  BY <1>1 DEF TypeOK, SetLock, Goto, trackerVars, wireVars, historyVars
<1>2. CASE WaitForService(t)
  BY <1>2 DEF TypeOK, WaitForService, Goto, trackerVars, wireVars, historyVars
<1>3. CASE CreateRequest(t)
  BY <1>3 DEF TypeOK, CreateRequest, Goto, trackerVars, wireVars, historyVars
<1>4. CASE SendRequest(t)
  <2>1. /\ number[t] \in Numbers
        /\ requests[client[t]] \in Seq(Numbers)
        /\ sent[client[t]] \in Seq(Numbers)
    BY DEF TypeOK, Numbers
  <2>2. /\ Append(requests[client[t]], number[t]) \in Seq(Numbers)
        /\ Append(sent[client[t]], number[t]) \in Seq(Numbers)
    BY <2>1, AppendType
  <2>3. /\ requests' \in [Clients -> Seq(Numbers)]
        /\ sent' \in [Clients -> Seq(Numbers)]
    BY <1>4, <2>2 DEF TypeOK, SendRequest, Numbers
  <2>4. pc' = [pc EXCEPT ![t] = "increment"]
    BY <1>4 DEF SendRequest, Goto
  <2> QED
    BY <1>4, <2>3, <2>4 DEF TypeOK, SendRequest, trackerVars, Numbers
<1>5. CASE Increment(t)
  <2>1. \A n \in 0 .. TrackingMod - 1 : NextNumber(n) \in 0 .. TrackingMod - 1
    BY TrackerAssumption DEF NextNumber
  <2> QED
    BY <1>5, <2>1 DEF TypeOK, Increment, Goto, trackerVars, wireVars,
                      historyVars
<1>6. CASE Unlock(t)
  BY <1>6 DEF TypeOK, Unlock, Goto, trackerVars, wireVars, historyVars
<1> QED
  BY <1>1, <1>2, <1>3, <1>4, <1>5, <1>6 DEF SendRequestStep

\* Every step keeps the types.
LEMMA TypeStep == TypeOK /\ [Next]_vars => TypeOK'
<1> SUFFICES ASSUME TypeOK, [Next]_vars PROVE TypeOK'
  OBVIOUS
<1> USE DEF Numbers
<1>1. ASSUME NEW t \in Threads, NEW c \in Clients, TestLock(t, c)
      PROVE  TypeOK'
  BY <1>1 DEF TypeOK, TestLock, Goto, trackerVars, wireVars, historyVars
<1>2. ASSUME NEW t \in Threads, NEW c \in Clients,
             HandleClientReceivedResponse(t, c)
      PROVE  TypeOK'
  <2>1. /\ Head(responses[c]) \in Numbers
        /\ Tail(responses[c]) \in Seq(Numbers)
    BY <1>2, QueueType DEF TypeOK, HandleClientReceivedResponse
  <2>2. clients' \in [Clients -> Trackers]
    BY <1>2, <2>1, ScannedType DEF TypeOK, HandleClientReceivedResponse
  <2> QED
    BY SMTT(30), <1>2, <2>1, <2>2
    DEF TypeOK, HandleClientReceivedResponse, threadVars
<1>3. ASSUME NEW c \in Clients, HandleServerReceivedRequest(c)
      PROVE  TypeOK'
  <2>1. /\ Head(requests[c]) \in Numbers
        /\ Tail(requests[c]) \in Seq(Numbers)
    BY <1>3, QueueType DEF TypeOK, HandleServerReceivedRequest
  <2>2. servers' \in [Services -> Trackers]
    <3> DEFINE v == ClientService[c]
    <3>1. v \in Services /\ servers[v] \in Trackers
      BY ClientServiceAssumption DEF TypeOK
    <3>2. PICK period :
            servers' = [servers EXCEPT
                          ![v] = Scanned(servers[v], c, Head(requests[c]),
                                         period)]
      BY <1>3 DEF HandleServerReceivedRequest
    <3>3. Scanned(servers[v], c, Head(requests[c]), period) \in Trackers
      BY <2>1, <3>1, ScannedType
    <3> QED
      BY <3>2, <3>3 DEF TypeOK
  <2> QED
    BY <1>3, <2>1, <2>2 DEF TypeOK, HandleServerReceivedRequest, threadVars
<1>4. ASSUME NEW c \in Clients, LoseRequest(c)
      PROVE  TypeOK'
  <2>1. /\ Head(requests[c]) \in Numbers
        /\ Tail(requests[c]) \in Seq(Numbers)
    BY <1>4, QueueType DEF TypeOK, LoseRequest
  <2> QED
    BY <1>4, <2>1 DEF TypeOK, LoseRequest, threadVars, trackerVars
<1>5. ASSUME NEW c \in Clients, LoseResponse(c)
      PROVE  TypeOK'
  <2>1. Tail(responses[c]) \in Seq(Numbers)
    BY <1>5, QueueType DEF TypeOK, LoseResponse
  <2> QED
    BY <1>5, <2>1
    DEF TypeOK, LoseResponse, threadVars, trackerVars, historyVars
<1>6. ASSUME NEW v \in Services, Discover(v)
      PROVE  TypeOK'
  BY <1>6 DEF TypeOK, Discover, threadVars, trackerVars, historyVars
<1>7. CASE UNCHANGED vars
  BY <1>7 DEF TypeOK, vars, threadVars, trackerVars, wireVars, historyVars
<1> QED
  BY <1>1, <1>2, <1>3, <1>4, <1>5, <1>6, <1>7, SendRequestType DEF Next

\* The variables keep their types in every system, however many threads run
\* the callbacks of a node (performance_node_base_impl.hpp).
THEOREM TypeCorrect == Spec => []TypeOK
  BY TypeInit, TypeStep, PTL DEF Spec

-----------------------------------------------------------------------------
(* Numbering, in nodes whose callbacks run one at a time. *)

\* The callbacks of a node run one at a time: its callback group is mutually
\* exclusive, or its executor has one thread.
OneThreadPerNode ==
  \A t, u \in Threads : ThreadNode[t] = ThreadNode[u] => t = u

\* A call is for a client of the thread's node and has a request left; from
\* create_msg_header to tracking_number++ it knows what the client's counter
\* is: the number of requests sent, not counting the call's own.
CallInv ==
  \A t \in Threads :
    /\ pc[t] # "idle" => ClientNode[client[t]] = ThreadNode[t]
    /\ pc[t] \in {"set", "wait", "create", "send"} =>
         Len(sent[client[t]]) < MaxRequests
    /\ pc[t] = "send" => number[t] = counter[client[t]]
    /\ pc[t] = "increment" => Len(sent[client[t]]) = counter[client[t]] + 1

Incrementing(c) == \E t \in Threads : pc[t] = "increment" /\ client[t] = c

\* The counter of a client is the number of requests it has sent, but for a
\* call that has sent one and not counted it yet.
CounterInv ==
  \A c \in Clients :
    /\ Len(sent[c]) <= MaxRequests
    /\ ~Incrementing(c) => counter[c] = Len(sent[c])

SendInv == TypeOK /\ CallInv /\ CounterInv /\ RequestsNumberedInOrder

\* A client has one call at a time.
LEMMA OneCallPerClient ==
  ASSUME OneThreadPerNode, CallInv, NEW t \in Threads, NEW u \in Threads,
         pc[t] # "idle", pc[u] # "idle", client[t] = client[u]
  PROVE  t = u
  BY DEF OneThreadPerNode, CallInv

\* Initially nothing has been sent and no call is under way.
LEMMA SendInit == Init => SendInv
<1> SUFFICES ASSUME Init PROVE SendInv
  OBVIOUS
<1>1. CallInv
  BY DEF Init, CallInv
<1>2. CounterInv
  BY ClientServiceAssumption DEF Init, CounterInv
<1>3. RequestsNumberedInOrder
  BY DEF Init, RequestsNumberedInOrder
<1> QED
  BY <1>1, <1>2, <1>3, TypeInit DEF SendInv

\* The steps of a call that neither send nor count.
LEMMA QuietStep ==
  ASSUME SendInv, NEW t \in Threads,
         SetLock(t) \/ WaitForService(t) \/ CreateRequest(t) \/ Unlock(t)
  PROVE  CallInv' /\ CounterInv' /\ RequestsNumberedInOrder'
<1>1. UNCHANGED <<client, counter, sent>>
  BY DEF SetLock, WaitForService, CreateRequest, Unlock, trackerVars,
         wireVars, historyVars
<1>2. \A u \in Threads \ {t} : pc'[u] = pc[u] /\ number'[u] = number[u]
  BY DEF SendInv, TypeOK, SetLock, WaitForService, CreateRequest, Unlock, Goto
<1>3. \/ pc[t] = "set" /\ pc'[t] = "wait"
      \/ pc[t] = "wait" /\ pc'[t] \in {"create", "unlock"}
      \/ /\ pc[t] = "create" /\ pc'[t] = "send"
         /\ number'[t] = counter[client[t]]
      \/ pc[t] = "unlock" /\ pc'[t] = "idle"
  BY DEF SendInv, TypeOK, SetLock, WaitForService, CreateRequest, Unlock, Goto
<1>4. CallInv'
  BY <1>1, <1>2, <1>3 DEF SendInv, CallInv
<1>5. \A c \in Clients : Incrementing(c)' => Incrementing(c)
  BY <1>1, <1>2, <1>3 DEF Incrementing
<1>6. \A c \in Clients : Incrementing(c) => Incrementing(c)'
  BY <1>1, <1>2, <1>3 DEF Incrementing
<1>7. CounterInv'
  BY <1>1, <1>6 DEF SendInv, CounterInv
<1> QED
  BY <1>1, <1>4, <1>7 DEF SendInv, RequestsNumberedInOrder

\* async_send_request: the number read before is the number of the requests
\* sent so far.
LEMMA SendingStep ==
  ASSUME OneThreadPerNode, SendInv, NEW t \in Threads, SendRequest(t)
  PROVE  CallInv' /\ CounterInv' /\ RequestsNumberedInOrder'
<1> DEFINE c == client[t]
<1>1. /\ c \in Clients /\ pc[t] = "send" /\ pc'[t] = "increment"
      /\ sent[c] \in Seq(Numbers) /\ counter[c] \in Nat
  BY TrackerAssumption DEF SendInv, TypeOK, SendRequest, Goto, Numbers
<1>2. /\ \A u \in Threads \ {t} : pc'[u] = pc[u]
      /\ UNCHANGED <<client, number, counter>>
      /\ sent' = [sent EXCEPT ![c] = Append(sent[c], number[t])]
  BY DEF SendInv, TypeOK, SendRequest, Goto
<1>3. \A u \in Threads \ {t} : pc[u] # "idle" => client[u] # c
  BY <1>1, OneCallPerClient DEF SendInv
<1>4. /\ number[t] = counter[c] /\ counter[c] = Len(sent[c])
      /\ Len(sent[c]) < MaxRequests
  <2>1. ~Incrementing(c)
    BY <1>1, <1>3 DEF Incrementing
  <2> QED
    BY <1>1, <2>1 DEF SendInv, CallInv, CounterInv
<1>5. /\ sent'[c] = Append(sent[c], Len(sent[c]))
      /\ \A d \in Clients \ {c} : sent'[d] = sent[d]
  BY <1>1, <1>2, <1>4 DEF SendInv, TypeOK
<1>6. /\ Len(sent'[c]) = Len(sent[c]) + 1
      /\ sent'[c][Len(sent[c]) + 1] = Len(sent[c])
      /\ \A i \in DOMAIN sent[c] : sent'[c][i] = sent[c][i]
      /\ DOMAIN sent'[c] = DOMAIN sent[c] \union {Len(sent[c]) + 1}
      /\ Len(sent[c]) \in Nat
  BY SMTT(30), <1>1, <1>5
<1> HIDE DEF c
<1>7. CallInv'
  <2> SUFFICES ASSUME NEW u \in Threads
               PROVE  /\ pc'[u] # "idle" => ClientNode[client[u]] = ThreadNode[u]
                      /\ pc'[u] \in {"set", "wait", "create", "send"} =>
                           Len(sent'[client[u]]) < MaxRequests
                      /\ pc'[u] = "send" => number[u] = counter[client[u]]
                      /\ pc'[u] = "increment" =>
                           Len(sent'[client[u]]) = counter[client[u]] + 1
    BY <1>2 DEF CallInv
  <2>1. CASE u = t
    BY <1>1, <1>4, <1>6, <2>1 DEF c, SendInv, CallInv
  <2>2. CASE u # t
    <3>1. pc'[u] = pc[u] /\ client[u] \in Clients
      BY <1>2, <2>2 DEF SendInv, TypeOK
    <3>2. pc[u] # "idle" => sent'[client[u]] = sent[client[u]]
      BY <1>3, <1>5, <2>2, <3>1
    <3> QED
      BY <3>1, <3>2 DEF SendInv, CallInv
  <2> QED
    BY <2>1, <2>2
<1>8. CounterInv'
  <2> SUFFICES ASSUME NEW d \in Clients
               PROVE  /\ Len(sent'[d]) <= MaxRequests
                      /\ ~Incrementing(d)' => counter[d] = Len(sent'[d])
    BY <1>2 DEF CounterInv
  <2>1. CASE d = c
    <3>1. Incrementing(d)'
      BY <1>1, <1>2, <2>1 DEF Incrementing, c
    <3>2. Len(sent'[c]) <= MaxRequests
      BY <1>4, <1>6, ClientServiceAssumption
    <3> QED
      BY <2>1, <3>1, <3>2
  <2>2. CASE d # c
    <3>1. Incrementing(d) => Incrementing(d)'
      BY <1>1, <1>2 DEF Incrementing
    <3> QED
      BY <1>5, <2>2, <3>1 DEF SendInv, CounterInv
  <2> QED
    BY <2>1, <2>2
<1>9. RequestsNumberedInOrder'
  <2> SUFFICES ASSUME NEW d \in Clients, NEW i \in DOMAIN sent'[d]
               PROVE  sent'[d][i] = i - 1
    BY DEF RequestsNumberedInOrder
  <2>1. CASE d = c
    BY <1>6, <2>1 DEF SendInv, RequestsNumberedInOrder
  <2>2. CASE d # c
    BY <1>5, <2>2 DEF SendInv, RequestsNumberedInOrder
  <2> QED
    BY <2>1, <2>2
<1> QED
  BY <1>7, <1>8, <1>9

\* tracking_number++ catches up with the request sent.
LEMMA IncrementStep ==
  ASSUME OneThreadPerNode, SendInv, NEW t \in Threads, Increment(t)
  PROVE  CallInv' /\ CounterInv' /\ RequestsNumberedInOrder'
<1> DEFINE c == client[t]
<1>1. /\ c \in Clients /\ pc[t] = "increment" /\ pc'[t] = "unlock"
      /\ counter[c] \in 0 .. TrackingMod - 1
  BY DEF SendInv, TypeOK, Increment, Goto
<1>2. /\ \A u \in Threads \ {t} : pc'[u] = pc[u]
      /\ UNCHANGED <<client, number, sent>>
      /\ counter' = [counter EXCEPT ![c] = NextNumber(counter[c])]
  BY DEF SendInv, TypeOK, Increment, Goto, historyVars
<1>3. \A u \in Threads \ {t} : pc[u] # "idle" => client[u] # c
  BY <1>1, OneCallPerClient DEF SendInv
<1>4. Len(sent[c]) = counter[c] + 1 /\ Len(sent[c]) <= MaxRequests
  BY <1>1 DEF SendInv, CallInv, CounterInv
<1>5. NextNumber(counter[c]) = Len(sent[c])
  BY <1>1, <1>4, ClientServiceAssumption, TrackerAssumption DEF NextNumber
<1>6. /\ counter'[c] = Len(sent[c])
      /\ \A d \in Clients \ {c} : counter'[d] = counter[d]
  BY <1>1, <1>2, <1>5 DEF SendInv, TypeOK
<1> HIDE DEF c
<1>7. CallInv'
  <2> SUFFICES ASSUME NEW u \in Threads
               PROVE  /\ pc'[u] # "idle" => ClientNode[client[u]] = ThreadNode[u]
                      /\ pc'[u] \in {"set", "wait", "create", "send"} =>
                           Len(sent[client[u]]) < MaxRequests
                      /\ pc'[u] = "send" => number[u] = counter'[client[u]]
                      /\ pc'[u] = "increment" =>
                           Len(sent[client[u]]) = counter'[client[u]] + 1
    BY <1>2 DEF CallInv
  <2>1. CASE u = t
    BY <1>1, <2>1 DEF SendInv, CallInv
  <2>2. CASE u # t
    <3>1. pc'[u] = pc[u] /\ client[u] \in Clients
      BY <1>2, <2>2 DEF SendInv, TypeOK
    <3>2. pc[u] # "idle" => counter'[client[u]] = counter[client[u]]
      BY <1>3, <1>6, <2>2, <3>1
    <3> QED
      BY <3>1, <3>2 DEF SendInv, CallInv
  <2> QED
    BY <2>1, <2>2
<1>8. CounterInv'
  <2> SUFFICES ASSUME NEW d \in Clients
               PROVE  /\ Len(sent[d]) <= MaxRequests
                      /\ ~Incrementing(d)' => counter'[d] = Len(sent[d])
    BY <1>2 DEF CounterInv
  <2>1. CASE d = c
    BY <1>4, <1>6, <2>1
  <2>2. CASE d # c
    <3>1. Incrementing(d) => Incrementing(d)'
      BY <1>1, <1>2, <2>2 DEF Incrementing, c
    <3> QED
      BY <1>6, <2>2, <3>1 DEF SendInv, CounterInv
  <2> QED
    BY <2>1, <2>2
<1> QED
  BY <1>2, <1>7, <1>8 DEF SendInv, RequestsNumberedInOrder

\* A new call finds the client's node without one.
LEMMA TestLockStep ==
  ASSUME SendInv, NEW t \in Threads, NEW c \in Clients, TestLock(t, c)
  PROVE  CallInv' /\ CounterInv' /\ RequestsNumberedInOrder'
<1>1. /\ pc[t] = "idle" /\ pc'[t] = "set" /\ client'[t] = c
      /\ ClientNode[c] = ThreadNode[t] /\ Len(sent[c]) < MaxRequests
      /\ \A u \in Threads \ {t} : pc'[u] = pc[u] /\ client'[u] = client[u]
      /\ UNCHANGED <<number, counter, sent>>
  BY DEF SendInv, TypeOK, TestLock, Goto, historyVars
<1>2. CallInv'
  BY <1>1 DEF SendInv, CallInv
<1>3. \A d \in Clients : Incrementing(d) => Incrementing(d)'
  BY <1>1 DEF Incrementing
<1>4. CounterInv'
  BY <1>1, <1>3 DEF SendInv, CounterInv
<1> QED
  BY <1>1, <1>2, <1>4 DEF SendInv, RequestsNumberedInOrder

\* The strengthened invariant is inductive.
LEMMA SendStep == OneThreadPerNode /\ SendInv /\ [Next]_vars => SendInv'
<1> SUFFICES ASSUME OneThreadPerNode, SendInv, [Next]_vars
             PROVE  CallInv' /\ CounterInv' /\ RequestsNumberedInOrder'
  BY TypeStep DEF SendInv
<1>1. ASSUME NEW t \in Threads, SendRequestStep(t)
      PROVE  CallInv' /\ CounterInv' /\ RequestsNumberedInOrder'
  BY <1>1, QuietStep, SendingStep, IncrementStep DEF SendRequestStep
<1>2. ASSUME NEW t \in Threads, NEW c \in Clients, TestLock(t, c)
      PROVE  CallInv' /\ CounterInv' /\ RequestsNumberedInOrder'
  BY <1>2, TestLockStep
<1>3. CASE UNCHANGED <<pc, client, number, counter, sent>>
  BY <1>3 DEF SendInv, CallInv, CounterInv, Incrementing,
              RequestsNumberedInOrder
<1>4. \/ \E t \in Threads : SendRequestStep(t)
      \/ \E t \in Threads, c \in Clients : TestLock(t, c)
      \/ UNCHANGED <<pc, client, number, counter, sent>>
  BY DEF Next, vars, threadVars, historyVars, HandleClientReceivedResponse,
         HandleServerReceivedRequest, LoseRequest, LoseResponse, Discover
<1> QED
  BY <1>1, <1>2, <1>3, <1>4

\* In a node whose callbacks run one at a time, the numbers of a client's
\* requests leave none out and use none twice, for any number of clients that
\* share the node's lock (performance_node_base_impl.hpp: send_request).
THEOREM RequestsInOrder ==
  ASSUME OneThreadPerNode
  PROVE  Spec => []RequestsNumberedInOrder
<1>1. SendInv /\ [Next]_vars => SendInv'
  BY SendStep
<1>2. SendInv => RequestsNumberedInOrder
  BY DEF SendInv
<1> QED
  BY <1>1, <1>2, SendInit, PTL DEF Spec

-----------------------------------------------------------------------------
(* The lock of a node. *)

\* A lock that is taken has a call that will give it back.
LockHasHolder == \A n \in Nodes : lock[n] => PastLock(n) # {}

\* A call that has taken the lock of its node holds it to the end.
LockHeldInCalls == \A n \in Nodes : PastLock(n) # {} => lock[n]

\* What the steps do to the lock, and which threads are past it afterwards.
LEMMA LockMoves ==
  ASSUME TypeOK, [Next]_vars
  PROVE  \/ /\ UNCHANGED lock
            /\ \A n \in Nodes : PastLock(n)' = PastLock(n)
         \/ \E t \in Threads :
              /\ SetLock(t)
              /\ lock' = [lock EXCEPT ![ThreadNode[t]] = TRUE]
              /\ \A n \in Nodes :
                   PastLock(n)' = IF n = ThreadNode[t] THEN PastLock(n) \union {t}
                                                       ELSE PastLock(n)
         \/ \E t \in Threads :
              /\ Unlock(t) /\ pc[t] = "unlock"
              /\ lock' = [lock EXCEPT ![ThreadNode[t]] = FALSE]
              /\ \A n \in Nodes : PastLock(n)' = PastLock(n) \ {t}
<1>1. ASSUME NEW t \in Threads, SetLock(t)
      PROVE  /\ lock' = [lock EXCEPT ![ThreadNode[t]] = TRUE]
             /\ \A n \in Nodes :
                  PastLock(n)' = IF n = ThreadNode[t] THEN PastLock(n) \union {t}
                                                      ELSE PastLock(n)
  <2>1. pc[t] = "set" /\ pc'[t] = "wait" /\ \A u \in Threads \ {t} : pc'[u] = pc[u]
    BY <1>1 DEF SetLock, Goto, TypeOK
  <2>2. lock' = [lock EXCEPT ![ThreadNode[t]] = TRUE]
    BY <1>1 DEF SetLock
  <2> QED
    BY <2>1, <2>2 DEF PastLock
<1>2. ASSUME NEW t \in Threads, Unlock(t)
      PROVE  /\ pc[t] = "unlock"
             /\ lock' = [lock EXCEPT ![ThreadNode[t]] = FALSE]
             /\ \A n \in Nodes : PastLock(n)' = PastLock(n) \ {t}
  <2>1. pc[t] = "unlock" /\ pc'[t] = "idle" /\ \A u \in Threads \ {t} : pc'[u] = pc[u]
    BY <1>2 DEF Unlock, Goto, TypeOK
  <2>2. lock' = [lock EXCEPT ![ThreadNode[t]] = FALSE]
    BY <1>2 DEF Unlock
  <2> QED
    BY <2>1, <2>2 DEF PastLock
<1>3. ASSUME NEW t \in Threads,
             \/ WaitForService(t) \/ CreateRequest(t) \/ SendRequest(t) \/ Increment(t)
             \/ \E c \in Clients : TestLock(t, c)
      PROVE  UNCHANGED lock /\ \A n \in Nodes : PastLock(n)' = PastLock(n)
  <2>1. \/ pc[t] = "idle" /\ pc'[t] = "set"
        \/ pc[t] \notin {"idle", "set"} /\ pc'[t] \notin {"idle", "set"}
    BY <1>3 DEF WaitForService, CreateRequest, SendRequest, Increment, TestLock,
                Goto, TypeOK
  <2>2. \A u \in Threads \ {t} : pc'[u] = pc[u]
    BY <1>3 DEF WaitForService, CreateRequest, SendRequest, Increment, TestLock,
                Goto, TypeOK
  <2>3. UNCHANGED lock
    BY <1>3 DEF WaitForService, CreateRequest, SendRequest, Increment, TestLock
  <2> QED
    BY <2>1, <2>2, <2>3 DEF PastLock
<1>4. ASSUME UNCHANGED <<pc, lock>>
      PROVE  UNCHANGED lock /\ \A n \in Nodes : PastLock(n)' = PastLock(n)
  BY <1>4 DEF PastLock
<1>5. \/ \E t \in Threads :
           \/ SetLock(t) \/ Unlock(t)
           \/ WaitForService(t) \/ CreateRequest(t) \/ SendRequest(t) \/ Increment(t)
           \/ \E c \in Clients : TestLock(t, c)
      \/ UNCHANGED <<pc, lock>>
  BY DEF Next, vars, threadVars, SendRequestStep, HandleClientReceivedResponse,
         HandleServerReceivedRequest, LoseRequest, LoseResponse, Discover
<1> QED
  BY <1>1, <1>2, <1>3, <1>4, <1>5

\* However many threads run the callbacks of a node, and although two calls may
\* both find its lock free, a lock that is taken is never left behind: there is a
\* call under way that gives it back (performance_node_base_impl.hpp:
\* send_request).
THEOREM LocksHaveHolders == Spec => []LockHasHolder
<1>1. Init => LockHasHolder
  BY DEF Init, LockHasHolder
<1>2. TypeOK /\ LockHasHolder /\ [Next]_vars => LockHasHolder'
  <2> SUFFICES ASSUME TypeOK, LockHasHolder, [Next]_vars, NEW n \in Nodes, lock'[n]
               PROVE  PastLock(n)' # {}
    BY DEF LockHasHolder
  <2>1. CASE UNCHANGED lock /\ \A m \in Nodes : PastLock(m)' = PastLock(m)
    BY <2>1 DEF LockHasHolder
  <2>2. ASSUME NEW t \in Threads,
               lock' = [lock EXCEPT ![ThreadNode[t]] = TRUE],
               \A m \in Nodes :
                 PastLock(m)' = IF m = ThreadNode[t] THEN PastLock(m) \union {t}
                                                     ELSE PastLock(m)
        PROVE  PastLock(n)' # {}
    BY <2>2 DEF LockHasHolder, TypeOK
  <2>3. ASSUME NEW t \in Threads,
               lock' = [lock EXCEPT ![ThreadNode[t]] = FALSE],
               \A m \in Nodes : PastLock(m)' = PastLock(m) \ {t}
        PROVE  PastLock(n)' # {}
    <3>1. n # ThreadNode[t] /\ lock[n]
      BY <2>3, ClientServiceAssumption DEF TypeOK
    <3>2. t \notin PastLock(n)
      BY <3>1 DEF PastLock
    <3> QED
      BY <2>3, <3>1, <3>2 DEF LockHasHolder
  <2> QED
    BY <2>1, <2>2, <2>3, LockMoves
<1> QED
  BY <1>1, <1>2, TypeCorrect, PTL DEF Spec

\* In nodes whose callbacks run one at a time the lock does what its comment
\* says, for any number of clients that share it: it is taken for the whole of a
\* call and free between calls, and no other call passes meanwhile
\* (performance_node_base.hpp: m_client_lock).
THEOREM LockIsCall ==
  ASSUME OneThreadPerNode
  PROVE  Spec => [](LockHasHolder /\ LockHeldInCalls /\ OneCallPastLock)
<1>1. Init => LockHeldInCalls
  BY DEF Init, LockHeldInCalls, PastLock
<1>2. TypeOK /\ LockHeldInCalls /\ [Next]_vars => LockHeldInCalls'
  <2> SUFFICES ASSUME TypeOK, LockHeldInCalls, [Next]_vars, NEW n \in Nodes,
                      PastLock(n)' # {}
               PROVE  lock'[n]
    BY DEF LockHeldInCalls
  <2>1. CASE UNCHANGED lock /\ \A m \in Nodes : PastLock(m)' = PastLock(m)
    BY <2>1 DEF LockHeldInCalls
  <2>2. ASSUME NEW t \in Threads,
               lock' = [lock EXCEPT ![ThreadNode[t]] = TRUE],
               \A m \in Nodes :
                 PastLock(m)' = IF m = ThreadNode[t] THEN PastLock(m) \union {t}
                                                     ELSE PastLock(m)
        PROVE  lock'[n]
    BY <2>2, ClientServiceAssumption DEF LockHeldInCalls, TypeOK
  <2>3. ASSUME NEW t \in Threads, pc[t] = "unlock",
               lock' = [lock EXCEPT ![ThreadNode[t]] = FALSE],
               \A m \in Nodes : PastLock(m)' = PastLock(m) \ {t}
        PROVE  lock'[n]
    <3>1. PICK u \in Threads : u # t /\ u \in PastLock(n)
      BY <2>3 DEF PastLock
    <3>2. n # ThreadNode[t]
      BY <3>1 DEF PastLock, OneThreadPerNode
    <3> QED
      BY <2>3, <3>1, <3>2 DEF LockHeldInCalls, TypeOK
  <2> QED
    BY <2>1, <2>2, <2>3, LockMoves
<1>3. OneCallPastLock
  <2> SUFFICES ASSUME NEW n \in Nodes PROVE Cardinality(PastLock(n)) <= 1
    BY DEF OneCallPastLock
  <2>1. CASE PastLock(n) = {}
    BY <2>1, FS_EmptySet
  <2>2. CASE PastLock(n) # {}
    <3>1. PICK t : PastLock(n) = {t}
      BY <2>2 DEF PastLock, OneThreadPerNode
    <3>2. Cardinality({t}) = 1
      BY FS_Singleton
    <3> QED
      BY <3>1, <3>2
  <2> QED
    BY <2>1, <2>2
<1> QED
  BY <1>1, <1>2, <1>3, TypeCorrect, LocksHaveHolders, PTL DEF Spec

-----------------------------------------------------------------------------
(* What a client counts, in nodes whose callbacks run one at a time. *)

\* How many requests of c have been served or lost.
Reached(c) == Len(sent[c]) - Len(requests[c])

\* The requests on their way are the latest, and those before them have been
\* served or lost.
RequestsOK(c) ==
  /\ Reached(c) \in Nat
  /\ \A i \in DOMAIN requests[c] : requests[c][i] = Reached(c) + i - 1
  /\ served[c] \union lostOnWay[c] = 0 .. Reached(c) - 1

\* The responses on their way are to requests that were served, in order, and
\* none is lower than the client expects.
ResponsesOK(c) ==
  /\ \A i \in DOMAIN responses[c] :
       /\ responses[c][i] \in served[c]
       /\ clients[c].tracking_number_count <= responses[c][i]
  /\ \A i, j \in DOMAIN responses[c] :
       i < j => responses[c][i] < responses[c][j]

\* What a client has counted is the truth about the numbers it has settled.
CountsOK(c) ==
  LET settled == 0 .. clients[c].tracking_number_count - 1
  IN /\ clients[c].is_enabled
     /\ clients[c].tracking_number_count <= Reached(c)
     /\ answered[c] \subseteq served[c] \intersect settled
     /\ clients[c].received = Cardinality(answered[c])
     /\ clients[c].lost = Cardinality(settled \ answered[c])

WireOK(c) == RequestsOK(c) /\ ResponsesOK(c) /\ CountsOK(c)

WireInv == SendInv /\ \A c \in Clients : WireOK(c)

\* A step that leaves the queues, the tracker and the histories of a client
\* alone leaves its accounts right.
Untouched(c) ==
  UNCHANGED <<requests[c], responses[c], sent[c], served[c], answered[c],
              lostOnWay[c], clients[c]>>

LEMMA UntouchedWire ==
  ASSUME NEW c, WireOK(c), Untouched(c)
  PROVE  WireOK(c)'
  BY DEF WireOK, Untouched, RequestsOK, ResponsesOK, CountsOK, Reached

\* Initially nothing is on its way and nothing is settled.
LEMMA WireInit == Init => WireInv
<1> SUFFICES ASSUME Init PROVE WireInv
  OBVIOUS
<1>1. ASSUME NEW c \in Clients
      PROVE  WireOK(c)
  <2>1. /\ requests[c] = <<>> /\ responses[c] = <<>> /\ sent[c] = <<>>
        /\ served[c] = {} /\ answered[c] = {} /\ lostOnWay[c] = {}
        /\ clients[c] = NewTracker(TRUE)
    BY DEF Init
  <2>2. RequestsOK(c) /\ ResponsesOK(c) /\ Reached(c) = 0
    BY <2>1 DEF RequestsOK, ResponsesOK, Reached
  <2>3. CountsOK(c)
    <3>1. /\ clients[c].tracking_number_count = 0
          /\ clients[c].is_enabled
          /\ clients[c].lost = 0 /\ clients[c].received = 0
      BY <2>1, NewTrackerType
    <3>2. (0 .. clients[c].tracking_number_count - 1) \ answered[c] = {}
      BY <3>1
    <3>3. Cardinality({}) = 0
      BY FS_EmptySet
    <3>4. clients[c].tracking_number_count <= Reached(c)
      BY <2>2, <3>1
    <3>5. /\ answered[c] \subseteq
               served[c] \intersect (0 .. clients[c].tracking_number_count - 1)
          /\ clients[c].received = Cardinality(answered[c])
      BY <2>1, <3>1, <3>3
    <3>6. clients[c].lost
            = Cardinality((0 .. clients[c].tracking_number_count - 1)
                            \ answered[c])
      BY <3>1, <3>2, <3>3
    <3> QED
      BY <3>1, <3>4, <3>5, <3>6 DEF CountsOK
  <2> QED
    BY <2>2, <2>3 DEF WireOK
<1> QED
  BY <1>1, SendInit DEF WireInv

\* A request sent joins those on their way.
LEMMA SendingWire ==
  ASSUME OneThreadPerNode, WireInv, NEW t \in Threads, SendRequest(t),
         NEW c \in Clients
  PROVE  WireOK(c)'
<1>1. CASE c = client[t]
  <2>1. /\ requests[c] \in Seq(Numbers) /\ sent[c] \in Seq(Numbers)
        /\ number[t] \in Numbers
    BY DEF WireInv, SendInv, TypeOK, Numbers
  <2>2. /\ requests'[c] = Append(requests[c], number[t])
        /\ sent'[c] = Append(sent[c], number[t])
        /\ UNCHANGED <<responses, served, answered, lostOnWay, clients>>
    BY <1>1 DEF WireInv, SendInv, TypeOK, SendRequest, trackerVars
  <2>3. number[t] = Len(sent[c])
    <3>1. ~Incrementing(c)
      BY <1>1, OneCallPerClient
      DEF Incrementing, WireInv, SendInv, SendRequest, Goto
    <3> QED
      BY <1>1, <3>1
      DEF WireInv, SendInv, CallInv, CounterInv, SendRequest, Goto
  <2>4. /\ Len(requests'[c]) = Len(requests[c]) + 1
        /\ Len(sent'[c]) = Len(sent[c]) + 1
        /\ Len(requests[c]) \in Nat /\ Len(sent[c]) \in Nat
        /\ DOMAIN requests'[c] = 1 .. Len(requests[c]) + 1
        /\ DOMAIN requests[c] = 1 .. Len(requests[c])
        /\ \A i \in DOMAIN requests[c] : requests'[c][i] = requests[c][i]
        /\ requests'[c][Len(requests[c]) + 1] = number[t]
    BY <2>1, <2>2, AppendType
  <2>5. Reached(c)' = Reached(c)
    BY <2>4 DEF Reached
  <2>6. RequestsOK(c)'
    <3>1. RequestsOK(c)
      BY DEF WireInv, WireOK
    <3>2. ASSUME NEW i \in DOMAIN requests'[c]
          PROVE  requests'[c][i] = Reached(c) + i - 1
      <4>1. CASE i \in DOMAIN requests[c]
        BY <2>4, <3>1, <4>1 DEF RequestsOK
      <4>2. CASE i = Len(requests[c]) + 1
        BY <2>3, <2>4, <4>2 DEF Reached
      <4> QED
        BY <2>4, <4>1, <4>2
    <3> QED
      BY <2>2, <2>5, <3>1, <3>2 DEF RequestsOK
  <2> QED
    BY <2>2, <2>5, <2>6 DEF WireInv, WireOK, ResponsesOK, CountsOK
<1>2. CASE c # client[t]
  <2>1. Untouched(c)
    BY <1>2 DEF Untouched, WireInv, SendInv, TypeOK, SendRequest, trackerVars
  <2> QED
    BY <2>1, UntouchedWire DEF WireInv
<1> QED
  BY <1>1, <1>2

\* The first request on its way is the one the settled numbers lead up to.
LEMMA FirstRequest ==
  ASSUME WireInv, NEW c \in Clients, requests[c] # <<>>,
         requests'[c] = Tail(requests[c]), sent'[c] = sent[c]
  PROVE  /\ Head(requests[c]) = Reached(c)
         /\ Reached(c)' = Reached(c) + 1
         /\ Reached(c) \in Nat /\ Reached(c) < Len(sent[c])
         /\ Len(sent[c]) <= MaxRequests
         /\ \A i \in DOMAIN requests'[c] :
              requests'[c][i] = Reached(c)' + i - 1
<1>1. /\ requests[c] \in Seq(Numbers) /\ sent[c] \in Seq(Numbers)
      /\ requests'[c] = Tail(requests[c])
  BY DEF WireInv, SendInv, TypeOK, Numbers
<1>2. /\ Head(requests[c]) = requests[c][1]
      /\ Len(requests[c]) \in Nat \ {0} /\ 1 \in DOMAIN requests[c]
      /\ Len(requests'[c]) = Len(requests[c]) - 1
      /\ \A i \in DOMAIN requests'[c] :
           /\ i \in Nat
           /\ i + 1 \in DOMAIN requests[c]
           /\ requests'[c][i] = requests[c][i + 1]
  BY <1>1, QueueType
<1>3. RequestsOK(c) /\ Len(sent[c]) <= MaxRequests
  BY DEF WireInv, WireOK, SendInv, CounterInv
<1>4. Reached(c)' = Reached(c) + 1 /\ Reached(c) < Len(sent[c])
  <2>1. Len(sent[c]) \in Nat
    BY <1>1
  <2>2. /\ Reached(c)' = Len(sent[c]) - Len(requests'[c])
        /\ Reached(c) = Len(sent[c]) - Len(requests[c])
    BY DEF Reached
  <2>3. /\ Len(requests[c]) \in Nat \ {0}
        /\ Len(requests'[c]) = Len(requests[c]) - 1
    BY <1>2
  <2>4. \A s, a \in Nat : a # 0 => s - (a - 1) = (s - a) + 1 /\ s - a < s
    OBVIOUS
  <2> QED
    BY <2>1, <2>2, <2>3, <2>4, Zenon
<1>5. Head(requests[c]) = Reached(c)
  BY <1>2, <1>3 DEF RequestsOK
<1>6. ASSUME NEW i \in DOMAIN requests'[c]
      PROVE  requests'[c][i] = Reached(c)' + i - 1
  <2>1. /\ i \in Nat /\ i + 1 \in DOMAIN requests[c]
        /\ requests'[c][i] = requests[c][i + 1]
    BY <1>2, <1>6
  <2>2. Reached(c) \in Nat /\ requests[c][i + 1] = Reached(c) + (i + 1) - 1
    BY <1>3, <2>1 DEF RequestsOK
  <2> QED
    BY ONLY <1>4, <2>1, <2>2
<1> QED
  BY <1>3, <1>4, <1>5, <1>6 DEF RequestsOK

\* A request served moves on as its response.
LEMMA ServeWire ==
  ASSUME WireInv, NEW d \in Clients, HandleServerReceivedRequest(d),
         NEW c \in Clients
  PROVE  WireOK(c)'
<1>1. CASE c = d
  <2> DEFINE n == Head(requests[c])
  <2>1. /\ requests[c] # <<>>
        /\ requests'[c] = Tail(requests[c])
        /\ responses'[c] = Append(responses[c], n)
        /\ served'[c] = served[c] \union {n}
        /\ UNCHANGED <<sent, clients, answered, lostOnWay>>
    BY <1>1 DEF WireInv, SendInv, TypeOK, HandleServerReceivedRequest
  <2>2. /\ n = Reached(c)
        /\ Reached(c)' = Reached(c) + 1
        /\ Reached(c) \in Nat
        /\ \A i \in DOMAIN requests'[c] :
             requests'[c][i] = Reached(c)' + i - 1
    BY <2>1, FirstRequest
  <2>3. RequestsOK(c) /\ ResponsesOK(c) /\ CountsOK(c)
    BY DEF WireInv, WireOK
  <2>4. RequestsOK(c)'
    BY <2>1, <2>2, <2>3 DEF RequestsOK
  <2>5. /\ responses[c] \in Seq(Numbers) /\ n \in Numbers
        /\ clients[c].tracking_number_count \in Nat
    <3>1. /\ responses[c] \in Seq(Numbers) /\ requests[c] \in Seq(Numbers)
          /\ clients[c].tracking_number_count \in Nat
      BY TrackerAssumption DEF WireInv, SendInv, TypeOK, Trackers, Numbers
    <3> QED
      BY <2>1, <3>1, QueueType
  <2> HIDE DEF n
  <2>6. /\ DOMAIN responses'[c] = 1 .. Len(responses[c]) + 1
        /\ DOMAIN responses[c] = 1 .. Len(responses[c])
        /\ Len(responses[c]) \in Nat
        /\ \A i \in DOMAIN responses[c] : responses'[c][i] = responses[c][i]
        /\ responses'[c][Len(responses[c]) + 1] = n
    BY <2>1, <2>5, AppendType
  <2>7. /\ clients[c].tracking_number_count <= n
        /\ \A k \in served[c] : k \in Int /\ k < n
    BY <2>2, <2>3 DEF CountsOK, RequestsOK
  <2>8. ResponsesOK(c)'
    <3>1. \A i \in DOMAIN responses'[c] :
            /\ responses'[c][i] \in served'[c]
            /\ clients'[c].tracking_number_count <= responses'[c][i]
      BY <2>1, <2>3, <2>6, <2>7 DEF ResponsesOK
    <3>2. ASSUME NEW i \in DOMAIN responses'[c], NEW j \in DOMAIN responses'[c],
                 i < j
          PROVE  responses'[c][i] < responses'[c][j]
      <4>1. i \in DOMAIN responses[c] /\ responses[c][i] \in served[c]
        BY <2>3, <2>6, <3>2 DEF ResponsesOK
      <4>2. CASE j \in DOMAIN responses[c]
        BY <2>3, <2>6, <3>2, <4>1, <4>2 DEF ResponsesOK
      <4>3. CASE j = Len(responses[c]) + 1
        BY <2>6, <2>7, <4>1, <4>3
      <4> QED
        BY <2>6, <4>2, <4>3
    <3> QED
      BY <3>1, <3>2 DEF ResponsesOK
  <2>9. CountsOK(c)'
    BY <2>1, <2>2, <2>3, <2>5 DEF CountsOK
  <2> QED
    BY <2>4, <2>8, <2>9 DEF WireOK
<1>2. CASE c # d
  <2>1. Untouched(c)
    BY <1>2 DEF Untouched, WireInv, SendInv, TypeOK,
                HandleServerReceivedRequest
  <2> QED
    BY <2>1, UntouchedWire DEF WireInv
<1> QED
  BY <1>1, <1>2

\* A request that is lost is settled, too.
LEMMA LoseRequestWire ==
  ASSUME WireInv, NEW d \in Clients, LoseRequest(d), NEW c \in Clients
  PROVE  WireOK(c)'
<1>1. CASE c = d
  <2>1. /\ requests[c] # <<>>
        /\ requests'[c] = Tail(requests[c])
        /\ lostOnWay'[c] = lostOnWay[c] \union {Head(requests[c])}
        /\ UNCHANGED <<sent, clients, responses, served, answered>>
    BY <1>1 DEF WireInv, SendInv, TypeOK, LoseRequest, trackerVars
  <2>2. /\ Head(requests[c]) = Reached(c)
        /\ Reached(c)' = Reached(c) + 1
        /\ Reached(c) \in Nat
        /\ \A i \in DOMAIN requests'[c] :
             requests'[c][i] = Reached(c)' + i - 1
    BY <2>1, FirstRequest
  <2>3. RequestsOK(c) /\ ResponsesOK(c) /\ CountsOK(c)
    BY DEF WireInv, WireOK
  <2>4. RequestsOK(c)'
    BY <2>1, <2>2, <2>3 DEF RequestsOK
  <2>5. ResponsesOK(c)'
    BY <2>1, <2>3 DEF ResponsesOK
  <2>6. CountsOK(c)'
    <3>1. clients[c].tracking_number_count \in Nat
      BY TrackerAssumption DEF WireInv, SendInv, TypeOK, Trackers
    <3> QED
      BY <2>1, <2>2, <2>3, <3>1 DEF CountsOK
  <2> QED
    BY <2>4, <2>5, <2>6 DEF WireOK
<1>2. CASE c # d
  <2>1. Untouched(c)
    BY <1>2 DEF Untouched, WireInv, SendInv, TypeOK, LoseRequest, trackerVars
  <2> QED
    BY <2>1, UntouchedWire DEF WireInv
<1> QED
  BY <1>1, <1>2

\* The rest of the responses on their way follow the first one.
LEMMA RestOfResponses ==
  ASSUME WireInv, NEW c \in Clients, responses[c] # <<>>
  PROVE  LET n == Head(responses[c])
         IN /\ n \in served[c]
            /\ clients[c].tracking_number_count <= n
            /\ \A i \in DOMAIN Tail(responses[c]) :
                 /\ i \in Nat
                 /\ Tail(responses[c])[i] = responses[c][i + 1]
                 /\ Tail(responses[c])[i] \in served[c]
                 /\ n < Tail(responses[c])[i]
            /\ \A i, j \in DOMAIN Tail(responses[c]) :
                 i < j => Tail(responses[c])[i] < Tail(responses[c])[j]
<1> DEFINE rest == Tail(responses[c])
<1>1. responses[c] \in Seq(Numbers)
  BY DEF WireInv, SendInv, TypeOK, Numbers
<1>2. /\ Head(responses[c]) = responses[c][1] /\ 1 \in DOMAIN responses[c]
      /\ \A i \in DOMAIN rest : /\ i \in Nat \ {0}
                                /\ i + 1 \in DOMAIN responses[c]
                                /\ rest[i] = responses[c][i + 1]
  BY <1>1, QueueType
<1> HIDE DEF rest
<1>3. ResponsesOK(c)
  BY DEF WireInv, WireOK
<1>4. \A i \in DOMAIN rest :
        rest[i] \in served[c] /\ responses[c][1] < rest[i]
  BY <1>2, <1>3 DEF ResponsesOK
<1>5. ASSUME NEW i \in DOMAIN rest, NEW j \in DOMAIN rest, i < j
      PROVE  rest[i] < rest[j]
  <2>1. i + 1 < j + 1
    BY <1>2, <1>5
  <2> QED
    BY <1>2, <1>3, <2>1 DEF ResponsesOK
<1> QED
  BY <1>2, <1>3, <1>4, <1>5 DEF ResponsesOK, rest

\* What a client counts when it receives a response: the numbers it skips.
LEMMA ReceiveCounts ==
  ASSUME WireInv, NEW t \in Threads, NEW c \in Clients,
         HandleClientReceivedResponse(t, c)
  PROVE  LET n == Head(responses[c])
         IN /\ n \in served[c] /\ n \in 0 .. MaxRequests - 1
            /\ n < Reached(c)
            /\ clients[c].tracking_number_count \in Nat
            /\ clients[c].tracking_number_count <= n
            /\ ReceivedInOrder(clients'[c], clients[c], n)
            /\ answered'[c] = answered[c] \union {n}
<1> DEFINE n == Head(responses[c])
<1>1. n \in served[c] /\ clients[c].tracking_number_count <= n
  BY RestOfResponses DEF HandleClientReceivedResponse
<1>2. /\ served[c] \subseteq 0 .. Reached(c) - 1
      /\ Reached(c) \in Nat /\ Reached(c) <= MaxRequests
  <2>1. RequestsOK(c) /\ Len(sent[c]) <= MaxRequests
    BY DEF WireInv, WireOK, SendInv, CounterInv
  <2>2. /\ Reached(c) = Len(sent[c]) - Len(requests[c])
        /\ Len(sent[c]) \in Nat /\ Len(requests[c]) \in Nat
    BY DEF Reached, WireInv, SendInv, TypeOK
  <2>3. Reached(c) <= MaxRequests
    BY ONLY <2>1, <2>2, ClientServiceAssumption
  <2>4. Reached(c) \in Nat /\ served[c] \subseteq 0 .. Reached(c) - 1
    BY <2>1, Zenon DEF RequestsOK
  <2> QED
    BY <2>3, <2>4
<1>3. n \in 0 .. MaxRequests - 1 /\ n < Reached(c)
  BY <1>1, <1>2, ClientServiceAssumption
<1>4. clients[c] \in Trackers /\ clients[c].is_enabled
  BY DEF WireInv, WireOK, CountsOK, SendInv, TypeOK
<1>5. clients[c].tracking_number_count \in Nat
  BY <1>4, TrackerAssumption DEF Trackers
<1>6. PICK period : clients'[c] = Scanned(clients[c], c, n, period)
  BY DEF HandleClientReceivedResponse, WireInv, SendInv, TypeOK
<1> HIDE DEF n
<1>7. ReceivedInOrder(Scanned(clients[c], c, n, period), clients[c], n)
  <2> DEFINE header == CreateMsgHeader(c, n)
  <2>1. header.tracking_number = n
    BY DEF CreateMsgHeader
  <2>2. n \in 0 .. TrackingMod - 2
    BY <1>3, ClientServiceAssumption, TrackerAssumption
  <2>3. NanosPerMicro \in Int /\ -LatencyMod < NanosPerMicro
    BY TrackerAssumption
  <2> HIDE DEF header
  <2>4. ReceivedInOrder(Scan(clients[c], header, NanosPerMicro, period), clients[c], n)
    BY <1>1, <1>4, <2>1, <2>2, <2>3, ScanInOrder
  <2> QED
    BY <2>4 DEF Scanned, header
<1>8. answered'[c] = answered[c] \union {n}
  BY DEF n, HandleClientReceivedResponse, WireInv, SendInv, TypeOK
<1> QED
  BY <1>1, <1>3, <1>5, <1>6, <1>7, <1>8 DEF n

\* A response received settles the numbers up to its own.
LEMMA ReceiveWire ==
  ASSUME WireInv, NEW t \in Threads, NEW d \in Clients,
         HandleClientReceivedResponse(t, d), NEW c \in Clients
  PROVE  WireOK(c)'
<1>1. CASE c = d
  <2> DEFINE n == Head(responses[c])
             e == clients[c].tracking_number_count
  <2>1. /\ responses[c] # <<>>
        /\ responses'[c] = Tail(responses[c])
        /\ UNCHANGED <<sent, requests, served, lostOnWay>>
    BY <1>1 DEF WireInv, SendInv, TypeOK, HandleClientReceivedResponse
  <2>2. /\ n \in served[c] /\ n \in Nat /\ n < Reached(c)
        /\ e \in Nat /\ e <= n
        /\ ReceivedInOrder(clients'[c], clients[c], n)
        /\ answered'[c] = answered[c] \union {n}
    BY <1>1, ReceiveCounts, ClientServiceAssumption
  <2>3. RequestsOK(c) /\ CountsOK(c)
    BY DEF WireInv, WireOK
  <2>4. Reached(c)' = Reached(c)
    BY <2>1 DEF Reached
  <2>5. RequestsOK(c)'
    BY <2>1, <2>3, <2>4 DEF RequestsOK
  <2>6. ResponsesOK(c)'
    <3>1. /\ \A i \in DOMAIN responses'[c] :
               responses'[c][i] \in served[c] /\ n < responses'[c][i]
          /\ \A i, j \in DOMAIN responses'[c] :
               i < j => responses'[c][i] < responses'[c][j]
      BY <2>1, RestOfResponses
    <3>2. clients'[c].tracking_number_count = n + 1
      BY <2>2 DEF ReceivedInOrder
    <3>3. served[c] \subseteq Int
      BY <2>3 DEF RequestsOK
    <3> HIDE DEF n
    <3>4. \A i \in DOMAIN responses'[c] : n + 1 <= responses'[c][i]
      BY <2>2, <3>1, <3>3
    <3> QED
      BY <2>1, <3>1, <3>2, <3>4 DEF ResponsesOK
  <2>7. CountsOK(c)'
    <3>1. /\ clients[c].received = Cardinality(answered[c])
          /\ clients[c].lost = Cardinality((0 .. e - 1) \ answered[c])
          /\ answered[c] \subseteq 0 .. e - 1
          /\ answered[c] \subseteq served[c]
      BY <2>3 DEF CountsOK
    <3>2. /\ clients'[c].is_enabled
          /\ clients'[c].tracking_number_count = n + 1
          /\ clients'[c].lost = clients[c].lost + (n - e)
          /\ clients'[c].received = clients[c].received + 1
      BY <2>2 DEF ReceivedInOrder
    <3> HIDE DEF n, e
    <3>3. SettledBelow(answered[c], e, n)
      BY <2>2, <3>1, SettleBelow
    <3>4. (n + 1) - 1 = n /\ n + 1 <= Reached(c)
      BY <2>2, <2>3 DEF RequestsOK
    <3> QED
      BY <2>1, <2>2, <2>4, <3>1, <3>2, <3>3, <3>4 DEF CountsOK, SettledBelow
  <2> QED
    BY <2>5, <2>6, <2>7 DEF WireOK
<1>2. CASE c # d
  <2>1. Untouched(c)
    BY <1>2 DEF Untouched, WireInv, SendInv, TypeOK,
                HandleClientReceivedResponse
  <2> QED
    BY <2>1, UntouchedWire DEF WireInv
<1> QED
  BY <1>1, <1>2

\* A response that is lost leaves its number to be counted as lost.
LEMMA LoseResponseWire ==
  ASSUME WireInv, NEW d \in Clients, LoseResponse(d), NEW c \in Clients
  PROVE  WireOK(c)'
<1>1. CASE c = d
  <2>1. /\ responses[c] # <<>>
        /\ responses'[c] = Tail(responses[c])
        /\ UNCHANGED <<sent, clients, requests, served, answered, lostOnWay>>
    BY <1>1 DEF WireInv, SendInv, TypeOK, LoseResponse, trackerVars,
                historyVars
  <2>2. RequestsOK(c)' /\ CountsOK(c)'
    BY <2>1 DEF WireInv, WireOK, RequestsOK, CountsOK, Reached
  <2>3. /\ \A i \in DOMAIN responses'[c] :
             /\ responses'[c][i] \in served[c]
             /\ clients[c].tracking_number_count <= responses'[c][i]
        /\ \A i, j \in DOMAIN responses'[c] :
             i < j => responses'[c][i] < responses'[c][j]
    <3>1. \A i \in DOMAIN responses'[c] :
            /\ responses'[c][i] \in served[c]
            /\ clients[c].tracking_number_count <= responses'[c][i]
      <4>1. /\ responses[c] \in Seq(Numbers)
            /\ \A i \in DOMAIN responses'[c] :
                 /\ i + 1 \in DOMAIN responses[c]
                 /\ responses'[c][i] = responses[c][i + 1]
        BY <2>1, QueueType DEF WireInv, SendInv, TypeOK, Numbers
      <4> QED
        BY <4>1 DEF WireInv, WireOK, ResponsesOK
    <3> QED
      BY <2>1, <3>1, RestOfResponses
  <2>4. ResponsesOK(c)'
    BY <2>1, <2>3 DEF ResponsesOK
  <2> QED
    BY <2>2, <2>4 DEF WireOK
<1>2. CASE c # d
  <2>1. Untouched(c)
    BY <1>2 DEF Untouched, WireInv, SendInv, TypeOK, LoseResponse,
                trackerVars, historyVars
  <2> QED
    BY <2>1, UntouchedWire DEF WireInv
<1> QED
  BY <1>1, <1>2

\* The strengthened invariant is inductive.
LEMMA WireStep == OneThreadPerNode /\ WireInv /\ [Next]_vars => WireInv'
<1> SUFFICES ASSUME OneThreadPerNode, WireInv, [Next]_vars
             PROVE  WireInv'
  OBVIOUS
<1>1. SendInv'
  BY SendStep DEF WireInv
<1>2. ASSUME NEW c \in Clients
      PROVE  WireOK(c)'
  <2>1. ASSUME NEW t \in Threads, SendRequest(t)
        PROVE  WireOK(c)'
    BY <2>1, SendingWire
  <2>2. ASSUME NEW t \in Threads, NEW d \in Clients,
               HandleClientReceivedResponse(t, d)
        PROVE  WireOK(c)'
    BY <2>2, ReceiveWire
  <2>3. ASSUME NEW d \in Clients,
               \/ HandleServerReceivedRequest(d)
               \/ LoseRequest(d)
               \/ LoseResponse(d)
        PROVE  WireOK(c)'
    BY <2>3, ServeWire, LoseRequestWire, LoseResponseWire
  <2>4. CASE UNCHANGED <<requests, responses, clients, historyVars>>
    <3>1. Untouched(c)
      BY <2>4 DEF Untouched, historyVars
    <3> QED
      BY <3>1, UntouchedWire DEF WireInv
  <2>5. \/ \E t \in Threads : SendRequest(t)
        \/ \E t \in Threads, d \in Clients : HandleClientReceivedResponse(t, d)
        \/ \E d \in Clients : \/ HandleServerReceivedRequest(d)
                              \/ LoseRequest(d)
                              \/ LoseResponse(d)
        \/ UNCHANGED <<requests, responses, clients, historyVars>>
    BY DEF Next, vars, trackerVars, wireVars, SendRequestStep, SetLock,
           WaitForService, CreateRequest, Increment, Unlock, TestLock, Discover
  <2> QED
    BY <2>1, <2>2, <2>3, <2>4, <2>5
<1> QED
  BY <1>1, <1>2 DEF WireInv

\* What a client has settled is answered, or a round trip that failed.
LEMMA WireCounts == WireInv => ClientCountsFailedRoundTrips
<1> SUFFICES ASSUME WireInv, NEW c \in Clients
             PROVE  LET settled == 0 .. clients[c].tracking_number_count - 1
                        failed == settled \ answered[c]
                    IN /\ clients[c].lost = Cardinality(failed)
                       /\ clients[c].received = Cardinality(answered[c])
                       /\ failed \subseteq lostOnWay[c] \union served[c]
                       /\ answered[c] \subseteq served[c]
  BY DEF ClientCountsFailedRoundTrips
<1> DEFINE settled == 0 .. clients[c].tracking_number_count - 1
<1>1. RequestsOK(c) /\ CountsOK(c)
  BY DEF WireInv, WireOK
<1>2. settled \subseteq 0 .. Reached(c) - 1
  <2>1. clients[c].tracking_number_count \in Nat
    BY TrackerAssumption DEF WireInv, SendInv, TypeOK, Trackers
  <2>2. /\ Reached(c) \in Nat
        /\ clients[c].tracking_number_count <= Reached(c)
    BY <1>1 DEF RequestsOK, CountsOK
  <2> QED
    BY <2>1, <2>2
<1>3. settled \subseteq served[c] \union lostOnWay[c]
  BY <1>1, <1>2 DEF RequestsOK
<1> QED
  BY <1>1, <1>3 DEF CountsOK

\* In nodes whose callbacks run one at a time, what a client counts as lost
\* are the round trips that failed, and all of them up to the response it
\* expects next, whatever is lost on either way (performance_node_base_impl.hpp:
\* send_request, handle_client_received_response; tracker.cpp: scan).
THEOREM ClientCountsExact ==
  ASSUME OneThreadPerNode
  PROVE  Spec => []ClientCountsFailedRoundTrips
<1>1. WireInv /\ [Next]_vars => WireInv'
  BY WireStep
<1> QED
  BY <1>1, WireInit, WireCounts, PTL DEF Spec

-----------------------------------------------------------------------------
(* ClientService implements LossAccounting. *)

\* The numbers a client has counted as lost.
Missing ==
  [c \in Clients |-> (0 .. clients[c].tracking_number_count - 1) \ answered[c]]

\* Initially every number is open in both specifications.
LEMMA AccountingInit == Init => Accounting!Init
<1> SUFFICES ASSUME Init PROVE Accounting!Init
  OBVIOUS
<1>1. \A c \in Clients :
        (0 .. clients[c].tracking_number_count - 1) \ answered[c] = {}
  <2>1. \A c \in Clients : clients[c].tracking_number_count = 0
    BY NewTrackerType DEF Init
  <2> QED
    BY <2>1
<1>2. answered = [c \in Clients |-> {}]
  BY DEF Init
<1> QED
  BY <1>1, <1>2 DEF Accounting!Init

\* A response received is an arrival of the accounting.
LEMMA AccountingReceive ==
  ASSUME WireInv, NEW t \in Threads, NEW c \in Clients,
         HandleClientReceivedResponse(t, c), NEW n, n = Head(responses[c])
  PROVE  Accounting!Arrive(c, n)
<1> DEFINE e == clients[c].tracking_number_count
           lower == {k \in 0 .. MaxRequests - 1 : k < n}
<1>1. /\ n \in 0 .. MaxRequests - 1 /\ e \in Nat /\ e <= n
      /\ ReceivedInOrder(clients'[c], clients[c], n)
  BY ReceiveCounts
<1>2. answered' = [answered EXCEPT ![c] = @ \union {n}]
      /\ \A d \in Clients \ {c} :
           clients'[d] = clients[d] /\ answered'[d] = answered[d]
  BY DEF HandleClientReceivedResponse, WireInv, SendInv, TypeOK
<1>3. answered'[c] = answered[c] \union {n}
  BY <1>2 DEF WireInv, SendInv, TypeOK
<1>4. answered[c] \subseteq 0 .. e - 1
  BY DEF WireInv, WireOK, CountsOK
<1> HIDE DEF e
<1>5. ArrivalAccounted(answered[c], e, n, MaxRequests)
  BY <1>1, <1>4, ClientServiceAssumption, AccountArrival
<1>6. clients'[c].tracking_number_count - 1 = n
  BY <1>1 DEF ReceivedInOrder
<1>7. /\ Missing[c] = (0 .. e - 1) \ answered[c]
      /\ Missing'[c] = (0 .. n) \ answered'[c]
      /\ \A d \in Clients \ {c} : Missing'[d] = Missing[d]
  BY <1>2, <1>6 DEF Missing, e
<1>8. /\ \A k \in answered[c] \union Missing[c] : k < n
      /\ Missing'[c] = Missing[c] \union (lower \ answered[c])
  BY <1>3, <1>5, <1>7 DEF ArrivalAccounted
<1> HIDE DEF lower
<1>9. Missing' = [Missing EXCEPT ![c] = @ \union (lower \ answered[c])]
  BY <1>7, <1>8 DEF Missing
<1> QED
  BY <1>2, <1>8, <1>9 DEF Accounting!Arrive, Missing, lower

\* Every step is an arrival of the accounting or leaves it alone.
LEMMA AccountingStep ==
  WireInv /\ [Next]_vars => [Accounting!Next]_(Accounting!vars)
<1> SUFFICES ASSUME WireInv, [Next]_vars
             PROVE  [Accounting!Next]_(Accounting!vars)
  OBVIOUS
<1>1. ASSUME NEW t \in Threads, NEW c \in Clients,
             HandleClientReceivedResponse(t, c)
      PROVE  [Accounting!Next]_(Accounting!vars)
  <2>1. PICK n \in 0 .. MaxRequests - 1 : n = Head(responses[c])
    BY <1>1, ReceiveCounts
  <2>2. Accounting!Arrive(c, n)
    BY <1>1, <2>1, AccountingReceive
  <2> QED
    BY <2>2 DEF Accounting!Next
<1>2. CASE UNCHANGED <<clients, answered>>
  BY <1>2 DEF Accounting!vars
<1>3. \/ \E t \in Threads, c \in Clients : HandleClientReceivedResponse(t, c)
      \/ UNCHANGED <<clients, answered>>
  BY DEF Next, vars, trackerVars, historyVars, SendRequestStep, SetLock,
         WaitForService, CreateRequest, SendRequest, Increment, Unlock,
         TestLock, Discover, HandleServerReceivedRequest, LoseRequest,
         LoseResponse
<1> QED
  BY <1>1, <1>2, <1>3

\* In nodes whose callbacks run one at a time, the responses of a client
\* settle its requests for good and in increasing order: none that was counted
\* as lost is answered later (performance_node_base_impl.hpp: send_request,
\* handle_client_received_response).
THEOREM AccountingImplemented ==
  ASSUME OneThreadPerNode
  PROVE  Spec => ImplementsAccounting
<1>1. WireInv /\ [Next]_vars => WireInv'
  BY WireStep
<1> QED
  BY <1>1, WireInit, AccountingInit, AccountingStep, PTL
  DEF Spec, ImplementsAccounting, Accounting!Spec

-----------------------------------------------------------------------------
(* What a server counts, when each service has one client. *)

\* The requests a service receives are those of one client.
OneClientPerService ==
  \A c, d \in Clients : ClientService[c] = ClientService[d] => c = d

\* What the server of c's service has counted is the truth about the requests
\* of c that it has settled.
ServerOK(c) ==
  LET server == servers[ClientService[c]]
      settled == 0 .. server.tracking_number_count - 1
  IN /\ server.is_enabled
     /\ server.tracking_number_count <= Reached(c)
     /\ served[c] \subseteq settled
     /\ server.lost = Cardinality(settled \ served[c])

\* A service without a client has counted nothing.
IdleInv ==
  \A v \in Services :
    (\A c \in Clients : ClientService[c] # v) => servers[v].lost = 0

ServerInv == WireInv /\ IdleInv /\ \A c \in Clients : ServerOK(c)

\* Initially no server has counted anything.
LEMMA ServerInit == Init => ServerInv
<1> SUFFICES ASSUME Init PROVE ServerInv
  OBVIOUS
<1>1. \A v \in Services : /\ servers[v].is_enabled
                          /\ servers[v].tracking_number_count = 0
                          /\ servers[v].lost = 0
  BY NewTrackerType DEF Init
<1>2. ASSUME NEW c \in Clients
      PROVE  ServerOK(c)
  <2> DEFINE server == servers[ClientService[c]]
  <2>1. /\ server.is_enabled /\ server.tracking_number_count = 0
        /\ server.lost = 0
    BY <1>1, ClientServiceAssumption
  <2>2. served[c] = {} /\ Reached(c) = 0
    BY DEF Init, Reached
  <2>3. (0 .. server.tracking_number_count - 1) \ served[c] = {}
    BY <2>1
  <2>4. Cardinality({}) = 0
    BY FS_EmptySet
  <2>5. server.lost
          = Cardinality((0 .. server.tracking_number_count - 1) \ served[c])
    BY <2>1, <2>3, <2>4
  <2>6. server.tracking_number_count <= Reached(c)
    BY <2>1, <2>2
  <2> QED
    BY <2>1, <2>2, <2>5, <2>6 DEF ServerOK
<1> QED
  BY <1>1, <1>2, WireInit DEF ServerInv, IdleInv

\* A request served settles the numbers up to its own for the server, and
\* nothing for other clients.
LEMMA ServeCounts ==
  ASSUME OneClientPerService, ServerInv, NEW d \in Clients,
         HandleServerReceivedRequest(d), NEW c \in Clients
  PROVE  ServerOK(c)'
<1> DEFINE v == ClientService[d]
           n == Head(requests[d])
<1>1. v \in Services /\ servers[v] \in Trackers /\ servers[v].is_enabled
  BY ClientServiceAssumption DEF ServerInv, ServerOK, WireInv, SendInv, TypeOK
<1>2. PICK period : servers' = [servers EXCEPT
                                  ![v] = Scanned(servers[v], d, n, period)]
  BY DEF HandleServerReceivedRequest
<1>3. CASE c = d
  <2> DEFINE e == servers[v].tracking_number_count
  <2>1. /\ requests[c] # <<>>
        /\ requests'[c] = Tail(requests[c])
        /\ sent'[c] = sent[c]
        /\ served'[c] = served[c] \union {n}
        /\ servers'[v] = Scanned(servers[v], d, n, period)
    BY <1>1, <1>2, <1>3
    DEF HandleServerReceivedRequest, ServerInv, WireInv, SendInv, TypeOK
  <2>2. /\ n = Reached(c) /\ Reached(c)' = Reached(c) + 1
        /\ Reached(c) \in Nat /\ Reached(c) < Len(sent[c])
        /\ Len(sent[c]) <= MaxRequests
    BY <1>3, <2>1, FirstRequest DEF ServerInv
  <2>3. Len(sent[c]) \in Nat
    BY DEF ServerInv, WireInv, SendInv, TypeOK
  <2>4. /\ e <= Reached(c) /\ served[c] \subseteq 0 .. e - 1
        /\ servers[v].lost = Cardinality((0 .. e - 1) \ served[c])
    BY <1>3 DEF ServerInv, ServerOK
  <2>5. e \in Nat
    BY <1>1, TrackerAssumption DEF Trackers
  <2> HIDE DEF n, v
  <2>6. n \in Nat /\ n \in 0 .. TrackingMod - 2 /\ e <= n
    BY <2>2, <2>3, <2>4, <2>5, ClientServiceAssumption, TrackerAssumption
  <2>7. ReceivedInOrder(servers'[v], servers[v], n)
    <3> DEFINE header == CreateMsgHeader(d, n)
    <3>1. header.tracking_number = n
      BY DEF CreateMsgHeader
    <3>2. NanosPerMicro \in Int /\ -LatencyMod < NanosPerMicro
      BY TrackerAssumption
    <3> HIDE DEF header
    <3>3. ReceivedInOrder(Scan(servers[v], header, NanosPerMicro, period), servers[v], n)
      BY <1>1, <2>6, <3>1, <3>2, ScanInOrder
    <3> QED
      BY <2>1, <3>3 DEF Scanned, header
  <2>8. /\ servers'[v].is_enabled
        /\ servers'[v].tracking_number_count = n + 1
        /\ servers'[v].lost = servers[v].lost + (n - e)
    BY <2>7 DEF ReceivedInOrder
  <2> HIDE DEF e
  <2>9. SettledBelow(served[c], e, n)
    BY <2>4, <2>5, <2>6, SettleBelow
  <2>10. (n + 1) - 1 = n /\ n + 1 <= Reached(c)'
    BY <2>2, <2>6
  <2>11. /\ served'[c] \subseteq 0 .. (n + 1) - 1
         /\ servers'[v].lost = Cardinality((0 .. (n + 1) - 1) \ served'[c])
    BY <2>1, <2>4, <2>8, <2>9, <2>10 DEF SettledBelow
  <2>12. v = ClientService[c]
    BY <1>3 DEF v
  <2> QED
    BY <2>8, <2>10, <2>11, <2>12 DEF ServerOK
<1>4. CASE c # d
  <2>1. ClientService[c] # v /\ ClientService[c] \in Services
    BY <1>4, ClientServiceAssumption DEF OneClientPerService
  <2>2. servers'[ClientService[c]] = servers[ClientService[c]]
    BY <1>2, <2>1 DEF ServerInv, WireInv, SendInv, TypeOK
  <2>3. served'[c] = served[c] /\ Reached(c)' = Reached(c)
    BY <1>4 DEF HandleServerReceivedRequest, ServerInv, WireInv, SendInv,
                TypeOK, Reached
  <2> QED
    BY <2>2, <2>3 DEF ServerInv, ServerOK
<1> QED
  BY <1>3, <1>4

\* A request that is lost leaves the server no further behind.
LEMMA LoseRequestCounts ==
  ASSUME ServerInv, NEW d \in Clients, LoseRequest(d), NEW c \in Clients
  PROVE  ServerOK(c)'
<1>1. servers' = servers /\ served' = served
  BY DEF LoseRequest, trackerVars
<1>2. Reached(c)' = Reached(c) \/ Reached(c)' = Reached(c) + 1
  <2>1. CASE c = d
    BY <2>1, FirstRequest
    DEF LoseRequest, ServerInv, WireInv, SendInv, TypeOK
  <2>2. CASE c # d
    BY <2>2 DEF LoseRequest, ServerInv, WireInv, SendInv, TypeOK, Reached
  <2> QED
    BY <2>1, <2>2
<1>3. /\ Reached(c) \in Nat
      /\ servers[ClientService[c]].tracking_number_count \in Nat
  <2>1. servers[ClientService[c]] \in Trackers
    BY ClientServiceAssumption DEF ServerInv, WireInv, SendInv, TypeOK
  <2> QED
    BY <2>1, TrackerAssumption
    DEF Trackers, ServerInv, WireInv, WireOK, RequestsOK
<1>4. ServerOK(c)
  BY DEF ServerInv
<1>5. servers[ClientService[c]].tracking_number_count <= Reached(c)'
  BY <1>2, <1>3, <1>4 DEF ServerOK
<1> QED
  BY <1>1, <1>4, <1>5 DEF ServerOK

\* The strengthened invariant is inductive.
LEMMA ServerStep ==
  OneThreadPerNode /\ OneClientPerService /\ ServerInv /\ [Next]_vars
    => ServerInv'
<1> SUFFICES ASSUME OneThreadPerNode, OneClientPerService, ServerInv,
                    [Next]_vars
             PROVE  ServerInv'
  OBVIOUS
<1>1. WireInv'
  BY WireStep DEF ServerInv
<1>2. ASSUME NEW d \in Clients, HandleServerReceivedRequest(d)
      PROVE  IdleInv' /\ \A c \in Clients : ServerOK(c)'
  <2>1. IdleInv'
    BY <1>2 DEF IdleInv, ServerInv, WireInv, SendInv, TypeOK,
                HandleServerReceivedRequest
  <2> QED
    BY <1>2, <2>1, ServeCounts
<1>3. ASSUME NEW d \in Clients, LoseRequest(d)
      PROVE  IdleInv' /\ \A c \in Clients : ServerOK(c)'
  <2>1. IdleInv'
    BY <1>3 DEF IdleInv, ServerInv, LoseRequest, trackerVars
  <2> QED
    BY <1>3, <2>1, LoseRequestCounts
<1>4. ASSUME NEW t \in Threads, SendRequest(t)
      PROVE  IdleInv' /\ \A c \in Clients : ServerOK(c)'
  <2>1. servers' = servers /\ served' = served
    BY <1>4 DEF SendRequest, trackerVars
  <2>2. ASSUME NEW c \in Clients
        PROVE  Reached(c)' = Reached(c)
    <3>1. CASE c = client[t]
      <4>1. /\ requests'[c] = Append(requests[c], number[t])
            /\ sent'[c] = Append(sent[c], number[t])
        BY <1>4, <3>1 DEF SendRequest, ServerInv, WireInv, SendInv, TypeOK
      <4>2. /\ requests[c] \in Seq(Numbers) /\ sent[c] \in Seq(Numbers)
            /\ number[t] \in Numbers
        BY DEF ServerInv, WireInv, SendInv, TypeOK, Numbers
      <4>3. /\ Len(requests'[c]) = Len(requests[c]) + 1
            /\ Len(sent'[c]) = Len(sent[c]) + 1
            /\ Len(requests[c]) \in Nat /\ Len(sent[c]) \in Nat
        BY <4>1, <4>2, AppendType
      <4> QED
        BY <4>3 DEF Reached
    <3>2. CASE c # client[t]
      BY <1>4, <3>2
      DEF SendRequest, ServerInv, WireInv, SendInv, TypeOK, Reached
    <3> QED
      BY <3>1, <3>2
  <2> QED
    BY <2>1, <2>2 DEF ServerInv, IdleInv, ServerOK
<1>5. ASSUME UNCHANGED <<servers, served, requests, sent>>
      PROVE  IdleInv' /\ \A c \in Clients : ServerOK(c)'
  BY <1>5 DEF ServerInv, IdleInv, ServerOK, Reached
<1>6. \/ \E t \in Threads : SendRequest(t)
      \/ \E d \in Clients : HandleServerReceivedRequest(d) \/ LoseRequest(d)
      \/ UNCHANGED <<servers, served, requests, sent>>
  BY DEF Next, vars, trackerVars, wireVars, historyVars, SendRequestStep,
         SetLock, WaitForService, CreateRequest, Increment, Unlock, TestLock,
         Discover, HandleClientReceivedResponse, LoseResponse
<1> QED
  BY <1>1, <1>2, <1>3, <1>4, <1>5, <1>6 DEF ServerInv

\* What the servers have settled and not served was lost on the way.
LEMMA ServerCounts ==
  OneClientPerService /\ ServerInv => ServerCountsOnlyLostRequests
<1> SUFFICES ASSUME OneClientPerService, ServerInv, NEW v \in Services
             PROVE  LET mine == {c \in Clients : ClientService[c] = v}
                    IN servers[v].lost <=
                         Cardinality(UNION {{c} \X lostOnWay[c] : c \in mine})
  BY DEF ServerCountsOnlyLostRequests
<1> DEFINE mine == {c \in Clients : ClientService[c] = v}
           losses == UNION {{c} \X lostOnWay[c] : c \in mine}
<1>1. CASE mine = {}
  <2>1. losses = {} /\ Cardinality({}) = 0
    BY <1>1, FS_EmptySet
  <2>2. servers[v].lost = 0
    BY <1>1 DEF ServerInv, IdleInv
  <2> QED
    BY <2>1, <2>2
<1>2. ASSUME NEW c \in mine
      PROVE  servers[v].lost <= Cardinality(losses)
  <2> DEFINE settled == 0 .. servers[v].tracking_number_count - 1
  <2>1. mine = {c}
    BY <1>2 DEF OneClientPerService
  <2>2. losses = {c} \X lostOnWay[c]
    BY <2>1
  <2>3. /\ servers[v].tracking_number_count <= Reached(c)
        /\ servers[v].lost = Cardinality(settled \ served[c])
    BY <1>2 DEF ServerInv, ServerOK
  <2>4. /\ served[c] \union lostOnWay[c] = 0 .. Reached(c) - 1
        /\ Reached(c) \in Nat
    BY <1>2 DEF ServerInv, WireInv, WireOK, RequestsOK
  <2>5. settled \ served[c] \subseteq lostOnWay[c]
    <3>1. servers[v].tracking_number_count \in Nat
      BY TrackerAssumption DEF ServerInv, WireInv, SendInv, TypeOK, Trackers
    <3> QED
      BY <2>3, <2>4, <3>1
  <2>6. IsFiniteSet(lostOnWay[c])
    <3>1. IsFiniteSet(0 .. Reached(c) - 1)
      BY <2>4, FS_Interval
    <3> QED
      BY <2>4, <3>1, FS_Subset
  <2> HIDE DEF losses, settled
  <2>7. Cardinality(settled \ served[c]) <= Cardinality(lostOnWay[c])
    BY <2>5, <2>6, FS_Subset
  <2>8. Cardinality(losses) = Cardinality(lostOnWay[c])
    <3>1. IsFiniteSet({c}) /\ Cardinality({c}) = 1
      BY FS_Singleton
    <3>2. Cardinality({c} \X lostOnWay[c])
            = Cardinality({c}) * Cardinality(lostOnWay[c])
      BY <2>6, <3>1, FS_Product
    <3>3. Cardinality(lostOnWay[c]) \in Nat
      BY <2>6, FS_CardinalityType
    <3> QED
      BY <2>2, <3>1, <3>2, <3>3
  <2> QED
    BY <2>3, <2>7, <2>8
<1> QED
  BY <1>1, <1>2

\* When callbacks of a node run one at a time and no service has two clients,
\* a server counts no request as lost that was not (performance_node_base_impl.hpp:
\* handle_server_received_request; tracker.cpp: scan).
THEOREM ServerCountsSound ==
  ASSUME OneThreadPerNode, OneClientPerService
  PROVE  Spec => []ServerCountsOnlyLostRequests
<1>1. ServerInv /\ [Next]_vars => ServerInv'
  BY ServerStep
<1>2. ServerInv => ServerCountsOnlyLostRequests
  BY ServerCounts
<1> QED
  BY <1>1, <1>2, ServerInit, PTL DEF Spec
=============================================================================
