--------------------------- MODULE ClientService ---------------------------
(***************************************************************************)
(* Clients and services of performance_test nodes.  The threads of the     *)
(* executors are explicit: a node in a mutually exclusive callback group   *)
(* has one thread at a time, a node in a reentrant group under a           *)
(* multi-threaded executor has several, and then send_request runs step by *)
(* step against itself.                                                    *)
(*                                                                         *)
(* The middleware (rclcpp, rmw, DDS) is external: it discovers services at *)
(* any time, carries the requests and the responses of a client in order   *)
(* and may lose some of them.                                              *)
(***************************************************************************)
EXTENDS Tracker, Sequences, FiniteSets

CONSTANTS
  Nodes, Clients, Services, Threads,
  ClientNode,    \* [Clients -> Nodes]
  ClientService, \* [Clients -> Services]
  ThreadNode,    \* [Threads -> Nodes]: the node, one with clients, whose
                 \* callbacks a thread runs
  Period,        \* [Clients -> Nat \ {0}]: the timer's period
  MaxRequests,   \* bound: requests a client sends
  MaxLost        \* bound: requests and responses the middleware loses

ASSUME ClientServiceAssumption ==
  /\ ClientNode \in [Clients -> Nodes]
  /\ ClientService \in [Clients -> Services]
  /\ ThreadNode \in [Threads -> Nodes]
  /\ \A t \in Threads : \E c \in Clients : ClientNode[c] = ThreadNode[t]
  /\ Period \in [Clients -> Nat \ {0}]
  /\ MaxRequests \in Nat /\ MaxRequests < TrackingMod
  /\ MaxLost \in Nat

VARIABLES
  pc,          \* pc[t]: where thread t is in send_request, or "idle"
  client,      \* client[t]: the client for which t is in send_request
  number,      \* number[t]: the tracking number in the header t has created
  lock,        \* lock[n]: m_client_lock of node n
  counter,     \* counter[c]: the uint32_t of client c in m_clients
  clients,     \* clients[c]: the tracker of client c in m_clients
  servers,     \* servers[v]: the tracker of service v in m_servers
  online,      \* the services discovery has found
  requests,    \* requests[c]: requests on their way from c to its service
  responses,   \* responses[c]: request numbers answered, on their way to c
  sent,        \* history: sent[c], the numbers of the requests of c
  served,      \* history: served[c], the requests of c the service received
  answered,    \* history: answered[c], the responses c received
  lostOnWay    \* history: lostOnWay[c], the requests of c that were lost

threadVars == <<pc, client, number, lock>>
trackerVars == <<clients, servers>>
wireVars == <<online, requests, responses>>
historyVars == <<sent, served, answered, lostOnWay>>
vars == <<threadVars, counter, trackerVars, wireVars, historyVars>>

-----------------------------------------------------------------------------
Init ==
  /\ pc = [t \in Threads |-> "idle"]
  /\ client = [t \in Threads |-> CHOOSE c \in Clients : TRUE]
  /\ number = [t \in Threads |-> 0]
  /\ lock = [n \in Nodes |-> FALSE]
  /\ counter = [c \in Clients |-> 0]
  /\ clients = [c \in Clients |-> NewTracker(TRUE)]
  /\ servers = [v \in Services |-> NewTracker(TRUE)]
  /\ online = {}
  /\ requests = [c \in Clients |-> <<>>]
  /\ responses = [c \in Clients |-> <<>>]
  /\ sent = [c \in Clients |-> <<>>]
  /\ served = [c \in Clients |-> {}]
  /\ answered = [c \in Clients |-> {}]
  /\ lostOnWay = [c \in Clients |-> {}]

Goto(t, from, to) == pc[t] = from /\ pc' = [pc EXCEPT ![t] = to]

\* The header of a request, as far as scan reads it.
CreateMsgHeader(c, n) ==
  [tracking_number |-> n, frequency |-> ClientFrequency(Period[c])]

\* Latencies are left to Classification: here every sample is 1 us.
Scanned(tracker, c, n, period) ==
  Scan(tracker, CreateMsgHeader(c, n), NanosPerMicro, period)

-----------------------------------------------------------------------------
(* send_request, the callback of the client's timer. *)

\* The timer fires and the callback finds m_client_lock free; if it is
\* taken, the callback returns and nothing changes.
TestLock(t, c) ==
  /\ Goto(t, "idle", "set")
  /\ ClientNode[c] = ThreadNode[t]
  /\ Len(sent[c]) < MaxRequests
  /\ ~lock[ClientNode[c]]
  /\ client' = [client EXCEPT ![t] = c]
  /\ UNCHANGED <<number, lock, counter, trackerVars, wireVars, historyVars>>

SetLock(t) ==
  /\ Goto(t, "set", "wait")
  /\ lock' = [lock EXCEPT ![ThreadNode[t]] = TRUE]
  /\ UNCHANGED <<client, number, counter, trackerVars, wireVars, historyVars>>

\* wait_for_service(1s): the service is there, or the wait times out.
WaitForService(t) ==
  /\ \/ ClientService[client[t]] \in online /\ Goto(t, "wait", "create")
     \/ ClientService[client[t]] \notin online /\ Goto(t, "wait", "unlock")
  /\ UNCHANGED <<client, number, lock, counter, trackerVars, wireVars,
                 historyVars>>

\* For the mutation runs: the number of the previous request.
CreateRequestBehind(t) ==
  /\ Goto(t, "create", "send")
  /\ number' = [number EXCEPT ![t] = counter[client[t]] - 1]
  /\ UNCHANGED <<client, lock, counter, trackerVars, wireVars, historyVars>>

\* create_msg_header reads the client's tracking number.
CreateRequest(t) ==
  /\ Goto(t, "create", "send")
  /\ number' = [number EXCEPT ![t] = counter[client[t]]]
  /\ UNCHANGED <<client, lock, counter, trackerVars, wireVars, historyVars>>

\* async_send_request.
SendRequest(t) ==
  LET c == client[t]
  IN /\ Goto(t, "send", "increment")
     /\ requests' = [requests EXCEPT ![c] = Append(@, number[t])]
     /\ sent' = [sent EXCEPT ![c] = Append(@, number[t])]
     /\ UNCHANGED <<client, number, lock, counter, trackerVars, online,
                    responses, served, answered, lostOnWay>>

\* For the mutation runs: tracking_number++ left out.
IncrementForgotten(t) ==
  /\ Goto(t, "increment", "unlock")
  /\ UNCHANGED <<client, number, lock, counter, trackerVars, wireVars,
                 historyVars>>

\* For the mutation runs: tracking_number++ twice for a request.
IncrementTwice(t) ==
  /\ Goto(t, "increment", "unlock")
  /\ counter' = [counter EXCEPT ![client[t]] = NextNumber(NextNumber(@))]
  /\ UNCHANGED <<client, number, lock, trackerVars, wireVars, historyVars>>

Increment(t) ==
  /\ Goto(t, "increment", "unlock")
  /\ counter' = [counter EXCEPT ![client[t]] = NextNumber(@)]
  /\ UNCHANGED <<client, number, lock, trackerVars, wireVars, historyVars>>

\* For the mutation runs: the lock released only when a request was sent.
UnlockAfterSending(t) ==
  /\ Goto(t, "unlock", "idle")
  /\ lock' = [lock EXCEPT ![ThreadNode[t]] =
                ClientService[client[t]] \notin online]
  /\ UNCHANGED <<client, number, counter, trackerVars, wireVars, historyVars>>

Unlock(t) ==
  /\ Goto(t, "unlock", "idle")
  /\ lock' = [lock EXCEPT ![ThreadNode[t]] = FALSE]
  /\ UNCHANGED <<client, number, counter, trackerVars, wireVars, historyVars>>

SendRequestStep(t) ==
  \/ SetLock(t)
  \/ WaitForService(t)
  \/ CreateRequest(t)
  \/ SendRequest(t)
  \/ Increment(t)
  \/ Unlock(t)

-----------------------------------------------------------------------------
\* service_callback and handle_server_received_request, in the node of the
\* service; rclcpp then sends the response.
HandleServerReceivedRequest(c) ==
  LET n == Head(requests[c])
      v == ClientService[c]
  IN /\ requests[c] # <<>>
     /\ requests' = [requests EXCEPT ![c] = Tail(@)]
     /\ \E period \in PeriodsUs(ClientFrequency(Period[c])) :
          servers' = [servers EXCEPT ![v] = Scanned(@, c, n, period)]
     /\ responses' = [responses EXCEPT ![c] = Append(@, n)]
     /\ served' = [served EXCEPT ![c] = @ \union {n}]
     /\ UNCHANGED <<threadVars, counter, clients, online, sent, answered,
                    lostOnWay>>

\* response_received_callback and handle_client_received_response, by a
\* thread of the client's node that is free.
HandleClientReceivedResponse(t, c) ==
  LET n == Head(responses[c])
  IN /\ pc[t] = "idle"
     /\ ThreadNode[t] = ClientNode[c]
     /\ responses[c] # <<>>
     /\ responses' = [responses EXCEPT ![c] = Tail(@)]
     /\ \E period \in PeriodsUs(ClientFrequency(Period[c])) :
          clients' = [clients EXCEPT ![c] = Scanned(@, c, n, period)]
     /\ answered' = [answered EXCEPT ![c] = @ \union {n}]
     /\ UNCHANGED <<threadVars, counter, servers, online, requests, sent,
                    served, lostOnWay>>

\* Discovery finds a service.
Discover(v) ==
  /\ v \notin online
  /\ online' = online \union {v}
  /\ UNCHANGED <<threadVars, counter, trackerVars, requests, responses,
                 historyVars>>

\* What the middleware lost of client c: a request, or the response to one.
LostFor(c) ==
  Len(sent[c]) - Len(requests[c]) - Len(responses[c])
    - Cardinality(answered[c])

LoseRequest(c) ==
  /\ requests[c] # <<>>
  /\ LostFor(c) < MaxLost
  /\ requests' = [requests EXCEPT ![c] = Tail(@)]
  /\ lostOnWay' = [lostOnWay EXCEPT ![c] = @ \union {Head(requests[c])}]
  /\ UNCHANGED <<threadVars, counter, trackerVars, online, responses, sent,
                 served, answered>>

LoseResponse(c) ==
  /\ responses[c] # <<>>
  /\ LostFor(c) < MaxLost
  /\ responses' = [responses EXCEPT ![c] = Tail(@)]
  /\ UNCHANGED <<threadVars, counter, trackerVars, online, requests,
                 historyVars>>

Next ==
  \/ \E t \in Threads :
       \/ SendRequestStep(t)
       \/ \E c \in Clients : TestLock(t, c) \/ HandleClientReceivedResponse(t, c)
  \/ \E c \in Clients :
       \/ HandleServerReceivedRequest(c)
       \/ LoseRequest(c)
       \/ LoseResponse(c)
  \/ \E v \in Services : Discover(v)

\* A thread inside send_request goes on: nothing in it waits for another
\* thread, and wait_for_service gives up after a second.
Spec == Init /\ [][Next]_vars /\ \A t \in Threads : WF_vars(SendRequestStep(t))

-----------------------------------------------------------------------------
\* The types of the variables.
TypeOK ==
  /\ pc \in [Threads -> {"idle", "set", "wait", "create", "send",
                         "increment", "unlock"}]
  /\ client \in [Threads -> Clients]
  /\ number \in [Threads -> 0 .. TrackingMod - 1]
  /\ lock \in [Nodes -> BOOLEAN]
  /\ counter \in [Clients -> 0 .. TrackingMod - 1]
  /\ clients \in [Clients -> Trackers]
  /\ servers \in [Services -> Trackers]
  /\ online \subseteq Services
  /\ requests \in [Clients -> Seq(0 .. TrackingMod - 1)]
  /\ responses \in [Clients -> Seq(0 .. TrackingMod - 1)]
  /\ sent \in [Clients -> Seq(0 .. TrackingMod - 1)]
  /\ served \in [Clients -> SUBSET (0 .. TrackingMod - 1)]
  /\ answered \in [Clients -> SUBSET (0 .. TrackingMod - 1)]
  /\ lostOnWay \in [Clients -> SUBSET (0 .. TrackingMod - 1)]

\* A client numbers its requests 0, 1, 2, ...: no number is used twice and
\* none is left out, although it is read before the request is sent and
\* written after (send_request).
RequestsNumberedInOrder ==
  \A c \in Clients : \A i \in DOMAIN sent[c] : sent[c][i] = i - 1

\* A message counted as lost never arrived (irobot_benchmark/README.md): a
\* service counts no more losses than its clients' requests suffered.
ServerCountsOnlyLostRequests ==
  \A v \in Services :
    LET mine == {c \in Clients : ClientService[c] = v}
    IN servers[v].lost <= Cardinality(UNION {{c} \X lostOnWay[c] : c \in mine})

\* What a client counts as lost is a round trip that failed, and nothing
\* else: a request that was lost, or a request served whose response was.
\* Once a client has an answer, its server knows of every earlier loss.
ClientCountsFailedRoundTrips ==
  \A c \in Clients :
    LET settled == 0 .. clients[c].tracking_number_count - 1
        failed == settled \ answered[c]
    IN /\ clients[c].lost = Cardinality(failed)
       /\ clients[c].received = Cardinality(answered[c])
       /\ failed \subseteq lostOnWay[c] \union served[c]
       /\ answered[c] \subseteq served[c]

\* The responses of a client settle its requests for good, in increasing
\* order: none that was counted as lost is answered later, whatever is lost
\* and however the threads of the node interleave (send_request and
\* handle_client_received_response).
Accounting == INSTANCE LossAccounting
  WITH Subscriptions <- Clients,
       Numbers <- 0 .. MaxRequests - 1,
       arrived <- answered,
       missing <- [c \in Clients |->
                     (0 .. clients[c].tracking_number_count - 1) \ answered[c]]
ImplementsAccounting == Accounting!Spec

\* The threads of a node that took m_client_lock and have not released it.
PastLock(n) ==
  {t \in Threads : ThreadNode[t] = n /\ pc[t] \notin {"idle", "set"}}

\* While a call is waiting, no other call of the node passes
\* (performance_node_base.hpp: "Use a lock variable to avoid calling when
\* you are already waiting").
OneCallPastLock == \A n \in Nodes : Cardinality(PastLock(n)) <= 1

\* m_client_lock is given back on every path: a node whose service is not
\* there yet tries again later.
LockIsReleased == \A n \in Nodes : lock[n] ~> ~lock[n]
=============================================================================
