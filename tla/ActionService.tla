--------------------------- MODULE ActionService ---------------------------
(***************************************************************************)
(* Action clients and servers of performance_test nodes.  The callbacks of *)
(* a node run one at a time.  A server runs each goal inside the callback  *)
(* that accepts it: one feedback message, then the result, numbered one    *)
(* after the other, and the client scans both with one tracker.            *)
(*                                                                         *)
(* rclcpp_action is external: a goal, the response to it and its result    *)
(* follow one another, feedback travels on a topic of its own, and a       *)
(* client drops the feedback of goals it holds no handle of: before the    *)
(* goal response and after the result.  Any message may be lost.           *)
(***************************************************************************)
EXTENDS Tracker, Sequences, FiniteSets

CONSTANTS
  Nodes, Clients, Actions,
  ClientNode,     \* [Clients -> Nodes]
  ClientAction,   \* [Clients -> Actions]
  PeriodUs,       \* the period scan derives from every header
  MaxGoals,       \* bound: goals a client sends
  MaxLost         \* bound: messages that are lost

ASSUME ActionServiceAssumption ==
  /\ ClientNode \in [Clients -> Nodes]
  /\ ClientAction \in [Clients -> Actions]
  /\ PeriodUs \in Nat
  /\ IsFiniteSet(Clients)
  /\ MaxGoals \in Nat
  /\ MaxLost \in Nat
  /\ 2 * MaxGoals * Cardinality(Clients) < TrackingMod

VARIABLES
  lock,       \* lock[n]: m_action_client_lock of node n
  counter,    \* counter[c]: the tracking number of client c in m_action_clients
  clients,    \* clients[c]: the tracker of client c in m_action_clients
  servers,    \* servers[a]: the tracker of server a in m_action_servers
  replies,    \* replies[a]: the tracking number of a in m_action_servers
  online,     \* the servers discovery has found
  goal,       \* goal[c]: how far the goal of client c is, or "none"
  feedback,   \* feedback[c]: feedback on its way to c, with its goal's number
  result,     \* result[c]: the number of the result of c's goal
  replied,    \* history: replied[c], the numbers of replies to goals of c
  handled,    \* history: handled[c], the numbers c has scanned
  lost        \* how many messages have been lost

clientVars == <<lock, counter>>
serverVars == <<servers, replies>>
vars == <<clientVars, clients, serverVars, online, goal, feedback, result,
          replied, handled, lost>>

-----------------------------------------------------------------------------
Init ==
  /\ lock = [n \in Nodes |-> FALSE]
  /\ counter = [c \in Clients |-> 0]
  /\ clients = [c \in Clients |-> NewTracker(TRUE)]
  /\ servers = [a \in Actions |-> NewTracker(TRUE)]
  /\ replies = [a \in Actions |-> 0]
  /\ online = {}
  /\ goal = [c \in Clients |-> "none"]
  /\ feedback = [c \in Clients |-> <<>>]
  /\ result = [c \in Clients |-> 0]
  /\ replied = [c \in Clients |-> {}]
  /\ handled = [c \in Clients |-> {}]
  /\ lost = 0

GoalGoto(c, from, to) == goal[c] = from /\ goal' = [goal EXCEPT ![c] = to]

\* Latencies are left to Classification: here every sample is 1 us.
Scanned(tracker, n) ==
  Scan(tracker, [tracking_number |-> n], NanosPerMicro, PeriodUs)

\* For the mutation runs: goals numbered one too low.
GoalNumberBehind(c) == counter[c] - 2

\* The number of the latest goal of client c.
GoalNumber(c) == PrevNumber(counter[c])

-----------------------------------------------------------------------------
\* For the mutation runs: m_action_client_lock not tested, and kept when the
\* server is not there.
SendGoalUnlocked(c) ==
  /\ counter[c] < MaxGoals
  /\ ClientAction[c] \in online
  /\ GoalGoto(c, "none", "sent")
  /\ lock' = [lock EXCEPT ![ClientNode[c]] = TRUE]
  /\ counter' = [counter EXCEPT ![c] = NextNumber(@)]
  /\ UNCHANGED <<clients, serverVars, online, feedback, result, replied, handled,
                 lost>>

SendGoalKeepingLock(c) ==
  /\ counter[c] < MaxGoals
  /\ ~lock[ClientNode[c]]
  /\ lock' = [lock EXCEPT ![ClientNode[c]] = TRUE]
  /\ IF ClientAction[c] \in online
       THEN /\ goal' = [goal EXCEPT ![c] = "sent"]
            /\ counter' = [counter EXCEPT ![c] = NextNumber(@)]
       ELSE UNCHANGED <<goal, counter>>
  /\ UNCHANGED <<clients, serverVars, online, feedback, result, replied, handled,
                 lost>>

\* send_action_goal_request, the callback of the client's timer, with the lock
\* free and the server there.  Otherwise the callback changes nothing: it
\* returns at once, or after a second and with the lock given back.
SendGoal(c) ==
  /\ counter[c] < MaxGoals
  /\ ~lock[ClientNode[c]]
  /\ ClientAction[c] \in online
  /\ goal' = [goal EXCEPT ![c] = "sent"]
  /\ lock' = [lock EXCEPT ![ClientNode[c]] = TRUE]
  /\ counter' = [counter EXCEPT ![c] = NextNumber(@)]
  /\ UNCHANGED <<clients, serverVars, online, feedback, result, replied, handled,
                 lost>>

\* For the mutation runs: feedback and result with the same number.
ExecuteGoalNumberedOnce(c) ==
  LET a == ClientAction[c]
      number == replies[a]
  IN /\ GoalGoto(c, "sent", "accepted")
     /\ servers' = [servers EXCEPT ![a] = Scanned(@, GoalNumber(c))]
     /\ feedback' = [feedback EXCEPT
                       ![c] = Append(@, [goal |-> GoalNumber(c),
                                         number |-> number])]
     /\ result' = [result EXCEPT ![c] = number]
     /\ replied' = [replied EXCEPT ![c] = @ \union {number}]
     /\ replies' = [replies EXCEPT ![a] = NextNumber(@)]
     /\ UNCHANGED <<clientVars, clients, online, handled, lost>>

\* The server's handle_goal, which accepts every goal, and handle_accepted.
ExecuteGoal(c) ==
  LET a == ClientAction[c]
      number == replies[a]
  IN /\ GoalGoto(c, "sent", "accepted")
     /\ servers' = [servers EXCEPT ![a] = Scanned(@, GoalNumber(c))]
     /\ feedback' = [feedback EXCEPT
                       ![c] = Append(@, [goal |-> GoalNumber(c),
                                         number |-> number])]
     /\ result' = [result EXCEPT ![c] = NextNumber(number)]
     /\ replied' = [replied EXCEPT
                      ![c] = @ \union {number, NextNumber(number)}]
     /\ replies' = [replies EXCEPT ![a] = NextNumber(NextNumber(@))]
     /\ UNCHANGED <<clientVars, clients, online, handled, lost>>

\* The response reaches the client; goal_response_callback has nothing to do,
\* and rclcpp_action asks for the result.
HandleGoalResponse(c) ==
  /\ GoalGoto(c, "accepted", "running")
  /\ UNCHANGED <<clientVars, clients, serverVars, online, feedback, result,
                 replied, handled, lost>>

\* feedback_callback, unless rclcpp_action drops the feedback.
HandleFeedback(c) ==
  LET message == Head(feedback[c])
  IN /\ feedback[c] # <<>>
     /\ feedback' = [feedback EXCEPT ![c] = Tail(@)]
     /\ IF goal[c] \in {"running", "resultless"} /\ message.goal = GoalNumber(c)
          THEN /\ clients' = [clients EXCEPT ![c] = Scanned(@, message.number)]
               /\ handled' = [handled EXCEPT ![c] = @ \union {message.number}]
          ELSE UNCHANGED <<clients, handled>>
     /\ UNCHANGED <<clientVars, serverVars, online, goal, result, replied, lost>>

\* result_callback.
HandleResult(c) ==
  /\ GoalGoto(c, "running", "none")
  /\ clients' = [clients EXCEPT ![c] = Scanned(@, result[c])]
  /\ handled' = [handled EXCEPT ![c] = @ \union {result[c]}]
  /\ lock' = [lock EXCEPT ![ClientNode[c]] = FALSE]
  /\ UNCHANGED <<counter, serverVars, online, feedback, result, replied, lost>>

GoalStep(c) == ExecuteGoal(c) \/ HandleGoalResponse(c) \/ HandleResult(c)

-----------------------------------------------------------------------------
Discover(a) ==
  /\ a \notin online
  /\ online' = online \union {a}
  /\ UNCHANGED <<clientVars, clients, serverVars, goal, feedback, result,
                 replied, handled, lost>>

\* The goal of client c, the response to it, or the result is lost.
LoseGoal(c) ==
  /\ lost < MaxLost
  /\ GoalGoto(c, "sent", "lost") \/ GoalGoto(c, "accepted", "lost")
       \/ GoalGoto(c, "running", "resultless")
  /\ lost' = lost + 1
  /\ UNCHANGED <<clientVars, clients, serverVars, online, feedback, result,
                 replied, handled>>

LoseFeedback(c) ==
  /\ lost < MaxLost
  /\ feedback[c] # <<>>
  /\ feedback' = [feedback EXCEPT ![c] = Tail(@)]
  /\ lost' = lost + 1
  /\ UNCHANGED <<clientVars, clients, serverVars, online, goal, result,
                 replied, handled>>

Next ==
  \/ \E c \in Clients :
       \/ SendGoal(c)
       \/ GoalStep(c)
       \/ HandleFeedback(c)
       \/ LoseGoal(c)
       \/ LoseFeedback(c)
  \/ \E a \in Actions : Discover(a)

\* What is not lost arrives, and callbacks run.
Spec == Init /\ [][Next]_vars /\ \A c \in Clients : WF_vars(GoalStep(c))

-----------------------------------------------------------------------------
ClientsOf(n) == {c \in Clients : ClientNode[c] = n}

\* The types of the variables.
TypeOK ==
  /\ lock \in [Nodes -> BOOLEAN]
  /\ counter \in [Clients -> 0 .. TrackingMod - 1]
  /\ clients \in [Clients -> Trackers]
  /\ servers \in [Actions -> Trackers]
  /\ replies \in [Actions -> 0 .. TrackingMod - 1]
  /\ online \subseteq Actions
  /\ goal \in [Clients -> {"none", "sent", "accepted", "running", "lost",
                            "resultless"}]
  /\ feedback \in [Clients -> Seq([goal : 0 .. TrackingMod - 1,
                                   number : 0 .. TrackingMod - 1])]
  /\ result \in [Clients -> 0 .. TrackingMod - 1]
  /\ replied \in [Clients -> SUBSET (0 .. TrackingMod - 1)]
  /\ handled \in [Clients -> SUBSET (0 .. TrackingMod - 1)]
  /\ lost \in 0 .. MaxLost

\* A node has at most one goal under way, over all of its action clients, and
\* its lock is taken exactly while it has one (performance_node_base.hpp:
\* "avoid calling when you are already waiting").
LockMeansWaiting ==
  \A n \in Nodes :
    /\ lock[n] <=> \E c \in ClientsOf(n) : goal[c] # "none"
    /\ \A c, d \in ClientsOf(n) : "none" \in {goal[c], goal[d]} \/ c = d

\* A client counts as lost the replies to its goals that it never scanned
\* (irobot_benchmark/README.md: "a message that never arrived"), each once,
\* although feedback and results come on different ways and some feedback is
\* dropped; and none of those is scanned later.
RepliesAccounted ==
  \A c \in Clients :
    LET settled == {n \in replied[c] : n < clients[c].tracking_number_count}
    IN /\ handled[c] \subseteq settled
       /\ clients[c].received = Cardinality(handled[c])
       /\ clients[c].lost = Cardinality(settled \ handled[c])

\* Feedback and results, which travel apart, settle the replies to a client
\* for good and in increasing order: no reply counted as lost is scanned
\* later (feedback_callback and result_callback share one tracker).
Accounting == INSTANCE LossAccounting
  WITH Subscriptions <- Clients,
       Numbers <- 0 .. 2 * MaxGoals - 1,
       arrived <- handled,
       missing <- [c \in Clients |->
                     (0 .. clients[c].tracking_number_count - 1) \ handled[c]]
ImplementsAccounting == Accounting!Spec

\* A node that waits for a goal comes to wait no more, unless a message of
\* the goal was lost: then its action clients are silent for ever.
LockIsReleased ==
  \A n \in Nodes :
    lock[n] ~> \/ ~lock[n]
               \/ \E c \in ClientsOf(n) : goal[c] \in {"lost", "resultless"}
=============================================================================
