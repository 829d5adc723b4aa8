------------------------- MODULE ActionServiceProofs -------------------------
(***************************************************************************)
(* Theorems about ActionService, for any nodes, clients and actions.       *)
(***************************************************************************)
EXTENDS ActionService, TrackerProofs

-----------------------------------------------------------------------------
(* Type correctness. *)

Numbers == 0 .. TrackingMod - 1

Messages == [goal : Numbers, number : Numbers]

\* The numbers of goals and replies stay numbers.
LEMMA NumberType ==
  ASSUME NEW n \in Numbers
  PROVE  NextNumber(n) \in Numbers /\ PrevNumber(n) \in Numbers
  BY TrackerAssumption DEF Numbers, NextNumber, PrevNumber

\* Scanning a number keeps a tracker a tracker.
LEMMA ScannedType ==
  ASSUME NEW t \in Trackers, NEW n \in Numbers
  PROVE  Scanned(t, n) \in Trackers
<1> DEFINE header == [tracking_number |-> n]
<1>1. header.tracking_number \in 0 .. TrackingMod - 1
  BY DEF Numbers
<1>2. NanosPerMicro \in Int /\ -LatencyMod < NanosPerMicro
  BY TrackerAssumption
<1> HIDE DEF header
<1>3. Scan(t, header, NanosPerMicro, PeriodUs) \in Trackers
  BY <1>1, <1>2, ScanType DEF Received
<1> QED
  BY <1>3 DEF Scanned, header

\* Initially there is no goal and nothing has been counted.
LEMMA TypeInit == Init => TypeOK
<1> SUFFICES ASSUME Init PROVE TypeOK
  OBVIOUS
<1>1. NewTracker(TRUE) \in Trackers
  BY NewTrackerType
<1>2. 0 \in 0 .. TrackingMod - 1 /\ 0 \in 0 .. MaxLost
  BY TrackerAssumption, ActionServiceAssumption
<1>3. feedback \in [Clients -> Seq([goal : 0 .. TrackingMod - 1,
                                    number : 0 .. TrackingMod - 1])]
  BY DEF Init
<1> QED
  BY <1>1, <1>2, <1>3 DEF Init, TypeOK

\* A goal accepted: feedback and result have numbers, and the server counts it.
LEMMA ExecuteGoalType ==
  ASSUME TypeOK, NEW c \in Clients, ExecuteGoal(c)
  PROVE  TypeOK'
<1> DEFINE a == ClientAction[c]
           message == [goal |-> GoalNumber(c), number |-> replies[a]]
<1>1. a \in Actions /\ servers[a] \in Trackers /\ replies[a] \in Numbers
  BY ActionServiceAssumption DEF TypeOK, Numbers
<1>2. GoalNumber(c) \in Numbers
  BY NumberType DEF TypeOK, Numbers, GoalNumber
<1>3. message \in Messages
  BY <1>1, <1>2 DEF Messages
<1>4. Append(feedback[c], message) \in Seq(Messages)
  BY <1>3, AppendType DEF TypeOK, Messages, Numbers
<1>5. /\ feedback' = [feedback EXCEPT ![c] = Append(feedback[c], message)]
      /\ servers' = [servers EXCEPT ![a] = Scanned(servers[a], GoalNumber(c))]
      /\ replies' = [replies EXCEPT ![a] = NextNumber(NextNumber(replies[a]))]
      /\ result' = [result EXCEPT ![c] = NextNumber(replies[a])]
      /\ replied' = [replied EXCEPT
                       ![c] = replied[c] \union
                                {replies[a], NextNumber(replies[a])}]
  BY DEF ExecuteGoal
<1>6. /\ Scanned(servers[a], GoalNumber(c)) \in Trackers
      /\ NextNumber(replies[a]) \in Numbers
      /\ NextNumber(NextNumber(replies[a])) \in Numbers
  BY <1>1, <1>2, NumberType, ScannedType
<1> HIDE DEF a, message
<1>7. /\ servers' \in [Actions -> Trackers]
      /\ replies' \in [Actions -> 0 .. TrackingMod - 1]
      /\ result' \in [Clients -> 0 .. TrackingMod - 1]
      /\ replied' \in [Clients -> SUBSET (0 .. TrackingMod - 1)]
  BY <1>1, <1>5, <1>6 DEF TypeOK, Numbers
<1>8. feedback' \in [Clients -> Seq(Messages)]
  BY <1>4, <1>5 DEF TypeOK, Messages, Numbers
<1>9. /\ goal' = [goal EXCEPT ![c] = "accepted"]
      /\ UNCHANGED <<lock, counter, clients, online, handled, lost>>
  BY DEF ExecuteGoal, GoalGoto, clientVars
<1> QED
  BY <1>7, <1>8, <1>9 DEF TypeOK, Messages, Numbers

\* Every step keeps the types.
LEMMA TypeStep == TypeOK /\ [Next]_vars => TypeOK'
<1> SUFFICES ASSUME TypeOK, [Next]_vars PROVE TypeOK'
  OBVIOUS
<1>1. ASSUME NEW c \in Clients, SendGoal(c)
      PROVE  TypeOK'
  <2>1. NextNumber(counter[c]) \in 0 .. TrackingMod - 1
    BY NumberType DEF TypeOK, Numbers
  <2> QED
    BY <1>1, <2>1 DEF TypeOK, SendGoal, serverVars
<1>2. ASSUME NEW c \in Clients, HandleGoalResponse(c)
      PROVE  TypeOK'
  BY <1>2 DEF TypeOK, HandleGoalResponse, GoalGoto, clientVars, serverVars
<1>3. ASSUME NEW c \in Clients, HandleFeedback(c)
      PROVE  TypeOK'
  <2>1. /\ Head(feedback[c]) \in Messages
        /\ Tail(feedback[c]) \in Seq(Messages)
    BY <1>3, QueueType DEF TypeOK, HandleFeedback, Messages, Numbers
  <2>2. Head(feedback[c]).number \in Numbers
    BY <2>1 DEF Messages
  <2>3. Scanned(clients[c], Head(feedback[c]).number) \in Trackers
    BY <2>2, ScannedType DEF TypeOK
  <2>4. feedback' \in [Clients -> Seq(Messages)]
    BY <1>3, <2>1 DEF TypeOK, HandleFeedback, Messages, Numbers
  <2>5. clients' \in [Clients -> Trackers]
    BY <1>3, <2>3 DEF TypeOK, HandleFeedback
  <2>6. handled' \in [Clients -> SUBSET (0 .. TrackingMod - 1)]
    <3> DEFINE seen == handled[c] \union {Head(feedback[c]).number}
    <3>1. seen \in SUBSET (0 .. TrackingMod - 1)
      BY <2>2 DEF TypeOK, Numbers
    <3>2. handled' = [handled EXCEPT ![c] = seen] \/ handled' = handled
      BY <1>3 DEF HandleFeedback
    <3> HIDE DEF seen
    <3> QED
      BY <3>1, <3>2 DEF TypeOK
  <2> QED
    BY <1>3, <2>4, <2>5, <2>6
    DEF TypeOK, HandleFeedback, clientVars, serverVars, Messages, Numbers
<1>4. ASSUME NEW c \in Clients, HandleResult(c)
      PROVE  TypeOK'
  <2>1. Scanned(clients[c], result[c]) \in Trackers
    BY ScannedType DEF TypeOK, Numbers
  <2> QED
    BY <1>4, <2>1 DEF TypeOK, HandleResult, GoalGoto, serverVars
<1>5. ASSUME NEW c \in Clients, LoseGoal(c)
      PROVE  TypeOK'
  <2>1. lost' \in 0 .. MaxLost
    BY <1>5, ActionServiceAssumption DEF TypeOK, LoseGoal
  <2>2. goal' \in [Clients -> {"none", "sent", "accepted", "running", "lost",
                               "resultless"}]
    BY <1>5 DEF TypeOK, LoseGoal, GoalGoto
  <2> QED
    BY <1>5, <2>1, <2>2 DEF TypeOK, LoseGoal, clientVars, serverVars
<1>6. ASSUME NEW c \in Clients, LoseFeedback(c)
      PROVE  TypeOK'
  <2>1. Tail(feedback[c]) \in Seq(Messages)
    BY <1>6, QueueType DEF TypeOK, LoseFeedback, Messages, Numbers
  <2>2. lost' \in 0 .. MaxLost
    BY <1>6, ActionServiceAssumption DEF TypeOK, LoseFeedback
  <2> QED
    BY <1>6, <2>1, <2>2
    DEF TypeOK, LoseFeedback, clientVars, serverVars, Messages, Numbers
<1>7. ASSUME NEW a \in Actions, Discover(a)
      PROVE  TypeOK'
  BY <1>7 DEF TypeOK, Discover, clientVars, serverVars
<1>8. CASE UNCHANGED vars
  BY <1>8 DEF TypeOK, vars, clientVars, serverVars
<1> QED
  BY <1>1, <1>2, <1>3, <1>4, <1>5, <1>6, <1>7, <1>8, ExecuteGoalType
  DEF Next, GoalStep

\* The variables keep their types in every system (performance_node_base.cpp).
THEOREM TypeCorrect == Spec => []TypeOK
  BY TypeInit, TypeStep, PTL DEF Spec

-----------------------------------------------------------------------------
(* The lock of a node. *)

LockInv == TypeOK /\ LockMeansWaiting

\* A goal that moves on and stays under way neither takes nor frees a lock.
LEMMA GoalMoves ==
  ASSUME LockInv, lock' = lock, NEW c \in Clients, goal[c] # "none",
         NEW to, to # "none", goal' = [goal EXCEPT ![c] = to]
  PROVE  LockMeansWaiting'
<1>1. \A d \in Clients : goal'[d] = "none" <=> goal[d] = "none"
  BY DEF LockInv, TypeOK
<1> QED
  BY <1>1 DEF LockInv, LockMeansWaiting, ClientsOf

\* send_action_goal_request takes the lock only of a node that waits for
\* nothing; result_callback frees the lock of a node that waited for one goal.
LEMMA LockStep == LockInv /\ [Next]_vars => LockMeansWaiting'
<1> SUFFICES ASSUME LockInv, [Next]_vars PROVE LockMeansWaiting'
  OBVIOUS
<1>1. ASSUME NEW c \in Clients, SendGoal(c)
      PROVE  LockMeansWaiting'
  <2> DEFINE m == ClientNode[c]
  <2>1. m \in Nodes /\ ~lock[m]
    BY <1>1, ActionServiceAssumption DEF SendGoal
  <2>2. /\ lock'[m] /\ goal'[c] = "sent"
        /\ \A n \in Nodes \ {m} : lock'[n] = lock[n]
        /\ \A d \in Clients \ {c} : goal'[d] = goal[d]
    BY <1>1, <2>1 DEF SendGoal, LockInv, TypeOK
  <2>3. \A d \in ClientsOf(m) : goal[d] = "none"
    BY <2>1 DEF LockInv, LockMeansWaiting
  <2> QED
    BY <2>1, <2>2, <2>3 DEF LockInv, LockMeansWaiting, ClientsOf
<1>2. ASSUME NEW c \in Clients, HandleResult(c)
      PROVE  LockMeansWaiting'
  <2> DEFINE m == ClientNode[c]
  <2>1. m \in Nodes /\ c \in ClientsOf(m) /\ goal[c] = "running"
    BY <1>2, ActionServiceAssumption DEF HandleResult, GoalGoto, ClientsOf
  <2>2. /\ ~lock'[m] /\ goal'[c] = "none"
        /\ \A n \in Nodes \ {m} : lock'[n] = lock[n]
        /\ \A d \in Clients \ {c} : goal'[d] = goal[d]
    BY <1>2, <2>1 DEF HandleResult, GoalGoto, LockInv, TypeOK
  <2>3. \A d \in ClientsOf(m) : goal'[d] = "none"
    BY <2>1, <2>2 DEF LockInv, LockMeansWaiting, ClientsOf
  <2> QED
    BY <2>1, <2>2, <2>3 DEF LockInv, LockMeansWaiting, ClientsOf
<1>3. ASSUME NEW c \in Clients,
             ExecuteGoal(c) \/ HandleGoalResponse(c) \/ LoseGoal(c)
      PROVE  LockMeansWaiting'
  <2>1. PICK to \in {"accepted", "running", "lost", "resultless"} :
          goal[c] # "none" /\ goal' = [goal EXCEPT ![c] = to]
    BY <1>3 DEF ExecuteGoal, HandleGoalResponse, LoseGoal, GoalGoto
  <2>2. lock' = lock
    BY <1>3 DEF ExecuteGoal, HandleGoalResponse, LoseGoal, clientVars
  <2> QED
    BY <2>1, <2>2, GoalMoves
<1>4. CASE UNCHANGED <<lock, goal>>
  BY <1>4 DEF LockInv, LockMeansWaiting, ClientsOf
<1>5. \/ \E c \in Clients : \/ SendGoal(c) \/ HandleResult(c)
                            \/ ExecuteGoal(c) \/ HandleGoalResponse(c)
                            \/ LoseGoal(c)
      \/ UNCHANGED <<lock, goal>>
  BY DEF Next, GoalStep, vars, clientVars, HandleFeedback, LoseFeedback,
         Discover
<1> QED
  BY <1>1, <1>2, <1>3, <1>4, <1>5

\* However many action clients a node has, at most one goal is under way, and
\* the lock is taken exactly while it is (performance_node_base_impl.hpp:
\* send_action_goal_request, result_callback).
THEOREM LockIsWaiting == Spec => []LockMeansWaiting
<1>1. Init => LockMeansWaiting
  BY DEF Init, LockMeansWaiting, ClientsOf
<1>2. LockInv /\ [Next]_vars => LockInv'
  BY TypeStep, LockStep DEF LockInv
<1> QED
  BY <1>1, <1>2, TypeInit, PTL DEF Spec, LockInv

-----------------------------------------------------------------------------
(* What clients count, when each action has one client. *)

\* The replies of a server go to one client.
OneClientPerAction ==
  \A c, d \in Clients : ClientAction[c] = ClientAction[d] => c = d

Expected(c) == clients[c].tracking_number_count

\* Each goal that has been executed has had two replies.
GoalOK(c) ==
  LET a == ClientAction[c]
  IN /\ counter[c] <= MaxGoals
     /\ goal[c] # "none" => counter[c] >= 1
     /\ replies[a] <= 2 * counter[c]
     /\ goal[c] = "sent" => replies[a] <= 2 * (counter[c] - 1)
     /\ replied[c] = 0 .. replies[a] - 1

\* Feedback arrives in the order of its goals.  There is at most one for the
\* latest goal, and none before that goal has been executed.
FeedbackOK(c) ==
  /\ \A i, j \in DOMAIN feedback[c] :
       i < j => feedback[c][i].goal < feedback[c][j].goal
  /\ \A i \in DOMAIN feedback[c] :
       /\ feedback[c][i].goal < counter[c]
       /\ goal[c] = "sent" => feedback[c][i].goal < counter[c] - 1

\* The client has counted nothing beyond the replies to the goal under way:
\* they are the latest numbers of the server, the result's the last.
LatestOK(c) ==
  LET a == ClientAction[c]
  IN /\ Expected(c) <= replies[a]
     /\ goal[c] \in {"accepted", "running"} =>
          result[c] = replies[a] - 1 /\ Expected(c) <= result[c]
     /\ goal[c] \in {"accepted", "running", "resultless"} =>
          \A i \in DOMAIN feedback[c] :
            feedback[c][i].goal = counter[c] - 1 =>
              /\ feedback[c][i].number = replies[a] - 2
              /\ Expected(c) <= replies[a] - 2

\* What a client has counted is the truth about the numbers it has settled.
CountsOK(c) ==
  LET settled == 0 .. Expected(c) - 1
  IN /\ clients[c].is_enabled
     /\ handled[c] \subseteq settled
     /\ clients[c].received = Cardinality(handled[c])
     /\ clients[c].lost = Cardinality(settled \ handled[c])

ReplyOK(c) == GoalOK(c) /\ FeedbackOK(c) /\ LatestOK(c) /\ CountsOK(c)

ReplyInv == TypeOK /\ \A c \in Clients : ReplyOK(c)

\* What ReplyOK says of client c does not change.
Untouched(c) ==
  UNCHANGED <<counter[c], clients[c], replies[ClientAction[c]], goal[c],
              feedback[c], result[c], replied[c], handled[c]>>

LEMMA UntouchedReplies ==
  ASSUME NEW c \in Clients, ReplyOK(c), Untouched(c)
  PROVE  ReplyOK(c)'
  BY DEF Untouched, ReplyOK, GoalOK, FeedbackOK, LatestOK, CountsOK, Expected

\* The numbers of goals and replies stay below the width of a number.
LEMMA Width ==
  ASSUME NEW c \in Clients
  PROVE  /\ 2 * MaxGoals < TrackingMod
         /\ MaxGoals \in Nat /\ TrackingMod \in Nat
<1>1. Cardinality(Clients) \in Nat /\ Cardinality(Clients) # 0
  BY ActionServiceAssumption, FS_CardinalityType, FS_EmptySet
<1>2. ASSUME NEW m \in Nat, NEW k \in Nat \ {0}
      PROVE  2 * m <= 2 * m * k
  OBVIOUS
<1> QED
  BY <1>1, <1>2, ActionServiceAssumption, TrackerAssumption

\* Initially nothing has been sent.
LEMMA ReplyInit == Init => ReplyInv
<1> SUFFICES ASSUME Init PROVE ReplyInv
  OBVIOUS
<1>1. ASSUME NEW c \in Clients
      PROVE  ReplyOK(c)
  <2>1. /\ clients[c].is_enabled /\ Expected(c) = 0
        /\ clients[c].received = 0 /\ clients[c].lost = 0
    BY <1>1, NewTrackerType DEF Init, Expected
  <2>2. /\ counter[c] = 0 /\ goal[c] = "none" /\ replies[ClientAction[c]] = 0
        /\ replied[c] = {} /\ handled[c] = {} /\ feedback[c] = <<>>
    BY <1>1, ActionServiceAssumption DEF Init
  <2>3. GoalOK(c)
    BY <2>2, ActionServiceAssumption DEF GoalOK
  <2>4. FeedbackOK(c) /\ LatestOK(c)
    BY <2>1, <2>2 DEF FeedbackOK, LatestOK
  <2>5. Cardinality({}) = 0
    BY FS_EmptySet
  <2>6. CountsOK(c)
    BY <2>1, <2>2, <2>5 DEF CountsOK
  <2> QED
    BY <2>3, <2>4, <2>6 DEF ReplyOK
<1> QED
  BY <1>1, TypeInit DEF ReplyInv

\* What the types say of one client.
LEMMA ClientTypes ==
  ASSUME TypeOK, NEW c \in Clients
  PROVE  /\ ClientAction[c] \in Actions
         /\ counter[c] \in Nat /\ replies[ClientAction[c]] \in Nat
         /\ replies[ClientAction[c]] \in Numbers
         /\ result[c] \in Nat /\ Expected(c) \in Nat
         /\ clients[c] \in Trackers
         /\ feedback[c] \in Seq(Messages)
         /\ \A i \in DOMAIN feedback[c] : /\ feedback[c][i].goal \in Nat
                                          /\ feedback[c][i].number \in Nat
                                          /\ i \in Nat
<1>1. clients[c] \in Trackers
  BY DEF TypeOK
<1>2. Expected(c) \in Nat
  BY <1>1, TrackerAssumption DEF Trackers, Expected
<1>3. feedback[c] \in Seq(Messages)
  BY DEF TypeOK, Messages, Numbers
<1>4. \A m \in Messages : m.goal \in Nat /\ m.number \in Nat
  BY TrackerAssumption DEF Messages, Numbers
<1>5. \A i \in DOMAIN feedback[c] : feedback[c][i] \in Messages /\ i \in Nat
  BY <1>3
<1> QED
  BY <1>1, <1>2, <1>3, <1>4, <1>5, ActionServiceAssumption, TrackerAssumption
  DEF TypeOK, Numbers

-----------------------------------------------------------------------------
(* Steps that count nothing. *)

\* A goal sent: what is on its way is of earlier goals.
LEMMA SendReply ==
  ASSUME ReplyInv, NEW d \in Clients, SendGoal(d), NEW c \in Clients
  PROVE  ReplyOK(c)'
<1>1. UNCHANGED <<clients, replies, feedback, result, replied, handled>>
  BY DEF SendGoal, serverVars
<1>2. CASE c = d
  <2>1. goal'[c] = "sent" /\ counter[c] < MaxGoals
        /\ counter'[c] = NextNumber(counter[c])
    BY <1>2 DEF SendGoal, ReplyInv, TypeOK
  <2>2. counter[c] \in Nat /\ MaxGoals \in Nat
        /\ counter'[c] = counter[c] + 1
    BY <2>1, Width, ClientTypes DEF NextNumber, ReplyInv
  <2>3. ReplyOK(c) /\ replies[ClientAction[c]] \in Nat
    BY ClientTypes DEF ReplyInv
  <2>4. GoalOK(c)'
    BY <1>1, <2>1, <2>2, <2>3 DEF ReplyOK, GoalOK
  <2>5. FeedbackOK(c)'
    <3>1. \A i \in DOMAIN feedback[c] : /\ feedback[c][i].goal \in Nat
                                        /\ feedback[c][i].goal < counter[c]
      BY <2>3, ClientTypes DEF ReplyInv, ReplyOK, FeedbackOK
    <3>2. \A i \in DOMAIN feedback[c] :
            /\ feedback[c][i].goal < counter'[c]
            /\ feedback[c][i].goal < counter'[c] - 1
      BY <2>2, <3>1
    <3> QED
      BY <1>1, <2>3, <3>2 DEF ReplyOK, FeedbackOK
  <2>6. LatestOK(c)'
    BY <1>1, <2>1, <2>3 DEF ReplyOK, LatestOK, Expected
  <2>7. CountsOK(c)'
    BY <1>1, <2>3 DEF ReplyOK, CountsOK, Expected
  <2> QED
    BY <2>4, <2>5, <2>6, <2>7 DEF ReplyOK
<1>3. CASE c # d
  <2>1. goal'[c] = goal[c] /\ counter'[c] = counter[c]
    BY <1>3 DEF SendGoal, ReplyInv, TypeOK
  <2> QED
    BY <1>1, <2>1, UntouchedReplies DEF Untouched, ReplyInv
<1> QED
  BY <1>2, <1>3

\* A goal that moves on without being executed.
LEMMA GoalMovesReply ==
  ASSUME ReplyInv, NEW d \in Clients, NEW c \in Clients,
         UNCHANGED <<counter, clients, replies, feedback, result, replied,
                     handled>>,
         NEW to, goal' = [goal EXCEPT ![d] = to],
         \/ goal[d] # "none" /\ to = "lost"
         \/ goal[d] = "accepted" /\ to = "running"
         \/ goal[d] = "running" /\ to = "resultless"
  PROVE  ReplyOK(c)'
<1>1. ReplyOK(c)
  BY DEF ReplyInv
<1>2. \/ goal'[c] = goal[c]
      \/ goal[c] # "none" /\ goal'[c] = "lost"
      \/ goal[c] = "accepted" /\ goal'[c] = "running"
      \/ goal[c] = "running" /\ goal'[c] = "resultless"
  BY DEF ReplyInv, TypeOK
<1>3. GoalOK(c)'
  BY <1>1, <1>2 DEF ReplyOK, GoalOK
<1>4. FeedbackOK(c)'
  BY <1>1, <1>2 DEF ReplyOK, FeedbackOK
<1>5. LatestOK(c)'
  BY <1>1, <1>2 DEF ReplyOK, LatestOK, Expected
<1>6. CountsOK(c)'
  BY <1>1 DEF ReplyOK, CountsOK, Expected
<1> QED
  BY <1>3, <1>4, <1>5, <1>6 DEF ReplyOK

\* What is left of the feedback when the first is gone.
LEMMA RestOfFeedback ==
  ASSUME ReplyInv, NEW c \in Clients, feedback[c] # <<>>,
         feedback'[c] = Tail(feedback[c]), counter'[c] = counter[c],
         goal'[c] = goal[c]
  PROVE  /\ FeedbackOK(c)'
         /\ \A i \in DOMAIN feedback'[c] :
              /\ i + 1 \in DOMAIN feedback[c]
              /\ feedback'[c][i] = feedback[c][i + 1]
              /\ feedback[c][1].goal < feedback[c][i + 1].goal
<1>1. /\ 1 \in DOMAIN feedback[c]
      /\ \A i \in DOMAIN feedback'[c] :
           /\ i \in Nat \ {0}
           /\ i + 1 \in DOMAIN feedback[c]
           /\ feedback'[c][i] = feedback[c][i + 1]
  BY QueueType, ClientTypes DEF ReplyInv
<1>2. FeedbackOK(c)
  BY DEF ReplyInv, ReplyOK
<1>3. \A i, j \in DOMAIN feedback'[c] :
        i < j => feedback'[c][i].goal < feedback'[c][j].goal
  <2> SUFFICES ASSUME NEW i \in DOMAIN feedback'[c],
                      NEW j \in DOMAIN feedback'[c], i < j
               PROVE  feedback[c][i + 1].goal < feedback[c][j + 1].goal
    BY <1>1
  <2>1. i + 1 < j + 1
    BY <1>1
  <2> QED
    BY <1>1, <1>2, <2>1 DEF FeedbackOK
<1>4. \A i \in DOMAIN feedback'[c] :
        /\ feedback'[c][i].goal < counter'[c]
        /\ goal'[c] = "sent" => feedback'[c][i].goal < counter'[c] - 1
  BY <1>1, <1>2 DEF FeedbackOK
<1>5. \A i \in DOMAIN feedback'[c] :
        feedback[c][1].goal < feedback[c][i + 1].goal
  BY <1>1, <1>2 DEF FeedbackOK
<1> QED
  BY <1>1, <1>3, <1>4, <1>5 DEF FeedbackOK

\* Feedback that is lost or dropped.
LEMMA SkipFeedbackReply ==
  ASSUME ReplyInv, NEW d \in Clients, NEW c \in Clients, feedback[d] # <<>>,
         feedback' = [feedback EXCEPT ![d] = Tail(feedback[d])],
         UNCHANGED <<counter, clients, replies, goal, result, replied,
                     handled>>
  PROVE  ReplyOK(c)'
<1>1. CASE c = d
  <2>1. feedback[c] # <<>> /\ feedback'[c] = Tail(feedback[c])
    BY <1>1 DEF ReplyInv, TypeOK
  <2>2. /\ FeedbackOK(c)'
        /\ \A i \in DOMAIN feedback'[c] :
             /\ i + 1 \in DOMAIN feedback[c]
             /\ feedback'[c][i] = feedback[c][i + 1]
    BY <2>1, RestOfFeedback
  <2>3. ReplyOK(c)
    BY DEF ReplyInv
  <2>4. LatestOK(c)'
    BY <2>2, <2>3 DEF ReplyOK, LatestOK, Expected
  <2> QED
    BY <2>2, <2>3, <2>4 DEF ReplyOK, GoalOK, CountsOK, Expected
<1>2. CASE c # d
  <2>1. feedback'[c] = feedback[c]
    BY <1>2 DEF ReplyInv, TypeOK
  <2> QED
    BY <2>1, UntouchedReplies DEF Untouched, ReplyInv
<1> QED
  BY <1>1, <1>2

-----------------------------------------------------------------------------
(* Steps that number or count. *)

\* A goal executed: its feedback and its result have the next two numbers.
LEMMA ExecuteNumbers ==
  ASSUME ReplyInv, NEW c \in Clients, ExecuteGoal(c)
  PROVE  LET r == replies[ClientAction[c]]
         IN /\ goal[c] = "sent" /\ goal'[c] = "accepted"
            /\ r \in Nat /\ counter[c] \in Nat \ {0}
            /\ r <= 2 * (counter[c] - 1)
            /\ feedback'[c] = Append(feedback[c], [goal |-> counter[c] - 1,
                                                   number |-> r])
            /\ [goal |-> counter[c] - 1, number |-> r] \in Messages
            /\ result'[c] = r + 1
            /\ replied'[c] = replied[c] \union {r, r + 1}
            /\ replies'[ClientAction[c]] = r + 2
<1> DEFINE a == ClientAction[c]
           r == replies[a]
<1>1. /\ a \in Actions /\ r \in Nat /\ r \in Numbers /\ counter[c] \in Nat
      /\ goal[c] = "sent" /\ goal'[c] = "accepted"
  BY ClientTypes DEF ReplyInv, TypeOK, ExecuteGoal, GoalGoto
<1>2. /\ counter[c] >= 1 /\ counter[c] <= MaxGoals
      /\ r <= 2 * (counter[c] - 1)
  BY <1>1 DEF ReplyInv, ReplyOK, GoalOK
<1>3. /\ 2 * MaxGoals < TrackingMod
      /\ MaxGoals \in Nat /\ TrackingMod \in Nat
  BY Width
<1> HIDE DEF r
<1>4. /\ NextNumber(r) = r + 1 /\ NextNumber(r + 1) = r + 2
      /\ PrevNumber(counter[c]) = counter[c] - 1
      /\ counter[c] - 1 \in 0 .. TrackingMod - 1
  BY <1>1, <1>2, <1>3 DEF NextNumber, PrevNumber
<1>5. GoalNumber(c) = counter[c] - 1
  BY <1>4 DEF GoalNumber
<1>6. [goal |-> counter[c] - 1, number |-> r] \in Messages
  BY <1>1, <1>4 DEF Messages, Numbers
<1>7. /\ feedback'[c] = Append(feedback[c], [goal |-> counter[c] - 1,
                                             number |-> r])
      /\ result'[c] = r + 1
      /\ replied'[c] = replied[c] \union {r, r + 1}
  BY <1>4, <1>5 DEF ReplyInv, TypeOK, ExecuteGoal, r
<1>8. replies'[a] = r + 2
  BY <1>1, <1>4 DEF ReplyInv, TypeOK, ExecuteGoal, r
<1> QED
  BY <1>1, <1>2, <1>6, <1>7, <1>8 DEF r

LEMMA ExecuteReply ==
  ASSUME OneClientPerAction, ReplyInv, NEW d \in Clients, ExecuteGoal(d),
         NEW c \in Clients
  PROVE  ReplyOK(c)'
<1>1. UNCHANGED <<counter, clients, handled>>
  BY DEF ExecuteGoal, clientVars
<1>2. ReplyOK(c)
  BY DEF ReplyInv
<1>3. CASE c = d
  <2> DEFINE r == replies[ClientAction[c]]
             message == [goal |-> counter[c] - 1, number |-> r]
  <2>1. /\ goal[c] = "sent" /\ goal'[c] = "accepted"
        /\ r \in Nat /\ counter[c] \in Nat \ {0} /\ r <= 2 * (counter[c] - 1)
        /\ feedback'[c] = Append(feedback[c], message)
        /\ message \in Messages
        /\ result'[c] = r + 1
        /\ replied'[c] = replied[c] \union {r, r + 1}
        /\ replies'[ClientAction[c]] = r + 2
    BY <1>3, ExecuteNumbers
  <2>2. feedback[c] \in Seq(Messages) /\ Expected(c) \in Nat
        /\ \A i \in DOMAIN feedback[c] : /\ feedback[c][i].goal \in Nat
                                         /\ i \in Nat
    BY ClientTypes DEF ReplyInv
  <2>3. message.goal = counter[c] - 1 /\ message.number = r
    OBVIOUS
  <2> HIDE DEF message
  <2>4. PICK last \in Nat :
          /\ DOMAIN feedback[c] = 1 .. last
          /\ DOMAIN feedback'[c] = 1 .. last + 1
          /\ feedback'[c][last + 1] = message
          /\ \A i \in DOMAIN feedback[c] : feedback'[c][i] = feedback[c][i]
    <3>1. /\ Len(feedback[c]) \in Nat
          /\ DOMAIN feedback[c] = 1 .. Len(feedback[c])
          /\ DOMAIN Append(feedback[c], message) = 1 .. Len(feedback[c]) + 1
          /\ Append(feedback[c], message)[Len(feedback[c]) + 1] = message
          /\ \A i \in DOMAIN feedback[c] :
               Append(feedback[c], message)[i] = feedback[c][i]
      BY <2>1, <2>2, AppendType
    <3>2. PICK last \in Nat : last = Len(feedback[c])
      BY <3>1
    <3> QED
      BY <2>1, <3>1, <3>2
  <2>5. \A i \in DOMAIN feedback'[c] :
          i = last + 1 \/ i \in DOMAIN feedback[c]
    BY <2>4
  <2>6. \A i \in DOMAIN feedback[c] : feedback[c][i].goal < counter[c] - 1
    BY <1>2, <2>1 DEF ReplyOK, FeedbackOK
  <2> HIDE DEF r
  <2>7. GoalOK(c)'
    <3>1. replied[c] = 0 .. r - 1 /\ counter[c] <= MaxGoals
      BY <1>2 DEF ReplyOK, GoalOK, r
    <3>2. (0 .. r - 1) \union {r, r + 1} = 0 .. (r + 2) - 1
      BY <2>1
    <3>3. r + 2 <= 2 * counter[c] /\ counter[c] >= 1
      BY <2>1
    <3> QED
      BY <1>1, <2>1, <3>1, <3>2, <3>3 DEF GoalOK
  <2>8. FeedbackOK(c)'
    <3>1. ASSUME NEW i \in DOMAIN feedback'[c], NEW j \in DOMAIN feedback'[c],
                 i < j
          PROVE  feedback'[c][i].goal < feedback'[c][j].goal
      <4>1. i \in DOMAIN feedback[c]
        BY <2>4, <3>1
      <4>2. CASE j \in DOMAIN feedback[c]
        BY <1>2, <2>4, <3>1, <4>1, <4>2 DEF ReplyOK, FeedbackOK
      <4>3. CASE j = last + 1
        BY <2>3, <2>4, <2>6, <4>1, <4>3
      <4> QED
        BY <2>5, <4>2, <4>3
    <3>2. \A i \in DOMAIN feedback'[c] : feedback'[c][i].goal < counter[c]
      <4>1. counter[c] \in Nat /\ message.goal < counter[c]
        BY <2>1, <2>3
      <4>2. \A i \in DOMAIN feedback[c] : feedback[c][i].goal < counter[c]
        BY <1>2 DEF ReplyOK, FeedbackOK
      <4> QED
        BY <2>4, <2>5, <4>1, <4>2
    <3> QED
      BY <1>1, <2>1, <3>1, <3>2 DEF FeedbackOK
  <2>9. LatestOK(c)'
    <3>1. Expected(c)' = Expected(c) /\ Expected(c) <= r
      BY <1>1, <1>2 DEF ReplyOK, LatestOK, Expected, r
    <3>2. \A i \in DOMAIN feedback'[c] :
            feedback'[c][i].goal = counter[c] - 1 =>
              feedback'[c][i].number = r
      BY <2>1, <2>2, <2>3, <2>4, <2>5, <2>6
    <3>3. /\ r = (r + 2) - 2 /\ r + 1 = (r + 2) - 1
          /\ Expected(c) <= r + 2 /\ Expected(c) <= r + 1
      BY <2>1, <2>2, <3>1
    <3> QED
      BY <1>1, <2>1, <3>1, <3>2, <3>3 DEF LatestOK
  <2>10. CountsOK(c)'
    BY <1>1, <1>2 DEF ReplyOK, CountsOK, Expected
  <2> QED
    BY <2>7, <2>8, <2>9, <2>10 DEF ReplyOK
<1>4. CASE c # d
  <2>1. /\ ClientAction[c] # ClientAction[d]
        /\ ClientAction[c] \in Actions /\ ClientAction[d] \in Actions
    BY <1>4, ActionServiceAssumption DEF OneClientPerAction
  <2>2. replies'[ClientAction[c]] = replies[ClientAction[c]]
    BY <2>1 DEF ExecuteGoal, ReplyInv, TypeOK
  <2>3. UNCHANGED <<goal[c], feedback[c], result[c], replied[c]>>
    BY <1>4 DEF ExecuteGoal, GoalGoto, ReplyInv, TypeOK
  <2> QED
    BY <1>1, <1>2, <2>2, <2>3, UntouchedReplies DEF Untouched
<1> QED
  BY <1>3, <1>4

\* A number that a client scans is one it has not settled yet, and settles
\* those below it.
LEMMA ScanCounts ==
  ASSUME ReplyInv, NEW c \in Clients, NEW n \in Nat, n < TrackingMod - 1,
         Expected(c) <= n,
         clients'[c] = Scanned(clients[c], n),
         handled'[c] = handled[c] \union {n}
  PROVE  CountsOK(c)' /\ Expected(c)' = n + 1
<1> DEFINE header == [tracking_number |-> n]
           e == Expected(c)
<1>1. /\ clients[c] \in Trackers /\ clients[c].is_enabled
      /\ handled[c] \subseteq 0 .. e - 1
      /\ clients[c].received = Cardinality(handled[c])
      /\ clients[c].lost = Cardinality((0 .. e - 1) \ handled[c])
  BY DEF ReplyInv, TypeOK, ReplyOK, CountsOK
<1>2. header.tracking_number \in 0 .. TrackingMod - 2
      /\ header.tracking_number = n
  BY TrackerAssumption
<1>3. NanosPerMicro \in Int /\ -LatencyMod < NanosPerMicro /\ e \in Nat
  BY TrackerAssumption, ClientTypes DEF ReplyInv
<1>4. e = clients[c].tracking_number_count
  BY DEF Expected
<1> HIDE DEF header
<1>5. ReceivedInOrder(Scan(clients[c], header, NanosPerMicro, PeriodUs),
                     clients[c], n)
  BY <1>1, <1>2, <1>3, <1>4, ScanInOrder
<1>6. ReceivedInOrder(clients'[c], clients[c], n)
  BY <1>5 DEF Scanned, header
<1> HIDE DEF e
<1>7. SettledBelow(handled[c], e, n)
  BY <1>1, <1>3, SettleBelow DEF e
<1>8. /\ clients'[c].is_enabled
      /\ clients'[c].tracking_number_count = n + 1
      /\ clients'[c].lost = clients[c].lost + (n - e)
      /\ clients'[c].received = clients[c].received + 1
  BY <1>4, <1>6 DEF ReceivedInOrder
<1>9. Expected(c)' = n + 1 /\ (n + 1) - 1 = n
  BY <1>8 DEF Expected
<1>10. CountsOK(c)'
  BY <1>1, <1>7, <1>8, <1>9 DEF SettledBelow, CountsOK
<1> QED
  BY <1>9, <1>10

\* The feedback a client scans is that of its latest goal: nothing more of it
\* is on its way, and the result, if it comes, is the next number.
LEMMA FeedbackNumber ==
  ASSUME ReplyInv, NEW c \in Clients, feedback[c] # <<>>,
         goal[c] \in {"running", "resultless"},
         Head(feedback[c]).goal = GoalNumber(c)
  PROVE  LET n == Head(feedback[c]).number
             r == replies[ClientAction[c]]
         IN /\ n \in 0 .. 2 * MaxGoals - 1 /\ n < TrackingMod - 1
            /\ Expected(c) <= n
            /\ n = r - 2
            /\ Head(feedback[c]).goal = counter[c] - 1
<1>1. 1 \in DOMAIN feedback[c] /\ Head(feedback[c]) = feedback[c][1]
  BY QueueType, ClientTypes DEF ReplyInv
<1>2. /\ counter[c] \in Nat /\ replies[ClientAction[c]] \in Nat
      /\ feedback[c][1].number \in Nat
  BY <1>1, ClientTypes DEF ReplyInv
<1>3. ReplyOK(c)
  BY DEF ReplyInv
<1>4. counter[c] >= 1 /\ counter[c] <= MaxGoals
      /\ replies[ClientAction[c]] <= 2 * counter[c]
  BY <1>3 DEF ReplyOK, GoalOK
<1>5. GoalNumber(c) = counter[c] - 1
  BY <1>2, <1>4 DEF GoalNumber, PrevNumber
<1>6. /\ feedback[c][1].number = replies[ClientAction[c]] - 2
      /\ Expected(c) <= replies[ClientAction[c]] - 2
  BY <1>1, <1>3, <1>5 DEF ReplyOK, LatestOK
<1>7. /\ 2 * MaxGoals < TrackingMod
      /\ MaxGoals \in Nat /\ TrackingMod \in Nat
  BY Width
<1> QED
  BY SMTT(30), <1>1, <1>2, <1>4, <1>5, <1>6, <1>7

\* The result a client scans is the last reply of its server.
LEMMA ResultNumber ==
  ASSUME ReplyInv, NEW c \in Clients, goal[c] = "running"
  PROVE  /\ result[c] \in 0 .. 2 * MaxGoals - 1 /\ result[c] < TrackingMod - 1
         /\ Expected(c) <= result[c]
         /\ result[c] = replies[ClientAction[c]] - 1
<1>1. /\ counter[c] \in Nat /\ replies[ClientAction[c]] \in Nat
      /\ result[c] \in Nat
  BY ClientTypes DEF ReplyInv
<1>2. /\ counter[c] <= MaxGoals /\ replies[ClientAction[c]] <= 2 * counter[c]
      /\ result[c] = replies[ClientAction[c]] - 1 /\ Expected(c) <= result[c]
  BY DEF ReplyInv, ReplyOK, GoalOK, LatestOK
<1>3. /\ 2 * MaxGoals < TrackingMod
      /\ MaxGoals \in Nat /\ TrackingMod \in Nat
  BY Width
<1> QED
  BY <1>1, <1>2, <1>3

\* Feedback scanned: the client expects the result, and no feedback is left.
LEMMA ScanFeedbackReply ==
  ASSUME ReplyInv, NEW d \in Clients, HandleFeedback(d), NEW c \in Clients,
         goal[d] \in {"running", "resultless"},
         Head(feedback[d]).goal = GoalNumber(d)
  PROVE  ReplyOK(c)'
<1>1. UNCHANGED <<counter, replies, goal, result, replied>>
  BY DEF HandleFeedback, clientVars, serverVars
<1>2. ReplyOK(c)
  BY DEF ReplyInv
<1>3. CASE c = d
  <2> DEFINE n == Head(feedback[c]).number
             r == replies[ClientAction[c]]
  <2>1. /\ feedback[c] # <<>>
        /\ feedback'[c] = Tail(feedback[c])
        /\ clients'[c] = Scanned(clients[c], n)
        /\ handled'[c] = handled[c] \union {n}
    BY <1>3 DEF HandleFeedback, ReplyInv, TypeOK
  <2>2. /\ n \in Nat /\ n < TrackingMod - 1 /\ Expected(c) <= n
        /\ n = r - 2
        /\ Head(feedback[c]).goal = counter[c] - 1
    BY <1>3, <2>1, FeedbackNumber
  <2> HIDE DEF n
  <2>3. CountsOK(c)' /\ Expected(c)' = n + 1
    BY <2>1, <2>2, ScanCounts
  <2>4. /\ counter[c] \in Nat /\ r \in Nat
        /\ feedback[c][1].goal = counter[c] - 1
        /\ \A i \in DOMAIN feedback[c] : feedback[c][i].goal \in Nat
    BY <2>1, <2>2, QueueType, ClientTypes DEF ReplyInv
  <2>5. /\ FeedbackOK(c)'
        /\ \A i \in DOMAIN feedback'[c] :
             /\ i + 1 \in DOMAIN feedback[c]
             /\ feedback'[c][i] = feedback[c][i + 1]
             /\ feedback[c][1].goal < feedback[c][i + 1].goal
    BY <1>1, <2>1, RestOfFeedback
  <2>6. \A i \in DOMAIN feedback'[c] : feedback'[c][i].goal # counter[c] - 1
    BY <2>4, <2>5
  <2>7. goal[c] = "running" => result[c] = r - 1
    BY <1>2 DEF ReplyOK, LatestOK
  <2>8. goal'[c] \in {"running", "resultless"}
    BY <1>1, <1>3
  <2> HIDE DEF r
  <2>9. Expected(c)' <= r /\ Expected(c)' = r - 1
    BY <2>2, <2>3, <2>4
  <2>10. LatestOK(c)'
    BY <1>1, <2>4, <2>6, <2>7, <2>8, <2>9 DEF LatestOK, r
  <2> QED
    BY <1>1, <1>2, <2>3, <2>5, <2>10 DEF ReplyOK, GoalOK
<1>4. CASE c # d
  <2>1. UNCHANGED <<feedback[c], clients[c], handled[c]>>
    BY <1>4 DEF HandleFeedback, ReplyInv, TypeOK
  <2> QED
    BY <1>1, <1>2, <2>1, UntouchedReplies DEF Untouched
<1> QED
  BY <1>3, <1>4

\* A result scanned: the client has settled all replies of its server.
LEMMA ResultReply ==
  ASSUME ReplyInv, NEW d \in Clients, HandleResult(d), NEW c \in Clients
  PROVE  ReplyOK(c)'
<1>1. UNCHANGED <<counter, replies, feedback, result, replied>>
  BY DEF HandleResult, serverVars
<1>2. ReplyOK(c)
  BY DEF ReplyInv
<1>3. CASE c = d
  <2>1. /\ goal[c] = "running" /\ goal'[c] = "none"
        /\ clients'[c] = Scanned(clients[c], result[c])
        /\ handled'[c] = handled[c] \union {result[c]}
    BY <1>3 DEF HandleResult, GoalGoto, ReplyInv, TypeOK
  <2>2. /\ result[c] \in Nat /\ result[c] < TrackingMod - 1
        /\ Expected(c) <= result[c]
        /\ result[c] = replies[ClientAction[c]] - 1
        /\ replies[ClientAction[c]] \in Nat
    BY <2>1, ResultNumber, ClientTypes DEF ReplyInv
  <2>3. CountsOK(c)' /\ Expected(c)' = result[c] + 1
    BY <2>1, <2>2, ScanCounts
  <2>4. Expected(c)' <= replies[ClientAction[c]]
    BY <2>2, <2>3
  <2>5. LatestOK(c)'
    BY <1>1, <2>1, <2>4 DEF LatestOK
  <2>6. GoalOK(c)' /\ FeedbackOK(c)'
    BY <1>1, <1>2, <2>1 DEF ReplyOK, GoalOK, FeedbackOK
  <2> QED
    BY <2>3, <2>5, <2>6 DEF ReplyOK
<1>4. CASE c # d
  <2>1. UNCHANGED <<goal[c], clients[c], handled[c]>>
    BY <1>4 DEF HandleResult, GoalGoto, ReplyInv, TypeOK
  <2> QED
    BY <1>1, <1>2, <2>1, UntouchedReplies DEF Untouched
<1> QED
  BY <1>3, <1>4

-----------------------------------------------------------------------------
(* What clients count is the truth. *)

\* The strengthened invariant is inductive.
LEMMA ReplyStep ==
  OneClientPerAction /\ ReplyInv /\ [Next]_vars => ReplyInv'
<1> SUFFICES ASSUME OneClientPerAction, ReplyInv, [Next]_vars
             PROVE  ReplyInv'
  OBVIOUS
<1>1. TypeOK'
  BY TypeStep DEF ReplyInv
<1> SUFFICES ASSUME NEW c \in Clients PROVE ReplyOK(c)'
  BY <1>1 DEF ReplyInv
<1>2. ASSUME NEW d \in Clients, HandleFeedback(d)
      PROVE  ReplyOK(c)'
  <2>1. CASE /\ goal[d] \in {"running", "resultless"}
             /\ Head(feedback[d]).goal = GoalNumber(d)
    BY <1>2, <2>1, ScanFeedbackReply
  <2>2. CASE ~(/\ goal[d] \in {"running", "resultless"}
               /\ Head(feedback[d]).goal = GoalNumber(d))
    <3>1. /\ feedback[d] # <<>>
          /\ feedback' = [feedback EXCEPT ![d] = Tail(feedback[d])]
          /\ UNCHANGED <<counter, clients, replies, goal, result, replied,
                         handled>>
      BY <1>2, <2>2 DEF HandleFeedback, clientVars, serverVars
    <3> QED
      BY <3>1, SkipFeedbackReply
  <2> QED
    BY <2>1, <2>2
<1>3. ASSUME NEW d \in Clients, LoseFeedback(d)
      PROVE  ReplyOK(c)'
  <2>1. /\ feedback[d] # <<>>
        /\ feedback' = [feedback EXCEPT ![d] = Tail(feedback[d])]
        /\ UNCHANGED <<counter, clients, replies, goal, result, replied,
                       handled>>
    BY <1>3 DEF LoseFeedback, clientVars, serverVars
  <2> QED
    BY <2>1, SkipFeedbackReply
<1>4. ASSUME NEW d \in Clients, HandleGoalResponse(d) \/ LoseGoal(d)
      PROVE  ReplyOK(c)'
  <2>1. UNCHANGED <<counter, clients, replies, feedback, result, replied,
                    handled>>
    BY <1>4 DEF HandleGoalResponse, LoseGoal, clientVars, serverVars
  <2>2. PICK to :
          /\ goal' = [goal EXCEPT ![d] = to]
          /\ \/ goal[d] # "none" /\ to = "lost"
             \/ goal[d] = "accepted" /\ to = "running"
             \/ goal[d] = "running" /\ to = "resultless"
    BY <1>4 DEF HandleGoalResponse, LoseGoal, GoalGoto
  <2> QED
    BY <2>1, <2>2, GoalMovesReply
<1>5. CASE UNCHANGED <<counter, clients, replies, goal, feedback, result,
                       replied, handled>>
  BY <1>5, UntouchedReplies DEF Untouched, ReplyInv
<1>6. \/ \E d \in Clients :
           \/ SendGoal(d) \/ ExecuteGoal(d) \/ HandleResult(d)
           \/ HandleFeedback(d) \/ LoseFeedback(d)
           \/ HandleGoalResponse(d) \/ LoseGoal(d)
      \/ UNCHANGED <<counter, clients, replies, goal, feedback, result,
                     replied, handled>>
  BY DEF Next, GoalStep, vars, clientVars, serverVars, Discover
<1> QED
  BY <1>2, <1>3, <1>4, <1>5, <1>6, SendReply, ExecuteReply, ResultReply

\* A client has settled only replies to it, so its counters are about them.
LEMMA ReplyCounts == ReplyInv => RepliesAccounted
<1> SUFFICES ASSUME ReplyInv, NEW c \in Clients
             PROVE  LET settled == {n \in replied[c] :
                                      n < clients[c].tracking_number_count}
                    IN /\ handled[c] \subseteq settled
                       /\ clients[c].received = Cardinality(handled[c])
                       /\ clients[c].lost = Cardinality(settled \ handled[c])
  BY DEF RepliesAccounted
<1> DEFINE settled == {n \in replied[c] : n < clients[c].tracking_number_count}
           r == replies[ClientAction[c]]
           e == clients[c].tracking_number_count
<1>1. e \in Nat /\ r \in Nat /\ e <= r /\ replied[c] = 0 .. r - 1
  BY ClientTypes DEF ReplyInv, ReplyOK, GoalOK, LatestOK, Expected
<1>2. settled = 0 .. e - 1
  BY <1>1
<1>3. CountsOK(c)
  BY DEF ReplyInv, ReplyOK
<1> HIDE DEF settled
<1>4. /\ handled[c] \subseteq settled
      /\ clients[c].received = Cardinality(handled[c])
      /\ clients[c].lost = Cardinality(settled \ handled[c])
  BY <1>2, <1>3 DEF CountsOK, Expected
<1> QED
  BY <1>4 DEF settled

\* When each action has one client, that client counts as lost exactly the
\* replies to its goals that it passed over, although feedback and results
\* travel apart (performance_node_base_impl.hpp: feedback_callback,
\* result_callback; tracker.cpp: scan).
THEOREM RepliesCountedExactly ==
  ASSUME OneClientPerAction
  PROVE  Spec => []RepliesAccounted
<1>1. ReplyInv /\ [Next]_vars => ReplyInv'
  BY ReplyStep
<1> QED
  BY <1>1, ReplyInit, ReplyCounts, PTL DEF Spec

-----------------------------------------------------------------------------
(* The replies a client scans implement the accounting of losses. *)

\* The replies a client has counted as lost.
Missing ==
  [c \in Clients |-> (0 .. clients[c].tracking_number_count - 1) \ handled[c]]

\* Initially nothing has been counted.
LEMMA AccountingInit == Init => Accounting!Init
<1> SUFFICES ASSUME Init PROVE Accounting!Init
  OBVIOUS
<1>1. \A c \in Clients :
        (0 .. clients[c].tracking_number_count - 1) \ handled[c] = {}
  <2>1. \A c \in Clients : clients[c].tracking_number_count = 0
    BY NewTrackerType DEF Init
  <2> QED
    BY <2>1
<1>2. handled = [c \in Clients |-> {}]
  BY DEF Init
<1> QED
  BY <1>1, <1>2 DEF Accounting!Init

\* A reply scanned is an arrival of the accounting.
LEMMA AccountingScan ==
  ASSUME ReplyInv, NEW c \in Clients, NEW n \in 0 .. 2 * MaxGoals - 1,
         n < TrackingMod - 1, Expected(c) <= n,
         clients' = [clients EXCEPT ![c] = Scanned(clients[c], n)],
         handled' = [handled EXCEPT ![c] = handled[c] \union {n}]
  PROVE  Accounting!Arrive(c, n)
<1> DEFINE e == Expected(c)
           lower == {k \in 0 .. 2 * MaxGoals - 1 : k < n}
<1>1. /\ clients'[c] = Scanned(clients[c], n)
      /\ handled'[c] = handled[c] \union {n}
      /\ \A d \in Clients \ {c} :
           clients'[d] = clients[d] /\ handled'[d] = handled[d]
  BY DEF ReplyInv, TypeOK
<1>2. handled[c] \subseteq 0 .. e - 1
  BY DEF ReplyInv, ReplyOK, CountsOK
<1>3. n \in Nat /\ e \in Nat /\ 2 * MaxGoals \in Nat
  BY ClientTypes, ActionServiceAssumption DEF ReplyInv
<1>4. clients'[c].tracking_number_count - 1 = n
  <2>1. clients'[c].tracking_number_count = n + 1
    BY <1>1, <1>3, ScanCounts DEF Expected
  <2> QED
    BY <1>3, <2>1
<1>5. /\ Missing[c] = (0 .. e - 1) \ handled[c]
      /\ Missing'[c] = (0 .. n) \ handled'[c]
      /\ \A d \in Clients \ {c} : Missing'[d] = Missing[d]
  BY <1>1, <1>4 DEF Missing, Expected
<1> HIDE DEF e
<1>6. ArrivalAccounted(handled[c], e, n, 2 * MaxGoals)
  BY <1>2, <1>3, AccountArrival DEF e
<1>7. /\ \A k \in handled[c] \union Missing[c] : k < n
      /\ Missing'[c] = Missing[c] \union (lower \ handled[c])
  BY <1>1, <1>5, <1>6 DEF ArrivalAccounted
<1> HIDE DEF lower
<1>8. Missing' = [Missing EXCEPT ![c] = @ \union (lower \ handled[c])]
  BY <1>5, <1>7 DEF Missing
<1> QED
  BY <1>7, <1>8 DEF Accounting!Arrive, Missing, lower

\* Every step is an arrival of the accounting or leaves it alone.
LEMMA AccountingStep ==
  ReplyInv /\ [Next]_vars => [Accounting!Next]_(Accounting!vars)
<1> SUFFICES ASSUME ReplyInv, [Next]_vars
             PROVE  [Accounting!Next]_(Accounting!vars)
  OBVIOUS
<1>1. ASSUME NEW c \in Clients, HandleFeedback(c),
             goal[c] \in {"running", "resultless"},
             Head(feedback[c]).goal = GoalNumber(c)
      PROVE  [Accounting!Next]_(Accounting!vars)
  <2>1. PICK n \in 0 .. 2 * MaxGoals - 1 :
          /\ n = Head(feedback[c]).number
          /\ n < TrackingMod - 1 /\ Expected(c) <= n
    BY <1>1, FeedbackNumber DEF HandleFeedback
  <2>2. /\ clients' = [clients EXCEPT ![c] = Scanned(clients[c], n)]
        /\ handled' = [handled EXCEPT ![c] = handled[c] \union {n}]
    BY <1>1, <2>1 DEF HandleFeedback
  <2>3. Accounting!Arrive(c, n)
    BY <2>1, <2>2, AccountingScan
  <2> QED
    BY <2>3 DEF Accounting!Next
<1>2. ASSUME NEW c \in Clients, HandleResult(c)
      PROVE  [Accounting!Next]_(Accounting!vars)
  <2>1. PICK n \in 0 .. 2 * MaxGoals - 1 :
          n = result[c] /\ n < TrackingMod - 1 /\ Expected(c) <= n
    BY <1>2, ResultNumber DEF HandleResult, GoalGoto
  <2>2. /\ clients' = [clients EXCEPT ![c] = Scanned(clients[c], n)]
        /\ handled' = [handled EXCEPT ![c] = handled[c] \union {n}]
    BY <1>2, <2>1 DEF HandleResult
  <2>3. Accounting!Arrive(c, n)
    BY <2>1, <2>2, AccountingScan
  <2> QED
    BY <2>3 DEF Accounting!Next
<1>3. CASE UNCHANGED <<clients, handled>>
  BY <1>3 DEF Accounting!vars
<1>4. \/ \E c \in Clients : \/ HandleResult(c)
                            \/ /\ HandleFeedback(c)
                               /\ goal[c] \in {"running", "resultless"}
                               /\ Head(feedback[c]).goal = GoalNumber(c)
      \/ UNCHANGED <<clients, handled>>
  BY DEF Next, GoalStep, vars, clientVars, serverVars, Discover, SendGoal,
         ExecuteGoal, HandleGoalResponse, HandleFeedback, LoseGoal,
         LoseFeedback
<1> QED
  BY <1>1, <1>2, <1>3, <1>4

\* When each action has one client, the replies settle each other for good and
\* in increasing order: none that was counted as lost is scanned later
\* (performance_node_base_impl.hpp: feedback_callback, result_callback).
THEOREM AccountingImplemented ==
  ASSUME OneClientPerAction
  PROVE  Spec => ImplementsAccounting
<1>1. ReplyInv /\ [Next]_vars => ReplyInv'
  BY ReplyStep
<1> QED
  BY <1>1, ReplyInit, AccountingInit, AccountingStep, PTL
  DEF Spec, ImplementsAccounting, Accounting!Spec
=============================================================================
