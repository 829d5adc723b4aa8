----------------------------- MODULE SystemSpin -----------------------------
(***************************************************************************)
(* System::spin and ~System: the main thread starts a thread for each      *)
(* executor, sleeps for the duration of the experiment, stops the          *)
(* executors and, in the destructor, joins the threads.                    *)
(*                                                                         *)
(* The executors of rclcpp are external.  spin and                         *)
(* spin_until_future_complete raise the executor's `spinning' flag when    *)
(* they are entered and return once it is down, the context is shut down   *)
(* or, for the latter, the future is ready; cancel takes the flag down.    *)
(* spin_some returns by itself.                                            *)
(***************************************************************************)
EXTENDS FiniteSets

CONSTANTS
  Executors,
  Systems,         \* pairs of a spin type and a set of executors
  OwnerShutsDown   \* whether the program calls rclcpp::shutdown after spin

SpinTypes == {"SPIN", "SPIN_SOME", "SPIN_FUTURE_COMPLETE"}

ASSUME SystemSpinAssumption ==
  /\ Systems \subseteq SpinTypes \X (SUBSET Executors)
  /\ OwnerShutsDown \in BOOLEAN

VARIABLES
  m_spin_type,      \* how the executors are spun
  m_executors_map,  \* the executors of the system
  main,             \* where the main thread is
  todo,             \* the executors its present loop has yet to visit
  thread,           \* thread[e]: where the thread of executor e is
  spinning,         \* spinning[e]: the flag of executor e
  m_promise,        \* whether m_promise has its value
  futureTaken,      \* whether get_future has been called on m_promise
  ok,               \* rclcpp::ok()
  terminated        \* whether an exception left a thread

vars == <<m_spin_type, m_executors_map, main, todo, thread, spinning,
          m_promise, futureTaken, ok, terminated>>
configuration == <<m_spin_type, m_executors_map>>

-----------------------------------------------------------------------------
Init ==
  /\ \E system \in Systems :
       m_spin_type = system[1] /\ m_executors_map = system[2]
  /\ main = "start"
  /\ todo = m_executors_map
  /\ thread = [e \in Executors |-> "none"]
  /\ spinning = [e \in Executors |-> FALSE]
  /\ m_promise = FALSE
  /\ futureTaken = FALSE
  /\ ok = TRUE
  /\ terminated = FALSE

\* Where the two kinds of threads are; std::terminate stops them all.
MainAt(place) == ~terminated /\ main = place
ThreadAt(e, place) == ~terminated /\ thread[e] = place

\* The main thread is in the loop `from' and visits executor e; the last
\* visit leads to `to'.
Visit(e, from, to) ==
  /\ MainAt(from)
  /\ e \in todo
  /\ IF todo = {e} THEN main' = to /\ todo' = m_executors_map
                   ELSE main' = from /\ todo' = todo \ {e}

\* For the mutation runs: a thread for each executor there is, of whatever
\* system.
CreateEveryThread(e) ==
  /\ Visit(e, "start", "sleep")
  /\ thread' = [x \in Executors |-> "created"]
  /\ UNCHANGED <<configuration, spinning, m_promise, futureTaken, ok,
                 terminated>>

\* create_spin_thread.
CreateThread(e) ==
  /\ Visit(e, "start", "sleep")
  /\ thread' = [thread EXCEPT ![e] = "created"]
  /\ UNCHANGED <<configuration, spinning, m_promise, futureTaken, ok,
                 terminated>>

\* sleep_task returns: the duration is over, or the context is shut down.
Wake ==
  /\ MainAt("sleep")
  /\ main' = "cancel"
  /\ m_promise' = (m_spin_type = "SPIN_FUTURE_COMPLETE")
  /\ UNCHANGED <<configuration, todo, thread, spinning, futureTaken, ok,
                 terminated>>

\* sleep_task does not return: a shutdown runs its callbacks, one of which wants
\* the mutex of sleep_task, and sleep_task, at the end of the duration, wants
\* with that mutex the callbacks' (SleepTask has the steps of this).
BlockInSleep ==
  /\ MainAt("sleep") /\ ~ok
  /\ main' = "blocked"
  /\ UNCHANGED <<configuration, todo, thread, spinning, m_promise, futureTaken,
                 ok, terminated>>

\* executor->cancel(), at the end of spin and again in the destructor.
Cancel(e) ==
  /\ Visit(e, "cancel", "spun") \/ Visit(e, "cancel again", "join")
  /\ spinning' = [spinning EXCEPT ![e] = FALSE]
  /\ UNCHANGED <<configuration, thread, m_promise, futureTaken, ok,
                 terminated>>

\* The program goes on after spin: it calls rclcpp::shutdown ...
ShutDown ==
  /\ MainAt("spun")
  /\ ok' = FALSE
  /\ UNCHANGED <<configuration, main, todo, thread, spinning, m_promise,
                 futureTaken, terminated>>

\* ... and leaves the scope of the system.
Destroy ==
  /\ MainAt("spun")
  /\ main' = "cancel again"
  /\ UNCHANGED <<configuration, todo, thread, spinning, m_promise,
                 futureTaken, ok, terminated>>

\* For the mutation runs: a destructor that does not wait for the threads.
JoinWithoutWaiting(e) ==
  /\ Visit(e, "join", "destroyed")
  /\ UNCHANGED <<configuration, thread, spinning, m_promise, futureTaken, ok,
                 terminated>>

\* thread->join() in the destructor.
Join(e) ==
  /\ Visit(e, "join", "destroyed")
  /\ thread[e] = "ended"
  /\ UNCHANGED <<configuration, thread, spinning, m_promise, futureTaken, ok,
                 terminated>>

MainStep ==
  \/ Wake \/ BlockInSleep
  \/ OwnerShutsDown /\ ok /\ ShutDown
  \/ (OwnerShutsDown => ~ok) /\ Destroy
  \/ \E e \in Executors : CreateThread(e) \/ Cancel(e) \/ Join(e)

-----------------------------------------------------------------------------
\* get_future on a promise whose future has been taken throws, and nothing
\* in the thread catches it.
GetFuture ==
  IF m_spin_type = "SPIN_FUTURE_COMPLETE"
    THEN futureTaken' = TRUE /\ terminated' = futureTaken
    ELSE UNCHANGED <<futureTaken, terminated>>

\* The thread runs and enters its spin function.
EnterSpin(e) ==
  /\ ThreadAt(e, "created")
  /\ thread' = [thread EXCEPT ![e] = "looping"]
  /\ spinning' = [spinning EXCEPT ![e] = (m_spin_type # "SPIN_SOME")]
  /\ GetFuture
  /\ UNCHANGED <<configuration, main, todo, m_promise, ok>>

\* For the mutation runs: SPIN_SOME in a loop without a condition.
HasToStopForEver(e) ==
  CASE m_spin_type = "SPIN" -> ~ok \/ ~spinning[e]
    [] m_spin_type = "SPIN_SOME" -> FALSE
    [] OTHER -> ~ok \/ ~spinning[e] \/ m_promise

\* When the loop of the spin function, or around spin_some, ends.
HasToStop(e) ==
  CASE m_spin_type = "SPIN" -> ~ok \/ ~spinning[e]
    [] m_spin_type = "SPIN_SOME" -> ~ok
    [] OTHER -> ~ok \/ ~spinning[e] \/ m_promise

\* The executor runs a callback of one of its nodes.
BeginCallback(e) ==
  /\ ThreadAt(e, "looping")
  /\ ~HasToStop(e)
  /\ thread' = [thread EXCEPT ![e] = "callback"]
  /\ UNCHANGED <<configuration, main, todo, spinning, m_promise, futureTaken,
                 ok, terminated>>

EndCallback(e) ==
  /\ ThreadAt(e, "callback")
  /\ thread' = [thread EXCEPT ![e] = "looping"]
  /\ UNCHANGED <<configuration, main, todo, spinning, m_promise, futureTaken,
                 ok, terminated>>

LeaveSpin(e) ==
  /\ ThreadAt(e, "looping")
  /\ HasToStop(e)
  /\ thread' = [thread EXCEPT ![e] = "ended"]
  /\ UNCHANGED <<configuration, main, todo, spinning, m_promise, futureTaken,
                 ok, terminated>>

ThreadStep(e) ==
  \/ EnterSpin(e)
  \/ BeginCallback(e)
  \/ EndCallback(e)
  \/ LeaveSpin(e)

\* A signal: the handler of rclcpp shuts the context down.
Signal ==
  /\ ok /\ ~terminated
  /\ ok' = FALSE
  /\ UNCHANGED <<configuration, main, todo, thread, spinning, m_promise,
                 futureTaken, terminated>>

Next ==
  \/ MainStep
  \/ Signal
  \/ \E e \in Executors : ThreadStep(e)

\* Threads are scheduled and callbacks return; a signal need not come.
Spec ==
  /\ Init /\ [][Next]_vars
  /\ WF_vars(MainStep)
  /\ \A e \in Executors : WF_vars(ThreadStep(e))

-----------------------------------------------------------------------------
\* The types of the variables.
TypeOK ==
  /\ m_spin_type \in SpinTypes
  /\ todo \subseteq m_executors_map /\ m_executors_map \subseteq Executors
  /\ main \in {"start", "sleep", "blocked", "cancel", "spun", "cancel again",
               "join", "destroyed"}
  /\ thread \in [Executors ->
                   {"none", "created", "looping", "callback", "ended"}]
  /\ spinning \in [Executors -> BOOLEAN]
  /\ m_promise \in BOOLEAN /\ futureTaken \in BOOLEAN
  /\ ok \in BOOLEAN /\ terminated \in BOOLEAN
  /\ \A e \in Executors : thread[e] # "none" => e \in m_executors_map

\* The nodes and their trackers die with the system: when it is destroyed,
\* no thread is in a callback or could still enter one (~System).
NoThreadOutlivesSystem ==
  main = "destroyed" => \A e \in m_executors_map : thread[e] = "ended"

\* After the timer all the spin functions stop (system.cpp: "after the timer,
\* stop all the spin functions"), even one entered after the cancel.
SpinFunctionsStop ==
  main = "spun" ~> \A e \in m_executors_map : thread[e] = "ended"

\* Each executor spins in a thread of its own (system.cpp: "Spin each executor
\* in a separate thread"): a thread that starts spinning, after whatever
\* others, does not end the program.  The code promises more than it keeps: two
\* executors that spin until the future is complete share one promise.
EachExecutorSpins ==
  [][\A e \in Executors :
       thread[e] = "created" /\ thread'[e] # "created" => ~terminated']_vars
=============================================================================
