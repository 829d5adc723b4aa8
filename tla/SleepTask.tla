----------------------------- MODULE SleepTask -----------------------------
(***************************************************************************)
(* sleep_task: threads that sleep until a deadline or until rclcpp shuts   *)
(* down, whichever is first, and the thread that shuts down.               *)
(*                                                                         *)
(* rclcpp::Context is external.  It keeps the shutdown callbacks behind a  *)
(* mutex; add_ and remove_on_shutdown_callback take it, and shutdown holds *)
(* it while it runs the callbacks.  Without that, remove could return, and *)
(* the sleeper's stack frame die, under a running callback.                *)
(*                                                                         *)
(* Spurious wake-ups are left out: the loop of wait_until turns them into  *)
(* the same steps as a notification.                                       *)
(***************************************************************************)
EXTENDS Naturals, FiniteSets

CONSTANTS
  Sleepers,   \* threads that call sleep_task
  Expiring    \* those whose deadline may pass during the run

ASSUME SleepTaskAssumption == Expiring \subseteq Sleepers

VARIABLES
  pc,              \* pc[s]: where sleeper s is in sleep_task
  mtx,             \* mtx[s]: who holds the local mutex of s
  triggered,       \* triggered[s]: the local flag of s
  callbacks,       \* sleepers with a registered shutdown callback
  callbacksMutex,  \* whether shutdown holds the mutex of the callbacks
  shutdown,        \* where the thread in rclcpp::shutdown is
  toCall,          \* callbacks shutdown has yet to run
  current          \* the sleeper whose callback runs, as a set

vars == <<pc, mtx, triggered, callbacks, callbacksMutex, shutdown, toCall,
          current>>

-----------------------------------------------------------------------------
Init ==
  /\ pc = [s \in Sleepers |-> "register"]
  /\ mtx = [s \in Sleepers |-> "free"]
  /\ triggered = [s \in Sleepers |-> FALSE]
  /\ callbacks = {}
  /\ callbacksMutex = FALSE
  /\ shutdown = "idle"
  /\ toCall = {}
  /\ current = {}

Goto(s, from, to) == pc[s] = from /\ pc' = [pc EXCEPT ![s] = to]

Acquire(s, owner) == mtx[s] = "free" /\ mtx' = [mtx EXCEPT ![s] = owner]
Release(s) == mtx' = [mtx EXCEPT ![s] = "free"]

\* add_on_shutdown_callback.
Register(s) ==
  /\ Goto(s, "register", "lock")
  /\ ~callbacksMutex
  /\ callbacks' = callbacks \union {s}
  /\ UNCHANGED <<mtx, triggered, callbacksMutex, shutdown, toCall, current>>

\* std::unique_lock lock(mtx).
Lock(s) ==
  /\ Goto(s, "lock", "check")
  /\ Acquire(s, "sleeper")
  /\ UNCHANGED <<triggered, callbacks, callbacksMutex, shutdown, toCall,
                 current>>

\* For the mutation runs: wait_until without its predicate.
CheckWithoutPredicate(s) ==
  /\ Goto(s, "check", "waiting")
  /\ Release(s)
  /\ UNCHANGED <<triggered, callbacks, callbacksMutex, shutdown, toCall,
                 current>>

\* wait_until evaluates its predicate, with the mutex held: it returns, or
\* releases the mutex and waits in one step.
Check(s) ==
  /\ \/ triggered[s] /\ Goto(s, "check", "remove") /\ UNCHANGED mtx
     \/ ~triggered[s] /\ Goto(s, "check", "waiting") /\ Release(s)
  /\ UNCHANGED <<triggered, callbacks, callbacksMutex, shutdown, toCall,
                 current>>

\* wake_up_time passes.
TimeOut(s) ==
  /\ s \in Expiring
  /\ Goto(s, "waiting", "expired")
  /\ UNCHANGED <<mtx, triggered, callbacks, callbacksMutex, shutdown, toCall,
                 current>>

\* A waiter takes the mutex back: notified, it evaluates the predicate
\* again; past its deadline, it leaves the wait.
Reacquire(s) ==
  /\ Goto(s, "woken", "check") \/ Goto(s, "expired", "remove")
  /\ Acquire(s, "sleeper")
  /\ UNCHANGED <<triggered, callbacks, callbacksMutex, shutdown, toCall,
                 current>>

\* For the mutation runs: returning without remove_on_shutdown_callback.
RemoveForgotten(s) ==
  /\ Goto(s, "remove", "returned")
  /\ Release(s)
  /\ UNCHANGED <<triggered, callbacks, callbacksMutex, shutdown, toCall,
                 current>>

\* remove_on_shutdown_callback, still with the local mutex held; the return
\* that follows releases it.
Remove(s) ==
  /\ Goto(s, "remove", "returned")
  /\ ~callbacksMutex
  /\ callbacks' = callbacks \ {s}
  /\ Release(s)
  /\ UNCHANGED <<triggered, callbacksMutex, shutdown, toCall, current>>

Sleeper(s) ==
  \/ Register(s)
  \/ Lock(s)
  \/ Check(s)
  \/ Reacquire(s)
  \/ Remove(s)

-----------------------------------------------------------------------------
\* rclcpp::shutdown takes the mutex of the callbacks.
BeginShutdown ==
  /\ shutdown = "idle"
  /\ callbacksMutex' = TRUE
  /\ shutdown' = "pick"
  /\ toCall' = callbacks
  /\ UNCHANGED <<pc, mtx, triggered, callbacks, current>>

PickCallback(s) ==
  /\ shutdown = "pick"
  /\ s \in toCall
  /\ shutdown' = "set"
  /\ current' = current \union {s}
  /\ toCall' = toCall \ {s}
  /\ UNCHANGED <<pc, mtx, triggered, callbacks, callbacksMutex>>

\* The callback's critical section.
SetTriggered(s) ==
  /\ shutdown = "set"
  /\ s \in current
  /\ mtx[s] = "free"
  /\ triggered' = [triggered EXCEPT ![s] = TRUE]
  /\ shutdown' = "notify"
  /\ UNCHANGED <<pc, mtx, callbacks, callbacksMutex, toCall, current>>

\* For the mutation runs: the callback taken for running for ever.
NotifyAllUnfinished(s) ==
  /\ shutdown = "notify"
  /\ s \in current
  /\ pc' = [pc EXCEPT ![s] = IF @ = "waiting" THEN "woken" ELSE @]
  /\ shutdown' = "pick"
  /\ UNCHANGED <<mtx, triggered, callbacks, callbacksMutex, toCall, current>>

\* cv.notify_all(), the end of the callback.
NotifyAll(s) ==
  /\ shutdown = "notify"
  /\ s \in current
  /\ pc' = [pc EXCEPT ![s] = IF @ = "waiting" THEN "woken" ELSE @]
  /\ shutdown' = "pick"
  /\ current' = current \ {s}
  /\ UNCHANGED <<mtx, triggered, callbacks, callbacksMutex, toCall>>

EndShutdown ==
  /\ shutdown = "pick"
  /\ toCall = {}
  /\ shutdown' = "done"
  /\ callbacksMutex' = FALSE
  /\ UNCHANGED <<pc, mtx, triggered, callbacks, toCall, current>>

RunCallbacks ==
  \/ EndShutdown
  \/ \E s \in Sleepers : PickCallback(s) \/ SetTriggered(s) \/ NotifyAll(s)

Next ==
  \/ \E s \in Sleepers : Sleeper(s) \/ TimeOut(s)
  \/ BeginShutdown
  \/ RunCallbacks

\* Threads are scheduled; nothing forces a shutdown to begin.
Fairness ==
  /\ \A s \in Sleepers : WF_vars(Sleeper(s)) /\ WF_vars(TimeOut(s))
  /\ WF_vars(RunCallbacks)

Spec == Init /\ [][Next]_vars /\ Fairness

-----------------------------------------------------------------------------
\* The types of the variables.
TypeOK ==
  /\ pc \in [Sleepers -> {"register", "lock", "check", "waiting", "woken",
                          "expired", "remove", "returned"}]
  /\ mtx \in [Sleepers -> {"free", "sleeper"}]
  /\ triggered \in [Sleepers -> BOOLEAN]
  /\ callbacks \subseteq Sleepers
  /\ callbacksMutex \in BOOLEAN
  /\ shutdown \in {"idle", "pick", "set", "notify", "done"}
  /\ toCall \subseteq Sleepers
  /\ current \subseteq Sleepers /\ Cardinality(current) <= 1

\* The callback captures the sleeper's mutex, flag and condition variable by
\* reference: once sleep_task has returned, its callback neither runs nor is
\* ever going to.
NoDanglingCallback ==
  \A s \in Sleepers :
    pc[s] = "returned" => s \notin callbacks \union toCall \union current

\* The shutdown is in the callback of a sleeper that is past its deadline and
\* keeps the mutex the callback wants.
CrossedMutexes ==
  \E s \in current : shutdown = "set" /\ pc[s] = "remove" /\ mtx[s] = "sleeper"

\* A shutdown ends every sleep whose callback it found, wherever the sleeper
\* was at the time: no wake-up is lost.  The only thing that can keep it from
\* doing so is a deadline that passes while it runs the callback.
WokenByShutdown ==
  \A s \in Sleepers : s \in toCall ~> (pc[s] = "returned" \/ CrossedMutexes)

\* A sleep whose deadline passes ends, shutdown or not
\* (performance_test/test/test_executors.cpp: "Shutdown, this should also
\* wake up the thread").
SleepEnds ==
  \A s \in Expiring : pc[s] = "waiting" ~> pc[s] = "returned"
=============================================================================
