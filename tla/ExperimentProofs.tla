-------------------------- MODULE ExperimentProofs --------------------------
(***************************************************************************)
(* Theorems about Experiment, for any programs that stop the logger they   *)
(* start and that wait, after a shutdown, before they report, any number   *)
(* of executors and any callbacks.                                         *)
(***************************************************************************)
EXTENDS Experiment, TLAPS

-----------------------------------------------------------------------------
(* The inductive invariant. *)

\* Where the main thread and the threads of the executors are.
PlaceInv ==
  /\ program \in Programs
  /\ at \in 1 .. Len(program.steps) + 1
  /\ m_executors_map \subseteq Executors
  /\ DOMAIN thread = Executors

\* ~System runs after the last step, and joins one thread after the other.
JoinInv ==
  /\ main \in {"cancel again", "join", "destroyed"} => Over
  /\ main = "join" =>
       \A e \in m_executors_map \ todo : thread[e] = "ended"
  /\ main = "destroyed" =>
       \A e \in m_executors_map : thread[e] = "ended"

\* Each start of the logger before step k was followed by a join.
Joined(k) ==
  \A i \in 1 .. k - 1 :
    program.steps[i] = "start logger" =>
      \E j \in i + 1 .. k - 1 : program.steps[j] = "join logger"

LoggerInv == Joined(at) => logger \in {"none", "ended"}

Inv == PlaceInv /\ JoinInv /\ LoggerInv

-----------------------------------------------------------------------------
\* A program has a number of steps.
LEMMA StepsCounted ==
  ASSUME NEW p \in Programs
  PROVE  Len(p.steps) \in Nat
<1>1. p.steps \in Seq(STRING)
  BY ProgramsAssumption
<1> QED
  BY <1>1

\* The place in the program is an index, or the one after the last.
LEMMA PlaceCounted ==
  ASSUME PlaceInv
  PROVE  /\ Len(program.steps) \in Nat
         /\ at \in Nat /\ 1 <= at /\ at <= Len(program.steps) + 1
<1>1. Len(program.steps) \in Nat
  BY StepsCounted DEF PlaceInv
<1>2. at \in 1 .. Len(program.steps) + 1
  BY DEF PlaceInv
<1> QED
  BY <1>1, <1>2

\* What was before place a of a program is before the next place b, where
\* only a itself is added.
LEMMA IndexBefore ==
  ASSUME NEW a \in Nat, 1 <= a, NEW b, b = a \/ b = a + 1,
         NEW i \in 1 .. a - 1
  PROVE  /\ i \in 1 .. b - 1
         /\ \A j \in i + 1 .. b - 1 : j # a \/ b = a => j \in i + 1 .. a - 1
OBVIOUS

\* Initially nothing has been started.
LEMMA InvInit == ExperimentInit => Inv
<1> SUFFICES ASSUME ExperimentInit
             PROVE  Inv
  OBVIOUS
<1>1. Len(program.steps) \in Nat
  BY StepsCounted DEF ExperimentInit
<1>2. PlaceInv
  BY <1>1, SystemSpinAssumption DEF ExperimentInit, Init, PlaceInv
<1>3. JoinInv /\ LoggerInv
  BY DEF ExperimentInit, Init, JoinInv, LoggerInv
<1> QED
  BY <1>2, <1>3 DEF Inv

\* A step of main, other than of the system's, neither starts nor joins the
\* logger: what was joined before it is joined after it, and conversely.
LEMMA ProceedJoined ==
  ASSUME PlaceInv, LoggerInv,
         at' = at \/ (Proceed /\ at <= Len(program.steps)),
         UNCHANGED <<program, logger>>,
         at' # at => program.steps[at] # "join logger"
  PROVE  LoggerInv'
<1> SUFFICES ASSUME Joined(at)'
             PROVE  logger \in {"none", "ended"}
  BY DEF LoggerInv
<1>1. at \in Nat /\ 1 <= at
  BY PlaceCounted
<1>2. Joined(at)
  <2> SUFFICES ASSUME NEW i \in 1 .. at - 1,
                      program.steps[i] = "start logger"
               PROVE  \E j \in i + 1 .. at - 1 :
                        program.steps[j] = "join logger"
    BY DEF Joined
  <2>1. at' = at \/ at' = at + 1
    BY DEF Proceed
  <2>2. i \in 1 .. at' - 1
    BY ONLY <1>1, <2>1, i \in 1 .. at - 1, IndexBefore
  <2>3. PICK j \in i + 1 .. at' - 1 : program.steps[j] = "join logger"
    BY <2>2 DEF Joined
  <2>4. j # at \/ at' = at
    BY <2>3
  <2>5. j \in i + 1 .. at - 1
    BY ONLY <1>1, <2>1, <2>4, i \in 1 .. at - 1, j \in i + 1 .. at' - 1,
            IndexBefore
  <2> QED
    BY <2>3, <2>5
<1> QED
  BY <1>2 DEF LoggerInv

\* The places of the main thread and of the threads of the executors stay
\* what they are, but for the step the main function is at.
SystemUnchanged == UNCHANGED <<main, todo, thread, m_executors_map>>

\* A step of main that leaves the system alone.
LEMMA ProceedStep ==
  ASSUME PlaceInv, JoinInv, SystemUnchanged, UNCHANGED program,
         at' = at \/ (Proceed /\ at <= Len(program.steps))
  PROVE  PlaceInv' /\ JoinInv'
<1>1. Len(program.steps) \in Nat
  BY StepsCounted DEF PlaceInv
<1>2. PlaceInv'
  <2>1. CASE at' = at
    BY <2>1 DEF PlaceInv, SystemUnchanged
  <2>2. CASE Proceed /\ at <= Len(program.steps)
    BY <1>1, <2>2 DEF PlaceInv, SystemUnchanged, Proceed
  <2> QED
    BY <2>1, <2>2
<1>3. Over => ~(Proceed /\ at <= Len(program.steps))
  BY <1>1 DEF PlaceInv, Over
<1>4. Over => Over'
  BY <1>3 DEF Over
<1>5. JoinInv'
  BY <1>4 DEF JoinInv, SystemUnchanged
<1> QED
  BY <1>2, <1>5

\* The steps that concern the logger, discovery, the shutdown and the reports.
LEMMA QuietStep ==
  ASSUME Inv,
         \/ SetLatencyCallback \/ WaitDiscovery \/ ClearLogging
         \/ ShutDownRclcpp \/ SleepGrace \/ Report \/ DestroyNodes
  PROVE  Inv'
<1>1. /\ SystemUnchanged
      /\ UNCHANGED <<program, logger>>
      /\ at' = at \/ (Proceed /\ at <= Len(program.steps)
                          /\ program.steps[at] # "join logger")
  <2>1. CASE SetLatencyCallback
    BY <2>1 DEF SetLatencyCallback, vars, SystemUnchanged, Doing
  <2>2. CASE WaitDiscovery
    BY <2>2 DEF WaitDiscovery, configuration, SystemUnchanged, Doing
  <2>3. CASE ClearLogging
    BY <2>3 DEF ClearLogging, vars, SystemUnchanged, Doing
  <2>4. CASE ShutDownRclcpp
    BY <2>4 DEF ShutDownRclcpp, ShutDown, configuration, SystemUnchanged, Doing
  <2>5. CASE SleepGrace
    BY <2>5 DEF SleepGrace, vars, SystemUnchanged, Doing
  <2>6. CASE Report
    BY <2>6 DEF Report, Reported, Reports, vars, SystemUnchanged, Doing
  <2>7. CASE DestroyNodes
    BY <2>7 DEF DestroyNodes, vars, SystemUnchanged
  <2> QED
    BY <2>1, <2>2, <2>3, <2>4, <2>5, <2>6, <2>7
<1>2. PlaceInv' /\ JoinInv'
  BY <1>1, ProceedStep DEF Inv
<1>3. LoggerInv'
  BY <1>1, ProceedJoined DEF Inv
<1> QED
  BY <1>2, <1>3 DEF Inv

\* The start of the logger, which no join has followed yet.
LEMMA StartStep ==
  ASSUME Inv, StartLogger
  PROVE  Inv'
<1>1. /\ SystemUnchanged /\ UNCHANGED program
      /\ Proceed /\ at <= Len(program.steps)
      /\ program.steps[at] = "start logger"
  BY DEF StartLogger, vars, SystemUnchanged, Doing
<1>2. PlaceInv' /\ JoinInv'
  BY <1>1, ProceedStep DEF Inv
<1>3. at \in 1 .. at' - 1 /\ at + 1 .. at' - 1 = {}
  <2>1. at \in Nat /\ 1 <= at
    BY PlaceCounted DEF Inv
  <2>2. at' = at + 1
    BY <1>1 DEF Proceed
  <2> QED
    BY <2>1, <2>2
<1>4. ~Joined(at)'
  BY <1>1, <1>3 DEF Joined
<1>5. LoggerInv'
  BY <1>4 DEF LoggerInv
<1> QED
  BY <1>2, <1>5 DEF Inv

\* The join of the logger.
LEMMA JoinLoggerStep ==
  ASSUME Inv, JoinLogger
  PROVE  Inv'
<1>1. /\ SystemUnchanged /\ UNCHANGED <<program, logger>>
      /\ Proceed /\ at <= Len(program.steps)
      /\ logger \in {"none", "ended"}
  BY DEF JoinLogger, vars, SystemUnchanged, Doing
<1>2. PlaceInv' /\ JoinInv'
  BY <1>1, ProceedStep DEF Inv
<1>3. LoggerInv'
  BY <1>1 DEF LoggerInv
<1> QED
  BY <1>2, <1>3 DEF Inv

\* spin: its main thread is not yet where the destructor is.
LEMMA SpinStep ==
  ASSUME Inv, Spin
  PROVE  Inv'
<1>1. /\ UNCHANGED <<program, logger, m_executors_map>>
      /\ at' = at \/ (Proceed /\ at <= Len(program.steps)
                          /\ program.steps[at] # "join logger")
  BY DEF Spin, Doing, Wake, BlockInSleep, CreateThread, Cancel, configuration
<1>2. at <= Len(program.steps)
  BY DEF Spin, Doing
<1>3. Len(program.steps) \in Nat
  BY StepsCounted DEF Inv, PlaceInv
<1>4. ~Over
  BY <1>2, <1>3 DEF Inv, PlaceInv, Over
<1>5. main \notin {"cancel again", "join", "destroyed"}
  BY <1>4 DEF Inv, JoinInv
<1>6. /\ main' \notin {"cancel again", "join", "destroyed"}
      /\ DOMAIN thread' = DOMAIN thread
  <2>1. CASE Wake \/ BlockInSleep
    BY <2>1 DEF Wake, BlockInSleep
  <2>2. ASSUME NEW e \in Executors, CreateThread(e)
        PROVE  <1>6
    BY <2>2 DEF CreateThread, Visit
  <2>3. ASSUME NEW e \in Executors, Cancel(e)
        PROVE  <1>6
    BY <1>5, <2>3 DEF Cancel, Visit, MainAt
  <2> QED
    BY <2>1, <2>2, <2>3 DEF Spin
<1>7. PlaceInv'
  <2>1. at \in Nat /\ 1 <= at
    BY PlaceCounted DEF Inv
  <2>2. at' = at \/ at' = at + 1
    BY <1>1 DEF Proceed
  <2>3. at' \in 1 .. Len(program.steps) + 1
    BY ONLY <1>2, <1>3, <2>1, <2>2
  <2> QED
    BY <1>1, <1>6, <2>3 DEF Inv, PlaceInv
<1>8. JoinInv'
  BY <1>6 DEF JoinInv
<1>9. LoggerInv'
  BY <1>1, ProceedJoined DEF Inv
<1> QED
  BY <1>7, <1>8, <1>9 DEF Inv

\* The destructor of the system.
LEMMA EndStep ==
  ASSUME Inv, EndScope
  PROVE  Inv'
<1>1. /\ Over /\ Over' /\ UNCHANGED <<program, at, logger>>
      /\ UNCHANGED <<m_executors_map, thread>>
  BY DEF EndScope, experimentVars, Over, Destroy, Cancel, Join, configuration
<1>2. PlaceInv' /\ LoggerInv'
  BY <1>1 DEF Inv, PlaceInv, LoggerInv, Joined
<1>3. JoinInv'
  <2>1. CASE Destroy
    BY <1>1, <2>1 DEF Destroy, JoinInv
  <2>2. ASSUME NEW e \in Executors, Cancel(e)
        PROVE  JoinInv'
    BY <1>1, <2>2 DEF Cancel, Visit, MainAt, JoinInv
  <2>3. ASSUME NEW e \in Executors, Join(e)
        PROVE  JoinInv'
    BY <1>1, <2>3 DEF Join, Visit, MainAt, Inv, JoinInv
  <2> QED
    BY <2>1, <2>2, <2>3 DEF EndScope
<1> QED
  BY <1>2, <1>3 DEF Inv

\* A step of an executor's thread: one that has ended takes none.
LEMMA ThreadStepInv ==
  ASSUME Inv, NEW e \in Executors, ExecutorStep(e)
  PROVE  Inv'
<1>1. UNCHANGED <<main, todo, m_executors_map, program, at, logger>>
  BY DEF ExecutorStep, ThreadStep, EnterSpin, BeginCallback, EndCallback,
         LeaveSpin, configuration
<1>2. thread[e] # "ended"
  BY DEF ExecutorStep, ThreadStep, EnterSpin, BeginCallback, EndCallback,
         LeaveSpin, ThreadAt
<1>3. /\ DOMAIN thread' = DOMAIN thread
      /\ \A x \in Executors : thread[x] = "ended" => thread'[x] = "ended"
  BY <1>2 DEF ExecutorStep, ThreadStep, EnterSpin, BeginCallback, EndCallback,
         LeaveSpin, Inv, PlaceInv
<1>4. PlaceInv' /\ LoggerInv'
  BY <1>1, <1>3 DEF Inv, PlaceInv, LoggerInv, Joined
<1>5. JoinInv'
  BY <1>1, <1>3 DEF Inv, PlaceInv, JoinInv, Over
<1> QED
  BY <1>4, <1>5 DEF Inv

\* A step of the logger's thread, a signal, or nothing at all.
LEMMA OtherStep ==
  ASSUME Inv,
         \/ LoggerStep
         \/ Signal /\ UNCHANGED experimentVars
         \/ UNCHANGED allVars
  PROVE  Inv'
<1>1. UNCHANGED <<main, todo, thread, m_executors_map, program, at>>
  BY DEF LoggerStep, Signal, experimentVars, allVars, vars, configuration
<1>2. logger \in {"none", "ended"} => UNCHANGED logger
  BY DEF LoggerStep, Signal, experimentVars, allVars
<1>3. PlaceInv' /\ JoinInv'
  BY <1>1 DEF Inv, PlaceInv, JoinInv, Over
<1>4. LoggerInv'
  BY <1>1, <1>2 DEF Inv, LoggerInv, Joined
<1> QED
  BY <1>3, <1>4 DEF Inv

\* Every step keeps the invariant.
LEMMA InvStep == Inv /\ [ExperimentNext]_allVars => Inv'
<1> SUFFICES ASSUME Inv, [ExperimentNext]_allVars
             PROVE  Inv'
  OBVIOUS
<1>1. CASE ProgramStep
  BY <1>1, QuietStep, StartStep, JoinLoggerStep, SpinStep, EndStep
     DEF ProgramStep
<1>2. CASE \E e \in Executors : ExecutorStep(e)
  BY <1>2, ThreadStepInv
<1>3. CASE LoggerStep \/ (Signal /\ UNCHANGED experimentVars)
             \/ UNCHANGED allVars
  BY <1>3, OtherStep
<1> QED
  BY <1>1, <1>2, <1>3 DEF ExperimentNext

\* When the destructor is over, every thread has been joined, and every start
\* of the logger was followed by a join.
LEMMA InvSafe == Inv => NothingOutlivesSystem
<1> SUFFICES ASSUME Inv, main = "destroyed"
             PROVE  /\ \A e \in m_executors_map : thread[e] = "ended"
                    /\ logger \in {"none", "ended"}
  BY DEF NothingOutlivesSystem
<1>1. Len(program.steps) \in Nat
  BY StepsCounted DEF Inv, PlaceInv
<1>2. at = Len(program.steps) + 1
  BY <1>1 DEF Inv, PlaceInv, JoinInv, Over
<1>3. 1 .. at - 1 = 1 .. Len(program.steps)
  BY <1>1, <1>2
<1>4. \A i \in 1 .. at - 1 : i + 1 .. at - 1 = i + 1 .. Len(program.steps)
  BY <1>1, <1>2
<1>5. Joined(at)
  BY <1>3, <1>4, ProgramsAssumption DEF Joined, Inv, PlaceInv
<1> QED
  BY <1>5 DEF Inv, JoinInv, LoggerInv

\* Whatever program runs on whatever executors: once its system is destroyed,
\* no thread of an executor and no sample of the logger uses the system.
THEOREM NothingOutlives == ExperimentSpec => []NothingOutlivesSystem
<1> QED
  BY InvInit, InvStep, InvSafe, PTL DEF ExperimentSpec

-----------------------------------------------------------------------------
(* Type correctness. *)

\* Initially nothing has been started.
LEMMA TypeInit == ExperimentInit => ExperimentTypeOK
<1> SUFFICES ASSUME ExperimentInit PROVE ExperimentTypeOK
  OBVIOUS
<1>1. PlaceInv
  BY InvInit DEF Inv
<1>2. PICK system \in Systems :
        m_spin_type = system[1] /\ m_executors_map = system[2]
  BY DEF ExperimentInit, Init
<1>3. m_spin_type \in SpinTypes /\ m_executors_map \subseteq Executors
  BY <1>2, SystemSpinAssumption
<1>4. TypeOK
  BY <1>3 DEF ExperimentInit, Init, TypeOK
<1>5. 0 \in 0 .. MaxReceived
  BY ExperimentAssumption
<1>6. received \in [Executors -> 0 .. MaxReceived]
  BY <1>5 DEF ExperimentInit
<1>7. NoCounts \in UNION {[S -> 0 .. MaxReceived] :
                            S \in SUBSET m_executors_map}
  <2>1. NoCounts \in [{} -> 0 .. MaxReceived]
    BY DEF NoCounts
  <2> QED
    BY <2>1
<1> HIDE DEF NoCounts
<1>8. report \in [Reports -> UNION {[S -> 0 .. MaxReceived] :
                                      S \in SUBSET m_executors_map}]
  BY <1>7 DEF ExperimentInit
<1> QED
  BY <1>1, <1>4, <1>6, <1>8 DEF ExperimentInit, ExperimentTypeOK, PlaceInv

\* A step of the main thread within the system.
LEMMA MainType ==
  ASSUME TypeOK,
         \/ Wake \/ BlockInSleep \/ Destroy \/ ShutDown
         \/ \E e \in Executors : CreateThread(e) \/ Cancel(e) \/ Join(e)
  PROVE  TypeOK' /\ UNCHANGED configuration
<1>1. CASE Wake \/ BlockInSleep \/ Destroy \/ ShutDown
  BY <1>1 DEF TypeOK, Wake, BlockInSleep, Destroy, ShutDown, configuration
<1>2. ASSUME NEW e \in Executors, CreateThread(e)
      PROVE  TypeOK' /\ UNCHANGED configuration
  <2>1. /\ e \in m_executors_map
        /\ todo' \subseteq m_executors_map /\ main' \in {"start", "sleep"}
    BY <1>2 DEF TypeOK, CreateThread, Visit
  <2> QED
    BY <1>2, <2>1 DEF TypeOK, CreateThread, configuration
<1>3. ASSUME NEW e \in Executors, Cancel(e)
      PROVE  TypeOK' /\ UNCHANGED configuration
  <2>1. /\ todo' \subseteq m_executors_map
        /\ main' \in {"cancel", "spun", "cancel again", "join"}
    BY <1>3 DEF TypeOK, Cancel, Visit
  <2> QED
    BY <1>3, <2>1 DEF TypeOK, Cancel, configuration
<1>4. ASSUME NEW e \in Executors, Join(e)
      PROVE  TypeOK' /\ UNCHANGED configuration
  <2>1. /\ todo' \subseteq m_executors_map
        /\ main' \in {"join", "destroyed"}
    BY <1>4 DEF TypeOK, Join, Visit
  <2> QED
    BY <1>4, <2>1 DEF TypeOK, Join, configuration
<1> QED
  BY <1>1, <1>2, <1>3, <1>4

\* A step of an executor's thread.
LEMMA ThreadType ==
  ASSUME TypeOK, NEW e \in Executors, ThreadStep(e)
  PROVE  TypeOK' /\ UNCHANGED configuration
<1>1. CASE EnterSpin(e)
  <2>1. futureTaken' \in BOOLEAN /\ terminated' \in BOOLEAN
    BY <1>1 DEF TypeOK, EnterSpin, GetFuture
  <2>2. spinning' \in [Executors -> BOOLEAN]
    BY <1>1 DEF TypeOK, EnterSpin
  <2> QED
    BY <1>1, <2>1, <2>2 DEF TypeOK, EnterSpin, ThreadAt, configuration
<1>2. CASE BeginCallback(e) \/ EndCallback(e) \/ LeaveSpin(e)
  BY <1>2 DEF TypeOK, BeginCallback, EndCallback, LeaveSpin, ThreadAt,
              configuration
<1> QED
  BY <1>1, <1>2 DEF ThreadStep

\* The next place in the program is one, too.
LEMMA ProceedType ==
  ASSUME ExperimentTypeOK, UNCHANGED program,
         at' = at \/ (Proceed /\ at <= Len(program.steps))
  PROVE  at' \in 1 .. Len(program.steps) + 1
<1>1. Len(program.steps) \in Nat /\ at \in 1 .. Len(program.steps) + 1
  BY StepsCounted DEF ExperimentTypeOK
<1>2. at' = at \/ (at' = at + 1 /\ at <= Len(program.steps))
  BY DEF Proceed
<1> QED
  BY ONLY <1>1, <1>2

\* A report to which the counts of one more executor are added.
LEMMA ReportedType ==
  ASSUME ExperimentTypeOK, NEW r \in Reports, NEW e \in m_executors_map,
         report' = [report EXCEPT ![r] = WithCount(@, e)]
  PROVE  report' \in [Reports -> UNION {[S -> 0 .. MaxReceived] :
                                          S \in SUBSET m_executors_map}]
<1> DEFINE Counts ==
      UNION {[S -> 0 .. MaxReceived] : S \in SUBSET m_executors_map}
<1>1. report \in [Reports -> Counts]
  BY DEF ExperimentTypeOK
<1>2. PICK S \in SUBSET m_executors_map : report[r] \in [S -> 0 .. MaxReceived]
  BY <1>1
<1>3. received[e] \in 0 .. MaxReceived
  BY DEF ExperimentTypeOK, TypeOK
<1>4. WithCount(report[r], e) \in [S \union {e} -> 0 .. MaxReceived]
  BY <1>2, <1>3 DEF WithCount
<1>5. WithCount(report[r], e) \in Counts
  BY <1>4
<1> HIDE DEF Counts
<1>6. report' \in [Reports -> Counts]
  BY <1>1, <1>5
<1> QED
  BY <1>6 DEF Counts

\* A step of the main function keeps the types.
LEMMA ProgramType ==
  ASSUME ExperimentTypeOK, ProgramStep
  PROVE  ExperimentTypeOK'
<1> DEFINE Quantities == <<received, report>>
           Flags == <<logger, m_is_logging, callback>>
<1>1. CASE StartLogger \/ SetLatencyCallback \/ ClearLogging \/ JoinLogger
             \/ SleepGrace
  <2>1. /\ UNCHANGED <<vars, program, received, report>>
        /\ Proceed /\ at <= Len(program.steps)
    BY <1>1 DEF StartLogger, SetLatencyCallback, ClearLogging, JoinLogger,
                SleepGrace, Doing
  <2>2. at' \in 1 .. Len(program.steps) + 1
    BY <2>1, ProceedType
  <2>3. /\ logger' \in {"none", "asleep", "in the system", "sampled", "ended"}
        /\ m_is_logging' \in BOOLEAN /\ callback' \in BOOLEAN
    BY <1>1 DEF ExperimentTypeOK, StartLogger, SetLatencyCallback,
                ClearLogging, JoinLogger, SleepGrace
  <2> QED
    BY <2>1, <2>2, <2>3 DEF ExperimentTypeOK, TypeOK, vars
<1>2. CASE WaitDiscovery
  <2>1. at' \in 1 .. Len(program.steps) + 1
    <3>1. at' = at \/ (Proceed /\ at <= Len(program.steps))
      BY <1>2 DEF WaitDiscovery, Doing
    <3> QED
      BY <1>2, <3>1, ProceedType DEF WaitDiscovery
  <2>2. terminated' \in BOOLEAN
    BY <1>2 DEF ExperimentTypeOK, TypeOK, WaitDiscovery
  <2>3. TypeOK'
    BY <1>2, <2>2 DEF ExperimentTypeOK, TypeOK, WaitDiscovery, configuration
  <2> QED
    BY <1>2, <2>1, <2>3 DEF ExperimentTypeOK, WaitDiscovery, configuration
<1>3. CASE Spin \/ ShutDownRclcpp \/ EndScope
  <2>1. /\ UNCHANGED <<program, logger, m_is_logging, callback, received,
                       report>>
        /\ at' = at \/ (Proceed /\ at <= Len(program.steps))
    BY <1>3 DEF Spin, ShutDownRclcpp, EndScope, experimentVars, Doing
  <2>2. at' \in 1 .. Len(program.steps) + 1
    BY <2>1, ProceedType
  <2>3. \/ Wake \/ BlockInSleep \/ Destroy \/ ShutDown
        \/ \E e \in Executors : CreateThread(e) \/ Cancel(e) \/ Join(e)
    BY <1>3 DEF Spin, ShutDownRclcpp, EndScope
  <2>4. TypeOK' /\ UNCHANGED configuration
    BY <2>3, MainType DEF ExperimentTypeOK
  <2> QED
    BY <2>1, <2>2, <2>4 DEF ExperimentTypeOK, configuration
<1>4. CASE Report \/ DestroyNodes
  <2>1. /\ UNCHANGED <<vars, program, logger, m_is_logging, callback, received>>
        /\ at' = at \/ (Proceed /\ at <= Len(program.steps))
    BY <1>4 DEF Report, Reported, DestroyNodes, Doing
  <2>2. at' \in 1 .. Len(program.steps) + 1
    BY <2>1, ProceedType
  <2>3. \/ UNCHANGED report
        \/ \E r \in Reports, e \in m_executors_map :
             report' = [report EXCEPT ![r] = WithCount(@, e)]
    BY <1>4 DEF Report, Reported, DestroyNodes, Reports
  <2>4. report' \in [Reports -> UNION {[S -> 0 .. MaxReceived] :
                                         S \in SUBSET m_executors_map}]
    BY <2>3, ReportedType DEF ExperimentTypeOK
  <2>5. TypeOK'
    BY <2>1 DEF ExperimentTypeOK, TypeOK, vars, configuration
  <2> QED
    BY <2>1, <2>2, <2>4, <2>5 DEF ExperimentTypeOK, vars, configuration
<1> QED
  BY <1>1, <1>2, <1>3, <1>4 DEF ProgramStep

\* Every step keeps the types.
LEMMA TypeStep ==
  ExperimentTypeOK /\ [ExperimentNext]_allVars => ExperimentTypeOK'
<1> SUFFICES ASSUME ExperimentTypeOK, [ExperimentNext]_allVars
             PROVE  ExperimentTypeOK'
  OBVIOUS
<1>1. CASE LoggerStep
  BY <1>1 DEF ExperimentTypeOK, TypeOK, LoggerStep, vars
<1>2. ASSUME NEW e \in Executors, ExecutorStep(e)
      PROVE  ExperimentTypeOK'
  <2>1. TypeOK' /\ UNCHANGED configuration
    BY <1>2, ThreadType DEF ExperimentTypeOK, ExecutorStep
  <2>2. received' \in [Executors -> 0 .. MaxReceived]
    <3>1. CASE UNCHANGED received
      BY <3>1 DEF ExperimentTypeOK
    <3>2. CASE /\ received[e] < MaxReceived
               /\ received' = [received EXCEPT ![e] = @ + 1]
      <4>1. received[e] + 1 \in 0 .. MaxReceived
        <5>1. received[e] \in 0 .. MaxReceived
          BY DEF ExperimentTypeOK
        <5> QED
          BY <3>2, <5>1, ExperimentAssumption
      <4> QED
        BY <3>2, <4>1 DEF ExperimentTypeOK
    <3> QED
      BY <1>2, <3>1, <3>2 DEF ExecutorStep
  <2> QED
    BY <1>2, <2>1, <2>2 DEF ExperimentTypeOK, ExecutorStep, configuration
<1>3. CASE Signal /\ UNCHANGED experimentVars
  <2>1. TypeOK'
    BY <1>3 DEF ExperimentTypeOK, TypeOK, Signal, configuration
  <2> QED
    BY <1>3, <2>1 DEF ExperimentTypeOK, Signal, experimentVars, configuration
<1>4. CASE UNCHANGED allVars
  <2>1. TypeOK'
    BY <1>4 DEF ExperimentTypeOK, TypeOK, allVars, vars
  <2> QED
    BY <1>4, <2>1 DEF ExperimentTypeOK, allVars, vars, experimentVars
<1> QED
  BY <1>1, <1>2, <1>3, <1>4, ProgramType DEF ExperimentNext

\* The variables keep their types, whatever program runs on whatever
\* executors (system.cpp, irobot_benchmark.cpp).
THEOREM TypeCorrect == ExperimentSpec => []ExperimentTypeOK
  BY TypeInit, TypeStep, PTL DEF ExperimentSpec

-----------------------------------------------------------------------------
(* The reports, of programs that shut rclcpp down and wait before they log. *)

\* No callback runs, and none can begin.
Idle == \A e \in Executors : thread[e] # "callback"
Quiet == ~ok /\ Idle

GraceInv ==
  /\ Past(program, at, "shut down") => ~ok
  /\ Waited(program, at) => Idle

\* Nothing is received any more: rclcpp is shut down and its callbacks have
\* returned, or the threads of the system have ended.
Settled == Quiet \/ main = "destroyed"

ReportInv ==
  \A r \in Reports : \A e \in DOMAIN report[r] :
    Settled /\ report[r][e] = received[e]

FullInv == ExperimentTypeOK /\ Inv /\ GraceInv /\ ReportInv

\* A wait after a shutdown comes after a shutdown.
LEMMA WaitedPast ==
  ASSUME NEW p, NEW k \in Nat, Waited(p, k)
  PROVE  Past(p, k, "shut down")
<1>1. PICK i \in 1 .. k - 1 : Past(p, i, "shut down")
  BY DEF Waited
<1>2. 1 .. i - 1 \subseteq 1 .. k - 1
  OBVIOUS
<1> QED
  BY <1>1, <1>2 DEF Past

\* What comes before the next step came before this one, or is it.
LEMMA PastNext ==
  ASSUME NEW p, NEW k \in Nat
  PROVE  /\ \A step : Past(p, k + 1, step) =>
                        Past(p, k, step) \/ p.steps[k] = step
         /\ Waited(p, k + 1) =>
              \/ Waited(p, k)
              \/ p.steps[k] = "sleep 500ms" /\ Past(p, k, "shut down")
<1>1. \A i \in 1 .. (k + 1) - 1 : i \in 1 .. k - 1 \/ i = k
  OBVIOUS
<1> QED
  BY <1>1 DEF Past, Waited

\* Callbacks end when rclcpp is shut down, and none begins.
LEMMA QuietStays ==
  ASSUME ExperimentTypeOK, Quiet, [ExperimentNext]_allVars
  PROVE  Quiet' /\ received' = received
<1>1. ASSUME NEW e \in Executors, ExecutorStep(e)
      PROVE  Quiet' /\ received' = received
  <2>1. ok' = ok
    BY <1>1 DEF ExecutorStep, ThreadStep, EnterSpin, BeginCallback,
                EndCallback, LeaveSpin
  <2>2. ~BeginCallback(e) /\ ~EndCallback(e)
    BY <1>1 DEF BeginCallback, EndCallback, HasToStop, ThreadAt, Quiet, Idle
  <2>3. PICK place \in {"looping", "ended"} :
          thread' = [thread EXCEPT ![e] = place]
    BY <1>1, <2>2 DEF ExecutorStep, ThreadStep, EnterSpin, LeaveSpin
  <2>4. received' = received
    BY <1>1 DEF ExecutorStep, Quiet, Idle
  <2> QED
    BY <2>1, <2>3, <2>4 DEF Quiet, Idle, ExperimentTypeOK, TypeOK
<1>2. ASSUME NEW e \in Executors, CreateThread(e), ok' = ok,
             received' = received
      PROVE  Quiet' /\ received' = received
  <2>1. thread' = [thread EXCEPT ![e] = "created"]
    BY <1>2 DEF CreateThread
  <2>2. thread \in [Executors ->
                      {"none", "created", "looping", "callback", "ended"}]
    BY DEF ExperimentTypeOK, TypeOK
  <2>3. \A x \in Executors : thread'[x] = "created" \/ thread'[x] = thread[x]
    BY <2>1, <2>2
  <2> QED
    BY <1>2, <2>3 DEF Quiet, Idle
<1>3. CASE /\ thread' = thread /\ received' = received
           /\ ok' = ok \/ ok' = FALSE
  BY <1>3 DEF Quiet, Idle
<1>4. \/ \E e \in Executors : ExecutorStep(e)
      \/ \E e \in Executors : /\ CreateThread(e) /\ ok' = ok
                              /\ received' = received
      \/ /\ thread' = thread /\ received' = received
         /\ ok' = ok \/ ok' = FALSE
  <2>1. CASE ProgramStep
    <3>1. CASE Spin
      BY <3>1 DEF Spin, Wake, BlockInSleep, CreateThread, Cancel
    <3>2. CASE EndScope
      BY <3>2 DEF EndScope, Destroy, Cancel, Join, experimentVars
    <3>3. CASE WaitDiscovery \/ ShutDownRclcpp
      BY <3>3 DEF WaitDiscovery, ShutDownRclcpp, ShutDown
    <3>4. CASE UNCHANGED <<vars, received>>
      BY <3>4 DEF vars
    <3> QED
      BY <2>1, <3>1, <3>2, <3>3, <3>4
      DEF ProgramStep, StartLogger, SetLatencyCallback, ClearLogging,
          JoinLogger, SleepGrace, Report, DestroyNodes
  <2>2. CASE LoggerStep \/ UNCHANGED allVars
    BY <2>2 DEF LoggerStep, allVars, vars, experimentVars
  <2>3. CASE Signal /\ UNCHANGED experimentVars
    BY <2>3 DEF Signal, experimentVars
  <2> QED
    BY <2>1, <2>2, <2>3 DEF ExperimentNext
<1> QED
  BY <1>1, <1>2, <1>3, <1>4

\* Nothing happens to a system that is destroyed.
LEMMA DestroyedStays ==
  ASSUME ExperimentTypeOK, Inv, main = "destroyed", [ExperimentNext]_allVars
  PROVE  main' = "destroyed" /\ received' = received
<1>1. ASSUME NEW e \in Executors, ExecutorStep(e)
      PROVE  FALSE
  <2>1. thread[e] \notin {"none", "ended"}
    BY <1>1 DEF ExecutorStep, ThreadStep, EnterSpin, BeginCallback,
                EndCallback, LeaveSpin, ThreadAt
  <2>2. e \in m_executors_map
    BY <2>1 DEF ExperimentTypeOK, TypeOK
  <2> QED
    BY <2>1, <2>2 DEF Inv, JoinInv
<1>2. CASE ProgramStep
  <2>1. ~Spin /\ ~ShutDownRclcpp /\ ~EndScope
    BY DEF Spin, ShutDownRclcpp, EndScope, Wake, BlockInSleep, CreateThread,
           Cancel, ShutDown, Destroy, Join, Visit, MainAt
  <2> QED
    BY <1>2, <2>1
    DEF ProgramStep, StartLogger, SetLatencyCallback, WaitDiscovery,
        ClearLogging, JoinLogger, SleepGrace, Report, DestroyNodes, vars
<1>3. CASE LoggerStep \/ UNCHANGED allVars
           \/ (Signal /\ UNCHANGED experimentVars)
  BY <1>3 DEF LoggerStep, allVars, vars, experimentVars, Signal
<1> QED
  BY <1>1, <1>2, <1>3 DEF ExperimentNext

\* The main function passes its steps one by one, and a shutdown or a wait
\* only by taking it.
LEMMA PassStep ==
  ASSUME [ExperimentNext]_allVars
  PROVE  /\ program' = program
         /\ \/ at' = at
            \/ /\ at' = at + 1
               /\ program.steps[at] = "shut down" => ShutDownRclcpp
               /\ program.steps[at] = "sleep 500ms" => SleepGrace
<1>1. CASE ProgramStep
  <2>1. CASE ShutDownRclcpp \/ SleepGrace
    BY <2>1 DEF ShutDownRclcpp, SleepGrace, Doing, Proceed
  <2>2. CASE EndScope \/ DestroyNodes
    BY <2>2 DEF EndScope, DestroyNodes, experimentVars
  <2>3. CASE Report
    BY <2>3 DEF Report, Reported, Reports, Doing, Proceed
  <2>4. CASE StartLogger \/ SetLatencyCallback \/ WaitDiscovery \/ Spin
             \/ ClearLogging \/ JoinLogger
    BY <2>4 DEF StartLogger, SetLatencyCallback, WaitDiscovery, Spin,
                ClearLogging, JoinLogger, Doing, Proceed
  <2> QED
    BY <1>1, <2>1, <2>2, <2>3, <2>4 DEF ProgramStep
<1>2. CASE LoggerStep \/ (\E e \in Executors : ExecutorStep(e))
           \/ (Signal /\ UNCHANGED experimentVars) \/ UNCHANGED allVars
  BY <1>2 DEF LoggerStep, ExecutorStep, allVars, experimentVars
<1> QED
  BY <1>1, <1>2 DEF ExperimentNext

\* After the shutdown rclcpp is not ok, and after the wait no callback runs.
LEMMA GraceStep ==
  ASSUME GraceSuffices, ExperimentTypeOK, Inv, GraceInv,
         [ExperimentNext]_allVars
  PROVE  GraceInv'
<1>1. at \in Nat
  BY PlaceCounted DEF Inv
<1>2. ok' = ok \/ ok' = FALSE
  BY DEF ExperimentNext, ProgramStep, Spin, EndScope, WaitDiscovery,
         ShutDownRclcpp, ShutDown, Wake, BlockInSleep, CreateThread, Cancel,
         Destroy, Join, StartLogger, SetLatencyCallback, ClearLogging,
         JoinLogger, SleepGrace, Report, DestroyNodes, LoggerStep,
         ExecutorStep, ThreadStep, EnterSpin, BeginCallback, EndCallback,
         LeaveSpin, Signal, allVars, vars
<1>3. /\ program' = program
      /\ \/ at' = at
         \/ /\ at' = at + 1
            /\ program.steps[at] = "shut down" => ShutDownRclcpp
            /\ program.steps[at] = "sleep 500ms" => SleepGrace
  BY PassStep
<1>4. Waited(program, at) => Quiet
  BY <1>1, WaitedPast DEF GraceInv, Quiet
<1>5. Past(program, at, "shut down")' => ~ok'
  <2>1. CASE Past(program, at, "shut down")
    BY <1>2, <2>1 DEF GraceInv, ExperimentTypeOK, TypeOK
  <2>2. CASE ~Past(program, at, "shut down")
    <3> SUFFICES ASSUME Past(program, at, "shut down")' PROVE ~ok'
      OBVIOUS
    <3>1. Past(program, at', "shut down")
      BY <1>3 DEF Past
    <3>2. ShutDownRclcpp
      BY <1>1, <1>3, <2>2, <3>1, PastNext
    <3> QED
      BY <3>2 DEF ShutDownRclcpp, ShutDown
  <2> QED
    BY <2>1, <2>2
<1>6. Waited(program, at)' => Idle'
  <2> SUFFICES ASSUME Waited(program, at)' PROVE Idle'
    OBVIOUS
  <2>1. Waited(program, at')
    BY <1>3 DEF Waited, Past
  <2>2. CASE Waited(program, at)
    BY <1>4, <2>2, QuietStays DEF Quiet
  <2>3. CASE ~Waited(program, at)
    <3>1. SleepGrace
      BY <1>1, <1>3, <2>1, <2>3, PastNext
    <3> QED
      BY <3>1 DEF SleepGrace, Idle, vars
  <2> QED
    BY <2>2, <2>3
<1> QED
  BY <1>5, <1>6 DEF GraceInv

\* What has been reported is final.
LEMMA ReportStep ==
  ASSUME ExperimentTypeOK, Inv, GraceInv, ReportInv,
         [ExperimentNext]_allVars
  PROVE  ReportInv'
<1>1. ASSUME Settled
      PROVE  Settled' /\ received' = received
  <2>1. CASE Quiet
    BY <2>1, QuietStays DEF Settled
  <2>2. CASE main = "destroyed"
    BY <2>2, DestroyedStays DEF Settled
  <2> QED
    BY <1>1, <2>1, <2>2 DEF Settled
<1>2. ASSUME NEW r \in Reports, NEW e \in m_executors_map, Settled,
             report' = [report EXCEPT ![r] = WithCount(@, e)]
      PROVE  ReportInv'
  <2>1. report'[r] = WithCount(report[r], e)
        /\ \A q \in Reports \ {r} : report'[q] = report[q]
    BY <1>2 DEF ExperimentTypeOK
  <2>2. \A x \in DOMAIN report'[r] :
          \/ x = e /\ report'[r][x] = received[e]
          \/ x \in DOMAIN report[r] /\ report'[r][x] = report[r][x]
    BY <2>1 DEF WithCount
  <2>3. \A q \in Reports : \A x \in DOMAIN report'[q] :
          report'[q][x] = received[x]
    BY <2>1, <2>2 DEF ReportInv
  <2> QED
    BY <1>1, <1>2, <2>3 DEF ReportInv
<1>3. CASE UNCHANGED report
  BY <1>1, <1>3 DEF ReportInv
<1>4. CASE Report
  <2>1. CASE UNCHANGED report
    BY <1>3, <2>1
  <2>2. ASSUME NEW r \in Reports, Doing(r), NEW e \in m_executors_map,
               report' = [report EXCEPT ![r] = WithCount(@, e)]
        PROVE  ReportInv'
    <3>1. at \in Nat /\ at \in 1 .. Len(program.steps)
      BY <2>2, PlaceCounted DEF Doing, Inv
    <3>2. Waited(program, at)
      BY <2>2, <3>1, ReportsAssumption DEF Doing, ExperimentTypeOK
    <3>3. Settled
      BY <3>1, <3>2, WaitedPast DEF GraceInv, Settled, Quiet
    <3> QED
      BY <1>2, <2>2, <3>3
  <2> QED
    BY <1>4, <2>1, <2>2 DEF Report, Reported
<1>5. CASE DestroyNodes
  <2>1. "log nodes" \in Reports /\ Settled
    BY <1>5 DEF DestroyNodes, Reports, Settled
  <2> QED
    BY <1>2, <1>5, <2>1 DEF DestroyNodes
<1>6. Report \/ DestroyNodes \/ UNCHANGED report
  BY DEF ExperimentNext, ProgramStep, Spin, EndScope, WaitDiscovery,
         ShutDownRclcpp, StartLogger, SetLatencyCallback, ClearLogging,
         JoinLogger, SleepGrace, LoggerStep, ExecutorStep, allVars,
         experimentVars
<1> QED
  BY <1>3, <1>4, <1>5, <1>6

\* Final reports that are complete are the same.
LEMMA ReportsFinal ==
  ASSUME ExperimentTypeOK, ReportInv
  PROVE  ReportsAgree
<1>1. ASSUME NEW r \in Reports, Complete(r)
      PROVE  report[r] = [e \in m_executors_map |-> received[e]]
  <2>1. report[r] \in UNION {[S -> 0 .. MaxReceived] :
                               S \in SUBSET m_executors_map}
    BY DEF ExperimentTypeOK
  <2>2. report[r] \in [m_executors_map -> 0 .. MaxReceived]
    BY <1>1, <2>1 DEF Complete
  <2>3. \A e \in m_executors_map : report[r][e] = received[e]
    BY <1>1 DEF ReportInv, Complete
  <2> QED
    BY <2>2, <2>3
<1> QED
  BY <1>1 DEF ReportsAgree

\* Programs whose callbacks return within the 500 ms that they wait after the
\* shutdown report the same messages each time, and receive none afterwards
\* (irobot_benchmark.cpp, simple_pub_sub_main.cpp, base_node.cpp).
THEOREM ReportsAreFinal ==
  ASSUME GraceSuffices
  PROVE  ExperimentSpec => []ReportsAgree
<1>1. ExperimentInit => GraceInv /\ ReportInv
  <2> SUFFICES ASSUME ExperimentInit PROVE GraceInv /\ ReportInv
    OBVIOUS
  <2>1. 1 .. at - 1 = {}
    BY DEF ExperimentInit
  <2>2. GraceInv
    BY <2>1 DEF GraceInv, Past, Waited
  <2>3. \A r \in Reports : DOMAIN report[r] = {}
    BY DEF ExperimentInit, NoCounts
  <2> QED
    BY <2>2, <2>3 DEF ReportInv
<1>2. ExperimentInit => FullInv
  BY <1>1, TypeInit, InvInit DEF FullInv
<1>3. FullInv /\ [ExperimentNext]_allVars => FullInv'
  BY TypeStep, InvStep, GraceStep, ReportStep DEF FullInv
<1>4. FullInv => ReportsAgree
  BY ReportsFinal DEF FullInv
<1> QED
  BY <1>2, <1>3, <1>4, PTL DEF ExperimentSpec
=============================================================================
