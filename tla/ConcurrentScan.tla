--------------------------- MODULE ConcurrentScan ---------------------------
(***************************************************************************)
(* Tracker::scan as the threads of an executor run it: one access to the   *)
(* tracker's members at a time, with the events it logs.  The callbacks of *)
(* a node are in one callback group.  If it is mutually exclusive, as by   *)
(* default, one of them runs at a time; if it is reentrant                 *)
(* (--callback-group-type) any number.  Trackers of different nodes are    *)
(* scanned in parallel in both cases and share the events file.            *)
(*                                                                         *)
(* The code has a data race if the group is reentrant.  It is modelled as  *)
(* loads and stores of whole members (a Stat is one); the concurrent       *)
(* push_back of m_all_latency, which may corrupt the heap, is left out.    *)
(***************************************************************************)
EXTENDS Tracker, EventsLogger, Stat, FiniteSets, Functions

CONSTANTS
  Entities,     \* subscriptions, each of a node of its own
  Senders,      \* pairs of a kind of sender and its period
  Latencies,    \* by sender: latencies of its messages, in nanoseconds
  Skips,        \* by sender: how many messages in a row may not arrive
  MaxMessages   \* bound: messages of all entities

ASSUME ConcurrentScanAssumption ==
  /\ IsFiniteSet(Threads) /\ None \notin Entities
  /\ Senders \subseteq {"publisher", "client"} \X (Nat \ {0})
  /\ \A s \in Senders : Latencies[s] \subseteq {l \in Int : -LatencyMod < l}
  /\ \A s \in Senders : Skips[s] \subseteq Nat
  /\ MaxMessages \in Nat

VARIABLES
  group,     \* the type of every node's callback group
  elog,      \* the nodes have been given an events logger
  sender,    \* the kind and the period of the senders of all messages
  next_sent, \* of each entity: the number of the sender's next message
  trackers,  \* of each entity: its tracker
  scan,      \* of each thread: its local variables in scan
  heard      \* history: of each entity, the latencies scanned so far

scan_vars == <<group, elog, sender, next_sent, trackers, scan, heard>>
vars == <<scan_vars, file_vars>>

Sum(f) == FoldFunction(LAMBDA x, y : x + y, 0, f)

Fresh(enabled) ==
  [NewTracker(enabled) EXCEPT !.stat = NoSamples, !.delta_stat = NoSamples]

Idle ==
  [at |-> "idle", field |-> "", entity |-> None, number |-> 0, latency |-> 0,
   period |-> 0, n_lost |-> 0, loaded |-> Fresh(FALSE), before |-> Fresh(FALSE)]

\* For the bound: the messages taken so far.
Taken == Sum([e \in Entities |-> Len(heard[e])])
         + Cardinality({th \in Threads : scan[th].at # "idle"})

Scanning(e) == {th \in Threads : scan[th].entity = e}
MutuallyExclusive == group = "mutually_exclusive"

-----------------------------------------------------------------------------
(* The abstract tracker: a Stat is its count and sum, and a scan that has  *)
(* not ended has not begun.                                                *)

AbstractStat(stat) == [n |-> stat.n, sum |-> MeanTimesN(stat)]
Abstract(tracker) ==
  [tracker EXCEPT !.stat = AbstractStat(@), !.delta_stat = AbstractStat(@)]
Settled(e) ==
  Abstract(IF Scanning(e) = {}
             THEN trackers[e]
             ELSE scan[CHOOSE th \in Scanning(e) : TRUE].before)

Classified(e) == INSTANCE Classification WITH
  sender <- sender,
  tracker <- Settled(e),
  late <- Settled(e).late,
  too_late <- Settled(e).too_late

-----------------------------------------------------------------------------
Init ==
  /\ group \in {"mutually_exclusive", "reentrant"}
  /\ EventsLoggerInit
  /\ elog \in BOOLEAN
  /\ is_open => elog
  /\ sender \in Senders
  /\ next_sent = [e \in Entities |-> 0]
  /\ \E enabled \in BOOLEAN : trackers = [e \in Entities |-> Fresh(enabled)]
  /\ scan = [th \in Threads |-> Idle]
  /\ heard = [e \in Entities |-> <<>>]

\* Where a thread goes next in scan.
Goto(s, at, field) == [s EXCEPT !.at = at, !.field = field]
Tracker_(s) == trackers[s.entity]

\* An event names the message it is about; of lost messages, the one before
\* the message that arrived or, if several are lost, those from there `to
\* number - 1 + n_lost', where the sum is one of int64_t.
Event(s) ==
  LET named == IF s.field = "lost" THEN PrevNumber(s.number) ELSE s.number
      further == IF s.field = "lost" /\ s.n_lost # 1 THEN s.n_lost ELSE 0
  IN [caller |-> s.entity, code |-> s.field,
      from |-> named, to |-> named + further]

LogOrElse(s, field, at) ==
  IF elog THEN Goto(s, "event", field) ELSE Goto(s, at, field)
\* For the mutation runs: a message that is too late is not logged.
IfTooLateUnlogged(s) == IF IsTooLate(s.latency, s.period)
                          THEN Goto(s, "load", "too_late")
                          ELSE Goto(s, "load", "stat")

\* The two ifs after the loss accounting.
IfTooLate(s) == IF IsTooLate(s.latency, s.period)
                  THEN LogOrElse(s, "too_late", "load")
                  ELSE Goto(s, "load", "stat")
IfLate(s) == IF IsLate(s.latency, s.period)
               THEN LogOrElse(s, "late", "load")
               ELSE IfTooLate(s)
AfterEvent(s) == IF s.field = "lost" THEN IfLate(s)
                                     ELSE Goto(s, "load", s.field)
AfterExpected(s) == IF elog THEN Goto(s, "event", "lost") ELSE IfLate(s)

\* What follows the update of a member; after the last one scan returns.
AfterUpdate(s) ==
  CASE s.field = "tracking_number_count" -> IfLate(s)
    [] s.field = "lost" -> Goto(s, "expect", "")
    [] s.field = "late" -> IfTooLate(s)
    [] s.field = "too_late" -> Goto(s, "load", "stat")
    [] s.field = "stat" -> Goto(s, "load", "received")
    [] s.field = "received" -> Idle

\* The members a statement updates: m_stat and m_delta_stat, and
\* m_received_messages and m_delta_received_messages, go together.
Members(field) ==
  CASE field = "stat" -> {"stat", "delta_stat"}
    [] field = "received" -> {"received", "delta_received"}
    [] OTHER -> {field}

\* The value of a member after its update, from the one that was loaded.
Updated(s, member) ==
  LET old == s.loaded[member]
  IN CASE s.field = "tracking_number_count" -> NextNumber(old)
       [] s.field = "lost" -> old + s.n_lost
       [] s.field = "stat" -> WithSample(old, LatencyUs(s.latency))
       [] OTHER -> old + 1

-----------------------------------------------------------------------------
(* The steps of a thread. *)

\* For the mutation runs: an executor that ignores the callback group.
MayRunAlways(e) == TRUE

\* The executor may run a callback of the entity's node.
MayRun(e) == MutuallyExclusive => Scanning(e) = {}

\* A message is taken and scan called, after `skipped' messages that do not
\* arrive.
Take(th, e, skipped, latency) ==
  LET number == (next_sent[e] + skipped) % TrackingMod
      frequency == Classified(e)!HeaderFrequency(sender)
  IN /\ scan[th].at = "idle"
     /\ MayRun(e)
     /\ Taken < MaxMessages
     /\ next_sent' = [next_sent EXCEPT ![e] = NextNumber(number)]
     /\ \E period \in PeriodsUs(frequency) :
          LET s == [Idle EXCEPT !.entity = e, !.number = number,
                                !.latency = latency, !.period = period,
                                !.before = trackers[e]]
          IN scan' = [scan EXCEPT ![th] =
                        IF trackers[e].is_enabled THEN Goto(s, "compare", "")
                                                  ELSE Goto(s, "load", "stat")]
     /\ UNCHANGED <<group, elog, sender, trackers, heard, file_vars>>

\* Is it the number that is expected?
Compare(th) ==
  LET s == scan[th]
  IN /\ s.at = "compare"
     /\ scan' = [scan EXCEPT ![th] =
          IF s.number = Tracker_(s).tracking_number_count
            THEN Goto(s, "load", "tracking_number_count")
            ELSE Goto(s, "subtract", "")]
     /\ UNCHANGED <<group, elog, sender, next_sent, trackers, heard, file_vars>>

Subtract(th) ==
  LET s == scan[th]
      n_lost == Gap(Tracker_(s).tracking_number_count, s.number)
  IN /\ s.at = "subtract"
     /\ scan' = [scan EXCEPT ![th] =
          [Goto(s, "load", "lost") EXCEPT !.n_lost = n_lost]]
     /\ UNCHANGED <<group, elog, sender, next_sent, trackers, heard, file_vars>>

\* m_tracking_number_count = header.tracking_number + 1.
Expect(th) ==
  LET s == scan[th]
  IN /\ s.at = "expect"
     /\ trackers' = [trackers EXCEPT
          ![s.entity].tracking_number_count = NextNumber(s.number)]
     /\ scan' = [scan EXCEPT ![th] = AfterExpected(s)]
     /\ UNCHANGED <<group, elog, sender, next_sent, heard, file_vars>>

\* Members are updated in two steps.
Load(th) ==
  LET s == scan[th]
  IN /\ s.at = "load"
     /\ scan' = [scan EXCEPT ![th] =
          [Goto(s, "store", s.field) EXCEPT
             !.loaded = [member \in DOMAIN @ |->
               IF member \in Members(s.field) THEN Tracker_(s)[member]
                                              ELSE @[member]]]]
     /\ UNCHANGED <<group, elog, sender, next_sent, trackers, heard, file_vars>>

Store(th) ==
  LET s == scan[th]
      done == [s EXCEPT !.loaded = Fresh(FALSE)]
  IN /\ s.at = "store"
     /\ trackers' = [trackers EXCEPT ![s.entity] =
          [member \in DOMAIN @ |->
            IF member \in Members(s.field) THEN Updated(s, member)
                                           ELSE @[member]]]
     /\ scan' = [scan EXCEPT ![th] = AfterUpdate(done)]
     /\ heard' = IF s.field = "received"
                   THEN [heard EXCEPT ![s.entity] = Append(@, s.latency)]
                   ELSE heard
     /\ UNCHANGED <<group, elog, sender, next_sent, file_vars>>

\* elog->write_event(ev).
Log(th) ==
  LET s == scan[th]
  IN /\ s.at = "event"
     /\ \/ /\ ReturnUnwritten(th)
           /\ scan' = [scan EXCEPT ![th] = AfterEvent(s)]
        \/ /\ Stamp(th, Event(s))
           /\ scan' = [scan EXCEPT ![th] = Goto(s, "write", s.field)]
     /\ UNCHANGED <<group, elog, sender, next_sent, trackers, heard>>

Write(th) ==
  LET s == scan[th]
  IN /\ s.at = "write"
     /\ \/ Lock(th) /\ UNCHANGED scan
        \/ StreamOut(th) /\ UNCHANGED scan
        \/ EndLine(th) /\ scan' = [scan EXCEPT ![th] = AfterEvent(s)]
     /\ UNCHANGED <<group, elog, sender, next_sent, trackers, heard>>

Next ==
  \E th \in Threads :
    \/ \E e \in Entities, skipped \in Skips[sender] :
         \E latency \in Latencies[sender] : Take(th, e, skipped, latency)
    \/ Compare(th) \/ Subtract(th) \/ Expect(th)
    \/ Load(th) \/ Store(th)
    \/ Log(th) \/ Write(th)

Spec == Init /\ [][Next]_vars

-----------------------------------------------------------------------------
\* The values of the trackers, and that a thread is in write_event, holding the
\* mutex from the first part of a line to its end, exactly when scan has it there.
TypeOK ==
  /\ group \in {"mutually_exclusive", "reentrant"}
  /\ \A th \in Threads :
       /\ scan[th].entity \in Entities \cup {None}
       /\ scan[th].at = "idle" <=> scan[th].entity = None
       /\ scan[th].at = "write" <=> writing[th] # "out"
       /\ writing[th] \in {"stream", "end"} => writer_mutex = th
  /\ \A e \in Entities : Abstract(trackers[e]) \in Trackers

Quiet(e) == MutuallyExclusive /\ Scanning(e) = {}

\* With a mutually exclusive group, what the steps of scan do to a tracker,
\* whatever the other trackers and the events file are doing meanwhile, is
\* what one uninterrupted scan does; and the messages it counts as late and
\* as too late are those the definition of irobot_benchmark/README.md says, for
\* a latency that is off by a microsecond at most: scan drops the nanoseconds,
\* and a period that has been through a float may be one microsecond short.
ImplementsClassification ==
  /\ \A e \in Entities : MutuallyExclusive => Classified(e)!ClassificationInit
  /\ [][\A e \in Entities :
          MutuallyExclusive =>
            \/ UNCHANGED Classified(e)!classification_vars
            \/ Classified(e)!ClassificationNext]_vars

\* The shifted sums of a Stat are exact: count, extremes, mean and variance
\* are those of the latencies scanned so far, in whole microseconds, by their
\* definitions.
StatisticsExact ==
  \A e \in Entities : Quiet(e) =>
    LET stat == trackers[e].stat
        sample == [i \in DOMAIN heard[e] |-> LatencyUs(heard[e][i])]
        n == Len(heard[e])
        total == Sum(sample)
    IN /\ stat.n = n
       /\ n > 0 =>
            /\ \E i \in 1 .. n : sample[i] = stat.max
            /\ \E i \in 1 .. n : sample[i] = stat.min
            /\ \A i \in 1 .. n : sample[i] \in stat.min .. stat.max
            /\ MeanTimesN(stat) = total
            /\ n * VarianceTimesNN(stat) =
                 Sum([i \in 1 .. n |-> (n * sample[i] - total) * (n * sample[i] - total)])

\* Every line of the events file is one event, whichever threads write.
WholeLines == \A i \in DOMAIN lines : IsWhole(lines[i])

\* The lines of the file with the events of an entity, and those of one code.
LinesOf(e) == {i \in DOMAIN lines : WrittenEvents[i][2].caller = e}
LinesWith(e, code) == {i \in LinesOf(e) : WrittenEvents[i][2].code = code}

\* How many messages were lost, by the text of an event: a text that names
\* several names one too many (LostEvents.cfg).
LostBy(ev) == IF ev.to = ev.from THEN 1 ELSE ev.to - ev.from
LostLogged(e) ==
  Sum([i \in LinesWith(e, "lost") |-> LostBy(WrittenEvents[i][2])])

\* The events file tells the counters: between two scans an entity has as
\* many late and too late events as messages counted so, its events are in the
\* order of their stamps, and the lost messages can be had from its lost events:
\* each that names a single message stands for one, and each that names several
\* for one fewer than it names (tracker.cpp:75-81).
EventsMatchCounters ==
  \A e \in Entities :
    Quiet(e) /\ is_open =>
      /\ Cardinality(LinesWith(e, "late")) = trackers[e].late
      /\ Cardinality(LinesWith(e, "too_late")) = trackers[e].too_late
      /\ LostLogged(e) = trackers[e].lost
      /\ \A i, j \in LinesOf(e) :
           i < j => WrittenEvents[i][1] < WrittenEvents[j][1]

\* What a reentrant group breaks (ReentrantScan.cfg): no more messages are
\* counted as lost than the sender has sent.
NoPhantomLosses == \A e \in Entities : trackers[e].lost <= next_sent[e]

\* Scans that race lose updates, and never add any: a tracker counts no more
\* messages as received than it has been given, and no more as late or too late
\* than it has been given of the class, to the microsecond.
NeverOvercounts ==
  \A e \in Entities :
    LET Given(class) ==
          Cardinality({i \in DOMAIN heard[e] : heard[e][i] \in class})
          + Cardinality({th \in Scanning(e) : scan[th].latency \in class})
        All == Latencies[sender]
        Late == {l \in All : Classified(e)!MayBeLate(sender, l)}
        TooLate == {l \in All : Classified(e)!MayBeTooLate(sender, l)}
    IN /\ trackers[e].received <= Given(All)
       /\ trackers[e].stat.n <= Given(All)
       /\ trackers[e].late <= Given(Late)
       /\ trackers[e].too_late <= Given(TooLate)
=============================================================================
