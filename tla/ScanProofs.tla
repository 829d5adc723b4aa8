----------------------------- MODULE ScanProofs -----------------------------
(***************************************************************************)
(* Tracker::scan as the threads of an executor run it.  In both types of   *)
(* callback group the events file holds whole lines, the types are kept    *)
(* and no counter is above what the tracker has been given; in a mutually  *)
(* exclusive group each scan is one step of the abstract tracker, whose    *)
(* classes are those of irobot_benchmark/README.md; the events file tells  *)
(* the tracker's counters, and its statistics are those of all latencies.  *)
(***************************************************************************)
EXTENDS ConcurrentScan, TrackerProofs, SequenceTheorems, WellFoundedInduction

\* The mutex is held from the first part of a line to its end, and the part
\* that has no end yet is its holder's.
WriterInv ==
  /\ DOMAIN writing = Threads
  /\ DOMAIN event = Threads
  /\ \A th \in Threads :
       /\ writing[th] \in {"stream", "end"} => writer_mutex = th
       /\ writing[th] = "end" => line = <<event[th]>>
  /\ (\A th \in Threads : writing[th] # "end") => line = <<>>
LinesInv == \E S : lines \in Seq(S)

FileInv == WriterInv /\ LinesInv /\ WholeLines

\* What Append does to the lines.
LEMMA AppendWhole ==
  ASSUME LinesInv, WholeLines, NEW parts, IsWhole(parts),
         lines' = Append(lines, parts)
  PROVE  LinesInv' /\ WholeLines'
<1>1. PICK S : lines \in Seq(S)
  BY DEF LinesInv
<1> DEFINE T == S \cup {parts}
<1>2. lines \in Seq(T) /\ parts \in T
  BY <1>1
<1>3. /\ Append(lines, parts) \in Seq(T)
      /\ Len(Append(lines, parts)) = Len(lines) + 1
      /\ \A i \in 1 .. Len(lines) : Append(lines, parts)[i] = lines[i]
      /\ Append(lines, parts)[Len(lines) + 1] = parts
  BY <1>2, AppendProperties
<1>4. LinesInv'
  BY <1>3 DEF LinesInv
<1>5. \A i \in DOMAIN lines' : IsWhole(lines'[i])
  <2> SUFFICES ASSUME NEW i \in DOMAIN lines' PROVE IsWhole(lines'[i])
    OBVIOUS
  <2>1. Len(lines) \in Nat /\ DOMAIN lines = 1 .. Len(lines)
    BY <1>2
  <2>2. i \in 1 .. Len(lines) + 1
    BY <1>3
  <2>3. CASE i = Len(lines) + 1
    BY <1>3, <2>3
  <2>4. CASE i \in 1 .. Len(lines)
    BY <1>3, <2>1, <2>4 DEF WholeLines
  <2> QED
    BY <2>1, <2>2, <2>3, <2>4
<1> QED
  BY <1>4, <1>5 DEF WholeLines

LEMMA FileInit == Init => FileInv
<1> SUFFICES ASSUME Init PROVE FileInv
  OBVIOUS
<1>1. WriterInv
  BY DEF Init, EventsLoggerInit, WriterInv
<1>2. lines \in Seq({})
  BY DEF Init, EventsLoggerInit
<1>3. LinesInv /\ WholeLines
  BY <1>2 DEF LinesInv, WholeLines, Init, EventsLoggerInit
<1> QED
  BY <1>1, <1>3 DEF FileInv

\* Most steps of a scan do not touch the file.
LEMMA FileUntouched ==
  ASSUME FileInv, UNCHANGED file_vars
  PROVE  FileInv'
BY DEF FileInv, WriterInv, LinesInv, WholeLines, file_vars

LEMMA StampStep ==
  ASSUME FileInv, NEW th \in Threads, NEW e, Stamp(th, e)
  PROVE  FileInv'
<1>1. WriterInv'
  BY DEF FileInv, WriterInv, Stamp
<1>2. LinesInv' /\ WholeLines'
  BY DEF FileInv, LinesInv, WholeLines, Stamp
<1> QED
  BY <1>1, <1>2 DEF FileInv

LEMMA LockStep ==
  ASSUME FileInv, NEW th \in Threads, Lock(th)
  PROVE  FileInv'
<1>1. \A other \in Threads : writing[other] \notin {"stream", "end"}
  BY ThreadsAssumption DEF FileInv, WriterInv, Lock
<1>2. WriterInv'
  BY <1>1 DEF FileInv, WriterInv, Lock
<1>3. LinesInv' /\ WholeLines'
  BY DEF FileInv, LinesInv, WholeLines, Lock
<1> QED
  BY <1>2, <1>3 DEF FileInv

LEMMA StreamOutStep ==
  ASSUME FileInv, NEW th \in Threads, StreamOut(th)
  PROVE  FileInv'
<1>1. /\ writer_mutex = th
      /\ \A other \in Threads : writing[other] \in {"stream", "end"} => other = th
  BY DEF FileInv, WriterInv, StreamOut
<1>2. line = <<>>
  BY <1>1 DEF FileInv, WriterInv, StreamOut
<1>3. line' = <<event[th]>>
  BY <1>2 DEF StreamOut
<1>4. WriterInv'
  BY <1>1, <1>3 DEF FileInv, WriterInv, StreamOut
<1>5. LinesInv' /\ WholeLines'
  BY DEF FileInv, LinesInv, WholeLines, StreamOut
<1> QED
  BY <1>4, <1>5 DEF FileInv

LEMMA EndLineStep ==
  ASSUME FileInv, NEW th \in Threads, EndLine(th)
  PROVE  FileInv'
<1>1. \A other \in Threads \ {th} : writing[other] \notin {"stream", "end"}
  BY DEF FileInv, WriterInv, EndLine
<1>2. WriterInv'
  BY <1>1 DEF FileInv, WriterInv, EndLine
<1>3. line = <<event[th]>>
  BY DEF FileInv, WriterInv, EndLine
<1>4. IsWhole(Append(line, event[th]))
  <2> DEFINE e == event[th]
  <2>1. /\ Len(Append(<<e>>, e)) = 2
        /\ Append(<<e>>, e)[1] = e /\ Append(<<e>>, e)[2] = e
    <3>1. <<e>> \in Seq({e}) /\ e \in {e} /\ Len(<<e>>) = 1 /\ <<e>>[1] = e
      OBVIOUS
    <3> HIDE DEF e
    <3> QED
      BY <3>1, AppendProperties
  <2> QED
    BY <1>3, <2>1 DEF IsWhole
<1>5. LinesInv' /\ WholeLines'
  BY <1>4, AppendWhole DEF FileInv, EndLine
<1> QED
  BY <1>2, <1>5 DEF FileInv

LEMMA FileStep == FileInv /\ [Next]_vars => FileInv'
<1> SUFFICES ASSUME FileInv, [Next]_vars PROVE FileInv'
  OBVIOUS
<1>1. CASE UNCHANGED vars
  BY <1>1, FileUntouched DEF vars
<1>2. ASSUME NEW th \in Threads, NEW e \in Entities, NEW skipped, NEW latency,
             Take(th, e, skipped, latency)
      PROVE  FileInv'
  BY <1>2, FileUntouched DEF Take
<1>3. ASSUME NEW th \in Threads,
             Compare(th) \/ Subtract(th) \/ Expect(th) \/ Load(th) \/ Store(th)
      PROVE  FileInv'
  BY <1>3, FileUntouched DEF Compare, Subtract, Expect, Load, Store
<1>4. ASSUME NEW th \in Threads, Log(th) PROVE FileInv'
  BY <1>4, FileUntouched, StampStep DEF Log, ReturnUnwritten
<1>5. ASSUME NEW th \in Threads, Write(th) PROVE FileInv'
  BY <1>5, LockStep, StreamOutStep, EndLineStep DEF Write
<1> QED
  BY <1>1, <1>2, <1>3, <1>4, <1>5 DEF Next

\* Every line of the events file is one event, for any number of threads,
\* entities and messages and both types of callback group: what the header
\* of EventsLogger promises.
THEOREM LinesAreWhole == Spec => []WholeLines
<1>1. FileInv => WholeLines
  BY DEF FileInv
<1> QED
  BY <1>1, FileInit, FileStep, PTL DEF Spec

-----------------------------------------------------------------------------
(* Stat: s1 and s2 stand for the sum of the samples and of their squares.  *)

ShiftedStats == [n : Nat, max : Int, min : Int, K : Int, Ex : Int, Ex2 : Int]

SumsTo(stat, s1, s2) ==
  /\ stat.n = 0 => s1 = 0 /\ s2 = 0
  /\ stat.Ex = s1 - stat.n * stat.K
  /\ stat.Ex2 = s2 - 2 * (stat.K * s1) + stat.n * (stat.K * stat.K)

LEMMA NoSamplesSumToNothing == NoSamples \in ShiftedStats /\ SumsTo(NoSamples, 0, 0)
BY DEF NoSamples, ShiftedStats, SumsTo

\* One more sample at a distance of x - k from the shift.
LEMMA OneMoreDistance ==
  ASSUME NEW n \in Int, NEW k \in Int, NEW s1 \in Int, NEW s2 \in Int,
         NEW x \in Int
  PROVE  /\ (s1 - n * k) + (x - k) = (s1 + x) - (n + 1) * k
         /\ (s2 - 2 * (k * s1) + n * (k * k)) + (x - k) * (x - k)
              = (s2 + x * x) - 2 * (k * (s1 + x)) + (n + 1) * (k * k)
OBVIOUS

\* Whatever the first sample is, n times the mean and n^2 times the variance
\* of a Stat are those of the samples: the shift cancels out.
THEOREM ShiftCancels ==
  ASSUME NEW stat \in ShiftedStats, NEW s1 \in Int, NEW s2 \in Int,
         SumsTo(stat, s1, s2)
  PROVE  /\ MeanTimesN(stat) = s1
         /\ VarianceTimesNN(stat) = stat.n * s2 - s1 * s1
         /\ \A x \in Int : /\ WithSample(stat, x) \in ShiftedStats
                           /\ SumsTo(WithSample(stat, x), s1 + x, s2 + x * x)
<1> DEFINE n == stat.n  K == stat.K
<1>1. n \in Nat /\ K \in Int /\ stat.Ex \in Int /\ stat.Ex2 \in Int
  BY DEF ShiftedStats
<1>2. MeanTimesN(stat) = s1
  BY <1>1 DEF MeanTimesN, SumsTo
<1>3. VarianceTimesNN(stat) = n * s2 - s1 * s1
  BY <1>1 DEF VarianceTimesNN, SumsTo
<1>4. ASSUME NEW x \in Int
      PROVE  /\ WithSample(stat, x) \in ShiftedStats
             /\ SumsTo(WithSample(stat, x), s1 + x, s2 + x * x)
  <2> DEFINE new == WithSample(stat, x)
  <2>1. /\ new.n = n + 1
        /\ new.K = IF n = 0 THEN x ELSE K
        /\ new.Ex = stat.Ex + (x - new.K)
        /\ new.Ex2 = stat.Ex2 + (x - new.K) * (x - new.K)
    BY DEF WithSample
  <2>2. new \in ShiftedStats
    BY <1>1 DEF WithSample, ShiftedStats
  <2>3. CASE n = 0
    <3>1. stat.Ex = 0 /\ stat.Ex2 = 0 /\ s1 = 0 /\ s2 = 0
      BY <1>1, <2>3 DEF SumsTo
    <3>2. SumsTo(new, x, x * x)
      BY <1>1, <2>1, <2>3, <3>1 DEF SumsTo
    <3> QED
      BY <2>2, <3>1, <3>2
  <2>4. CASE n # 0
    <3>1. new.K = K /\ stat.Ex = s1 - n * K
          /\ stat.Ex2 = s2 - 2 * (K * s1) + n * (K * K)
      BY <2>1, <2>4 DEF SumsTo
    <3>2. /\ (s1 - n * K) + (x - K) = (s1 + x) - (n + 1) * K
          /\ (s2 - 2 * (K * s1) + n * (K * K)) + (x - K) * (x - K)
               = (s2 + x * x) - 2 * (K * (s1 + x)) + (n + 1) * (K * K)
      <4> HIDE DEF n, K
      <4> QED
        BY ONLY <1>1, OneMoreDistance, s1 \in Int, s2 \in Int, x \in Int
    <3>3. /\ new.Ex = (s1 + x) - (n + 1) * K
          /\ new.Ex2 = (s2 + x * x) - 2 * (K * (s1 + x)) + (n + 1) * (K * K)
      BY ONLY <2>1, <3>1, <3>2
    <3>4. SumsTo(new, s1 + x, s2 + x * x)
      BY ONLY <1>1, <2>1, <2>4, <3>1, <3>3 DEF SumsTo
    <3> QED
      BY <2>2, <3>4
  <2> QED
    BY <2>2, <2>3, <2>4
<1> QED
  BY <1>2, <1>3, <1>4

-----------------------------------------------------------------------------
(* Type correctness: where the threads are in scan, and with what.           *)

\* A Stat as the code keeps it, of samples that are not negative.
Samples == {stat \in ShiftedStats : MeanTimesN(stat) \in Nat}

ScannedTrackers ==
  [is_enabled : BOOLEAN, tracking_number_count : 0 .. TrackingMod - 1,
   lost : Nat, late : Nat, too_late : Nat,
   received : Nat, delta_received : Nat, stat : Samples, delta_stat : Samples]

\* The statements of scan that update members, and those that log an event.
Updates ==
  {"tracking_number_count", "lost", "late", "too_late", "stat", "received"}
LoggedUpdates == {"lost", "late", "too_late"}

Locals ==
  [at : {"idle", "compare", "subtract", "expect", "load", "store", "event",
         "write"},
   field : Updates \union {""}, entity : Entities \union {None},
   number : 0 .. TrackingMod - 1, latency : Int, period : Int,
   n_lost : 0 .. TrackingMod - 1,
   loaded : ScannedTrackers, before : ScannedTrackers]

\* A place in scan, and the update it is for.
IsPlace(at, field) ==
  /\ at \in {"compare", "subtract", "expect", "load", "store", "event", "write"}
  /\ field \in Updates \union {""}
  /\ at \in {"load", "store"} => field \in Updates
  /\ at \in {"event", "write"} => field \in LoggedUpdates
  /\ at \in {"compare", "subtract", "expect"} => field = ""

\* The locals of a thread that scans a message with one of the latencies.
InScan(s, latencies) ==
  /\ s \in Locals
  /\ s.entity \in Entities
  /\ IsPlace(s.at, s.field)
  /\ s.latency \in latencies

LocalsOK ==
  /\ DOMAIN scan = Threads
  /\ \A th \in Threads : scan[th] = Idle \/ InScan(scan[th], Latencies[sender])
WritingOK ==
  \A th \in Threads : scan[th].at = "write" <=> writing[th] # "out"

ScanTypeOK ==
  /\ group \in {"mutually_exclusive", "reentrant"}
  /\ sender \in Senders
  /\ next_sent \in [Entities -> 0 .. TrackingMod - 1]
  /\ trackers \in [Entities -> ScannedTrackers]
  /\ heard \in [Entities -> Seq(Latencies[sender])]
  /\ LocalsOK
  /\ WritingOK

\* Latencies of the senders become samples that are not negative.
LEMMA LatencyType ==
  ASSUME NEW s \in Senders, NEW l \in Latencies[s]
  PROVE  l \in Int /\ LatencyUs(l) \in Nat
<1>1. l \in Int /\ -LatencyMod < l
  BY ConcurrentScanAssumption
<1> QED
  BY <1>1, LatencyUsType

LEMMA NoSamplesType == NoSamples \in Samples
BY DEF NoSamples, Samples, ShiftedStats, MeanTimesN

LEMMA WithSampleType ==
  ASSUME NEW stat \in Samples, NEW x \in Nat
  PROVE  /\ WithSample(stat, x) \in Samples
         /\ WithSample(stat, x).n = stat.n + 1
         /\ MeanTimesN(WithSample(stat, x)) = MeanTimesN(stat) + x
<1>1. stat \in ShiftedStats /\ stat.n \in Nat /\ stat.K \in Int /\ stat.Ex \in Int
  BY DEF Samples, ShiftedStats
<1>2. WithSample(stat, x) \in ShiftedStats /\ WithSample(stat, x).n = stat.n + 1
  BY <1>1 DEF WithSample, ShiftedStats
<1>3. MeanTimesN(WithSample(stat, x)) = MeanTimesN(stat) + x
  <2>1. CASE stat.n = 0
    BY <1>1, <2>1 DEF MeanTimesN, WithSample
  <2>2. CASE stat.n # 0
    <3>1. MeanTimesN(WithSample(stat, x))
            = (stat.n + 1) * stat.K + (stat.Ex + (x - stat.K))
      BY <1>1, <2>2 DEF MeanTimesN, WithSample
    <3>2. (stat.n + 1) * stat.K = stat.n * stat.K + stat.K
      BY <1>1
    <3>3. stat.n * stat.K \in Int
      BY <1>1
    <3> QED
      BY <1>1, <3>1, <3>2, <3>3 DEF MeanTimesN
  <2> QED
    BY <2>1, <2>2
<1> QED
  BY <1>2, <1>3 DEF Samples

LEMMA FreshType ==
  ASSUME NEW enabled \in BOOLEAN
  PROVE  Fresh(enabled) \in ScannedTrackers
<1>1. 0 \in 0 .. TrackingMod - 1
  BY TrackerAssumption
<1>2. ASSUME NEW none \in Samples, NEW stat
      PROVE  [[is_enabled |-> enabled, tracking_number_count |-> 0,
               lost |-> 0, late |-> 0, too_late |-> 0,
               received |-> 0, delta_received |-> 0,
               stat |-> stat, delta_stat |-> stat]
                EXCEPT !.stat = none, !.delta_stat = none] \in ScannedTrackers
  BY <1>1 DEF ScannedTrackers
<1> QED
  BY <1>2, NoSamplesType DEF Fresh, NewTracker

LEMMA IdleType ==
  /\ Idle \in Locals
  /\ Idle.at = "idle" /\ Idle.entity = None /\ Idle.field = ""
<1>1. 0 \in 0 .. TrackingMod - 1
  BY TrackerAssumption
<1>2. Fresh(FALSE) \in ScannedTrackers
  BY FreshType
<1>3. ASSUME NEW fresh \in ScannedTrackers
      PROVE  [at |-> "idle", field |-> "", entity |-> None, number |-> 0,
              latency |-> 0, period |-> 0, n_lost |-> 0,
              loaded |-> fresh, before |-> fresh] \in Locals
  BY <1>1 DEF Locals
<1>4. Idle \in Locals
  BY <1>2, <1>3 DEF Idle
<1> QED
  BY <1>4 DEF Idle

LEMMA AbstractType ==
  ASSUME NEW t \in ScannedTrackers
  PROVE  Abstract(t) \in Trackers
<1>1. AbstractStat(t.stat) \in Stats /\ AbstractStat(t.delta_stat) \in Stats
  BY DEF AbstractStat, Stats, ScannedTrackers, Samples, ShiftedStats
<1> QED
  BY <1>1 DEF Abstract, ScannedTrackers, Trackers

-----------------------------------------------------------------------------
(* What loads and stores do to a record of members. *)

\* The local copy s.loaded after a load, and the tracker t after a store.
LoadedFrom(s, t) ==
  [member \in DOMAIN s.loaded |->
     IF member \in Members(s.field) THEN t[member] ELSE s.loaded[member]]
StoredTo(s, t) ==
  [member \in DOMAIN t |->
     IF member \in Members(s.field) THEN Updated(s, member) ELSE t[member]]

LEMMA LoadedType ==
  ASSUME NEW s, s.loaded \in ScannedTrackers, s.field \in Updates,
         NEW t \in ScannedTrackers
  PROVE  /\ LoadedFrom(s, t) \in ScannedTrackers
         /\ \A member \in Members(s.field) : LoadedFrom(s, t)[member] = t[member]
<1> DEFINE l == s.loaded
<1>1. l \in ScannedTrackers
  OBVIOUS
<1>2. LoadedFrom(s, t) =
        [member \in DOMAIN l |->
           IF member \in Members(s.field) THEN t[member] ELSE l[member]]
  BY DEF LoadedFrom
<1>3. Members(s.field) \subseteq DOMAIN l
  BY DEF Members, Updates, ScannedTrackers
<1> HIDE DEF l
<1> QED
  BY <1>1, <1>2, <1>3 DEF ScannedTrackers

\* Each store changes the members of its statement and no others.
LEMMA StoredFields ==
  ASSUME NEW s, NEW t \in ScannedTrackers
  PROVE  /\ s.field = "tracking_number_count" =>
              StoredTo(s, t) = [t EXCEPT !.tracking_number_count =
                                  NextNumber(s.loaded.tracking_number_count)]
         /\ s.field = "lost" =>
              StoredTo(s, t) = [t EXCEPT !.lost = s.loaded.lost + s.n_lost]
         /\ s.field = "late" =>
              StoredTo(s, t) = [t EXCEPT !.late = s.loaded.late + 1]
         /\ s.field = "too_late" =>
              StoredTo(s, t) = [t EXCEPT !.too_late = s.loaded.too_late + 1]
         /\ s.field = "stat" =>
              StoredTo(s, t) =
                [t EXCEPT !.stat = WithSample(s.loaded.stat, LatencyUs(s.latency)),
                          !.delta_stat = WithSample(s.loaded.delta_stat,
                                                    LatencyUs(s.latency))]
         /\ s.field = "received" =>
              StoredTo(s, t) =
                [t EXCEPT !.received = s.loaded.received + 1,
                          !.delta_received = s.loaded.delta_received + 1]
<1>1. CASE s.field = "tracking_number_count"
  BY <1>1 DEF StoredTo, Members, Updated, ScannedTrackers
<1>2. CASE s.field = "lost"
  BY <1>2 DEF StoredTo, Members, Updated, ScannedTrackers
<1>3. CASE s.field = "late"
  BY <1>3 DEF StoredTo, Members, Updated, ScannedTrackers
<1>4. CASE s.field = "too_late"
  BY <1>4 DEF StoredTo, Members, Updated, ScannedTrackers
<1>5. CASE s.field = "stat"
  BY <1>5 DEF StoredTo, Members, Updated, ScannedTrackers
<1>6. CASE s.field = "received"
  BY <1>6 DEF StoredTo, Members, Updated, ScannedTrackers
<1> QED
  BY <1>1, <1>2, <1>3, <1>4, <1>5, <1>6

LEMMA NextNumberType ==
  ASSUME NEW number \in 0 .. TrackingMod - 1
  PROVE  NextNumber(number) \in 0 .. TrackingMod - 1
BY TrackerAssumption DEF NextNumber

\* A tracker keeps its type when a member takes a value of its own.
LEMMA ExceptType ==
  ASSUME NEW t \in ScannedTrackers
  PROVE  /\ \A x \in 0 .. TrackingMod - 1 :
              [t EXCEPT !.tracking_number_count = x] \in ScannedTrackers
         /\ \A x \in Nat : /\ [t EXCEPT !.lost = x] \in ScannedTrackers
                          /\ [t EXCEPT !.late = x] \in ScannedTrackers
                          /\ [t EXCEPT !.too_late = x] \in ScannedTrackers
         /\ \A x, y \in Nat :
              [t EXCEPT !.received = x, !.delta_received = y] \in ScannedTrackers
         /\ \A x, y \in Samples :
              [t EXCEPT !.stat = x, !.delta_stat = y] \in ScannedTrackers
BY DEF ScannedTrackers

LEMMA StoredType ==
  ASSUME NEW s, s.loaded \in ScannedTrackers, s.field \in Updates,
         s.n_lost \in Nat, LatencyUs(s.latency) \in Nat,
         NEW t \in ScannedTrackers
  PROVE  StoredTo(s, t) \in ScannedTrackers
<1> DEFINE l == s.loaded
<1>1. /\ l.tracking_number_count \in 0 .. TrackingMod - 1
      /\ l.lost \in Nat /\ l.late \in Nat /\ l.too_late \in Nat
      /\ l.received \in Nat /\ l.delta_received \in Nat
      /\ l.stat \in Samples /\ l.delta_stat \in Samples
  BY DEF ScannedTrackers
<1>2. NextNumber(l.tracking_number_count) \in 0 .. TrackingMod - 1
  BY <1>1, NextNumberType
<1>3. /\ WithSample(l.stat, LatencyUs(s.latency)) \in Samples
      /\ WithSample(l.delta_stat, LatencyUs(s.latency)) \in Samples
  BY <1>1, WithSampleType
<1>4. /\ l.lost + s.n_lost \in Nat /\ l.late + 1 \in Nat /\ l.too_late + 1 \in Nat
      /\ l.received + 1 \in Nat /\ l.delta_received + 1 \in Nat
  BY <1>1
<1>5. CASE s.field = "tracking_number_count"
  <2>1. [t EXCEPT !.tracking_number_count =
                  NextNumber(l.tracking_number_count)] \in ScannedTrackers
    BY <1>2, ExceptType
  <2> QED
    BY <1>5, <2>1, StoredFields
<1>6. CASE s.field = "lost"
  <2>1. [t EXCEPT !.lost = l.lost + s.n_lost] \in ScannedTrackers
    BY <1>4, ExceptType
  <2> QED
    BY <1>6, <2>1, StoredFields
<1>7. CASE s.field = "late"
  <2>1. [t EXCEPT !.late = l.late + 1] \in ScannedTrackers
    BY <1>4, ExceptType
  <2> QED
    BY <1>7, <2>1, StoredFields
<1>8. CASE s.field = "too_late"
  <2>1. [t EXCEPT !.too_late = l.too_late + 1] \in ScannedTrackers
    BY <1>4, ExceptType
  <2> QED
    BY <1>8, <2>1, StoredFields
<1>9. CASE s.field = "stat"
  <2>1. [t EXCEPT !.stat = WithSample(l.stat, LatencyUs(s.latency)),
                  !.delta_stat = WithSample(l.delta_stat,
                                            LatencyUs(s.latency))] \in ScannedTrackers
    BY <1>3, ExceptType
  <2> QED
    BY <1>9, <2>1, StoredFields
<1>10. CASE s.field = "received"
  <2>1. [t EXCEPT !.received = l.received + 1,
                  !.delta_received = l.delta_received + 1] \in ScannedTrackers
    BY <1>4, ExceptType
  <2> QED
    BY <1>10, <2>1, StoredFields
<1> QED
  BY <1>5, <1>6, <1>7, <1>8, <1>9, <1>10 DEF Updates

-----------------------------------------------------------------------------
(* The header's frequency, the period scan derives from it and the           *)
(* classification.                                                           *)

LEMMA QuotientType ==
  ASSUME NEW a \in Nat, NEW b \in Nat \ {0}
  PROVE  a \div b \in Nat
OBVIOUS

LEMMA QuotientOfProduct ==
  ASSUME NEW a \in Nat, NEW b \in Nat \ {0}
  PROVE  (b * a) \div b = a
<1> DEFINE q == (b * a) \div b
<1>1. b * a \in Nat
  OBVIOUS
<1>2. q \in Nat /\ b * q <= b * a /\ b * a < b * q + b
  BY <1>1
<1> HIDE DEF q
<1>3. ASSUME NEW x \in Nat, NEW y \in Nat, x < y
      PROVE  b * x + b <= b * y
  <2>1. y - x - 1 \in Nat
    BY <1>3
  <2>2. PICK k \in Nat : y = x + 1 + k
    BY <2>1
  <2>3. b * y = b * x + b + b * k /\ b * k \in Nat
    BY <2>2
  <2> QED
    BY <2>3
<1>4. ~(q < a) /\ ~(a < q)
  <2>1. b * q \in Int /\ b * a \in Int
    BY <1>1, <1>2
  <2> QED
    BY <1>2, <1>3, <2>1
<1>5. q = a
  BY <1>2, <1>4
<1> QED
  BY <1>5 DEF q

LEMMA IntRange ==
  /\ MinInt \in Int /\ MaxInt \in Int
  /\ \A x \in 0 .. MaxInt : x \in Nat /\ x % IntMod = x
<1>1. /\ IntMod \div 2 \in Nat /\ 2 * (IntMod \div 2) <= IntMod
      /\ IntMod \in Nat \ {0}
  BY TrackerAssumption
<1>2. ASSUME NEW x \in 0 .. MaxInt PROVE x \in Nat /\ x % IntMod = x
  <2>1. x \in Nat /\ x < IntMod
    BY <1>1 DEF MaxInt
  <2> QED
    BY <1>1, <2>1
<1> QED
  BY <1>1, <1>2 DEF MinInt, MaxInt

\* The floats of the abstract tracker are those of the concrete one.
LEMMA SameFloats ==
  ASSUME NEW e, NEW num, NEW den
  PROVE  Classified(e)!Float(num, den) = Float(num, den)
<1>1. Classified(e)!PowerOfTwo = PowerOfTwo
  BY DEF Classified!PowerOfTwo, PowerOfTwo
<1>2. \A a, b : Classified(e)!LeastPower(a, b) = LeastPower(a, b)
  BY <1>1 DEF Classified!LeastPower, LeastPower
<1>3. \A a, b : Classified(e)!RoundToEven(a, b) = RoundToEven(a, b)
  BY DEF Classified!RoundToEven, RoundToEven
<1> QED
  BY <1>1, <1>2, <1>3 DEF Classified!Float, Float

\* The frequency of a sender's headers.
LEMMA HeaderFrequencyType ==
  ASSUME NEW s \in Senders, NEW e
  PROVE  /\ s[1] = "publisher" =>
              Classified(e)!HeaderFrequency(s) = Float(MicrosPerSecond, s[2])
         /\ s[1] # "publisher" =>
              Classified(e)!HeaderFrequency(s)
                = Float(MicrosPerSecond \div s[2], 1)
         /\ Classified(e)!HeaderFrequency(s) \in Frequency
<1>1. s[1] \in {"publisher", "client"} /\ s[2] \in Nat \ {0}
  BY ConcurrentScanAssumption
<1>2. MicrosPerSecond \div s[2] \in Nat
  BY <1>1, QuotientType, TrackerAssumption
<1>3. /\ Float(MicrosPerSecond, s[2]) \in Frequency
      /\ Float(MicrosPerSecond \div s[2], 1) \in Frequency
  BY <1>1, <1>2, FloatType, TrackerAssumption
<1>4. Classified(e)!HeaderFrequency(s)
        = IF s[1] = "publisher" THEN Float(MicrosPerSecond, s[2])
                                ELSE Float(MicrosPerSecond \div s[2], 1)
  BY SameFloats DEF Classified!HeaderFrequency, Classified!PublisherFrequency,
                    Classified!ClientFrequency
<1> QED
  BY <1>3, <1>4

\* A period is an integer, whatever the conversion of a float yields.
LEMMA PeriodType ==
  ASSUME NEW s \in Senders, NEW e,
         NEW period \in PeriodsUs(Classified(e)!HeaderFrequency(s))
  PROVE  period \in Int
<1> DEFINE f == Classified(e)!HeaderFrequency(s)
           q == Float(MicrosPerSecond * f.den, f.num)
<1>1. f.num \in Nat /\ f.den \in Nat
  BY HeaderFrequencyType DEF Frequency
<1>2. f.num # 0 => q.num \div q.den \in Nat
  <2> SUFFICES ASSUME f.num # 0 PROVE q.num \div q.den \in Nat
    OBVIOUS
  <2>1. MicrosPerSecond * f.den \in Nat /\ f.num \in Nat \ {0}
    BY <1>1, TrackerAssumption
  <2>2. q \in Frequency
    BY <2>1, FloatType
  <2> HIDE DEF q
  <2> QED
    BY <2>2, QuotientType DEF Frequency
<1> HIDE DEF q
<1> QED
  BY <1>1, <1>2, IntRange DEF PeriodsUs, q

\* The senders and options the definition of irobot_benchmark/README.md fits:
\* publishers whose period is below half the mantissas of a float (8.4 s),
\* clients whose rate is whole, percentages of the period, no int at its
\* limits, clocks that agree.
SendersFit ==
  /\ {LateAbsolute, TooLateAbsolute} \subseteq 0 .. MaxInt
  /\ {LatePercentage, TooLatePercentage} \subseteq 0 .. 100
  /\ \A s \in Senders :
       /\ s[1] = "publisher" => s[2] < FloatMod \div 2
       /\ s[1] = "client" => \E rate \in Nat : MicrosPerSecond = rate * s[2]
       /\ s[2] <= MaxInt
       /\ {LatePercentage * s[2], TooLatePercentage * s[2]}
            \subseteq 0 .. MaxInt
       /\ Latencies[s] \subseteq Nat

\* Then the period derived from the header is the sender's, or, if that is a
\* publisher, one microsecond short of it (13 ms become 12999 us) ...
LEMMA PeriodWithin ==
  ASSUME SendersFit, NEW s \in Senders, NEW e,
         NEW period \in PeriodsUs(Classified(e)!HeaderFrequency(s))
  PROVE  /\ period \in {s[2] - 1, s[2]}
         /\ s[1] = "client" => period = s[2]
<1> DEFINE p == s[2]
<1>1. s[1] \in {"publisher", "client"} /\ p \in Nat \ {0} /\ p <= MaxInt
  BY ConcurrentScanAssumption DEF SendersFit
<1> HIDE DEF p
<1>2. CASE s[1] = "publisher"
  <2> DEFINE f == Float(MicrosPerSecond, p)
             q == Float(MicrosPerSecond * f.den, f.num)
  <2>1. 2 * p + 2 <= FloatMod
    <3>1. p < FloatMod \div 2
      BY <1>2 DEF SendersFit, p
    <3>2. FloatMod \div 2 \in Nat /\ 2 * (FloatMod \div 2) <= FloatMod
      BY TrackerAssumption
    <3> QED
      BY <1>1, <3>1, <3>2, TrackerAssumption
  <2>2. f.num \in Nat \ {0} /\ q.num \div q.den \in {p - 1, p}
    <3>1. MicrosPerSecond \in Nat \ {0} /\ MicrosPerSecond < FloatMod
      BY TrackerAssumption
    <3> QED
      BY <1>1, <2>1, <3>1, FloatPeriod
  <2>3. period \in PeriodsUs(f)
    BY <1>2, HeaderFrequencyType DEF p
  <2> HIDE DEF f
  <2>4. PeriodsUs(f) = IF q.num \div q.den <= MaxInt
                         THEN {q.num \div q.den} ELSE {MinInt, MaxInt}
    BY <2>2 DEF PeriodsUs
  <2> HIDE DEF q
  <2>5. q.num \div q.den <= MaxInt
    BY <1>1, <2>2, IntRange
  <2>6. period \in {p - 1, p}
    BY <2>2, <2>3, <2>4, <2>5
  <2> QED
    BY <1>2, <2>6 DEF p
<1>3. CASE s[1] = "client"
  <2>1. PICK rate \in Nat : MicrosPerSecond = rate * p
    BY <1>3 DEF SendersFit, p
  <2>2. rate # 0
    BY <1>1, <2>1, TrackerAssumption
  <2>3. MicrosPerSecond \div p = rate
    <3>1. MicrosPerSecond = p * rate
      BY <1>1, <2>1
    <3> QED
      BY <1>1, <3>1, QuotientOfProduct
  <2>4. rate <= MicrosPerSecond /\ p <= MicrosPerSecond
    BY <1>1, <2>1, <2>2
  <2>5. /\ rate \in Nat \ {0} /\ rate < FloatMod
        /\ p \in Nat \ {0} /\ p < FloatMod
    BY <1>1, <2>2, <2>4, TrackerAssumption
  <2> DEFINE f == Float(rate, 1)
             d == f.den
             q == Float(p * (rate * d), rate * d)
  <2>6. d \in Nat \ {0} /\ f.num = rate * d
    <3>1. rate * 1 = rate
      OBVIOUS
    <3>2. /\ Float(rate * 1, 1).den \in Nat \ {0}
          /\ Float(rate * 1, 1).num = rate * Float(rate * 1, 1).den
      BY <2>5, FloatExact
    <3> QED
      BY <3>1, <3>2
  <2> HIDE DEF d
  <2>7. rate * d \in Nat \ {0}
    BY <2>5, <2>6
  <2>8. q.den \in Nat \ {0} /\ q.num = p * q.den
    BY <2>5, <2>7, FloatExact
  <2>9. MicrosPerSecond * d = p * (rate * d)
    BY <1>1, <2>1, <2>6
  <2>10. Float(MicrosPerSecond * f.den, f.num) = q
    BY <2>6, <2>9 DEF d
  <2>11. period \in PeriodsUs(f)
    BY <1>3, <2>3, HeaderFrequencyType DEF p
  <2> HIDE DEF f, q
  <2>12. q.num \div q.den = p
    <3>1. q.num = q.den * p
      BY <1>1, <2>8
    <3> QED
      BY <1>1, <2>8, <3>1, QuotientOfProduct
  <2>13. PeriodsUs(f) = IF q.num \div q.den <= MaxInt
                          THEN {q.num \div q.den} ELSE {MinInt, MaxInt}
    BY <2>6, <2>7, <2>10 DEF PeriodsUs
  <2>14. period = p
    BY <1>1, <2>11, <2>12, <2>13
  <2> QED
    BY <2>14 DEF p
<1> QED
  BY <1>1, <1>2, <1>3

\* ... and to exceed the threshold is to exceed one of its two parts, to the
\* microsecond.
LEMMA ThresholdWithin ==
  ASSUME NEW s, NEW e, NEW period, s[2] \in Nat \ {0},
         period \in {s[2] - 1, s[2]},
         NEW absolute \in 0 .. MaxInt, NEW percentage \in 0 .. 100,
         percentage * s[2] \in 0 .. MaxInt, NEW latency \in Nat
  PROVE  Classified(e)!MayJudge(
           LatencyUs(latency) > ThresholdUs(absolute, percentage, period),
           s, latency, percentage, absolute)
<1> DEFINE p == s[2]
           N == NanosPerMicro
           whole == percentage * p
           product == percentage * period
           q == product \div 100
           u == latency \div N
<1>1. N \in Nat \ {0} /\ p \in Nat \ {0} /\ percentage \in Nat
  BY TrackerAssumption
<1>2. /\ whole \in Nat /\ whole <= MaxInt /\ product \in Nat
      /\ product <= whole /\ whole <= product + 100
  <2>1. whole \in Nat /\ whole <= MaxInt
    BY IntRange
  <2>2. percentage * (p - 1) = whole - percentage
    BY <1>1
  <2>3. percentage <= whole
    BY <1>1
  <2>4. product = whole \/ product = whole - percentage
    BY <2>2
  <2> HIDE DEF product, whole
  <2> QED
    BY <1>1, <2>1, <2>3, <2>4
<1>3. absolute \in Nat /\ absolute % IntMod = absolute
  BY IntRange
<1> HIDE DEF N, whole, product, p
<1>4. product % IntMod = product /\ product <= MaxInt
  <2>1. product \in 0 .. MaxInt
    BY <1>2, IntRange
  <2> QED
    BY <2>1, IntRange
<1>5. TruncDiv(ToInt(product), 100) = q
  BY <1>2, <1>4 DEF ToInt, TruncDiv
<1>6. q \in Nat /\ 100 * q <= product /\ product < 100 * q + 100
  BY <1>2
<1>7. q % IntMod = q
  <2>1. q \in 0 .. MaxInt
    BY <1>2, <1>4, <1>6, IntRange
  <2> QED
    BY <2>1, IntRange
<1>8. ThresholdUs(absolute, percentage, period)
        = IF q < absolute THEN q ELSE absolute
  BY <1>3, <1>5, <1>7 DEF ThresholdUs, ToUnsigned, product
<1>9. u \in Nat /\ N * u <= latency /\ latency < N * u + N
  BY <1>1
<1>10. LatencyUs(latency) = u
  BY <1>9 DEF LatencyUs, TruncDiv, N
<1> HIDE DEF q, u
<1>11. N * u \in Nat /\ N * absolute \in Nat /\ whole * N \in Nat
  BY <1>1, <1>2, <1>3, <1>9
<1>12. ASSUME NEW a \in Nat, NEW b \in Nat, N * a < N * b PROVE a < b
  <2> SUFFICES ASSUME b <= a PROVE FALSE
    BY <1>12
  <2>1. N * b <= N * a /\ N * b \in Nat /\ N * a \in Nat
    BY <1>1
  <2> QED
    BY <1>12, <2>1
<1>13. Classified(e)!Surely(s, latency, percentage, absolute)
         => u > absolute \/ u > q
  <2> SUFFICES ASSUME \/ latency - N > absolute * N
                      \/ (latency - N) * 100 > whole * N
               PROVE  u > absolute \/ u > q
    BY DEF Classified!Surely, Classified!Exceeds, N, whole, p
  <2>1. CASE latency - N > absolute * N
    <3>1. N * absolute < N * u
      BY <1>1, <1>3, <1>9, <1>11, <2>1
    <3> QED
      BY <1>3, <1>9, <1>12, <3>1
  <2>2. CASE (latency - N) * 100 > whole * N
    <3>1. (latency - N) * 100 < N * u * 100
      BY <1>1, <1>9, <1>11
    <3>2. N * whole < N * (u * 100)
      BY <1>1, <1>2, <1>9, <1>11, <2>2, <3>1
    <3>3. whole < u * 100
      BY <1>2, <1>9, <1>12, <3>2
    <3> QED
      BY <1>2, <1>6, <1>9, <3>3
  <2> QED
    BY <2>1, <2>2
<1>14. ASSUME u > absolute \/ u > q
       PROVE  Classified(e)!Possibly(s, latency, percentage, absolute)
  <2> SUFFICES \/ latency + N > absolute * N
               \/ (latency + N) * 100 > whole * N
    BY DEF Classified!Possibly, Classified!Exceeds, N, whole, p
  <2>1. CASE u > absolute
    <3>1. N * absolute <= N * u
      BY <1>1, <1>3, <1>9, <2>1
    <3> QED
      BY <1>1, <1>3, <1>9, <1>11, <3>1
  <2>2. CASE u > q
    <3>1. whole <= (u + 1) * 100
      BY <1>2, <1>6, <1>9, <2>2
    <3>2. N * whole <= N * ((u + 1) * 100)
      BY <1>1, <1>2, <1>9, <3>1
    <3>3. N * ((u + 1) * 100) = (N * u + N) * 100
      BY <1>1, <1>9
    <3>4. (N * u + N) * 100 <= (latency + N) * 100
      BY <1>1, <1>9, <1>11
    <3>5. whole < (u + 1) * 100
      BY <1>2, <1>6, <1>9, <2>2
    <3>6. N * whole < (latency + N) * 100
      <4>1. N * whole < N * ((u + 1) * 100)
        BY <1>1, <1>2, <1>9, <3>5
      <4> QED
        BY <1>1, <1>2, <1>9, <1>11, <3>3, <3>4, <4>1
    <3> QED
      BY <1>1, <1>2, <3>6
  <2> QED
    BY <1>14, <2>1, <2>2
<1> QED
  BY <1>3, <1>6, <1>8, <1>9, <1>10, <1>13, <1>14 DEF Classified!MayJudge

\* What scan judges to be above the late and above the too late threshold is
\* what the documentation defines so, to the microsecond, on every period the
\* conversion of the header's frequency may yield: what it judges so would be so
\* by the definition with a latency one microsecond longer, and what would be so
\* with one microsecond less, it judges so (irobot_benchmark/README.md and
\* Tracker::scan, for the floats of the message header and the integers scan
\* makes of a latency and a period).
THEOREM ClassifiedAsDefined ==
  ASSUME SendersFit, NEW s \in Senders, NEW latency \in Latencies[s], NEW e,
         NEW period \in PeriodsUs(Classified(e)!HeaderFrequency(s))
  PROVE  /\ Classified(e)!MayJudge(LatencyUs(latency) > LateThresholdUs(period),
                                   s, latency, LatePercentage, LateAbsolute)
         /\ Classified(e)!MayJudge(IsTooLate(latency, period),
                                   s, latency, TooLatePercentage, TooLateAbsolute)
<1>1. period \in {s[2] - 1, s[2]} /\ s[2] \in Nat \ {0}
  BY PeriodWithin, ConcurrentScanAssumption
<1>2. latency \in Nat
  BY DEF SendersFit
<1>3. /\ LateAbsolute \in 0 .. MaxInt /\ TooLateAbsolute \in 0 .. MaxInt
      /\ LatePercentage \in 0 .. 100 /\ TooLatePercentage \in 0 .. 100
      /\ LatePercentage * s[2] \in 0 .. MaxInt
      /\ TooLatePercentage * s[2] \in 0 .. MaxInt
  BY DEF SendersFit
<1> QED
  BY <1>1, <1>2, <1>3, ThresholdWithin
     DEF IsTooLate, LateThresholdUs, TooLateThresholdUs

\* What scan counts as late or as too late may be counted so.
LEMMA JudgedLate ==
  ASSUME SendersFit, NEW s \in Senders, NEW latency \in Latencies[s], NEW e,
         NEW period \in PeriodsUs(Classified(e)!HeaderFrequency(s))
  PROVE  /\ IsLate(latency, period) => Classified(e)!MayBeLate(s, latency)
         /\ IsTooLate(latency, period) => Classified(e)!MayBeTooLate(s, latency)
<1>1. /\ Classified(e)!MayJudge(LatencyUs(latency) > LateThresholdUs(period),
                                s, latency, LatePercentage, LateAbsolute)
      /\ Classified(e)!MayJudge(IsTooLate(latency, period),
                                s, latency, TooLatePercentage, TooLateAbsolute)
  BY ClassifiedAsDefined
<1> QED
  BY <1>1 DEF IsLate, Classified!MayBeLate, Classified!MayBeTooLate,
              Classified!MayJudge

-----------------------------------------------------------------------------
(* Where scan goes: the places that follow one another. *)

LEMMA GotoType ==
  ASSUME NEW s, NEW latencies, InScan(s, latencies),
         NEW at, NEW field, IsPlace(at, field)
  PROVE  InScan(Goto(s, at, field), latencies)
<1>1. /\ at \in {"idle", "compare", "subtract", "expect", "load", "store",
                "event", "write"}
      /\ field \in Updates \union {""}
  BY DEF IsPlace
<1>2. Goto(s, at, field) \in Locals
  BY <1>1 DEF Goto, InScan, Locals
<1>3. /\ Goto(s, at, field).at = at /\ Goto(s, at, field).field = field
      /\ Goto(s, at, field).entity = s.entity
      /\ Goto(s, at, field).latency = s.latency
  BY DEF Goto, InScan, Locals
<1> QED
  BY <1>2, <1>3 DEF InScan

\* After the loss accounting: the event or the update of a late message, of
\* one that is too late, or the update of the statistics.
LEMMA IfTooLateCases ==
  ASSUME NEW s
  PROVE  \/ /\ IsTooLate(s.latency, s.period)
            /\ \E at \in {"event", "load"} : IfTooLate(s) = Goto(s, at, "too_late")
         \/ /\ ~IsTooLate(s.latency, s.period)
            /\ IfTooLate(s) = Goto(s, "load", "stat")
BY DEF IfTooLate, LogOrElse

LEMMA IfLateCases ==
  ASSUME NEW s
  PROVE  \/ /\ IsLate(s.latency, s.period)
            /\ \E at \in {"event", "load"} : IfLate(s) = Goto(s, at, "late")
         \/ /\ ~IsLate(s.latency, s.period)
            /\ IfLate(s) = IfTooLate(s)
BY DEF IfLate, LogOrElse

\* Where the ifs lead, writing an event has not begun.
LEMMA IfLateType ==
  ASSUME NEW s, NEW latencies, InScan(s, latencies)
  PROVE  /\ InScan(IfTooLate(s), latencies) /\ IfTooLate(s).at # "write"
         /\ InScan(IfLate(s), latencies) /\ IfLate(s).at # "write"
<1>1. \A at \in {"event", "load"}, field \in {"late", "too_late", "stat"} :
        (at = "event" => field # "stat")
          => /\ InScan(Goto(s, at, field), latencies)
             /\ Goto(s, at, field).at # "write"
  <2> SUFFICES ASSUME NEW at \in {"event", "load"},
                      NEW field \in {"late", "too_late", "stat"},
                      at = "event" => field # "stat"
               PROVE  /\ InScan(Goto(s, at, field), latencies)
                      /\ Goto(s, at, field).at # "write"
    OBVIOUS
  <2>1. IsPlace(at, field)
    BY DEF IsPlace, Updates, LoggedUpdates
  <2>2. Goto(s, at, field).at = at
    BY DEF Goto, InScan, Locals
  <2> QED
    BY <2>1, <2>2, GotoType
<1>2. InScan(IfTooLate(s), latencies) /\ IfTooLate(s).at # "write"
  BY <1>1, IfTooLateCases
<1> QED
  BY <1>1, <1>2, IfLateCases

LEMMA AfterEventType ==
  ASSUME NEW s, NEW latencies, InScan(s, latencies), s.field \in LoggedUpdates
  PROVE  InScan(AfterEvent(s), latencies) /\ AfterEvent(s).at # "write"
<1>1. CASE s.field = "lost"
  BY <1>1, IfLateType DEF AfterEvent
<1>2. CASE s.field # "lost"
  <2>1. IsPlace("load", s.field)
    BY DEF IsPlace, Updates, LoggedUpdates
  <2>2. Goto(s, "load", s.field).at = "load"
    BY DEF Goto, InScan, Locals
  <2> QED
    BY <1>2, <2>1, <2>2, GotoType DEF AfterEvent
<1> QED
  BY <1>1, <1>2

LEMMA AfterUpdateType ==
  ASSUME NEW s, NEW latencies, InScan(s, latencies), s.field \in Updates
  PROVE  /\ AfterUpdate(s) = Idle \/ InScan(AfterUpdate(s), latencies)
         /\ AfterUpdate(s).at # "write"
<1>1. \A at \in {"expect", "load"}, field \in {"", "stat", "received"} :
        IsPlace(at, field) => /\ InScan(Goto(s, at, field), latencies)
                              /\ Goto(s, at, field).at # "write"
  <2>1. \A at, field : Goto(s, at, field).at = at
    BY DEF Goto, InScan, Locals
  <2> QED
    BY <2>1, GotoType
<1>2. /\ IsPlace("expect", "") /\ IsPlace("load", "stat")
      /\ IsPlace("load", "received")
  BY DEF IsPlace, Updates, LoggedUpdates
<1>3. CASE s.field = "tracking_number_count"
  BY <1>3, IfLateType DEF AfterUpdate
<1>4. CASE s.field = "lost"
  BY <1>1, <1>2, <1>4 DEF AfterUpdate
<1>5. CASE s.field = "late"
  BY <1>5, IfLateType DEF AfterUpdate
<1>6. CASE s.field = "too_late"
  BY <1>1, <1>2, <1>6 DEF AfterUpdate
<1>7. CASE s.field = "stat"
  BY <1>1, <1>2, <1>7 DEF AfterUpdate
<1>8. CASE s.field = "received"
  BY <1>8, IdleType DEF AfterUpdate
<1> QED
  BY <1>3, <1>4, <1>5, <1>6, <1>7, <1>8 DEF Updates

\* A thread moves; what it writes is as before.
LEMMA MovedType ==
  ASSUME LocalsOK, NEW th \in Threads,
         NEW s, s = Idle \/ InScan(s, Latencies[sender]),
         scan' = [scan EXCEPT ![th] = s], UNCHANGED sender
  PROVE  LocalsOK'
<1>1. DOMAIN scan' = Threads /\ scan'[th] = s
      /\ \A other \in Threads \ {th} : scan'[other] = scan[other]
  BY DEF LocalsOK
<1> QED
  BY <1>1 DEF LocalsOK

LEMMA MovedWriting ==
  ASSUME LocalsOK, WritingOK, NEW th \in Threads, scan[th].at # "write",
         NEW s, s.at # "write", scan' = [scan EXCEPT ![th] = s],
         UNCHANGED writing
  PROVE  WritingOK'
BY DEF LocalsOK, WritingOK

-----------------------------------------------------------------------------
(* The steps of a scan keep the types. *)

LEMMA TypeInit == Init => ScanTypeOK
<1> SUFFICES ASSUME Init PROVE ScanTypeOK
  OBVIOUS
<1>1. 0 \in 0 .. TrackingMod - 1
  BY TrackerAssumption
<1>2. trackers \in [Entities -> ScannedTrackers]
  BY FreshType DEF Init
<1>3. next_sent \in [Entities -> 0 .. TrackingMod - 1]
  BY <1>1 DEF Init
<1>4. heard \in [Entities -> Seq(Latencies[sender])]
  BY DEF Init
<1>5. LocalsOK /\ WritingOK
  BY IdleType DEF Init, EventsLoggerInit, LocalsOK, WritingOK
<1> QED
  BY <1>2, <1>3, <1>4, <1>5 DEF Init, ScanTypeOK

LEMMA TakeType ==
  ASSUME ScanTypeOK, NEW th \in Threads, NEW e \in Entities,
         NEW skipped \in Skips[sender], NEW latency \in Latencies[sender],
         Take(th, e, skipped, latency)
  PROVE  ScanTypeOK'
<1> DEFINE number == (next_sent[e] + skipped) % TrackingMod
<1>1. number \in 0 .. TrackingMod - 1
  <2>1. next_sent[e] + skipped \in Nat
    BY TrackerAssumption, ConcurrentScanAssumption DEF ScanTypeOK
  <2> QED
    BY <2>1, TrackerAssumption
<1>2. next_sent' \in [Entities -> 0 .. TrackingMod - 1]
  BY <1>1, NextNumberType DEF Take, ScanTypeOK
<1>3. PICK period \in PeriodsUs(Classified(e)!HeaderFrequency(sender)) :
        LET s == [Idle EXCEPT !.entity = e, !.number = number,
                              !.latency = latency, !.period = period,
                              !.before = trackers[e]]
        IN scan' = [scan EXCEPT ![th] =
                      IF trackers[e].is_enabled THEN Goto(s, "compare", "")
                                                ELSE Goto(s, "load", "stat")]
  BY DEF Take
<1> DEFINE s == [Idle EXCEPT !.entity = e, !.number = number,
                             !.latency = latency, !.period = period,
                             !.before = trackers[e]]
<1>4. period \in Int
  BY PeriodType DEF ScanTypeOK
<1>5. trackers[e] \in ScannedTrackers /\ latency \in Int
  BY LatencyType DEF ScanTypeOK
<1>6. s \in Locals /\ s.entity = e /\ s.latency = latency
  BY <1>1, <1>4, <1>5, IdleType DEF Locals
<1>7. /\ IsPlace("compare", "") /\ IsPlace("load", "stat")
  BY DEF IsPlace, Updates, LoggedUpdates
<1>8. InScan(Goto(s, "compare", ""), Latencies[sender])
      /\ InScan(Goto(s, "load", "stat"), Latencies[sender])
      /\ Goto(s, "compare", "").at # "write" /\ Goto(s, "load", "stat").at # "write"
  <2> HIDE DEF s
  <2>1. ASSUME NEW at, NEW field, IsPlace(at, field)
        PROVE  /\ InScan(Goto(s, at, field), Latencies[sender])
               /\ Goto(s, at, field).at = at
    <3>1. Goto(s, at, field) \in Locals
      BY <1>6, <2>1 DEF Goto, Locals, IsPlace
    <3>2. /\ Goto(s, at, field).at = at /\ Goto(s, at, field).field = field
          /\ Goto(s, at, field).entity = e
          /\ Goto(s, at, field).latency = latency
      BY <1>6 DEF Goto, Locals
    <3> QED
      BY <2>1, <3>1, <3>2 DEF InScan
  <2>2. /\ InScan(Goto(s, "compare", ""), Latencies[sender])
        /\ Goto(s, "compare", "").at = "compare"
    BY <1>7, <2>1
  <2>3. /\ InScan(Goto(s, "load", "stat"), Latencies[sender])
        /\ Goto(s, "load", "stat").at = "load"
    BY <1>7, <2>1
  <2> QED
    BY <2>2, <2>3
<1>9. scan[th].at # "write"
  BY DEF Take
<1>10. LocalsOK' /\ WritingOK'
  BY <1>3, <1>8, <1>9, MovedType, MovedWriting DEF Take, file_vars, ScanTypeOK
<1> QED
  BY <1>2, <1>10 DEF Take, ScanTypeOK

LEMMA CompareType ==
  ASSUME ScanTypeOK, NEW th \in Threads, Compare(th)
  PROVE  ScanTypeOK'
<1> DEFINE s == scan[th]
<1>1. s.at = "compare" /\ InScan(s, Latencies[sender])
  BY IdleType DEF Compare, ScanTypeOK, LocalsOK
<1>2. PICK at \in {"load", "subtract"} : \E field \in {"tracking_number_count", ""} :
        /\ IsPlace(at, field)
        /\ scan' = [scan EXCEPT ![th] = Goto(s, at, field)]
  BY DEF Compare, IsPlace, Updates, LoggedUpdates
<1>3. PICK field : /\ IsPlace(at, field)
                   /\ scan' = [scan EXCEPT ![th] = Goto(s, at, field)]
  BY <1>2
<1>4. InScan(Goto(s, at, field), Latencies[sender])
      /\ Goto(s, at, field).at # "write"
  <2>1. Goto(s, at, field).at = at
    BY <1>1 DEF Goto, InScan, Locals
  <2> QED
    BY <1>1, <1>3, <2>1, GotoType
<1>5. LocalsOK' /\ WritingOK'
  BY <1>1, <1>3, <1>4, MovedType, MovedWriting DEF Compare, file_vars, ScanTypeOK
<1> QED
  BY <1>5 DEF Compare, ScanTypeOK

LEMMA SubtractType ==
  ASSUME ScanTypeOK, NEW th \in Threads, Subtract(th)
  PROVE  ScanTypeOK'
<1> DEFINE s == scan[th]
           n_lost == Gap(trackers[s.entity].tracking_number_count, s.number)
           next == [Goto(s, "load", "lost") EXCEPT !.n_lost = n_lost]
<1>1. s.at = "subtract" /\ InScan(s, Latencies[sender])
  BY IdleType DEF Subtract, ScanTypeOK, LocalsOK
<1>2. n_lost \in 0 .. TrackingMod - 1
  BY <1>1, GapType DEF InScan, Locals, ScanTypeOK, ScannedTrackers
<1>3. InScan(Goto(s, "load", "lost"), Latencies[sender])
      /\ Goto(s, "load", "lost").at # "write"
  <2>1. IsPlace("load", "lost")
    BY DEF IsPlace, Updates
  <2>2. Goto(s, "load", "lost").at = "load"
    BY <1>1 DEF Goto, InScan, Locals
  <2> QED
    BY <1>1, <2>1, <2>2, GotoType
<1>4. InScan(next, Latencies[sender]) /\ next.at # "write"
  <2> HIDE DEF n_lost
  <2>1. next \in Locals
    BY <1>2, <1>3 DEF InScan, Locals
  <2>2. /\ next.at = Goto(s, "load", "lost").at
        /\ next.field = Goto(s, "load", "lost").field
        /\ next.entity = Goto(s, "load", "lost").entity
        /\ next.latency = Goto(s, "load", "lost").latency
    BY <1>3 DEF InScan, Locals
  <2> QED
    BY <1>3, <2>1, <2>2 DEF InScan
<1>5. scan' = [scan EXCEPT ![th] = next]
  BY DEF Subtract, Tracker_
<1>6. LocalsOK' /\ WritingOK'
  <2> HIDE DEF next
  <2> QED
    BY <1>1, <1>4, <1>5, MovedType, MovedWriting DEF Subtract, file_vars, ScanTypeOK
<1> QED
  BY <1>6 DEF Subtract, ScanTypeOK

LEMMA ExpectType ==
  ASSUME ScanTypeOK, NEW th \in Threads, Expect(th)
  PROVE  ScanTypeOK'
<1> DEFINE s == scan[th]
<1>1. s.at = "expect" /\ InScan(s, Latencies[sender])
  BY IdleType DEF Expect, ScanTypeOK, LocalsOK
<1>2. trackers' \in [Entities -> ScannedTrackers]
  <2>1. s.entity \in Entities /\ s.number \in 0 .. TrackingMod - 1
        /\ trackers[s.entity] \in ScannedTrackers
    BY <1>1 DEF InScan, Locals, ScanTypeOK
  <2>2. [trackers[s.entity] EXCEPT !.tracking_number_count = NextNumber(s.number)]
          \in ScannedTrackers
    BY <2>1, NextNumberType, ExceptType
  <2> QED
    BY <2>1, <2>2 DEF Expect, ScanTypeOK
<1>3. InScan(AfterExpected(s), Latencies[sender]) /\ AfterExpected(s).at # "write"
  <2>1. IsPlace("event", "lost") /\ Goto(s, "event", "lost").at = "event"
    BY <1>1 DEF IsPlace, Updates, LoggedUpdates, Goto, InScan, Locals
  <2> QED
    BY <1>1, <2>1, GotoType, IfLateType DEF AfterExpected
<1>4. LocalsOK' /\ WritingOK'
  BY <1>1, <1>3, MovedType, MovedWriting DEF Expect, file_vars, ScanTypeOK
<1> QED
  BY <1>2, <1>4 DEF Expect, ScanTypeOK

LEMMA LoadType ==
  ASSUME ScanTypeOK, NEW th \in Threads, Load(th)
  PROVE  ScanTypeOK'
<1> DEFINE s == scan[th]
           next == [Goto(s, "store", s.field) EXCEPT
                      !.loaded = LoadedFrom(s, trackers[s.entity])]
<1>1. s.at = "load" /\ InScan(s, Latencies[sender]) /\ s.field \in Updates
  BY IdleType DEF Load, ScanTypeOK, LocalsOK, InScan, IsPlace
<1>2. scan' = [scan EXCEPT ![th] = next]
  <2>1. Goto(s, "store", s.field).loaded = s.loaded
    BY <1>1 DEF Goto, InScan, Locals
  <2> QED
    BY <2>1 DEF Load, LoadedFrom, Tracker_
<1>3. LoadedFrom(s, trackers[s.entity]) \in ScannedTrackers
  BY <1>1, LoadedType DEF InScan, Locals, ScanTypeOK
<1>4. InScan(Goto(s, "store", s.field), Latencies[sender])
      /\ Goto(s, "store", s.field).at = "store"
  <2>1. IsPlace("store", s.field)
    BY <1>1 DEF IsPlace
  <2> QED
    BY <1>1, <2>1, GotoType DEF Goto, InScan, Locals
<1>5. InScan(next, Latencies[sender]) /\ next.at = "store"
  <2>1. ASSUME NEW g, InScan(g, Latencies[sender]), g.at = "store",
               NEW l \in ScannedTrackers
        PROVE  /\ InScan([g EXCEPT !.loaded = l], Latencies[sender])
               /\ [g EXCEPT !.loaded = l].at = "store"
    BY <2>1 DEF InScan, Locals
  <2> QED
    BY <1>3, <1>4, <2>1
<1>6. LocalsOK' /\ WritingOK'
  <2> HIDE DEF next
  <2> QED
    BY <1>1, <1>2, <1>5, MovedType, MovedWriting DEF Load, file_vars, ScanTypeOK
<1> QED
  BY <1>6 DEF Load, ScanTypeOK

\* The locals after the store, on which the next place is decided.
Done(s) == [s EXCEPT !.loaded = Fresh(FALSE)]

LEMMA DoneType ==
  ASSUME NEW s, NEW latencies, InScan(s, latencies)
  PROVE  /\ InScan(Done(s), latencies)
         /\ Done(s).field = s.field /\ Done(s).latency = s.latency
         /\ Done(s).period = s.period /\ Done(s).entity = s.entity
         /\ Done(s).number = s.number /\ Done(s).before = s.before
         /\ Done(s).n_lost = s.n_lost
<1>1. Fresh(FALSE) \in ScannedTrackers
  BY FreshType
<1> QED
  BY <1>1 DEF Done, InScan, Locals

LEMMA StoreType ==
  ASSUME ScanTypeOK, NEW th \in Threads, Store(th)
  PROVE  ScanTypeOK'
<1> DEFINE s == scan[th]
<1>1. s.at = "store" /\ InScan(s, Latencies[sender]) /\ s.field \in Updates
  BY IdleType DEF Store, ScanTypeOK, LocalsOK, InScan, IsPlace
<1>2. /\ trackers' = [trackers EXCEPT ![s.entity] = StoredTo(s, trackers[s.entity])]
      /\ scan' = [scan EXCEPT ![th] = AfterUpdate(Done(s))]
  BY DEF Store, StoredTo, Done
<1>3. trackers' \in [Entities -> ScannedTrackers]
  <2>1. /\ s.entity \in Entities /\ trackers[s.entity] \in ScannedTrackers
        /\ s.loaded \in ScannedTrackers /\ s.n_lost \in 0 .. TrackingMod - 1
    BY <1>1 DEF InScan, Locals, ScanTypeOK
  <2>2. LatencyUs(s.latency) \in Nat
    BY <1>1, LatencyType DEF InScan, ScanTypeOK
  <2>3. StoredTo(s, trackers[s.entity]) \in ScannedTrackers
    <3>1. s.n_lost \in Nat
      BY <2>1, TrackerAssumption
    <3> QED
      BY <1>1, <2>1, <2>2, <3>1, StoredType
  <2> QED
    BY <1>2, <2>1, <2>3 DEF ScanTypeOK
<1>4. heard' \in [Entities -> Seq(Latencies[sender])]
  BY <1>1, AppendProperties DEF Store, ScanTypeOK, InScan
<1>5. /\ AfterUpdate(Done(s)) = Idle \/ InScan(AfterUpdate(Done(s)), Latencies[sender])
      /\ AfterUpdate(Done(s)).at # "write"
  BY <1>1, DoneType, AfterUpdateType
<1>6. LocalsOK' /\ WritingOK'
  BY <1>1, <1>2, <1>5, MovedType, MovedWriting DEF Store, file_vars, ScanTypeOK
<1> QED
  BY <1>3, <1>4, <1>6 DEF Store, ScanTypeOK

LEMMA LogType ==
  ASSUME ScanTypeOK, FileInv, NEW th \in Threads, Log(th) \/ Write(th)
  PROVE  ScanTypeOK'
<1> DEFINE s == scan[th]
<1>1. s.at \in {"event", "write"} /\ InScan(s, Latencies[sender])
      /\ s.field \in LoggedUpdates
  BY IdleType DEF Log, Write, ScanTypeOK, LocalsOK, InScan, IsPlace
<1>2. InScan(AfterEvent(s), Latencies[sender]) /\ AfterEvent(s).at # "write"
  BY <1>1, AfterEventType
<1>3. InScan(Goto(s, "write", s.field), Latencies[sender])
      /\ Goto(s, "write", s.field).at = "write"
  <2>1. IsPlace("write", s.field)
    BY <1>1 DEF IsPlace, LoggedUpdates, Updates
  <2> QED
    BY <1>1, <2>1, GotoType DEF Goto, InScan, Locals
<1>4. DOMAIN writing = Threads /\ DOMAIN scan = Threads
  BY DEF FileInv, WriterInv, ScanTypeOK, LocalsOK
<1>5. CASE ReturnUnwritten(th) /\ s.at = "event"
           /\ scan' = [scan EXCEPT ![th] = AfterEvent(s)]
  BY <1>2, <1>5, MovedType, MovedWriting
     DEF Log, Write, ReturnUnwritten, file_vars, ScanTypeOK
<1>6. CASE Stamp(th, Event(s)) /\ s.at = "event"
           /\ scan' = [scan EXCEPT ![th] = Goto(s, "write", s.field)]
  <2>1. LocalsOK'
    BY <1>3, <1>6, MovedType DEF Log, Write, ScanTypeOK
  <2>2. WritingOK'
    BY <1>3, <1>4, <1>6 DEF Stamp, WritingOK, ScanTypeOK
  <2> QED
    BY <2>1, <2>2 DEF Log, Write, ScanTypeOK
<1>7. CASE (Lock(th) \/ StreamOut(th)) /\ s.at = "write" /\ UNCHANGED scan
  <2>1. WritingOK'
    BY <1>4, <1>7 DEF Lock, StreamOut, WritingOK, ScanTypeOK
  <2>2. LocalsOK'
    BY <1>7 DEF Log, Write, ScanTypeOK, LocalsOK
  <2> QED
    BY <2>1, <2>2 DEF Log, Write, ScanTypeOK
<1>8. CASE EndLine(th) /\ s.at = "write"
           /\ scan' = [scan EXCEPT ![th] = AfterEvent(s)]
  <2>1. LocalsOK'
    BY <1>2, <1>8, MovedType DEF Log, Write, ScanTypeOK
  <2>2. WritingOK'
    BY <1>2, <1>4, <1>8 DEF EndLine, WritingOK, ScanTypeOK
  <2> QED
    BY <2>1, <2>2 DEF Log, Write, ScanTypeOK
<1> QED
  BY <1>5, <1>6, <1>7, <1>8 DEF Log, Write

LEMMA TypeStep == ScanTypeOK /\ FileInv /\ [Next]_vars => ScanTypeOK'
<1> SUFFICES ASSUME ScanTypeOK, FileInv, [Next]_vars PROVE ScanTypeOK'
  OBVIOUS
<1>1. CASE UNCHANGED vars
  BY <1>1 DEF vars, scan_vars, file_vars, ScanTypeOK, LocalsOK, WritingOK
<1> QED
  BY <1>1, TakeType, CompareType, SubtractType, ExpectType, LoadType, StoreType,
     LogType DEF Next

\* The trackers keep their types, the threads' local variables and the mutex
\* of the events file belong together, in both types of callback group, even
\* where scans of one tracker race (Tracker::scan, EventsLogger::write_event).
THEOREM TypeCorrect == Spec => []TypeOK
<1>1. ScanTypeOK /\ FileInv => TypeOK
  <2> SUFFICES ASSUME ScanTypeOK, FileInv PROVE TypeOK
    OBVIOUS
  <2>1. \A th \in Threads :
          /\ scan[th].entity \in Entities \cup {None}
          /\ scan[th].at = "idle" <=> scan[th].entity = None
    BY IdleType, ConcurrentScanAssumption
       DEF ScanTypeOK, LocalsOK, InScan, IsPlace
  <2>2. \A e \in Entities : Abstract(trackers[e]) \in Trackers
    BY AbstractType DEF ScanTypeOK
  <2> QED
    BY <2>1, <2>2 DEF ScanTypeOK, WritingOK, FileInv, WriterInv, TypeOK
<1> QED
  BY <1>1, TypeInit, TypeStep, FileInit, FileStep, PTL DEF Spec

-----------------------------------------------------------------------------
(* A scan goes on with its message: past an update it stays past it, and it  *)
(* comes to the updates of a class only with a message of the class.         *)

\* The updates that count messages, and where a scan is that is past them.
Counters == {"late", "too_late", "stat", "received"}
PastUpdate(counter) ==
  CASE counter = "late" -> {"too_late", "stat", "received"}
    [] counter = "too_late" -> {"stat", "received"}
    [] counter = "stat" -> {"received"}
    [] counter = "received" -> {}

SameMessage(s, r) ==
  /\ r.entity = s.entity /\ r.number = s.number
  /\ r.latency = s.latency /\ r.period = s.period
  /\ r.before = s.before

InClass(s) ==
  /\ s.field = "late" => IsLate(s.latency, s.period)
  /\ s.field = "too_late" => IsTooLate(s.latency, s.period)

Onward(s, r) ==
  /\ SameMessage(s, r)
  /\ InClass(r)
  /\ \A c \in Counters : s.field \in PastUpdate(c) => r.field \in PastUpdate(c)

\* The period of a message is one the conversion of its header may yield.
MessageOK(s) ==
  /\ InClass(s)
  /\ s.period \in PeriodsUs(Classified(s.entity)!HeaderFrequency(sender))
MessagesOK ==
  \A th \in Threads : scan[th].entity \in Entities => MessageOK(scan[th])

\* What a thread does once it has taken a message.
ScanStep(th) ==
  Compare(th) \/ Subtract(th) \/ Expect(th) \/ Load(th) \/ Store(th)
  \/ Log(th) \/ Write(th)
LastStep(th) == Store(th) /\ scan[th].field = "received"

LEMMA PastFields ==
  /\ PastUpdate("late") = {"too_late", "stat", "received"}
  /\ PastUpdate("too_late") = {"stat", "received"}
  /\ PastUpdate("stat") = {"received"}
  /\ PastUpdate("received") = {}
BY DEF PastUpdate

LEMMA GotoFields ==
  ASSUME NEW s \in Locals, NEW at, NEW field
  PROVE  /\ Goto(s, at, field).at = at /\ Goto(s, at, field).field = field
         /\ SameMessage(s, Goto(s, at, field))
         /\ Goto(s, at, field).n_lost = s.n_lost
         /\ Goto(s, at, field).loaded = s.loaded
BY DEF Goto, SameMessage, Locals

\* Going on to a later update.
LEMMA GotoOnward ==
  ASSUME NEW s \in Locals, NEW at, NEW field,
         \A c \in Counters : s.field \in PastUpdate(c) => field \in PastUpdate(c),
         field = "late" => IsLate(s.latency, s.period),
         field = "too_late" => IsTooLate(s.latency, s.period)
  PROVE  Onward(s, Goto(s, at, field))
BY GotoFields DEF Onward, InClass, SameMessage

LEMMA IfLateOnward ==
  ASSUME NEW s \in Locals
  PROVE  /\ s.field \notin {"stat", "received"} /\ s.field # "too_late"
              => Onward(s, IfTooLate(s))
         /\ s.field \notin {"stat", "received", "too_late"} /\ s.field # "late"
              => Onward(s, IfLate(s))
<1>1. ASSUME s.field \notin {"stat", "received", "too_late"}
      PROVE  Onward(s, IfTooLate(s))
  <2>1. \A at : Onward(s, Goto(s, at, "stat"))
    BY <1>1, GotoOnward, PastFields DEF Counters
  <2>2. IsTooLate(s.latency, s.period) => \A at : Onward(s, Goto(s, at, "too_late"))
    BY <1>1, GotoOnward, PastFields DEF Counters
  <2> QED
    BY <2>1, <2>2, IfTooLateCases
<1>2. ASSUME s.field \notin {"stat", "received", "too_late", "late"}
      PROVE  Onward(s, IfLate(s))
  <2>1. IsLate(s.latency, s.period) => \A at : Onward(s, Goto(s, at, "late"))
    BY <1>2, GotoOnward, PastFields DEF Counters
  <2> QED
    BY <1>1, <1>2, <2>1, IfLateCases
<1> QED
  BY <1>1, <1>2

LEMMA AfterEventOnward ==
  ASSUME NEW s \in Locals, s.field \in LoggedUpdates, InClass(s)
  PROVE  Onward(s, AfterEvent(s))
<1>1. CASE s.field = "lost"
  BY <1>1, IfLateOnward DEF AfterEvent
<1>2. CASE s.field # "lost"
  BY <1>2, GotoOnward DEF AfterEvent, InClass
<1> QED
  BY <1>1, <1>2

LEMMA AfterUpdateOnward ==
  ASSUME NEW s \in Locals, s.field \in Updates \ {"received"}
  PROVE  Onward(s, AfterUpdate(s))
<1>1. CASE s.field = "tracking_number_count"
  BY <1>1, IfLateOnward DEF AfterUpdate
<1>2. CASE s.field = "lost"
  BY <1>2, GotoOnward, PastFields DEF AfterUpdate, Counters
<1>3. CASE s.field = "late"
  BY <1>3, IfLateOnward DEF AfterUpdate
<1>4. CASE s.field = "too_late"
  BY <1>4, GotoOnward, PastFields DEF AfterUpdate, Counters
<1>5. CASE s.field = "stat"
  BY <1>5, GotoOnward, PastFields DEF AfterUpdate, Counters
<1> QED
  BY <1>1, <1>2, <1>3, <1>4, <1>5 DEF Updates

\* Every step of a scan but the last goes on with the message.
LEMMA StepsOnward ==
  ASSUME ScanTypeOK, MessagesOK, NEW th \in Threads, ScanStep(th), ~LastStep(th)
  PROVE  Onward(scan[th], scan'[th])
<1> DEFINE s == scan[th]
<1>1. DOMAIN scan = Threads
  BY DEF ScanTypeOK, LocalsOK
<1>2. s.at # "idle"
  BY DEF ScanStep, Compare, Subtract, Expect, Load, Store, Log, Write
<1>3. InScan(s, Latencies[sender]) /\ s \in Locals /\ IsPlace(s.at, s.field)
      /\ InClass(s)
  BY <1>2, IdleType DEF ScanTypeOK, LocalsOK, InScan, MessagesOK, MessageOK
<1>4. ASSUME NEW r, Onward(s, r), NEW q, SameMessage(r, q), q.field = r.field
      PROVE  Onward(s, q)
  BY <1>4 DEF Onward, SameMessage, InClass
<1>5. CASE Compare(th)
  <2>1. s.field = ""
    BY <1>3, <1>5 DEF Compare, IsPlace
  <2>2. Onward(s, Goto(s, "load", "tracking_number_count"))
        /\ Onward(s, Goto(s, "subtract", ""))
    BY <1>3, <2>1, GotoOnward, PastFields DEF Counters
  <2> QED
    BY <1>1, <1>5, <2>2 DEF Compare
<1>6. CASE Subtract(th)
  <2> DEFINE n_lost == Gap(Tracker_(s).tracking_number_count, s.number)
             r == Goto(s, "load", "lost")
  <2>1. s.field = ""
    BY <1>3, <1>6 DEF Subtract, IsPlace
  <2>2. Onward(s, r)
    BY <1>3, <2>1, GotoOnward, PastFields DEF Counters
  <2>3. SameMessage(r, [r EXCEPT !.n_lost = n_lost])
        /\ [r EXCEPT !.n_lost = n_lost].field = r.field
    BY <1>3 DEF Goto, Locals, SameMessage
  <2>4. scan'[th] = [r EXCEPT !.n_lost = n_lost]
    BY <1>1, <1>6 DEF Subtract
  <2> QED
    BY <1>4, <2>2, <2>3, <2>4
<1>7. CASE Expect(th)
  <2>1. s.field = ""
    BY <1>3, <1>7 DEF Expect, IsPlace
  <2>2. Onward(s, Goto(s, "event", "lost"))
    BY <1>3, <2>1, GotoOnward, PastFields DEF Counters
  <2> QED
    BY <1>1, <1>3, <1>7, <2>1, <2>2, IfLateOnward DEF Expect, AfterExpected
<1>8. CASE Load(th)
  <2> DEFINE r == Goto(s, "store", s.field)
  <2>1. Onward(s, r)
    BY <1>3, GotoOnward DEF InClass
  <2>2. \A l : SameMessage(r, [r EXCEPT !.loaded = l])
               /\ [r EXCEPT !.loaded = l].field = r.field
    BY <1>3 DEF Goto, Locals, SameMessage
  <2>3. \E l : scan'[th] = [r EXCEPT !.loaded = l]
    BY <1>1, <1>8 DEF Load
  <2> QED
    BY <1>4, <2>1, <2>2, <2>3
<1>9. CASE Store(th)
  <2>1. s.field \in Updates \ {"received"}
    BY <1>3, <1>9 DEF Store, IsPlace, LastStep
  <2>2. Done(s) \in Locals /\ Done(s).field = s.field /\ SameMessage(s, Done(s))
    BY <1>3, DoneType DEF InScan, SameMessage
  <2>3. Onward(Done(s), AfterUpdate(Done(s)))
    BY <2>1, <2>2, AfterUpdateOnward
  <2>4. scan'[th] = AfterUpdate(Done(s))
    BY <1>1, <1>9 DEF Store, Done
  <2> QED
    BY <2>2, <2>3, <2>4 DEF Onward, SameMessage
<1>10. CASE Log(th) \/ Write(th)
  <2>1. s.field \in LoggedUpdates
    BY <1>3, <1>10 DEF Log, Write, IsPlace
  <2>2. Onward(s, AfterEvent(s)) /\ Onward(s, Goto(s, "write", s.field))
        /\ Onward(s, s)
    BY <1>3, <2>1, AfterEventOnward, GotoOnward
       DEF InClass, Onward, SameMessage
  <2> QED
    BY <1>1, <1>10, <2>2 DEF Log, Write
<1> QED
  BY <1>5, <1>6, <1>7, <1>8, <1>9, <1>10 DEF ScanStep

\* The last one ends the scan and remembers its latency.
LEMMA LastStepEnds ==
  ASSUME ScanTypeOK, NEW th \in Threads, LastStep(th)
  PROVE  /\ scan'[th] = Idle
         /\ scan[th].entity \in Entities
         /\ heard' = [heard EXCEPT ![scan[th].entity] = Append(@, scan[th].latency)]
<1>1. InScan(scan[th], Latencies[sender])
  BY IdleType DEF LastStep, Store, ScanTypeOK, LocalsOK
<1>2. Done(scan[th]).field = "received"
  BY <1>1, DoneType DEF LastStep
<1> QED
  BY <1>1, <1>2 DEF LastStep, Store, Done, AfterUpdate, ScanTypeOK, LocalsOK, InScan

\* A step of one thread leaves the others where they are.
LEMMA StepOthers ==
  ASSUME ScanTypeOK, NEW th \in Threads, ScanStep(th)
  PROVE  /\ UNCHANGED <<group, sender>>
         /\ \A other \in Threads \ {th} : scan'[other] = scan[other]
         /\ ~LastStep(th) => UNCHANGED heard
BY DEF ScanStep, LastStep, Compare, Subtract, Expect, Load, Store, Log, Write,
       ScanTypeOK, LocalsOK

LEMMA TakeMoves ==
  ASSUME ScanTypeOK, NEW th \in Threads, NEW e \in Entities,
         NEW skipped \in Skips[sender], NEW latency \in Latencies[sender],
         Take(th, e, skipped, latency)
  PROVE  /\ scan[th] = Idle
         /\ scan'[th].entity = e /\ scan'[th].latency = latency
         /\ scan'[th].before = trackers[e]
         /\ scan'[th].period \in PeriodsUs(Classified(e)!HeaderFrequency(sender))
         /\ trackers[e].is_enabled
              => scan'[th].at = "compare" /\ scan'[th].field = ""
         /\ ~trackers[e].is_enabled
              => scan'[th].at = "load" /\ scan'[th].field = "stat"
         /\ \A other \in Threads \ {th} : scan'[other] = scan[other]
<1> DEFINE number == (next_sent[e] + skipped) % TrackingMod
<1>1. PICK period \in PeriodsUs(Classified(e)!HeaderFrequency(sender)) :
        LET s == [Idle EXCEPT !.entity = e, !.number = number,
                              !.latency = latency, !.period = period,
                              !.before = trackers[e]]
        IN scan' = [scan EXCEPT ![th] =
                      IF trackers[e].is_enabled THEN Goto(s, "compare", "")
                                                ELSE Goto(s, "load", "stat")]
  BY DEF Take
<1> DEFINE s == [Idle EXCEPT !.entity = e, !.number = number,
                             !.latency = latency, !.period = period,
                             !.before = trackers[e]]
<1>2. /\ s.entity = e /\ s.latency = latency /\ s.before = trackers[e]
      /\ s.period = period
  BY IdleType DEF Locals
<1>3. ASSUME NEW at, NEW field
      PROVE  /\ Goto(s, at, field).at = at /\ Goto(s, at, field).field = field
             /\ SameMessage(s, Goto(s, at, field))
  BY IdleType DEF Goto, SameMessage, Locals
<1>4. /\ DOMAIN scan = Threads
      /\ scan[th] = Idle
  BY DEF Take, ScanTypeOK, LocalsOK, InScan, IsPlace
<1>5. /\ scan'[th] = IF trackers[e].is_enabled THEN Goto(s, "compare", "")
                                               ELSE Goto(s, "load", "stat")
      /\ \A other \in Threads \ {th} : scan'[other] = scan[other]
  BY <1>1, <1>4
<1> HIDE DEF s
<1>6. CASE trackers[e].is_enabled
  <2>1. scan'[th] = Goto(s, "compare", "")
    BY <1>5, <1>6
  <2>2. /\ Goto(s, "compare", "").at = "compare"
        /\ Goto(s, "compare", "").field = ""
        /\ SameMessage(s, Goto(s, "compare", ""))
    BY <1>3
  <2> QED
    BY <1>2, <1>4, <1>5, <1>6, <2>1, <2>2 DEF SameMessage
<1>7. CASE ~trackers[e].is_enabled
  <2>1. scan'[th] = Goto(s, "load", "stat")
    BY <1>5, <1>7
  <2>2. /\ scan'[th].at = "load" /\ scan'[th].field = "stat"
        /\ SameMessage(s, scan'[th])
    BY <1>3, <2>1
  <2> QED
    BY <1>2, <1>4, <1>5, <1>7, <2>2 DEF SameMessage
<1> QED
  BY <1>6, <1>7

LEMMA MessagesInit == Init => MessagesOK
BY IdleType, ConcurrentScanAssumption DEF Init, MessagesOK

LEMMA MessagesStep ==
  ASSUME ScanTypeOK, MessagesOK, [Next]_vars
  PROVE  MessagesOK'
<1>1. CASE UNCHANGED vars
  BY <1>1 DEF vars, scan_vars, MessagesOK, MessageOK
<1>2. ASSUME NEW th \in Threads, NEW e \in Entities, NEW skipped \in Skips[sender],
             NEW latency \in Latencies[sender], Take(th, e, skipped, latency)
      PROVE  MessagesOK'
  <2>1. /\ scan'[th].entity = e
        /\ scan'[th].period \in PeriodsUs(Classified(e)!HeaderFrequency(sender))
        /\ scan'[th].field \in {"", "stat"}
        /\ \A other \in Threads \ {th} : scan'[other] = scan[other]
    BY <1>2, TakeMoves
  <2>2. UNCHANGED sender
    BY <1>2 DEF Take
  <2> QED
    BY <2>1, <2>2 DEF MessagesOK, MessageOK, InClass
<1>3. ASSUME NEW th \in Threads, ScanStep(th) PROVE MessagesOK'
  <2>1. scan'[th].entity \in Entities => MessageOK(scan[th])'
    <3>1. CASE LastStep(th)
      BY <3>1, LastStepEnds, IdleType, ConcurrentScanAssumption
    <3>2. CASE ~LastStep(th)
      BY <1>3, <3>2, StepsOnward, StepOthers
         DEF Onward, SameMessage, MessageOK, MessagesOK
    <3> QED
      BY <3>1, <3>2
  <2> QED
    BY <1>3, <2>1, StepOthers DEF MessagesOK, MessageOK
<1> QED
  BY <1>1, <1>2, <1>3 DEF Next, ScanStep

-----------------------------------------------------------------------------
(* How many messages a counter may have counted at most: those whose scan    *)
(* has ended, and those whose scan is past the update.                       *)

\* The latencies of the messages a counter of entity e counts.
Class(e, counter) ==
  CASE counter = "late" ->
         {l \in Latencies[sender] : Classified(e)!MayBeLate(sender, l)}
    [] counter = "too_late" ->
         {l \in Latencies[sender] : Classified(e)!MayBeTooLate(sender, l)}
    [] OTHER -> Latencies[sender]

Count(tracker, counter) ==
  CASE counter = "late" -> tracker.late
    [] counter = "too_late" -> tracker.too_late
    [] counter = "stat" -> tracker.stat.n
    [] counter = "received" -> tracker.received

Heard(e, counter) == {i \in DOMAIN heard[e] : heard[e][i] \in Class(e, counter)}
Past(e, counter) ==
  {th \in Scanning(e) : /\ scan[th].latency \in Class(e, counter)
                        /\ scan[th].field \in PastUpdate(counter)}
Bound(e, counter) == Cardinality(Heard(e, counter)) + Cardinality(Past(e, counter))

\* The inductive invariant: no counter, and no value a thread has loaded from
\* one, is above its bound.
CountInv ==
  /\ \A e \in Entities, c \in Counters : Count(trackers[e], c) <= Bound(e, c)
  /\ \A th \in Threads, c \in Counters :
       scan[th].at = "store" /\ scan[th].field = c
         => Count(scan[th].loaded, c) <= Bound(scan[th].entity, c)

\* A larger set has a larger cardinality.
LEMMA LargerSet ==
  ASSUME NEW A, NEW B, IsFiniteSet(B), A \subseteq B
  PROVE  /\ IsFiniteSet(A)
         /\ Cardinality(A) \in Nat /\ Cardinality(B) \in Nat
         /\ Cardinality(A) <= Cardinality(B)
         /\ \A x \in B \ A : Cardinality(A) + 1 <= Cardinality(B)
<1>1. IsFiniteSet(A) /\ Cardinality(A) <= Cardinality(B)
  BY FS_Subset
<1>2. Cardinality(A) \in Nat /\ Cardinality(B) \in Nat
  BY <1>1, FS_CardinalityType
<1>3. ASSUME NEW x \in B \ A PROVE Cardinality(A) + 1 <= Cardinality(B)
  <2>1. IsFiniteSet(A \union {x}) /\ Cardinality(A \union {x}) = Cardinality(A) + 1
    BY <1>1, <1>3, FS_AddElement
  <2>2. A \union {x} \subseteq B
    BY <1>3
  <2>3. Cardinality(A \union {x}) <= Cardinality(B)
    BY <2>2, FS_Subset
  <2> QED
    BY <2>1, <2>3
<1> QED
  BY <1>1, <1>2, <1>3

LEMMA IndicesFinite ==
  ASSUME NEW S, NEW q \in Seq(S), NEW A, A \subseteq DOMAIN q
  PROVE  IsFiniteSet(A)
<1>1. DOMAIN q = 1 .. Len(q) /\ Len(q) \in Nat
  OBVIOUS
<1>2. IsFiniteSet(DOMAIN q)
  BY <1>1, FS_Interval
<1> QED
  BY <1>2, FS_Subset

LEMMA ClassKept ==
  ASSUME UNCHANGED sender, NEW e, NEW c
  PROVE  Class(e, c)' = Class(e, c)
BY DEF Class, Classified!MayBeLate, Classified!MayBeTooLate,
       Classified!MayJudge, Classified!Surely, Classified!Possibly,
       Classified!Exceeds

\* The bound grows with its two sets, ...
LEMMA BoundGrows ==
  ASSUME ScanTypeOK', NEW e \in Entities, NEW c,
         Heard(e, c) \subseteq Heard(e, c)', Past(e, c) \subseteq Past(e, c)'
  PROVE  /\ Bound(e, c) \in Nat /\ Bound(e, c)' \in Nat
         /\ Bound(e, c) <= Bound(e, c)'
         /\ (\E x : x \in Past(e, c)' \ Past(e, c)) => Bound(e, c) + 1 <= Bound(e, c)'
         /\ (\E x : x \in Heard(e, c)' \ Heard(e, c)) => Bound(e, c) + 1 <= Bound(e, c)'
<1>1. IsFiniteSet(Heard(e, c)') /\ IsFiniteSet(Past(e, c)')
  <2>1. Heard(e, c)' \subseteq DOMAIN heard'[e] /\ Past(e, c)' \subseteq Threads
    BY DEF Heard, Past, Scanning
  <2>2. heard'[e] \in Seq(Latencies[sender'])
    BY DEF ScanTypeOK
  <2> QED
    BY <2>1, <2>2, IndicesFinite, FS_Subset, ConcurrentScanAssumption
<1> DEFINE H == Heard(e, c)  G == Heard(e, c)'
           P == Past(e, c)  Q == Past(e, c)'
<1>2. /\ Cardinality(H) \in Nat /\ Cardinality(G) \in Nat
      /\ Cardinality(H) <= Cardinality(G)
      /\ \A x \in G \ H : Cardinality(H) + 1 <= Cardinality(G)
  BY <1>1, LargerSet
<1>3. /\ Cardinality(P) \in Nat /\ Cardinality(Q) \in Nat
      /\ Cardinality(P) <= Cardinality(Q)
      /\ \A x \in Q \ P : Cardinality(P) + 1 <= Cardinality(Q)
  BY <1>1, LargerSet
<1>4. /\ Bound(e, c) = Cardinality(H) + Cardinality(P)
      /\ Bound(e, c)' = Cardinality(G) + Cardinality(Q)
  BY DEF Bound
<1> HIDE DEF H, G, P, Q
<1>5. /\ Bound(e, c) \in Nat /\ Bound(e, c)' \in Nat
      /\ Bound(e, c) <= Bound(e, c)'
      /\ (\E x : x \in Q \ P) => Bound(e, c) + 1 <= Bound(e, c)'
      /\ (\E x : x \in G \ H) => Bound(e, c) + 1 <= Bound(e, c)'
  BY <1>2, <1>3, <1>4
<1> QED
  BY <1>5 DEF H, G, P, Q

\* ... when a message is taken, ...
LEMMA TakeBound ==
  ASSUME ScanTypeOK, ScanTypeOK', NEW th \in Threads, NEW a \in Entities,
         NEW skipped \in Skips[sender], NEW latency \in Latencies[sender],
         Take(th, a, skipped, latency), NEW e \in Entities, NEW c
  PROVE  Bound(e, c) \in Nat /\ Bound(e, c)' \in Nat /\ Bound(e, c) <= Bound(e, c)'
<1>1. /\ scan[th] = Idle
      /\ \A other \in Threads \ {th} : scan'[other] = scan[other]
  BY TakeMoves
<1>2. UNCHANGED <<sender, heard>>
  BY DEF Take
<1>3. Class(e, c)' = Class(e, c)
  BY <1>2, ClassKept
<1>4. Heard(e, c) \subseteq Heard(e, c)'
  BY <1>2, <1>3 DEF Heard
<1>5. Past(e, c) \subseteq Past(e, c)'
  BY <1>1, <1>3, IdleType, ConcurrentScanAssumption DEF Past, Scanning
<1> QED
  BY <1>4, <1>5, BoundGrows

\* ... when a scan goes on, the more so when it passes an update of a counter
\* with a message of its class, ...
LEMMA StepBound ==
  ASSUME ScanTypeOK, ScanTypeOK', MessagesOK, NEW th \in Threads, ScanStep(th),
         ~LastStep(th), NEW e \in Entities, NEW c \in Counters
  PROVE  /\ Bound(e, c) \in Nat /\ Bound(e, c)' \in Nat
         /\ Bound(e, c) <= Bound(e, c)'
         /\ scan[th].entity = e /\ scan[th].latency \in Class(e, c)
            /\ scan[th].field \notin PastUpdate(c)
            /\ scan'[th].field \in PastUpdate(c)
              => Bound(e, c) + 1 <= Bound(e, c)'
<1>1. /\ Onward(scan[th], scan'[th])
      /\ UNCHANGED <<sender, heard>>
      /\ \A other \in Threads \ {th} : scan'[other] = scan[other]
  BY StepsOnward, StepOthers
<1>2. Class(e, c)' = Class(e, c)
  BY <1>1, ClassKept
<1>3. Heard(e, c) \subseteq Heard(e, c)'
  BY <1>1, <1>2 DEF Heard
<1>4. Past(e, c) \subseteq Past(e, c)'
  BY <1>1, <1>2 DEF Past, Scanning, Onward, SameMessage
<1>5. ASSUME scan[th].entity = e, scan[th].latency \in Class(e, c),
             scan[th].field \notin PastUpdate(c),
             scan'[th].field \in PastUpdate(c)
      PROVE  th \in Past(e, c)' \ Past(e, c)
  BY <1>1, <1>2, <1>5 DEF Past, Scanning, Onward, SameMessage
<1> QED
  BY <1>3, <1>4, <1>5, BoundGrows

\* ... and when it ends, for its message is heard then.
LEMMA LastBound ==
  ASSUME ScanTypeOK, ScanTypeOK', NEW th \in Threads, LastStep(th),
         NEW e \in Entities, NEW c \in Counters
  PROVE  /\ Bound(e, c) \in Nat /\ Bound(e, c)' \in Nat
         /\ Bound(e, c) <= Bound(e, c)'
         /\ scan[th].entity = e /\ c = "received" => Bound(e, c) + 1 <= Bound(e, c)'
<1> DEFINE s == scan[th]
           q == heard[e]
<1>1. /\ scan'[th] = Idle /\ s.entity \in Entities /\ s.field = "received"
      /\ heard' = [heard EXCEPT ![s.entity] = Append(@, s.latency)]
      /\ \A other \in Threads \ {th} : scan'[other] = scan[other]
      /\ UNCHANGED sender
  BY LastStepEnds, StepOthers DEF LastStep, ScanStep
<1>2. InScan(s, Latencies[sender])
  BY <1>1, IdleType, ConcurrentScanAssumption DEF ScanTypeOK, LocalsOK
<1>3. Class(e, c)' = Class(e, c)
  BY <1>1, ClassKept
<1>4. q \in Seq(Latencies[sender]) /\ s.latency \in Latencies[sender]
  BY <1>2 DEF ScanTypeOK, InScan
<1>5. CASE s.entity # e
  <2>1. Heard(e, c)' = Heard(e, c)
    BY <1>1, <1>3, <1>5 DEF Heard, ScanTypeOK
  <2>2. Past(e, c) \subseteq Past(e, c)'
    BY <1>1, <1>3, <1>5 DEF Past, Scanning
  <2> QED
    BY <1>5, <2>1, <2>2, BoundGrows
<1>6. CASE s.entity = e
  <2> DEFINE n == Len(q)
  <2>1. heard'[e] = Append(q, s.latency)
    BY <1>1, <1>6 DEF ScanTypeOK
  <2>2. n \in Nat /\ DOMAIN q = 1 .. n /\ DOMAIN heard'[e] = 1 .. n + 1
        /\ (\A i \in 1 .. n : heard'[e][i] = q[i])
        /\ heard'[e][n + 1] = s.latency
    BY <1>4, <2>1, AppendProperties
  <2>3. Heard(e, c) \subseteq Heard(e, c)'
    <3>1. \A i \in DOMAIN q : i \in DOMAIN heard'[e] /\ heard'[e][i] = q[i]
      BY <2>2
    <3> QED
      BY <1>3, <3>1 DEF Heard
  <2>4. n + 1 \notin Heard(e, c)
    BY <2>2 DEF Heard
  <2>5. s.latency \in Class(e, c) => n + 1 \in Heard(e, c)'
    <3>1. n + 1 \in DOMAIN heard'[e]
      BY <2>2
    <3> QED
      BY <1>3, <2>2, <3>1 DEF Heard
  <2>6. CASE s.latency \in Class(e, c) /\ c # "received"
    <3>1. th \in Past(e, c)
      BY <1>1, <1>6, <2>6, PastFields DEF Past, Scanning, Counters
    <3>2. Past(e, c)' = Past(e, c) \ {th}
      BY <1>1, <1>3, <1>6, IdleType, ConcurrentScanAssumption DEF Past, Scanning
    <3>3. Heard(e, c)' = Heard(e, c) \union {n + 1}
      <4>1. \A i : i \in DOMAIN heard'[e] <=> i \in DOMAIN q \/ i = n + 1
        BY <2>2
      <4>2. \A i \in DOMAIN q : heard'[e][i] = q[i]
        BY <2>2
      <4> QED
        BY <1>3, <2>2, <2>6, <4>1, <4>2 DEF Heard
    <3>4. IsFiniteSet(Heard(e, c)) /\ IsFiniteSet(Past(e, c))
      <4>1. Heard(e, c) \subseteq DOMAIN q /\ Past(e, c) \subseteq Threads
        BY DEF Heard, Past, Scanning
      <4> QED
        BY <1>4, <4>1, IndicesFinite, FS_Subset, ConcurrentScanAssumption
    <3>5. /\ Cardinality(Heard(e, c)') = Cardinality(Heard(e, c)) + 1
          /\ Cardinality(Past(e, c)') = Cardinality(Past(e, c)) - 1
      <4>1. Cardinality(Heard(e, c) \union {n + 1}) = Cardinality(Heard(e, c)) + 1
        BY <2>4, <3>4, FS_AddElement
      <4>2. Cardinality(Past(e, c) \ {th}) = Cardinality(Past(e, c)) - 1
        BY <3>1, <3>4, FS_RemoveElement
      <4> QED
        BY <3>2, <3>3, <4>1, <4>2
    <3>6. Cardinality(Heard(e, c)) \in Nat /\ Cardinality(Past(e, c)) \in Nat
      BY <3>4, FS_CardinalityType
    <3>7. Bound(e, c)' = Bound(e, c) /\ Bound(e, c) \in Nat
      BY <3>5, <3>6 DEF Bound
    <3> QED
      BY <2>6, <3>7
  <2>7. CASE s.latency \notin Class(e, c) \/ c = "received"
    <3>1. Past(e, c) \subseteq Past(e, c)'
      BY <1>1, <1>3, <2>7, PastFields DEF Past, Scanning
    <3>2. c = "received" => s.latency \in Class(e, c)
      BY <1>4 DEF Class
    <3>3. c = "received" => \E x : x \in Heard(e, c)' \ Heard(e, c)
      BY <2>4, <2>5, <3>2
    <3> QED
      BY <2>3, <3>1, <3>3, BoundGrows
  <2> QED
    BY <2>6, <2>7
<1> QED
  BY <1>5, <1>6

-----------------------------------------------------------------------------
(* No counter is above its bound. *)

LEMMA CountType ==
  ASSUME NEW t \in ScannedTrackers, NEW c \in Counters
  PROVE  Count(t, c) \in Nat
BY DEF Count, Counters, ScannedTrackers, Samples, ShiftedStats

LEMMA CountInit ==
  ASSUME Init, ScanTypeOK
  PROVE  CountInv
<1>1. \A enabled \in BOOLEAN, c \in Counters : Count(Fresh(enabled), c) = 0
  BY DEF Count, Counters, Fresh, NewTracker, NoSamples
<1>2. \A e \in Entities, c \in Counters : Count(trackers[e], c) = 0
  BY <1>1 DEF Init
<1>3. \A e \in Entities, c \in Counters : Bound(e, c) \in Nat
  <2> SUFFICES ASSUME NEW e \in Entities, NEW c \in Counters
               PROVE  Bound(e, c) \in Nat
    OBVIOUS
  <2>1. Heard(e, c) \subseteq DOMAIN heard[e] /\ Past(e, c) \subseteq Threads
    BY DEF Heard, Past, Scanning
  <2>2. heard[e] \in Seq(Latencies[sender])
    BY DEF ScanTypeOK
  <2>3. IsFiniteSet(Heard(e, c)) /\ IsFiniteSet(Past(e, c))
    BY <2>1, <2>2, IndicesFinite, FS_Subset, ConcurrentScanAssumption
  <2>4. Cardinality(Heard(e, c)) \in Nat /\ Cardinality(Past(e, c)) \in Nat
    BY <2>3, FS_CardinalityType
  <2> QED
    BY <2>4 DEF Bound
<1>4. \A th \in Threads : scan[th].at # "store"
  BY IdleType DEF Init
<1> QED
  BY <1>2, <1>3, <1>4 DEF CountInv

\* A scan comes to a store only by the load before it.
LEMMA StoreAfterLoad ==
  ASSUME ScanTypeOK, NEW th \in Threads, ScanStep(th), scan'[th].at = "store"
  PROVE  Load(th)
<1> DEFINE s == scan[th]
<1>1. DOMAIN scan = Threads
  BY DEF ScanTypeOK, LocalsOK
<1>2. s.at # "idle"
  BY DEF ScanStep, Compare, Subtract, Expect, Load, Store, Log, Write
<1>3. InScan(s, Latencies[sender]) /\ s \in Locals
  BY <1>2, IdleType DEF ScanTypeOK, LocalsOK, InScan
<1>4. ASSUME NEW r \in Locals
      PROVE  IfTooLate(r).at # "store" /\ IfLate(r).at # "store"
  <2>1. \A at, field : Goto(r, at, field).at = at
    BY GotoFields
  <2>2. IfTooLate(r).at # "store"
    BY <2>1, IfTooLateCases
  <2> QED
    BY <2>1, <2>2, IfLateCases
<1>5. \A at, field : Goto(s, at, field).at = at
  BY <1>3, GotoFields
<1>6. ~Compare(th)
  <2>1. /\ Goto(s, "load", "tracking_number_count").at = "load"
        /\ Goto(s, "subtract", "").at = "subtract"
    BY <1>5
  <2> QED
    BY <1>1, <2>1 DEF Compare
<1>7. ~Subtract(th)
  <2>1. \A l : [Goto(s, "load", "lost") EXCEPT !.n_lost = l].at = "load"
    BY <1>3 DEF Goto, Locals
  <2> QED
    BY <1>1, <2>1 DEF Subtract
<1>8. ~Expect(th)
  BY <1>1, <1>3, <1>4, <1>5 DEF Expect, AfterExpected
<1>9. ~Store(th)
  <2>1. Done(s) \in Locals /\ Done(s).field = s.field
    BY <1>3, DoneType DEF InScan
  <2>2. \A at, field : Goto(Done(s), at, field).at = at
    BY <2>1, GotoFields
  <2>3. s.at = "store" => AfterUpdate(Done(s)).at # "store"
    <3> SUFFICES ASSUME s.at = "store" PROVE AfterUpdate(Done(s)).at # "store"
      OBVIOUS
    <3>1. s.field \in Updates
      BY <1>3 DEF InScan, IsPlace
    <3>2. /\ Goto(Done(s), "expect", "").at = "expect"
          /\ Goto(Done(s), "load", "stat").at = "load"
          /\ Goto(Done(s), "load", "received").at = "load"
      BY <2>2
    <3> QED
      BY <1>4, <2>1, <3>1, <3>2, IdleType DEF AfterUpdate, Updates
  <2> QED
    BY <1>1, <2>3 DEF Store, Done
<1>10. ~(Log(th) \/ Write(th))
  BY <1>1, <1>3, <1>4, <1>5 DEF Log, Write, AfterEvent
<1> QED
  BY <1>6, <1>7, <1>8, <1>9, <1>10 DEF ScanStep

\* What a store does to a counter: the value that was loaded, and one more.
LEMMA StoredCount ==
  ASSUME NEW s, s.field \in Updates, s.loaded \in ScannedTrackers,
         LatencyUs(s.latency) \in Nat,
         NEW t \in ScannedTrackers, NEW c \in Counters
  PROVE  Count(StoredTo(s, t), c)
           = IF s.field = c THEN Count(s.loaded, c) + 1 ELSE Count(t, c)
<1>1. s.loaded.stat \in Samples /\ s.loaded.stat.n \in Nat
  BY DEF ScannedTrackers, Samples, ShiftedStats
<1>2. WithSample(s.loaded.stat, LatencyUs(s.latency)).n = s.loaded.stat.n + 1
  BY <1>1, WithSampleType
<1>3. ASSUME NEW x
      PROVE  /\ Count([t EXCEPT !.tracking_number_count = x], c) = Count(t, c)
             /\ Count([t EXCEPT !.lost = x], c) = Count(t, c)
             /\ Count([t EXCEPT !.late = x], c) = IF c = "late" THEN x ELSE Count(t, c)
             /\ Count([t EXCEPT !.too_late = x], c)
                  = IF c = "too_late" THEN x ELSE Count(t, c)
  BY DEF Count, Counters, ScannedTrackers
<1>4. ASSUME NEW x, NEW y
      PROVE  /\ Count([t EXCEPT !.stat = x, !.delta_stat = y], c)
                  = IF c = "stat" THEN x.n ELSE Count(t, c)
             /\ Count([t EXCEPT !.received = x, !.delta_received = y], c)
                  = IF c = "received" THEN x ELSE Count(t, c)
  BY DEF Count, Counters, ScannedTrackers
<1>5. CASE s.field = "tracking_number_count"
  <2>1. StoredTo(s, t) = [t EXCEPT !.tracking_number_count =
                            NextNumber(s.loaded.tracking_number_count)]
    BY <1>5, StoredFields
  <2>2. Count(StoredTo(s, t), c) =
          IF c = "tracking_number_count" THEN Count(s.loaded, c) + 1 ELSE Count(t, c)
    BY <1>3, <2>1 DEF Count, Counters
  <2> QED
    BY <1>5, <2>2
<1>6. CASE s.field = "lost"
  <2>1. StoredTo(s, t) = [t EXCEPT !.lost = s.loaded.lost + s.n_lost]
    BY <1>6, StoredFields
  <2>2. Count(StoredTo(s, t), c) =
          IF c = "lost" THEN Count(s.loaded, c) + 1 ELSE Count(t, c)
    BY <1>3, <2>1 DEF Count, Counters
  <2> QED
    BY <1>6, <2>2
<1>7. CASE s.field = "late"
  <2>1. StoredTo(s, t) = [t EXCEPT !.late = s.loaded.late + 1]
    BY <1>7, StoredFields
  <2>2. Count(StoredTo(s, t), c) =
          IF c = "late" THEN Count(s.loaded, c) + 1 ELSE Count(t, c)
    BY <1>3, <2>1 DEF Count, Counters
  <2> QED
    BY <1>7, <2>2
<1>8. CASE s.field = "too_late"
  <2>1. StoredTo(s, t) = [t EXCEPT !.too_late = s.loaded.too_late + 1]
    BY <1>8, StoredFields
  <2>2. Count(StoredTo(s, t), c) =
          IF c = "too_late" THEN Count(s.loaded, c) + 1 ELSE Count(t, c)
    BY <1>3, <2>1 DEF Count, Counters
  <2> QED
    BY <1>8, <2>2
<1>9. CASE s.field = "stat"
  <2>1. StoredTo(s, t) = [t EXCEPT !.stat = WithSample(s.loaded.stat, LatencyUs(s.latency)),
                                !.delta_stat = WithSample(s.loaded.delta_stat,
                                                          LatencyUs(s.latency))]
    BY <1>9, StoredFields
  <2>2. Count(StoredTo(s, t), c) =
          IF c = "stat" THEN Count(s.loaded, c) + 1 ELSE Count(t, c)
    BY <1>4, <1>2, <2>1 DEF Count, Counters
  <2> QED
    BY <1>9, <2>2
<1>10. CASE s.field = "received"
  <2>1. StoredTo(s, t) = [t EXCEPT !.received = s.loaded.received + 1,
                                !.delta_received = s.loaded.delta_received + 1]
    BY <1>10, StoredFields
  <2>2. Count(StoredTo(s, t), c) =
          IF c = "received" THEN Count(s.loaded, c) + 1 ELSE Count(t, c)
    BY <1>4, <2>1 DEF Count, Counters
  <2> QED
    BY <1>10, <2>2
<1> QED
  BY <1>5, <1>6, <1>7, <1>8, <1>9, <1>10 DEF Updates

\* What a store does to the trackers.
LEMMA StoreStores ==
  ASSUME ScanTypeOK, NEW th \in Threads, Store(th), NEW e \in Entities
  PROVE  trackers'[e] = IF scan[th].entity = e THEN StoredTo(scan[th], trackers[e])
                                               ELSE trackers[e]
<1>1. DOMAIN trackers = Entities
  BY DEF ScanTypeOK
<1> QED
  BY <1>1 DEF Store, StoredTo

\* Storing a counter passes its update.
LEMMA StorePasses ==
  ASSUME ScanTypeOK, NEW th \in Threads, Store(th), ~LastStep(th),
         scan[th].field \in Counters
  PROVE  /\ scan[th].field \notin PastUpdate(scan[th].field)
         /\ scan'[th].field \in PastUpdate(scan[th].field)
<1> DEFINE s == scan[th]
           d == Done(s)
<1>1. InScan(s, Latencies[sender]) /\ DOMAIN scan = Threads
  BY IdleType DEF Store, ScanTypeOK, LocalsOK
<1>2. d \in Locals /\ d.field = s.field
  BY <1>1, DoneType DEF InScan
<1>3. scan'[th] = AfterUpdate(d)
  BY <1>1 DEF Store, Done
<1>4. \A at, field : Goto(d, at, field).field = field
  BY <1>2, GotoFields
<1>5. IfTooLate(d).field \in {"too_late", "stat"}
  BY <1>4, IfTooLateCases
<1>6. CASE s.field = "late"
  BY <1>2, <1>3, <1>5, <1>6, PastFields DEF AfterUpdate
<1>7. CASE s.field \in {"too_late", "stat"}
  <2>1. Goto(d, "load", "stat").field = "stat"
        /\ Goto(d, "load", "received").field = "received"
    BY <1>4
  <2> QED
    BY <1>2, <1>3, <1>7, <2>1, PastFields DEF AfterUpdate
<1> QED
  BY <1>6, <1>7 DEF Counters, LastStep

\* Steps that store nothing leave the counters alone.
LEMMA CountKept ==
  ASSUME ScanTypeOK, NEW th \in Threads, ScanStep(th), ~Store(th),
         NEW e \in Entities, NEW c \in Counters
  PROVE  Count(trackers'[e], c) = Count(trackers[e], c)
<1>1. CASE Expect(th)
  <2>1. trackers[e] \in ScannedTrackers /\ DOMAIN trackers = Entities
    BY DEF ScanTypeOK
  <2>2. \A x : Count([trackers[e] EXCEPT !.tracking_number_count = x], c)
                 = Count(trackers[e], c)
    BY <2>1 DEF Count, Counters, ScannedTrackers
  <2>3. \/ trackers'[e] = trackers[e]
        \/ \E x : trackers'[e] = [trackers[e] EXCEPT !.tracking_number_count = x]
    BY <1>1, <2>1 DEF Expect
  <2> QED
    BY <2>2, <2>3
<1>2. CASE ~Expect(th)
  BY <1>2 DEF ScanStep, Compare, Subtract, Load, Log, Write
<1> QED
  BY <1>1, <1>2

\* The messages a scan counts are of the class the counter is for.
LEMMA CountsItsClass ==
  ASSUME SendersFit, ScanTypeOK, MessagesOK, NEW th \in Threads,
         scan[th].at # "idle", scan[th].field \in Counters
  PROVE  scan[th].latency \in Class(scan[th].entity, scan[th].field)
<1> DEFINE s == scan[th]
<1>1. s.entity \in Entities /\ s.latency \in Latencies[sender] /\ sender \in Senders
  BY IdleType DEF ScanTypeOK, LocalsOK, InScan
<1>2. MessageOK(s)
  BY <1>1 DEF MessagesOK
<1>3. s.field = "late" => Classified(s.entity)!MayBeLate(sender, s.latency)
  BY <1>1, <1>2, JudgedLate DEF MessageOK, InClass
<1>4. s.field = "too_late"
        => Classified(s.entity)!MayBeTooLate(sender, s.latency)
  BY <1>1, <1>2, JudgedLate DEF MessageOK, InClass
<1> QED
  BY <1>1, <1>3, <1>4 DEF Class, Counters

LEMMA CountStep ==
  ASSUME SendersFit, ScanTypeOK, ScanTypeOK', MessagesOK, CountInv, [Next]_vars
  PROVE  CountInv'
<1>1. CASE UNCHANGED vars
  <2>1. \A e, c : Bound(e, c)' = Bound(e, c)
    BY <1>1, ClassKept DEF vars, scan_vars, Bound, Heard, Past, Scanning
  <2> QED
    BY <1>1, <2>1 DEF vars, scan_vars, CountInv
<1>2. ASSUME NEW th \in Threads, NEW a \in Entities, NEW skipped \in Skips[sender],
             NEW latency \in Latencies[sender], Take(th, a, skipped, latency)
      PROVE  CountInv'
  <2>1. \A e \in Entities, c \in Counters :
          /\ Bound(e, c) \in Nat /\ Bound(e, c)' \in Nat
          /\ Bound(e, c) <= Bound(e, c)'
    BY <1>2, TakeBound
  <2>2. UNCHANGED trackers
    BY <1>2 DEF Take
  <2>3. scan'[th].at # "store"
        /\ \A other \in Threads \ {th} : scan'[other] = scan[other]
    BY <1>2, TakeMoves
  <2>4. ASSUME NEW e \in Entities, NEW c \in Counters
        PROVE  Count(trackers'[e], c) <= Bound(e, c)'
    <3>1. Count(trackers[e], c) \in Nat
      BY CountType DEF ScanTypeOK
    <3>2. Count(trackers[e], c) <= Bound(e, c)
      BY DEF CountInv
    <3> QED
      BY <2>1, <2>2, <3>1, <3>2
  <2>5. ASSUME NEW other \in Threads, NEW c \in Counters,
               scan'[other].at = "store", scan'[other].field = c
        PROVE  Count(scan'[other].loaded, c) <= Bound(scan[other].entity, c)'
    <3>1. scan'[other] = scan[other] /\ other # th
      BY <2>3, <2>5
    <3>2. InScan(scan[other], Latencies[sender])
      BY <2>5, <3>1, IdleType DEF ScanTypeOK, LocalsOK
    <3>3. scan[other].entity \in Entities /\ Count(scan[other].loaded, c) \in Nat
      BY <3>2, CountType DEF InScan, Locals
    <3>4. Count(scan[other].loaded, c) <= Bound(scan[other].entity, c)
      BY <2>5, <3>1 DEF CountInv
    <3>5. PICK e \in Entities : e = scan[other].entity
      BY <3>3
    <3>6. Bound(scan[other].entity, c)' = Bound(e, c)'
      BY <3>1, <3>5
    <3> QED
      BY <2>1, <3>1, <3>3, <3>4, <3>5, <3>6
  <2> QED
    BY <2>4, <2>5 DEF CountInv
<1>3. ASSUME NEW th \in Threads, ScanStep(th) PROVE CountInv'
  <2> DEFINE s == scan[th]
  <2>1. \A e \in Entities, c \in Counters :
          /\ Bound(e, c) \in Nat /\ Bound(e, c)' \in Nat
          /\ Bound(e, c) <= Bound(e, c)'
    BY <1>3, StepBound, LastBound
  <2>2. s.at # "idle" /\ InScan(s, Latencies[sender])
    <3>1. s.at # "idle"
      BY <1>3 DEF ScanStep, Compare, Subtract, Expect, Load, Store, Log, Write
    <3> QED
      BY <3>1, IdleType DEF ScanTypeOK, LocalsOK
  <2>3. ASSUME NEW e \in Entities, NEW c \in Counters
        PROVE  Count(trackers'[e], c) <= Bound(e, c)'
    <3>1. Count(trackers[e], c) \in Nat /\ Count(trackers[e], c) <= Bound(e, c)
      BY CountType DEF CountInv, ScanTypeOK
    <3>2. CASE Count(trackers'[e], c) = Count(trackers[e], c)
      BY <2>1, <3>1, <3>2
    <3>3. CASE Store(th) /\ s.entity = e /\ s.field = c
      <4>1. /\ s.loaded \in ScannedTrackers /\ s.field \in Updates
            /\ LatencyUs(s.latency) \in Nat
        BY <2>2, <3>3, LatencyType DEF InScan, Locals, Store, IsPlace, ScanTypeOK
      <4>2. Count(trackers'[e], c) = Count(s.loaded, c) + 1
        <5>1. trackers'[e] = StoredTo(s, trackers[e])
          BY <3>3, StoreStores
        <5>2. trackers[e] \in ScannedTrackers
          BY DEF ScanTypeOK
        <5> QED
          BY <3>3, <4>1, <5>1, <5>2, StoredCount
      <4>3. Count(s.loaded, c) \in Nat /\ Count(s.loaded, c) <= Bound(e, c)
        <5>1. Count(s.loaded, c) <= Bound(e, c)
          BY <3>3 DEF CountInv, Store
        <5> QED
          BY <4>1, <5>1, CountType
      <4>4. Bound(e, c) + 1 <= Bound(e, c)'
        <5>1. CASE LastStep(th)
          BY <3>3, <5>1, LastBound DEF LastStep
        <5>2. CASE ~LastStep(th)
          <6>1. s.latency \in Class(e, c)
            BY <2>2, <3>3, CountsItsClass
          <6>2. s.field \notin PastUpdate(c) /\ scan'[th].field \in PastUpdate(c)
            BY <3>3, <5>2, StorePasses
          <6> QED
            BY <1>3, <3>3, <5>2, <6>1, <6>2, StepBound
        <5> QED
          BY <5>1, <5>2
      <4> QED
        BY <2>1, <4>2, <4>3, <4>4
    <3>4. CASE ~(Store(th) /\ s.entity = e /\ s.field = c)
      <4>1. CASE Store(th)
        <5>1. /\ s.loaded \in ScannedTrackers /\ s.field \in Updates
              /\ LatencyUs(s.latency) \in Nat
          BY <2>2, <4>1, LatencyType DEF InScan, Locals, Store, IsPlace, ScanTypeOK
        <5>2. trackers'[e] = IF s.entity = e THEN StoredTo(s, trackers[e])
                                             ELSE trackers[e]
          BY <4>1, StoreStores
        <5>3. s.entity = e => Count(StoredTo(s, trackers[e]), c) = Count(trackers[e], c)
          <6>1. trackers[e] \in ScannedTrackers
            BY DEF ScanTypeOK
          <6> QED
            BY <3>4, <4>1, <5>1, <6>1, StoredCount
        <5> QED
          BY <3>2, <5>2, <5>3
      <4>2. CASE ~Store(th)
        BY <1>3, <3>2, <4>2, CountKept
      <4> QED
        BY <4>1, <4>2
    <3> QED
      BY <3>3, <3>4
  <2>4. ASSUME NEW other \in Threads, NEW c \in Counters,
               scan'[other].at = "store", scan'[other].field = c
        PROVE  Count(scan'[other].loaded, c) <= Bound(scan[other].entity, c)'
    <3>1. CASE other = th
      <4>1. Load(th)
        BY <1>3, <2>4, <3>1, StoreAfterLoad
      <4>2. /\ scan'[th].entity = s.entity /\ scan'[th].field = s.field
            /\ scan'[th].loaded = LoadedFrom(s, trackers[s.entity])
        <5>1. s \in Locals /\ DOMAIN scan = Threads
          BY <2>2 DEF InScan, ScanTypeOK, LocalsOK
        <5>2. scan'[th] = [Goto(s, "store", s.field) EXCEPT
                             !.loaded = LoadedFrom(s, trackers[s.entity])]
          <6>1. Goto(s, "store", s.field).loaded = s.loaded
            BY <5>1, GotoFields
          <6> QED
            BY <4>1, <5>1, <6>1 DEF Load, LoadedFrom, Tracker_
        <5> QED
          BY <5>1, <5>2 DEF Goto, Locals
      <4>3. s.entity \in Entities /\ s.field = c /\ s.field \in Updates
            /\ s.loaded \in ScannedTrackers /\ trackers[s.entity] \in ScannedTrackers
        BY <2>2, <2>4, <3>1, <4>1, <4>2 DEF Load, InScan, IsPlace, Locals, ScanTypeOK
      <4>4. Count(LoadedFrom(s, trackers[s.entity]), c) = Count(trackers[s.entity], c)
        <5>1. c = "stat" => "stat" \in Members(c)
          BY DEF Members
        <5>2. c = "received" => "received" \in Members(c)
          BY DEF Members
        <5>3. c \in {"late", "too_late"} => c \in Members(c)
          BY DEF Members
        <5>4. c \in Members(s.field)
          BY <4>3, <5>1, <5>2, <5>3 DEF Counters
        <5>5. LoadedFrom(s, trackers[s.entity])[c] = trackers[s.entity][c]
          BY <4>3, <5>4, LoadedType
        <5> QED
          BY <5>5 DEF Count, Counters
      <4>5. PICK e \in Entities : e = s.entity
        BY <4>3
      <4>6. /\ Count(trackers[e], c) \in Nat /\ Count(trackers[e], c) <= Bound(e, c)
        BY CountType DEF CountInv, ScanTypeOK
      <4>7. Bound(scan[other].entity, c)' = Bound(e, c)'
        BY <3>1, <4>2, <4>5
      <4> QED
        BY <2>1, <3>1, <4>2, <4>4, <4>5, <4>6, <4>7
    <3>2. CASE other # th
      <4>1. scan'[other] = scan[other]
        BY <1>3, <3>2, StepOthers
      <4>2. InScan(scan[other], Latencies[sender])
        BY <2>4, <4>1, IdleType DEF ScanTypeOK, LocalsOK
      <4>3. scan[other].entity \in Entities /\ Count(scan[other].loaded, c) \in Nat
        BY <4>2, CountType DEF InScan, Locals
      <4>4. Count(scan[other].loaded, c) <= Bound(scan[other].entity, c)
        BY <2>4, <4>1 DEF CountInv
      <4>5. PICK e \in Entities : e = scan[other].entity
        BY <4>3
      <4>6. Bound(scan[other].entity, c)' = Bound(e, c)'
        BY <4>1, <4>5
      <4> QED
        BY <2>1, <4>1, <4>3, <4>4, <4>5, <4>6
    <3> QED
      BY <3>1, <3>2
  <2> QED
    BY <2>3, <2>4 DEF CountInv
<1> QED
  BY <1>1, <1>2, <1>3 DEF Next, ScanStep

\* In both types of callback group a tracker counts no more messages as
\* received, late or too late than it has been given: the updates that scans
\* of one tracker lose to each other are all that can go wrong with them
\* (Tracker::scan, whose members have no lock).
THEOREM CountersNeverExceed ==
  ASSUME SendersFit
  PROVE  Spec => []NeverOvercounts
<1> DEFINE I == ScanTypeOK /\ FileInv /\ MessagesOK /\ CountInv
<1>1. Init => I
  BY TypeInit, FileInit, MessagesInit, CountInit
<1>2. I /\ [Next]_vars => I'
  BY TypeStep, FileStep, MessagesStep, CountStep
<1>3. I => NeverOvercounts
  <2> SUFFICES ASSUME I, NEW e \in Entities
               PROVE  \A c \in Counters :
                        Count(trackers[e], c)
                          <= Cardinality({i \in DOMAIN heard[e] :
                                            heard[e][i] \in Class(e, c)})
                             + Cardinality({th \in Scanning(e) :
                                              scan[th].latency \in Class(e, c)})
    BY DEF NeverOvercounts, Count, Class, Counters
  <2> SUFFICES ASSUME NEW c \in Counters
               PROVE  Count(trackers[e], c)
                        <= Cardinality(Heard(e, c))
                           + Cardinality({th \in Scanning(e) :
                                            scan[th].latency \in Class(e, c)})
    BY DEF Heard
  <2> DEFINE P == {th \in Scanning(e) : scan[th].latency \in Class(e, c)}
  <2>1. IsFiniteSet(P) /\ IsFiniteSet(Heard(e, c))
    <3>1. P \subseteq Threads /\ Heard(e, c) \subseteq DOMAIN heard[e]
      BY DEF Scanning, Heard
    <3>2. heard[e] \in Seq(Latencies[sender])
      BY DEF ScanTypeOK
    <3> QED
      BY <3>1, <3>2, IndicesFinite, FS_Subset, ConcurrentScanAssumption
  <2>2. Past(e, c) \subseteq P
    BY DEF Past
  <2>3. /\ Cardinality(Past(e, c)) \in Nat /\ Cardinality(P) \in Nat
        /\ Cardinality(Past(e, c)) <= Cardinality(P)
        /\ Cardinality(Heard(e, c)) \in Nat
    BY <2>1, <2>2, LargerSet
  <2>4. Count(trackers[e], c) <= Bound(e, c) /\ Count(trackers[e], c) \in Nat
    BY CountType DEF CountInv, ScanTypeOK
  <2> QED
    BY <2>3, <2>4 DEF Bound
<1> QED
  BY <1>1, <1>2, <1>3, PTL DEF Spec


-----------------------------------------------------------------------------
(* What a scan nobody interferes with has done to its tracker, place by      *)
(* place.                                                                    *)

Header(s) == [tracking_number |-> s.number]

\* The tracker t is the one the scan s has begun with, but for the updates that
\* are done.
Midway(s, t, done) ==
  LET b == s.before
      Sample(stat) == IF "stat" \in done THEN WithSample(stat, LatencyUs(s.latency))
                                         ELSE stat
  IN /\ t.is_enabled = b.is_enabled
     /\ t.tracking_number_count = IF "tracking_number_count" \in done
                                    THEN NextExpected(b, Header(s))
                                    ELSE b.tracking_number_count
     /\ t.lost = b.lost + IF "lost" \in done THEN NewlyLost(b, Header(s)) ELSE 0
     /\ t.late = b.late
          + IF "late" \in done THEN OneIf(b, IsLate(s.latency, s.period)) ELSE 0
     /\ t.too_late = b.too_late
          + IF "too_late" \in done THEN OneIf(b, IsTooLate(s.latency, s.period)) ELSE 0
     /\ t.stat = Sample(b.stat) /\ t.delta_stat = Sample(b.delta_stat)
     /\ t.received = b.received /\ t.delta_received = b.delta_received

\* The updates that come before a place.
Accounted == {"lost", "tracking_number_count"}
Before(at, field) ==
  CASE at \in {"compare", "subtract"} -> {}
    [] at = "expect" -> {"lost"}
    [] at \in {"load", "store"} /\ field \in Accounted -> {}
    [] field = "too_late" -> Accounted \union {"late"}
    [] field = "stat" -> Accounted \union {"late", "too_late"}
    [] field = "received" -> Accounted \union {"late", "too_late", "stat"}
    [] OTHER -> Accounted

LEMMA BeforePlaces ==
  /\ Before("compare", "") = {} /\ Before("subtract", "") = {}
  /\ Before("expect", "") = {"lost"}
  /\ \A at \in {"load", "store"} :
       /\ \A field \in Accounted : Before(at, field) = {}
       /\ Before(at, "stat") = Accounted \union {"late", "too_late"}
       /\ Before(at, "received") = Accounted \union {"late", "too_late", "stat"}
  /\ \A at \in {"event", "write", "load", "store"} :
       /\ Before(at, "late") = Accounted
       /\ Before(at, "too_late") = Accounted \union {"late"}
  /\ \A at \in {"event", "write"} : Before(at, "lost") = Accounted
BY DEF Before, Accounted

\* The scan s of the tracker t is at a place: it comes there only if it must,
\* and has done what comes before.
Reached(s, at, field, t) ==
  /\ Midway(s, t, Before(at, field))
  /\ s.before.is_enabled
       \/ (at \in {"load", "store"} /\ field \in {"stat", "received"})
  /\ field = "tracking_number_count" => s.number = s.before.tracking_number_count
  /\ at = "expect" \/ field = "lost"
       => s.n_lost = Gap(s.before.tracking_number_count, s.number)
  /\ at \in {"subtract", "expect"} \/ field = "lost"
       => s.number # s.before.tracking_number_count
Stage(s, t) ==
  /\ Reached(s, s.at, s.field, t)
  /\ s.at = "store" => \A member \in Members(s.field) : s.loaded[member] = t[member]

\* The inductive invariant: in a mutually exclusive group a thread is alone with
\* the tracker it scans, and the tracker is where the thread is.
AloneInv ==
  MutuallyExclusive =>
    \A th, other \in Threads :
      scan[th].entity \in Entities /\ scan[other].entity = scan[th].entity
        => other = th
StageInv ==
  MutuallyExclusive =>
    \A th \in Threads :
      scan[th].entity \in Entities => Stage(scan[th], trackers[scan[th].entity])

LEMMA GotoStage ==
  ASSUME NEW s \in Locals, NEW at, NEW field, NEW t,
         Reached(s, at, field, t), at # "store"
  PROVE  Stage(Goto(s, at, field), t)
<1> DEFINE r == Goto(s, at, field)
<1>1. r.at = at /\ r.field = field /\ SameMessage(s, r) /\ r.n_lost = s.n_lost
  BY GotoFields
<1> HIDE DEF r
<1>2. Stage(r, t)
  BY <1>1 DEF Stage, Reached, Midway, SameMessage, Header
<1> QED
  BY <1>2 DEF r

LEMMA IfTooLateStage ==
  ASSUME NEW s \in Locals, NEW t, s.before.is_enabled,
         Midway(s, t, Accounted \union {"late"})
  PROVE  Stage(IfTooLate(s), t)
<1>1. CASE IsTooLate(s.latency, s.period)
  <2>1. \A at \in {"event", "load"} : Reached(s, at, "too_late", t)
    BY BeforePlaces DEF Reached
  <2> QED
    BY <1>1, <2>1, GotoStage, IfTooLateCases
<1>2. CASE ~IsTooLate(s.latency, s.period)
  <2>1. Midway(s, t, Accounted \union {"late", "too_late"})
    BY <1>2 DEF Midway, Accounted, OneIf
  <2>2. Reached(s, "load", "stat", t)
    BY <2>1, BeforePlaces DEF Reached
  <2> QED
    BY <1>2, <2>2, GotoStage, IfTooLateCases
<1> QED
  BY <1>1, <1>2

LEMMA IfLateStage ==
  ASSUME NEW s \in Locals, NEW t, s.before.is_enabled,
         Midway(s, t, Accounted)
  PROVE  Stage(IfLate(s), t)
<1>1. CASE IsLate(s.latency, s.period)
  <2>1. \A at \in {"event", "load"} : Reached(s, at, "late", t)
    BY BeforePlaces DEF Reached
  <2> QED
    BY <1>1, <2>1, GotoStage, IfLateCases
<1>2. CASE ~IsLate(s.latency, s.period)
  <2>1. Midway(s, t, Accounted \union {"late"})
    BY <1>2 DEF Midway, Accounted, OneIf
  <2> QED
    BY <1>2, <2>1, IfTooLateStage, IfLateCases
<1> QED
  BY <1>1, <1>2

\* An event is written or not, and the scan goes on to what it is about.
LEMMA AfterEventStage ==
  ASSUME NEW s \in Locals, NEW t, s.field \in LoggedUpdates,
         s.at \in {"event", "write"}, Stage(s, t)
  PROVE  Stage(AfterEvent(s), t)
<1>1. s.before.is_enabled
  BY DEF Stage, Reached
<1>2. CASE s.field = "lost"
  <2>1. Midway(s, t, Accounted)
    BY <1>2, BeforePlaces DEF Stage, Reached, Accounted
  <2> QED
    BY <1>1, <1>2, <2>1, IfLateStage DEF AfterEvent
<1>3. CASE s.field # "lost"
  <2>1. Reached(s, "load", s.field, t)
    BY <1>3, BeforePlaces DEF Stage, Reached, LoggedUpdates
  <2> QED
    BY <1>3, <2>1, GotoStage DEF AfterEvent
<1> QED
  BY <1>2, <1>3

\* What an update makes of a tracker nobody else has touched since the load.
IsStored(s, t, u) ==
  /\ u.is_enabled = t.is_enabled
  /\ u.tracking_number_count = IF s.field = "tracking_number_count"
                                 THEN NextNumber(t.tracking_number_count)
                                 ELSE t.tracking_number_count
  /\ u.lost = IF s.field = "lost" THEN t.lost + s.n_lost ELSE t.lost
  /\ u.late = IF s.field = "late" THEN t.late + 1 ELSE t.late
  /\ u.too_late = IF s.field = "too_late" THEN t.too_late + 1 ELSE t.too_late
  /\ u.stat = IF s.field = "stat" THEN WithSample(t.stat, LatencyUs(s.latency))
                                  ELSE t.stat
  /\ u.delta_stat = IF s.field = "stat"
                      THEN WithSample(t.delta_stat, LatencyUs(s.latency))
                      ELSE t.delta_stat
  /\ u.received = IF s.field = "received" THEN t.received + 1 ELSE t.received
  /\ u.delta_received = IF s.field = "received" THEN t.delta_received + 1
                                                ELSE t.delta_received

LEMMA StoredAlone ==
  ASSUME NEW s \in Locals, NEW t \in ScannedTrackers, s.at = "store",
         s.field \in Updates, Stage(s, t), NEW u, u = StoredTo(s, t)
  PROVE  IsStored(s, t, u)
<1>1. /\ \A member \in Members(s.field) : s.loaded[member] = t[member]
      /\ Members(s.field) \subseteq DOMAIN t
  BY DEF Stage, Members, Updates, ScannedTrackers
<1>2. \A member \in DOMAIN t :
        u[member] = IF member \in Members(s.field) THEN Updated(s, member)
                                                   ELSE t[member]
  BY DEF StoredTo
<1>3. DOMAIN t = {"is_enabled", "tracking_number_count", "lost", "late", "too_late",
                  "received", "delta_received", "stat", "delta_stat"}
  BY DEF ScannedTrackers
<1>4. CASE s.field \in {"tracking_number_count", "lost", "late", "too_late"}
  <2>1. Members(s.field) = {s.field}
    BY <1>4 DEF Members
  <2> QED
    BY <1>1, <1>2, <1>3, <1>4, <2>1 DEF Updated, IsStored
<1>5. CASE s.field = "stat"
  <2>1. Members(s.field) = {"stat", "delta_stat"}
    BY <1>5 DEF Members
  <2> QED
    BY <1>1, <1>2, <1>3, <1>5, <2>1 DEF Updated, IsStored
<1>6. CASE s.field = "received"
  <2>1. Members(s.field) = {"received", "delta_received"}
    BY <1>6 DEF Members
  <2> QED
    BY <1>1, <1>2, <1>3, <1>6, <2>1 DEF Updated, IsStored
<1> QED
  BY <1>4, <1>5, <1>6 DEF Updates

\* Every update but the last leads to the next place.
LEMMA StoreStage ==
  ASSUME NEW s \in Locals, NEW t \in ScannedTrackers, s.at = "store",
         s.field \in Updates \ {"received"}, Stage(s, t), InClass(s)
  PROVE  Stage(AfterUpdate(Done(s)), StoredTo(s, t))
<1> DEFINE d == Done(s)
           b == s.before
<1>1. /\ d \in Locals /\ d.field = s.field /\ d.latency = s.latency
      /\ d.period = s.period /\ d.number = s.number /\ d.before = b
      /\ d.n_lost = s.n_lost
  BY FreshType DEF Done, Locals
<1>2. PICK u : u = StoredTo(s, t) /\ IsStored(s, t, u)
  BY StoredAlone
<1>3. /\ b.tracking_number_count \in 0 .. TrackingMod - 1
      /\ s.number \in 0 .. TrackingMod - 1 /\ s.n_lost \in Int
      /\ b.lost \in Nat /\ b.late \in Nat /\ b.too_late \in Nat
  <2>1. b \in ScannedTrackers
    BY DEF Locals
  <2>2. s.number \in 0 .. TrackingMod - 1 /\ s.n_lost \in 0 .. TrackingMod - 1
    BY DEF Locals
  <2>3. s.n_lost \in Int
    BY <2>2, TrackerAssumption
  <2> QED
    BY <2>1, <2>2, <2>3 DEF ScannedTrackers
<1>4. \A r, done : Midway(s, r, done) => Midway(d, r, done)
  BY <1>1 DEF Midway, Header
<1>5. CASE s.field = "tracking_number_count"
  <2>1. Midway(s, t, {}) /\ b.is_enabled /\ s.number = b.tracking_number_count
    BY <1>5, BeforePlaces DEF Stage, Reached, Accounted
  <2>2. /\ NewlyLost(b, Header(s)) = 0
        /\ NextExpected(b, Header(s)) = NextNumber(b.tracking_number_count)
    BY <1>3, <2>1 DEF NewlyLost, NextExpected, Header, Gap
  <2>3. Midway(s, u, Accounted)
    BY <1>2, <1>3, <1>5, <2>1, <2>2 DEF Midway, Accounted, IsStored
  <2>4. Stage(IfLate(d), u)
    BY <1>1, <1>4, <2>1, <2>3, IfLateStage
  <2> QED
    BY <1>1, <1>2, <1>5, <2>4 DEF AfterUpdate
<1>6. CASE s.field = "lost"
  <2>1. /\ Midway(s, t, {}) /\ b.is_enabled
        /\ s.n_lost = Gap(b.tracking_number_count, s.number)
        /\ s.number # b.tracking_number_count
    BY <1>6, BeforePlaces DEF Stage, Reached, Accounted
  <2>2. NewlyLost(b, Header(s)) = s.n_lost
    BY <2>1 DEF NewlyLost, Header
  <2>3. Midway(s, u, {"lost"})
    BY <1>2, <1>3, <1>6, <2>1, <2>2 DEF Midway, IsStored
  <2>4. Reached(d, "expect", "", u)
    BY <1>1, <1>4, <2>1, <2>3, BeforePlaces DEF Reached
  <2>5. Stage(Goto(d, "expect", ""), u)
    BY <1>1, <2>4, GotoStage
  <2> QED
    BY <1>1, <1>2, <1>6, <2>5 DEF AfterUpdate
<1>7. CASE s.field = "late"
  <2>1. Midway(s, t, Accounted) /\ b.is_enabled
    BY <1>7, BeforePlaces DEF Stage, Reached
  <2>2. OneIf(b, IsLate(s.latency, s.period)) = 1
    BY <1>7, <2>1 DEF OneIf, InClass
  <2>3. Midway(s, u, Accounted \union {"late"})
    BY <1>2, <1>3, <1>7, <2>1, <2>2 DEF Midway, Accounted, IsStored
  <2>4. Stage(IfTooLate(d), u)
    BY <1>1, <1>4, <2>1, <2>3, IfTooLateStage
  <2> QED
    BY <1>1, <1>2, <1>7, <2>4 DEF AfterUpdate
<1>8. CASE s.field = "too_late"
  <2>1. Midway(s, t, Accounted \union {"late"}) /\ b.is_enabled
    BY <1>8, BeforePlaces DEF Stage, Reached
  <2>2. OneIf(b, IsTooLate(s.latency, s.period)) = 1
    BY <1>8, <2>1 DEF OneIf, InClass
  <2>3. Midway(s, u, Accounted \union {"late", "too_late"})
    BY <1>2, <1>3, <1>8, <2>1, <2>2 DEF Midway, Accounted, IsStored
  <2>4. Reached(d, "load", "stat", u)
    <3>1. Before("load", "stat") = Accounted \union {"late", "too_late"}
      BY BeforePlaces
    <3> QED
      BY <1>4, <2>3, <3>1 DEF Reached
  <2>5. Stage(Goto(d, "load", "stat"), u)
    BY <1>1, <2>4, GotoStage
  <2> QED
    BY <1>1, <1>2, <1>8, <2>5 DEF AfterUpdate
<1>9. CASE s.field = "stat"
  <2>1. Midway(s, t, Accounted \union {"late", "too_late"})
    BY <1>9, BeforePlaces DEF Stage, Reached
  <2>2. Midway(s, u, Accounted \union {"late", "too_late", "stat"})
    BY <1>2, <1>3, <1>9, <2>1 DEF Midway, Accounted, IsStored
  <2>3. Reached(d, "load", "received", u)
    <3>1. Before("load", "received") = Accounted \union {"late", "too_late", "stat"}
      BY BeforePlaces
    <3> QED
      BY <1>4, <2>2, <3>1 DEF Reached
  <2>4. Stage(Goto(d, "load", "received"), u)
    BY <1>1, <2>3, GotoStage
  <2> QED
    BY <1>1, <1>2, <1>9, <2>4 DEF AfterUpdate
<1> QED
  BY <1>5, <1>6, <1>7, <1>8, <1>9 DEF Updates

\* At the first place nothing is done, and if the tracker is not enabled there is
\* nothing to do.
LEMMA NothingDone ==
  ASSUME NEW s, NEW t, s.before = t, t.lost \in Nat, t.late \in Nat, t.too_late \in Nat
  PROVE  Midway(s, t, {})
BY DEF Midway

LEMMA NothingToDo ==
  ASSUME NEW s, NEW t, s.before = t, t.lost \in Nat, t.late \in Nat, t.too_late \in Nat,
         NewlyLost(t, Header(s)) = 0,
         NextExpected(t, Header(s)) = t.tracking_number_count,
         \A class : OneIf(t, class) = 0
  PROVE  Midway(s, t, Accounted \union {"late", "too_late"})
<1>1. /\ OneIf(t, IsLate(s.latency, s.period)) = 0
      /\ OneIf(t, IsTooLate(s.latency, s.period)) = 0
  OBVIOUS
<1> QED
  BY <1>1 DEF Midway, Accounted

LEMMA FirstStage ==
  ASSUME NEW r, NEW t \in ScannedTrackers, r.before = t,
         t.is_enabled => r.at = "compare" /\ r.field = "",
         ~t.is_enabled => r.at = "load" /\ r.field = "stat"
  PROVE  Stage(r, t)
<1>1. t.lost \in Nat /\ t.late \in Nat /\ t.too_late \in Nat
  BY DEF ScannedTrackers
<1>2. CASE t.is_enabled
  <2>1. Midway(r, t, {})
    BY <1>1, NothingDone
  <2> QED
    BY <1>2, <2>1, BeforePlaces DEF Stage, Reached
<1>3. CASE ~t.is_enabled
  <2>1. /\ NewlyLost(t, Header(r)) = 0
        /\ NextExpected(t, Header(r)) = t.tracking_number_count
        /\ \A class : OneIf(t, class) = 0
    BY <1>3 DEF NextExpected, NewlyLost, OneIf
  <2>2. Midway(r, t, Accounted \union {"late", "too_late"})
    BY <1>1, <2>1, NothingToDo
  <2> QED
    BY <1>3, <2>2, BeforePlaces DEF Stage, Reached
<1> QED
  BY <1>2, <1>3

\* A step of a scan that is alone with its tracker leads to the next place.
LEMMA ScanStage ==
  ASSUME ScanTypeOK, MessagesOK, NEW th \in Threads, ScanStep(th), ~LastStep(th),
         Stage(scan[th], trackers[scan[th].entity])
  PROVE  Stage(scan'[th], trackers'[scan[th].entity])
<1> DEFINE s == scan[th]
           t == trackers[s.entity]
<1>1. s.at # "idle"
  BY DEF ScanStep, Compare, Subtract, Expect, Load, Store, Log, Write
<1>2. s \in Locals /\ s.entity \in Entities /\ IsPlace(s.at, s.field) /\ InClass(s)
  BY <1>1, IdleType DEF ScanTypeOK, LocalsOK, InScan, MessagesOK, MessageOK
<1>3. /\ DOMAIN scan = Threads /\ DOMAIN trackers = Entities
      /\ t \in ScannedTrackers
  BY <1>2 DEF ScanTypeOK, LocalsOK
<1>4. s.before \in ScannedTrackers /\ s.number \in 0 .. TrackingMod - 1
  BY <1>2 DEF Locals
<1>5. CASE Compare(th)
  <2>1. /\ s.at = "compare" /\ s.field = "" /\ UNCHANGED trackers
        /\ scan'[th] = IF s.number = t.tracking_number_count
                         THEN Goto(s, "load", "tracking_number_count")
                         ELSE Goto(s, "subtract", "")
    BY <1>2, <1>3, <1>5 DEF Compare, IsPlace, Tracker_
  <2>2. Midway(s, t, {}) /\ s.before.is_enabled
    BY <2>1, BeforePlaces DEF Stage, Reached
  <2>3. t.tracking_number_count = s.before.tracking_number_count
    BY <2>2 DEF Midway
  <2>4. s.number # t.tracking_number_count => Reached(s, "subtract", "", t)
    BY <2>2, <2>3, BeforePlaces DEF Reached
  <2>5. s.number = t.tracking_number_count
          => Reached(s, "load", "tracking_number_count", t)
    BY <2>2, <2>3, BeforePlaces DEF Reached, Accounted
  <2> QED
    BY <1>2, <2>1, <2>4, <2>5, GotoStage
<1>6. CASE Subtract(th)
  <2> DEFINE n == Gap(t.tracking_number_count, s.number)
             r == [Goto(s, "load", "lost") EXCEPT !.n_lost = n]
  <2>1. /\ s.at = "subtract" /\ s.field = "" /\ UNCHANGED trackers
        /\ scan'[th] = r
    BY <1>2, <1>3, <1>6 DEF Subtract, IsPlace, Tracker_
  <2>2. /\ Midway(s, t, {}) /\ s.before.is_enabled
        /\ s.number # s.before.tracking_number_count
    BY <2>1, BeforePlaces DEF Stage, Reached
  <2>3. n = Gap(s.before.tracking_number_count, s.number)
    BY <2>2 DEF Midway
  <2> HIDE DEF n
  <2>4. /\ r.at = "load" /\ r.field = "lost" /\ r.n_lost = n /\ SameMessage(s, r)
    BY <1>2 DEF Goto, SameMessage, Locals
  <2> HIDE DEF r
  <2>5. Midway(r, t, {})
    BY <2>2, <2>4 DEF Midway, SameMessage, Header
  <2>6. Stage(r, t)
    BY <2>2, <2>3, <2>4, <2>5, BeforePlaces DEF Stage, Reached, Accounted, SameMessage
  <2> QED
    BY <2>1, <2>6
<1>7. CASE Expect(th)
  <2> DEFINE u == trackers'[s.entity]
  <2>1. /\ s.at = "expect" /\ s.field = "" /\ scan'[th] = AfterExpected(s)
        /\ u = [t EXCEPT !.tracking_number_count = NextNumber(s.number)]
    BY <1>2, <1>3, <1>7 DEF Expect, IsPlace
  <2>2. /\ Midway(s, t, {"lost"}) /\ s.before.is_enabled
        /\ s.n_lost = Gap(s.before.tracking_number_count, s.number)
        /\ s.number # s.before.tracking_number_count
    BY <2>1, BeforePlaces DEF Stage, Reached
  <2>3. NextExpected(s.before, Header(s)) = NextNumber(s.number)
    BY <2>2 DEF NextExpected, Header
  <2> HIDE DEF u
  <2>4. /\ u.tracking_number_count = NextNumber(s.number)
        /\ u.is_enabled = t.is_enabled
        /\ u.lost = t.lost /\ u.late = t.late /\ u.too_late = t.too_late
        /\ u.stat = t.stat /\ u.delta_stat = t.delta_stat
        /\ u.received = t.received /\ u.delta_received = t.delta_received
    BY <1>3, <2>1 DEF ScannedTrackers
  <2>5. Midway(s, u, Accounted)
    BY <2>2, <2>3, <2>4 DEF Midway, Accounted
  <2>6. Reached(s, "event", "lost", u)
    BY <2>2, <2>5, BeforePlaces DEF Reached
  <2>7. Stage(Goto(s, "event", "lost"), u) /\ Stage(IfLate(s), u)
    BY <1>2, <2>2, <2>5, <2>6, GotoStage, IfLateStage
  <2> QED
    BY <2>1, <2>7 DEF AfterExpected, u
<1>8. CASE Load(th)
  <2> DEFINE l == LoadedFrom(s, t)
             r == [Goto(s, "store", s.field) EXCEPT !.loaded = l]
  <2>1. s.at = "load" /\ s.field \in Updates /\ UNCHANGED trackers
    BY <1>2, <1>8 DEF Load, IsPlace
  <2>2. scan'[th] = r
    <3>1. Goto(s, "store", s.field).loaded = s.loaded
      BY <1>2, GotoFields
    <3> QED
      BY <1>3, <1>8, <3>1 DEF Load, LoadedFrom, Tracker_
  <2>3. \A member \in Members(s.field) : l[member] = t[member]
    <3>1. s.loaded \in ScannedTrackers
      BY <1>2 DEF Locals
    <3> QED
      BY <1>3, <2>1, <3>1, LoadedType
  <2> HIDE DEF l
  <2>4. /\ r.at = "store" /\ r.field = s.field /\ r.loaded = l
        /\ r.n_lost = s.n_lost /\ SameMessage(s, r)
    BY <1>2 DEF Goto, SameMessage, Locals
  <2> HIDE DEF r
  <2>5. Before("load", s.field) = Before("store", s.field)
    BY <2>1 DEF Before
  <2>6. Midway(r, t, Before("store", s.field))
    BY <2>1, <2>4, <2>5 DEF Stage, Reached, Midway, SameMessage, Header
  <2>7. Stage(r, t)
    BY <2>1, <2>3, <2>4, <2>6 DEF Stage, Reached, SameMessage
  <2> QED
    BY <2>1, <2>2, <2>7
<1>9. CASE Store(th)
  <2>1. /\ s.at = "store" /\ s.field \in Updates \ {"received"}
        /\ scan'[th] = AfterUpdate(Done(s))
    BY <1>2, <1>3, <1>9 DEF Store, Done, IsPlace, LastStep
  <2>2. trackers'[s.entity] = StoredTo(s, t)
    BY <1>2, <1>9, StoreStores
  <2> QED
    BY <1>2, <1>3, <2>1, <2>2, StoreStage
<1>10. CASE Log(th) \/ Write(th)
  <2>1. /\ s.at \in {"event", "write"} /\ s.field \in LoggedUpdates
        /\ UNCHANGED trackers
    BY <1>2, <1>10 DEF Log, Write, IsPlace
  <2>2. Stage(AfterEvent(s), t)
    BY <1>2, <2>1, AfterEventStage
  <2>3. Reached(s, "write", s.field, t)
    BY <2>1, BeforePlaces DEF Stage, Reached, LoggedUpdates
  <2>4. Stage(Goto(s, "write", s.field), t)
    BY <1>2, <2>3, GotoStage
  <2>5. scan'[th] \in {s, AfterEvent(s), Goto(s, "write", s.field)}
    BY <1>3, <1>10 DEF Log, Write
  <2> QED
    BY <2>1, <2>2, <2>4, <2>5
<1> QED
  BY <1>5, <1>6, <1>7, <1>8, <1>9, <1>10 DEF ScanStep

LEMMA AloneInit == Init => AloneInv /\ StageInv
BY IdleType, ConcurrentScanAssumption DEF Init, AloneInv, StageInv

\* A scan of one entity leaves the trackers of the others alone.
LEMMA OtherTrackers ==
  ASSUME ScanTypeOK, NEW th \in Threads, ScanStep(th),
         NEW e \in Entities, scan[th].entity # e
  PROVE  trackers'[e] = trackers[e]
<1>1. DOMAIN trackers = Entities
  BY DEF ScanTypeOK
<1>2. CASE Store(th)
  BY <1>2, StoreStores
<1>3. CASE ~Store(th)
  BY <1>1, <1>3 DEF ScanStep, Compare, Subtract, Expect, Load, Log, Write
<1> QED
  BY <1>2, <1>3

LEMMA AloneStep ==
  ASSUME ScanTypeOK, MessagesOK, AloneInv, StageInv, [Next]_vars
  PROVE  AloneInv' /\ StageInv'
<1> SUFFICES ASSUME MutuallyExclusive'
             PROVE  AloneInv' /\ StageInv'
  BY DEF AloneInv, StageInv
<1>1. CASE UNCHANGED vars
  BY <1>1 DEF vars, scan_vars, AloneInv, StageInv, MutuallyExclusive
<1>2. ASSUME NEW th \in Threads, NEW e \in Entities, NEW skipped \in Skips[sender],
             NEW latency \in Latencies[sender], Take(th, e, skipped, latency)
      PROVE  AloneInv' /\ StageInv'
  <2>1. MutuallyExclusive /\ UNCHANGED trackers
    BY <1>2 DEF Take, MutuallyExclusive
  <2>2. /\ scan[th] = Idle /\ scan'[th].entity = e
        /\ \A other \in Threads \ {th} : scan'[other] = scan[other]
    BY <1>2, TakeMoves
  <2>3. \A other \in Threads : scan[other].entity # e
    BY <1>2, <2>1 DEF Take, MayRun, Scanning
  <2>4. AloneInv'
    BY <2>1, <2>2, <2>3 DEF AloneInv
  <2>5. Stage(scan'[th], trackers'[e])
    <3>1. /\ scan'[th].before = trackers[e] /\ trackers[e] \in ScannedTrackers
          /\ trackers[e].is_enabled
               => scan'[th].at = "compare" /\ scan'[th].field = ""
          /\ ~trackers[e].is_enabled
               => scan'[th].at = "load" /\ scan'[th].field = "stat"
      BY <1>2, TakeMoves DEF ScanTypeOK
    <3>2. Stage(scan'[th], trackers[e])
      BY <3>1, FirstStage
    <3> QED
      BY <2>1, <3>2
  <2> QED
    BY <2>1, <2>2, <2>4, <2>5 DEF StageInv
<1>3. ASSUME NEW th \in Threads, ScanStep(th)
      PROVE  AloneInv' /\ StageInv'
  <2>1. MutuallyExclusive
    BY <1>3, StepOthers DEF MutuallyExclusive
  <2>2. \A other \in Threads \ {th} : scan'[other] = scan[other]
    BY <1>3, StepOthers
  <2>3. scan[th].entity \in Entities
    <3>1. scan[th].at # "idle"
      BY <1>3 DEF ScanStep, Compare, Subtract, Expect, Load, Store, Log, Write
    <3> QED
      BY <3>1, IdleType DEF ScanTypeOK, LocalsOK, InScan
  <2>4. Stage(scan[th], trackers[scan[th].entity])
    BY <2>1, <2>3 DEF StageInv
  <2>5. \/ scan'[th].entity = None
        \/ /\ scan'[th].entity = scan[th].entity
           /\ Stage(scan'[th], trackers'[scan[th].entity])
    <3>1. CASE LastStep(th)
      BY <3>1, LastStepEnds, IdleType
    <3>2. CASE ~LastStep(th)
      BY <1>3, <2>4, <3>2, StepsOnward, ScanStage DEF Onward, SameMessage
    <3> QED
      BY <3>1, <3>2
  <2>6. AloneInv'
    BY <2>1, <2>2, <2>5, ConcurrentScanAssumption DEF AloneInv
  <2>7. ASSUME NEW other \in Threads, other # th, scan'[other].entity \in Entities
        PROVE  Stage(scan'[other], trackers'[scan'[other].entity])
    <3>1. scan'[other] = scan[other]
      BY <2>2, <2>7
    <3>2. scan[th].entity # scan[other].entity
      BY <2>1, <2>7, <3>1 DEF AloneInv
    <3>3. trackers'[scan[other].entity] = trackers[scan[other].entity]
      BY <1>3, <2>7, <3>1, <3>2, OtherTrackers
    <3>4. Stage(scan[other], trackers[scan[other].entity])
      BY <2>1, <2>7, <3>1 DEF StageInv
    <3> QED
      BY <3>1, <3>3, <3>4
  <2>8. StageInv'
    BY <2>5, <2>7, ConcurrentScanAssumption DEF StageInv
  <2> QED
    BY <2>6, <2>8
<1> QED
  BY <1>1, <1>2, <1>3 DEF Next, ScanStep

-----------------------------------------------------------------------------
(* A scan nobody interferes with is one step of the abstract tracker.        *)

\* The abstract tracker's operators are the concrete ones.
LEMMA SameScan ==
  ASSUME NEW e, NEW t, NEW header, NEW latency, NEW period
  PROVE  Classified(e)!Scan(t, header, latency, period)
           = Scan(t, header, latency, period)
BY DEF Classified!Scan, Classified!AddSample, Classified!StatWith,
       Classified!Counted, Classified!NextExpected, Classified!NewlyLost,
       Classified!Gap, Classified!NextNumber, Classified!OneIf,
       Classified!IsLate, Classified!IsTooLate, Classified!LateThresholdUs,
       Classified!TooLateThresholdUs, Classified!ThresholdUs,
       Classified!TruncDiv, Classified!ToInt, Classified!ToUnsigned,
       Classified!MaxInt, Classified!LatencyUs,
       Scan, AddSample, StatWith, Counted, NextExpected, NewlyLost, Gap,
       NextNumber, OneIf, IsLate, IsTooLate, LateThresholdUs,
       TooLateThresholdUs, ThresholdUs, TruncDiv, ToInt, ToUnsigned, MaxInt,
       LatencyUs

LEMMA SamePeriods ==
  ASSUME NEW e, NEW frequency
  PROVE  Classified(e)!PeriodsUs(frequency) = PeriodsUs(frequency)
BY SameFloats DEF Classified!PeriodsUs, Classified!MinInt, Classified!MaxInt,
                  PeriodsUs, MinInt, MaxInt

\* Trackers are the same if their members are.
LEMMA SameTracker ==
  ASSUME NEW t \in Trackers, NEW u \in Trackers,
         t.is_enabled = u.is_enabled,
         t.tracking_number_count = u.tracking_number_count,
         t.lost = u.lost, t.late = u.late, t.too_late = u.too_late,
         t.received = u.received, t.delta_received = u.delta_received,
         t.stat = u.stat, t.delta_stat = u.delta_stat
  PROVE  t = u
<1>1. ASSUME NEW v \in Trackers
      PROVE  v = [is_enabled |-> v.is_enabled,
                  tracking_number_count |-> v.tracking_number_count,
                  lost |-> v.lost, late |-> v.late, too_late |-> v.too_late,
                  received |-> v.received, delta_received |-> v.delta_received,
                  stat |-> v.stat, delta_stat |-> v.delta_stat]
  BY DEF Trackers
<1>2. t = [is_enabled |-> u.is_enabled,
           tracking_number_count |-> u.tracking_number_count,
           lost |-> u.lost, late |-> u.late, too_late |-> u.too_late,
           received |-> u.received, delta_received |-> u.delta_received,
           stat |-> u.stat, delta_stat |-> u.delta_stat]
  BY <1>1
<1> QED
  BY <1>1, <1>2

LEMMA AbstractMembers ==
  ASSUME NEW t \in ScannedTrackers
  PROVE  /\ Abstract(t) \in Trackers
         /\ Abstract(t).is_enabled = t.is_enabled
         /\ Abstract(t).tracking_number_count = t.tracking_number_count
         /\ Abstract(t).lost = t.lost /\ Abstract(t).late = t.late
         /\ Abstract(t).too_late = t.too_late
         /\ Abstract(t).received = t.received
         /\ Abstract(t).delta_received = t.delta_received
         /\ Abstract(t).stat = AbstractStat(t.stat)
         /\ Abstract(t).delta_stat = AbstractStat(t.delta_stat)
<1>1. Abstract(t) \in Trackers
  BY AbstractType
<1> QED
  BY <1>1 DEF Abstract, ScannedTrackers

LEMMA AbstractFresh ==
  ASSUME NEW enabled \in BOOLEAN
  PROVE  Abstract(Fresh(enabled)) = NewTracker(enabled)
<1>1. AbstractStat(NoSamples) = EmptyStat
  BY DEF AbstractStat, NoSamples, MeanTimesN, EmptyStat
<1>2. /\ Fresh(enabled).is_enabled = enabled
      /\ Fresh(enabled).tracking_number_count = 0
      /\ Fresh(enabled).lost = 0 /\ Fresh(enabled).late = 0
      /\ Fresh(enabled).too_late = 0 /\ Fresh(enabled).received = 0
      /\ Fresh(enabled).delta_received = 0
      /\ Fresh(enabled).stat = NoSamples /\ Fresh(enabled).delta_stat = NoSamples
  BY DEF Fresh, NewTracker
<1>3. /\ NewTracker(enabled).late = 0 /\ NewTracker(enabled).too_late = 0
      /\ NewTracker(enabled).delta_received = 0
      /\ NewTracker(enabled).stat = EmptyStat
      /\ NewTracker(enabled).delta_stat = EmptyStat
  BY DEF NewTracker
<1>4. Abstract(Fresh(enabled)) \in Trackers /\ NewTracker(enabled) \in Trackers
  BY FreshType, AbstractType, NewTrackerType
<1> QED
  BY <1>1, <1>2, <1>3, <1>4, FreshType, NewTrackerType, AbstractMembers, SameTracker

LEMMA AbstractSample ==
  ASSUME NEW stat \in Samples, NEW x \in Nat
  PROVE  AbstractStat(WithSample(stat, x)) = StatWith(AbstractStat(stat), x)
BY WithSampleType DEF AbstractStat, StatWith

\* What a scan makes of an abstract tracker, member by member.
LEMMA ScanMembers ==
  ASSUME NEW t \in Trackers, NEW header,
         header.tracking_number \in 0 .. TrackingMod - 1,
         NEW latency \in Int, -LatencyMod < latency, NEW period,
         NEW u, u = Scan(t, header, latency, period)
  PROVE  /\ u \in Trackers
         /\ u.is_enabled = t.is_enabled
         /\ u.tracking_number_count = NextExpected(t, header)
         /\ u.lost = t.lost + NewlyLost(t, header)
         /\ u.late = t.late + OneIf(t, IsLate(latency, period))
         /\ u.too_late = t.too_late + OneIf(t, IsTooLate(latency, period))
         /\ u.received = t.received + 1 /\ u.delta_received = t.delta_received + 1
         /\ u.stat = StatWith(t.stat, LatencyUs(latency))
         /\ u.delta_stat = StatWith(t.delta_stat, LatencyUs(latency))
<1>1. u \in Trackers
  BY ScanType DEF Received
<1>2. ASSUME NEW n, NEW l, NEW a, NEW b, NEW x, NEW v,
             v = AddSample(Counted(t, n, l, a, b), x)
      PROVE  /\ v.is_enabled = t.is_enabled /\ v.tracking_number_count = n
             /\ v.lost = t.lost + l /\ v.late = t.late + a
             /\ v.too_late = t.too_late + b /\ v.received = t.received + 1
             /\ v.delta_received = t.delta_received + 1
             /\ v.stat = StatWith(t.stat, x)
             /\ v.delta_stat = StatWith(t.delta_stat, x)
  BY <1>2 DEF AddSample, Counted, Trackers
<1> QED
  BY <1>1, <1>2 DEF Scan

\* With its last update a scan that is alone with its tracker has done what Scan
\* does to the tracker it began with.
LEMMA ScanAlone ==
  ASSUME NEW s \in Locals, NEW t \in ScannedTrackers, s.at = "store",
         s.field = "received", Stage(s, t), LatencyUs(s.latency) \in Nat,
         -LatencyMod < s.latency, NEW header, header.tracking_number = s.number
  PROVE  Abstract(StoredTo(s, t))
           = Scan(Abstract(s.before), header, s.latency, s.period)
<1> DEFINE b == s.before
           a == Abstract(b)
<1>1. b \in ScannedTrackers /\ s.loaded \in ScannedTrackers
  BY DEF Locals
<1>2. s.n_lost \in Nat
  <2>1. s.n_lost \in 0 .. TrackingMod - 1
    BY DEF Locals
  <2> QED
    BY <2>1, TrackerAssumption
<1>3. PICK u \in ScannedTrackers : u = StoredTo(s, t) /\ IsStored(s, t, u)
  <2>1. s.field \in Updates
    BY DEF Updates
  <2> QED
    BY <1>1, <1>2, <2>1, StoredType, StoredAlone
<1>4. Midway(s, t, Accounted \union {"late", "too_late", "stat"})
  BY BeforePlaces DEF Stage, Reached
<1>5. /\ u.is_enabled = b.is_enabled
      /\ u.tracking_number_count = NextExpected(b, Header(s))
      /\ u.lost = b.lost + NewlyLost(b, Header(s))
      /\ u.late = b.late + OneIf(b, IsLate(s.latency, s.period))
      /\ u.too_late = b.too_late + OneIf(b, IsTooLate(s.latency, s.period))
      /\ u.stat = WithSample(b.stat, LatencyUs(s.latency))
      /\ u.delta_stat = WithSample(b.delta_stat, LatencyUs(s.latency))
      /\ u.received = b.received + 1 /\ u.delta_received = b.delta_received + 1
  BY <1>3, <1>4 DEF IsStored, Midway, Accounted
<1>6. /\ a \in Trackers
      /\ a.is_enabled = b.is_enabled
      /\ a.tracking_number_count = b.tracking_number_count
      /\ a.lost = b.lost /\ a.late = b.late /\ a.too_late = b.too_late
      /\ a.received = b.received /\ a.delta_received = b.delta_received
      /\ a.stat = AbstractStat(b.stat) /\ a.delta_stat = AbstractStat(b.delta_stat)
  BY <1>1, AbstractMembers
<1> HIDE DEF a
<1>7. /\ NextExpected(a, header) = NextExpected(b, Header(s))
      /\ NewlyLost(a, header) = NewlyLost(b, Header(s))
      /\ \A class : OneIf(a, class) = OneIf(b, class)
  BY <1>6 DEF NextExpected, NewlyLost, OneIf, Header
<1>8. /\ AbstractStat(u.stat) = StatWith(a.stat, LatencyUs(s.latency))
      /\ AbstractStat(u.delta_stat) = StatWith(a.delta_stat, LatencyUs(s.latency))
  <2>1. b.stat \in Samples /\ b.delta_stat \in Samples
    BY <1>1 DEF ScannedTrackers
  <2> QED
    BY <1>5, <1>6, <2>1, AbstractSample
<1>9. /\ OneIf(a, IsLate(s.latency, s.period)) = OneIf(b, IsLate(s.latency, s.period))
      /\ OneIf(a, IsTooLate(s.latency, s.period))
           = OneIf(b, IsTooLate(s.latency, s.period))
  BY <1>7
<1>10. PICK v : v = Scan(a, header, s.latency, s.period)
  OBVIOUS
<1>11. /\ v \in Trackers
       /\ v.is_enabled = a.is_enabled
       /\ v.tracking_number_count = NextExpected(a, header)
       /\ v.lost = a.lost + NewlyLost(a, header)
       /\ v.late = a.late + OneIf(a, IsLate(s.latency, s.period))
       /\ v.too_late = a.too_late + OneIf(a, IsTooLate(s.latency, s.period))
       /\ v.received = a.received + 1 /\ v.delta_received = a.delta_received + 1
       /\ v.stat = StatWith(a.stat, LatencyUs(s.latency))
       /\ v.delta_stat = StatWith(a.delta_stat, LatencyUs(s.latency))
  <2>1. s.latency \in Int /\ s.number \in 0 .. TrackingMod - 1
    BY DEF Locals
  <2> QED
    BY <1>6, <1>10, <2>1, ScanMembers
<1>12. Abstract(u) = v
  <2>1. /\ Abstract(u) \in Trackers
        /\ Abstract(u).is_enabled = v.is_enabled
        /\ Abstract(u).tracking_number_count = v.tracking_number_count
        /\ Abstract(u).lost = v.lost /\ Abstract(u).late = v.late
        /\ Abstract(u).too_late = v.too_late
        /\ Abstract(u).received = v.received
        /\ Abstract(u).delta_received = v.delta_received
        /\ Abstract(u).stat = v.stat /\ Abstract(u).delta_stat = v.delta_stat
    BY <1>3, <1>5, <1>6, <1>7, <1>8, <1>9, <1>11, AbstractMembers
  <2> QED
    BY <1>11, <2>1, SameTracker
<1> QED
  BY <1>3, <1>10, <1>12 DEF a

\* The group and the sender are chosen at the start.
LEMMA FixedChoices == [Next]_vars => UNCHANGED <<group, sender>>
<1>1. ASSUME NEW th \in Threads, NEW e \in Entities, NEW skipped \in Skips[sender],
             NEW latency \in Latencies[sender], Take(th, e, skipped, latency)
      PROVE  UNCHANGED <<group, sender>>
  BY <1>1 DEF Take
<1>2. ASSUME NEW th \in Threads,
             Compare(th) \/ Subtract(th) \/ Expect(th) \/ Load(th) \/ Store(th)
      PROVE  UNCHANGED <<group, sender>>
  BY <1>2 DEF Compare, Subtract, Expect, Load, Store
<1>3. ASSUME NEW th \in Threads, Log(th) \/ Write(th)
      PROVE  UNCHANGED <<group, sender>>
  BY <1>3 DEF Log, Write, scan_vars
<1>4. CASE UNCHANGED vars
  BY <1>4 DEF vars, scan_vars
<1> QED
  BY <1>1, <1>2, <1>3, <1>4 DEF Next

LEMMA OnlyChoice == ASSUME NEW x PROVE (CHOOSE y \in {x} : TRUE) = x
OBVIOUS

\* Whatever the steps of other scans do, and those of its own but the last, the
\* abstract tracker stays the same.
LEMMA StepImplements ==
  ASSUME SendersFit, ScanTypeOK, MessagesOK, AloneInv, StageInv, AloneInv',
         MutuallyExclusive, [Next]_vars, NEW e \in Entities
  PROVE  \/ UNCHANGED Classified(e)!classification_vars
         \/ Classified(e)!ClassificationNext
<1>1. MutuallyExclusive'
  BY FixedChoices DEF MutuallyExclusive
<1>2. UNCHANGED sender
  BY FixedChoices
<1>3. ASSUME Settled(e)' = Settled(e)
      PROVE  UNCHANGED Classified(e)!classification_vars
  BY <1>2, <1>3 DEF Classified!classification_vars
<1>4. /\ Scanning(e) = {} => Settled(e) = Abstract(trackers[e])
      /\ Scanning(e)' = {} => Settled(e)' = Abstract(trackers'[e])
      /\ \A th : Scanning(e) = {th} => Settled(e) = Abstract(scan[th].before)
      /\ \A th : Scanning(e)' = {th} => Settled(e)' = Abstract(scan'[th].before)
  BY OnlyChoice DEF Settled
<1>5. /\ \A th \in Threads : scan[th].entity = e => Scanning(e) = {th}
      /\ \A th \in Threads : scan'[th].entity = e => Scanning(e)' = {th}
  BY <1>1 DEF AloneInv, Scanning
<1>6. CASE UNCHANGED vars
  <2>1. Settled(e)' = Settled(e)
    BY <1>6 DEF vars, scan_vars, Settled, Scanning
  <2> QED
    BY <1>3, <2>1
<1>7. ASSUME NEW th \in Threads, NEW a \in Entities, NEW skipped \in Skips[sender],
             NEW latency \in Latencies[sender], Take(th, a, skipped, latency)
      PROVE  Settled(e)' = Settled(e)
  <2>1. /\ scan[th] = Idle /\ scan'[th].entity = a
        /\ scan'[th].before = trackers[a]
        /\ \A other \in Threads \ {th} : scan'[other] = scan[other]
    BY <1>7, TakeMoves
  <2>2. UNCHANGED trackers
    BY <1>7 DEF Take
  <2>3. Idle.entity # e
    BY IdleType, ConcurrentScanAssumption
  <2>4. CASE a = e
    <3>1. Scanning(e) = {}
      BY <1>7, <2>4 DEF Take, MayRun
    <3>2. Scanning(e)' = {th}
      BY <1>5, <2>1, <2>4
    <3> QED
      BY <1>4, <2>1, <2>4, <3>1, <3>2
  <2>5. CASE a # e
    <3>1. Scanning(e)' = Scanning(e) /\ th \notin Scanning(e)
      BY <2>1, <2>3, <2>5 DEF Scanning
    <3>2. CASE Scanning(e) = {}
      BY <1>4, <2>2, <3>1, <3>2
    <3>3. CASE Scanning(e) # {}
      <4>1. PICK other \in Scanning(e) : TRUE
        BY <3>3
      <4>2. other \in Threads \ {th} /\ scan[other].entity = e
        BY <3>1, <4>1 DEF Scanning
      <4>3. Scanning(e) = {other} /\ scan'[other] = scan[other]
        BY <1>5, <2>1, <4>2
      <4> QED
        BY <1>4, <3>1, <4>3
    <3> QED
      BY <3>2, <3>3
  <2> QED
    BY <2>4, <2>5
<1>8. ASSUME NEW th \in Threads, ScanStep(th), ~(LastStep(th) /\ scan[th].entity = e)
      PROVE  Settled(e)' = Settled(e)
  <2>1. \A other \in Threads \ {th} : scan'[other] = scan[other]
    BY <1>8, StepOthers
  <2>2. scan'[th].entity = scan[th].entity \/ scan'[th] = Idle
    BY <1>8, StepsOnward, LastStepEnds DEF Onward, SameMessage
  <2>3. Idle.entity # e
    BY IdleType, ConcurrentScanAssumption
  <2>4. CASE scan[th].entity = e
    <3>1. ~LastStep(th) /\ scan'[th].entity = e
          /\ scan'[th].before = scan[th].before
      BY <1>8, <2>4, StepsOnward DEF Onward, SameMessage
    <3>2. Scanning(e) = {th} /\ Scanning(e)' = {th}
      BY <1>5, <2>4, <3>1
    <3> QED
      BY <1>4, <3>1, <3>2
  <2>5. CASE scan[th].entity # e
    <3>1. Scanning(e)' = Scanning(e) /\ th \notin Scanning(e)
      BY <2>1, <2>2, <2>3, <2>5 DEF Scanning
    <3>2. trackers'[e] = trackers[e]
      BY <1>8, <2>5, OtherTrackers
    <3>3. CASE Scanning(e) = {}
      BY <1>4, <3>1, <3>2, <3>3
    <3>4. CASE Scanning(e) # {}
      <4>1. PICK other \in Scanning(e) : TRUE
        BY <3>4
      <4>2. other \in Threads \ {th} /\ scan[other].entity = e
        BY <3>1, <4>1 DEF Scanning
      <4>3. Scanning(e) = {other} /\ scan'[other] = scan[other]
        BY <1>5, <2>1, <4>2
      <4> QED
        BY <1>4, <3>1, <4>3
    <3> QED
      BY <3>3, <3>4
  <2> QED
    BY <2>4, <2>5
<1>9. ASSUME NEW th \in Threads, LastStep(th), scan[th].entity = e
      PROVE  Classified(e)!ClassificationNext
  <2> DEFINE s == scan[th]
             t == trackers[e]
             f == Classified(e)!HeaderFrequency(sender)
             header == [tracking_number |-> s.number, frequency |-> f]
  <2>1. s.at = "store" /\ s.field = "received"
    BY <1>9 DEF LastStep, Store
  <2>2. /\ InScan(s, Latencies[sender]) /\ s \in Locals
        /\ s.latency \in Latencies[sender] /\ s.number \in 0 .. TrackingMod - 1
        /\ s.before \in ScannedTrackers /\ t \in ScannedTrackers
    BY <2>1, IdleType DEF ScanTypeOK, LocalsOK, InScan, Locals
  <2>3. s.period \in PeriodsUs(f) /\ sender \in Senders
    BY <1>9 DEF MessagesOK, MessageOK, ScanTypeOK
  <2>4. Settled(e) = Abstract(s.before)
    BY <1>4, <1>5, <1>9
  <2>5. Settled(e)' = Abstract(StoredTo(s, t))
    <3>1. Scanning(e)' = {}
      <4>1. scan'[th] = Idle /\ Idle.entity # e
        BY <1>9, LastStepEnds, IdleType, ConcurrentScanAssumption
      <4>2. \A other \in Threads \ {th} : scan'[other] = scan[other]
        BY <1>9, StepOthers DEF LastStep, ScanStep
      <4>3. Scanning(e) = {th}
        BY <1>5, <1>9
      <4> QED
        BY <4>1, <4>2, <4>3 DEF Scanning
    <3>2. trackers'[e] = StoredTo(s, t)
      BY <1>9, StoreStores DEF LastStep
    <3> QED
      BY <1>4, <3>1, <3>2
  <2>6. Settled(e)' = Scan(Settled(e), header, s.latency, s.period)
    <3>1. Stage(s, t)
      BY <1>9 DEF StageInv
    <3>2. LatencyUs(s.latency) \in Nat /\ -LatencyMod < s.latency
      BY <2>2, <2>3, LatencyType, ConcurrentScanAssumption
    <3> QED
      BY <2>1, <2>2, <2>4, <2>5, <3>1, <3>2, ScanAlone
  <2>7. /\ Settled(e)'.late
             = Settled(e).late + OneIf(Settled(e), IsLate(s.latency, s.period))
        /\ Settled(e)'.too_late
             = Settled(e).too_late + OneIf(Settled(e), IsTooLate(s.latency, s.period))
    <3>1. Settled(e) \in Trackers
      BY <2>2, <2>4, AbstractType
    <3>2. s.latency \in Int /\ -LatencyMod < s.latency
      BY <2>2, <2>3, LatencyType, ConcurrentScanAssumption
    <3>3. header.tracking_number \in 0 .. TrackingMod - 1
      BY <2>2
    <3> HIDE DEF header
    <3> QED
      BY <2>6, <3>1, <3>2, <3>3, ScanMembers
  <2>8. PICK above \in BOOLEAN, far_above \in BOOLEAN :
          /\ above <=> LatencyUs(s.latency) > LateThresholdUs(s.period)
          /\ far_above <=> IsTooLate(s.latency, s.period)
    OBVIOUS
  <2>9. /\ Classified(e)!MayJudge(above, sender, s.latency, LatePercentage,
                                  LateAbsolute)
        /\ Classified(e)!MayJudge(far_above, sender, s.latency,
                                  TooLatePercentage, TooLateAbsolute)
        /\ Settled(e)'.late
             = Settled(e).late
               + Classified(e)!OneIf(Settled(e), above /\ ~far_above)
        /\ Settled(e)'.too_late
             = Settled(e).too_late
               + Classified(e)!OneIf(Settled(e), far_above)
    <3>1. /\ Classified(e)!MayJudge(
                LatencyUs(s.latency) > LateThresholdUs(s.period),
                sender, s.latency, LatePercentage, LateAbsolute)
          /\ Classified(e)!MayJudge(IsTooLate(s.latency, s.period),
                sender, s.latency, TooLatePercentage, TooLateAbsolute)
      BY <2>2, <2>3, ClassifiedAsDefined
    <3>2. /\ Classified(e)!MayJudge(above, sender, s.latency, LatePercentage,
                                    LateAbsolute)
          /\ Classified(e)!MayJudge(far_above, sender, s.latency,
                                    TooLatePercentage, TooLateAbsolute)
      BY <2>8, <3>1 DEF Classified!MayJudge
    <3>3. IsLate(s.latency, s.period) <=> above /\ ~far_above
      BY <2>8 DEF IsLate
    <3> QED
      BY <2>7, <2>8, <3>2, <3>3 DEF OneIf, Classified!OneIf
  <2>10. s.period \in Classified(e)!PeriodsUs(f)
    BY <2>3, SamePeriods
  <2>11. Settled(e)' = Classified(e)!Scan(Settled(e), header, s.latency, s.period)
    BY <2>6, SameScan
  <2>12. Classified(e)!HandleReceived(s.number, s.latency)
    BY <1>2, <2>9, <2>10, <2>11 DEF Classified!HandleReceived
  <2> QED
    BY <2>2, <2>12 DEF Classified!ClassificationNext
<1> QED
  BY <1>3, <1>6, <1>7, <1>8, <1>9 DEF Next, ScanStep

LEMMA InitImplements ==
  ASSUME Init, NEW e \in Entities
  PROVE  Classified(e)!ClassificationInit
<1>1. PICK enabled \in BOOLEAN : trackers[e] = Fresh(enabled)
  BY DEF Init
<1>2. Scanning(e) = {}
  BY IdleType, ConcurrentScanAssumption DEF Init, Scanning
<1>3. Settled(e) = NewTracker(enabled)
  BY <1>1, <1>2, AbstractFresh DEF Settled
<1>4. NewTracker(enabled) = Classified(e)!NewTracker(enabled)
  BY DEF NewTracker, Classified!NewTracker, EmptyStat, Classified!EmptyStat
<1>5. NewTracker(enabled).late = 0 /\ NewTracker(enabled).too_late = 0
  BY DEF NewTracker
<1> QED
  BY <1>3, <1>4, <1>5 DEF Init, Classified!ClassificationInit

\* In a mutually exclusive callback group the steps of Tracker::scan, however
\* those of other scans and the writing of events come between, do to a tracker
\* what one uninterrupted scan does, and count as late and too late the messages
\* irobot_benchmark/README.md defines so, to the microsecond.
THEOREM ClassificationImplemented ==
  ASSUME SendersFit
  PROVE  Spec => ImplementsClassification
<1> DEFINE I == ScanTypeOK /\ FileInv /\ MessagesOK /\ AloneInv /\ StageInv
           Step == \A e \in Entities :
                     MutuallyExclusive =>
                       \/ UNCHANGED Classified(e)!classification_vars
                       \/ Classified(e)!ClassificationNext
<1>1. Init => I
  BY TypeInit, FileInit, MessagesInit, AloneInit
<1>2. I /\ [Next]_vars => I'
  BY TypeStep, FileStep, MessagesStep, AloneStep
<1>3. Init => \A e \in Entities : MutuallyExclusive => Classified(e)!ClassificationInit
  BY InitImplements
<1>4. I /\ I' /\ [Next]_vars => [Step]_vars
  BY StepImplements
<1> QED
  <2> HIDE DEF I, Step
  <2>1. Spec => []I
    BY <1>1, <1>2, PTL DEF Spec
  <2>2. Spec => [][Step]_vars
    BY <1>4, <2>1, PTL DEF Spec
  <2> QED
    BY <1>3, <2>2 DEF Spec, ImplementsClassification, Step

-----------------------------------------------------------------------------
(* Sums.  A fold is a function on the subsets of a set, defined by the       *)
(* recursion on their elements; what it is follows by induction on their     *)
(* number (SetInduction of TrackerProofs).                                   *)

\* The order in which a fold runs through a set, and its sums on the way.
First(s) == CHOOSE x \in s : TRUE
Sums(f, g, s) == IF s = {} THEN 0 ELSE f[First(s)] + g[s \ {First(s)}]
IsFold(f, g) == g = [s \in SUBSET DOMAIN f |-> Sums(f, g, s)]
SmallSets(f, n) == {s \in SUBSET DOMAIN f : IsFiniteSet(s) /\ Cardinality(s) <= n}

\* Taking an element out of a set makes it smaller.
LEMMA FirstOf == ASSUME NEW s, s # {} PROVE First(s) \in s
BY DEF First

LEMMA SetSmaller ==
  ASSUME NEW f, NEW n \in Nat, NEW s \in SmallSets(f, n + 1), NEW x \in s
  PROVE  s \ {x} \in SmallSets(f, n)
<1>1. IsFiniteSet(s) /\ Cardinality(s) \in Nat
  BY FS_CardinalityType DEF SmallSets
<1>2. IsFiniteSet(s \ {x}) /\ Cardinality(s \ {x}) = Cardinality(s) - 1
  BY <1>1, FS_RemoveElement
<1> QED
  BY <1>1, <1>2 DEF SmallSets

LEMMA EmptyIsSmall == ASSUME NEW f, NEW s PROVE s \in SmallSets(f, 0) <=> s = {}
<1>1. s = {} => s \in SmallSets(f, 0)
  BY FS_EmptySet DEF SmallSets
<1>2. s \in SmallSets(f, 0) => s = {}
  BY FS_EmptySet, FS_CardinalityType DEF SmallSets
<1> QED
  BY <1>1, <1>2

\* The recursion on the elements of a set defines a function.
LEMMA FoldExists ==
  ASSUME NEW f, IsFiniteSet(DOMAIN f)
  PROVE  \E g : IsFold(f, g)
<1> DEFINE Correct(n, g) == /\ g = [s \in SUBSET DOMAIN f |-> g[s]]
                         /\ \A s \in SmallSets(f, n) : g[s] = Sums(f, g, s)
           S == {n \in Nat : \E g : Correct(n, g)}
<1>1. 0 \in S
  <2>1. Correct(0, [s \in SUBSET DOMAIN f |-> 0])
    BY EmptyIsSmall DEF Sums, SmallSets
  <2> QED
    BY <2>1
<1>2. ASSUME NEW n \in Nat, n \in S PROVE n + 1 \in S
  <2>1. PICK g : Correct(n, g)
    BY <1>2
  <2> DEFINE h == [s \in SUBSET DOMAIN f |-> Sums(f, g, s)]
  <2>2. \A s \in SmallSets(f, n) : h[s] = g[s]
    BY <2>1 DEF SmallSets
  <2>3. ASSUME NEW s \in SmallSets(f, n + 1) PROVE h[s] = Sums(f, h, s)
    <3>1. s \in SUBSET DOMAIN f /\ h[s] = Sums(f, g, s)
      BY DEF SmallSets
    <3>2. CASE s = {}
      BY <3>1, <3>2 DEF Sums
    <3>3. CASE s # {}
      <4>1. s \ {First(s)} \in SmallSets(f, n)
        BY <3>3, FirstOf, SetSmaller
      <4>2. h[s \ {First(s)}] = g[s \ {First(s)}]
        BY <2>2, <4>1
      <4> HIDE DEF h
      <4> QED
        BY <3>1, <3>3, <4>2 DEF Sums
    <3> QED
      BY <3>2, <3>3
  <2>4. Correct(n + 1, h)
    BY <2>3
  <2> HIDE DEF h, Correct
  <2> QED
    BY <2>4
<1>3. \A n \in Nat : n \in S
  <2> HIDE DEF S
  <2> QED
    BY <1>1, <1>2, SetInduction
<1>4. Cardinality(DOMAIN f) \in Nat
  BY FS_CardinalityType
<1>5. PICK g : Correct(Cardinality(DOMAIN f), g)
  BY <1>3, <1>4
<1>6. SUBSET DOMAIN f \subseteq SmallSets(f, Cardinality(DOMAIN f))
  BY FS_Subset DEF SmallSets
<1>7. IsFold(f, g)
  BY <1>5, <1>6 DEF IsFold
<1> QED
  BY <1>7

\* Sum, defined with a CHOOSE, is that function's value.
LEMMA SumIsFold ==
  ASSUME NEW f, IsFiniteSet(DOMAIN f)
  PROVE  \E g : IsFold(f, g) /\ Sum(f) = g[DOMAIN f]
<1> DEFINE Step(g) == [s \in SUBSET DOMAIN f |->
                         IF s = {} THEN 0
                         ELSE f[CHOOSE x \in s : TRUE]
                              + g[s \ {CHOOSE x \in s : TRUE}]]
           it == CHOOSE g : g = Step(g)
<1>1. PICK g : IsFold(f, g)
  BY FoldExists
<1>2. g = Step(g)
  BY <1>1 DEF IsFold, Sums, First
<1>3. it = Step(it)
  BY <1>2
<1>4. IsFold(f, it)
  <2> HIDE DEF it
  <2> QED
    BY <1>3 DEF Sums, First, IsFold
<1>5. Sum(f) = it[DOMAIN f]
  BY DEF Sum, FoldFunction, FoldFunctionOnSet, MapThenFoldSet
<1> QED
  BY <1>4, <1>5

\* In whatever order: any element may come first.
LEMMA FoldSum ==
  ASSUME NEW f, IsFiniteSet(DOMAIN f), \A x \in DOMAIN f : f[x] \in Int,
         NEW g, IsFold(f, g)
  PROVE  /\ g[{}] = 0
         /\ \A s \in SUBSET DOMAIN f :
              g[s] \in Int /\ \A x \in s : g[s] = f[x] + g[s \ {x}]
<1> DEFINE Good(s) == g[s] \in Int /\ \A x \in s : g[s] = f[x] + g[s \ {x}]
           S == {n \in Nat : \A s \in SmallSets(f, n) : Good(s)}
<1>1. \A s \in SUBSET DOMAIN f :
        g[s] = IF s = {} THEN 0 ELSE f[First(s)] + g[s \ {First(s)}]
  BY DEF IsFold, Sums
<1>2. g[{}] = 0
  BY <1>1
<1>3. 0 \in S
  BY <1>2, EmptyIsSmall
<1>4. ASSUME NEW n \in Nat, n \in S PROVE n + 1 \in S
  <2>1. ASSUME NEW s \in SmallSets(f, n + 1) PROVE Good(s)
    <3> DEFINE c == First(s)
    <3>1. CASE s = {}
      BY <1>2, <3>1
    <3>2. CASE s # {}
      <4>1. s \in SUBSET DOMAIN f /\ c \in s
        BY <3>2, FirstOf DEF SmallSets
      <4>2. g[s] = f[c] + g[s \ {c}]
        BY <1>1, <3>2, <4>1
      <4>3. \A x \in s : s \ {x} \in SmallSets(f, n)
        BY SetSmaller
      <4>4. \A x \in s : Good(s \ {x})
        BY <1>4, <4>3
      <4> HIDE DEF c
      <4>5. g[s] \in Int
        BY <4>1, <4>2, <4>4
      <4>6. ASSUME NEW x \in s PROVE g[s] = f[x] + g[s \ {x}]
        <5>1. CASE x = c
          BY <4>2, <5>1
        <5>2. CASE x # c
          <6>1. (s \ {c}) \ {x} = (s \ {x}) \ {c}
            OBVIOUS
          <6>2. x \in s \ {c} /\ c \in s \ {x}
            BY <4>1, <5>2
          <6>3. g[s \ {c}] = f[x] + g[(s \ {c}) \ {x}]
            BY <4>1, <4>4, <6>2
          <6>4. g[s \ {x}] = f[c] + g[(s \ {x}) \ {c}]
            BY <4>4, <6>2
          <6>5. /\ f[x] \in Int /\ f[c] \in Int
                /\ g[(s \ {x}) \ {c}] \in Int
            <7>1. g[s \ {x}] \in Int /\ f[c] \in Int /\ f[x] \in Int
              BY <4>1, <4>4
            <7>2. (s \ {x}) \ {c} \in SmallSets(f, n)
              <8>1. /\ (s \ {x}) \ {c} \in SUBSET (s \ {x})
                    /\ s \ {x} \in SmallSets(f, n)
                BY <4>3
              <8>2. IsFiniteSet(s \ {x})
                BY <8>1 DEF SmallSets
              <8>3. /\ IsFiniteSet((s \ {x}) \ {c})
                    /\ Cardinality((s \ {x}) \ {c}) <= Cardinality(s \ {x})
                BY <8>1, <8>2, FS_Subset
              <8>4. /\ Cardinality((s \ {x}) \ {c}) \in Nat
                    /\ Cardinality(s \ {x}) \in Nat
                BY <8>2, <8>3, FS_CardinalityType
              <8> QED
                BY <8>1, <8>3, <8>4 DEF SmallSets
            <7> QED
              BY <1>4, <7>1, <7>2
          <6>6. g[s \ {c}] = f[x] + g[(s \ {x}) \ {c}]
            BY <6>1, <6>3
          <6>7. f[c] + (f[x] + g[(s \ {x}) \ {c}])
                  = f[x] + (f[c] + g[(s \ {x}) \ {c}])
            BY <6>5
          <6> QED
            BY <4>2, <6>4, <6>6, <6>7
        <5> QED
          BY <5>1, <5>2
      <4> QED
        BY <4>5, <4>6
    <3> QED
      BY <3>1, <3>2
  <2> HIDE DEF Good
  <2> QED
    BY <2>1
<1>5. \A n \in Nat : n \in S
  <2> HIDE DEF S
  <2> QED
    BY <1>3, <1>4, SetInduction
<1>6. \A s \in SUBSET DOMAIN f : s \in SmallSets(f, Cardinality(DOMAIN f))
  BY FS_Subset DEF SmallSets
<1>7. Cardinality(DOMAIN f) \in S
  BY <1>5, FS_CardinalityType
<1> QED
  BY <1>2, <1>6, <1>7

\* Only the values in the set count.
LEMMA FoldsAgree ==
  ASSUME NEW f1, NEW f2, NEW g1, NEW g2, IsFold(f1, g1), IsFold(f2, g2),
         NEW D, IsFiniteSet(D), D \subseteq DOMAIN f1, D \subseteq DOMAIN f2,
         \A x \in D : f1[x] = f2[x]
  PROVE  g1[D] = g2[D]
<1> DEFINE Small(n) == {s \in SUBSET D : IsFiniteSet(s) /\ Cardinality(s) <= n}
           S == {n \in Nat : \A s \in Small(n) : g1[s] = g2[s]}
<1>1. /\ \A s \in SUBSET D : g1[s] = Sums(f1, g1, s)
      /\ \A s \in SUBSET D : g2[s] = Sums(f2, g2, s)
  BY DEF IsFold
<1>2. 0 \in S
  <2>1. ASSUME NEW s \in Small(0) PROVE g1[s] = g2[s]
    <3>1. s = {}
      BY FS_EmptySet, FS_CardinalityType
    <3> QED
      BY <1>1, <3>1 DEF Sums
  <2> QED
    BY <2>1
<1>3. ASSUME NEW n \in Nat, n \in S PROVE n + 1 \in S
  <2>1. ASSUME NEW s \in Small(n + 1) PROVE g1[s] = g2[s]
    <3>1. CASE s = {}
      BY <1>1, <3>1 DEF Sums
    <3>2. CASE s # {}
      <4>1. First(s) \in s
        BY <3>2, FirstOf
      <4>2. s \ {First(s)} \in Small(n)
        <5>1. Cardinality(s) \in Nat
          BY FS_CardinalityType
        <5>2. /\ IsFiniteSet(s \ {First(s)})
              /\ Cardinality(s \ {First(s)}) = Cardinality(s) - 1
          BY <4>1, FS_RemoveElement
        <5> QED
          BY <5>1, <5>2
      <4> QED
        BY <1>1, <1>3, <3>2, <4>1, <4>2 DEF Sums
    <3> QED
      BY <3>1, <3>2
  <2> QED
    BY <2>1
<1>4. \A n \in Nat : n \in S
  <2> HIDE DEF S
  <2> QED
    BY <1>2, <1>3, SetInduction
<1>5. Cardinality(D) \in Nat
  BY FS_CardinalityType
<1> QED
  BY <1>4, <1>5

\* A sum is an integer; the empty sum is 0, and one more value is added.
LEMMA SumEmpty == ASSUME NEW f, DOMAIN f = {} PROVE Sum(f) = 0
<1>1. IsFiniteSet(DOMAIN f)
  BY FS_EmptySet
<1>2. PICK g : IsFold(f, g) /\ Sum(f) = g[DOMAIN f]
  BY <1>1, SumIsFold
<1> QED
  BY <1>1, <1>2, FoldSum

LEMMA SumType ==
  ASSUME NEW f, IsFiniteSet(DOMAIN f), \A x \in DOMAIN f : f[x] \in Int
  PROVE  Sum(f) \in Int
<1>2. PICK g : IsFold(f, g) /\ Sum(f) = g[DOMAIN f]
  BY SumIsFold
<1> QED
  BY <1>2, FoldSum

LEMMA SumAdd ==
  ASSUME NEW f, IsFiniteSet(DOMAIN f), \A x \in DOMAIN f : f[x] \in Int,
         NEW h, NEW y, DOMAIN h = DOMAIN f \union {y}, y \notin DOMAIN f,
         \A x \in DOMAIN f : h[x] = f[x], h[y] \in Int
  PROVE  Sum(h) = Sum(f) + h[y]
<1>1. PICK g : IsFold(f, g) /\ Sum(f) = g[DOMAIN f]
  BY SumIsFold
<1>2. IsFiniteSet(DOMAIN h)
  BY FS_AddElement
<1>3. PICK k : IsFold(h, k) /\ Sum(h) = k[DOMAIN h]
  BY <1>2, SumIsFold
<1>4. \A x \in DOMAIN h : h[x] \in Int
  OBVIOUS
<1>5. k[DOMAIN h] = h[y] + k[DOMAIN h \ {y}]
  BY <1>2, <1>3, <1>4, FoldSum
<1>6. DOMAIN h \ {y} = DOMAIN f
  OBVIOUS
<1>7. k[DOMAIN f] = g[DOMAIN f]
  BY <1>1, <1>3, FoldsAgree
<1>8. g[DOMAIN f] \in Int
  BY <1>1, FoldSum
<1> QED
  BY <1>1, <1>3, <1>5, <1>6, <1>7, <1>8

-----------------------------------------------------------------------------
(* What the lines of the events file tell of a tracker.                      *)

\* What the scan s has counted as lost and not yet logged, and logged and not
\* yet counted as late or too late.
Unlogged(s) ==
  IF s.at = "expect" \/ (s.at \in {"event", "write"} /\ s.field = "lost")
    THEN s.n_lost ELSE 0
Uncounted(s, code) ==
  IF s.at \in {"load", "store"} /\ s.field = code THEN 1 ELSE 0

\* What the lines of an entity tell of its tracker while s scans it.
Told(e, t, s) ==
  /\ Cardinality(LinesWith(e, "late")) = t.late + Uncounted(s, "late")
  /\ Cardinality(LinesWith(e, "too_late")) = t.too_late + Uncounted(s, "too_late")
  /\ LostLogged(e) + Unlogged(s) = t.lost
ToldInv ==
  MutuallyExclusive /\ is_open =>
    \A e \in Entities :
      /\ Scanning(e) = {} => Told(e, trackers[e], Idle)
      /\ \A th \in Scanning(e) : Told(e, trackers[e], scan[th])

\* A step of a scan that ends no line: s scans t, then r scans u.
Keeps(s, t, r, u) ==
  /\ u.late + Uncounted(r, "late") = t.late + Uncounted(s, "late")
  /\ u.too_late + Uncounted(r, "too_late") = t.too_late + Uncounted(s, "too_late")
  /\ t.lost + Unlogged(r) = u.lost + Unlogged(s)

\* What is pending depends on the place only.
LEMMA PendingAt ==
  ASSUME NEW s \in Locals, NEW at, NEW field
  PROVE  /\ Unlogged(Goto(s, at, field)) =
              IF at = "expect" \/ (at \in {"event", "write"} /\ field = "lost")
                THEN s.n_lost ELSE 0
         /\ \A code : Uncounted(Goto(s, at, field), code) =
              IF at \in {"load", "store"} /\ field = code THEN 1 ELSE 0
BY GotoFields DEF Unlogged, Uncounted

\* With a logger, the events come before the updates.
LEMMA LoggedFirst ==
  ASSUME elog, NEW s
  PROVE  /\ IfTooLate(s) \in {Goto(s, "event", "too_late"), Goto(s, "load", "stat")}
         /\ IfLate(s) \in {Goto(s, "event", "late"), Goto(s, "event", "too_late"),
                           Goto(s, "load", "stat")}
BY DEF IfLate, IfTooLate, LogOrElse

LEMMA NothingPending ==
  ASSUME elog, NEW s \in Locals
  PROVE  /\ \A code \in {"late", "too_late"} : /\ Uncounted(IfTooLate(s), code) = 0
                                             /\ Uncounted(IfLate(s), code) = 0
                                             /\ Uncounted(Idle, code) = 0
         /\ Unlogged(IfTooLate(s)) = 0 /\ Unlogged(IfLate(s)) = 0
         /\ Unlogged(Idle) = 0
<1>1. \A field \in {"late", "too_late"}, code \in {"late", "too_late"} :
        /\ Unlogged(Goto(s, "event", field)) = 0
        /\ Uncounted(Goto(s, "event", field), code) = 0
        /\ Unlogged(Goto(s, "load", "stat")) = 0
        /\ Uncounted(Goto(s, "load", "stat"), code) = 0
  BY PendingAt
<1>2. \A code \in {"late", "too_late"} : Uncounted(Idle, code) = 0
  BY IdleType DEF Uncounted
<1>3. Unlogged(Idle) = 0
  BY IdleType DEF Unlogged
<1> QED
  BY <1>1, <1>2, <1>3, LoggedFirst

\* Every step of a scan but the end of a line keeps the balance.
LEMMA StepKeeps ==
  ASSUME ScanTypeOK, MutuallyExclusive, AloneInv, StageInv, elog, is_open,
         NEW th \in Threads, ScanStep(th), ~EndLine(th)
  PROVE  /\ UNCHANGED lines
         /\ Keeps(scan[th], trackers[scan[th].entity],
                  scan'[th], trackers'[scan[th].entity])
<1> DEFINE s == scan[th]
           e == s.entity
           t == trackers[e]
           u == trackers'[e]
           r == scan'[th]
<1>1. DOMAIN scan = Threads /\ DOMAIN trackers = Entities
  BY DEF ScanTypeOK, LocalsOK
<1>2. s.at # "idle"
  BY DEF ScanStep, Compare, Subtract, Expect, Load, Store, Log, Write
<1>3. /\ s \in Locals /\ e \in Entities /\ IsPlace(s.at, s.field)
      /\ InScan(s, Latencies[sender])
  BY <1>2, IdleType DEF ScanTypeOK, LocalsOK, InScan
<1>4. t \in ScannedTrackers /\ Stage(s, t)
  BY <1>3 DEF ScanTypeOK, StageInv
<1>5. t.lost \in Nat /\ t.late \in Nat /\ t.too_late \in Nat /\ s.n_lost \in Nat
  <2>1. t.lost \in Nat /\ t.late \in Nat /\ t.too_late \in Nat
    BY <1>4 DEF ScannedTrackers
  <2>2. s.n_lost \in 0 .. TrackingMod - 1
    BY <1>3 DEF Locals
  <2> QED
    BY <2>1, <2>2
<1>6. UNCHANGED lines
  <2>1. CASE Log(th)
    BY <2>1 DEF Log, ReturnUnwritten, Stamp, file_vars
  <2>2. CASE Write(th)
    BY <2>2 DEF Write, Lock, StreamOut
  <2> QED
    BY <2>1, <2>2
       DEF ScanStep, Compare, Subtract, Expect, Load, Store, file_vars
<1> HIDE DEF s, t, u, r
<1>7. CASE Compare(th)
  <2>1. s.at = "compare" /\ s.field = "" /\ u = t
    BY <1>3, <1>7 DEF Compare, IsPlace, s, t, u
  <2>2. r \in {Goto(s, "load", "tracking_number_count"), Goto(s, "subtract", "")}
    BY <1>1, <1>7 DEF Compare, s, r
  <2>3. Unlogged(r) = 0 /\ Uncounted(r, "late") = 0 /\ Uncounted(r, "too_late") = 0
    <3>1. \A at, field : /\ Goto(s, at, field).at = at
                         /\ Goto(s, at, field).field = field
      BY <1>3, GotoFields
    <3>2. \/ r.at = "load" /\ r.field = "tracking_number_count"
          \/ r.at = "subtract"
      <4>1. CASE r = Goto(s, "load", "tracking_number_count")
        BY <3>1, <4>1
      <4>2. CASE r = Goto(s, "subtract", "")
        BY <3>1, <4>2
      <4> QED
        BY <2>2, <4>1, <4>2
    <3> QED
      BY <3>2 DEF Unlogged, Uncounted
  <2>4. Unlogged(s) = 0 /\ Uncounted(s, "late") = 0 /\ Uncounted(s, "too_late") = 0
    BY <2>1 DEF Unlogged, Uncounted
  <2> QED
    BY <1>5, <1>6, <2>1, <2>3, <2>4 DEF Keeps, s, t, u, r
<1>8. CASE Subtract(th)
  <2>1. s.at = "subtract" /\ s.field = "" /\ u = t
    BY <1>3, <1>8 DEF Subtract, IsPlace, s, t, u
  <2>2. \E n : r = [Goto(s, "load", "lost") EXCEPT !.n_lost = n]
    BY <1>1, <1>8 DEF Subtract, s, r
  <2>3. r.at = "load" /\ r.field = "lost"
    <3>1. \A n : /\ [Goto(s, "load", "lost") EXCEPT !.n_lost = n].at
                      = Goto(s, "load", "lost").at
                 /\ [Goto(s, "load", "lost") EXCEPT !.n_lost = n].field
                      = Goto(s, "load", "lost").field
      BY <1>3 DEF Goto, Locals
    <3> QED
      BY <1>3, <2>2, <3>1, GotoFields
  <2>4. Unlogged(r) = 0 /\ Uncounted(r, "late") = 0 /\ Uncounted(r, "too_late") = 0
    BY <2>3 DEF Unlogged, Uncounted
  <2>5. Unlogged(s) = 0 /\ Uncounted(s, "late") = 0 /\ Uncounted(s, "too_late") = 0
    BY <2>1 DEF Unlogged, Uncounted
  <2> QED
    BY <1>5, <1>6, <2>1, <2>4, <2>5 DEF Keeps, s, t, u, r
<1>9. CASE Expect(th)
  <2>1. s.at = "expect" /\ s.field = ""
    BY <1>3, <1>9 DEF Expect, IsPlace, s
  <2>2. u.lost = t.lost /\ u.late = t.late /\ u.too_late = t.too_late
    BY <1>1, <1>3, <1>4, <1>9 DEF Expect, ScannedTrackers, s, t, u
  <2>3. r = Goto(s, "event", "lost")
    BY <1>1, <1>9 DEF Expect, AfterExpected, s, r
  <2>4. Unlogged(r) = s.n_lost /\ Uncounted(r, "late") = 0
        /\ Uncounted(r, "too_late") = 0
    BY <1>3, <2>3, PendingAt
  <2>5. Unlogged(s) = s.n_lost /\ Uncounted(s, "late") = 0
        /\ Uncounted(s, "too_late") = 0
    BY <2>1 DEF Unlogged, Uncounted
  <2> QED
    BY <1>5, <1>6, <2>2, <2>4, <2>5 DEF Keeps, s, t, u, r
<1>10. CASE Load(th)
  <2>1. s.at = "load" /\ u = t
    BY <1>10 DEF Load, s, t, u
  <2>2. \E l : r = [Goto(s, "store", s.field) EXCEPT !.loaded = l]
    BY <1>1, <1>10 DEF Load, s, r
  <2>3. r.at = "store" /\ r.field = s.field
    <3>1. \A l : /\ [Goto(s, "store", s.field) EXCEPT !.loaded = l].at
                      = Goto(s, "store", s.field).at
                 /\ [Goto(s, "store", s.field) EXCEPT !.loaded = l].field
                      = Goto(s, "store", s.field).field
      BY <1>3 DEF Goto, Locals
    <3> QED
      BY <1>3, <2>2, <3>1, GotoFields
  <2>4. Unlogged(r) = 0 /\ Unlogged(s) = 0
        /\ \A code : Uncounted(r, code) = Uncounted(s, code)
    BY <2>1, <2>3 DEF Unlogged, Uncounted
  <2>5. Uncounted(s, "late") \in Nat /\ Uncounted(s, "too_late") \in Nat
    BY DEF Uncounted
  <2> QED
    BY <1>5, <1>6, <2>1, <2>4, <2>5 DEF Keeps, s, t, u, r
<1>11. CASE Store(th)
  <2> DEFINE d == Done(s)
  <2>1. s.at = "store" /\ s.field \in Updates
    BY <1>3, <1>11 DEF Store, IsPlace, s
  <2>2. u = StoredTo(s, t)
    BY <1>3, <1>11, StoreStores DEF s, t, u
  <2>3. IsStored(s, t, u)
    BY <1>3, <1>4, <2>1, <2>2, StoredAlone
  <2>4. d \in Locals /\ d.field = s.field /\ d.n_lost = s.n_lost
    BY <1>3, DoneType DEF InScan
  <2>5. r = AfterUpdate(d)
    BY <1>1, <1>11 DEF Store, Done, s, r
  <2> HIDE DEF d
  <2>6. Unlogged(s) = 0
        /\ Uncounted(s, "late") = (IF s.field = "late" THEN 1 ELSE 0)
        /\ Uncounted(s, "too_late") = (IF s.field = "too_late" THEN 1 ELSE 0)
    BY <2>1 DEF Unlogged, Uncounted
  <2>7. /\ u.late = IF s.field = "late" THEN t.late + 1 ELSE t.late
        /\ u.too_late = IF s.field = "too_late" THEN t.too_late + 1 ELSE t.too_late
        /\ u.lost = IF s.field = "lost" THEN t.lost + s.n_lost ELSE t.lost
    BY <2>3 DEF IsStored
  <2>8. Uncounted(r, "late") = 0 /\ Uncounted(r, "too_late") = 0
        /\ Unlogged(r) = (IF s.field = "lost" THEN s.n_lost ELSE 0)
    <3>1. CASE s.field = "tracking_number_count"
      BY <2>4, <2>5, <3>1, NothingPending DEF AfterUpdate
    <3>2. CASE s.field = "lost"
      <4>1. r = Goto(d, "expect", "")
        BY <2>4, <2>5, <3>2 DEF AfterUpdate
      <4>2. \A at, field : /\ Goto(d, at, field).at = at
                           /\ Goto(d, at, field).n_lost = d.n_lost
        BY <2>4, GotoFields
      <4>3. r.at = "expect" /\ r.n_lost = s.n_lost
        BY <2>4, <4>1, <4>2
      <4> QED
        BY <3>2, <4>3 DEF Unlogged, Uncounted
    <3>3. CASE s.field = "late"
      BY <2>4, <2>5, <3>3, NothingPending DEF AfterUpdate
    <3>4. CASE s.field = "too_late"
      <4>1. r = Goto(d, "load", "stat")
        BY <2>4, <2>5, <3>4 DEF AfterUpdate
      <4> QED
        BY <2>4, <3>4, <4>1, PendingAt
    <3>5. CASE s.field = "stat"
      <4>1. r = Goto(d, "load", "received")
        BY <2>4, <2>5, <3>5 DEF AfterUpdate
      <4> QED
        BY <2>4, <3>5, <4>1, PendingAt
    <3>6. CASE s.field = "received"
      BY <2>4, <2>5, <3>6, NothingPending DEF AfterUpdate
    <3> QED
      BY <2>1, <3>1, <3>2, <3>3, <3>4, <3>5, <3>6 DEF Updates
  <2>9. Keeps(s, t, r, u)
    BY <1>5, <2>6, <2>7, <2>8 DEF Keeps
  <2> QED
    BY <1>6, <2>9 DEF s, t, u, r
<1>12. CASE Log(th)
  <2>1. s.at = "event" /\ u = t
    BY <1>12 DEF Log, s, t, u
  <2>2. r = Goto(s, "write", s.field)
    BY <1>1, <1>12 DEF Log, ReturnUnwritten, s, r
  <2>3. /\ Unlogged(r) = Unlogged(s)
        /\ \A code : Uncounted(r, code) = 0 /\ Uncounted(s, code) = 0
    <3>1. Unlogged(r) = IF s.field = "lost" THEN s.n_lost ELSE 0
      BY <1>3, <2>2, PendingAt
    <3>2. \A code : Uncounted(r, code) = 0
      BY <1>3, <2>2, PendingAt
    <3> QED
      BY <2>1, <3>1, <3>2 DEF Unlogged, Uncounted
  <2>4. Unlogged(s) \in Nat
    BY <1>5 DEF Unlogged
  <2> QED
    BY <1>5, <1>6, <2>1, <2>3, <2>4 DEF Keeps, s, t, u, r
<1>13. CASE Write(th)
  <2>1. r = s /\ u = t
    BY <1>1, <1>13 DEF Write, s, t, u, r
  <2>2. Unlogged(s) \in Nat
    BY <1>5 DEF Unlogged
  <2>3. Uncounted(s, "late") \in Nat /\ Uncounted(s, "too_late") \in Nat
    BY DEF Uncounted
  <2>4. Keeps(s, t, r, u)
    BY <1>5, <2>1, <2>2, <2>3 DEF Keeps
  <2> QED
    BY <1>6, <2>4 DEF s, t, u, r
<1> QED
  BY <1>7, <1>8, <1>9, <1>10, <1>11, <1>12, <1>13 DEF ScanStep

\* Every event has a stamp of its own time, and the lines of an entity of a
\* mutually exclusive group are in the order of the stamps.
StampInv ==
  /\ is_open => elog
  /\ stamps \in Nat
  /\ \A th \in Threads : writing[th] # "out" =>
       /\ event[th] = <<event[th][1], Event(scan[th])>>
       /\ event[th][1] \in Nat /\ event[th][1] < stamps
  /\ \A i \in DOMAIN lines :
       /\ WrittenEvents[i][1] \in Nat /\ WrittenEvents[i][1] < stamps
       /\ LostBy(WrittenEvents[i][2]) \in Int
OrderInv ==
  MutuallyExclusive =>
    \A e \in Entities :
      /\ \A i, j \in LinesOf(e) :
           i < j => WrittenEvents[i][1] < WrittenEvents[j][1]
      /\ \A th \in Scanning(e) :
           writing[th] # "out" =>
             \A i \in LinesOf(e) : WrittenEvents[i][1] < event[th][1]

\* The line an EndLine appends is the last and that of the thread's event.
LEMMA AppendedLine ==
  ASSUME FileInv, StampInv, NEW th \in Threads, EndLine(th)
  PROVE  \E n \in Nat :
           /\ n \notin DOMAIN lines
           /\ DOMAIN WrittenEvents' = DOMAIN lines'
           /\ DOMAIN lines' = DOMAIN lines \union {n}
           /\ IsFiniteSet(DOMAIN lines)
           /\ \A i \in DOMAIN lines : i \in Nat /\ i < n
           /\ \A i \in DOMAIN lines : WrittenEvents'[i] = WrittenEvents[i]
           /\ WrittenEvents'[n] = <<event[th][1], Event(scan[th])>>
<1>1. PICK S : lines \in Seq(S)
  BY DEF FileInv, LinesInv
<1> DEFINE p == Append(line, event[th])
           n == Len(lines) + 1
           T == S \union {p}
<1>2. lines \in Seq(T) /\ p \in T
  BY <1>1
<1>3. Len(lines) \in Nat /\ DOMAIN lines = 1 .. Len(lines)
  BY <1>2
<1>4. /\ lines' \in Seq(T)
      /\ Len(lines') = n
      /\ \A i \in 1 .. Len(lines) : lines'[i] = lines[i]
      /\ lines'[n] = p
  <2>1. lines' = Append(lines, p)
    BY DEF EndLine
  <2> HIDE DEF p, T
  <2> QED
    BY <1>2, <2>1, AppendProperties
<1>5. DOMAIN lines' = DOMAIN lines \union {n} /\ n \notin DOMAIN lines /\ n \in Nat
  BY <1>3, <1>4
<1>6. p[1] = event[th]
  <2>1. line = <<event[th]>>
    BY DEF FileInv, WriterInv, EndLine
  <2>2. /\ <<event[th]>> \in Seq({event[th]}) /\ event[th] \in {event[th]}
        /\ Len(<<event[th]>>) = 1 /\ <<event[th]>>[1] = event[th]
    OBVIOUS
  <2>3. Append(<<event[th]>>, event[th])[1] = <<event[th]>>[1]
    BY <2>2, AppendProperties
  <2> QED
    BY <2>1, <2>2, <2>3
<1>7. event[th] = <<event[th][1], Event(scan[th])>>
  BY DEF StampInv, EndLine
<1>8. /\ DOMAIN WrittenEvents' = DOMAIN lines'
      /\ \A i \in DOMAIN lines' : WrittenEvents'[i] = lines'[i][1]
      /\ \A i \in DOMAIN lines : WrittenEvents[i] = lines[i][1]
  BY DEF WrittenEvents
<1>9. IsFiniteSet(DOMAIN lines)
  BY <1>3, FS_Interval
<1>10. \A i \in DOMAIN lines : i \in Nat /\ i < n
  BY <1>3
<1>11. \A i \in DOMAIN lines : WrittenEvents'[i] = WrittenEvents[i]
  BY <1>3, <1>4, <1>5, <1>8
<1>12. WrittenEvents'[n] = event[th]
  <2> HIDE DEF n, p
  <2> QED
    BY <1>4, <1>5, <1>6, <1>8
<1> HIDE DEF n
<1> QED
  BY <1>5, <1>7, <1>8, <1>9, <1>10, <1>11, <1>12

\* What an event names, and how many lost messages it stands for.
LEMMA EventFields ==
  ASSUME NEW s
  PROVE  /\ Event(s).caller = s.entity /\ Event(s).code = s.field
BY DEF Event

LEMMA EventLost ==
  ASSUME NEW s \in Locals
  PROVE  /\ LostBy(Event(s)) \in Int
         /\ s.field = "lost" /\ s.n_lost # 0 => LostBy(Event(s)) = s.n_lost
<1>1. /\ s.number \in 0 .. TrackingMod - 1
      /\ s.n_lost \in 0 .. TrackingMod - 1
  BY DEF Locals
<1>2. s.number \in Int /\ s.n_lost \in Int /\ PrevNumber(s.number) \in Int
  BY <1>1, TrackerAssumption DEF PrevNumber
<1> QED
  BY <1>2 DEF Event, LostBy

\* What one more line tells.
LEMMA LineTells ==
  ASSUME FileInv, StampInv, NEW th \in Threads, EndLine(th), NEW e,
         scan[th] \in Locals,
         scan[th].entity = e /\ scan[th].field = "lost" => scan[th].n_lost # 0
  PROVE  LET own(code) == scan[th].entity = e /\ scan[th].field = code
         IN  /\ Cardinality(LinesWith(e, "late"))' =
                  Cardinality(LinesWith(e, "late")) + (IF own("late") THEN 1 ELSE 0)
             /\ Cardinality(LinesWith(e, "too_late"))' =
                  Cardinality(LinesWith(e, "too_late"))
                  + (IF own("too_late") THEN 1 ELSE 0)
             /\ LostLogged(e)' =
                  LostLogged(e) + (IF own("lost") THEN scan[th].n_lost ELSE 0)
             /\ Cardinality(LinesWith(e, "late")) \in Nat
             /\ Cardinality(LinesWith(e, "too_late")) \in Nat
             /\ LostLogged(e) \in Int
<1> DEFINE s == scan[th]
<1>1. PICK n \in Nat :
           /\ n \notin DOMAIN lines
           /\ DOMAIN WrittenEvents' = DOMAIN lines'
           /\ DOMAIN lines' = DOMAIN lines \union {n}
           /\ IsFiniteSet(DOMAIN lines)
           /\ \A i \in DOMAIN lines : i \in Nat /\ i < n
           /\ \A i \in DOMAIN lines : WrittenEvents'[i] = WrittenEvents[i]
           /\ WrittenEvents'[n] = <<event[th][1], Event(s)>>
  BY AppendedLine
<1>2. WrittenEvents'[n][2].caller = s.entity /\ WrittenEvents'[n][2].code = s.field
  BY <1>1, EventFields
<1>3. ASSUME NEW code
      PROVE  /\ LinesWith(e, code)' = LinesWith(e, code) \union
                  (IF s.entity = e /\ s.field = code THEN {n} ELSE {})
             /\ n \notin LinesWith(e, code)
             /\ LinesWith(e, code) \subseteq DOMAIN lines
             /\ IsFiniteSet(LinesWith(e, code))
             /\ Cardinality(LinesWith(e, code)) \in Nat
             /\ Cardinality(LinesWith(e, code)') =
                  Cardinality(LinesWith(e, code))
                  + (IF s.entity = e /\ s.field = code THEN 1 ELSE 0)
  <2> HIDE DEF s
  <2>1. LinesWith(e, code) =
          {i \in DOMAIN lines : /\ WrittenEvents[i][2].caller = e
                                /\ WrittenEvents[i][2].code = code}
    BY DEF LinesWith, LinesOf
  <2>2. LinesWith(e, code)' =
          {i \in DOMAIN lines' : /\ WrittenEvents'[i][2].caller = e
                                 /\ WrittenEvents'[i][2].code = code}
    BY DEF LinesWith, LinesOf
  <2>3. \A i \in DOMAIN lines : i \in LinesWith(e, code)' <=> i \in LinesWith(e, code)
    BY <1>1, <2>1, <2>2
  <2>4. n \in LinesWith(e, code)' <=> s.entity = e /\ s.field = code
    BY <1>1, <1>2, <2>2
  <2>5. LinesWith(e, code)' = LinesWith(e, code) \union
                  (IF s.entity = e /\ s.field = code THEN {n} ELSE {})
    BY <1>1, <2>1, <2>2, <2>3, <2>4
  <2>6. n \notin LinesWith(e, code) /\ LinesWith(e, code) \subseteq DOMAIN lines
    BY <1>1, <2>1
  <2>7. IsFiniteSet(LinesWith(e, code)) /\ Cardinality(LinesWith(e, code)) \in Nat
    BY <1>1, <2>6, FS_Subset, FS_CardinalityType
  <2>8. Cardinality(LinesWith(e, code) \union {n}) = Cardinality(LinesWith(e, code)) + 1
    BY <2>6, <2>7, FS_AddElement
  <2>9. Cardinality(LinesWith(e, code)') =
          Cardinality(LinesWith(e, code))
          + (IF s.entity = e /\ s.field = code THEN 1 ELSE 0)
    <3>1. CASE s.entity = e /\ s.field = code
      <4>1. LinesWith(e, code)' = LinesWith(e, code) \union {n}
        BY <2>5, <3>1
      <4> QED
        BY <2>8, <3>1, <4>1
    <3>2. CASE ~(s.entity = e /\ s.field = code)
      <4>1. LinesWith(e, code)' = LinesWith(e, code)
        BY <2>5, <3>2
      <4> QED
        BY <2>7, <3>2, <4>1
    <3> QED
      BY <3>1, <3>2
  <2> QED
    BY <2>5, <2>6, <2>7, <2>9
<1> DEFINE f == [i \in LinesWith(e, "lost") |-> LostBy(WrittenEvents[i][2])]
           h == [i \in LinesWith(e, "lost")' |-> LostBy(WrittenEvents'[i][2])]
<1>4. LostLogged(e) = Sum(f) /\ LostLogged(e)' = Sum(h)
  BY DEF LostLogged
<1>5. /\ IsFiniteSet(DOMAIN f)
      /\ \A i \in DOMAIN f : f[i] \in Int
      /\ \A i \in DOMAIN f : LostBy(WrittenEvents'[i][2]) = f[i]
      /\ n \notin DOMAIN f
  BY <1>1, <1>3 DEF StampInv
<1>6. Sum(f) \in Int
  <2> HIDE DEF f
  <2> QED
    BY <1>5, SumType
<1>7. CASE s.entity = e /\ s.field = "lost"
  <2>1. LinesWith(e, "lost")' = DOMAIN f \union {n}
    BY <1>3, <1>7
  <2>2. /\ DOMAIN h = DOMAIN f \union {n}
        /\ \A i \in DOMAIN h : h[i] = LostBy(WrittenEvents'[i][2])
    BY <2>1
  <2>3. h[n] = s.n_lost
    <3>1. LostBy(Event(s)) = s.n_lost
      BY <1>7, EventLost
    <3> HIDE DEF s, h, f
    <3> QED
      BY <1>1, <1>7, <2>2, <3>1
  <2>4. \A i \in DOMAIN f : h[i] = f[i]
    BY <1>5, <2>2
  <2>5. h[n] \in Int
    <3>1. s.n_lost \in 0 .. TrackingMod - 1
      BY DEF Locals
    <3> HIDE DEF h
    <3> QED
      BY <2>3, <3>1
  <2> HIDE DEF f, h
  <2>6. Sum(h) = Sum(f) + h[n]
    BY <1>5, <2>2, <2>4, <2>5, SumAdd
  <2> QED
    BY <1>3, <1>4, <1>6, <1>7, <2>3, <2>6
<1>8. CASE ~(s.entity = e /\ s.field = "lost")
  <2>1. LinesWith(e, "lost")' = DOMAIN f
    BY <1>3, <1>8
  <2>2. h = f
    BY <1>5, <2>1
  <2> HIDE DEF f, h
  <2> QED
    BY <1>3, <1>4, <1>6, <1>8, <2>2
<1> QED
  BY <1>7, <1>8

\* At the start no line tells anything.
LEMMA ToldInit == Init => StampInv /\ OrderInv /\ ToldInv
<1> SUFFICES ASSUME Init PROVE StampInv /\ OrderInv /\ ToldInv
  OBVIOUS
<1>1. /\ DOMAIN lines = {} /\ stamps = 0 /\ (is_open => elog)
      /\ \A th \in Threads : writing[th] = "out"
  BY DEF Init, EventsLoggerInit
<1>2. StampInv
  BY <1>1 DEF StampInv
<1>3. \A e : LinesOf(e) = {} /\ \A code : LinesWith(e, code) = {}
  BY <1>1 DEF LinesOf, LinesWith
<1>4. OrderInv
  BY <1>1, <1>3 DEF OrderInv
<1>5. ASSUME NEW e \in Entities
      PROVE  Scanning(e) = {} /\ Told(e, trackers[e], Idle)
  <2>1. Scanning(e) = {}
    BY IdleType, ConcurrentScanAssumption DEF Init, Scanning
  <2>2. LostLogged(e) = 0
    <3> DEFINE f == [i \in LinesWith(e, "lost") |-> LostBy(WrittenEvents[i][2])]
    <3>1. DOMAIN f = {}
      BY <1>3
    <3>2. Sum(f) = 0
      <4> HIDE DEF f
      <4> QED
        BY <3>1, SumEmpty
    <3> QED
      BY <3>2 DEF LostLogged
  <2>3. /\ Cardinality(LinesWith(e, "late")) = 0
        /\ Cardinality(LinesWith(e, "too_late")) = 0
    BY <1>3, FS_EmptySet
  <2>4. /\ trackers[e].lost = 0 /\ trackers[e].late = 0 /\ trackers[e].too_late = 0
    <3>1. PICK enabled \in BOOLEAN : trackers[e] = Fresh(enabled)
      BY DEF Init
    <3>2. /\ Fresh(enabled).lost = 0 /\ Fresh(enabled).late = 0
          /\ Fresh(enabled).too_late = 0
      BY DEF Fresh, NewTracker
    <3> QED
      BY <3>1, <3>2
  <2>5. /\ Uncounted(Idle, "late") = 0 /\ Uncounted(Idle, "too_late") = 0
        /\ Unlogged(Idle) = 0
    BY IdleType DEF Uncounted, Unlogged
  <2> QED
    BY <2>1, <2>2, <2>3, <2>4, <2>5 DEF Told
<1>6. ToldInv
  BY <1>5 DEF ToldInv
<1> QED
  BY <1>2, <1>4, <1>6

\* The file is opened, and the logger given, at the start.
LEMMA FixedLogger == [Next]_vars => UNCHANGED <<is_open, elog>>
<1>1. ASSUME NEW th \in Threads, NEW e \in Entities, NEW skipped \in Skips[sender],
             NEW latency \in Latencies[sender], Take(th, e, skipped, latency)
      PROVE  UNCHANGED <<is_open, elog>>
  BY <1>1 DEF Take, file_vars
<1>2. ASSUME NEW th \in Threads,
             Compare(th) \/ Subtract(th) \/ Expect(th) \/ Load(th) \/ Store(th)
      PROVE  UNCHANGED <<is_open, elog>>
  BY <1>2 DEF Compare, Subtract, Expect, Load, Store, file_vars
<1>3. ASSUME NEW th \in Threads, Log(th) PROVE UNCHANGED <<is_open, elog>>
  BY <1>3 DEF Log, ReturnUnwritten, Stamp, file_vars
<1>4. ASSUME NEW th \in Threads, Write(th) PROVE UNCHANGED <<is_open, elog>>
  BY <1>4 DEF Write, Lock, StreamOut, EndLine
<1>5. CASE UNCHANGED vars
  BY <1>5 DEF vars, scan_vars, file_vars
<1> QED
  BY <1>1, <1>2, <1>3, <1>4, <1>5 DEF Next

\* Only a thread that is in write_event changes what is written.
LEMMA FileOf ==
  ASSUME ScanTypeOK, FileInv, NEW th \in Threads, ScanStep(th)
  PROVE  /\ \A other \in Threads \ {th} :
              writing'[other] = writing[other] /\ event'[other] = event[other]
         /\ \/ /\ UNCHANGED <<stamps, lines>>
               /\ writing[th] = "out" /\ writing'[th] = "out"
            \/ /\ UNCHANGED lines /\ stamps' = stamps + 1
               /\ writing[th] = "out"
               /\ event'[th] = <<stamps, Event(scan[th])>>
               /\ Event(scan'[th]) = Event(scan[th])
            \/ /\ UNCHANGED <<stamps, lines, event>>
               /\ writing[th] # "out" /\ scan'[th] = scan[th]
            \/ /\ EndLine(th) /\ writing'[th] = "out" /\ writing[th] # "out"
<1>1. DOMAIN scan = Threads /\ DOMAIN writing = Threads /\ DOMAIN event = Threads
  BY DEF ScanTypeOK, LocalsOK, FileInv, WriterInv
<1>2. scan[th].at # "write" => writing[th] = "out"
  BY DEF ScanTypeOK, WritingOK
<1>3. CASE Compare(th) \/ Subtract(th) \/ Expect(th) \/ Load(th) \/ Store(th)
  <2>1. UNCHANGED file_vars
    BY <1>3 DEF Compare, Subtract, Expect, Load, Store
  <2>2. scan[th].at # "write"
    BY <1>3 DEF Compare, Subtract, Expect, Load, Store
  <2> QED
    BY <1>2, <2>1, <2>2 DEF file_vars
<1>4. CASE Log(th) /\ ReturnUnwritten(th)
  <2>1. UNCHANGED file_vars
    BY <1>4 DEF ReturnUnwritten
  <2> QED
    BY <1>2, <1>4, <2>1 DEF file_vars, Log
<1>5. CASE Log(th) /\ ~ReturnUnwritten(th)
  <2>1. /\ Stamp(th, Event(scan[th]))
        /\ scan'[th] = Goto(scan[th], "write", scan[th].field)
    BY <1>1, <1>5 DEF Log
  <2>2. scan[th] \in Locals
    BY <1>5, IdleType DEF ScanTypeOK, LocalsOK, InScan
  <2>3. \A at, field : LET r == Goto(scan[th], at, field)
                       IN /\ r.field = field
                          /\ SameMessage(scan[th], r) /\ r.n_lost = scan[th].n_lost
    BY <2>2, GotoFields
  <2>4. /\ scan'[th].field = scan[th].field /\ scan'[th].n_lost = scan[th].n_lost
        /\ scan'[th].entity = scan[th].entity /\ scan'[th].number = scan[th].number
    BY <2>1, <2>3 DEF SameMessage
  <2>5. Event(scan'[th]) = Event(scan[th])
    BY <2>4 DEF Event
  <2> QED
    BY <1>1, <2>1, <2>5 DEF Stamp
<1>6. CASE Write(th) /\ ~EndLine(th)
  <2>1. scan'[th] = scan[th] /\ (Lock(th) \/ StreamOut(th))
    BY <1>6 DEF Write
  <2> QED
    BY <1>1, <2>1 DEF Lock, StreamOut
<1>7. CASE EndLine(th)
  BY <1>1, <1>7 DEF EndLine
<1> QED
  BY <1>3, <1>4, <1>5, <1>6, <1>7 DEF ScanStep

\* A time stamp is above all that have been taken.
LEMMA StampsKept ==
  ASSUME ScanTypeOK, FileInv, StampInv, [Next]_vars
  PROVE  StampInv'
<1> USE FixedLogger
<1>1. CASE UNCHANGED vars
  BY <1>1 DEF vars, scan_vars, file_vars, StampInv, WrittenEvents
<1>2. ASSUME NEW th \in Threads, NEW e \in Entities, NEW skipped \in Skips[sender],
             NEW latency \in Latencies[sender], Take(th, e, skipped, latency)
      PROVE  StampInv'
  <2>1. UNCHANGED file_vars
    BY <1>2 DEF Take
  <2>2. writing[th] = "out" /\ \A other \in Threads \ {th} : scan'[other] = scan[other]
    BY <1>2, TakeMoves, IdleType DEF ScanTypeOK, WritingOK
  <2> QED
    BY <2>1, <2>2 DEF StampInv, WrittenEvents, file_vars
<1>3. ASSUME NEW th \in Threads, ScanStep(th)
      PROVE  StampInv'
  <2>1. \A other \in Threads \ {th} :
          /\ writing'[other] = writing[other] /\ event'[other] = event[other]
          /\ scan'[other] = scan[other]
    BY <1>3, FileOf, StepOthers
  <2>2. stamps \in Nat
    BY DEF StampInv
  <2>3. stamps' \in Nat /\ stamps <= stamps'
        /\ (writing'[th] # "out" =>
              /\ event'[th] = <<event'[th][1], Event(scan'[th])>>
              /\ event'[th][1] \in Nat /\ event'[th][1] < stamps')
    <3>1. CASE UNCHANGED <<stamps, lines>> /\ writing'[th] = "out"
      BY <2>2, <3>1
    <3>2. CASE /\ stamps' = stamps + 1
               /\ event'[th] = <<stamps, Event(scan[th])>>
               /\ Event(scan'[th]) = Event(scan[th])
      BY <2>2, <3>2
    <3>3. CASE /\ UNCHANGED <<stamps, lines, event>>
               /\ writing[th] # "out" /\ scan'[th] = scan[th]
      BY <2>2, <3>3 DEF StampInv
    <3>4. CASE EndLine(th) /\ writing'[th] = "out"
      BY <2>2, <3>4 DEF EndLine
    <3> QED
      BY <1>3, <3>1, <3>2, <3>3, <3>4, FileOf
  <2>4. ASSUME NEW other \in Threads, writing'[other] # "out"
        PROVE  /\ event'[other] = <<event'[other][1], Event(scan'[other])>>
               /\ event'[other][1] \in Nat /\ event'[other][1] < stamps'
    <3>1. CASE other = th
      BY <2>3, <2>4, <3>1
    <3>2. CASE other # th
      BY <2>1, <2>2, <2>3, <2>4, <3>2 DEF StampInv
    <3> QED
      BY <3>1, <3>2
  <2>5. ASSUME NEW i \in DOMAIN lines'
        PROVE  /\ WrittenEvents'[i][1] \in Nat /\ WrittenEvents'[i][1] < stamps'
               /\ LostBy(WrittenEvents'[i][2]) \in Int
    <3>1. CASE EndLine(th)
      <4>1. PICK n \in Nat :
              /\ DOMAIN lines' = DOMAIN lines \union {n}
              /\ \A k \in DOMAIN lines : WrittenEvents'[k] = WrittenEvents[k]
              /\ WrittenEvents'[n] = <<event[th][1], Event(scan[th])>>
        BY <3>1, AppendedLine
      <4>2. CASE i = n
        <5>1. scan[th] \in Locals
          BY IdleType DEF ScanTypeOK, LocalsOK, InScan
        <5>2. event[th][1] \in Nat /\ event[th][1] < stamps
          BY <3>1 DEF StampInv, EndLine
        <5>3. LostBy(Event(scan[th])) \in Int
          BY <5>1, EventLost
        <5> QED
          BY <2>2, <2>3, <4>1, <4>2, <5>2, <5>3
      <4>3. CASE i # n
        BY <2>2, <2>3, <4>1, <4>3 DEF StampInv
      <4> QED
        BY <4>2, <4>3
    <3>2. CASE ~EndLine(th)
      <4>1. UNCHANGED lines
        BY <1>3, <3>2, FileOf
      <4>2. WrittenEvents' = WrittenEvents
        BY <4>1 DEF WrittenEvents
      <4> QED
        BY <2>2, <2>3, <4>1, <4>2 DEF StampInv
    <3> QED
      BY <3>1, <3>2
  <2>6. is_open' => elog'
    BY DEF StampInv
  <2> QED
    BY <2>3, <2>4, <2>5, <2>6 DEF StampInv
<1> QED
  BY <1>1, <1>2, <1>3 DEF Next, ScanStep

\* The scan under way of an entity is the only one to write its lines.
LEMMA OrderStep ==
  ASSUME ScanTypeOK, ScanTypeOK', FileInv, AloneInv, StampInv, OrderInv, [Next]_vars
  PROVE  OrderInv'
<1> SUFFICES ASSUME MutuallyExclusive' PROVE OrderInv'
  BY DEF OrderInv
<1>0. MutuallyExclusive
  BY FixedChoices DEF MutuallyExclusive
<1>1. CASE UNCHANGED vars
  BY <1>1 DEF vars, scan_vars, file_vars, OrderInv, WrittenEvents, LinesOf,
              Scanning, MutuallyExclusive
<1>2. ASSUME NEW th \in Threads, NEW e \in Entities, NEW skipped \in Skips[sender],
             NEW latency \in Latencies[sender], Take(th, e, skipped, latency)
      PROVE  OrderInv'
  <2>1. UNCHANGED file_vars
    BY <1>2 DEF Take
  <2>2. writing[th] = "out" /\ \A other \in Threads \ {th} : scan'[other] = scan[other]
    BY <1>2, TakeMoves, IdleType DEF ScanTypeOK, WritingOK
  <2>3. \A x : LinesOf(x)' = LinesOf(x)
    BY <2>1 DEF LinesOf, WrittenEvents, file_vars
  <2>4. WrittenEvents' = WrittenEvents
    BY <2>1 DEF WrittenEvents, file_vars
  <2>5. \A x : \A other \in Scanning(x)' : writing'[other] # "out" => other \in Scanning(x)
    BY <2>1, <2>2 DEF Scanning, file_vars
  <2>6. writing' = writing /\ event' = event
    BY <2>1 DEF file_vars
  <2> QED
    BY <1>0, <2>3, <2>4, <2>5, <2>6 DEF OrderInv
<1>3. ASSUME NEW th \in Threads, ScanStep(th)
      PROVE  OrderInv'
  <2>1. \A other \in Threads \ {th} :
          /\ writing'[other] = writing[other] /\ event'[other] = event[other]
          /\ scan'[other] = scan[other]
    BY <1>3, FileOf, StepOthers
  <2>2. scan[th].entity \in Entities
    <3>1. scan[th].at # "idle"
      BY <1>3 DEF ScanStep, Compare, Subtract, Expect, Load, Store, Log, Write
    <3> QED
      BY <3>1, IdleType DEF ScanTypeOK, LocalsOK, InScan
  <2>3. CASE ~EndLine(th)
    <3>1. UNCHANGED lines
      BY <1>3, <2>3, FileOf
    <3>2. WrittenEvents' = WrittenEvents /\ \A x : LinesOf(x)' = LinesOf(x)
      BY <3>1 DEF WrittenEvents, LinesOf
    <3>3. ASSUME NEW e \in Entities, NEW other \in Scanning(e)',
                 writing'[other] # "out", NEW i \in LinesOf(e)
          PROVE  WrittenEvents[i][1] < event'[other][1]
      <4>1. CASE other # th
        <5>1. other \in Scanning(e) /\ writing[other] # "out"
          BY <2>1, <3>3, <4>1 DEF Scanning
        <5> QED
          BY <1>0, <2>1, <4>1, <5>1 DEF OrderInv, Scanning
      <4>2. CASE other = th /\ UNCHANGED event /\ writing[th] # "out"
                  /\ scan'[th] = scan[th]
        <5>1. th \in Scanning(e)
          BY <3>3, <4>2 DEF Scanning
        <5> QED
          BY <1>0, <4>2, <5>1 DEF OrderInv
      <4>3. CASE other = th /\ event'[th] = <<stamps, Event(scan[th])>>
        <5>1. i \in DOMAIN lines
          BY DEF LinesOf
        <5>2. WrittenEvents[i][1] < stamps
          BY <5>1 DEF StampInv
        <5> QED
          BY <4>3, <5>2
      <4> QED
        BY <1>3, <2>3, <3>3, <4>1, <4>2, <4>3, FileOf
    <3> QED
      BY <1>0, <3>2, <3>3 DEF OrderInv
  <2>4. CASE EndLine(th)
    <3>1. PICK n \in Nat :
              /\ n \notin DOMAIN lines
              /\ DOMAIN lines' = DOMAIN lines \union {n}
              /\ \A k \in DOMAIN lines : k \in Nat /\ k < n
              /\ \A k \in DOMAIN lines : WrittenEvents'[k] = WrittenEvents[k]
              /\ WrittenEvents'[n] = <<event[th][1], Event(scan[th])>>
      BY <2>4, AppendedLine
    <3>2. ASSUME NEW e
          PROVE  /\ scan[th].entity # e => LinesOf(e)' = LinesOf(e)
                 /\ scan[th].entity = e => LinesOf(e)' = LinesOf(e) \union {n}
      <4>1. \A k \in DOMAIN lines : k \in LinesOf(e)' <=> k \in LinesOf(e)
        BY <3>1 DEF LinesOf
      <4>2. n \in LinesOf(e)' <=> scan[th].entity = e
        BY <3>1, EventFields DEF LinesOf
      <4>3. LinesOf(e)' \subseteq DOMAIN lines \union {n}
            /\ LinesOf(e) \subseteq DOMAIN lines
        BY <3>1 DEF LinesOf
      <4> QED
        BY <4>1, <4>2, <4>3
    <3>3. writing'[th] = "out"
      BY <1>3, <2>4 DEF EndLine, FileInv, WriterInv
    <3>4. ASSUME NEW e \in Entities, NEW other \in Scanning(e)',
                 writing'[other] # "out"
          PROVE  other \in Scanning(e) /\ scan[th].entity # e
      <4>1. other # th
        BY <3>3, <3>4
      <4>2. other \in Scanning(e)
        BY <2>1, <4>1 DEF Scanning
      <4>3. scan[th].entity # e
        BY <1>0, <2>2, <4>1, <4>2 DEF AloneInv, Scanning
      <4> QED
        BY <4>2, <4>3
    <3>5. ASSUME NEW e \in Entities, NEW other \in Scanning(e)',
                 writing'[other] # "out", NEW i \in LinesOf(e)'
          PROVE  WrittenEvents'[i][1] < event'[other][1]
      <4>1. other \in Scanning(e) /\ scan[th].entity # e /\ other # th
            /\ i \in LinesOf(e)
        BY <3>2, <3>3, <3>4, <3>5
      <4>2. writing[other] # "out" /\ event'[other] = event[other]
            /\ WrittenEvents'[i] = WrittenEvents[i]
        BY <2>1, <3>1, <3>5, <4>1 DEF Scanning, LinesOf
      <4> QED
        BY <1>0, <4>1, <4>2 DEF OrderInv
    <3>6. ASSUME NEW e \in Entities, NEW i \in LinesOf(e)', NEW j \in LinesOf(e)',
                 i < j
          PROVE  WrittenEvents'[i][1] < WrittenEvents'[j][1]
      <4>1. CASE i \in LinesOf(e) /\ j \in LinesOf(e)
        <5>1. WrittenEvents'[i] = WrittenEvents[i] /\ WrittenEvents'[j] = WrittenEvents[j]
          BY <3>1, <4>1 DEF LinesOf
        <5> QED
          BY <1>0, <3>6, <4>1, <5>1 DEF OrderInv
      <4>2. CASE i \in LinesOf(e) /\ j = n /\ scan[th].entity = e
        <5>1. WrittenEvents'[i] = WrittenEvents[i]
              /\ WrittenEvents'[j][1] = event[th][1]
          BY <3>1, <4>2 DEF LinesOf
        <5>2. th \in Scanning(e) /\ writing[th] # "out"
          BY <2>4, <4>2 DEF Scanning, EndLine
        <5> QED
          BY <1>0, <4>2, <5>1, <5>2 DEF OrderInv
      <4>3. CASE i = n
        <5>1. j \in DOMAIN lines \/ j = n
          BY <3>1 DEF LinesOf
        <5> QED
          BY <3>1, <3>6, <4>3, <5>1
      <4> QED
        BY <3>2, <4>1, <4>2, <4>3
    <3> QED
      BY <3>5, <3>6 DEF OrderInv
  <2> QED
    BY <2>3, <2>4
<1> QED
  BY <1>1, <1>2, <1>3 DEF Next, ScanStep

\* A scan that is alone with its tracker logs a loss only if there is one.
LEMMA SomeLost ==
  ASSUME NEW s \in Locals, NEW t, Stage(s, t), s.field = "lost"
  PROVE  s.n_lost # 0
<1>1. /\ s.number \in 0 .. TrackingMod - 1
      /\ s.before.tracking_number_count \in 0 .. TrackingMod - 1
  BY DEF Locals, ScannedTrackers
<1>2. /\ s.n_lost = Gap(s.before.tracking_number_count, s.number)
      /\ s.number # s.before.tracking_number_count
  BY DEF Stage, Reached
<1> QED
  BY <1>1, <1>2, TrackerAssumption DEF Gap

\* Between two lines the balance of a scan is kept; a line adds to both sides.
LEMMA EndLineTold ==
  ASSUME ScanTypeOK, FileInv, StampInv, is_open, NEW th \in Threads,
         Write(th), EndLine(th), NEW e \in Entities, scan[th].entity = e,
         Stage(scan[th], trackers[e]), Told(e, trackers[e], scan[th])
  PROVE  /\ Told(e, trackers[e], scan[th])'
         /\ scan'[th].entity = e
<1> DEFINE s == scan[th]
           t == trackers[e]
           r == scan'[th]
<1>1. s.at = "write" /\ r = AfterEvent(s) /\ trackers' = trackers
  BY DEF Write, ScanTypeOK, LocalsOK, Lock, StreamOut, EndLine
<1>2. s \in Locals /\ s.field \in LoggedUpdates /\ InScan(s, Latencies[sender])
  BY <1>1, IdleType DEF ScanTypeOK, LocalsOK, InScan, IsPlace
<1>3. s.field = "lost" => s.n_lost # 0
  BY <1>1, <1>2, SomeLost
<1>4. elog
  BY DEF StampInv
<1>5. r.entity = s.entity
  <2>1. \A at, field : Goto(s, at, field).entity = s.entity
    BY <1>2, GotoFields DEF SameMessage
  <2> QED
    BY <1>1, <1>4, <2>1, LoggedFirst DEF AfterEvent
<1>6. /\ Uncounted(s, "late") = 0 /\ Uncounted(s, "too_late") = 0
      /\ Unlogged(s) = IF s.field = "lost" THEN s.n_lost ELSE 0
  BY <1>1 DEF Uncounted, Unlogged
<1>7. /\ Uncounted(r, "late") = (IF s.field = "late" THEN 1 ELSE 0)
      /\ Uncounted(r, "too_late") = (IF s.field = "too_late" THEN 1 ELSE 0)
      /\ Unlogged(r) = 0
  <2>1. CASE s.field = "lost"
    <3>1. r = IfLate(s)
      BY <1>1, <2>1 DEF AfterEvent
    <3> QED
      BY <1>2, <1>4, <2>1, <3>1, NothingPending
  <2>2. CASE s.field # "lost"
    <3>1. r = Goto(s, "load", s.field)
      BY <1>1, <2>2 DEF AfterEvent
    <3>2. \A at, field : Goto(s, at, field).at = at /\ Goto(s, at, field).field = field
      BY <1>2, GotoFields
    <3>3. r.at = "load" /\ r.field = s.field
      BY <3>1, <3>2
    <3> QED
      BY <3>3 DEF Uncounted, Unlogged
  <2> QED
    BY <2>1, <2>2
<1>8. /\ Cardinality(LinesWith(e, "late"))' =
           Cardinality(LinesWith(e, "late")) + (IF s.field = "late" THEN 1 ELSE 0)
      /\ Cardinality(LinesWith(e, "too_late"))' =
           Cardinality(LinesWith(e, "too_late"))
           + (IF s.field = "too_late" THEN 1 ELSE 0)
      /\ LostLogged(e)' =
           LostLogged(e) + (IF s.field = "lost" THEN s.n_lost ELSE 0)
      /\ Cardinality(LinesWith(e, "late")) \in Nat
      /\ Cardinality(LinesWith(e, "too_late")) \in Nat
      /\ LostLogged(e) \in Int
  BY <1>2, <1>3, LineTells
<1>9. t.lost \in Nat /\ t.late \in Nat /\ t.too_late \in Nat
  BY <1>2 DEF ScanTypeOK, ScannedTrackers, InScan
<1>10. /\ Cardinality(LinesWith(e, "late")) = t.late
       /\ Cardinality(LinesWith(e, "too_late")) = t.too_late
       /\ LostLogged(e) + (IF s.field = "lost" THEN s.n_lost ELSE 0) = t.lost
  BY <1>6, <1>8, <1>9 DEF Told
<1>11. /\ Cardinality(LinesWith(e, "late"))' = t.late + Uncounted(r, "late")
       /\ Cardinality(LinesWith(e, "too_late"))' = t.too_late + Uncounted(r, "too_late")
       /\ LostLogged(e)' + Unlogged(r) = t.lost
  <2> HIDE DEF s, t, r
  <2> QED
    BY <1>7, <1>8, <1>9, <1>10
<1> QED
  BY <1>1, <1>5, <1>11 DEF Told

\* What lines tell, apart from the numbers told.
LEMMA ToldMeans ==
  ASSUME NEW e \in Entities, NEW th \in Threads
  PROVE  /\ Told(e, trackers[e], Idle)' <=>
              /\ Cardinality(LinesWith(e, "late"))' =
                   trackers'[e].late + Uncounted(Idle, "late")
              /\ Cardinality(LinesWith(e, "too_late"))' =
                   trackers'[e].too_late + Uncounted(Idle, "too_late")
              /\ LostLogged(e)' + Unlogged(Idle) = trackers'[e].lost
         /\ Told(e, trackers[e], scan[th])' <=>
              /\ Cardinality(LinesWith(e, "late"))' =
                   trackers'[e].late + Uncounted(scan'[th], "late")
              /\ Cardinality(LinesWith(e, "too_late"))' =
                   trackers'[e].too_late + Uncounted(scan'[th], "too_late")
              /\ LostLogged(e)' + Unlogged(scan'[th]) = trackers'[e].lost
BY DEF Told, Idle, Fresh, NewTracker, EmptyStat, NoSamples, Uncounted, Unlogged

LEMMA SameLines ==
  ASSUME UNCHANGED lines, NEW e
  PROVE  /\ Cardinality(LinesWith(e, "late"))' = Cardinality(LinesWith(e, "late"))
         /\ Cardinality(LinesWith(e, "too_late"))' = Cardinality(LinesWith(e, "too_late"))
         /\ LostLogged(e)' = LostLogged(e)
BY DEF LinesWith, LinesOf, LostLogged, WrittenEvents

LEMMA NumbersType ==
  ASSUME FileInv, StampInv, NEW e
  PROVE  /\ Cardinality(LinesWith(e, "late")) \in Nat
         /\ Cardinality(LinesWith(e, "too_late")) \in Nat
         /\ LostLogged(e) \in Int
<1>1. PICK S : lines \in Seq(S)
  BY DEF FileInv, LinesInv
<1>2. \A code : LinesWith(e, code) \subseteq DOMAIN lines
  BY DEF LinesWith, LinesOf
<1>3. \A code : IsFiniteSet(LinesWith(e, code))
  BY <1>1, <1>2, IndicesFinite
<1> DEFINE f == [i \in LinesWith(e, "lost") |-> LostBy(WrittenEvents[i][2])]
<1>4. IsFiniteSet(DOMAIN f) /\ \A i \in DOMAIN f : f[i] \in Int
  BY <1>2, <1>3 DEF StampInv
<1>5. Sum(f) \in Int
  <2> HIDE DEF f
  <2> QED
    BY <1>4, SumType
<1> QED
  BY <1>3, <1>5, FS_CardinalityType DEF LostLogged

LEMMA PendingType ==
  ASSUME NEW s \in Locals
  PROVE  /\ Unlogged(s) \in Nat
         /\ \A code : Uncounted(s, code) \in Nat
<1>1. s.n_lost \in 0 .. TrackingMod - 1
  BY DEF Locals
<1>2. s.n_lost \in Nat
  BY <1>1
<1> QED
  BY <1>2 DEF Unlogged, Uncounted

\* Every step keeps what the lines tell.
LEMMA ToldStep ==
  ASSUME ScanTypeOK, ScanTypeOK', FileInv, AloneInv, StageInv, MessagesOK,
         StampInv, ToldInv, [Next]_vars
  PROVE  ToldInv'
<1> SUFFICES ASSUME MutuallyExclusive', is_open' PROVE ToldInv'
  BY DEF ToldInv
<1>0. MutuallyExclusive /\ is_open /\ elog
  BY FixedChoices, FixedLogger DEF MutuallyExclusive, StampInv
<1>1. CASE UNCHANGED vars
  <2>1. UNCHANGED <<lines, trackers, scan>>
    BY <1>1 DEF vars, scan_vars, file_vars
  <2>2. ASSUME NEW e \in Entities
        PROVE  /\ Scanning(e)' = Scanning(e)
               /\ Told(e, trackers[e], Idle)' <=> Told(e, trackers[e], Idle)
               /\ \A th \in Threads : Told(e, trackers[e], scan[th])'
                                        <=> Told(e, trackers[e], scan[th])
    BY <2>1, SameLines, ToldMeans DEF Scanning, Told
  <2> QED
    BY <1>0, <2>2 DEF ToldInv, Scanning
<1>2. ASSUME NEW th \in Threads, NEW e \in Entities, NEW skipped \in Skips[sender],
             NEW latency \in Latencies[sender], Take(th, e, skipped, latency)
      PROVE  ToldInv'
  <2>1. UNCHANGED <<lines, trackers>>
    BY <1>2 DEF Take, file_vars
  <2>2. /\ scan[th] = Idle /\ scan'[th].entity = e
        /\ \A other \in Threads \ {th} : scan'[other] = scan[other]
        /\ \/ scan'[th].at = "compare" /\ scan'[th].field = ""
           \/ scan'[th].at = "load" /\ scan'[th].field = "stat"
    BY <1>2, TakeMoves DEF ScanTypeOK, ScannedTrackers
  <2>3. Scanning(e) = {}
    BY <1>0, <1>2 DEF Take, MayRun
  <2>4. /\ Uncounted(scan'[th], "late") = Uncounted(Idle, "late")
        /\ Uncounted(scan'[th], "too_late") = Uncounted(Idle, "too_late")
        /\ Unlogged(scan'[th]) = Unlogged(Idle)
    BY <2>2, IdleType DEF Uncounted, Unlogged
  <2>5. Told(e, trackers[e], scan[th])'
    <3>1. Told(e, trackers[e], Idle)
      BY <1>0, <2>3 DEF ToldInv
    <3> QED
      BY <2>1, <2>4, <3>1, SameLines, ToldMeans DEF Told
  <2>6. Scanning(e)' = {th}
    BY <2>2, <2>3 DEF Scanning
  <2>7. ASSUME NEW x \in Entities, x # e
        PROVE  /\ Scanning(x)' = Scanning(x)
               /\ Told(x, trackers[x], Idle) => Told(x, trackers[x], Idle)'
               /\ \A other \in Scanning(x) :
                    Told(x, trackers[x], scan[other])
                      => Told(x, trackers[x], scan[other])'
    <3>1. Scanning(x)' = Scanning(x)
      BY <2>2, <2>7, IdleType, ConcurrentScanAssumption DEF Scanning
    <3>2. \A other \in Scanning(x) : scan'[other] = scan[other]
      BY <2>2, <2>7, IdleType, ConcurrentScanAssumption DEF Scanning
    <3> QED
      BY <2>1, <3>1, <3>2, SameLines, ToldMeans DEF Told, Scanning
  <2> QED
    BY <1>0, <2>5, <2>6, <2>7 DEF ToldInv
<1>3. ASSUME NEW th \in Threads, ScanStep(th)
      PROVE  ToldInv'
  <2>1. \A other \in Threads \ {th} : scan'[other] = scan[other]
    BY <1>3, StepOthers
  <2>2. PICK e \in Entities : scan[th].entity = e
    <3>1. scan[th].at # "idle"
      BY <1>3 DEF ScanStep, Compare, Subtract, Expect, Load, Store, Log, Write
    <3> QED
      BY <3>1, IdleType DEF ScanTypeOK, LocalsOK, InScan
  <2>3. scan'[th] = Idle \/ scan'[th].entity = e
    <3>1. CASE LastStep(th)
      BY <3>1, LastStepEnds
    <3>2. CASE ~LastStep(th)
      BY <1>3, <2>2, <3>2, StepsOnward DEF Onward, SameMessage
    <3> QED
      BY <3>1, <3>2
  <2>4. Scanning(e) = {th}
    BY <1>0, <2>2 DEF AloneInv, Scanning
  <2>5. Told(e, trackers[e], scan[th])
    BY <1>0, <2>4 DEF ToldInv
  <2>6. Told(e, trackers[e], scan[th])'
    <3>1. CASE EndLine(th)
      <4>1. Write(th)
        BY <1>3, <3>1
           DEF ScanStep, Write, EndLine, Compare, Subtract, Expect, Load, Store, Log,
               ScanTypeOK, WritingOK
      <4> QED
        BY <1>0, <2>2, <2>5, <3>1, <4>1, EndLineTold DEF StageInv
    <3>2. CASE ~EndLine(th)
      <4>1. UNCHANGED lines /\ Keeps(scan[th], trackers[e], scan'[th], trackers'[e])
        BY <1>0, <1>3, <2>2, <3>2, StepKeeps
      <4>2. scan[th] \in Locals /\ scan'[th] \in Locals
        BY IdleType DEF ScanTypeOK, LocalsOK, InScan
      <4>3. /\ Unlogged(scan[th]) \in Nat /\ Unlogged(scan'[th]) \in Nat
            /\ Uncounted(scan[th], "late") \in Nat
            /\ Uncounted(scan'[th], "late") \in Nat
            /\ Uncounted(scan[th], "too_late") \in Nat
            /\ Uncounted(scan'[th], "too_late") \in Nat
        BY <4>2, PendingType
      <4>4. /\ trackers[e].lost \in Nat /\ trackers'[e].lost \in Nat
            /\ trackers[e].late \in Nat /\ trackers'[e].late \in Nat
            /\ trackers[e].too_late \in Nat /\ trackers'[e].too_late \in Nat
        BY DEF ScanTypeOK, ScannedTrackers
      <4>5. LostLogged(e) \in Int
        BY NumbersType
      <4>6. LostLogged(e) + Unlogged(scan'[th]) = trackers'[e].lost
        <5>1. LostLogged(e) + Unlogged(scan[th]) = trackers[e].lost
          BY <2>5 DEF Told
        <5>2. trackers[e].lost + Unlogged(scan'[th])
                = trackers'[e].lost + Unlogged(scan[th])
          BY <4>1 DEF Keeps
        <5> QED
          BY ONLY <4>3, <4>4, <4>5, <5>1, <5>2
      <4> QED
        BY <2>5, <4>1, <4>6, SameLines, ToldMeans DEF Told, Keeps
    <3> QED
      BY <3>1, <3>2
  <2>7. ASSUME NEW x \in Entities, x # e
        PROVE  /\ Scanning(x)' = Scanning(x)
               /\ Told(x, trackers[x], Idle) => Told(x, trackers[x], Idle)'
               /\ \A other \in Scanning(x) :
                    Told(x, trackers[x], scan[other])
                      => Told(x, trackers[x], scan[other])'
    <3>1. Scanning(x)' = Scanning(x)
      BY <2>1, <2>2, <2>3, <2>7, IdleType, ConcurrentScanAssumption DEF Scanning
    <3>2. \A other \in Scanning(x) : scan'[other] = scan[other]
      BY <2>1, <2>2, <2>7 DEF Scanning
    <3>3. trackers'[x] = trackers[x]
      BY <1>3, <2>2, <2>7, OtherTrackers
    <3>4. /\ Cardinality(LinesWith(x, "late"))' = Cardinality(LinesWith(x, "late"))
          /\ Cardinality(LinesWith(x, "too_late"))' = Cardinality(LinesWith(x, "too_late"))
          /\ LostLogged(x)' = LostLogged(x)
      <4>1. CASE EndLine(th)
        <5>1. scan[th] \in Locals
          BY IdleType DEF ScanTypeOK, LocalsOK, InScan
        <5> QED
          BY <2>2, <2>7, <4>1, <5>1, LineTells
      <4>2. CASE ~EndLine(th)
        BY <1>0, <1>3, <4>2, StepKeeps, SameLines
      <4> QED
        BY <4>1, <4>2
    <3> QED
      BY <3>1, <3>2, <3>3, <3>4, ToldMeans DEF Told, Scanning
  <2>8. /\ Scanning(e)' = {} => Told(e, trackers[e], Idle)'
        /\ \A other \in Threads : other \in Scanning(e)'
                                    => Told(e, trackers[e], scan[other])'
    <3>1. Scanning(e)' \subseteq {th}
      BY <2>1, <2>4 DEF Scanning
    <3>2. Scanning(e)' = {} => scan'[th] = Idle
      BY <2>3 DEF Scanning
    <3>3. Scanning(e)' = {} => Told(e, trackers[e], Idle)'
      BY <2>6, <3>2, ToldMeans
    <3> QED
      BY <2>6, <3>1, <3>3
  <2> QED
    BY <1>0, <2>7, <2>8 DEF ToldInv, Scanning
<1> QED
  BY <1>1, <1>2, <1>3 DEF Next, ScanStep

\* Between two scans the events file tells the counters of an entity of a
\* mutually exclusive group, whatever the threads of other entities write in
\* between: as many late and too late events as messages counted so, and, in the
\* order of their stamps, lost events from which the lost messages can be had,
\* one for each event that names a single message and one fewer than it names
\* for each that names several (Tracker::scan and EventsLogger::write_event).
THEOREM EventsTellCounters == Spec => []EventsMatchCounters
<1> DEFINE I == /\ ScanTypeOK /\ FileInv /\ MessagesOK /\ AloneInv /\ StageInv
                /\ StampInv /\ OrderInv /\ ToldInv
<1>1. Init => I
  BY TypeInit, FileInit, MessagesInit, AloneInit, ToldInit
<1>2. I /\ [Next]_vars => I'
  <2> SUFFICES ASSUME I, [Next]_vars PROVE I'
    OBVIOUS
  <2>1. ScanTypeOK' /\ FileInv' /\ MessagesOK' /\ AloneInv' /\ StageInv'
    BY TypeStep, FileStep, MessagesStep, AloneStep
  <2>2. StampInv'
    BY StampsKept
  <2>3. OrderInv'
    BY <2>1, OrderStep
  <2>4. ToldInv'
    BY <2>1, ToldStep
  <2> QED
    BY <2>1, <2>2, <2>3, <2>4
<1>3. I => EventsMatchCounters
  <2> SUFFICES ASSUME I, NEW e \in Entities, Quiet(e), is_open
               PROVE  /\ Cardinality(LinesWith(e, "late")) = trackers[e].late
                      /\ Cardinality(LinesWith(e, "too_late")) = trackers[e].too_late
                      /\ LostLogged(e) = trackers[e].lost
                      /\ \A i, j \in LinesOf(e) :
                           i < j => WrittenEvents[i][1] < WrittenEvents[j][1]
    BY DEF EventsMatchCounters
  <2>1. Told(e, trackers[e], Idle)
    BY DEF ToldInv, Quiet
  <2>2. /\ Uncounted(Idle, "late") = 0 /\ Uncounted(Idle, "too_late") = 0
        /\ Unlogged(Idle) = 0
    BY IdleType DEF Uncounted, Unlogged
  <2>3. /\ trackers[e].late \in Nat /\ trackers[e].too_late \in Nat
        /\ LostLogged(e) \in Int
    BY NumbersType DEF ScanTypeOK, ScannedTrackers
  <2>4. /\ Cardinality(LinesWith(e, "late")) = trackers[e].late
        /\ Cardinality(LinesWith(e, "too_late")) = trackers[e].too_late
        /\ LostLogged(e) = trackers[e].lost
    BY <2>1, <2>2, <2>3 DEF Told
  <2> QED
    BY <2>4 DEF OrderInv, Quiet
<1> QED
  <2> HIDE DEF I
  <2> QED
    BY <1>1, <1>2, <1>3, PTL DEF Spec

-----------------------------------------------------------------------------
(* The statistics: the samples, their sums and extremes.                     *)

\* The squares of the samples.
Squares(x) == [i \in DOMAIN x |-> x[i] * x[i]]
\* n^2 times the squared distances from the mean when the samples are n.
Distances(x, n, total) == [i \in DOMAIN x |-> (n * x[i] - total) * (n * x[i] - total)]

\* The sum of a sequence's first values grows by the next.
LEMMA SumNext ==
  ASSUME NEW k \in Nat, NEW f, DOMAIN f = 1 .. k, \A i \in 1 .. k : f[i] \in Int,
         NEW h, DOMAIN h = 1 .. k + 1, \A i \in 1 .. k : h[i] = f[i],
         h[k + 1] \in Int
  PROVE  Sum(f) \in Int /\ Sum(h) = Sum(f) + h[k + 1]
<1>1. IsFiniteSet(DOMAIN f)
  BY FS_Interval
<1>2. DOMAIN h = DOMAIN f \union {k + 1} /\ k + 1 \notin DOMAIN f
  OBVIOUS
<1> QED
  BY <1>1, <1>2, SumAdd, SumType

LEMMA OneMoreSquare ==
  ASSUME NEW n \in Int, NEW T \in Int, NEW k \in Int, NEW s1 \in Int, NEW s2 \in Int,
         NEW x \in Int
  PROVE  (n * n) * s2 - 2 * ((n * T) * s1) + k * (T * T) + (n * x - T) * (n * x - T)
           = (n * n) * (s2 + x * x) - 2 * ((n * T) * (s1 + x)) + (k + 1) * (T * T)
<1>1. (n * x - T) * (n * x - T) = (n * n) * (x * x) - 2 * ((n * T) * x) + T * T
  OBVIOUS
<1>2. (n * n) * (s2 + x * x) = (n * n) * s2 + (n * n) * (x * x)
  OBVIOUS
<1>3. (n * T) * (s1 + x) = (n * T) * s1 + (n * T) * x
  OBVIOUS
<1>4. (k + 1) * (T * T) = k * (T * T) + T * T
  OBVIOUS
<1>5. /\ (n * n) * s2 \in Int /\ (n * n) * (x * x) \in Int /\ (n * T) * s1 \in Int
      /\ (n * T) * x \in Int /\ k * (T * T) \in Int /\ T * T \in Int
  OBVIOUS
<1> QED
  BY <1>1, <1>2, <1>3, <1>4, <1>5

\* The distances from any point, from the sums of the samples and their squares.
LEMMA SumOfDistances ==
  ASSUME NEW m \in Nat, NEW x \in [1 .. m -> Int], NEW n \in Int, NEW T \in Int
  PROVE  Sum(Distances(x, n, T)) =
           (n * n) * Sum(Squares(x)) - 2 * ((n * T) * Sum(x)) + m * (T * T)
<1> DEFINE D(k) == [i \in 1 .. k |-> (n * x[i] - T) * (n * x[i] - T)]
           Q(k) == [i \in 1 .. k |-> x[i] * x[i]]
           P(k) == [i \in 1 .. k |-> x[i]]
           Good(k) == Sum(D(k)) = (n * n) * Sum(Q(k)) - 2 * ((n * T) * Sum(P(k)))
                                    + k * (T * T)
           S == {k \in Nat : k <= m => Good(k)}
<1>1. 0 \in S
  <2>1. Sum(D(0)) = 0 /\ Sum(Q(0)) = 0 /\ Sum(P(0)) = 0
    <3>1. DOMAIN D(0) = {} /\ DOMAIN Q(0) = {} /\ DOMAIN P(0) = {}
      OBVIOUS
    <3> HIDE DEF D, Q, P
    <3> QED
      BY <3>1, SumEmpty
  <2>2. n * n \in Int /\ n * T \in Int /\ T * T \in Int
    OBVIOUS
  <2> HIDE DEF D, Q, P
  <2> QED
    BY <2>1, <2>2
<1>2. ASSUME NEW k \in Nat, k \in S PROVE k + 1 \in S
  <2> SUFFICES ASSUME k + 1 <= m PROVE Good(k + 1)
    OBVIOUS
  <2> DEFINE y == x[k + 1]
  <2>1. y \in Int /\ (n * y - T) * (n * y - T) \in Int /\ y * y \in Int
    OBVIOUS
  <2>2. \A i \in 1 .. k : x[i] \in Int
    OBVIOUS
  <2>3. \A i \in 1 .. k : (n * x[i] - T) * (n * x[i] - T) \in Int /\ x[i] * x[i] \in Int
    BY <2>2
  <2>4. /\ Sum(D(k)) \in Int
        /\ Sum(D(k + 1)) = Sum(D(k)) + (n * y - T) * (n * y - T)
    <3>1. /\ DOMAIN D(k) = 1 .. k /\ \A i \in 1 .. k : D(k)[i] \in Int
          /\ DOMAIN D(k + 1) = 1 .. k + 1 /\ \A i \in 1 .. k : D(k + 1)[i] = D(k)[i]
          /\ D(k + 1)[k + 1] = (n * y - T) * (n * y - T)
      BY <2>3
    <3> HIDE DEF D
    <3> QED
      BY <2>1, <3>1, SumNext
  <2>5. /\ Sum(Q(k)) \in Int /\ Sum(Q(k + 1)) = Sum(Q(k)) + y * y
    <3>1. /\ DOMAIN Q(k) = 1 .. k /\ \A i \in 1 .. k : Q(k)[i] \in Int
          /\ DOMAIN Q(k + 1) = 1 .. k + 1 /\ \A i \in 1 .. k : Q(k + 1)[i] = Q(k)[i]
          /\ Q(k + 1)[k + 1] = y * y
      BY <2>3
    <3> HIDE DEF Q
    <3> QED
      BY <2>1, <3>1, SumNext
  <2>6. /\ Sum(P(k)) \in Int /\ Sum(P(k + 1)) = Sum(P(k)) + y
    <3>1. /\ DOMAIN P(k) = 1 .. k /\ \A i \in 1 .. k : P(k)[i] \in Int
          /\ DOMAIN P(k + 1) = 1 .. k + 1 /\ \A i \in 1 .. k : P(k + 1)[i] = P(k)[i]
          /\ P(k + 1)[k + 1] = y
      BY <2>2
    <3> HIDE DEF P
    <3> QED
      BY <2>1, <3>1, SumNext
  <2>7. Sum(D(k)) = (n * n) * Sum(Q(k)) - 2 * ((n * T) * Sum(P(k))) + k * (T * T)
    BY <1>2
  <2> HIDE DEF D, Q, P, y
  <2>8. ASSUME NEW s1 \in Int, NEW s2 \in Int
        PROVE  (n * n) * s2 - 2 * ((n * T) * s1) + k * (T * T)
                 + (n * y - T) * (n * y - T)
               = (n * n) * (s2 + y * y) - 2 * ((n * T) * (s1 + y)) + (k + 1) * (T * T)
    <3>1. n \in Int /\ T \in Int /\ k \in Int /\ y \in Int
      BY <2>1
    <3> QED
      BY ONLY <3>1, s1 \in Int, s2 \in Int, OneMoreSquare
  <2> QED
    BY <2>4, <2>5, <2>6, <2>7, <2>8
<1>3. \A k \in Nat : k \in S
  <2> HIDE DEF S
  <2> QED
    BY <1>1, <1>2, SetInduction
<1>4. Good(m)
  <2>1. m \in S /\ m <= m
    BY <1>3
  <2> HIDE DEF Good
  <2> QED
    BY <2>1
<1>5. D(m) = Distances(x, n, T) /\ Q(m) = Squares(x) /\ P(m) = x
  BY DEF Distances, Squares
<1> HIDE DEF D, Q, P
<1> QED
  BY <1>4, <1>5

\* A Stat of the samples x: count, sums and extremes.
StatOf(stat, x) ==
  /\ stat \in ShiftedStats
  /\ SumsTo(stat, Sum(x), Sum(Squares(x)))
  /\ DOMAIN x = 1 .. stat.n
  /\ stat.n > 0 =>
       /\ \E i \in 1 .. stat.n : x[i] = stat.max
       /\ \E i \in 1 .. stat.n : x[i] = stat.min
       /\ \A i \in 1 .. stat.n : x[i] \in stat.min .. stat.max

\* One more sample.
LEMMA StatOfMore ==
  ASSUME NEW stat, NEW x, StatOf(stat, x), \A i \in DOMAIN x : x[i] \in Int,
         NEW z, DOMAIN z = 1 .. stat.n + 1, \A i \in DOMAIN x : z[i] = x[i],
         z[stat.n + 1] \in Int
  PROVE  StatOf(WithSample(stat, z[stat.n + 1]), z)
<1> DEFINE n == stat.n
           y == z[n + 1]
           new == WithSample(stat, y)
<1>1. n \in Nat /\ stat.max \in Int /\ stat.min \in Int /\ y \in Int
  BY DEF StatOf, ShiftedStats
<1>2. DOMAIN x = 1 .. n /\ DOMAIN z = 1 .. n + 1
  BY DEF StatOf
<1>3. Sum(x) \in Int /\ Sum(z) = Sum(x) + y
  <2>1. /\ \A i \in 1 .. n : x[i] \in Int
        /\ \A i \in 1 .. n : z[i] = x[i]
    BY <1>2
  <2> HIDE DEF n
  <2> QED
    BY <1>1, <1>2, <2>1, SumNext
<1>4. Sum(Squares(x)) \in Int /\ Sum(Squares(z)) = Sum(Squares(x)) + y * y
  <2>1. DOMAIN Squares(x) = 1 .. n /\ DOMAIN Squares(z) = 1 .. n + 1
    BY <1>2 DEF Squares
  <2>2. \A i \in 1 .. n : /\ Squares(x)[i] = x[i] * x[i] /\ x[i] \in Int
                         /\ Squares(z)[i] = z[i] * z[i] /\ z[i] = x[i]
    BY <1>1, <1>2 DEF Squares
  <2>3. /\ \A i \in 1 .. n : Squares(x)[i] \in Int
        /\ \A i \in 1 .. n : Squares(z)[i] = Squares(x)[i]
    BY <2>2
  <2>4. Squares(z)[n + 1] = y * y /\ y * y \in Int
    BY <1>1, <1>2 DEF Squares
  <2> HIDE DEF n, y
  <2> QED
    BY <1>1, <2>1, <2>3, <2>4, SumNext
<1>5. /\ new \in ShiftedStats
      /\ SumsTo(new, Sum(x) + y, Sum(Squares(x)) + y * y)
  <2>1. stat \in ShiftedStats /\ SumsTo(stat, Sum(x), Sum(Squares(x)))
    BY DEF StatOf
  <2> HIDE DEF y
  <2> QED
    BY <1>1, <1>3, <1>4, <2>1, ShiftCancels
<1>6. /\ new.n = n + 1
      /\ new.max = IF n = 0 \/ y > stat.max THEN y ELSE stat.max
      /\ new.min = IF n = 0 \/ y < stat.min THEN y ELSE stat.min
  BY DEF WithSample
<1>7. /\ \E i \in 1 .. n + 1 : z[i] = new.max
      /\ \E i \in 1 .. n + 1 : z[i] = new.min
      /\ \A i \in 1 .. n + 1 : z[i] \in new.min .. new.max
  <2>1. CASE n = 0
    <3>1. new.max = y /\ new.min = y
      BY <1>6, <2>1
    <3>2. 1 \in 1 .. n + 1 /\ z[1] = y /\ \A i \in 1 .. n + 1 : i = 1
      BY <2>1
    <3> HIDE DEF n, y, new
    <3> QED
      BY <1>1, <3>1, <3>2
  <2>2. CASE n # 0
    <3>1. /\ \E i \in 1 .. n : x[i] = stat.max
          /\ \E i \in 1 .. n : x[i] = stat.min
          /\ \A i \in 1 .. n : x[i] \in stat.min .. stat.max
      BY <1>1, <2>2 DEF StatOf
    <3>2. \A i \in 1 .. n : z[i] = x[i] /\ x[i] \in Int
      BY <1>2
    <3>3. \A i \in 1 .. n + 1 : i \in 1 .. n \/ i = n + 1
      BY <1>1
    <3>4. 1 .. n \subseteq 1 .. n + 1 /\ n + 1 \in 1 .. n + 1 /\ z[n + 1] = y
      BY <1>1
    <3> HIDE DEF n, y, new
    <3>5. \E i \in 1 .. n + 1 : z[i] = new.max
      BY <1>6, <2>2, <3>1, <3>2, <3>4
    <3>6. \E i \in 1 .. n + 1 : z[i] = new.min
      BY <1>6, <2>2, <3>1, <3>2, <3>4
    <3>7. ASSUME NEW i \in 1 .. n + 1 PROVE z[i] \in new.min .. new.max
      <4>1. CASE i = n + 1
        BY <1>1, <1>6, <3>4, <4>1
      <4>2. CASE i \in 1 .. n
        <5>1. z[i] = x[i] /\ x[i] \in Int /\ stat.min <= x[i] /\ x[i] <= stat.max
          BY <3>1, <3>2, <4>2
        <5>2. new.min \in Int /\ new.min <= stat.min
          BY <1>1, <1>6, <2>2
        <5>3. new.max \in Int /\ stat.max <= new.max
          BY <1>1, <1>6, <2>2
        <5> QED
          BY <1>1, <5>1, <5>2, <5>3
      <4> QED
        BY <3>3, <4>1, <4>2
    <3> QED
      BY <3>5, <3>6, <3>7
  <2> QED
    BY <2>1, <2>2
<1> HIDE DEF n, y, new
<1>8. DOMAIN z = 1 .. new.n
  BY <1>2, <1>6
<1>9. StatOf(new, z)
  BY <1>3, <1>4, <1>5, <1>6, <1>7, <1>8 DEF StatOf
<1> QED
  BY ONLY <1>9 DEF n, y, new

\* The samples, in microseconds, of the latencies heard.
SampleOf(q) == [i \in DOMAIN q |-> LatencyUs(q[i])]

\* The Stat of an entity before the scan under way is that of the latencies
\* scanned so far.
ExactInv ==
  MutuallyExclusive =>
    \A e \in Entities :
      /\ Scanning(e) = {} => StatOf(trackers[e].stat, SampleOf(heard[e]))
      /\ \A th \in Scanning(e) : StatOf(scan[th].before.stat, SampleOf(heard[e]))

\* Two domains of sequences are equal for equal lengths only.
LEMMA IntervalEnd ==
  ASSUME NEW a \in Nat, NEW b \in Nat, 1 .. a = 1 .. b
  PROVE  a = b
<1>1. a > b => a \in 1 .. a /\ a \notin 1 .. b
  OBVIOUS
<1>2. b > a => b \in 1 .. b /\ b \notin 1 .. a
  OBVIOUS
<1> QED
  BY <1>1, <1>2

LEMMA SampleType ==
  ASSUME NEW s \in Senders, NEW q \in Seq(Latencies[s])
  PROVE  /\ Len(q) \in Nat /\ DOMAIN SampleOf(q) = 1 .. Len(q)
         /\ \A i \in DOMAIN SampleOf(q) : SampleOf(q)[i] \in Nat
<1>1. Len(q) \in Nat /\ DOMAIN q = 1 .. Len(q) /\ \A i \in DOMAIN q : q[i] \in Latencies[s]
  OBVIOUS
<1> QED
  BY <1>1, LatencyType DEF SampleOf

\* One more latency.
LEMMA OneMoreLatency ==
  ASSUME NEW s \in Senders, NEW q \in Seq(Latencies[s]), NEW l \in Latencies[s],
         NEW stat, StatOf(stat, SampleOf(q))
  PROVE  StatOf(WithSample(stat, LatencyUs(l)), SampleOf(Append(q, l)))
<1> DEFINE z == SampleOf(Append(q, l))
<1>1. /\ Append(q, l) \in Seq(Latencies[s]) /\ Len(Append(q, l)) = Len(q) + 1
      /\ \A i \in 1 .. Len(q) : Append(q, l)[i] = q[i]
      /\ Append(q, l)[Len(q) + 1] = l
  BY AppendProperties
<1>2. /\ Len(q) \in Nat /\ DOMAIN SampleOf(q) = 1 .. Len(q) /\ DOMAIN q = 1 .. Len(q)
      /\ \A i \in DOMAIN SampleOf(q) : SampleOf(q)[i] \in Int
  BY SampleType
<1>3. stat.n \in Nat /\ DOMAIN SampleOf(q) = 1 .. stat.n
  BY DEF StatOf, ShiftedStats
<1>4. stat.n = Len(q)
  BY <1>2, <1>3, IntervalEnd
<1>5. /\ DOMAIN z = 1 .. stat.n + 1
      /\ \A i \in 1 .. Len(q) + 1 : z[i] = LatencyUs(Append(q, l)[i])
  BY <1>1, <1>2, <1>4 DEF SampleOf
<1>6. \A i \in DOMAIN SampleOf(q) : z[i] = SampleOf(q)[i]
  BY <1>1, <1>2, <1>5 DEF SampleOf
<1>7. z[stat.n + 1] = LatencyUs(l) /\ LatencyUs(l) \in Int
  <2>1. Len(q) + 1 \in 1 .. Len(q) + 1
    BY <1>2
  <2> HIDE DEF z
  <2> QED
    BY <1>1, <1>4, <1>5, <2>1, LatencyType
<1>8. StatOf(WithSample(stat, z[stat.n + 1]), z)
  <2> DEFINE x == SampleOf(q)
  <2>1. StatOf(stat, x) /\ \A i \in DOMAIN x : x[i] \in Int
    BY <1>2
  <2>2. /\ DOMAIN z = 1 .. stat.n + 1 /\ z[stat.n + 1] \in Int
        /\ \A i \in DOMAIN x : z[i] = x[i]
    BY <1>5, <1>6, <1>7
  <2> HIDE DEF x, z
  <2> QED
    BY ONLY <2>1, <2>2, StatOfMore
<1> QED
  BY <1>7, <1>8 DEF z

LEMMA ExactInit == Init => ExactInv
<1> SUFFICES ASSUME Init, NEW e \in Entities
             PROVE  /\ Scanning(e) = {}
                    /\ StatOf(trackers[e].stat, SampleOf(heard[e]))
  BY DEF ExactInv
<1>1. Scanning(e) = {}
  BY IdleType, ConcurrentScanAssumption DEF Init, Scanning
<1>2. trackers[e].stat = NoSamples
  <2>1. PICK enabled \in BOOLEAN : trackers[e] = Fresh(enabled)
    BY DEF Init
  <2>2. Fresh(enabled).stat = NoSamples
    BY DEF Fresh, NewTracker
  <2> QED
    BY <2>1, <2>2
<1> DEFINE x == SampleOf(heard[e])
<1>3. DOMAIN x = {}
  BY DEF Init, SampleOf
<1>4. DOMAIN Squares(x) = {}
  BY <1>3 DEF Squares
<1>5. Sum(x) = 0 /\ Sum(Squares(x)) = 0
  <2> HIDE DEF x
  <2> QED
    BY <1>3, <1>4, SumEmpty
<1>6. NoSamples.n = 0
  BY DEF NoSamples
<1> HIDE DEF x
<1>7. StatOf(NoSamples, x)
  BY <1>3, <1>5, <1>6, NoSamplesSumToNothing DEF StatOf
<1> QED
  BY <1>1, <1>2, <1>7 DEF x

\* The store of the statistics adds the latency of the scan.
LEMMA ExactStep ==
  ASSUME ScanTypeOK, MessagesOK, AloneInv, StageInv, ExactInv, [Next]_vars
  PROVE  ExactInv'
<1> SUFFICES ASSUME MutuallyExclusive' PROVE ExactInv'
  BY DEF ExactInv
<1>0. MutuallyExclusive
  BY FixedChoices DEF MutuallyExclusive
<1>1. CASE UNCHANGED vars
  BY <1>0, <1>1 DEF vars, scan_vars, ExactInv, Scanning
<1>2. ASSUME NEW th \in Threads, NEW e \in Entities, NEW skipped \in Skips[sender],
             NEW latency \in Latencies[sender], Take(th, e, skipped, latency)
      PROVE  ExactInv'
  <2>1. UNCHANGED <<trackers, heard>>
    BY <1>2 DEF Take
  <2>2. /\ scan[th] = Idle /\ scan'[th].entity = e
        /\ scan'[th].before = trackers[e]
        /\ \A other \in Threads \ {th} : scan'[other] = scan[other]
    BY <1>2, TakeMoves
  <2>3. Scanning(e) = {}
    BY <1>0, <1>2 DEF Take, MayRun
  <2>4. Scanning(e)' = {th}
    BY <2>2, <2>3 DEF Scanning
  <2>5. StatOf(scan'[th].before.stat, SampleOf(heard'[e]))
    BY <1>0, <2>1, <2>2, <2>3 DEF ExactInv
  <2>6. ASSUME NEW x \in Entities, x # e
        PROVE  /\ Scanning(x)' = Scanning(x)
               /\ \A other \in Scanning(x) : scan'[other] = scan[other]
    BY <2>2, <2>6, IdleType, ConcurrentScanAssumption DEF Scanning
  <2> QED
    BY <1>0, <2>1, <2>4, <2>5, <2>6 DEF ExactInv
<1>3. ASSUME NEW th \in Threads, ScanStep(th)
      PROVE  ExactInv'
  <2>1. \A other \in Threads \ {th} : scan'[other] = scan[other]
    BY <1>3, StepOthers
  <2>2. PICK e \in Entities : scan[th].entity = e
    <3>1. scan[th].at # "idle"
      BY <1>3 DEF ScanStep, Compare, Subtract, Expect, Load, Store, Log, Write
    <3> QED
      BY <3>1, IdleType DEF ScanTypeOK, LocalsOK, InScan
  <2>3. Scanning(e) = {th}
    BY <1>0, <2>2 DEF AloneInv, Scanning
  <2>4. StatOf(scan[th].before.stat, SampleOf(heard[e]))
    BY <1>0, <2>3 DEF ExactInv
  <2>5. CASE ~LastStep(th)
    <3>1. UNCHANGED heard
      BY <1>3, <2>5, StepOthers
    <3>2. /\ scan'[th].entity = e /\ scan'[th].before = scan[th].before
      BY <1>3, <2>2, <2>5, StepsOnward DEF Onward, SameMessage
    <3>3. \A x \in Entities : Scanning(x)' = Scanning(x)
      BY <2>1, <2>2, <3>2 DEF Scanning
    <3>4. ASSUME NEW x \in Entities, x # e
          PROVE  /\ trackers'[x] = trackers[x]
                 /\ \A other \in Scanning(x) : scan'[other] = scan[other]
      BY <1>3, <2>1, <2>2, <3>4, OtherTrackers DEF Scanning
    <3>5. StatOf(scan'[th].before.stat, SampleOf(heard'[e]))
      BY <2>4, <3>1, <3>2
    <3>6. ASSUME NEW x \in Entities
          PROVE  /\ Scanning(x)' = {} => StatOf(trackers'[x].stat, SampleOf(heard'[x]))
                 /\ \A other \in Scanning(x)' :
                      StatOf(scan'[other].before.stat, SampleOf(heard'[x]))
      <4>1. CASE x = e
        BY <2>3, <3>3, <3>5, <4>1
      <4>2. CASE x # e
        BY <1>0, <3>1, <3>3, <3>4, <4>2 DEF ExactInv
      <4> QED
        BY <4>1, <4>2
    <3> QED
      BY <3>6 DEF ExactInv
  <2>6. CASE LastStep(th)
    <3> DEFINE s == scan[th]
               t == trackers[e]
    <3>1. /\ scan'[th] = Idle
          /\ heard' = [heard EXCEPT ![e] = Append(@, s.latency)]
      BY <2>2, <2>6, LastStepEnds
    <3>2. /\ heard'[e] = Append(heard[e], s.latency)
          /\ \A x \in Entities \ {e} : heard'[x] = heard[x]
      BY <3>1 DEF ScanTypeOK
    <3>3. Scanning(e)' = {}
      BY <2>1, <2>3, <3>1, IdleType, ConcurrentScanAssumption DEF Scanning
    <3>4. trackers'[e].stat = WithSample(s.before.stat, LatencyUs(s.latency))
      <4>1. Store(th) /\ s.at = "store" /\ s.field = "received"
        BY <2>6 DEF LastStep, Store
      <4>2. s \in Locals /\ t \in ScannedTrackers /\ Stage(s, t)
        BY <1>0, <2>2, <4>1, IdleType DEF ScanTypeOK, LocalsOK, InScan, StageInv
      <4>3. trackers'[e] = StoredTo(s, t)
        BY <2>2, <4>1, StoreStores
      <4> HIDE DEF s, t
      <4>4. IsStored(s, t, trackers'[e])
        BY <4>1, <4>2, <4>3, StoredAlone DEF Updates
      <4>5. trackers'[e].stat = t.stat
        BY <4>1, <4>4 DEF IsStored
      <4>6. Midway(s, t, Accounted \union {"late", "too_late", "stat"})
        BY <4>1, <4>2, BeforePlaces DEF Stage, Reached
      <4>7. t.stat = WithSample(s.before.stat, LatencyUs(s.latency))
        BY <4>6 DEF Midway
      <4> QED
        BY <4>5, <4>7
    <3>5. s.latency \in Latencies[sender] /\ sender \in Senders
          /\ heard[e] \in Seq(Latencies[sender])
      BY <2>6, IdleType DEF LastStep, Store, ScanTypeOK, LocalsOK, InScan
    <3>6. StatOf(trackers'[e].stat, SampleOf(heard'[e]))
      BY <2>4, <3>2, <3>4, <3>5, OneMoreLatency
    <3>7. ASSUME NEW x \in Entities, x # e
          PROVE  /\ trackers'[x] = trackers[x] /\ Scanning(x)' = Scanning(x)
                 /\ \A other \in Scanning(x) : scan'[other] = scan[other]
      <4>1. trackers'[x] = trackers[x]
        BY <1>3, <2>2, <3>7, OtherTrackers
      <4>2. Scanning(x)' = Scanning(x)
        BY <2>1, <2>2, <3>1, <3>7, IdleType, ConcurrentScanAssumption DEF Scanning
      <4>3. \A other \in Scanning(x) : scan'[other] = scan[other]
        BY <2>1, <2>2, <3>7 DEF Scanning
      <4> QED
        BY <4>1, <4>2, <4>3
    <3>8. ASSUME NEW x \in Entities
          PROVE  /\ Scanning(x)' = {} => StatOf(trackers'[x].stat, SampleOf(heard'[x]))
                 /\ \A other \in Scanning(x)' :
                      StatOf(scan'[other].before.stat, SampleOf(heard'[x]))
      <4>1. CASE x = e
        BY <3>3, <3>6, <4>1
      <4>2. CASE x # e
        BY <1>0, <3>2, <3>7, <4>2 DEF ExactInv
      <4> QED
        BY <4>1, <4>2
    <3> QED
      BY <3>8 DEF ExactInv
  <2> QED
    BY <2>5, <2>6
<1> QED
  BY <1>1, <1>2, <1>3 DEF Next, ScanStep

\* A Stat of some samples has their count, extremes, mean and variance.
LEMMA StatOfIsExact ==
  ASSUME NEW m \in Nat, NEW x \in [1 .. m -> Int], NEW stat, StatOf(stat, x)
  PROVE  /\ stat.n = m
         /\ m > 0 =>
              /\ \E i \in 1 .. m : x[i] = stat.max
              /\ \E i \in 1 .. m : x[i] = stat.min
              /\ \A i \in 1 .. m : x[i] \in stat.min .. stat.max
              /\ MeanTimesN(stat) = Sum(x)
              /\ m * VarianceTimesNN(stat) = Sum(Distances(x, m, Sum(x)))
<1>1. stat \in ShiftedStats /\ stat.n \in Nat /\ DOMAIN x = 1 .. stat.n
  BY DEF StatOf, ShiftedStats
<1>2. stat.n = m
  BY <1>1, IntervalEnd
<1>3. Sum(x) \in Int /\ Sum(Squares(x)) \in Int
  <2>1. IsFiniteSet(DOMAIN x) /\ \A i \in DOMAIN x : x[i] \in Int
    BY FS_Interval
  <2>2. DOMAIN Squares(x) = DOMAIN x /\ \A i \in DOMAIN x : Squares(x)[i] \in Int
    BY <2>1 DEF Squares
  <2> QED
    BY <2>1, <2>2, SumType
<1>4. SumsTo(stat, Sum(x), Sum(Squares(x)))
  BY DEF StatOf
<1>5. /\ MeanTimesN(stat) = Sum(x)
      /\ VarianceTimesNN(stat) = m * Sum(Squares(x)) - Sum(x) * Sum(x)
  BY <1>1, <1>2, <1>3, <1>4, ShiftCancels
<1>6. Sum(Distances(x, m, Sum(x))) =
        (m * m) * Sum(Squares(x)) - 2 * ((m * Sum(x)) * Sum(x)) + m * (Sum(x) * Sum(x))
  <2>1. ASSUME NEW total \in Int
        PROVE  Sum(Distances(x, m, total)) =
                 (m * m) * Sum(Squares(x)) - 2 * ((m * total) * Sum(x))
                   + m * (total * total)
    BY SumOfDistances
  <2> QED
    BY ONLY <1>3, <2>1
<1>7. ASSUME NEW s1 \in Int, NEW s2 \in Int
      PROVE  m * (m * s2 - s1 * s1) = (m * m) * s2 - 2 * ((m * s1) * s1) + m * (s1 * s1)
  <2>1. m * (m * s2 - s1 * s1) = (m * m) * s2 - m * (s1 * s1)
    OBVIOUS
  <2>2. (m * s1) * s1 = m * (s1 * s1) /\ m * (s1 * s1) \in Int /\ (m * m) * s2 \in Int
    OBVIOUS
  <2> QED
    BY <2>1, <2>2
<1>8. m * VarianceTimesNN(stat) = Sum(Distances(x, m, Sum(x)))
  BY ONLY <1>3, <1>5, <1>6, <1>7
<1> QED
  BY <1>2, <1>5, <1>8 DEF StatOf

\* Whatever first sample the distances are measured from, the Stat of an entity of
\* a mutually exclusive group has the count, extremes, mean and variance of all
\* latencies scanned, by their definitions (Stat::add_sample, mean, stddev).
THEOREM StatisticsAreExact == Spec => []StatisticsExact
<1> DEFINE I == ScanTypeOK /\ FileInv /\ MessagesOK /\ AloneInv /\ StageInv /\ ExactInv
<1>1. Init => I
  BY TypeInit, FileInit, MessagesInit, AloneInit, ExactInit
<1>2. I /\ [Next]_vars => I'
  BY TypeStep, FileStep, MessagesStep, AloneStep, ExactStep
<1>3. I => StatisticsExact
  <2> SUFFICES ASSUME I PROVE StatisticsExact
    OBVIOUS
  <2> HIDE DEF I
  <2>1. ASSUME NEW e \in Entities, Quiet(e)
        PROVE  LET stat == trackers[e].stat
                   sample == [i \in DOMAIN heard[e] |-> LatencyUs(heard[e][i])]
                   n == Len(heard[e])
                   total == Sum(sample)
               IN /\ stat.n = n
                  /\ n > 0 =>
                       /\ \E i \in 1 .. n : sample[i] = stat.max
                       /\ \E i \in 1 .. n : sample[i] = stat.min
                       /\ \A i \in 1 .. n : sample[i] \in stat.min .. stat.max
                       /\ MeanTimesN(stat) = total
                       /\ n * VarianceTimesNN(stat) =
                            Sum([i \in 1 .. n |->
                                   (n * sample[i] - total) * (n * sample[i] - total)])
    <3> DEFINE stat == trackers[e].stat
               x == SampleOf(heard[e])
               m == Len(heard[e])
    <3>1. StatOf(stat, x)
      BY <2>1 DEF I, ExactInv, Quiet
    <3>2. sender \in Senders /\ heard[e] \in Seq(Latencies[sender])
      BY DEF I, ScanTypeOK
    <3>3. m \in Nat /\ DOMAIN x = 1 .. m /\ \A i \in DOMAIN x : x[i] \in Nat
      BY <3>2, SampleType
    <3>4. x \in [1 .. m -> Int]
      <4>1. x = [i \in DOMAIN x |-> x[i]]
        BY DEF SampleOf
      <4> HIDE DEF x, m
      <4> QED
        BY <3>3, <4>1
    <3>5. /\ stat.n = m
          /\ m > 0 =>
              /\ \E i \in 1 .. m : x[i] = stat.max
              /\ \E i \in 1 .. m : x[i] = stat.min
              /\ \A i \in 1 .. m : x[i] \in stat.min .. stat.max
              /\ MeanTimesN(stat) = Sum(x)
              /\ m * VarianceTimesNN(stat) = Sum(Distances(x, m, Sum(x)))
      <4> HIDE DEF x, m, stat
      <4> QED
        BY <3>1, <3>3, <3>4, StatOfIsExact
    <3>6. Distances(x, m, Sum(x)) =
            [i \in 1 .. m |-> (m * x[i] - Sum(x)) * (m * x[i] - Sum(x))]
      <4> HIDE DEF x, m
      <4> QED
        BY <3>3 DEF Distances
    <3>7. x = [i \in DOMAIN heard[e] |-> LatencyUs(heard[e][i])]
      BY DEF SampleOf
    <3> HIDE DEF x
    <3> QED
      BY <3>5, <3>6, <3>7
  <2> QED
    BY <2>1 DEF StatisticsExact
<1> QED
  <2> HIDE DEF I
  <2> QED
    BY <1>1, <1>2, <1>3, PTL DEF Spec

=============================================================================
