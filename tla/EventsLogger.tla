---------------------------- MODULE EventsLogger ----------------------------
(***************************************************************************)
(* performance_metrics::EventsLogger: the one events file of a system,     *)
(* which the callbacks of all of its nodes write to.  Its header promises  *)
(* that it is thread safe and that each event is on a line of its own.     *)
(***************************************************************************)
EXTENDS Naturals, Sequences

CONSTANTS
  Threads,   \* the threads that call write_event
  None       \* no thread: nobody holds the mutex

ASSUME ThreadsAssumption == None \notin Threads

VARIABLES
  is_open,        \* m_file.is_open()
  lines,          \* the lines of the file: sequences of the parts streamed
  line,           \* the parts of the line that has no end yet
  writer_mutex,   \* the thread that holds m_writer_mutex
  stamps,         \* time: how many events have been stamped
  event,          \* what each thread is writing: a time stamp and an event
  writing         \* how far each thread is in write_event

file_vars == <<is_open, lines, line, writer_mutex, stamps, event, writing>>

NoEvent == <<>>
Phases == {"out", "lock", "stream", "end"}

EventsLoggerInit ==
  /\ is_open \in BOOLEAN
  /\ lines = <<>>
  /\ line = <<>>
  /\ writer_mutex = None
  /\ stamps = 0
  /\ event = [thread \in Threads |-> NoEvent]
  /\ writing = [thread \in Threads |-> "out"]

-----------------------------------------------------------------------------
(* write_event, called by a thread. *)

\* The file is not open: nothing is done.
ReturnUnwritten(thread) ==
  /\ writing[thread] = "out"
  /\ ~is_open
  /\ UNCHANGED file_vars

\* The time is taken before the mutex.
Stamp(thread, e) ==
  /\ writing[thread] = "out"
  /\ is_open
  /\ stamps' = stamps + 1
  /\ event' = [event EXCEPT ![thread] = <<stamps, e>>]
  /\ writing' = [writing EXCEPT ![thread] = "lock"]
  /\ UNCHANGED <<is_open, lines, line, writer_mutex>>

\* For the mutation runs: no mutex.
LockWithoutMutex(thread) ==
  /\ writing[thread] = "lock"
  /\ writing' = [writing EXCEPT ![thread] = "stream"]
  /\ UNCHANGED <<is_open, lines, line, writer_mutex, stamps, event>>

Lock(thread) ==
  /\ writing[thread] = "lock"
  /\ writer_mutex = None
  /\ writer_mutex' = thread
  /\ writing' = [writing EXCEPT ![thread] = "stream"]
  /\ UNCHANGED <<is_open, lines, line, stamps, event>>

\* The time stamp and the caller ...
StreamOut(thread) ==
  /\ writing[thread] = "stream"
  /\ line' = Append(line, event[thread])
  /\ writing' = [writing EXCEPT ![thread] = "end"]
  /\ UNCHANGED <<is_open, lines, writer_mutex, stamps, event>>

\* ... the code, the description and the end of the line; the lock goes out
\* of scope.
EndLine(thread) ==
  /\ writing[thread] = "end"
  /\ lines' = Append(lines, Append(line, event[thread]))
  /\ line' = <<>>
  /\ writer_mutex' = None
  /\ event' = [event EXCEPT ![thread] = NoEvent]
  /\ writing' = [writing EXCEPT ![thread] = "out"]
  /\ UNCHANGED <<is_open, stamps>>

WriteStep(thread) == Lock(thread) \/ StreamOut(thread) \/ EndLine(thread)

-----------------------------------------------------------------------------
\* Both parts of a line are of one event.
IsWhole(parts) == Len(parts) = 2 /\ parts[1] = parts[2]

\* The events of the file, for files of whole lines.
WrittenEvents == [i \in DOMAIN lines |-> lines[i][1]]
=============================================================================
