---------------------------- MODULE MCSleepTask ----------------------------
(* SleepTask with two threads of a process asleep at the same time.        *)
EXTENDS SleepTask

CONSTANTS main, worker
MCSleepers == {main, worker}
=============================================================================
