---------------------------- MODULE MCSleepClock ----------------------------
(* Small instances of SleepClock, and so of KProc, for TLC.                *)
EXTENDS SleepClock

MCIntMin == -1
MCSeconds == {-1, 0, 2}

=============================================================================
