---------------------------- MODULE MCMonitorLoop ----------------------------
(* MonitorLoop with a wall clock that is set forward or back by more         *)
(* than a checkpoint interval.                                               *)
EXTENDS MonitorLoop

MCSteps == {-7, 7}

=============================================================================
