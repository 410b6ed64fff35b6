--------------------------- MODULE MCAlarmReport ---------------------------
(* Instances of AlarmReport for TLC: the CONCENTRATOR task and one other    *)
(* device task.                                                             *)
EXTENDS AlarmReport

CONSTANTS conc, relay
=============================================================================
