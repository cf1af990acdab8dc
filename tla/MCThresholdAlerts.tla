------------------------- MODULE MCThresholdAlerts -------------------------
(***************************************************************************)
(* ThresholdAlerts for TLC.                                                *)
(***************************************************************************)
EXTENDS ThresholdAlerts

\* An alert for the first hour of the day only.
MCWindows == {<<0, 0>>}

\* The mail about the first server to the second user fails.
MCFailing == {<<1, 2>>}
=============================================================================
