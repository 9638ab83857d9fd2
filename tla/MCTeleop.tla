------------------------------- MODULE MCTeleop -------------------------------
(* The joy watchdog is the one to act first: its zero arrives before the   *)
(* controller's own timeout.                                               *)
EXTENDS Teleop
=============================================================================
