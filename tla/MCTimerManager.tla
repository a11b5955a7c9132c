---------------------------- MODULE MCTimerManager ----------------------------
(* Small instances of TimerManager for TLC. *)
EXTENDS TimerManager

CONSTANTS io1, io2, user

=============================================================================
