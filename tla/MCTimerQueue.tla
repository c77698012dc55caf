---------------------------- MODULE MCTimerQueue ----------------------------
(* TimerQueue for TLC. *)
EXTENDS TimerQueue
=============================================================================
