---------------------------- MODULE MCTimerQueue ----------------------------
(***************************************************************************)
(* TimerQueue on small instances.                                          *)
(***************************************************************************)
EXTENDS TimerQueue
=============================================================================
