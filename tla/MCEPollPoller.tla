---------------------------- MODULE MCEPollPoller ----------------------------
(***************************************************************************)
(* EPollPoller on small instances.                                         *)
(***************************************************************************)
EXTENDS EPollPoller
=============================================================================
