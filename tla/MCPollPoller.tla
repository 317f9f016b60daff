---------------------------- MODULE MCPollPoller ----------------------------
(***************************************************************************)
(* PollPoller on small instances.                                          *)
(***************************************************************************)
EXTENDS PollPoller
=============================================================================
