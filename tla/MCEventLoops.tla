---------------------------- MODULE MCEventLoops ----------------------------
(***************************************************************************)
(* EventLoops on small instances.                                          *)
(***************************************************************************)
EXTENDS EventLoops
=============================================================================
