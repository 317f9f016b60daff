------------------------------ MODULE MCBuffer ------------------------------
(***************************************************************************)
(* Buffer on small instances: two bytes of prepend space, three of room.   *)
(***************************************************************************)
EXTENDS Buffer
=============================================================================
