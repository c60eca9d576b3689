---------------------------- MODULE MCSessionPool ----------------------------
(* The session pool on small instances; ids are the numbers _generate_id counts through. *)
EXTENDS SessionPool
=============================================================================
