----------------------------- MODULE MCBoxPool ------------------------------
(* Instances of BoxPool for TLC. *)
EXTENDS BoxPool
=============================================================================
