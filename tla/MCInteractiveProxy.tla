------------------------- MODULE MCInteractiveProxy -------------------------
(* Instances of InteractiveProxy for TLC. *)
EXTENDS InteractiveProxy
=============================================================================
