------------------------- MODULE MCInteractiveTest --------------------------
(* Instances of InteractiveTest for TLC. *)
EXTENDS InteractiveTest
=============================================================================
