------------------------- MODULE MCInteractiveBoxes --------------------------
(* Instances of InteractiveBoxes for TLC. *)
EXTENDS InteractiveBoxes

TestIsolators == Test \X {"user", "judge"}
=============================================================================
