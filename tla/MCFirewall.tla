----------------------------- MODULE MCFirewall -----------------------------
(* Instances of Firewall for TLC. *)
EXTENDS Firewall
=============================================================================
