----------------------------- MODULE MCFirewall -----------------------------
(* Instances of Firewall for TLC. *)
EXTENDS Firewall, TLC

FailAnyhow == {"base", "read", "drop", "open", "check", "journal", "crash"}
=============================================================================
