---------------------------- MODULE MCLifecycle ----------------------------
(* Instances of Lifecycle for TLC. *)
EXTENDS Lifecycle, TLC

\* Three migrations; the last is an UPDATE.
AllStatements == <<2, 2, 1>>
=============================================================================
