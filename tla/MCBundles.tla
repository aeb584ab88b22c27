------------------------------ MODULE MCBundles ------------------------------
(* Instances of Bundles for TLC. *)
EXTENDS Bundles, TLC

FailAnywhere == {"keys", "spoke", "undo", "bump", "abort"}

IdSymmetry == Permutations(Ids)
=============================================================================
