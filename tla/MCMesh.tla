------------------------------- MODULE MCMesh -------------------------------
(* Instances of Mesh for TLC. *)
EXTENDS Mesh, TLC

\* Failures a report names: of all spokes, of the clients' keys, of a wanted spoke and of an
\* unwanted one; and the exception that ends a pass without a report.
FailReported == {"settings", "keys", "peers", "undo", "abort"}

\* A wg show that fails as well, which no report names.
FailUnnoticed == {"settings", "keys", "undo", "abort", "dump"}

IdSymmetry == Permutations(Ids)
=============================================================================
