-------------------------- MODULE MCSnapshotBuild --------------------------
(* Instances of SnapshotBuild for TLC. *)
EXTENDS SnapshotBuild, TLC

Symmetry == Permutations(Builds)
=============================================================================
