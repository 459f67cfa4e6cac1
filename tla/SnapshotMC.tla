----------------------------- MODULE SnapshotMC -----------------------------
(* An instance of Snapshot for TLC. *)
EXTENDS Snapshot, TLC

Symmetry == Permutations(Record) \cup Permutations(Topic)
=============================================================================
