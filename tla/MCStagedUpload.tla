-------------------------- MODULE MCStagedUpload --------------------------
(* Instances of StagedUpload for TLC. *)
EXTENDS StagedUpload, TLC

\* The files of the old table are fixed; the others are interchangeable.
Symmetry == Permutations(File \ Old)
============================================================================
