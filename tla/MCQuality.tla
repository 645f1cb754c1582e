----------------------------- MODULE MCQuality -----------------------------
(* Instances of Quality for TLC. *)
EXTENDS Quality, TLC

\* Nothing tells the connectors apart.
ConnectorSymmetry == Permutations(Connectors)
============================================================================
