---------------------------- MODULE MCConnector ----------------------------
(* Instances of Connector for TLC. *)
EXTENDS Connector, TLC

Symmetry == Permutations(Run) \union Permutations(Event)
============================================================================
