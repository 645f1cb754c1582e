--------------------------- MODULE MCIbkrConnector ---------------------------
(* Instances of IbkrConnector for TLC. *)
EXTENDS IbkrConnector

CONSTANTS U1, U2, A1, A2

Symmetry == Permutations({U1, U2}) \cup Permutations({A1, A2})
=============================================================================
