--------------------------- MODULE MCFullCommand ---------------------------
(* Instances of FullCommand for TLC. *)
EXTENDS FullCommand
=============================================================================
