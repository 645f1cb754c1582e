--------------------------- MODULE MCXtbAccounts ---------------------------
(* Instances of XtbAccounts for TLC. *)
EXTENDS XtbAccounts, TLC

Symmetry == Permutations(Run) \union Permutations(Account)
============================================================================
