-------------------------- MODULE MCExpansionCommit --------------------------
(***************************************************************************)
(* Two operators, who may overlap, and enough runs for the rotation to     *)
(* remove backups after one attempt has failed.                            *)
(***************************************************************************)
EXTENDS ExpansionCommit, TLC

CONSTANTS x, y

MCOperators == {x, y}
MCSymmetry == Permutations(MCOperators)

=============================================================================
