-------------------------- MODULE MCKeyTransaction --------------------------
(***************************************************************************)
(* Model-checking instance of KeyTransaction.                              *)
(***************************************************************************)
EXTENDS KeyTransaction, TLC

CONSTANTS a, b

MCIdentities == {a, b}
MCSymmetry == Permutations(MCIdentities)
MCNothingMissing == {}
MCHostMissing == {"host-private"}
=============================================================================
