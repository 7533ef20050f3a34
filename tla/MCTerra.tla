------------------------------- MODULE MCTerra -------------------------------
(***************************************************************************)
(* Small instances of the assertion store for TLC.                         *)
(***************************************************************************)
EXTENDS Terra, TLC

\* Branches other than main are alike.
BranchSymmetry == Permutations(Slugs \ {Main})
=============================================================================
