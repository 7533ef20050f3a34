---------------------------- MODULE MCTerraReads ----------------------------
(***************************************************************************)
(* Small instances of the read commands for TLC.                           *)
(***************************************************************************)
EXTENDS TerraReads, TLC

\* Branches other than main are alike.
BranchSymmetry == Permutations(Slugs \ {Main})
=============================================================================
