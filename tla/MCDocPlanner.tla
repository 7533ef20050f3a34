---------------------------- MODULE MCDocPlanner ----------------------------
(***************************************************************************)
(* Small instances of the placement planner for TLC.                       *)
(***************************************************************************)
EXTENDS DocPlanner

Section(parent, position) ==
  [parent |-> parent, position |-> position, kind |-> "Section",
   fields |-> {}, deleted |-> FALSE]

\* A root, and children of block 1 that are tied, adjacent and at the top rank.
CrowdedContents ==
  {Section(None, 0), Section(1, 0), Section(1, 1), Section(1, MaxPos)}

\* The planner reads the heads, the sibling index and its own plan; history
\* rows never reach a decision.
PlanView ==
  <<heads, childIndex, pvars, CHOOSE t \in Revisions : IsLastTx(t)>>
=============================================================================
