----------------------------- MODULE DocForest -----------------------------
(***************************************************************************)
(* What the document store promises: a versioned forest. One transaction   *)
(* replaces some blocks at once, the result is a well-formed tree, and the *)
(* tree and sibling sets of every earlier transaction stay readable as     *)
(* they were.                                                              *)
(***************************************************************************)
EXTENDS DocTree

VARIABLES
  forest,  \* block -> its revision and content
  kids,    \* block -> the blocks below it
  past     \* committed transaction -> the forest and sibling sets it left

fvars == <<forest, kids, past>>

Tree == [b \in Blocks |-> forest[b].content]

Init ==
  /\ forest = [b \in Blocks |-> [tx |-> None, content |-> Tombstone]]
  /\ kids = [p \in Blocks |-> {}]
  /\ past = [t \in {} |-> {}]

Commit(t) ==
  /\ \A u \in DOMAIN past : u < t
  /\ forest' \in [Blocks -> [tx : Revisions, content : Content]]
  /\ WellFormed(Tree')
  /\ \E S \in SUBSET Blocks :
       /\ S # {}
       /\ \A b \in Blocks : IF b \in S THEN forest'[b].tx = t
                            ELSE forest'[b] = forest[b]
  /\ kids' = [p \in Blocks |-> KidsOf(Tree', p)]
  /\ LET old == past
     IN  past' = [u \in DOMAIN old \cup {t} |->
                   IF u = t THEN [blocks |-> forest', kids |-> kids']
                   ELSE old[u]]

Next == \E t \in Txs : Commit(t)

Spec == Init /\ [][Next]_fvars
=============================================================================
