------------------------------ MODULE DocTree ------------------------------
(***************************************************************************)
(* The data of the document store and the shape a document tree must have. *)
(* A tree is a function from block ids to contents; a block that was never *)
(* written has the content Tombstone, because every check the store makes  *)
(* treats a missing block and a deleted one alike.                         *)
(***************************************************************************)
EXTENDS Integers, FiniteSets

CONSTANTS
  Blocks,    \* block ids: 128-bit numbers other than nil and max
  MaxTx,     \* the largest transaction id (Uuid::max)
  MaxPos     \* the largest sibling rank (i64::MAX)

ASSUME BlocksAssumption == Blocks \subseteq Nat \ {0}
ASSUME BoundsAssumption == MaxTx \in Nat /\ MaxPos \in Nat

None == 0                     \* Option::None, for a parent and for a revision
Txs == 1 .. MaxTx
Revisions == Txs \cup {None}  \* what Edit::expected may name
Positions == 0 .. MaxPos

Kinds == {"Section", "Text", "ListItem", "List"}

(***************************************************************************)
(* The optional parts of a content that belong to one kind only: a title,  *)
(* a body and a checkbox state. Their text is abstracted to its presence.  *)
(***************************************************************************)
Fields == {"title", "body", "state"}

ContentWith(P) ==
  [parent : Blocks \cup {None}, position : P, kind : Kinds,
   fields : SUBSET Fields, deleted : BOOLEAN]

Content == ContentWith(Positions)

Tombstone == [parent |-> None, position |-> 0, kind |-> "Section",
              fields |-> {}, deleted |-> TRUE]

(***************************************************************************)
(* The kinds of children each kind of block may contain.                   *)
(***************************************************************************)
Containable == [Section  |-> Kinds \ {"ListItem"},
                List     |-> {"ListItem"},
                ListItem |-> {"Text", "List"},
                Text     |-> {}]

Accepts(kind, child) == child \in Containable[kind]

(***************************************************************************)
(* The payload rules of a live block, and "only sections can be roots".    *)
(***************************************************************************)
FieldsOf == [Section  |-> {"title"},
             Text     |-> {"body"},
             ListItem |-> {"state"},
             List     |-> {}]

Canonical(c) ==
  /\ c.fields \subseteq FieldsOf[c.kind]
  /\ c.parent = None => c.kind = "Section"

(***************************************************************************)
(* The sibling-index entry of a block: none when it is deleted or a root.  *)
(***************************************************************************)
LinkOf(b, c) ==
  IF c.deleted \/ c.parent = None THEN {}
  ELSE {[parent |-> c.parent, position |-> c.position, child |-> b]}

-----------------------------------------------------------------------------
(***************************************************************************)
(* What a document tree f promises its readers.                            *)
(***************************************************************************)
LiveBlocks(f) == {b \in Blocks : ~f[b].deleted}

KidsOf(f, p) == {b \in LiveBlocks(f) : f[b].parent = p}

\* Every live block hangs, canonically, below a live block that accepts it.
WellPlaced(f) ==
  \A b \in LiveBlocks(f) :
    /\ Canonical(f[b])
    /\ f[b].parent # None =>
         /\ f[b].parent \in LiveBlocks(f)
         /\ Accepts(f[f[b].parent].kind, f[b].kind)

\* No nonempty set of live blocks is closed under "parent": there is no cycle.
Acyclic(f) ==
  \A S \in SUBSET LiveBlocks(f) : S # {} => \E b \in S : f[b].parent \notin S

WellFormed(f) == WellPlaced(f) /\ Acyclic(f)
=============================================================================
