------------------------------ MODULE DocStore ------------------------------
(***************************************************************************)
(* The document store engine (documents/mod.rs): six families of rows,     *)
(* written by one atomic batch per transaction under the write lock.       *)
(***************************************************************************)
EXTENDS DocTree

CONSTANTS
  MaxEdits,  \* changed blocks one transaction may hold (1000)
  Contents   \* the contents writers submit; a position may be negative

ASSUME EditsAssumption ==
  /\ MaxEdits \in Nat
  /\ Contents \subseteq ContentWith({p \in Int : p =< MaxPos})

VARIABLES
  heads,        \* Head: block -> its current revision and content
  versions,     \* Version: the rows (block, tx) -> content
  childIndex,   \* Child: the keys (parent, position, child)
  memberships,  \* ChildVersion: the rows (parent, child, tx) -> present
  txLog,        \* Tx: the committed transactions
  changes       \* Change: the keys (tx, block)

vars == <<heads, versions, childIndex, memberships, txLog, changes>>

HeadRow == [tx : Revisions, content : Content]
Missing == [tx |-> None, content |-> Tombstone]

Init ==
  /\ heads = [b \in Blocks |-> Missing]
  /\ versions = {}
  /\ childIndex = {}
  /\ memberships = {}
  /\ txLog = {}
  /\ changes = {}

-----------------------------------------------------------------------------
(***************************************************************************)
(* Reads. A historical read is a reverse seek: the last row of its prefix  *)
(* whose transaction is not above the bound.                               *)
(***************************************************************************)
Latest(rows) == CHOOSE r \in rows : \A s \in rows : s.tx =< r.tx

\* Mutant: the seek forgets its upper bound.
VersionRowsUnbounded(b, at) == {v \in versions : v.block = b}

VersionRows(b, at) == {v \in versions : v.block = b /\ v.tx =< at}

VersionAt(b, at) ==
  LET rows == VersionRows(b, at)
  IN  IF rows = {} THEN Missing
      ELSE [tx |-> Latest(rows).tx, content |-> Latest(rows).content]

MembershipRows(p, b, at) ==
  {m \in memberships : m.parent = p /\ m.child = b /\ m.tx =< at}

\* Mutant: a membership row counts as membership whatever it says.
MemberAtEver(p, b, at) == MembershipRows(p, b, at) # {}

MemberAt(p, b, at) ==
  LET rows == MembershipRows(p, b, at) IN rows # {} /\ Latest(rows).present

\* children(parent, Some(at)): a missing or deleted parent has no children.
ChildrenAt(p, at) ==
  IF VersionAt(p, at).content.deleted THEN {}
  ELSE {b \in Blocks : MemberAt(p, b, at) /\ ~VersionAt(b, at).content.deleted}

\* children(parent, None) reads the current index instead.
ChildrenNow(p) ==
  IF heads[p].content.deleted THEN {}
  ELSE {b \in Blocks : /\ \E l \in childIndex : l.parent = p /\ l.child = b
                       /\ ~heads[b].content.deleted}

-----------------------------------------------------------------------------
(***************************************************************************)
(* Validation of the final topology f, the heads overlaid by the edits.    *)
(***************************************************************************)
Overlay(contents) ==
  [b \in Blocks |-> IF b \in DOMAIN contents THEN contents[b]
                    ELSE heads[b].content]

ParentClosed(f, S) ==
  \A x \in S : f[x].parent # None => f[x].parent \in S

\* The blocks the ancestor walk from b can visit, b included.
Chain(f, b) ==
  {x \in Blocks : \A S \in SUBSET Blocks :
                    b \in S /\ ParentClosed(f, S) => x \in S}

\* Mutant: the walk never notices that it goes round.
ValidAncestryNoCycle(f, b) ==
  \A x \in Chain(f, b) :
    f[x].parent # None =>
      /\ ~f[f[x].parent].deleted
      /\ Accepts(f[f[x].parent].kind, f[x].kind)

\* The walk meets only live, accepting parents, and ends at a root rather
\* than at a block it has seen ("parent cycle").
ValidAncestry(f, b) ==
  LET chain == Chain(f, b)
  IN  /\ \A x \in chain :
           f[x].parent # None =>
             /\ ~f[f[x].parent].deleted
             /\ Accepts(f[f[x].parent].kind, f[x].kind)
      /\ \E x \in chain : f[x].parent = None

\* The children b has in the index and keeps in the final topology.
KeptChildren(f, b) ==
  {c \in ChildrenNow(b) : ~f[c].deleted /\ f[c].parent = b}

\* Children of a live block are looked at again only when its kind changes.
KeepsKind(f, b) == heads[b].tx # None /\ heads[b].content.kind = f[b].kind

\* Mutant: existing children are not looked at when a block changes its kind.
ValidEditAnyKind(f, b) ==
  IF f[b].deleted
  THEN KeptChildren(f, b) = {}
  ELSE Canonical(f[b]) /\ ValidAncestry(f, b)

ValidEdit(f, b) ==
  IF f[b].deleted
  THEN KeptChildren(f, b) = {}
  ELSE /\ Canonical(f[b])
       /\ ValidAncestry(f, b)
       /\ \/ KeepsKind(f, b)
          \/ \A c \in KeptChildren(f, b) : Accepts(f[b].kind, f[c].kind)

-----------------------------------------------------------------------------
(***************************************************************************)
(* A transaction id is the clock's UUIDv7 or, when the clock is behind the *)
(* last transaction, that id plus one. The clock may read anything: it is  *)
(* not the same clock after a reopen, and a host may set it back.          *)
(***************************************************************************)
IsLastTx(t) ==
  IF txLog = {} THEN t = None
  ELSE t \in txLog /\ \A u \in txLog : u =< t

\* Mutant: the clock is trusted.
NextTxByClock(now, last) == now

NextTx(now, last) == IF now > last THEN now ELSE last + 1

(***************************************************************************)
(* The batch. A link that changes is deleted and put under its new key; a  *)
(* move within one parent writes one membership row, the "present" one.    *)
(***************************************************************************)
\* Mutant: the old key of a moved or deleted block is never removed.
OldLinksForgotten(S) == {}

OldLinks(S) == UNION {LinkOf(b, heads[b].content) : b \in S}
NewLinks(contents) == UNION {LinkOf(b, contents[b]) : b \in DOMAIN contents}

Write(contents, tx) ==
  LET S       == DOMAIN contents
      dropped == OldLinks(S) \ NewLinks(contents)
      added   == NewLinks(contents) \ OldLinks(S)
      Row(l, present) ==
        [parent |-> l.parent, child |-> l.child, tx |-> tx, present |-> present]
      joined  == {Row(l, TRUE) : l \in added}
      left    == {Row(l, FALSE) : l \in {d \in dropped : Row(d, TRUE) \notin joined}}
  IN  /\ heads' = [b \in Blocks |->
                     IF b \in S THEN [tx |-> tx, content |-> contents[b]]
                     ELSE heads[b]]
      /\ versions' = versions \cup
           {[block |-> b, tx |-> tx, content |-> contents[b]] : b \in S}
      /\ childIndex' = (childIndex \ dropped) \cup added
      /\ memberships' = memberships \cup left \cup joined
      /\ txLog' = txLog \cup {tx}
      /\ changes' = changes \cup {<<tx, b>> : b \in S}

\* Mutant: negative positions are let through.
CommitAnyPosition(contents) ==
  \E last \in Revisions :
    /\ IsLastTx(last)
    /\ last < MaxTx
    /\ \A b \in DOMAIN contents : ValidEdit(Overlay(contents), b)
    /\ \E now \in Txs : Write(contents, NextTx(now, last))

(***************************************************************************)
(* apply_inner after the revision checks: validate, then commit once. An   *)
(* edit list that fails a check leaves the store as it was.                *)
(***************************************************************************)
Commit(contents) ==
  \E last \in Revisions :
    /\ IsLastTx(last)
    /\ last < MaxTx        \* "transaction ID exhausted"
    /\ \A b \in DOMAIN contents : contents[b].position >= 0
    /\ \A b \in DOMAIN contents : ValidEdit(Overlay(contents), b)
    /\ \E now \in Txs : Write(contents, NextTx(now, last))

\* The compare-and-swap: every edit names the head it was made against.
Current(expected) == \A b \in DOMAIN expected : heads[b].tx = expected[b]

Batches == {S \in SUBSET Blocks : S # {} /\ Cardinality(S) =< MaxEdits}

Apply ==
  \E S \in Batches : \E expected \in [S -> Revisions] :
    /\ Current(expected)
    /\ \E contents \in [S -> Contents] : Commit(contents)

Next == Apply

Spec == Init /\ [][Next]_vars
-----------------------------------------------------------------------------
(***************************************************************************)
(* Properties.                                                             *)
(***************************************************************************)
VersionRow == [block : Blocks, tx : Txs, content : Content]
LinkRow == [parent : Blocks, position : Positions, child : Blocks]
MembershipRow == [parent : Blocks, child : Blocks, tx : Txs, present : BOOLEAN]

\* Every family holds rows of its type.
TypeOK ==
  /\ heads \in [Blocks -> HeadRow]
  /\ versions \subseteq VersionRow
  /\ childIndex \subseteq LinkRow
  /\ memberships \subseteq MembershipRow
  /\ txLog \subseteq Txs
  /\ changes \subseteq Txs \X Blocks

CurrentTree == [b \in Blocks |-> heads[b].content]

\* The current tree is a forest of live, accepting parents although a batch
\* is validated only at the blocks it edits: descendants of a moved or a
\* retyped block are never walked.
Topology == WellFormed(CurrentTree)

\* The sibling index is exactly the projection of the heads: no stale key
\* survives a move, a delete or a restore, and none is missing.
IndexMatchesHeads ==
  childIndex = UNION {LinkOf(b, heads[b].content) : b \in Blocks}

\* A head is the newest version of its block, and the change log names the
\* version rows and nothing else.
HeadsMatchHistory ==
  /\ \A b \in Blocks : VersionAt(b, MaxTx) = heads[b]
  /\ changes = {<<v.tx, v.block>> : v \in versions}
  /\ txLog = {v.tx : v \in versions}

\* A historical tree reads like the tree it was: at every transaction id the
\* membership rows give each parent the live blocks whose version names it,
\* and the versions form a well-formed tree.
TreeAt(at) == [b \in Blocks |-> VersionAt(b, at).content]

HistoryIsTree ==
  \A at \in txLog :
    /\ WellFormed(TreeAt(at))
    /\ \A p \in Blocks : ChildrenAt(p, at) = KidsOf(TreeAt(at), p)

\* What a reader saw at a committed transaction it sees for ever: no later
\* commit, whatever its clock, changes a block or a sibling set there.
ReadsAtCommittedTxAreStable ==
  [][\A at \in txLog, b \in Blocks :
       /\ VersionAt(b, at)' = VersionAt(b, at)
       /\ ChildrenAt(b, at)' = ChildrenAt(b, at)]_vars

-----------------------------------------------------------------------------
(***************************************************************************)
(* The abstract store: at every transaction the whole tree, taken at once. *)
(***************************************************************************)
Forest == INSTANCE DocForest WITH
  forest <- heads,
  kids   <- [p \in Blocks |-> ChildrenNow(p)],
  past   <- [at \in txLog |->
               [blocks |-> [b \in Blocks |-> VersionAt(b, at)],
                kids   |-> [p \in Blocks |-> ChildrenAt(p, at)]]]

\* The row families, read through the store's read operations, behave like a
\* list of immutable, well-formed trees with increasing transaction ids.
ImplementsForest == Forest!Spec
=============================================================================
