--------------------------- MODULE DocStoreProofs ---------------------------
(***************************************************************************)
(* Proofs about the document store, for every set of blocks, every bound   *)
(* and every set of contents.                                              *)
(***************************************************************************)
EXTENDS DocStore, TLAPS

-----------------------------------------------------------------------------
(***************************************************************************)
(* The inductive invariant. Beside the properties of DocStore it says how  *)
(* the rows of each family relate to the heads.                            *)
(***************************************************************************)

\* Some transaction is the last one.
LastTxExists == \E t \in Revisions : IsLastTx(t)

\* A block never written is Missing, a written one heads its version rows.
VersionsOfHeads ==
  /\ \A b \in Blocks :
       IF heads[b].tx = None THEN heads[b].content = Tombstone
       ELSE [block |-> b, tx |-> heads[b].tx, content |-> heads[b].content]
              \in versions
  /\ \A v \in versions : v.tx =< heads[v.block].tx
  /\ \A v, w \in versions : v.block = w.block /\ v.tx = w.tx => v = w

\* The membership rows of a pair end in "present" exactly when the head of
\* the child says so, and no pair has two rows of one transaction.
EndsPresent(p, b) ==
  \E m \in memberships :
    /\ m.parent = p /\ m.child = b /\ m.present
    /\ \A n \in memberships : n.parent = p /\ n.child = b => n.tx =< m.tx

EndsAbsent(p, b) ==
  \A m \in memberships : m.parent = p /\ m.child = b =>
    \E n \in memberships :
      /\ n.parent = p /\ n.child = b /\ ~n.present
      /\ \A o \in memberships : o.parent = p /\ o.child = b => o.tx =< n.tx

MembershipsOfHeads ==
  /\ \A p, b \in Blocks :
       IF b \in KidsOf(CurrentTree, p) THEN EndsPresent(p, b)
       ELSE EndsAbsent(p, b)
  /\ \A m, n \in memberships :
       m.parent = n.parent /\ m.child = n.child /\ m.tx = n.tx => m = n

\* Every row belongs to a committed transaction.
RowsAreCommitted ==
  /\ \A m \in memberships : m.tx \in txLog
  /\ changes = {<<v.tx, v.block>> : v \in versions}
  /\ txLog = {v.tx : v \in versions}

IInv ==
  /\ TypeOK
  /\ LastTxExists
  /\ Topology
  /\ IndexMatchesHeads
  /\ VersionsOfHeads
  /\ MembershipsOfHeads
  /\ RowsAreCommitted
  /\ HistoryIsTree

-----------------------------------------------------------------------------
(***************************************************************************)
(* The tree: validating the edited blocks keeps the whole tree well formed.*)
(***************************************************************************)

\* A block is on its own ancestor chain, and a set of blocks that is closed
\* under "parent" holds the chain of each of its members.
LEMMA ChainProperties ==
  ASSUME NEW f, NEW b \in Blocks
  PROVE  /\ b \in Chain(f, b)
         /\ \A S \in SUBSET Blocks :
              b \in S /\ ParentClosed(f, S) => Chain(f, b) \subseteq S
  BY DEF Chain

\* The tree that results from an accepted batch is well formed: ValidEdit is
\* asked of the edited blocks only, whose index entries are their children.
LEMMA ValidEditsKeepWellFormed ==
  ASSUME NEW g \in [Blocks -> Content], NEW f \in [Blocks -> Content],
         NEW S \in SUBSET Blocks,
         \A b \in Blocks \ S : f[b] = g[b],
         \A b \in Blocks : heads[b].content = g[b],
         \A b \in Blocks : ChildrenNow(b) = KidsOf(g, b),
         \A b \in S : ValidEdit(f, b),
         WellFormed(g)
  PROVE  WellFormed(f)
<1> USE BlocksAssumption DEF None
<1>1. WellPlaced(f)
  <2> SUFFICES ASSUME NEW b \in LiveBlocks(f)
               PROVE  /\ Canonical(f[b])
                      /\ f[b].parent # None =>
                           /\ f[b].parent \in LiveBlocks(f)
                           /\ Accepts(f[f[b].parent].kind, f[b].kind)
    BY DEF WellPlaced
  <2>1. b \in Blocks /\ ~f[b].deleted /\ f[b].parent \in Blocks \cup {None}
    BY DEF LiveBlocks, Content, ContentWith
  <2>2. CASE b \in S
    <3>1. Canonical(f[b]) /\ ValidAncestry(f, b)
      BY <2>1, <2>2 DEF ValidEdit
    <3>2. f[b].parent # None =>
            /\ ~f[f[b].parent].deleted
            /\ Accepts(f[f[b].parent].kind, f[b].kind)
      BY <3>1, <2>1, ChainProperties DEF ValidAncestry
    <3> QED BY <3>1, <3>2, <2>1 DEF LiveBlocks
  <2>3. CASE b \notin S
    <3>1. f[b] = g[b] /\ b \in LiveBlocks(g)
      BY <2>1, <2>3 DEF LiveBlocks
    <3>2. /\ Canonical(f[b])
          /\ f[b].parent # None =>
               /\ f[b].parent \in LiveBlocks(g)
               /\ Accepts(g[f[b].parent].kind, f[b].kind)
      BY <3>1 DEF WellFormed, WellPlaced
    <3>3. ASSUME f[b].parent # None
          PROVE  /\ f[b].parent \in LiveBlocks(f)
                 /\ Accepts(f[f[b].parent].kind, f[b].kind)
      <4> DEFINE p == f[b].parent
      <4>1. p \in Blocks /\ p \in LiveBlocks(g) /\ Accepts(g[p].kind, f[b].kind)
        BY <3>2, <3>3, <2>1
      <4>2. CASE p \notin S
        BY <4>1, <4>2 DEF LiveBlocks
      <4>3. CASE p \in S
        <5>1. b \in KeptChildren(f, p)
          BY <3>1, <2>1, <4>1 DEF KidsOf, KeptChildren
        <5>2. ValidEdit(f, p)
          BY <4>3
        <5>3. ~f[p].deleted
          BY <5>1, <5>2 DEF ValidEdit
        <5>4. CASE KeepsKind(f, p)
          BY <5>3, <5>4, <4>1 DEF KeepsKind, LiveBlocks
        <5>5. CASE \A c \in KeptChildren(f, p) : Accepts(f[p].kind, f[c].kind)
          BY <5>1, <5>3, <5>5, <4>1 DEF LiveBlocks
        <5> QED BY <5>2, <5>3, <5>4, <5>5 DEF ValidEdit
      <4> QED BY <4>2, <4>3
    <3> QED BY <3>2, <3>3
  <2> QED BY <2>2, <2>3
<1>2. Acyclic(f)
  <2> SUFFICES ASSUME NEW T \in SUBSET LiveBlocks(f), T # {},
                      \A b \in T : f[b].parent \in T
               PROVE  FALSE
    BY DEF Acyclic
  <2>1. T \in SUBSET Blocks /\ \A b \in T : ~f[b].deleted
    BY DEF LiveBlocks
  <2>2. CASE \E b \in T : b \in S
    <3>1. PICK b \in T : b \in S
      BY <2>2
    <3>2. ValidAncestry(f, b)
      BY <3>1, <2>1 DEF ValidEdit
    <3>3. ParentClosed(f, T)
      BY DEF ParentClosed
    <3>4. Chain(f, b) \subseteq T
      BY <3>1, <3>3, <2>1, ChainProperties
    <3>5. PICK x \in Chain(f, b) : f[x].parent = None
      BY <3>2 DEF ValidAncestry
    <3> QED BY <3>4, <3>5, <2>1
  <2>3. CASE \A b \in T : b \notin S
    <3>1. \A b \in T : f[b] = g[b]
      BY <2>1, <2>3
    <3>2. T \in SUBSET LiveBlocks(g)
      BY <3>1, <2>1 DEF LiveBlocks
    <3> QED BY <3>1, <3>2 DEF WellFormed, Acyclic
  <2> QED BY <2>2, <2>3
<1> QED BY <1>1, <1>2 DEF WellFormed
-----------------------------------------------------------------------------
(***************************************************************************)
(* Reading the last state through the history.                             *)
(***************************************************************************)

\* Read at a transaction no row is above, the versions are the heads.
HeadsAreLatest ==
  \A at \in Txs : (\A v \in versions : v.tx =< at) =>
    \A b \in Blocks : VersionAt(b, at) = heads[b]

\* Read at a transaction no row is above, the memberships are the tree.
KidsAreLatest ==
  \A at \in Txs :
    /\ \A v \in versions : v.tx =< at
    /\ \A m \in memberships : m.tx =< at
    => \A p \in Blocks : ChildrenAt(p, at) = KidsOf(CurrentTree, p)

\* A read at a transaction past every row finds the heads.
LEMMA VersionsEndInHeads == TypeOK /\ VersionsOfHeads => HeadsAreLatest
<1> SUFFICES ASSUME TypeOK, VersionsOfHeads, NEW at \in Txs,
                    \A v \in versions : v.tx =< at, NEW b \in Blocks
             PROVE  VersionAt(b, at) = heads[b]
  BY DEF HeadsAreLatest
<1> DEFINE rows == VersionRows(b, at)
<1>1. heads[b] \in HeadRow /\ versions \subseteq VersionRow
  BY DEF TypeOK
<1>2. CASE heads[b].tx = None
  <2>1. rows = {}
    BY <1>1, <1>2 DEF VersionRows, VersionsOfHeads, VersionRow, None, Txs
  <2>2. heads[b] = Missing
    BY <1>1, <1>2 DEF VersionsOfHeads, HeadRow, Missing
  <2> QED BY <2>1, <2>2 DEF VersionAt
<1>3. CASE heads[b].tx # None
  <2> DEFINE top == [block |-> b, tx |-> heads[b].tx,
                     content |-> heads[b].content]
  <2>1. top \in rows
    BY <1>1, <1>3 DEF VersionRows, VersionsOfHeads
  <2>2. \A s \in rows : s.tx =< top.tx
    BY <1>1 DEF VersionRows, VersionsOfHeads
  <2>3. Latest(rows) \in rows /\ \A s \in rows : s.tx =< Latest(rows).tx
    BY <2>1, <2>2 DEF Latest
  <2>4. top.tx =< Latest(rows).tx /\ Latest(rows).tx =< top.tx
    BY <2>1, <2>2, <2>3
  <2>5. Latest(rows).tx = top.tx
    <3>1. Latest(rows) \in VersionRow
      BY <2>3, <1>1 DEF VersionRows
    <3>2. top.tx \in Int /\ Latest(rows).tx \in Int
      BY <3>1, <1>1 DEF VersionRow, HeadRow, Revisions, Txs, None
    <3> QED BY <2>4, <3>2
  <2>6. Latest(rows) = top
    BY <2>1, <2>3, <2>5 DEF VersionRows, VersionsOfHeads
  <2>7. heads[b] = [tx |-> heads[b].tx, content |-> heads[b].content]
    BY <1>1 DEF HeadRow
  <2> QED BY <2>1, <2>6, <2>7 DEF VersionAt
<1> QED BY <1>2, <1>3

\* The newest memberships of a parent are its children now.
LEMMA MembershipsEndInTree ==
  TypeOK /\ VersionsOfHeads /\ MembershipsOfHeads /\ Topology => KidsAreLatest
<1> SUFFICES ASSUME TypeOK, VersionsOfHeads, MembershipsOfHeads, Topology,
                    NEW at \in Txs,
                    \A v \in versions : v.tx =< at,
                    \A m \in memberships : m.tx =< at,
                    NEW p \in Blocks
             PROVE  ChildrenAt(p, at) = KidsOf(CurrentTree, p)
  BY DEF KidsAreLatest
<1>1. \A b \in Blocks : VersionAt(b, at) = heads[b]
  BY VersionsEndInHeads DEF HeadsAreLatest
<1>2. ASSUME NEW b \in Blocks
      PROVE  MemberAt(p, b, at) <=> b \in KidsOf(CurrentTree, p)
  <2> DEFINE rows == MembershipRows(p, b, at)
  <2>1. rows = {m \in memberships : m.parent = p /\ m.child = b}
    BY DEF MembershipRows
  <2>2. \A m \in rows : m.tx \in Int
    BY <2>1 DEF TypeOK, MembershipRow, Txs
  <2>3. \A m \in rows : (\A s \in rows : s.tx =< m.tx) => Latest(rows) = m
    <3> SUFFICES ASSUME NEW m \in rows, \A s \in rows : s.tx =< m.tx
                 PROVE  Latest(rows) = m
      OBVIOUS
    <3>1. Latest(rows) \in rows /\ \A s \in rows : s.tx =< Latest(rows).tx
      BY DEF Latest
    <3>2. Latest(rows).tx = m.tx
      BY <3>1, <2>2
    <3> QED BY <3>1, <3>2, <2>1 DEF MembershipsOfHeads
  <2>4. CASE b \in KidsOf(CurrentTree, p)
    <3>1. EndsPresent(p, b)
      BY <2>4 DEF MembershipsOfHeads
    <3>2. PICK m \in rows : m.present /\ \A s \in rows : s.tx =< m.tx
      BY <3>1, <2>1 DEF EndsPresent
    <3> QED BY <3>2, <2>3, <2>4 DEF MemberAt
  <2>5. CASE b \notin KidsOf(CurrentTree, p)
    <3>1. EndsAbsent(p, b)
      BY <2>5 DEF MembershipsOfHeads
    <3>2. rows # {} => \E n \in rows : ~n.present /\ \A s \in rows : s.tx =< n.tx
      BY <3>1, <2>1 DEF EndsAbsent
    <3> QED BY <3>2, <2>3, <2>5 DEF MemberAt
  <2> QED BY <2>4, <2>5
<1>3. \A b \in KidsOf(CurrentTree, p) : ~heads[p].content.deleted
  BY BlocksAssumption
     DEF Topology, WellFormed, WellPlaced, KidsOf, LiveBlocks, CurrentTree, None
<1>4. \A b \in KidsOf(CurrentTree, p) : b \in Blocks /\ ~heads[b].content.deleted
  BY DEF KidsOf, LiveBlocks, CurrentTree
<1> QED BY <1>1, <1>2, <1>3, <1>4 DEF ChildrenAt
-----------------------------------------------------------------------------
(***************************************************************************)
(* One step of the store: an accepted batch written under a fresh id.      *)
(***************************************************************************)
AcceptedWrite(S, contents, tx) ==
  /\ S \in SUBSET Blocks /\ S # {}
  /\ contents \in [S -> Content]
  /\ \A b \in S : ValidEdit(Overlay(contents), b)
  /\ tx \in Txs
  /\ \A u \in txLog : u < tx
  /\ Write(contents, tx)

\* A batch that commits is accepted, whichever contents of the types that the
\* edits of a client have it holds.
Submitted == ContentWith({p \in Int : p =< MaxPos})

\* The guards of Commit make its batch an accepted write.
LEMMA CommitIsAcceptedWrite ==
  ASSUME TypeOK, NEW S \in SUBSET Blocks, S # {},
         NEW contents \in [S -> Submitted], Commit(contents)
  PROVE  \E tx \in Txs : AcceptedWrite(S, contents, tx)
<1>1. PICK last \in Revisions :
        /\ IsLastTx(last)
        /\ last < MaxTx
        /\ \A b \in S : contents[b].position >= 0
        /\ \A b \in S : ValidEdit(Overlay(contents), b)
        /\ \E now \in Txs : Write(contents, NextTx(now, last))
  BY DEF Commit
<1>2. PICK now \in Txs : Write(contents, NextTx(now, last))
  BY <1>1
<1> DEFINE tx == NextTx(now, last)
<1>3. tx \in Txs /\ last < tx
  BY <1>1, BoundsAssumption DEF NextTx, Txs, Revisions, None
<1>4. \A u \in txLog : u < tx
  BY <1>1, <1>3 DEF IsLastTx, TypeOK, Txs, Revisions, None
<1>5. contents \in [S -> Content]
  <2> SUFFICES ASSUME NEW b \in S
               PROVE  contents[b] \in Content
    OBVIOUS
  <2>1. contents[b] \in ContentWith({p \in Int : p =< MaxPos})
    BY DEF Submitted
  <2>2. contents[b].position \in Positions
    BY <2>1, <1>1, BoundsAssumption DEF ContentWith, Positions
  <2> QED BY <2>1, <2>2 DEF ContentWith, Content
<1> QED BY <1>1, <1>2, <1>3, <1>4, <1>5 DEF AcceptedWrite

\* So does a whole apply call.
LEMMA ApplyIsAcceptedWrite ==
  ASSUME TypeOK, Apply
  PROVE  \E S \in SUBSET Blocks : \E contents \in [S -> Content], tx \in Txs :
           AcceptedWrite(S, contents, tx)
<1>1. PICK S \in Batches : \E contents \in [S -> Contents] : Commit(contents)
  BY DEF Apply
<1>2. PICK contents \in [S -> Contents] : Commit(contents)
  BY <1>1
<1>3. S \in SUBSET Blocks /\ S # {}
  BY <1>1 DEF Batches
<1>4. contents \in [S -> Submitted]
  BY EditsAssumption DEF Submitted
<1>5. \E tx \in Txs : AcceptedWrite(S, contents, tx)
  BY <1>2, <1>3, <1>4, CommitIsAcceptedWrite
<1> QED BY <1>3, <1>5 DEF AcceptedWrite

\* The links of a batch, one fact for the old ones and one for the new.
LEMMA LinksOfBatch ==
  ASSUME TypeOK, NEW S \in SUBSET Blocks, NEW contents \in [S -> Content]
  PROVE  /\ \A l : l \in OldLinks(S) <=> \E b \in S : l \in LinkOf(b, heads[b].content)
         /\ \A l : l \in NewLinks(contents) <=> \E b \in S : l \in LinkOf(b, contents[b])
         /\ OldLinks(S) \subseteq LinkRow
         /\ NewLinks(contents) \subseteq LinkRow
<1>1. \A l : l \in OldLinks(S) <=> \E b \in S : l \in LinkOf(b, heads[b].content)
  BY DEF OldLinks
<1>2. \A l : l \in NewLinks(contents) <=> \E b \in S : l \in LinkOf(b, contents[b])
  BY DEF NewLinks
<1>3. \A b \in S : LinkOf(b, heads[b].content) \subseteq LinkRow
  BY DEF LinkOf, LinkRow, TypeOK, HeadRow, Content, ContentWith
<1>4. \A b \in S : LinkOf(b, contents[b]) \subseteq LinkRow
  BY DEF LinkOf, LinkRow, Content, ContentWith
<1> QED BY <1>1, <1>2, <1>3, <1>4

\* A link says where its child is.
LEMMA LinkOfFields ==
  ASSUME NEW b, NEW c, NEW l \in LinkOf(b, c)
  PROVE  /\ l = [parent |-> c.parent, position |-> c.position, child |-> b]
         /\ l.parent = c.parent /\ l.position = c.position /\ l.child = b
         /\ ~c.deleted /\ c.parent # None
  BY DEF LinkOf

\* The membership rows of a batch: "present" for a pair a new link joins,
\* "absent" for a pair an old link leaves and no new one joins.
Joined(S, contents, p, b) ==
  \E l \in NewLinks(contents) \ OldLinks(S) : l.parent = p /\ l.child = b

Left(S, contents, p, b) ==
  /\ \E l \in OldLinks(S) \ NewLinks(contents) : l.parent = p /\ l.child = b
  /\ ~Joined(S, contents, p, b)

MembershipOf(p, b, tx, present) ==
  [parent |-> p, child |-> b, tx |-> tx, present |-> present]

BatchMembership(S, contents, tx, m) ==
  \E p, b \in Blocks :
    \/ /\ Joined(S, contents, p, b)
       /\ m = MembershipOf(p, b, tx, TRUE)
    \/ /\ Left(S, contents, p, b)
       /\ m = MembershipOf(p, b, tx, FALSE)

\* The membership rows of a batch are those of the parents left and joined.
LEMMA NewMemberships ==
  ASSUME TypeOK, NEW S \in SUBSET Blocks, NEW contents \in [S -> Content],
         NEW tx \in Txs, AcceptedWrite(S, contents, tx)
  PROVE  \A m : m \in memberships' <=>
           m \in memberships \/ BatchMembership(S, contents, tx, m)
<1> DEFINE Row(l, present) == MembershipOf(l.parent, l.child, tx, present)
           dropped == OldLinks(S) \ NewLinks(contents)
           added   == NewLinks(contents) \ OldLinks(S)
           joined  == {Row(l, TRUE) : l \in added}
           left    == {Row(l, FALSE) : l \in {d \in dropped : Row(d, TRUE) \notin joined}}
<1>1. memberships' = memberships \cup left \cup joined
  BY DEF AcceptedWrite, Write, MembershipOf
<1>2. \A l \in dropped \cup added : l.parent \in Blocks /\ l.child \in Blocks
  BY LinksOfBatch DEF LinkRow
<1>3. \A m : m \in joined <=>
        \E p, b \in Blocks : /\ Joined(S, contents, p, b)
                             /\ m = MembershipOf(p, b, tx, TRUE)
  BY <1>2 DEF Joined
<1>4. \A l \in dropped : Row(l, TRUE) \in joined <=> Joined(S, contents, l.parent, l.child)
  BY DEF Joined, MembershipOf
<1>5. \A m : m \in left <=>
        \E p, b \in Blocks : /\ Left(S, contents, p, b)
                             /\ m = MembershipOf(p, b, tx, FALSE)
  <2> HIDE DEF joined, dropped
  <2>1. \A m : m \in left <=>
          \E l \in dropped : /\ Row(l, TRUE) \notin joined
                             /\ m = MembershipOf(l.parent, l.child, tx, FALSE)
    OBVIOUS
  <2>2. \A p, b : Left(S, contents, p, b) <=>
          \E l \in dropped : /\ l.parent = p /\ l.child = b
                             /\ Row(l, TRUE) \notin joined
    BY <1>4 DEF Left, dropped
  <2>3. \A l \in dropped : l.parent \in Blocks /\ l.child \in Blocks
    BY <1>2
  <2> HIDE DEF left, Row
  <2>4. ASSUME NEW m \in left
        PROVE  \E p, b \in Blocks : /\ Left(S, contents, p, b)
                                    /\ m = MembershipOf(p, b, tx, FALSE)
    <3>1. PICK l \in dropped : /\ Row(l, TRUE) \notin joined
                               /\ m = MembershipOf(l.parent, l.child, tx, FALSE)
      BY <2>1
    <3>2. Left(S, contents, l.parent, l.child)
      BY <2>2, <3>1
    <3> QED BY <2>3, <3>1, <3>2
  <2>5. ASSUME NEW p \in Blocks, NEW b \in Blocks, Left(S, contents, p, b)
        PROVE  MembershipOf(p, b, tx, FALSE) \in left
    <3>1. PICK l \in dropped : /\ l.parent = p /\ l.child = b
                               /\ Row(l, TRUE) \notin joined
      BY <2>2, <2>5
    <3> QED BY <2>1, <3>1
  <2> QED BY <2>4, <2>5
<1> HIDE DEF left, joined
<1> QED BY <1>1, <1>3, <1>5 DEF BatchMembership

\* An accepted write keeps the types.
LEMMA TypeStep ==
  ASSUME TypeOK, NEW S \in SUBSET Blocks, NEW contents \in [S -> Content],
         NEW tx \in Txs, AcceptedWrite(S, contents, tx)
  PROVE  TypeOK'
<1>0. memberships' \subseteq MembershipRow
  <2>1. memberships \subseteq MembershipRow
    BY DEF TypeOK
  <2>2. ASSUME NEW m, BatchMembership(S, contents, tx, m)
        PROVE  m \in MembershipRow
    <3>1. PICK p \in Blocks, b \in Blocks :
            \/ m = MembershipOf(p, b, tx, TRUE)
            \/ m = MembershipOf(p, b, tx, FALSE)
      BY <2>2 DEF BatchMembership
    <3>2. /\ MembershipOf(p, b, tx, TRUE) \in MembershipRow
          /\ MembershipOf(p, b, tx, FALSE) \in MembershipRow
      BY DEF MembershipOf, MembershipRow
    <3> QED BY <3>1, <3>2
  <2>3. \A m \in memberships' :
          m \in memberships \/ BatchMembership(S, contents, tx, m)
    BY NewMemberships
  <2> QED BY <2>1, <2>2, <2>3
<1> USE DEF TypeOK, AcceptedWrite, Write
<1>1. heads' \in [Blocks -> HeadRow]
  BY DEF HeadRow, Revisions
<1>2. versions' \subseteq VersionRow
  BY DEF VersionRow
<1>3. NewLinks(contents) \subseteq LinkRow
  BY LinksOfBatch
<1>5. childIndex' \subseteq LinkRow
  BY <1>3
<1>6. txLog' \subseteq Txs /\ changes' \subseteq Txs \X Blocks
  OBVIOUS
<1> QED BY <1>0, <1>1, <1>2, <1>5, <1>6

\* Its contents overlay the current tree.
LEMMA TreeStep ==
  ASSUME TypeOK, NEW S \in SUBSET Blocks, NEW contents \in [S -> Content],
         NEW tx \in Txs, AcceptedWrite(S, contents, tx)
  PROVE  /\ CurrentTree' = Overlay(contents)
         /\ CurrentTree \in [Blocks -> Content]
         /\ Overlay(contents) \in [Blocks -> Content]
         /\ \A b \in Blocks \ S : Overlay(contents)[b] = CurrentTree[b]
         /\ \A b \in S : Overlay(contents)[b] = contents[b]
  BY DEF TypeOK, AcceptedWrite, Write, CurrentTree, Overlay, HeadRow

\* Read from the index, the children of a block are its children in the tree.
LEMMA IndexGivesChildren ==
  TypeOK /\ Topology /\ IndexMatchesHeads =>
    \A p \in Blocks : ChildrenNow(p) = KidsOf(CurrentTree, p)
<1> SUFFICES ASSUME TypeOK, Topology, IndexMatchesHeads, NEW p \in Blocks
             PROVE  ChildrenNow(p) = KidsOf(CurrentTree, p)
  OBVIOUS
<1>0. None \notin Blocks
  BY BlocksAssumption DEF None
<1>1. ASSUME NEW b \in Blocks
      PROVE  (\E l \in childIndex : l.parent = p /\ l.child = b) <=>
               ~heads[b].content.deleted /\ heads[b].content.parent = p
  <2>1. \A l : l \in childIndex <=>
          \E c \in Blocks : l \in LinkOf(c, heads[c].content)
    BY DEF IndexMatchesHeads
  <2>2. ASSUME ~heads[b].content.deleted, heads[b].content.parent = p
        PROVE  \E l \in LinkOf(b, heads[b].content) : l.parent = p /\ l.child = b
    BY <2>2, <1>0 DEF LinkOf
  <2> QED BY <2>1, <2>2, LinkOfFields
<1>2. \A b \in KidsOf(CurrentTree, p) : ~heads[p].content.deleted
  BY <1>0 DEF Topology, WellFormed, WellPlaced, KidsOf, LiveBlocks, CurrentTree
<1> QED BY <1>1, <1>2 DEF ChildrenNow, KidsOf, LiveBlocks, CurrentTree

\* The tree it leaves is well formed: that is what validation checked.
LEMMA TopologyStep ==
  ASSUME TypeOK, Topology, IndexMatchesHeads,
         NEW S \in SUBSET Blocks, NEW contents \in [S -> Content],
         NEW tx \in Txs, AcceptedWrite(S, contents, tx)
  PROVE  Topology'
<1>1. \A b \in Blocks : heads[b].content = CurrentTree[b]
  BY DEF CurrentTree
<1>2. \A b \in S : ValidEdit(Overlay(contents), b)
  BY DEF AcceptedWrite
<1>3. \A b \in Blocks : ChildrenNow(b) = KidsOf(CurrentTree, b)
  BY IndexGivesChildren
<1>4. WellFormed(CurrentTree)
  BY DEF Topology
<1>5. WellFormed(Overlay(contents))
  BY <1>1, <1>2, <1>3, <1>4, TreeStep, ValidEditsKeepWellFormed
<1>6. Topology' <=> WellFormed(CurrentTree')
  BY DEF Topology, WellFormed, WellPlaced, Acyclic, LiveBlocks
<1> QED BY <1>5, <1>6, TreeStep

\* The child index follows the heads.
LEMMA IndexStep ==
  ASSUME TypeOK, IndexMatchesHeads,
         NEW S \in SUBSET Blocks, NEW contents \in [S -> Content],
         NEW tx \in Txs, AcceptedWrite(S, contents, tx)
  PROVE  IndexMatchesHeads'
<1> DEFINE Entry(l) == \E b \in Blocks : l \in LinkOf(b, heads[b].content)
<1>1. \A l : l \in childIndex <=> Entry(l)
  BY DEF IndexMatchesHeads
<1>2. \A l : l \in childIndex' <=>
        \/ l \in NewLinks(contents)
        \/ l \in childIndex /\ l \notin OldLinks(S)
  <2>1. childIndex' = (childIndex \ (OldLinks(S) \ NewLinks(contents)))
                        \cup (NewLinks(contents) \ OldLinks(S))
    BY DEF AcceptedWrite, Write
  <2>2. OldLinks(S) \subseteq childIndex
    BY <1>1 DEF OldLinks
  <2> QED BY <2>1, <2>2
<1>3. \A l : l \in NewLinks(contents) <=> \E b \in S : l \in LinkOf(b, contents[b])
  BY DEF NewLinks
<1>4. \A l : l \in OldLinks(S) <=> \E b \in S : l \in LinkOf(b, heads[b].content)
  BY DEF OldLinks
<1>5. /\ \A b \in S : heads'[b].content = contents[b]
      /\ \A b \in Blocks \ S : heads'[b] = heads[b]
  BY DEF AcceptedWrite, Write
<1>6. \A b, c : \A l : 
        l \in LinkOf(b, heads[b].content) /\ l \in LinkOf(c, heads[c].content) => b = c
  BY LinkOfFields
<1>7. \A l : l \in childIndex' <=>
        \E b \in Blocks : l \in LinkOf(b, heads'[b].content)
  <2> SUFFICES ASSUME NEW l
               PROVE  l \in childIndex' <=>
                        \E b \in Blocks : l \in LinkOf(b, heads'[b].content)
    OBVIOUS
  <2>1. CASE l \in NewLinks(contents)
    BY <2>1, <1>2, <1>3, <1>5
  <2>2. CASE l \notin NewLinks(contents)
    <3>1. ASSUME l \in childIndex'
          PROVE  \E b \in Blocks : l \in LinkOf(b, heads'[b].content)
      <4>1. PICK b \in Blocks : l \in LinkOf(b, heads[b].content)
        BY <1>1, <1>2, <2>2, <3>1
      <4>2. b \notin S
        BY <1>2, <1>4, <2>2, <3>1, <4>1
      <4> QED BY <4>1, <4>2, <1>5
    <3>2. ASSUME NEW b \in Blocks, l \in LinkOf(b, heads'[b].content)
          PROVE  l \in childIndex'
      <4>1. b \notin S
        BY <1>3, <1>5, <2>2, <3>2
      <4>2. l \in LinkOf(b, heads[b].content)
        BY <4>1, <3>2, <1>5
      <4>3. l \notin OldLinks(S)
        BY <4>1, <4>2, <1>4, <1>6
      <4> QED BY <4>2, <4>3, <1>1, <1>2
    <3> QED BY <3>1, <3>2
  <2> QED BY <2>1, <2>2
<1> QED BY <1>7 DEF IndexMatchesHeads
\* The heads after a batch.
LEMMA HeadsStep ==
  ASSUME NEW S \in SUBSET Blocks, NEW contents \in [S -> Content],
         NEW tx \in Txs, AcceptedWrite(S, contents, tx)
  PROVE  /\ \A b \in S : heads'[b].tx = tx /\ heads'[b].content = contents[b]
         /\ \A b \in Blocks \ S : heads'[b] = heads[b]
<1>1. /\ heads' = [b \in Blocks |->
                     IF b \in S THEN [tx |-> tx, content |-> contents[b]]
                     ELSE heads[b]]
  BY DEF AcceptedWrite, Write
<1>2. ASSUME NEW b \in S
      PROVE  heads'[b].tx = tx /\ heads'[b].content = contents[b]
  <2>1. b \in Blocks
    OBVIOUS
  <2> QED BY <1>1, <2>1
<1> QED BY <1>1, <1>2

\* The newest version of a block is its head.
LEMMA VersionsStep ==
  ASSUME TypeOK, VersionsOfHeads, RowsAreCommitted,
         NEW S \in SUBSET Blocks, NEW contents \in [S -> Content],
         NEW tx \in Txs, AcceptedWrite(S, contents, tx)
  PROVE  VersionsOfHeads'
<1> DEFINE New(b) == [block |-> b, tx |-> tx, content |-> contents[b]]
<1>1. \A v : v \in versions' <=> v \in versions \/ \E b \in S : v = New(b)
  BY DEF AcceptedWrite, Write
<1>2. \A v \in versions : v.tx \in Txs /\ v.tx < tx /\ v.block \in Blocks
  BY DEF AcceptedWrite, RowsAreCommitted, TypeOK, VersionRow
<1>3. /\ \A b \in S : heads'[b].tx = tx /\ heads'[b].content = contents[b]
      /\ \A b \in Blocks \ S : heads'[b] = heads[b]
  BY HeadsStep
<1>4. tx # None /\ \A b \in Blocks : heads[b].tx \in Int /\ tx \in Int
  BY DEF TypeOK, HeadRow, Revisions, Txs, None
<1>5. \A b \in Blocks :
        IF heads'[b].tx = None THEN heads'[b].content = Tombstone
        ELSE [block |-> b, tx |-> heads'[b].tx, content |-> heads'[b].content]
               \in versions'
  <2> SUFFICES ASSUME NEW b \in Blocks
               PROVE  IF heads'[b].tx = None THEN heads'[b].content = Tombstone
                      ELSE [block |-> b, tx |-> heads'[b].tx,
                            content |-> heads'[b].content] \in versions'
    OBVIOUS
  <2>1. CASE b \in S
    <3>1. heads'[b].tx = tx /\ heads'[b].content = contents[b]
      BY <2>1, <1>3
    <3>2. New(b) \in versions'
      BY <2>1, <1>1
    <3> QED BY <3>1, <3>2, <1>4
  <2>2. CASE b \notin S
    <3>1. heads'[b] = heads[b]
      BY <2>2, <1>3
    <3>2. \A v \in versions : v \in versions'
      BY <1>1
    <3> QED BY <3>1, <3>2 DEF VersionsOfHeads
  <2> QED BY <2>1, <2>2
<1>6. \A v \in versions' : v.tx =< heads'[v.block].tx
  <2>1. ASSUME NEW v \in versions
        PROVE  v.tx =< heads'[v.block].tx
    <3>1. CASE v.block \in S
      <4>1. heads'[v.block].tx = tx
        BY <3>1, <1>3
      <4> QED BY <4>1, <1>2, <1>4 DEF Txs
    <3>2. CASE v.block \notin S
      BY <3>2, <1>2, <1>3 DEF VersionsOfHeads
    <3> QED BY <3>1, <3>2
  <2>2. ASSUME NEW b \in S
        PROVE  New(b).tx =< heads'[New(b).block].tx
    <3>1. heads'[b].tx = tx
      BY <1>3
    <3> QED BY <3>1, <1>4
  <2> QED BY <2>1, <2>2, <1>1
<1>7. \A v, w \in versions' : v.block = w.block /\ v.tx = w.tx => v = w
  <2>1. \A v \in versions : v.tx # tx
    BY <1>2 DEF Txs
  <2> QED BY <2>1, <1>1 DEF VersionsOfHeads
<1> QED BY <1>5, <1>6, <1>7 DEF VersionsOfHeads

\* Every row belongs to a committed transaction.
LEMMA CommittedStep ==
  ASSUME TypeOK, RowsAreCommitted,
         NEW S \in SUBSET Blocks, NEW contents \in [S -> Content],
         NEW tx \in Txs, AcceptedWrite(S, contents, tx)
  PROVE  RowsAreCommitted' /\ LastTxExists'
<1> DEFINE New(b) == [block |-> b, tx |-> tx, content |-> contents[b]]
<1>1. /\ versions' = versions \cup {New(b) : b \in S}
      /\ txLog' = txLog \cup {tx}
      /\ changes' = changes \cup {<<tx, b>> : b \in S}
      /\ S # {}
  BY DEF AcceptedWrite, Write
<1>2. \A m \in memberships' : m.tx \in txLog'
  <2>1. \A m \in memberships' :
          m \in memberships \/ BatchMembership(S, contents, tx, m)
    BY NewMemberships
  <2>2. \A m : BatchMembership(S, contents, tx, m) => m.tx = tx
    BY DEF BatchMembership, MembershipOf
  <2> QED BY <1>1, <2>1, <2>2 DEF RowsAreCommitted
<1>3. changes' = {<<v.tx, v.block>> : v \in versions'}
  <2>1. {<<v.tx, v.block>> : v \in versions'}
          = {<<v.tx, v.block>> : v \in versions}
              \cup {<<New(b).tx, New(b).block>> : b \in S}
    BY <1>1
  <2>2. \A b \in S : New(b).tx = tx /\ New(b).block = b
    OBVIOUS
  <2> QED BY <1>1, <2>1, <2>2 DEF RowsAreCommitted
<1>4. txLog' = {v.tx : v \in versions'}
  <2>1. \A t : t \in {v.tx : v \in versions'} <=>
          t \in {v.tx : v \in versions} \/ t = tx
    <3>1. {v.tx : v \in versions'}
            = {v.tx : v \in versions} \cup {New(b).tx : b \in S}
      BY <1>1
    <3>2. \A b \in S : New(b).tx = tx
      OBVIOUS
    <3>3. PICK b : b \in S
      BY <1>1
    <3> QED BY <3>1, <3>2, <3>3
  <2> QED BY <1>1, <2>1 DEF RowsAreCommitted
<1>5. LastTxExists'
  <2>0. txLog \subseteq Int /\ tx \in Int /\ \A u \in txLog : u < tx
    BY DEF AcceptedWrite, TypeOK, Txs
  <2>1. \A u \in txLog' : u =< tx
    BY <1>1, <2>0
  <2>2. tx \in Revisions /\ tx \in txLog'
    BY <1>1 DEF Revisions
  <2> QED BY <2>1, <2>2 DEF LastTxExists, IsLastTx
<1> QED BY <1>2, <1>3, <1>4, <1>5 DEF RowsAreCommitted

\* A child's link and membership before and after a batch.
LEMMA LinkStep ==
  ASSUME TypeOK, NEW S \in SUBSET Blocks, NEW contents \in [S -> Content],
         NEW tx \in Txs, AcceptedWrite(S, contents, tx),
         NEW p \in Blocks, NEW b \in Blocks
  PROVE  /\ b \notin S => /\ ~Joined(S, contents, p, b)
                          /\ ~Left(S, contents, p, b)
                          /\ b \in KidsOf(CurrentTree, p)' <=>
                               b \in KidsOf(CurrentTree, p)
         /\ Joined(S, contents, p, b) => b \in KidsOf(CurrentTree, p)'
         /\ Left(S, contents, p, b) => b \notin KidsOf(CurrentTree, p)'
         /\ ~Joined(S, contents, p, b) /\ ~Left(S, contents, p, b) =>
              (b \in KidsOf(CurrentTree, p)' <=> b \in KidsOf(CurrentTree, p))
<1>0. None \notin Blocks
  BY BlocksAssumption DEF None
<1>1. b \in KidsOf(CurrentTree, p) <=>
        ~heads[b].content.deleted /\ heads[b].content.parent = p
  BY DEF KidsOf, LiveBlocks, CurrentTree
<1>2. b \in KidsOf(CurrentTree, p)' <=>
        ~heads'[b].content.deleted /\ heads'[b].content.parent = p
  BY DEF KidsOf, LiveBlocks, CurrentTree
<1>3. CASE b \notin S
  <2>1. \A l \in OldLinks(S) \cup NewLinks(contents) : l.child # b
    BY <1>3, LinksOfBatch, LinkOfFields
  <2>2. heads'[b] = heads[b]
    BY <1>3, HeadsStep
  <2> QED BY <1>1, <1>2, <1>3, <2>1, <2>2 DEF Joined, Left
<1>4. CASE b \in S
  <2> DEFINE old == [parent |-> p, position |-> heads[b].content.position, child |-> b]
             new == [parent |-> p, position |-> contents[b].position, child |-> b]
  <2>1. heads'[b].content = contents[b]
    BY <1>4, HeadsStep
  <2>2. \A l \in OldLinks(S) : l.parent = p /\ l.child = b =>
          l = old /\ b \in KidsOf(CurrentTree, p)
    BY <1>1, LinksOfBatch, LinkOfFields
  <2>3. \A l \in NewLinks(contents) : l.parent = p /\ l.child = b =>
          l = new /\ b \in KidsOf(CurrentTree, p)'
    BY <1>2, <2>1, LinksOfBatch, LinkOfFields
  <2>4. b \in KidsOf(CurrentTree, p) => old \in OldLinks(S)
    BY <1>0, <1>1, <1>4, LinksOfBatch DEF LinkOf
  <2>5. b \in KidsOf(CurrentTree, p)' => new \in NewLinks(contents)
    BY <1>0, <1>2, <1>4, <2>1, LinksOfBatch DEF LinkOf
  <2>6. old.parent = p /\ old.child = b /\ new.parent = p /\ new.child = b
    OBVIOUS
  <2> HIDE DEF old, new
  <2>7. Joined(S, contents, p, b) => b \in KidsOf(CurrentTree, p)'
    BY <2>3 DEF Joined
  <2>8. Left(S, contents, p, b) => b \notin KidsOf(CurrentTree, p)'
    <3> SUFFICES ASSUME Left(S, contents, p, b), b \in KidsOf(CurrentTree, p)'
                 PROVE  FALSE
      OBVIOUS
    <3>1. PICK l \in OldLinks(S) \ NewLinks(contents) : l.parent = p /\ l.child = b
      BY DEF Left
    <3>2. new \in NewLinks(contents) /\ new \in OldLinks(S)
      BY <2>5, <2>6 DEF Left, Joined
    <3>3. l = old /\ new = old
      BY <2>2, <2>6, <3>1, <3>2
    <3> QED BY <3>1, <3>2, <3>3
  <2>9. ASSUME ~Joined(S, contents, p, b), ~Left(S, contents, p, b)
        PROVE  b \in KidsOf(CurrentTree, p)' <=> b \in KidsOf(CurrentTree, p)
    <3>1. ASSUME b \in KidsOf(CurrentTree, p)'
          PROVE  b \in KidsOf(CurrentTree, p)
      <4>1. new \in OldLinks(S)
        BY <2>5, <2>6, <2>9, <3>1 DEF Joined
      <4> QED BY <4>1, <2>2, <2>6
    <3>2. ASSUME b \in KidsOf(CurrentTree, p)
          PROVE  b \in KidsOf(CurrentTree, p)'
      <4>1. old \in NewLinks(contents)
        BY <2>4, <2>6, <2>9, <3>2 DEF Left
      <4> QED BY <4>1, <2>3, <2>6
    <3> QED BY <3>1, <3>2
  <2> QED BY <1>4, <2>7, <2>8, <2>9
<1> QED BY <1>3, <1>4

\* The newest memberships are those of the heads.
LEMMA MembershipsStep ==
  ASSUME TypeOK, MembershipsOfHeads, RowsAreCommitted,
         NEW S \in SUBSET Blocks, NEW contents \in [S -> Content],
         NEW tx \in Txs, AcceptedWrite(S, contents, tx)
  PROVE  MembershipsOfHeads'
<1>1. \A m : m \in memberships' <=>
        m \in memberships \/ BatchMembership(S, contents, tx, m)
  BY NewMemberships
<1>2. \A m \in memberships : m.tx \in Int /\ m.tx < tx
  BY DEF RowsAreCommitted, AcceptedWrite, TypeOK, MembershipRow, Txs
<1>3. tx \in Int
  BY DEF Txs
<1>4. ASSUME NEW m, BatchMembership(S, contents, tx, m)
      PROVE  /\ m.tx = tx
             /\ m.parent \in Blocks /\ m.child \in Blocks
             /\ m.present \in BOOLEAN
             /\ m = MembershipOf(m.parent, m.child, tx, m.present)
             /\ m.present => Joined(S, contents, m.parent, m.child)
             /\ ~m.present => Left(S, contents, m.parent, m.child)
  <2>1. PICK p \in Blocks, b \in Blocks :
          \/ Joined(S, contents, p, b) /\ m = MembershipOf(p, b, tx, TRUE)
          \/ Left(S, contents, p, b) /\ m = MembershipOf(p, b, tx, FALSE)
    BY <1>4 DEF BatchMembership
  <2>2. CASE Joined(S, contents, p, b) /\ m = MembershipOf(p, b, tx, TRUE)
    BY <2>2 DEF MembershipOf
  <2>3. CASE Left(S, contents, p, b) /\ m = MembershipOf(p, b, tx, FALSE)
    BY <2>3 DEF MembershipOf
  <2> QED BY <2>1, <2>2, <2>3
<1>5. \A m \in memberships' : m.tx =< tx
  BY <1>1, <1>2, <1>3, <1>4
<1>6. \A m, n \in memberships' :
        m.parent = n.parent /\ m.child = n.child /\ m.tx = n.tx => m = n
  <2> SUFFICES ASSUME NEW m \in memberships', NEW n \in memberships',
                      m.parent = n.parent, m.child = n.child, m.tx = n.tx
               PROVE  m = n
    OBVIOUS
  <2>1. CASE m \in memberships /\ n \in memberships
    BY <2>1 DEF MembershipsOfHeads
  <2>2. CASE ~(m \in memberships /\ n \in memberships)
    <3>1. m.tx = tx /\ m \notin memberships /\ n \notin memberships
      BY <2>2, <1>1, <1>2, <1>3, <1>4
    <3>2. BatchMembership(S, contents, tx, m) /\ BatchMembership(S, contents, tx, n)
      BY <3>1, <1>1
    <3>3. m.present = n.present
      BY <3>2, <1>4 DEF Left
    <3> QED BY <3>2, <3>3, <1>4
  <2> QED BY <2>1, <2>2
<1>7. ASSUME NEW p \in Blocks, NEW b \in Blocks
      PROVE  IF b \in KidsOf(CurrentTree, p)' THEN EndsPresent(p, b)'
             ELSE EndsAbsent(p, b)'
  <2>1. CASE Joined(S, contents, p, b)
    <3> DEFINE m == MembershipOf(p, b, tx, TRUE)
    <3>1. m \in memberships'
      BY <2>1, <1>1 DEF BatchMembership
    <3>2. m.parent = p /\ m.child = b /\ m.present /\ m.tx = tx
      BY DEF MembershipOf
    <3>3. EndsPresent(p, b)'
      BY <3>1, <3>2, <1>5 DEF EndsPresent
    <3> QED BY <2>1, <3>3, LinkStep
  <2>2. CASE Left(S, contents, p, b)
    <3> DEFINE m == MembershipOf(p, b, tx, FALSE)
    <3>1. m \in memberships'
      BY <2>2, <1>1 DEF BatchMembership
    <3>2. m.parent = p /\ m.child = b /\ ~m.present /\ m.tx = tx
      BY DEF MembershipOf
    <3>3. EndsAbsent(p, b)'
      BY <3>1, <3>2, <1>5 DEF EndsAbsent
    <3> QED BY <2>2, <3>3, LinkStep
  <2>3. CASE ~Joined(S, contents, p, b) /\ ~Left(S, contents, p, b)
    <3>1. \A m : m \in memberships' /\ m.parent = p /\ m.child = b <=>
            m \in memberships /\ m.parent = p /\ m.child = b
      BY <2>3, <1>1, <1>4
    <3>2. EndsPresent(p, b)' <=> EndsPresent(p, b)
      BY <3>1 DEF EndsPresent
    <3>3. EndsAbsent(p, b)' <=> EndsAbsent(p, b)
      BY <3>1 DEF EndsAbsent
    <3>4. b \in KidsOf(CurrentTree, p)' <=> b \in KidsOf(CurrentTree, p)
      BY <2>3, LinkStep
    <3> QED BY <3>2, <3>3, <3>4 DEF MembershipsOfHeads
  <2> QED BY <2>1, <2>2, <2>3
<1> QED BY <1>6, <1>7 DEF MembershipsOfHeads

\* A read at a committed transaction does not see the rows of a new one.
LEMMA ReadsStep ==
  ASSUME TypeOK, NEW S \in SUBSET Blocks, NEW contents \in [S -> Content],
         NEW tx \in Txs, AcceptedWrite(S, contents, tx), NEW at \in txLog
  PROVE  /\ \A b \in Blocks : VersionAt(b, at)' = VersionAt(b, at)
         /\ \A p \in Blocks : ChildrenAt(p, at)' = ChildrenAt(p, at)
<1>1. at \in Int /\ tx \in Int /\ at < tx
  BY DEF TypeOK, AcceptedWrite, Txs
<1>2. \A b \in Blocks : VersionRows(b, at)' = VersionRows(b, at)
  <2>1. \A v : v \in versions' /\ v.tx =< at <=> v \in versions /\ v.tx =< at
    <3>1. versions' = versions \cup
             {[block |-> b, tx |-> tx, content |-> contents[b]] : b \in S}
      BY DEF AcceptedWrite, Write
    <3>2. \A b \in S : ~([block |-> b, tx |-> tx, content |-> contents[b]].tx =< at)
      BY <1>1
    <3> QED BY <3>1, <3>2
  <2> QED BY <2>1 DEF VersionRows
<1>3. \A b \in Blocks : VersionAt(b, at)' = VersionAt(b, at)
  BY <1>2 DEF VersionAt, Latest
<1>4. \A p, b \in Blocks : MembershipRows(p, b, at)' = MembershipRows(p, b, at)
  <2>1. \A m : m \in memberships' /\ m.tx =< at <=>
                m \in memberships /\ m.tx =< at
    <3>1. \A m : m \in memberships' <=>
            m \in memberships \/ BatchMembership(S, contents, tx, m)
      BY NewMemberships
    <3>2. \A m : BatchMembership(S, contents, tx, m) => ~(m.tx =< at)
      BY <1>1 DEF BatchMembership, MembershipOf
    <3> QED BY <3>1, <3>2
  <2> QED BY <2>1 DEF MembershipRows
<1>5. \A p, b \in Blocks : MemberAt(p, b, at)' = MemberAt(p, b, at)
  BY <1>4 DEF MemberAt, Latest
<1> QED BY <1>3, <1>5 DEF ChildrenAt
\* Read at the newest transaction, the history is the current tree.
NewestReadsAreHeads ==
  \A at \in Txs :
    (/\ \A v \in versions : v.tx =< at
     /\ \A m \in memberships : m.tx =< at)
    => /\ TreeAt(at) = CurrentTree
       /\ \A b \in Blocks : VersionAt(b, at) = heads[b]
       /\ \A p \in Blocks : ChildrenAt(p, at) = KidsOf(CurrentTree, p)

\* The newest reads are the current rows.
LEMMA NewestReads ==
  TypeOK /\ Topology /\ VersionsOfHeads /\ MembershipsOfHeads => NewestReadsAreHeads
  BY VersionsEndInHeads, MembershipsEndInTree
     DEF HeadsAreLatest, KidsAreLatest, TreeAt, CurrentTree, NewestReadsAreHeads

\* The reads at the transaction a batch just committed.
LEMMA NewTxReads ==
  ASSUME TypeOK, RowsAreCommitted, NewestReadsAreHeads',
         NEW S \in SUBSET Blocks, NEW contents \in [S -> Content],
         NEW tx \in Txs, AcceptedWrite(S, contents, tx)
  PROVE  /\ TreeAt(tx)' = CurrentTree'
         /\ \A b \in Blocks : VersionAt(b, tx)' = heads'[b]
         /\ \A p \in Blocks : ChildrenAt(p, tx)' = KidsOf(CurrentTree, p)'
<1>1. \A u \in txLog' : u =< tx
  BY DEF AcceptedWrite, Write, TypeOK, Txs
<1>2. RowsAreCommitted'
  BY CommittedStep
<1>3. /\ \A v \in versions' : v.tx =< tx
      /\ \A m \in memberships' : m.tx =< tx
  BY <1>1, <1>2 DEF RowsAreCommitted
<1> QED BY <1>3 DEF NewestReadsAreHeads

\* Every committed transaction still reads as a well formed tree.
LEMMA HistoryStep ==
  ASSUME TypeOK, RowsAreCommitted, HistoryIsTree, NewestReadsAreHeads', Topology',
         NEW S \in SUBSET Blocks, NEW contents \in [S -> Content],
         NEW tx \in Txs, AcceptedWrite(S, contents, tx)
  PROVE  HistoryIsTree'
<1> SUFFICES ASSUME NEW at \in txLog'
             PROVE  /\ WellFormed(TreeAt(at)')
                    /\ \A p \in Blocks : ChildrenAt(p, at)' = KidsOf(TreeAt(at)', p)
  BY DEF HistoryIsTree, WellFormed, WellPlaced, Acyclic, KidsOf, LiveBlocks
<1>1. at \in txLog \/ at = tx
  BY DEF AcceptedWrite, Write
<1>2. CASE at \in txLog
  <2>1. TreeAt(at)' = TreeAt(at)
    BY <1>2, ReadsStep DEF TreeAt
  <2> QED BY <1>2, <2>1, ReadsStep DEF HistoryIsTree
<1>3. CASE at = tx
  <2>1. TreeAt(at)' = CurrentTree'
    BY <1>3, NewTxReads
  <2>2. WellFormed(CurrentTree')
    BY DEF Topology, WellFormed, WellPlaced, Acyclic, LiveBlocks
  <2>3. \A p \in Blocks : ChildrenAt(p, at)' = KidsOf(CurrentTree', p)
    BY <1>3, NewTxReads DEF KidsOf, LiveBlocks
  <2> QED BY <2>1, <2>2, <2>3
<1> QED BY <1>1, <1>2, <1>3

\* An empty store satisfies the invariant.
LEMMA InitInvariant == Init => IInv
<1> SUFFICES ASSUME Init
             PROVE  IInv
  OBVIOUS
<1> USE DEF Init
<1>1. Missing \in HeadRow
  BY BoundsAssumption
     DEF Missing, Tombstone, HeadRow, Revisions, Content, ContentWith, Positions,
         Kinds, Fields, None
<1>2. TypeOK
  BY <1>1 DEF TypeOK
<1>3. LastTxExists
  BY DEF LastTxExists, IsLastTx, Revisions
<1>4. CurrentTree = [b \in Blocks |-> Tombstone] /\ LiveBlocks(CurrentTree) = {}
  BY DEF CurrentTree, Missing, Tombstone, LiveBlocks
<1>5. Topology
  BY <1>4 DEF Topology, WellFormed, WellPlaced, Acyclic
<1>6. IndexMatchesHeads
  BY DEF IndexMatchesHeads, LinkOf, Missing, Tombstone
<1>7. VersionsOfHeads
  BY DEF VersionsOfHeads, Missing
<1>8. MembershipsOfHeads
  BY <1>4 DEF MembershipsOfHeads, KidsOf, EndsAbsent
<1>9. RowsAreCommitted
  BY DEF RowsAreCommitted
<1>10. HistoryIsTree
  BY DEF HistoryIsTree
<1> QED BY <1>2, <1>3, <1>5, <1>6, <1>7, <1>8, <1>9, <1>10 DEF IInv

\* An accepted batch keeps the invariant, whoever writes it.
LEMMA WriteInvariant ==
  ASSUME IInv, NEW S \in SUBSET Blocks, NEW contents \in [S -> Content],
         NEW tx \in Txs, AcceptedWrite(S, contents, tx)
  PROVE  IInv'
<1>2. TypeOK'
  BY TypeStep DEF IInv
<1>3. Topology'
  BY TopologyStep DEF IInv
<1>4. IndexMatchesHeads'
  BY IndexStep DEF IInv
<1>5. VersionsOfHeads'
  BY VersionsStep DEF IInv
<1>6. MembershipsOfHeads'
  BY MembershipsStep DEF IInv
<1>7. RowsAreCommitted' /\ LastTxExists'
  BY CommittedStep DEF IInv
<1>8. NewestReadsAreHeads'
  BY <1>2, <1>3, <1>5, <1>6, NewestReads, PTL
<1>9. HistoryIsTree'
  BY <1>3, <1>8, HistoryStep DEF IInv
<1> QED BY <1>2, <1>3, <1>4, <1>5, <1>6, <1>7, <1>9 DEF IInv

\* So does a step that leaves the rows alone.
LEMMA StutterInvariant ==
  ASSUME IInv, UNCHANGED vars
  PROVE  IInv'
<1> USE DEF IInv, vars
<1>1. TypeOK' /\ LastTxExists'
  BY DEF TypeOK, LastTxExists, IsLastTx
<1>2. CurrentTree' = CurrentTree
  BY DEF CurrentTree
<1>3. Topology'
  <2>1. Topology' <=> WellFormed(CurrentTree')
    BY DEF Topology, WellFormed, WellPlaced, Acyclic, LiveBlocks
  <2>2. Topology <=> WellFormed(CurrentTree)
    BY DEF Topology
  <2> QED BY <1>2, <2>1, <2>2
<1>4. IndexMatchesHeads' /\ VersionsOfHeads' /\ RowsAreCommitted'
  <2>1. IndexMatchesHeads'
    BY DEF IndexMatchesHeads
  <2>2. VersionsOfHeads'
    BY DEF VersionsOfHeads
  <2>3. RowsAreCommitted'
    BY DEF RowsAreCommitted
  <2> QED BY <2>1, <2>2, <2>3
<1>5. MembershipsOfHeads'
  BY <1>2 DEF MembershipsOfHeads, EndsPresent, EndsAbsent, KidsOf, LiveBlocks
<1>6. \A b, at : VersionAt(b, at)' = VersionAt(b, at)
  BY DEF VersionAt, VersionRows, Latest
<1>7. \A p, at : ChildrenAt(p, at)' = ChildrenAt(p, at)
  <2>1. \A p, b, at : MembershipRows(p, b, at)' = MembershipRows(p, b, at)
    BY DEF MembershipRows
  <2>2. \A p, b, at : MemberAt(p, b, at)' = MemberAt(p, b, at)
    BY <2>1 DEF MemberAt, Latest
  <2> QED BY <1>6, <2>2 DEF ChildrenAt
<1>8. HistoryIsTree'
  <2>1. \A at : TreeAt(at)' = TreeAt(at)
    BY <1>6 DEF TreeAt
  <2>2. HistoryIsTree' <=>
          \A at \in txLog' :
            /\ WellFormed(TreeAt(at)')
            /\ \A p \in Blocks : ChildrenAt(p, at)' = KidsOf(TreeAt(at)', p)
    BY DEF HistoryIsTree, WellFormed, WellPlaced, Acyclic, KidsOf, LiveBlocks
  <2> QED BY <1>7, <2>1, <2>2 DEF HistoryIsTree
<1> QED BY <1>1, <1>3, <1>4, <1>5, <1>8

\* Every step of the store keeps it.
LEMMA StepInvariant == IInv /\ [Next]_vars => IInv'
<1>1. ASSUME IInv, Next
      PROVE  IInv'
  <2>1. PICK S \in SUBSET Blocks :
          \E contents \in [S -> Content], tx \in Txs : AcceptedWrite(S, contents, tx)
    BY <1>1, ApplyIsAcceptedWrite DEF IInv, Next
  <2> QED BY <1>1, <2>1, WriteInvariant
<1>2. ASSUME IInv, UNCHANGED vars
      PROVE  IInv'
  BY <1>2, StutterInvariant
<1> QED BY <1>1, <1>2

-----------------------------------------------------------------------------
(***************************************************************************)
(* The theorems.                                                           *)
(***************************************************************************)
LEMMA Invariance == Spec => []IInv
  BY InitInvariant, StepInvariant, PTL DEF Spec

\* Type correctness of the six row families (documents/records.rs).
THEOREM TypeCorrect == Spec => []TypeOK
  BY Invariance, PTL DEF IInv

\* Checking only the edited blocks (apply_inner) keeps the whole tree a forest.
THEOREM TopologyHolds == Spec => []Topology
  BY Invariance, PTL DEF IInv

\* The incremental index maintenance of apply_inner never drifts from the heads.
THEOREM IndexHolds == Spec => []IndexMatchesHeads
  BY Invariance, PTL DEF IInv

\* Every committed transaction stays readable as the well-formed tree it was.
THEOREM HistoryHolds == Spec => []HistoryIsTree
  BY Invariance, PTL DEF IInv

\* The head of a block is its newest version and the change log is complete.
THEOREM HeadsHistoryHolds == Spec => []HeadsMatchHistory
<1>1. IInv => HeadsMatchHistory
  <2> SUFFICES ASSUME IInv
               PROVE  HeadsMatchHistory
    OBVIOUS
  <2>1. ASSUME NEW b \in Blocks
        PROVE  VersionAt(b, MaxTx) = heads[b]
    <3>1. \A v \in versions : v.tx =< MaxTx /\ v.tx \in Txs
      BY BoundsAssumption DEF IInv, TypeOK, VersionRow, Txs
    <3>2. CASE MaxTx \in Txs
      BY <3>1, <3>2, VersionsEndInHeads DEF IInv, HeadsAreLatest
    <3>3. CASE MaxTx \notin Txs
      <4>1. Txs = {}
        BY <3>3, BoundsAssumption DEF Txs
      <4>2. versions = {} /\ heads[b].tx = None
        BY <4>1, <3>1 DEF IInv, TypeOK, HeadRow, Revisions
      <4>3. heads[b] = Missing
        BY <4>2 DEF IInv, TypeOK, HeadRow, VersionsOfHeads, Missing
      <4> QED BY <4>2, <4>3 DEF VersionAt, VersionRows
    <3> QED BY <3>2, <3>3
  <2> QED BY <2>1 DEF IInv, RowsAreCommitted, HeadsMatchHistory
<1> QED BY <1>1, Invariance, PTL

\* A reader pinned to a committed transaction sees the same blocks and
\* children for ever (latest_transaction: "remain coherent").
THEOREM CommittedReadsHold == Spec => ReadsAtCommittedTxAreStable
<1>1. IInv /\ [Next]_vars =>
        [\A at \in txLog, b \in Blocks :
           /\ VersionAt(b, at)' = VersionAt(b, at)
           /\ ChildrenAt(b, at)' = ChildrenAt(b, at)]_vars
  <2> SUFFICES ASSUME IInv, Next, NEW at \in txLog, NEW b \in Blocks
               PROVE  /\ VersionAt(b, at)' = VersionAt(b, at)
                      /\ ChildrenAt(b, at)' = ChildrenAt(b, at)
    OBVIOUS
  <2>1. PICK S \in SUBSET Blocks :
          \E contents \in [S -> Content], tx \in Txs : AcceptedWrite(S, contents, tx)
    BY ApplyIsAcceptedWrite DEF IInv, Next
  <2> QED BY <2>1, ReadsStep DEF IInv
<1> QED BY <1>1, Invariance, PTL DEF Spec, ReadsAtCommittedTxAreStable
-----------------------------------------------------------------------------
(***************************************************************************)
(* The refinement: the row families implement the versioned forest.        *)
(***************************************************************************)
Past ==
  [at \in txLog |-> [blocks |-> [b \in Blocks |-> VersionAt(b, at)],
                    kids   |-> [p \in Blocks |-> ChildrenAt(p, at)]]]

Kids == [p \in Blocks |-> ChildrenNow(p)]

\* The instance's definitions about trees are the ones used here.
LEMMA SameTrees ==
  /\ \A f : Forest!WellFormed(f) <=> WellFormed(f)
  /\ \A f, p : Forest!KidsOf(f, p) = KidsOf(f, p)
  /\ Forest!Txs = Txs
  /\ [Blocks -> [tx : Forest!Revisions, content : Forest!Content]] = [Blocks -> HeadRow]
<1>1. /\ Forest!None = None /\ Forest!Txs = Txs /\ Forest!Revisions = Revisions
      /\ Forest!Kinds = Kinds /\ Forest!Fields = Fields
      /\ Forest!Positions = Positions
  BY DEF Forest!None, None, Forest!Txs, Txs, Forest!Revisions, Revisions,
         Forest!Kinds, Kinds, Forest!Fields, Fields, Forest!Positions, Positions
<1>2. Forest!Content = Content
  BY <1>1 DEF Forest!Content, Content, Forest!ContentWith, ContentWith
<1>3. /\ \A k, c : Forest!Accepts(k, c) <=> Accepts(k, c)
      /\ \A c : Forest!Canonical(c) <=> Canonical(c)
  BY <1>1 DEF Forest!Accepts, Accepts, Forest!Canonical, Canonical,
              Forest!Containable, Containable, Forest!FieldsOf, FieldsOf
<1>4. \A f : Forest!LiveBlocks(f) = LiveBlocks(f)
  BY DEF Forest!LiveBlocks, LiveBlocks
<1>5. \A f : Forest!WellFormed(f) <=> WellFormed(f)
  BY <1>1, <1>3, <1>4 DEF Forest!WellFormed, WellFormed, Forest!WellPlaced,
     WellPlaced, Forest!Acyclic, Acyclic
<1>6. \A f, p : Forest!KidsOf(f, p) = KidsOf(f, p)
  BY <1>4 DEF Forest!KidsOf, KidsOf
<1> QED BY <1>1, <1>2, <1>5, <1>6 DEF HeadRow

\* An empty store is an empty forest.
LEMMA InitRefines == Init => Forest!Init
<1> SUFFICES ASSUME Init
             PROVE  Forest!Init
  OBVIOUS
<1> USE DEF Init
<1>1. heads = [b \in Blocks |-> [tx |-> Forest!None, content |-> Forest!Tombstone]]
  BY DEF Missing, Forest!None, None, Forest!Tombstone, Tombstone
<1>2. Kids = [p \in Blocks |-> {}]
  BY DEF Kids, ChildrenNow, Missing, Tombstone
<1>3. Past = [t \in {} |-> {}]
  BY DEF Past
<1> QED BY <1>1, <1>2, <1>3 DEF Forest!Init, Kids, Past

\* An accepted batch is one commit of the versioned forest.
LEMMA WriteRefines ==
  ASSUME IInv, IInv', NEW S \in SUBSET Blocks, NEW contents \in [S -> Content],
         NEW tx \in Txs, AcceptedWrite(S, contents, tx)
  PROVE  Forest!Next
<1>3. txLog' = txLog \cup {tx} /\ S # {} /\ \A u \in txLog : u < tx
  BY DEF AcceptedWrite, Write
<1>4. heads' \in [Blocks -> [tx : Forest!Revisions, content : Forest!Content]]
  BY SameTrees DEF IInv, TypeOK
<1>5. Forest!Tree' = CurrentTree' /\ Forest!WellFormed(Forest!Tree')
  <2>1. Forest!Tree' = CurrentTree'
    BY DEF Forest!Tree, CurrentTree
  <2>2. WellFormed(CurrentTree')
    BY DEF IInv, Topology, WellFormed, WellPlaced, Acyclic, LiveBlocks
  <2> QED BY <2>1, <2>2, SameTrees
<1>6. \A b \in Blocks : IF b \in S THEN heads'[b].tx = tx ELSE heads'[b] = heads[b]
  BY HeadsStep
<1>7. \A p \in Blocks : ChildrenNow(p)' = KidsOf(CurrentTree', p)
  <2>1. TypeOK' /\ Topology' /\ IndexMatchesHeads'
    BY DEF IInv
  <2>2. (\A p \in Blocks : ChildrenNow(p) = KidsOf(CurrentTree, p))'
    BY <2>1, IndexGivesChildren, PTL
  <2> QED BY <2>2 DEF KidsOf, LiveBlocks
<1>8. Kids' = [p \in Blocks |-> Forest!KidsOf(Forest!Tree', p)]
  BY <1>5, <1>7, SameTrees DEF Kids
<1>9. \A at \in txLog : Past'[at] = Past[at]
  <2>1. ASSUME NEW at \in txLog
        PROVE  Past'[at] = Past[at]
    <3>1. at \in txLog'
      BY <1>3
    <3>2. [b \in Blocks |-> VersionAt(b, at)]' = [b \in Blocks |-> VersionAt(b, at)]
      BY ReadsStep DEF IInv
    <3>3. [p \in Blocks |-> ChildrenAt(p, at)]' = [p \in Blocks |-> ChildrenAt(p, at)]
      BY ReadsStep DEF IInv
    <3> QED BY <3>1, <3>2, <3>3 DEF Past
  <2> QED BY <2>1
<1>10. Past'[tx] = [blocks |-> heads', kids |-> Kids']
  <2>1. NewestReadsAreHeads'
    BY NewestReads, PTL DEF IInv
  <2>2. /\ \A b \in Blocks : VersionAt(b, tx)' = heads'[b]
        /\ \A p \in Blocks : ChildrenAt(p, tx)' = KidsOf(CurrentTree, p)'
    BY <2>1, NewTxReads DEF IInv
  <2>3. [b \in Blocks |-> VersionAt(b, tx)]' = heads'
    BY <2>2 DEF IInv, TypeOK
  <2>4. [p \in Blocks |-> ChildrenAt(p, tx)]' = Kids'
    BY <2>2, <1>7 DEF Kids, KidsOf, LiveBlocks
  <2> QED BY <1>3, <2>3, <2>4 DEF Past
<1>11. Past' = [u \in DOMAIN Past \cup {tx} |->
                  IF u = tx THEN [blocks |-> heads', kids |-> Kids']
                  ELSE Past[u]]
  BY <1>3, <1>9, <1>10 DEF Past
<1>12. DOMAIN Past = txLog
  BY DEF Past
<1>13. Forest!Commit(tx)
  BY <1>3, <1>4, <1>5, <1>6, <1>8, <1>11, <1>12 DEF Forest!Commit, Past, Kids
<1> QED BY <1>13, SameTrees DEF Forest!Next

\* A step that leaves the rows alone leaves what is read from them alone.
LEMMA StutterRefines ==
  ASSUME UNCHANGED vars
  PROVE  UNCHANGED Forest!fvars
<1>1. \A b, at : VersionAt(b, at)' = VersionAt(b, at)
  BY DEF vars, VersionAt, VersionRows, Latest
<1>2. \A p, b, at : MembershipRows(p, b, at)' = MembershipRows(p, b, at)
  BY DEF vars, MembershipRows
<1>3. \A p, b, at : MemberAt(p, b, at)' = MemberAt(p, b, at)
  BY <1>2 DEF MemberAt, Latest
<1>4. \A p, at : ChildrenAt(p, at)' = ChildrenAt(p, at)
  BY <1>1, <1>3 DEF ChildrenAt
<1>5. Past' = Past
  BY <1>1, <1>4 DEF vars, Past
<1>6. Kids' = Kids
  BY DEF vars, Kids, ChildrenNow
<1> QED BY <1>5, <1>6 DEF vars, Forest!fvars, Past, Kids

\* Every step of the store is a step of the abstract forest or a stutter.
LEMMA StepRefines == IInv /\ IInv' /\ [Next]_vars => [Forest!Next]_Forest!fvars
<1>1. ASSUME IInv, IInv', Next
      PROVE  Forest!Next
  <2>1. PICK S \in SUBSET Blocks :
          \E contents \in [S -> Content], tx \in Txs : AcceptedWrite(S, contents, tx)
    BY <1>1, ApplyIsAcceptedWrite DEF IInv, Next
  <2> QED BY <1>1, <2>1, WriteRefines
<1>2. ASSUME UNCHANGED vars
      PROVE  UNCHANGED Forest!fvars
  BY <1>2, StutterRefines
<1> QED BY <1>1, <1>2

\* The document store implements the versioned forest: each batch is one
\* atomic change of the whole tree, and all earlier trees stay readable.
THEOREM Refinement == Spec => ImplementsForest
  BY InitRefines, StepRefines, Invariance, PTL
     DEF Spec, ImplementsForest, Forest!Spec
=============================================================================
