----------------------------- MODULE DocPlanner -----------------------------
(***************************************************************************)
(* Relative placement (documents/placement.rs). One transact call holds    *)
(* the write lock, plans its operations in order against the current rows  *)
(* overlaid by the edits staged so far, and commits the staged edits once. *)
(* A plan is a sequence of steps here; the lock is the variable planning.  *)
(***************************************************************************)
EXTENDS DocStore

CONSTANTS
  Gap,          \* the distance between fresh ranks (1024)
  MaxOps,       \* operations of one transact call (1000)
  MaxSiblings   \* a rebalance must meet fewer siblings than this (1000)

ASSUME PlannerAssumption ==
  /\ IsFiniteSet(Blocks)           \* 128-bit numbers
  /\ Gap \in Nat \ {0}
  /\ MaxOps \in Nat
  /\ MaxSiblings \in Nat \ {0}
  /\ MaxSiblings * Gap =< MaxPos   \* 1000 fresh ranks fit an i64

VARIABLES
  planning,  \* a transact call holds the write lock
  pending,   \* Planner::pending: block -> the edit staged for it
  ops,       \* operations planned so far
  asked      \* history: the operation planned last, <<block, placement>>

pvars == <<planning, pending, ops, asked>>
planVars == <<vars, pvars>>

NoEdits == [b \in {} |-> {}]
NoPlacement == [at |-> "Anywhere"]   \* what a Put asks for

PlanInit ==
  /\ Init
  /\ planning = FALSE
  /\ pending = NoEdits
  /\ ops = 0
  /\ asked = <<None, NoPlacement>>

-----------------------------------------------------------------------------
(***************************************************************************)
(* The overlay: a staged edit hides the head and the index entry.          *)
(***************************************************************************)
Planned(b) ==
  IF b \in DOMAIN pending THEN pending[b]
  ELSE [expected |-> heads[b].tx, content |-> heads[b].content]

KeyOf(b, c) == [position |-> c.position, child |-> b]

\* The sibling keys under a parent, without the block being placed.
SiblingKeys(parent, exclude) ==
  {[position |-> l.position, child |-> l.child] :
     l \in {k \in childIndex : /\ k.parent = parent
                               /\ k.child \notin DOMAIN pending \cup {exclude}}}
  \cup
  {KeyOf(b, pending[b].content) :
     b \in {x \in DOMAIN pending \ {exclude} :
              /\ ~pending[x].content.deleted
              /\ pending[x].content.parent = parent}}

\* Sibling order: by rank, then by block id.
Precedes(j, k) ==
  \/ j.position < k.position
  \/ j.position = k.position /\ j.child < k.child

\* At most one key: the nearest on either side of the keys in Pivot.
NextOf(keys, Pivot) ==
  LET later == {k \in keys : \A p \in Pivot : Precedes(p, k)}
  IN  {k \in later : \A j \in later : ~Precedes(j, k)}

PrevOf(keys, Pivot) ==
  LET earlier == {k \in keys : \A p \in Pivot : Precedes(k, p)}
  IN  {k \in earlier : \A j \in earlier : ~Precedes(k, j)}

\* Mutant: adjacent ranks count as room between them.
FreeRankTied(left, right) ==
  CASE left = {} /\ right = {} -> {Gap}
    [] left = {} /\ right # {} ->
         {r.position \div 2 : r \in {k \in right : k.position > 0}}
    [] left # {} /\ right = {} ->
         {l.position + Gap : l \in {k \in left : k.position + Gap =< MaxPos}}
    [] OTHER ->
         {n[1].position + (n[2].position - n[1].position) \div 2 :
            n \in {m \in left \X right : m[2].position - m[1].position > 0}}

(***************************************************************************)
(* The rank between two optional neighbours, as a set of at most one rank; *)
(* it is empty when there is no room and the siblings must be rebalanced.  *)
(***************************************************************************)
FreeRank(left, right) ==
  CASE left = {} /\ right = {} -> {Gap}
    [] left = {} /\ right # {} ->
         {r.position \div 2 : r \in {k \in right : k.position > 0}}
    [] left # {} /\ right = {} ->
         {l.position + Gap : l \in {k \in left : k.position + Gap =< MaxPos}}
    [] OTHER ->
         {n[1].position + (n[2].position - n[1].position) \div 2 :
            n \in {m \in left \X right : m[2].position - m[1].position > 1}}

(***************************************************************************)
(* Rebalance: fresh ranks in the old order, leaving the gap at index.      *)
(***************************************************************************)
IndexOf(keys, k) == Cardinality({j \in keys : Precedes(j, k)})

\* Mutant: only the siblings after the gap get fresh ranks.
FreshRankTail(keys, index, k) ==
  LET i == IndexOf(keys, k) IN IF i >= index THEN (i + 2) * Gap ELSE k.position

FreshRank(keys, index, k) ==
  LET i == IndexOf(keys, k) IN (IF i >= index THEN i + 2 ELSE i + 1) * Gap

Moved(keys, index) == {k \in keys : k.position # FreshRank(keys, index, k)}

Rebalanced(keys, index) ==
  LET moved == Moved(keys, index)
      KeyFor(b) == CHOOSE k \in moved : k.child = b
      Ranked(b) == [Planned(b) EXCEPT
                      !.content.position = FreshRank(keys, index, KeyFor(b))]
      ids == {k.child : k \in moved}
  IN  [b \in DOMAIN pending \cup ids |->
         IF b \in ids THEN Ranked(b) ELSE pending[b]]

-----------------------------------------------------------------------------
(***************************************************************************)
(* Planner::stage, on the edits staged so far.                             *)
(***************************************************************************)
Staged(edits, b, expected, content) ==
  [x \in DOMAIN edits \cup {b} |->
     IF x = b THEN [expected |-> expected, content |-> content] ELSE edits[x]]

Stage(edits, b, expected, content) ==
  /\ content.position >= 0
  /\ Planned(b).expected = expected
  /\ pending' = Staged(edits, b, expected, content)
  /\ Cardinality(DOMAIN pending') =< MaxEdits

Planning == planning /\ ops < MaxOps

Put(b, expected, content) ==
  /\ Planning
  /\ Stage(pending, b, expected, content)
  /\ ops' = ops + 1
  /\ asked' = <<b, NoPlacement>>
  /\ UNCHANGED <<vars, planning>>

(***************************************************************************)
(* Planner::place. A placement is First or Last below a parent, or Before  *)
(* or After an anchor whose planned revision the caller names.             *)
(***************************************************************************)
EndPlacements == [at : {"First", "Last"}, parent : Blocks]
AnchorPlacements == [at : {"Before", "After"}, anchor : Blocks, expected : Revisions]

ValidAnchor(b, place) ==
  LET a == Planned(place.anchor)
  IN  /\ place.anchor # b
      /\ a.expected = place.expected /\ ~a.content.deleted   \* else stale
      /\ a.content.parent # None

AnchorKeys(place) ==
  IF place \in EndPlacements THEN {}
  ELSE {KeyOf(place.anchor, Planned(place.anchor).content)}

ParentOf(place) ==
  IF place \in EndPlacements THEN place.parent
  ELSE Planned(place.anchor).content.parent

LeftOf(keys, place) ==
  CASE place.at = "First"  -> {}
    [] place.at = "Last"   -> PrevOf(keys, {})
    [] place.at = "Before" -> PrevOf(keys, AnchorKeys(place))
    [] place.at = "After"  -> AnchorKeys(place)

RightOf(keys, place) ==
  CASE place.at = "First"  -> NextOf(keys, {})
    [] place.at = "Last"   -> {}
    [] place.at = "Before" -> AnchorKeys(place)
    [] place.at = "After"  -> NextOf(keys, AnchorKeys(place))

InsertIndex(keys, place) ==
  CASE place.at = "First" -> 0
    [] place.at = "Last"  -> Cardinality(keys)
    [] OTHER -> LET i == IndexOf(keys, CHOOSE k \in AnchorKeys(place) : TRUE)
                IN  IF place.at = "After" THEN i + 1 ELSE i

Place(b, expected, content, place) ==
  LET parent == ParentOf(place)
      keys   == SiblingKeys(parent, b)
      rank   == FreeRank(LeftOf(keys, place), RightOf(keys, place))
      index  == InsertIndex(keys, place)
      At(pos) == [content EXCEPT !.parent = parent, !.position = pos]
  IN  /\ Planning
      /\ ~content.deleted
      /\ place \in AnchorPlacements => ValidAnchor(b, place)
      /\ \/ \E pos \in rank : Stage(pending, b, expected, At(pos))
         \/ /\ rank = {}
            /\ Cardinality(keys) < MaxSiblings
            /\ Cardinality(DOMAIN Rebalanced(keys, index)) =< MaxEdits
            /\ Stage(Rebalanced(keys, index), b, expected, At((index + 1) * Gap))
      /\ ops' = ops + 1
      /\ asked' = <<b, place>>
      /\ UNCHANGED <<vars, planning>>

-----------------------------------------------------------------------------
(***************************************************************************)
(* transact: take the lock, plan, then commit the whole plan or nothing.   *)
(***************************************************************************)
Begin ==
  /\ ~planning
  /\ planning' = TRUE
  /\ UNCHANGED <<vars, pending, ops, asked>>

Finish ==
  /\ planning' = FALSE
  /\ pending' = NoEdits
  /\ ops' = 0
  /\ asked' = <<None, NoPlacement>>

\* apply_inner checks every revision again before it validates and writes.
CommitPlan ==
  /\ planning /\ ops > 0
  /\ Current([b \in DOMAIN pending |-> pending[b].expected])
  /\ Commit([b \in DOMAIN pending |-> pending[b].content])
  /\ Finish

\* A rejected operation or plan drops every staged edit and the lock.
Abort == planning /\ Finish /\ UNCHANGED vars

\* Mutant: a plain apply does not take the lock.
ApplyUnlocked == Apply /\ UNCHANGED pvars

\* A plain apply waits for the lock.
ApplyDirect == ~planning /\ Apply /\ UNCHANGED pvars

PlanNext ==
  \/ Begin
  \/ \E b \in Blocks, expected \in Revisions, content \in Contents :
       \/ Put(b, expected, content)
       \/ \E place \in EndPlacements : Place(b, expected, content, place)
       \/ \E place \in AnchorPlacements : Place(b, expected, content, place)
  \/ CommitPlan
  \/ Abort
  \/ ApplyDirect

PlanSpec == PlanInit /\ [][PlanNext]_planVars
-----------------------------------------------------------------------------
(***************************************************************************)
(* Properties.                                                             *)
(***************************************************************************)
\* Every staged edit names the committed head it will replace, so the second
\* revision check of apply_inner cannot fail: no writer gets in between.
PlanIsCurrent ==
  \A b \in DOMAIN pending : pending[b].expected = heads[b].tx

\* A placed block is the first or last child, or the direct neighbour of its
\* anchor, in the overlay: no sibling sits between, whatever the ranks were,
\* and its own rank is a nonnegative i64.
PlacedWhereAsked ==
  LET b == asked[1]
      place == asked[2]
  IN  place # NoPlacement =>
        LET own  == KeyOf(b, Planned(b).content)
            keys == SiblingKeys(ParentOf(place), b)
        IN  /\ Planned(b).content.parent = ParentOf(place)
            /\ ~Planned(b).content.deleted
            /\ Planned(b).content.position \in Positions
            /\ LeftOf(keys, place) = PrevOf(keys, {own})
            /\ RightOf(keys, place) = NextOf(keys, {own})

\* An operation moves one block: under every parent the other siblings stay,
\* in the order they had, even when a rebalance rewrites all their ranks.
SameOrderBut(b, p) ==
  LET old == SiblingKeys(p, b)
      new == SiblingKeys(p, b)'
  IN  /\ {k.child : k \in old} = {k.child : k \in new}
      /\ \A j, k \in old, m, n \in new :
           j.child = m.child /\ k.child = n.child =>
             (Precedes(j, k) <=> Precedes(m, n))

OperationsMoveOneBlock ==
  [][ops' > ops => \A b, p \in Blocks : asked'[1] = b => SameOrderBut(b, p)]_planVars
=============================================================================
