------------------------------ MODULE DocReads ------------------------------
(***************************************************************************)
(* The reads of the document store that return many rows: histories by the *)
(* page, and trees by a walk with an explicit stack and a budget that      *)
(* counts the blocks returned and the blocks still stacked before any of   *)
(* their children is loaded; and the export of a tree that was read        *)
(* (documents/mod.rs, document-model.mjs).                                 *)
(***************************************************************************)
EXTENDS DocStore, SequencesExt

ASSUME ReadsAssumption == IsFiniteSet(Blocks)   \* 128-bit numbers

Now == None   \* at: None reads the current rows

ContentAt(b, at) ==
  IF at = Now THEN heads[b].content ELSE VersionAt(b, at).content

KidsAt(p, at) == IF at = Now THEN ChildrenNow(p) ELSE ChildrenAt(p, at)

\* result.sort_by_key(|b| (b.content.position, b.id))
InOrder(a, b, at) ==
  LET p == ContentAt(a, at).position
      q == ContentAt(b, at).position
  IN  p < q \/ (p = q /\ a < b)

\* The members of a set in the order of a relation.
Sorted(S, R) ==
  [k \in 1 .. Cardinality(S) |->
     CHOOSE x \in S : Cardinality({y \in S : <<y, x>> \in R}) = k]

ByRank(blocks, at) ==
  Sorted(blocks, {e \in blocks \X blocks : e[1] = e[2] \/ InOrder(e[1], e[2], at)})

Siblings(p, at) == ByRank(KidsAt(p, at), at)

\* Mutant: the block just popped is counted among the stacked ones as well.
RoomTwice(w, budget) == budget - Len(w.result) - Len(w.stack) - 1

\* The children that may still be loaded; a negative count would wrap round.
Room(w, budget) == budget - Len(w.result) - (Len(w.stack) - 1) - 1

Ended(w, answer) == [w EXCEPT !.stack = <<>>, !.answer = answer]

\* children.into_iter().rev(): the first child is popped next.
Stacked(kids, level) ==
  Reverse([i \in DOMAIN kids |-> [block |-> kids[i], level |-> level]])

\* One turn of the loop: pop a block, stack its children, return the block.
Visit(w, at, depth, budget) ==
  LET top   == Last(w.stack)
      opens == top.level < depth
      kids  == IF opens THEN Siblings(top.block, at) ELSE <<>>
  IN  CASE Len(w.result) = budget         -> Ended(w, "refused")
        [] opens /\ Room(w, budget) < 0   -> Ended(w, "wrapped")
        [] Len(kids) > Room(w, budget)    -> Ended(w, "refused")
        [] OTHER ->
             [w EXCEPT !.result = Append(@, top.block),
                       !.stack = Front(@) \o Stacked(kids, top.level + 1)]

\* A walk takes one turn per block it returns, and perhaps one to refuse.
Subtree(root, at, depth, budget) ==
  LET start == IF ContentAt(root, at).deleted THEN <<>>
               ELSE <<[block |-> root, level |-> 0]>>
      after[turn \in 0 .. budget + 1] ==
        IF turn = 0 THEN [result |-> <<>>, stack |-> start, answer |-> "blocks"]
        ELSE LET w == after[turn - 1]
             IN  IF w.stack = <<>> THEN w ELSE Visit(w, at, depth, budget)
  IN  after[budget + 1]

-----------------------------------------------------------------------------
(***************************************************************************)
(* Histories and transactions.                                             *)
(***************************************************************************)
\* history: newest first, the bound is inclusive.
History(b, before, limit) ==
  LET rows == VersionRows(b, before)
      list == Sorted(rows, {e \in rows \X rows : e[1].tx >= e[2].tx})
  IN  SubSeq(list, 1, IF limit < Len(list) THEN limit ELSE Len(list))

LatestTransaction == CHOOSE t \in txLog \cup {None} : \A u \in txLog : u =< t

ChangedBlocks(t) == {b \in Blocks : <<t, b>> \in changes}

-----------------------------------------------------------------------------
(***************************************************************************)
(* exportDocument: the blocks of a snapshot are put together again by the  *)
(* parent each of them names, in the order of positions and then of ids.   *)
(* What a title or a body parses to is left out.                           *)
(***************************************************************************)
Bucket(blocks, p, at) == ByRank({b \in blocks : ContentAt(b, at).parent = p}, at)

\* The blocks in the order of the Markdown, cut at a nesting of depth blocks.
Exported(blocks, root, at, depth) ==
  LET visit[d \in 0 .. depth] ==
        [b \in blocks |->
           IF d = 0 THEN <<>>
           ELSE LET kids == Bucket(blocks, b, at)
                IN  <<b>> \o FlattenSeq([i \in DOMAIN kids |-> visit[d - 1][kids[i]]])]
  IN  IF root \in blocks THEN visit[depth][root] ELSE <<>>

-----------------------------------------------------------------------------
(***************************************************************************)
(* Properties.                                                             *)
(***************************************************************************)
\* The live blocks at most depth steps below a block, itself included.
Within(kids, root, at, depth) ==
  LET level[d \in 0 .. depth] ==
        IF d = 0 THEN {root} \ {b \in Blocks : ContentAt(b, at).deleted}
        ELSE level[d - 1] \cup UNION {kids[p] : p \in level[d - 1]}
  IN  level[depth]

\* The pairs of which one comes before the other in reading order.
ReadingOrder(kids, at) ==
  LET below == [x \in Blocks |-> Within(kids, x, at, Cardinality(Blocks))]
      beside == UNION {{e \in kids[p] \X kids[p] : InOrder(e[1], e[2], at)} : p \in Blocks}
  IN  (UNION {{a} \X below[a] : a \in Blocks})
      \cup (UNION {below[e[1]] \X below[e[2]] : e \in beside})

\* A reader who goes back through the history of a block page by page, each
\* page beginning with the revision that ended the last one, meets every
\* version once, newest first; its transaction names the block among those it
\* changed, and shows that version. No transaction changed another block.
HistoriesAreExact ==
  /\ \A b \in Blocks :
       LET pages[n \in 0 .. MaxTx] ==
             IF n = 0 THEN History(b, LatestTransaction, 2)
             ELSE LET told == pages[n - 1]
                  IN  IF told = <<>> THEN <<>>
                      ELSE told \o Tail(History(b, Last(told).tx, 2))
           told == pages[MaxTx]
       IN  /\ \A i, j \in DOMAIN told : i < j => told[i].tx > told[j].tx
           /\ {v.tx : v \in ToSet(told)} = {t \in txLog : b \in ChangedBlocks(t)}
           /\ \A i \in DOMAIN told : ContentAt(b, told[i].tx) = told[i].content
           /\ told # <<>> => Head(told).content = ContentAt(b, Now)
  /\ \A t \in txLog : ChangedBlocks(t) # {}

\* A subtree read returns every live block within its depth, each once and in
\* reading order, when its budget holds them, and otherwise is refused: the
\* running count never refuses a tree that fits, never cuts one that does
\* not, and never goes below zero. The export of a whole tree has the same
\* blocks in the same order: what the membership rows and the index found is
\* what the parents of the blocks say.
SubtreesAreExact ==
  \A at \in {Now} \cup txLog :
    LET kids  == [p \in Blocks |-> KidsAt(p, at)]
        order == ReadingOrder(kids, at)
    IN  \A root \in Blocks, depth \in 0 .. Cardinality(Blocks) - 1 :
          LET whole == Within(kids, root, at, depth)
          IN  \A budget \in 1 .. Cardinality(Blocks) :
                LET walk == Subtree(root, at, depth, budget)
                IN  IF Cardinality(whole) > budget THEN walk.answer = "refused"
                    ELSE /\ walk.answer = "blocks" /\ walk.stack = <<>>
                         /\ Len(walk.result) = Cardinality(whole)
                         /\ ToSet(walk.result) = whole
                         /\ Exported(whole, root, at, depth + 1) = walk.result
                         /\ \A i, j \in DOMAIN walk.result :
                              i < j => <<walk.result[i], walk.result[j]>> \in order

\* What the reads of many rows return is exact.
ReadsAreExact == HistoriesAreExact /\ SubtreesAreExact
=============================================================================
