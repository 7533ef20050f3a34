----------------------------- MODULE DocMemory -----------------------------
(***************************************************************************)
(* The memory service (document-mcp.mjs, document-model.mjs): tool calls   *)
(* of several clients over one document store. An engine query is atomic;  *)
(* a call awaits several of them, so calls interleave between any two.     *)
(* Markdown is abstracted to the blocks it becomes, sibling ranks, which   *)
(* DocPlanner computes, to any rank, depth and size limits to a rejection. *)
(***************************************************************************)
EXTENDS DocStore

CONSTANTS
  Roots,       \* the projects' root blocks, which ensure() creates as roots
  Setup,       \* the tree an import left, all of it in transaction 1
  Calls,       \* tool calls, each made at most once
  MaxChanged,  \* blocks one change may edit (30)
  MaxWritten   \* new blocks one write may create

ASSUME MemoryAssumption ==
  /\ IsFiniteSet(Blocks)
  /\ Setup \in [Blocks -> Content] /\ WellFormed(Setup)
  /\ Roots \subseteq LiveBlocks(Setup) /\ Roots # {}
  /\ \A r \in Roots : Setup[r].parent = None
  /\ MaxTx >= 1
  /\ MaxChanged \in Nat /\ MaxWritten \in Nat

VARIABLE call  \* call -> its arguments and what it has read and done

mvars == <<vars, call>>

NoRevisions == [b \in {} |-> None]
NoBlocks == [b \in {} |-> Missing]
Only(b, v) == [x \in {b} |-> v]

\* f, and g where f says nothing.
Over(f, g) == [x \in DOMAIN f \cup DOMAIN g |-> IF x \in DOMAIN f THEN f[x] ELSE g[x]]

Idle ==
  [tool |-> "none", step |-> "idle", root |-> None, block |-> None,
   named |-> NoRevisions,  \* block -> the revision its arguments name
   whole |-> FALSE,        \* remove: subtree_revision is supplied
   at |-> None,            \* the snapshot a read is pinned to
   cursor |-> None,        \* scoped: the ancestor to fetch next
   seen |-> NoBlocks,      \* blocks fetched, as they were
   list |-> FALSE,         \* write: the parent fetched was a List
   tx |-> None,            \* the transaction it committed
   written |-> {},         \* write: blocks to fetch receipts for
   result |-> {},          \* pairs of a block and a revision it returns
   was |-> {}]             \* history: what the snapshot held when it was taken

Failed == [Idle EXCEPT !.step = "failed"]

Imported == LiveBlocks(Setup)
ImportedLinks == UNION {LinkOf(b, Setup[b]) : b \in Imported}

MemoryInit ==
  /\ heads = [b \in Blocks |-> IF b \in Imported THEN [tx |-> 1, content |-> Setup[b]]
                               ELSE Missing]
  /\ versions = {[block |-> b, tx |-> 1, content |-> Setup[b]] : b \in Imported}
  /\ childIndex = ImportedLinks
  /\ memberships = {[parent |-> l.parent, child |-> l.child, tx |-> 1,
                     present |-> TRUE] : l \in ImportedLinks}
  /\ txLog = {1}
  /\ changes = {<<1, b>> : b \in Imported}
  /\ call = [c \in Calls |-> Idle]

-----------------------------------------------------------------------------
(***************************************************************************)
(* The engine's read queries; "at" is None for the current tree.           *)
(***************************************************************************)
Get(b, at) == IF at = None THEN heads[b] ELSE VersionAt(b, at)

Children(b, at) == IF at = None THEN ChildrenNow(b) ELSE ChildrenAt(b, at)

\* A missing or deleted root gives nothing; else the walk goes down level by
\* level, and no path is longer than there are blocks.
Subtree(b, at) ==
  LET down[n \in 0 .. Cardinality(Blocks)] ==
        IF n = 0 THEN {b}
        ELSE LET above == down[n - 1]
             IN  above \cup UNION {Children(x, at) : x \in above}
  IN  IF Get(b, at).content.deleted THEN {} ELSE down[Cardinality(Blocks)]

\* subtree_revision is a digest of this set.
Revision(S, at) == {<<b, Get(b, at).tx>> : b \in S}

-----------------------------------------------------------------------------
(***************************************************************************)
(* Calls start. The revisions and transactions a caller names come from    *)
(* earlier answers.                                                        *)
(***************************************************************************)
Known(b) == {v.tx : v \in {w \in versions : w.block = b}}

Start(c, k) == call' = [call EXCEPT ![c] = k] /\ UNCHANGED vars

Call(tool, root, block, named, whole) ==
  [Idle EXCEPT !.tool = tool, !.step = "scope", !.root = root, !.block = block,
               !.named = named, !.whole = whole, !.cursor = block]

StartRead(c) ==
  \E r \in Roots, b \in Blocks :
    Start(c, [Call("read", r, b, NoRevisions, FALSE) EXCEPT !.step = "snapshot"])

StartAppend(c) ==
  \E r \in Roots, p \in Blocks : Start(c, Call("append", r, p, NoRevisions, FALSE))

\* insert beside an anchor, replace a target: at the revision the caller read.
StartWrite(c) ==
  \E tool \in {"insert", "replace"}, r \in Roots, b \in Blocks : \E t \in Known(b) :
    Start(c, Call(tool, r, b, Only(b, t), FALSE))

Edited == {S \in SUBSET {b \in Blocks : Known(b) # {}} :
             S # {} /\ Cardinality(S) =< MaxChanged}

\* change: several blocks; scoped visits them one after the other.
StartChange(c) ==
  \E r \in Roots, S \in Edited : \E named \in [S -> txLog], first \in S :
    /\ \A b \in S : named[b] \in Known(b)
    /\ Start(c, Call("change", r, first, named, FALSE))

\* remove: one block, or the complete subtree read at some transaction.
StartRemove(c) ==
  \E r \in Roots : \E b \in Blocks \ {r} :
    \/ \E t \in Known(b) :
         Start(c, Call("remove", r, b, Only(b, t), FALSE))
    \/ \E at \in txLog :
         /\ Subtree(b, at) # {}
         /\ Start(c, Call("remove", r, b,
                          [x \in Subtree(b, at) |-> Get(x, at).tx], TRUE))

-----------------------------------------------------------------------------
(***************************************************************************)
(* Queries that only read.                                                 *)
(***************************************************************************)
Step(c, k) == call' = [call EXCEPT ![c] = k] /\ UNCHANGED vars

At(c, tools, step) == call[c].tool \in tools /\ call[c].step = step

\* read pins its later queries to the latest transaction.
Snapshot(c) ==
  /\ At(c, {"read"}, "snapshot")
  /\ \E t \in txLog :
       /\ IsLastTx(t)
       /\ Step(c, [call[c] EXCEPT
            !.step = "scope", !.at = t,
            !.was = Revision(Subtree(call[c].block, None), None)])

Fetched(k) ==
  IF k.cursor = k.block THEN Over(Only(k.block, Get(k.block, k.at)), k.seen)
  ELSE k.seen

\* scoped: from the block towards the project's root, one get at a time.
Climb(c) ==
  LET k == call[c]
      b == Get(k.cursor, k.at)
  IN  /\ k.step = "scope" /\ k.cursor # k.root
      /\ b.tx # None /\ b.content.parent # None
      /\ Step(c, [k EXCEPT !.cursor = b.content.parent, !.seen = Fetched(k)])

\* Mutant: any root will do.
AtAnyRoot(k) == Get(k.cursor, k.at).tx # None /\ Get(k.cursor, k.at).content.parent = None

AtRoot(k) == k.cursor = k.root /\ Get(k.root, k.at).tx # None

Done(k) == [Idle EXCEPT !.tool = k.tool, !.step = "done", !.root = k.root, !.tx = k.tx,
                        !.result = k.result, !.was = k.was, !.written = k.written]

ReadScoped(c) ==
  LET k == call[c]
  IN  /\ At(c, {"read"}, "scope") /\ AtRoot(k)
      /\ IF Fetched(k)[k.block].content.deleted THEN Step(c, Done(k))
         ELSE Step(c, [k EXCEPT !.step = "subtree"])

WriteScoped(c) ==
  LET k == call[c]
  IN  /\ At(c, {"append", "insert", "replace"}, "scope") /\ AtRoot(k)
      /\ Step(c, [k EXCEPT !.step = CASE k.tool = "append"  -> "parent"
                                      [] k.tool = "insert"  -> "anchor"
                                      [] k.tool = "replace" -> "target"])

\* change and remove compare the block they fetched first.
Fresh(k) ==
  LET b == Fetched(k)[k.block]
  IN  ~b.content.deleted /\ b.tx = k.named[k.block]

ChangeScoped(c) ==
  LET k == call[c]
      rest == DOMAIN k.named \ DOMAIN Fetched(k)
  IN  /\ At(c, {"change"}, "scope") /\ AtRoot(k) /\ Fresh(k)
      /\ \/ /\ rest = {}
            /\ Step(c, [k EXCEPT !.seen = Fetched(k), !.step = "transact"])
         \/ \E b \in rest :
              Step(c, [k EXCEPT !.seen = Fetched(k), !.block = b, !.cursor = b])

RemoveScoped(c) ==
  LET k == call[c]
  IN  /\ At(c, {"remove"}, "scope") /\ AtRoot(k) /\ Fresh(k)
      /\ Step(c, [k EXCEPT !.step = "subtree"])

\* Mutant: the subtree is read in the current tree.
ReadSubtreeNow(c) ==
  LET k == call[c]
      all == [k EXCEPT !.result = Revision(Subtree(k.block, None), None)]
  IN  /\ At(c, {"read"}, "subtree")
      /\ Step(c, IF k.block = k.root THEN [all EXCEPT !.step = "entries"]
                 ELSE Done(all))

ReadSubtree(c) ==
  LET k == call[c]
      all == [k EXCEPT !.result = Revision(Subtree(k.block, k.at), k.at)]
  IN  /\ At(c, {"read"}, "subtree")
      /\ Step(c, IF k.block = k.root THEN [all EXCEPT !.step = "entries"]
                 ELSE Done(all))

\* A read of the root scans the project again for its entry points.
ReadEntries(c) ==
  LET k == call[c]
  IN  /\ At(c, {"read"}, "entries")
      /\ Step(c, Done([k EXCEPT !.result =
                         @ \cup Revision(Subtree(k.root, k.at), k.at)]))

\* Mutant: the subtree is not compared with what the caller read.
RemoveSubtreeUnread(c) ==
  LET k == call[c]
      S == Subtree(k.block, None)
  IN  /\ At(c, {"remove"}, "subtree")
      /\ S # {} /\ heads[k.block].tx = k.named[k.block]
      /\ Cardinality(S) > 1 => k.whole
      /\ Step(c, [k EXCEPT !.seen = [b \in S |-> heads[b]], !.step = "transact"])

RemoveSubtree(c) ==
  LET k == call[c]
      S == Subtree(k.block, None)
  IN  /\ At(c, {"remove"}, "subtree")
      /\ S # {} /\ heads[k.block].tx = k.named[k.block]
      /\ Cardinality(S) > 1 => k.whole
      /\ k.whole => Revision(S, None) = {<<b, k.named[b]>> : b \in DOMAIN k.named}
      /\ Step(c, [k EXCEPT !.seen = [b \in S |-> heads[b]], !.step = "transact"])

ReadTarget(c) ==
  LET k == call[c]
      b == heads[k.block]
  IN  /\ At(c, {"replace"}, "target")
      /\ ~b.content.deleted /\ b.tx = k.named[k.block] /\ b.content.kind = "Text"
      /\ Step(c, [k EXCEPT !.seen = Only(k.block, b), !.step = "transact"])

ReadAnchor(c) ==
  LET p == heads[call[c].block].content.parent
  IN  /\ At(c, {"insert"}, "anchor") /\ p # None
      /\ Step(c, [call[c] EXCEPT !.cursor = p, !.step = "parent"])

\* The parent of what is written; a missing one is left to the engine.
ReadParent(c) ==
  LET k == call[c]
  IN  /\ At(c, {"append", "insert"}, "parent")
      /\ Step(c, [k EXCEPT !.list = heads[IF k.tool = "append" THEN k.block
                                          ELSE k.cursor].content.kind = "List",
                           !.step = "transact"])

-----------------------------------------------------------------------------
(***************************************************************************)
(* transact, and the answer to it, which may be lost with the bridge.      *)
(***************************************************************************)
Committed(c, written) ==
  LET k == call[c]
  IN  \/ call' = [call EXCEPT ![c] = Failed]
      \/ \E t \in txLog' \ txLog :
           LET next == [k EXCEPT !.tx = t, !.written = written]
           IN  call' = [call EXCEPT ![c] =
                          IF written = {} THEN Done(next)
                          ELSE [Done(next) EXCEPT !.step = "receipts"]]

\* title, state and entrypoint: a field of the block is set, or none is.
Changed(content) ==
  IF content.kind \in {"Section", "ListItem"}
  THEN {content, [content EXCEPT !.fields = FieldsOf[content.kind]]}
  ELSE {content}

\* Mutant: the transaction does not name the revisions of its edits.
ChangeBlindly(c) ==
  LET seen == call[c].seen
  IN  /\ At(c, {"change"}, "transact")
      /\ \E contents \in [DOMAIN seen -> UNION {Changed(seen[b].content) : b \in DOMAIN seen}] :
           /\ \A b \in DOMAIN seen : contents[b] \in Changed(seen[b].content)
           /\ Commit(contents)
           /\ Committed(c, {})

Change(c) ==
  LET seen == call[c].seen
  IN  /\ At(c, {"change"}, "transact")
      /\ Current(call[c].named)
      /\ \E contents \in [DOMAIN seen -> UNION {Changed(seen[b].content) : b \in DOMAIN seen}] :
           /\ \A b \in DOMAIN seen : contents[b] \in Changed(seen[b].content)
           /\ Commit(contents)
           /\ Committed(c, {})

Remove(c) ==
  LET seen == call[c].seen
  IN  /\ At(c, {"remove"}, "transact")
      /\ Current([b \in DOMAIN seen |-> seen[b].tx])
      /\ Commit([b \in DOMAIN seen |-> [seen[b].content EXCEPT !.deleted = TRUE]])
      /\ Committed(c, {})

\* New blocks have random ids; what is written directly below p are list
\* items exactly when p was seen to be a List.
Unused == {b \in Blocks : heads[b].tx = None}
NewBlocks == {S \in SUBSET Unused : Cardinality(S) =< MaxWritten}

Parsed(new, parents, p, list) ==
  {f \in [new -> {d \in Contents : ~d.deleted /\ d.parent \in parents}] :
     \A b \in new : f[b].parent = p => (f[b].kind = "ListItem" <=> list)}

\* Placing a block may give its new siblings other ranks, hence revisions.
Reranked(S) ==
  UNION {{[b \in M |-> [heads[b].content EXCEPT !.position = rank[b]]] :
            rank \in {f \in [M -> Positions] :
                        \A b \in M : f[b] # heads[b].content.position}} :
           M \in SUBSET S}

Insert(c) ==
  LET k == call[c]
      p == IF k.tool = "append" THEN k.block ELSE heads[k.block].content.parent
  IN  /\ At(c, {"append", "insert"}, "transact")
      /\ k.tool = "insert" =>
           Current(k.named) /\ ~heads[k.block].content.deleted /\ p # None
      /\ \E new \in NewBlocks :
           \E text \in Parsed(new, new \cup {p}, p, k.list) :
             /\ \E b \in new : text[b].parent = p
             /\ \E ranks \in Reranked(ChildrenNow(p)) : Commit(Over(text, ranks))
             /\ Committed(c, new)

\* The target becomes the first parsed block; the others follow it.
Replace(c) ==
  LET k == call[c]
      t == k.block
      old == k.seen[t].content
      p == old.parent
  IN  /\ At(c, {"replace"}, "transact")
      /\ Current(k.named)
      /\ \E new \in NewBlocks, first \in Contents :
           \E text \in Parsed(new, new \cup {t, p}, p, FALSE) :
             /\ ~first.deleted /\ first.parent = p /\ first.kind # "ListItem"
             /\ IF \E b \in new : text[b].parent = p
                THEN \E ranks \in Reranked(ChildrenNow(p) \ {t}) :
                       Commit(Over(Only(t, first), Over(text, ranks)))
                ELSE first.position = old.position /\ Commit(Over(Only(t, first), text))
             /\ Committed(c, new \cup {t})

\* Mutant: the receipts are read from the current tree.
ReceiptsNow(c) ==
  LET k == call[c]
  IN  /\ k.step = "receipts"
      /\ Step(c, [k EXCEPT !.step = "done", !.result = Revision(k.written, None)])

\* The receipts, read at the transaction the write committed.
Receipts(c) ==
  LET k == call[c]
  IN  /\ k.step = "receipts"
      /\ Step(c, [k EXCEPT !.step = "done", !.result = Revision(k.written, k.tx)])

\* A check fails, the engine refuses, or the bridge is gone: after the commit
\* of a write this leaves its effects in place.
Reject(c) ==
  /\ call[c].step \notin {"idle", "done", "failed"}
  /\ Step(c, Failed)

Starts(c) ==
  /\ call[c].step = "idle"
  /\ \/ StartRead(c) \/ StartAppend(c) \/ StartWrite(c)
     \/ StartChange(c) \/ StartRemove(c)

Reads(c) ==
  \/ Snapshot(c) \/ Climb(c) \/ ReadScoped(c) \/ ReadSubtree(c) \/ ReadEntries(c)
  \/ WriteScoped(c) \/ ChangeScoped(c) \/ RemoveScoped(c) \/ RemoveSubtree(c)
  \/ ReadTarget(c) \/ ReadAnchor(c) \/ ReadParent(c) \/ Receipts(c)

Transacts(c) == Change(c) \/ Remove(c) \/ Insert(c) \/ Replace(c)

MemoryNext ==
  \E c \in Calls : Starts(c) \/ Reads(c) \/ Transacts(c) \/ Reject(c)

MemorySpec == MemoryInit /\ [][MemoryNext]_mvars
-----------------------------------------------------------------------------
(***************************************************************************)
(* Properties.                                                             *)
(***************************************************************************)
Commits(c) == txLog' # txLog /\ call'[c] # call[c]
Touched == {b \in Blocks : heads'[b] # heads[b]}

\* A removal deletes, at once, exactly the live subtree the caller named, at
\* the revisions it named: nothing it never saw, whoever wrote in between.
RemovesWhatWasRead ==
  [][\A c \in Calls :
       Commits(c) /\ call[c].tool = "remove" =>
         /\ Touched = Subtree(call[c].block, None)
         /\ Revision(Touched, None) =
              {<<b, call[c].named[b]>> : b \in DOMAIN call[c].named}]_mvars

\* Whatever a call changes of a block it names is based on the revision named:
\* no update of another call is lost between the awaits.
EditsNamedRevisions ==
  [][\A c \in Calls : Commits(c) => Current(call[c].named)]_mvars

\* A call changes blocks of its own project only, although scoped climbed the
\* parents in separate reads and the tree may have changed since.
StaysInProject ==
  [][\A c \in Calls :
       Commits(c) => \A b \in Touched : call[c].root \in Chain(CurrentTree', b)]_mvars

\* Both scans of a read, whenever they run, show the tree as it was at once
\* when the snapshot was taken.
ReadsAreSnapshots ==
  \A c \in Calls :
    call[c].tool = "read" /\ call[c].step = "done" => call[c].result = call[c].was

\* The receipts of a write name the revisions it wrote, even when others have
\* changed or removed the blocks since.
ReceiptsAreCommitted ==
  \A c \in Calls :
    call[c].step = "done" =>
      {r \in call[c].result : r[1] \in call[c].written}
        = {<<b, call[c].tx>> : b \in call[c].written}
=============================================================================
