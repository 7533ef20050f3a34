# Verification of terra-incognita

This directory holds TLA+ models of terra-incognita, the TLC instances that
check them and the proofs that TLAPS checks. The code is the reference: every
definition in `PROJECT.json` "map" names the lines it stands for.

## 1. The system

terra-incognita keeps knowledge in RocksDB. Two stores share one key-value
layer and nothing else:

* the **document store** (`crates/terra-core/src/documents/`): ordered, typed
  trees of blocks with full history, used by the Markdown memory service;
* the **assertion store** (`crates/terra-core/src/terra.rs`, `command/`,
  `store/`): branches of versioned entities, assertions about their properties
  and managed items, served by `terra-server`.

```
 agent -> MCP proxy -> memory service -> bridge (pipe) -> DocumentStore --+
          (stdio)      (HTTP, Node.js)   one child process  under a lock  |
                                                                          v
 client -> terra-server -> Terra::execute (mutation lock) -> key-value layer
           (threads)       schema, validator                 (ordered bytes)
                                                                          |
                                                                       RocksDB
```

| Component | State | Operations | What is hard | What makes it correct |
|---|---|---|---|---|
| Document engine, `documents/mod.rs`, `records.rs` | six row families: heads, versions, sibling index, membership history, transaction log, change log | `apply` (compare-and-swap of up to 1000 edits), reads of a block, of children and of budgeted subtrees, now or at a transaction, `history`, `changed_blocks` | validation looks at the edited blocks only; six families change side by side; the clock may run backwards; readers take several steps; a budget counts blocks not yet loaded | the tree is well formed now and at every transaction; index and history agree with the heads; old reads never change; a bounded read is exact or refused |
| Placement planner, `documents/placement.rs` | a plan: staged edits over the committed rows | `transact` with `Put` and `Place` | midpoint ranks run out; staged edits hide index keys; a rebalance rewrites siblings in the middle of a plan | a block lands where it was asked, the others keep their order, the plan cannot be stale |
| Key-value layer, `io/`, `store/storage.rs`, and the keys of `store/entry/` | column families, encoded keys, codec markers | batches, point reads, forward and reverse scans, loops that seek past what they have read; opening a directory | order of bytes against order of fields; hashes in no order; sentinels; stores of other releases; a stop between the steps of an open | a range holds exactly the rows it names; no program decodes rows it did not write |
| Bridge, `document-bridge.mjs`, `examples/document-bridge.rs` | waiters, two pipes, a child process, a sticky failure | `query`, `close`, events of the child | answers carry no id; the child dies; the pipe breaks or closes | every caller gets its own answer or a failure, eventually; queries run in order, at most once |
| Memory service, `document-mcp.mjs`, `document-model.mjs`, `document-memory-server.mjs` | calls under way, between queries | tools `read`, `write`, `change`, `remove`, `search`, `history`, links; export | each tool awaits several queries; others commit in between; any query may fail, also after the commit | optimistic checks made over several reads still hold at the commit |
| MCP proxy, `scripts/terra-document-mcp-proxy.mjs` | one request at a time | forward, time out after 45 s | a late answer, a retry of what was done | nothing answered twice, compare-and-swap not repeated |
| Markdown, links, search, viewer, `markdown/*.mjs` | none | pure text functions | | |
| Transactions and checkout, `transaction.rs`, `checkout.rs`, `branch_context.rs` | branches, transactions, entities, assertions, managed items, touches, logs, embeddings | transaction, checkout | a branch reads its ancestors live; ids come from the clock; preconditions are compared before the batch is written | commits stay on their branch; pinned reads never change; a deleted entity stays deleted; a claim has one winner |
| Property visibility, `store/query/properties.rs`, `domain/property_path.rs` | none | merge of scope streams; selection by path and depth | withdrawals reopen older evidence across branches; a subtree is skipped in one seek | the merge shows the declared layers; the selection misses and invents nothing |
| Read commands, `get_transaction.rs`, `get_branch.rs`, `list_*.rs`, `entity_history.rs`, `touched_entities.rs`, `grep_entities.rs`, `similar_entities.rs` | none | snapshot, search, lists, transaction detail, history | each joins several row families and walks the scopes in its own way, without a lock | they agree with each other; the log and the touches miss no row; no change without an entry in the history; a bounded read is a snapshot |
| Schema and validation, `config/data_schema.rs`, `domain/validator.rs` | the schema of the process | validation of a schema, a write, a creation, an update | the schema changes between two processes while the rows stay | what is stored fits a schema it was written under; what was retracted stays so |
| `terra-server`, `dispatch.rs`, `dto/`, `main.rs` | requests in flight | one command per request | threads; the process dies between two steps | an answer tells the truth about the store |
| Codecs of values, embedding runtime | none of their own | | | |

`PROJECT.json` "components" gives the status of each, "hazards" lists what is
hardest to test in this code, each at its line, with the properties that would
catch it.

## 2. Modules

| Module | Models | Extends |
|---|---|---|
| `DocTree` | kinds, contents, the containment rule, well-formed trees | |
| `DocForest` | abstract: one tree per transaction, immutable once committed | `DocTree` |
| `DocStore` | the engine's row families, point reads, validation and batch; `Apply` is `DocumentStore::apply` | `DocTree`, refines `DocForest` |
| `DocReads` | the engine's reads of many rows: the budgeted walk of a subtree, histories by the page, changed blocks; the order of an export | `DocStore` |
| `DocPlanner` | `transact`: `Begin`, `Put` / `Place` steps, `CommitPlan` or `Abort`, beside direct writers | `DocStore` |
| `DocService` | abstract: an in-order, at-most-once service that may stop | |
| `DocBridge` | parent, pipes and child process | refines `DocService` |
| `DocMemory` | tool calls that interleave at every engine query | `DocStore` |
| `KeySpace` | fields, sentinels, layouts of the column families, encoding and decoding of keys, the ends of ranges | |
| `TerraDb` | a column family as a set of encoded keys: batches, `get`, seeks and scans | `KeySpace` |
| `StoreScans` | the loops of both stores over these scans: discovery, newest rows, neighbours, selections | `TerraDb` |
| `TerraFormats` | opening a directory under codec markers, by releases in any order, that may stop at any step | |
| `Terra` | branches, transactions, checkouts, the visible properties, and the touches, log and embeddings written beside them | |
| `TerraReads` | the read commands, as functions of one state | `Terra` |
| `TerraSchema` | schemas, validation, merging of updates, resolution of statuses | |
| `TerraServer` | processes, concurrent requests, the mutation lock, staged batches, lock-free queries of several reads | `TerraSchema` |
| `DocStoreProofs`, `TerraServerProofs` | theorems | `DocStore`, `TerraServer`, TLAPS |
| `TerraDbProofs` | theorems about the key-value layer and about its formats | `StoreScans`, `TerraFormats`, TLAPS |
| `DocPlannerProofs`, `DocMemoryProofs` | theorems, by those of the store | `DocPlanner`, `DocMemory`, `DocStoreProofs`, TLAPS |
| `DocBridgeProofs` | theorems, the refinement of the service | `DocBridge`, TLAPS |
| `DocReadsProofs` | theorems, by those of the store | `DocReads`, `DocStoreProofs`, TLAPS |
| `TerraProofs` | theorems about branches, and about what readers are shown | `TerraReads`, TLAPS |
| `MC*` | contents, requests, schemas, views and symmetry for TLC | |

**State and code.** A row family is a set of records with the fields of its key
and value; a reverse seek bounded by a transaction is the latest row at or below
it. That this is what the bytes do is the subject of `StoreScans`: the other
modules take rows as sets because `ScansMatchRows` and `SkipsMissNothing` say
they may. Blocks and transactions are numbers because the code orders both. Texts
are abstracted: the engine tells only which fields a content has and which kind
it is. In `Terra` a transaction id is its rank of creation and a value is `Null`
(withdrawn) or `Value`; in `TerraServer` an id is drawn from the clock of the
process. A JSON value of a field is one of the kinds that validation tells
apart. An option is a set of at most one element.

**Grain.** The engine writes one batch under a write lock, so `Apply` is one
step. A plan holds the same lock for several steps; `DocPlanner` keeps them
apart because the plan reads rows and its own staged edits in between. A tool
call of the memory service is a step machine whose steps are its engine queries:
`DocMemory` names the next query in `call[c].step`. The bridge is modelled per
line and per event.

The assertion store is seen at two grains. `Terra` follows rows on several
branches, and a transaction, which holds the mutation lock from its first read to
its commit (`terra.rs:97`), is one step; a read command is an operator, and its
properties are invariants about what it returns in each state. `TerraServer`
follows one entity and one item of main through concurrent requests: taking the
lock, refusing or staging, committing and answering are steps of their own, and so
is each scan of a query, since queries take no lock. `TerraFormats` separates the
creation of column families, the validation of markers, and every stop between
them.

**Composition.** `DocMemory` and `DocPlanner` run on the rows and the `Apply`
of `DocStore`; `DocBridge` carries opaque queries, so that what it promises
(`DocService`) is what `DocMemory` assumes of one query: it is executed at most
once, in order, or fails. `StoreScans` takes the key layouts of both stores.
`TerraServer` decides with the operators of `TerraSchema`.

**Mutants.** Each property has a mutated definition, marked "Mutant:", placed
before the definition it would replace: a plausible mistake in that code that
the property detects.

## 3. Runs

| Run | Instance | Shows |
|---|---|---|
| `history` | 3 blocks, 3 transactions, 2 ranks and a negative one, batches of 2 | the tree stays well formed; index, heads and both histories agree; old reads are trees and never change; subtree reads with every budget and depth, histories by the page and exports are exact; refinement of `DocForest` |
| `planner` | 4 blocks, ranks up to 12, tied, adjacent and at the top; 2 operations | placement, order of the others, no stale plan |
| `bridge` | 3 queries | refinement of `DocService` (own answers, in order, at most once); every query settles |
| `memory` | 2 calls, 5 blocks in two projects, 3 transactions | reads are snapshots; removals, changes and receipts match what was read; calls stay in their project |
| `scans` | each of 12 families in turn, up to 3 rows, 3 names whose hashes are in another order, i64 of 3 bits, 4 paths | ranges, reverse scans, seeking loops, sibling order and selections return exactly the rows they name |
| `formats` | 5 releases, 3 families, 3 codec versions | no program decodes what it did not write, or locks itself out |
| `layers` | 1 entity, 1 property, 2 branches, 4 transactions, statuses | the merge shows the layers; deletions are final; embeddings, computed before the commit, describe what is shown after it |
| `reads` | the same on 3 branches, without statuses, with named touches | isolation of branches; lists, searches, details and histories agree with the rows and with each other |
| `branches` | 1 managed item, 4 branches, depth 2, 5 transactions | every branch reaches main; pinned reads never change |
| `server` | 3 requests out of 14, 2 processes, 4 schema files | preconditions and branch names have one winner; answers are true; bounded queries are snapshots; items fit their schemas; restarts revive nothing |
| `managed`, `torn` | 3 branches and 4 transactions; 3 requests and 1 process | disagreements, section 6 |

**What the properties say.**

* `ReadsAreExact`: the budgeted walk refuses exactly the trees that do not fit,
  its unsigned remainder never wraps, and what it returns is every live block
  within the depth in reading order; the export puts the same blocks together
  from their parent fields. Pages of a history that begin with the last revision
  of the page before lose and repeat nothing.
* `PlacedWhereAsked`, `OperationsMoveOneBlock`, `PlanIsCurrent`: the contract of
  relative placement, with rebalancing in between.
* `ScansMatchRows`: encoding is injective, decoding inverts it, and a bound that
  sets a prefix of the fields, and possibly a last transaction, holds the rows of
  that prefix and no others. `SkipsMissNothing`: loops that jump over the
  versions of one name, or to the successor of an id, meet every name once and
  its newest row. `SiblingsInOrder`: ranks are stored as unsigned bytes and still
  come in the order of numbers, also for the neighbour of a position.
  `SelectionIsExact`: what is within the depth is selected, what is deeper is
  covered by the fewest references, and the future does not show.
* `DeletionsAreFinal`, `MergeShowsLayers`: what a deletion withdrew never comes
  back, whatever is withdrawn later, and the merge is the declared layering.
* `SearchesAgree`, `ProvenanceResolves`, `HistoryExplainsEveryChange`: the read
  commands join different families and have to tell the same story; a
  transaction's detail holds every row written under its id.
* `ClaimsHaveOneWinner`: of clients that expect the same value and replace it, at
  most one wins for each time the value came about, where a restart that reads
  statuses differently may bring it about once; a name is checked out once.
  `AnswersAreTrue`: success means stored as a whole, refusal means nothing, and a
  lost answer means one or the other, since the process may also die between the
  commit and the answer. `BoundedReadsAreSnapshots`: a query with a
  bound, or one that reads the head first, shows one transaction's state although
  its scans interleave with commits. `ItemsFitTheirSchemas`: an update validates
  only what it names and carries the rest over a change of the schema; every
  field still was checked by a schema the item was written under.
  `RestartsReviveNothing`: a schema that keeps the terminal statuses shows
  nothing again that was retracted or consolidated.

**Why the bounds are enough.**

* Engine: three blocks make chains, cycles of two and three, and a parent with
  two children. Batches of two give a parent and a child edited at once, and one
  of two edits failing. Three transactions let a block leave, come back and be
  read at each moment. `MaxTx` also is the last id: both sides of the check for
  exhausted ids happen. The clock reads any id at each commit. Budgets go from one
  block to all, depths from none to all.
* `PlanView` projects away history rows: planning does not read them, so states
  with equal views have equal futures as far as the properties of that run see.
* Planner: a gap of 2 with ranks 0, 1 and 12 leaves every case of the midpoint
  (room, tie, adjacent, none at the top), and four blocks reach `MaxSiblings`.
* Bridge: three queries put one in each of stdin, child and stdout at once.
* Memory: two calls of any kind, each at its own step, beside one imported
  tree; `MaxTx` 3 is the import and one commit for each. A query may fail at any
  step. Writes here never move a block to another parent, as no tool does.
* Scans: three rows are a row in the range, one before and one after it, or three
  versions of one name; hashes are permuted so that no order of names is the
  order of the bytes. Keys are tokens: a hash, an id and a marker have the same
  width wherever two keys of a family can first differ, so the order of token
  sequences is the order of bytes. A collision of two hashes is excluded, as the
  code does. An i64 is from -4 to 3 (`Half` is 4), a position from 0; `MaxSlug` and
  `MaxUuid` stand above all names and ids.
* Formats: the releases contain an upgrade of one family, a family that is added,
  and one that returns to an older version.
* Terra: two transactions on each side of a checkout suffice for a withdrawal of
  a withdrawal and a deletion between two creations; four branches exceed a
  depth limit of 2, and three give the reads a scope of each kind: the branch
  itself, its parent and main, each with rows on both sides of its bound. The
  lists are read without a limit, so that they can be compared; their limits are
  part of the operators. A named touch names an entity that the transaction does
  not change. Operations on several entities are independent; the model takes
  them, the instances have one.
* Server: three requests are two that race and one that reads, or a history of
  two and one that races; each request is sent once, and a client that tries
  again is another request. Two processes are one restart. The files differ in
  terminal statuses, required fields and lifecycle, and one is refused.

Systems without an obligation to go on, and bounded ids, stop; except for
`formats`, which never does, the runs therefore do not look for deadlock. That no caller of
the bridge is left waiting is a liveness property instead.

**Fairness.** Only `DocBridge` assumes any: weak fairness of the parent's event
handlers, as Node.js delivers events that are ready, and of the living child's
loop, which the operating system schedules. Nobody is obliged to query, to close
the pipe or to die.

## 4. Proofs

`DocStoreProofs` proves about `DocStore`, for any number of blocks, ranks,
transactions and edits per batch, and any clock:

| Theorem | Statement |
|---|---|
| `TypeCorrect` | `Spec => []TypeOK` |
| `TopologyHolds` | `Spec => []Topology` |
| `IndexHolds` | `Spec => []IndexMatchesHeads` |
| `HeadsHistoryHolds` | `Spec => []HeadsMatchHistory` |
| `HistoryHolds` | `Spec => []HistoryIsTree` |
| `CommittedReadsHold` | `Spec => ReadsAtCommittedTxAreStable` |
| `Refinement` | `Spec => ImplementsForest` |

`DocPlannerProofs` proves about `DocPlanner`, for any number of blocks, operations
of a plan, siblings and writers beside it, and any distance between fresh ranks
that fits:

| Theorem | Statement |
|---|---|
| `PlannerKeepsStore` | `PlanSpec => [](TypeOK /\ Topology /\ HistoryIsTree)` |
| `PlansAreCurrent` | `PlanSpec => []PlanIsCurrent` |
| `PlacedRight` | `PlanSpec => []PlacedWhereAsked` |
| `OneBlockMoves` | `PlanSpec => OperationsMoveOneBlock` |
| `PlannerRefines` | `PlanSpec => ImplementsForest` |

`DocMemoryProofs` proves about `DocMemory`, for any number of calls, blocks and
projects:

| Theorem | Statement |
|---|---|
| `MemoryKeepsStore` | `MemorySpec => [](TypeOK /\ Topology /\ HistoryIsTree)` |
| `ReadsShowSnapshots` | `MemorySpec => []ReadsAreSnapshots` |
| `ReceiptsHold` | `MemorySpec => []ReceiptsAreCommitted` |
| `EditsNamed` | `MemorySpec => EditsNamedRevisions` |
| `ProjectHolds` | `MemorySpec => StaysInProject` |
| `RemovalsHold` | `MemorySpec => RemovesWhatWasRead` |

`DocBridgeProofs` proves about `DocBridge`, for any number of queries and any
moment at which the child or a pipe fails:

| Theorem | Statement |
|---|---|
| `BridgeInOrder` | `Spec => []IInv` |
| `BridgeRefines` | `Spec => ImplementsService` |

`DocReadsProofs` proves about `DocReads`, for any finite set of blocks (ids are 128
bits wide) and any number of transactions:

| Theorem | Statement |
|---|---|
| `ReadsAreExactHolds` | `Spec => []ReadsAreExact` |

`TerraDbProofs` proves about `TerraDb` and the loops of `StoreScans`, for any
names, hashes that do not collide, families, and stores of any size:

| Theorem | Statement |
|---|---|
| `ScansMatchRowsHolds` | `Spec => []ScansMatchRows` |
| `SkipsMissNothingHolds` | `Spec => []SkipsMissNothing` |
| `SiblingsInOrderHolds` | `Spec => []SiblingsInOrder` |
| `SelectionIsExactHolds` | `Spec => []SelectionIsExact` |

and about `TerraFormats`, for any families, codec versions and set of releases:

| Theorem | Statement |
|---|---|
| `DecodesItsOwnHolds` | `FormatSpec => []DecodesItsOwn` |
| `StoppedStoresReopenHolds` | `FormatSpec => StoppedStoresReopen` |

`TerraServerProofs` proves about `TerraServer`, for any calls, requests and
schemas, any number of processes and deaths of theirs:

| Theorem | Statement |
|---|---|
| `AnswersAreTrueHolds` | `Spec => []AnswersAreTrue` |
| `ItemsFitTheirSchemasHolds` | `Spec => []ItemsFitTheirSchemas` |
| `RestartsReviveNothingHolds` | `Spec => RestartsReviveNothing` |
| `BoundedReadsAreSnapshotsHolds` | `Rollback = FALSE`, then `Spec => []BoundedReadsAreSnapshots` |
| `ClaimsHaveOneWinnerHolds` | `Rollback = FALSE`, then `Spec => []ClaimsHaveOneWinner` |

`TerraProofs` proves about `Terra`, for any branches, entities, properties and
items, and branches of any depth below `MaxDepth`:

| Theorem | Statement |
|---|---|
| `AncestryAlwaysReachesMain` | `Spec => []AncestryReachesMain` |
| `PinnedViewsStayStable` | `Spec => PinnedViewsAreStable` |
| `BranchesStayIsolated` | `Spec => BranchesAreIsolated` |
| `MergeAlwaysShowsLayers` | `Spec => []MergeShowsLayers` |

and about the read commands of `TerraReads`, for the same constants and finitely
many entities (`NoLimit` counts them):

| Theorem | Statement |
|---|---|
| `DeletionsStayFinal` | `Spec => []DeletionsAreFinal` |
| `EmbeddingsStayTrue` | `Spec => []EmbeddingsDescribeWhatIsShown` |
| `HistoryAlwaysExplains` | `Spec => []HistoryExplainsEveryChange` |
| `ProvenanceAlwaysResolves` | `Spec => []ProvenanceResolves` |
| `SearchesAlwaysAgree` | `Spec => []SearchesAgree` |

They assume what the constants' ASSUMEs say, which TLC evaluates on each run.

The properties are not inductive one by one. In `DocStoreProofs`, `IInv` joins
what they need of each other:

* `Topology` is preserved because validation reads the children of an edited
  block from the sibling index; so `IndexMatchesHeads` belongs to the invariant.
  A block outside the batch keeps its chain of parents or has an edited one
  above it, and that one's own walk is valid (`ValidEditsKeepWellFormed`).
* `HeadsMatchHistory` and `HistoryIsTree` need that each head is the newest
  version (`VersionsOfHeads`), that each newest membership row agrees with the
  heads (`MembershipsOfHeads`), and that no row is newer than the last
  transaction. Rows of a commit then lie above every bound used before, which
  also gives `CommittedReadsHold`.
* `Refinement` maps heads, index and histories, read through the engine's own
  read operations, to the abstract forest, and each `Apply` to one `Commit`.

`Commit` is first reduced to one accepted write (`CommitIsAcceptedWrite`); one
lemma per family and conjunct follows, and one step of the invariant combines
them. What writes through the store uses these lemmas again: a step of a plan or
of a tool call leaves the rows alone or is one accepted write (`WriteInvariant`,
`WriteRefines`).

In `DocPlannerProofs` the invariant `PInv` adds to the store's that the plan is
typed, that its edits name the heads, and that the last placement is as asked.
The planner reads siblings from the index overlaid by its own edits; these are
the siblings in the tree that the plan would leave (`SiblingsOfPlan`), which is
where `IndexMatchesHeads` is needed. A placement is a cut of finitely many ordered
keys, and it is right when the new key falls into the cut and no other key does.
A free rank lies strictly between the neighbours of the cut (`FreeRankFits`);
without one, the siblings get fresh ranks in their old order, `IndexOf` counting
those before each, with the slot at the cut left free (`FreshKeysOrder`,
`FreshKeysCut`), and the largest of them fits because `MaxSiblings * Gap` does.
No other writer gets the lock between the operations of a plan, so what they read
stays the committed state, and the plan commits as one write of the store.

In `DocMemoryProofs` the invariant `MInv` adds to the store's: no tool moves a
block, so a parent that was written once stays the parent (`ParentsKept`); calls
have the fields of their step; and what each call has gathered so far is what it
would find in the past that it reads (`ReadInv`), above the block that it climbed
to (`ScopeInv`), or in a walk that is closed under the children it has seen, at
the revisions it names (`RemoveInv`, `ReplaceInv`). These facts outlive the writes
of other calls because reads at a committed transaction do not change, and neither
do the ancestors of a block that was written (`Grows`). When a removal commits,
the store has checked the named revisions and refused any live child left below a
removed block; so the blocks seen are closed under the current children and are
the current subtree. A block that a call creates is placed below one whose
ancestors it checked, and so is inside the project (`ChainLeaves`). The recursive
function of `Subtree` is reached through walks by levels (`LevelsOf`), whose
equality is proved with a least level at which two of them differ, not by
induction.

`DocReadsProofs` needs no invariant beyond `IInv`: it shows that every store in
which it holds reads exactly.

* Now and at every committed transaction, what is read is a well-formed tree
  (`TreeIsRead`), and the children that the index and the membership rows give are
  those whose parent is the block (`ShapeOfTree`).
* A tree has one text to a depth: a block and then the texts of its children in
  order (`IsTexts`). It has each block of the tree once and in reading order
  (`TextsAre`), because what is below one child is below no other
  (`ChildrenAreApart`) and no block is below its children
  (`NoBlockIsBelowItsChildren`): a block that were would lie in a set of live
  blocks without a root, and there is none in a tree.
* The stack of the walk, read from its top, stands for a text (`ToCome`). A turn
  takes a block from there to the result (`TextComes`, `VisitKeeps`), and neither
  adds nor loses a block. Every stacked item stands for one block at least, so when
  the children do not fit beside what is stacked the whole text does not, and the
  count of what may be loaded is never negative. After as many turns as the
  budget, and one, the stack is empty (`SubtreeIs`).
* An export sorts the blocks that were read by the parents they name, which gives
  the same lists of children, and so the same text (`ExportIsText`).
* A page of a history begins with the revision that ended the last one, so each
  page tells one more (`MoreIsTold`); a block has no more revisions than there are
  transactions (`RowsAreFew`), so `MaxTx` pages tell all of them.

In `DocBridgeProofs` the invariant is the one order of the issued queries: the
waiters are the last of them, what the child has executed is a prefix, and the
pipe to it holds what comes next, nothing lost while it lives; until a failure,
each answer on the way back, and the one being written, belongs to the oldest
waiters in turn. So a line that parses settles the head of the queue with its own
answer, which is the step `Answer` of the service; a failure is its `Stop`; an
execution its `Run`; the rest are stutters.

In `TerraDbProofs` the invariant of the store, `DbInv`, says that `db` holds the
encodings of the rows and that each decodes to its row (`KeyOfBytes`: names are
skipped as hashes and read from the suffix, the path of an assertion from the first
marker that begins no segment). The rest is about one state:

* The order of the bytes is total, so the keys of a store can be numbered by it
  (`NumbersExist`, by ranks in a finite set). A cursor leads to the first key of a
  set, or to the last one (`StepsOf`).
* A walk whose steps go one way reads keys it keeps, in that direction, until none
  follows; one turn for each key of the store is enough (`TurnOf`), and a walk
  that ends sooner has read all it can reach. A forward scan and a reverse scan
  therefore each enumerate the same keys (`ScanOf`, `ScanRevOf`), so that one is
  the reverse of the other (`MirrorOf`).
* The bounds of a prefix keep the keys of the rows that start with it, whatever the
  hashes are: each hash is strictly between those of the sentinels (`RangeOf`).
* A loop that seeks reads one key of each group if a seek from any key leads past
  its group and not past the next one (`Separates`, `GroupsOf`); the newest row of a
  group is then the last one below the bound. The loop over managed items steps
  or seeks, as it finds a row below the bound or not (`ManagedOf`).
* Positions are not negative, so their bytes are in their order, and the neighbour
  of a place is the first key after it that the scan reads (`NeighboursOf`).
* The versions of a subtree are the keys between its bounds (`TreeKeys`), as what is
  between two texts that start alike starts like them. `select` seeks past the
  versions of a property or past a subtree that it replaces by a reference, and
  either seek stays among keys of the same property or below the cut path
  (`StaysInVersions`, `StaysInTree`). So every version is read or stood for by an
  earlier one that is read (`SelectionReads`); the first version of a property is
  the oldest, and it is read unless its path is below a reference (`FirstIsRead`).
  Of two deep paths, if one is below what stands for the other, both are cut alike
  (`RefsAgree`), so the references are the shallowest. The history skips no path
  within the depth, because a path sorts before its extensions (`PrefixFirst`,
  `HistoryOf`).

For the formats, the invariant gives every family a stamp, its marker or
the legacy version without one: all rows carry the stamp (`RowsAreStamped`), a
writer's versions are the stamps (`WriterIsStamped`), a reader keeps the rows it
saw when it opened (`ReadersDecode`), and only one program writes. A marker is
written only for a family that had no rows (`MarkedStamps`), which is why no
stamp changes under a row.

`TerraServerProofs` has two invariants. `AnswersInv` follows one transaction:
what it stages is the one row that its request asks for, and what its items hold
was checked under a schema that they name (`StagedAreComplete`); a stored row
was staged by a call that is committed, answered ok or lost
(`StoredAreComplete`); a call puts one row at most (`StoredOnce`), and has put
one when it is answered ok (`SuccessIsStored`). It holds for any clock.
`SnapshotInv` follows a query. `AllKnown` says of each step of it that what was
read so far is what the store shows at the bound; it stays so because every
bound is the id of a stored row (`BoundsArePast`) and rows are only added above
all of them: the call between its checks and its commit holds the lock
(`LockHeld`), so the id that it drew is above the whole store until it is
committed (`StagedIsNext`), and ids are drawn above the clock, which is above
the store (`IdsAreUsed`). The last fact is what a clock that went back before a
process started would break, hence the hypothesis. That a head, a maximum over
the store, is the id of some row is proved with the least element of a well-founded
set (`HasMin`, `HasMax`), without induction.
`ClaimsInv` is an account of a value `e`: the times it was taken, and one more
while the property shows it, are at most the times it came about. A claim is the
newest row when it commits, so the property shows its value and no longer `e`: the
winner uses up the chance that it found under the lock (`StagedAreFair`,
`CommitKeepsClaims`). A process with other statuses may read the old rows in
another way and bring a chance back, which is why starts are counted.

`TerraProofs` has three invariants, one on the other. `IdsInv` numbers the
transactions: each was given the next id, on one branch. `BranchInv` says of the
branches that each starts at a transaction of its parent and is younger than it,
and that some depth function (`IsDepth`) stays at most `MaxDepth`, since a checkout
refuses a parent that is as deep as the walk can follow. `Ancestry` is a recursive
function of that limit. What it returns for a branch is the scope of the branch
before that of its parent (`AncestryIsPath`): a branch of least depth without this
would have a parent with it (`BranchInduction`), and a walk that has reached main
does not depend on the limit left (`UpSettles`). A transaction then adds rows of the
branch that it writes, with an id above all ids used before (`CommitAdds`); so no
view that is bounded by one of these ids changes, and of the unbounded ones those
in whose scopes the branch lies (`ViewStays`). `RowInv` says of the rows that a row
supersedes an older one of its entity and property, and that one transaction
writes one row of a property with one item. The merge goes through the rows from
the newest, which is an order by rank (`NewestFirst` is a bijection). Its walk
keeps what nothing already passed supersedes (`Passed`, `Kept`); as what
supersedes a row is newer, all of it has been passed when the row's turn comes,
so the layers kept are those that no visible row supersedes.

What readers are shown rests on lines. The line of a branch at a bound is the set of
transactions whose rows it sees (`Line`); below any transaction in it, it is the
line that this transaction ends on its own branch (`LineIsChain`), whatever
branches lie between. A transaction reads the line it extends (`StepReads`), and a
line below a committed transaction never changes (`PastStays`). So what holds of
each transaction and its past, in the branch that ran it, holds for each branch
that sees it.

* `LineInv` says of a deletion that it left nothing to show (`DeadInv`), that
  nothing supersedes a row which its own transaction did not see (`TargetInv`),
  and where a record lives (`HomeInv`). A withdrawal on another branch can take
  away a terminal assertion and show older ones again; that none of these is
  older than a deletion is shown with a least counterexample (`NoRevival`).
* `TextInv` says that an embedding has the text of what its transaction showed
  (`EmbedInv`) and that a transaction that writes to an entity embeds it
  (`EmbeddedInv`). The text is computed from a preview of the merge, over the rows
  of the branch and those pending; it is the merge over the rows committed
  (`ProjectedIsKept`).
* For histories, a snapshot is a function of the rows of an entity in a line
  (`QuietSnapshots`): where it differs, a row was written between.
* `LogInv` says that each transaction has one entry of the log that names all its
  rows, of the right kinds (`Tells`). The list of a branch is put together from
  the lists of its scopes, which descend from branch to branch (`ScopesDescend`,
  `CascadeFalls`), and is its whole line (`ListIsLine`).
* All searches find the entities with a live record in the line (`LiveAt`), which
  at the head of a branch is the line without a bound (`LiveAtHead`): a record was
  written by a transaction of the line, whose log names a touch (`Tells`), so the
  touches have its entity (`TouchedSearch`); it was embedded then or later, and as
  the newest embedding says whether the entity is live, it is active
  (`LiveIsCollected`). That no list loses a row or an entity by sorting, selection
  or its limit is `InOrderOf`, `SelectedOf`, `ByAgeOf`, `OnceOf` and `AllOfList`.

**Only model-checked.** One property: `EveryQuerySettles`, since liveness under
fairness and ENABLED are out of the prover's reach. Induction over data is out of
its reach as well. What a recursive definition computes is therefore proved
where a least counterexample can stand for the induction, as for `Subtree`,
`Exported`, `Ancestry` and `Merged`. No module here declares a RECURSIVE operator;
recursion is in recursive functions and folds.

## 5. Not modelled, and why

* RocksDB: batches are atomic and durable, seeks find what is there. Batches are
  committed with default write options, so a machine crash may lose an
  acknowledged suffix; a crash of the process does not.
* Codecs of values: postcard and JSON of one record, reached by unit tests.
  Collisions of slug hashes.
* Search, links, viewer, HTTP front, `ensure` and `import` of the memory service:
  they change nothing, or run alone.
* MCP proxy: no state of its own. Its time-out lets a request be executed after
  an error was reported; a retried append then writes twice, a retried
  compare-and-swap fails (`EditsNamedRevisions`).
* Markdown parser: text; of an export only the order of blocks is modelled.
* In the assertion store: a clock that runs backwards. `Terra` assumes that ids
  grow. `TerraServer` has a constant `Rollback`: ids within one process only
  grow, and the runs take `Rollback` FALSE, that is, a process does not start
  with its clock behind the store; with TRUE a new row sorts below the old ones
  and a claim is won twice. In the reads: the history of a single
  property, and the order of rows of one transaction, which comes from hashed
  keys. `Spec` of `Terra` takes checkouts as they are meant: a new name, a branch
  point on the parent. Limits and lower bounds of the lists of `TerraServer` are
  left out.
* Of `terra-server`: capabilities and `branch.get`, content types and the layout
  of answers, which read once or nothing. Branches other than main: what a branch
  shows is the subject of `Terra`.
* A reader of the embeddings sees a set of texts, not vectors: the similarity of
  texts is a ranking given from outside (`FindSimilar`); the ONNX runtime is
  external.

## 6. Disagreements found

With a run:

* `managed`: main creates an item, a branch b inherits it, and a branch c is made
  from b. When b writes the item after that branch point, c does not list it any
  more: the scan of b marks it as seen before it looks for a row within c's scope
  of b, finds none, and main is not asked.
* `torn`: an `entity.get` without a transaction reads the record and then the
  properties, without a lock or a snapshot. When a deletion commits in between,
  the answer is a live entity without its properties, which it never was at any
  "point in time" (`store/query/entity_snapshot.rs:1`). With `at_tx` the answer
  is a snapshot (`BoundedReadsAreSnapshots`).

Met while modelling, without a run of their own:

* The history of an entity on a branch has an entry for a transaction of the
  parent, and the entry shows what the parent asserted later, up to the branch
  point: `scopes_at` bounds only the branch itself by the transaction. The
  comments promise the "snapshot at this transaction point"
  (`domain/entity_history.rs:14`) and "only assertions up to that tx_id"
  (`properties.rs:17`).
* main has no branch record, so the uniqueness check (`checkout.rs:62`) lets a
  checkout named main pass; its first transaction is committed on main.
* `config/data_schema.rs:118` says that field types are not enforced at the
  storage level; the validator does refuse a value that is no text for a text
  field (`validator.rs:157`).
* Statuses that are enabled for the first time bring back what was withdrawn
  without them: rows without a status are not terminal under any schema.

## 7. Plan

Order: the engine first, then what sits on it, then the assertion store, then
the bytes below and the server above.

1. Done, each with its proofs: `DocTree`, `DocForest`, `DocStore` and `DocReads`;
   `DocPlanner`; `DocService` and `DocBridge`; `DocMemory`; `Terra` and `TerraReads`;
   `KeySpace`, `TerraDb`, `StoreScans` and `TerraFormats`; `TerraSchema` and
   `TerraServer`.
2. Next in the models: an abstract specification of branches as copies, which
   `Terra` should implement; the MCP proxy above the memory service.
