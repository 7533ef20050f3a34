-------------------------------- MODULE Terra --------------------------------
(***************************************************************************)
(* The assertion store (terra.rs, transaction.rs, checkout.rs): branches of *)
(* versioned entities, assertions about their properties, and managed      *)
(* items, with the logs and the embeddings kept beside them. A command     *)
(* that writes holds the mutation lock and commits one batch, so a         *)
(* transaction is one step. Transaction ids are abstracted to their order  *)
(* of creation: the clock does not run backwards. There is one managed     *)
(* type, and an embedder is configured. An input that names an entity as   *)
(* touched does not change it too: that would replace the reason alone.    *)
(***************************************************************************)
EXTENDS Integers, FiniteSets, Sequences

CONSTANTS
  Slugs,        \* branch names
  Main,         \* the branch that exists without an entry
  Entities,
  Touchable,    \* entities that an input may name as touched
  Props,        \* property names
  Items,        \* managed items
  Fields,       \* fields of a managed item
  States,       \* lifecycle states of a managed item
  Null, Value,  \* a withdrawn value and any other
  HasStatuses,  \* the schema declares assertion_statuses
  MaxDepth,     \* max_branch_depth (8)
  MaxTx

ASSUME TerraAssumption ==
  /\ Main \in Slugs
  /\ Touchable \subseteq Entities
  /\ Null # Value
  /\ HasStatuses \in BOOLEAN
  /\ MaxDepth \in Nat \ {0}
  /\ MaxTx \in Nat

None == 0
Txs == 1 .. MaxTx

VARIABLES
  branches,      \* Branch: slug -> its parent and its branch point
  transactions,  \* Transaction: the rows (branch, tx)
  entities,      \* Entity: the rows (branch, entity, tx) -> deleted
  assertions,    \* Assertion: (branch, entity, prop, tx) -> value and status
  managed,       \* Managed: (branch, item, tx) -> state and fields
  touched,       \* Touched: the rows (branch, tx, entity)
  log,           \* TransactionLog: tx -> its branch and what it changed
  embeddings     \* Embedding: (branch, entity, tx) -> the text embedded

vars == <<branches, transactions, entities, assertions, managed,
          touched, log, embeddings>>

Init ==
  /\ branches = [s \in {} |-> {}]
  /\ transactions = {}
  /\ entities = {}
  /\ assertions = {}
  /\ managed = {}
  /\ touched = {}
  /\ log = {}
  /\ embeddings = {}

-----------------------------------------------------------------------------
(***************************************************************************)
(* Scopes: a branch, then its ancestors up to their branch points. The     *)
(* upper bound of a scope is inclusive; the branch itself has none.        *)
(***************************************************************************)
\* compute_ancestry gives up silently after MaxDepth steps.
Ancestry(slug) ==
  LET up[n \in 0 .. MaxDepth] ==
        [s \in DOMAIN branches |->
           IF n = 0 THEN <<>>
           ELSE <<[branch |-> branches[s].parent, upper |-> branches[s].from]>>
                \o (IF branches[s].parent = Main THEN <<>>
                    ELSE up[n - 1][branches[s].parent])]
  IN  IF slug = Main THEN <<>> ELSE up[MaxDepth][slug]

Opened == {Main} \cup DOMAIN branches

\* Mutant: the bound of a read is not applied.
ScopesUnbounded(slug, at) == <<[branch |-> slug, upper |-> MaxTx]>> \o Ancestry(slug)

ScopesAt(slug, at) == <<[branch |-> slug, upper |-> at]>> \o Ancestry(slug)

Scopes(slug) == ScopesAt(slug, MaxTx)

\* Mutant: ancestors are read past the branch point.
InBranch(s, row) == row.branch = s.branch

InScope(s, row) == row.branch = s.branch /\ row.tx =< s.upper

Latest(rows) == CHOOSE r \in rows : \A s \in rows : s.tx =< r.tx

\* get_latest: the newest row of the first scope that has one, as a set.
GetLatest(rows, scopes) ==
  LET Found(i) == {r \in rows : InScope(scopes[i], r)}
      first == {i \in 1 .. Len(scopes) : /\ Found(i) # {}
                                         /\ \A j \in 1 .. i - 1 : Found(j) = {}}
  IN  {Latest(Found(i)) : i \in first}

EntityRows(e) == {r \in entities : r.entity = e}
ItemRows(m) == {r \in managed : r.item = m}

\* entity_head: no record, or a deletion, is no entity.
LiveRecord(scopes, e) == {r \in GetLatest(EntityRows(e), scopes) : ~r.deleted}

-----------------------------------------------------------------------------
(***************************************************************************)
(* visible_properties: the streams of all scopes are merged newest first.  *)
(* An addressed assertion hides the one it supersedes. The first terminal  *)
(* assertion that is not hidden ends the walk; without statuses every      *)
(* assertion that addresses none is terminal, hidden or not.               *)
(***************************************************************************)
Stream(scopes, e, p) ==
  {r \in assertions : /\ r.entity = e /\ r.prop = p
                      /\ \E i \in 1 .. Len(scopes) : InScope(scopes[i], r)}

Terminal(r) == r.supersedes = None /\ (HasStatuses => r.terminal)

\* Mutant: a withdrawn terminal assertion still ends the walk.
LookCutting(seen, r) ==
  LET replaced == seen.replaced \cup {r.supersedes}
      hidden == r.tx \in replaced
  IN  IF seen.cut THEN seen
      ELSE [replaced |-> replaced,
            cut |-> Terminal(r),
            shown |-> IF hidden \/ r.value = Null THEN seen.shown
                      ELSE seen.shown \cup {r}]

Look(seen, r) ==
  LET replaced == seen.replaced \cup {r.supersedes}
      hidden == r.tx \in replaced
  IN  IF seen.cut THEN seen
      ELSE [replaced |-> replaced,
            cut |-> Terminal(r) /\ (hidden => ~HasStatuses),
            shown |-> IF hidden \/ r.value = Null THEN seen.shown
                      ELSE seen.shown \cup {r}]

NewestFirst(rows) ==
  [i \in 1 .. Cardinality(rows) |->
     CHOOSE r \in rows : Cardinality({s \in rows : s.tx >= r.tx}) = i]

Merged(rows) ==
  LET order == NewestFirst(rows)
      after[n \in 0 .. Len(order)] ==
        IF n = 0 THEN [replaced |-> {}, cut |-> FALSE, shown |-> {}]
        ELSE Look(after[n - 1], order[n])
  IN  after[Len(order)].shown

Visible(scopes, e, p) == Merged(Stream(scopes, e, p))

\* layered_properties, or the latest value alone when there are no statuses.
Shown(scopes, e, p) ==
  LET rows == Visible(scopes, e, p)
  IN  IF HasStatuses \/ rows = {} THEN rows ELSE {Latest(rows)}

-----------------------------------------------------------------------------
(***************************************************************************)
(* ExecuteTransaction, on a context given by its scopes. An input has at   *)
(* most one operation per entity and per managed item; each operation is   *)
(* the set of results it may have, empty where it is refused.              *)
(***************************************************************************)
Branch(scopes) == scopes[1].branch

IsNew(scopes, e) == LiveRecord(scopes, e) = {}

EntityRow(scopes, tx, e, deleted) ==
  [branch |-> Branch(scopes), entity |-> e, tx |-> tx, deleted |-> deleted]

AssertionRow(scopes, tx, e, p, value, terminal, supersedes) ==
  [branch |-> Branch(scopes), entity |-> e, prop |-> p, tx |-> tx,
   value |-> value, terminal |-> terminal, supersedes |-> supersedes]

ManagedRow(scopes, tx, m, state, fields) ==
  [branch |-> Branch(scopes), item |-> m, tx |-> tx,
   state |-> state, fields |-> fields]

\* An empty vector deactivates the embedding of a deleted entity.
EmbeddingRow(scopes, tx, e, active, text) ==
  [branch |-> Branch(scopes), entity |-> e, tx |-> tx,
   active |-> active, text |-> text]

TouchedRow(scopes, tx, e) == [branch |-> Branch(scopes), tx |-> tx, entity |-> e]

\* An item of the transaction log.
Change(kind, e, A) ==
  [kind |-> kind, entity |-> e, props |-> {a.prop : a \in A}]

\* write_entity requires a description to create an entity that is absent or
\* deleted; an update without one writes no record.
Descriptions(scopes, tx, e) ==
  {{EntityRow(scopes, tx, e, FALSE)}} \cup (IF IsNew(scopes, e) THEN {} ELSE {{}})

\* An addressed assertion names an active assertion of a live entity.
Targets(scopes, e, p) ==
  IF IsNew(scopes, e) THEN {} ELSE {r.tx : r \in Shown(scopes, e, p)}

\* One status for all assertions; without statuses they are all final.
Statuses == IF HasStatuses THEN BOOLEAN ELSE {TRUE}

Claims(scopes, tx, e, terminal) ==
  UNION {{AssertionRow(scopes, tx, e, p, value, terminal, target) :
            value \in {Null, Value}, target \in {None} \cup Targets(scopes, e, p)} :
         p \in Props}

\* A property is asserted at most once in a transaction.
Assertions(scopes, tx, e) ==
  UNION {{R \in SUBSET Claims(scopes, tx, e, terminal) :
            \A r, s \in R : r.prop = s.prop => r = s} : terminal \in Statuses}

\* The text that is embedded, before the commit: the assertions the write will
\* leave visible (with_pending), a value named by property and transaction.
Projected(scopes, e, p, A) ==
  IF IsNew(scopes, e) THEN {a \in A : a.prop = p /\ a.value # Null}
  ELSE Merged(Stream(scopes, e, p) \cup {a \in A : a.prop = p})

\* Mutant: the current snapshot with the pending assertions put over it.
EmbedTextPatched(scopes, e, A) ==
  LET written == {a.prop : a \in A}
  IN  (UNION {{<<p, r.tx>> : r \in Shown(scopes, e, p)} : p \in Props \ written})
      \cup {<<a.prop, a.tx>> : a \in {b \in A : b.value # Null}}

EmbedText(scopes, e, A) ==
  UNION {{<<p, r.tx>> : r \in Projected(scopes, e, p, A)} : p \in Props}

\* write_entity writes the record, the assertions, a touch and the embedding.
Write(scopes, tx, e) ==
  {[entities |-> D, assertions |-> A,
    embeddings |-> {EmbeddingRow(scopes, tx, e, TRUE, EmbedText(scopes, e, A))},
    changes |->
      {Change(IF IsNew(scopes, e) THEN "created" ELSE "updated", e, A)}] :
     D \in Descriptions(scopes, tx, e), A \in Assertions(scopes, tx, e)}

\* What a deletion by the assertions A writes.
Deletion(scopes, tx, e, A) ==
  [entities |-> {EntityRow(scopes, tx, e, TRUE)},
   assertions |-> A,
   embeddings |-> {EmbeddingRow(scopes, tx, e, FALSE, {})},
   changes |-> {Change("deleted", e, A)}]

Withdrawals(scopes, tx, e, terminal) ==
  {AssertionRow(scopes, tx, e, p, Null, terminal, None) :
     p \in {q \in Props : Shown(scopes, e, q) # {}}}

\* Mutant: properties are withdrawn with an open status.
DeleteOpenly(scopes, tx, e) ==
  {Deletion(scopes, tx, e, Withdrawals(scopes, tx, e, FALSE)) :
     r \in GetLatest(EntityRows(e), scopes)}

\* delete_entity needs a record, a deletion will do, and withdraws every
\* property the entity shows with a terminal status.
Delete(scopes, tx, e) ==
  {Deletion(scopes, tx, e, Withdrawals(scopes, tx, e, TRUE)) :
     r \in GetLatest(EntityRows(e), scopes)}

CreateManaged(scopes, tx, m) ==
  IF GetLatest(ItemRows(m), scopes) # {} THEN {}
  ELSE {[managed |-> {ManagedRow(scopes, tx, m, state, F)},
         changes |-> {[kind |-> "created", item |-> m]}] :
          state \in States, F \in SUBSET Fields}

\* A null removes a field, any other value sets it, the others carry over; so
\* does the state when none is given.
UpdateManaged(scopes, tx, m) ==
  UNION {{[managed |-> {ManagedRow(scopes, tx, m, state,
                                   (old.fields \ removed) \cup set)},
           changes |-> {[kind |-> "updated", item |-> m]}] :
            state \in {old.state} \cup States,
            removed \in SUBSET Fields, set \in SUBSET Fields} :
         old \in GetLatest(ItemRows(m), scopes)}

EntityOperations(scopes, tx, e) ==
  {[entities |-> {}, assertions |-> {}, embeddings |-> {}, changes |-> {}]}
    \cup Write(scopes, tx, e) \cup Delete(scopes, tx, e)

ManagedOperations(scopes, tx, m) ==
  {[managed |-> {}, changes |-> {}]}
    \cup CreateManaged(scopes, tx, m) \cup UpdateManaged(scopes, tx, m)

\* One element of every set in a family of sets.
OneOfEach(sets) ==
  {f \in [DOMAIN sets -> UNION {sets[x] : x \in DOMAIN sets}] :
     \A x \in DOMAIN sets : f[x] \in sets[x]}

NextTx == Cardinality(transactions) + 1

\* Mutant: creations are not recorded as touches.
TouchedAgain(changes) == {c.entity : c \in {d \in changes : d.kind # "created"}}

\* Every changed entity is touched, a deleted one too.
TouchedBy(changes) == {c.entity : c \in changes}

Execute(scopes) ==
  /\ NextTx =< MaxTx
  /\ \E op \in OneOfEach([e \in Entities |-> EntityOperations(scopes, NextTx, e)]),
        item \in OneOfEach([m \in Items |-> ManagedOperations(scopes, NextTx, m)]),
        named \in SUBSET Touchable :
       LET changes == UNION {op[e].changes : e \in Entities}
       IN  /\ named \cap TouchedBy(changes) = {}
           /\ entities' = entities \cup UNION {op[e].entities : e \in Entities}
           /\ assertions' =
                assertions \cup UNION {op[e].assertions : e \in Entities}
           /\ embeddings' =
                embeddings \cup UNION {op[e].embeddings : e \in Entities}
           /\ managed' = managed \cup UNION {item[m].managed : m \in Items}
           /\ touched' = touched \cup
                {TouchedRow(scopes, NextTx, e) : e \in TouchedBy(changes) \cup named}
           /\ log' = log \cup
                {[tx |-> NextTx, branch |-> Branch(scopes), changes |-> changes, touched |-> named,
                  managed |-> UNION {item[m].changes : m \in Items}]}
  /\ transactions' = transactions \cup {[branch |-> Branch(scopes), tx |-> NextTx]}

Transact(slug) == Execute(Scopes(slug)) /\ UNCHANGED branches

-----------------------------------------------------------------------------
(***************************************************************************)
(* ExecuteCheckout: a branch and its first transaction in one batch.       *)
(***************************************************************************)
\* Mutant: a branch may be one deeper than compute_ancestry looks.
TooDeepByOne(slug) == Len(Ancestry(slug)) > MaxDepth

TooDeep(slug) == Len(Ancestry(slug)) + 1 > MaxDepth

Checkout(parent, slug, from) ==
  /\ slug \notin DOMAIN branches
  /\ ~TooDeep(parent)
  /\ branches' = [s \in DOMAIN branches \cup {slug} |->
                    IF s = slug THEN [parent |-> parent, from |-> from]
                    ELSE branches[s]]
  /\ Execute(<<[branch |-> slug, upper |-> MaxTx],
               [branch |-> parent, upper |-> from]>> \o Ancestry(parent))

\* head_tx, and every transaction a caller may know of the branch.
Committed(slug) == {t.tx : t \in {u \in transactions : u.branch = slug}}

\* What a checkout is meant for: a new name, and a transaction of the parent
\* (the head when none is given). The server passes on what it is sent.
OrderlyCheckout(parent, slug) ==
  /\ slug # Main
  /\ \E from \in Committed(parent) : Checkout(parent, slug, from)

Next ==
  \E b \in Opened : Transact(b) \/ \E s \in Slugs : OrderlyCheckout(b, s)

Spec == Init /\ [][Next]_vars

-----------------------------------------------------------------------------
(***************************************************************************)
(* Properties.                                                             *)
(***************************************************************************)
\* Opening a branch finds its whole ancestry: the walk, which stops without
\* an error at the depth limit, always reaches the main branch.
AncestryReachesMain ==
  \A s \in Opened \ {Main} :
    LET chain == Ancestry(s) IN chain[Len(chain)].branch = Main

\* What a reader of a branch sees, at its head or at a transaction: records,
\* items, and of a property all it is merged from, whether it is shown or not.
View(scopes) ==
  <<[e \in Entities |-> GetLatest(EntityRows(e), scopes)],
    [e \in Entities |-> [p \in Props |-> Stream(scopes, e, p)]],
    [m \in Items |-> GetLatest(ItemRows(m), scopes)]>>

\* A transaction shows on its own branch only: not on the parent, and not on
\* branches made from it before, however deep.
BranchesAreIsolated ==
  [][\A b \in Opened :
       (\A t \in transactions' \ transactions : t.branch # b)
         => \A old \in {Scopes(b)}, new \in {Scopes(b)'} : View(new)' = View(old)]_vars

\* What a reader saw at a committed transaction it sees for ever.
\* (The scopes are bound by quantifiers so that TLC evaluates them once.)
PinnedViewsAreStable ==
  [][\A b \in Opened : \A t \in transactions :
       \A old \in {ScopesAt(b, t.tx)}, new \in {ScopesAt(b, t.tx)'} :
         View(new)' = View(old)]_vars

\* Nothing outlives a deletion: no branch shows an assertion of an entity it
\* does not have, at its head or at any earlier transaction; and an entity that
\* is created again starts clean, since nothing asserted before a deletion the
\* branch can see is shown, although later withdrawals reopen older evidence.
DeletionsAreFinal ==
  \A b \in Opened, e \in Entities, p \in Props :
    /\ \A t \in transactions :
         LET scopes == ScopesAt(b, t.tx)
         IN  LiveRecord(scopes, e) = {} => Visible(scopes, e, p) = {}
    /\ \A d \in {r \in EntityRows(e) : r.deleted}, a \in Visible(Scopes(b), e, p) :
         (\E i \in 1 .. Len(Scopes(b)) : InScope(Scopes(b)[i], d)) => a.tx > d.tx

\* The merge shows what the layers mean: the newest terminal assertion that
\* nobody withdrew, and all later ones that are not withdrawn either.
Withdrawn(rows, r) == \E s \in rows : s.supersedes = r.tx /\ s.tx > r.tx

Layers(rows) ==
  LET ends == {r \in rows : Terminal(r) /\ (HasStatuses => ~Withdrawn(rows, r))}
      base == {r \in ends : \A s \in ends : s.tx =< r.tx}
  IN  {r \in rows : /\ r.value # Null
                    /\ ~Withdrawn(rows, r)
                    /\ \A s \in base : s.tx =< r.tx}

MergeShowsLayers ==
  \A b \in Opened, t \in transactions, e \in Entities, p \in Props :
    LET scopes == ScopesAt(b, t.tx)
    IN  Visible(scopes, e, p) = Layers(Stream(scopes, e, p))

\* The embedding of an entity is computed before its transaction commits, from
\* a preview of the merge; it describes what readers of the branch are shown
\* afterwards, also when a withdrawal brings older evidence back.
EmbeddingRows(e) == {r \in embeddings : r.entity = e}

EmbeddingsDescribeWhatIsShown ==
  \A b \in Opened, e \in Entities :
    LET scopes == Scopes(b)
    IN  \A r \in GetLatest(EmbeddingRows(e), scopes) :
          IF LiveRecord(scopes, e) = {} THEN ~r.active
          ELSE /\ r.active
               /\ r.text = UNION {{<<p, a.tx>> : a \in Shown(scopes, e, p)} :
                                 p \in Props}
=============================================================================
