------------------------------ MODULE TerraReads ------------------------------
(***************************************************************************)
(* The read commands of the assertion store: what an entity, a history, a  *)
(* transaction and the lists show of the rows the write commands leave.    *)
(* A read takes no lock; here it is a function of one state. Entities are  *)
(* read whole: the selection by property path is left out.                 *)
(***************************************************************************)
EXTENDS Terra, SequencesExt

CONSTANT VisibleStates  \* lifecycle.visible: what ListManaged lists

ASSUME ReadsAssumption ==
  /\ VisibleStates \subseteq States
  /\ IsFiniteSet(Entities)

\* head_tx: the newest transaction of the branch itself, nil when it has none.
HeadTx(slug) ==
  IF Committed(slug) = {} THEN None
  ELSE CHOOSE t \in Committed(slug) : \A u \in Committed(slug) : u =< t

\* More than any list can hold.
NoLimit == MaxTx + Cardinality(Entities)

UpTo(limit, list) == SubSeq(list, 1, IF limit < Len(list) THEN limit ELSE Len(list))

\* The members of a set in the order of a relation, and those of a list at some
\* of its places.
InOrder(S, R) ==
  [k \in 1 .. Cardinality(S) |->
     CHOOSE x \in S : Cardinality({y \in S : <<y, x>> \in R}) = k]

Selected(list, places) ==
  LET order == InOrder(places, {x \in places \X places : x[1] =< x[2]})
  IN  [k \in 1 .. Len(order) |-> list[order[k]]]

\* Rows from new to old. Those of one transaction come in some order: that of
\* their keys, which means nothing.
ByAge(rows) ==
  LET some == SetToSeq(rows)
      places == 1 .. Len(some)
      order == InOrder(places,
                 {x \in places \X places :
                    \/ some[x[1]].tx > some[x[2]].tx
                    \/ some[x[1]].tx = some[x[2]].tx /\ x[1] =< x[2]})
  IN  [k \in places |-> some[order[k]]]

\* The rows in scope, branch by branch.
ScanBack(rows, scopes) ==
  FlattenSeq([i \in 1 .. Len(scopes) |-> ByAge({r \in rows : InScope(scopes[i], r)})])

-----------------------------------------------------------------------------
(***************************************************************************)
(* GetEntity and GrepEntities. A snapshot is a set of at most one entity.  *)
(***************************************************************************)
Snapshot(scopes, e) ==
  {[record |-> r, shown |-> UNION {Shown(scopes, e, p) : p \in Props}] :
     r \in LiveRecord(scopes, e)}

\* entity_slugs looks at all rows of every scope's branch, whatever their time.
EntitySlugs(slug) ==
  {e \in Entities :
     \E r \in EntityRows(e) : \E i \in 1 .. Len(Scopes(slug)) :
       r.branch = Scopes(slug)[i].branch}

\* A search looks in columns: "slug", "property", "value". A pattern is the set
\* of names and values it matches. (The reasons of changes are left out.)
NeedsProperties(columns) == columns # {"slug"}

SlugMatches(e, pattern, columns) == "slug" \in columns /\ e \in pattern

ContentMatches(shown, pattern, columns) ==
  \E a \in shown : \/ "property" \in columns /\ a.prop \in pattern
                   \/ "value" \in columns /\ a.value \in pattern

\* A slug that does not match is skipped before any read if it decides alone.
Grep(slug, at, pattern, columns, limit) ==
  LET scopes == ScopesAt(slug, at)
      candidates == {e \in EntitySlugs(slug) :
                       NeedsProperties(columns) \/ SlugMatches(e, pattern, columns)}
      live == UNION {LiveRecord(scopes, e) : e \in candidates}
      found == {r \in live :
                  \/ SlugMatches(r.entity, pattern, columns)
                  \/ ContentMatches(UNION {Shown(scopes, r.entity, p) : p \in Props},
                                    pattern, columns)}
      newest == ByAge(found)
  IN  UpTo(limit, [i \in 1 .. Len(newest) |-> newest[i].entity])

-----------------------------------------------------------------------------
(***************************************************************************)
(* GetBranch, ListTransactions and ListTouchedEntities. Main has no entry: *)
(* it is its own parent, made at the nil transaction.                      *)
(***************************************************************************)
GetBranch(slug) ==
  IF slug = Main THEN [parent |-> Main, from |-> None]
  ELSE [parent |-> branches[slug].parent, from |-> branches[slug].from]

ListTransactions(slug, at, limit) ==
  UpTo(limit, ScanBack(transactions, ScopesAt(slug, at)))

\* Each name once, where it was touched last; the limit counts names, and
\* names that are no live entity are dropped after it.
Once(list) == Selected(list, {i \in 1 .. Len(list) : \A j \in 1 .. i - 1 : list[j] # list[i]})

Living(list, scopes) == Selected(list, {i \in 1 .. Len(list) : LiveRecord(scopes, list[i]) # {}})

ListTouched(slug, at, limit) ==
  LET touches == ScanBack(touched, ScopesAt(slug, at))
      slugs == Once([i \in 1 .. Len(touches) |-> touches[i].entity])
  IN  Living(UpTo(limit, slugs), ScopesAt(slug, at))

-----------------------------------------------------------------------------
(***************************************************************************)
(* ListManaged. A scan of the branch of a scope meets an item wherever it  *)
(* has a row, also outside the scope, and marks it as seen; only then is   *)
(* its newest row in the scope looked up.                                  *)
(***************************************************************************)
Discovers(s, m) == \E r \in ItemRows(m) : r.branch = s.branch

ManagedIn(scopes, m) ==
  LET first == {i \in 1 .. Len(scopes) :
                  /\ Discovers(scopes[i], m)
                  /\ \A j \in 1 .. i - 1 : ~Discovers(scopes[j], m)}
  IN  UNION {GetLatest(ItemRows(m), <<scopes[i]>>) : i \in first}

ListManaged(slug, at) ==
  {r \in UNION {ManagedIn(ScopesAt(slug, at), m) : m \in Items} :
     r.state \in VisibleStates}

-----------------------------------------------------------------------------
(***************************************************************************)
(* FindSimilarEntities. An inactive embedding does not enter the result,   *)
(* and does not keep an older one of an ancestor out of it either.         *)
(***************************************************************************)
ActiveIn(s, e) == {r \in GetLatest(EmbeddingRows(e), <<s>>) : r.active}

Collected(scopes) ==
  {e \in Entities : \E i \in 1 .. Len(scopes) : ActiveIn(scopes[i], e) # {}}

\* With the collected names in order of similarity: the limit counts names,
\* and those that are no live entity are dropped after it.
FindSimilar(slug, ranking, limit) ==
  LET scored == Selected(ranking, {i \in 1 .. Len(ranking) : ranking[i] \in Collected(Scopes(slug))})
  IN  Living(UpTo(limit, scored), Scopes(slug))

-----------------------------------------------------------------------------
(***************************************************************************)
(* GetTransaction: the log of a transaction names its branch, and its rows *)
(* are read there. The withdrawals of a deletion are not part of it.       *)
(***************************************************************************)
Of(l, rows) == {r \in rows : r.branch = l.branch /\ r.tx = l.tx}

\* Mutant: only a creation is taken to have written a record.
DetailsOfCreation(l, c) ==
  [kind |-> c.kind, entity |-> c.entity,
   record |-> IF c.kind = "created" THEN Of(l, EntityRows(c.entity)) ELSE {},
   properties |-> {a \in Of(l, assertions) : /\ a.entity = c.entity
                                             /\ a.prop \in c.props}]

Details(l, c) ==
  [kind |-> c.kind, entity |-> c.entity,
   record |-> Of(l, EntityRows(c.entity)),
   properties |-> {a \in Of(l, assertions) : /\ a.entity = c.entity
                                             /\ a.prop \in c.props}]

Detail(l) ==
  [written |-> {Details(l, c) : c \in {d \in l.changes : d.kind # "deleted"}},
   deleted |-> {c.entity : c \in {d \in l.changes : d.kind = "deleted"}},
   touched |-> l.touched,
   managed |-> UNION {Of(l, ItemRows(c.item)) : c \in l.managed}]

\* Refused when the log or the transaction's own row is missing, or one of the
\* managed items.
GetTransaction(slug, tx, onlyCurrentBranch) ==
  {Detail(l) : l \in {k \in log :
     /\ k.tx = tx
     /\ onlyCurrentBranch => k.branch = slug
     /\ [branch |-> k.branch, tx |-> tx] \in transactions
     /\ \A c \in k.managed : Of(k, ItemRows(c.item)) # {}}}

-----------------------------------------------------------------------------
(***************************************************************************)
(* ListEntityHistory: the transactions that wrote an assertion or a record *)
(* of the entity, each with the entity as of that transaction.             *)
(***************************************************************************)
HistoryRows(e) == {r \in assertions : r.entity = e}

\* Mutant: transactions that wrote a record only are left out.
EventsOfProperties(scopes, e) ==
  {r.tx : r \in {s \in HistoryRows(e) :
     \E i \in 1 .. Len(scopes) : InScope(scopes[i], s)}}

Events(scopes, e) ==
  {r.tx : r \in {s \in HistoryRows(e) \cup EntityRows(e) :
     \E i \in 1 .. Len(scopes) : InScope(scopes[i], s)}}

Entry(slug, e, tx) ==
  [tx |-> tx,
   entity |-> Snapshot(ScopesAt(slug, tx), e),
   changed |-> {r.prop : r \in {s \in HistoryRows(e) : s.tx = tx}}]

\* Refused, here empty, when the entity has no record up to the upper bound.
History(slug, e, from, to, limit) ==
  LET scopes == ScopesAt(slug, to)
      events == {t \in Events(scopes, e) : t >= from}
  IN  IF GetLatest(EntityRows(e), scopes) = {} THEN <<>>
      ELSE UpTo(limit, NewestFirst({Entry(slug, e, t) : t \in events}))

HistoryAtHead(slug, e) == ToSet(History(slug, e, None, HeadTx(slug), NoLimit))
-----------------------------------------------------------------------------
(***************************************************************************)
(* Properties.                                                             *)
(***************************************************************************)
\* Neither the touch log nor the embeddings lose an entity: without a limit the
\* touched ones at every transaction of a branch, and the similar ones at the head, are
\* exactly those a search by name finds; a search for a value finds those of
\* them that show it.
SearchesAgree ==
  \A b \in Opened :
    LET head == HeadTx(b)
        named == ToSet(Grep(b, head, Entities, {"slug"}, NoLimit))
    IN  /\ \A t \in Committed(b) :
             ToSet(ListTouched(b, t, NoLimit)) =
               ToSet(Grep(b, t, Entities, {"slug"}, NoLimit))
        /\ ToSet(FindSimilar(b, SetToSeq(Entities), NoLimit)) = named
        /\ ToSet(Grep(b, head, {Value}, {"value"}, NoLimit)) =
             {e \in named : \E s \in Snapshot(ScopesAt(b, head), e) :
                \E a \in s.shown : a.value = Value}

\* All rows written under the id of a transaction are in the detail that its
\* log leads to; a deletion is told by its record alone, and a change is a touch.
DetailIsWhole(slug, t) ==
  \E d \in GetTransaction(slug, t, FALSE) :
    LET Written(rows) == {r \in rows : r.tx = t}
    IN  /\ UNION {c.record : c \in d.written} =
             {r \in Written(entities) : r.entity \notin d.deleted}
        /\ UNION {c.properties : c \in d.written} =
             {a \in Written(assertions) : a.entity \notin d.deleted}
        /\ \A e \in d.deleted : \E r \in Written(EntityRows(e)) : r.deleted
        /\ {r.entity : r \in Written(touched)} =
             d.touched \cup d.deleted \cup {c.entity : c \in d.written}
        /\ d.managed = Written(managed)

\* What a reader is shown leads back to its transaction, and that transaction
\* to everything it wrote. The list of a branch goes through its ancestors one
\* after the other and still is in order of time. The branch point of a branch
\* is found on the parent it names.
ProvenanceResolves ==
  /\ \A t \in transactions : DetailIsWhole(Main, t.tx)
  /\ \A b \in Opened :
       LET listed == ListTransactions(b, HeadTx(b), NoLimit)
           made == GetBranch(b)
       IN  /\ \A i, j \in 1 .. Len(listed) : i < j => listed[i].tx > listed[j].tx
           /\ \A e \in Entities, p \in Props : \A a \in Shown(Scopes(b), e, p) :
                [branch |-> a.branch, tx |-> a.tx] \in ToSet(listed)
           /\ b # Main => /\ GetTransaction(made.parent, made.from, TRUE) # {}
                          /\ [branch |-> made.parent, tx |-> made.from] \in ToSet(listed)

\* Between two transactions of a branch with different snapshots of an entity
\* the later one, or one between them, is in its history.
HistoryExplainsEveryChange ==
  \A b \in Opened, e \in Entities : \A t, u \in Committed(b) :
    (t < u /\ Snapshot(ScopesAt(b, t), e) # Snapshot(ScopesAt(b, u), e)) =>
      \E h \in HistoryAtHead(b, e) : t < h.tx /\ h.tx =< u

-----------------------------------------------------------------------------
(***************************************************************************)
(* What a comment in the code says, and the code does not do.              *)
(***************************************************************************)
\* list_managed.rs:1: the items "in visible lifecycle states" of the branch.
ListManagedShowsVisible ==
  \A b \in Opened :
    ListManaged(b, HeadTx(b)) =
      {r \in UNION {GetLatest(ItemRows(m), Scopes(b)) : m \in Items} :
         r.state \in VisibleStates}
=============================================================================
