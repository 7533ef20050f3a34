-------------------------- MODULE TerraServerProofs --------------------------
(***************************************************************************)
(* Proofs about TerraServer, for any calls, requests and schemas. Three    *)
(* inductive invariants: AnswersInv says what a transaction has staged or  *)
(* stored, and is kept by any clock; SnapshotInv says what each query has  *)
(* read so far, and ClaimsInv counts how often a value was taken; these    *)
(* two need a clock that is not behind the store's ids when a process      *)
(* starts (Rollback = FALSE).                                              *)
(***************************************************************************)
EXTENDS TerraServer, FiniteSetTheorems, WellFoundedInduction, TLAPS

\* The steps of a query after its first, and of a transaction.
Reading ==
  {"record", "claims", "items", "transactions", "detail", "events", "changes", "entries"}

Writing == {"locked", "staged", "committed"}

\* A record of the fields of a call (NewCall).
IsCall(k) ==
  k = [pc |-> k.pc, request |-> k.request, under |-> k.under, bound |-> k.bound,
       batch |-> k.batch, record |-> k.record, shown |-> k.shown, items |-> k.items,
       txs |-> k.txs, entries |-> k.entries, detail |-> k.detail, answer |-> k.answer]

\* Whoever has not been sent has nothing, and the others have all fields.
Shape ==
  /\ call = [c \in Calls |-> call[c]]
  /\ \A c \in Calls :
       \/ call[c] = Unsent
       \/ /\ IsCall(call[c]) /\ call[c].request \in Requests
          /\ call[c].pc \in {"received", "answered"} \cup Writing \cup Reading

\* Transactions take the steps of transactions, queries those of queries.
Roles ==
  \A c \in Calls :
    /\ call[c].pc \in Writing => Asks(c, Mutating)
    /\ call[c].pc \in Reading => ~Asks(c, Mutating) /\ ~call[c].request.malformed

\* An item holds what was declared by a schema it was written under.
Fits(m) ==
  /\ \A f \in DOMAIN m.fields :
       \E def \in m.under : f \in DOMAIN def.fields /\ FieldValid(m.fields[f], def.fields[f])
  /\ \E def \in m.under : StateValid(m.state, def)

\* What is staged is the one row that the request asks for.
StagedAreComplete ==
  \A c \in Calls : call[c].pc = "staged" =>
    \E r : /\ call[c].batch = {r} /\ r.by = c /\ Complete(r, Asked(c))
          /\ \A m \in r.item : Fits(m)

\* So is what is stored, by calls that are not refused.
StoredAreComplete ==
  \A r \in store :
    /\ r.by \in Calls /\ Complete(r, Asked(r.by))
    /\ \A m \in r.item : Fits(m)
    /\ call[r.by] # Unsent
    /\ \/ call[r.by].pc = "committed"
       \/ call[r.by].pc = "answered" /\ call[r.by].answer \in {"ok", "lost"}

\* A call puts one row at most.
StoredOnce == \A r, s \in store : r.by = s.by => r = s

\* A call that is answered ok, or is about to be, has put one.
SuccessIsStored ==
  \A c \in Calls :
    \/ call[c].pc = "committed"
    \/ call[c].pc = "answered" /\ call[c].answer = "ok" /\ Asks(c, Mutating)
    => \E r \in store : r.by = c

AnswersInv ==
  /\ Shape /\ Roles /\ StagedAreComplete
  /\ StoredAreComplete /\ StoredOnce /\ SuccessIsStored

-----------------------------------------------------------------------------
\* The checks of a transaction are those that make its row complete.
LEMMA RowIsComplete ==
  ASSUME NEW c \in Calls, NEW t, call[c].request \in Requests,
         Refusal(call[c].request) = {}
  PROVE  Row(c, t).by = c /\ Complete(Row(c, t), Asked(c))
<1> DEFINE r == call[c].request
           row == Row(c, t)
<1>1. row = [tx |-> t, by |-> c, branch |-> {b.slug : b \in r.branch},
             record |-> RecordOf(r), claim |-> ClaimOf(r), item |-> ItemOf(r)]
  BY DEF Row
<1>2. IsTransaction(r) /\ IsCheckout(r)
  BY TerraServerAssumption DEF IsRequest
<1>3. /\ r.delete => r.write = {}
      /\ r.update # {} => Item({}) # {}
  <2>1. CASE r.branch # {}
    BY <1>2, <2>1 DEF IsCheckout
  <2>2. CASE r.branch = {}
    BY <2>2 DEF Refusal, TransactionRefusal
  <2> QED BY <2>1, <2>2
<1>4. r.delete <=> RecordOf(r) = {"deleted"}
  BY DEF RecordOf
<1>5. (\E w \in r.write : w.value # {}) => ClaimOf(r) # {}
  <2> SUFFICES ASSUME NEW w \in r.write, NEW v \in w.value
               PROVE  ClaimOf(r) # {}
    OBVIOUS
  <2>1. ~r.delete
    BY <1>3
  <2>2. [value |-> v, status |-> StoredStatus(schema, w.status)] \in ClaimOf(r)
    BY <2>1 DEF ClaimOf
  <2> QED BY <2>2
<1>6. r.create \cup r.update # {} <=> ItemOf(r) # {}
  BY <1>3 DEF ItemOf
<1> QED
  BY <1>1, <1>4, <1>5, <1>6 DEF Complete, Asked

\* What passes the checks of create_managed fits the schema of the moment.
LEMMA CreatedFits ==
  ASSUME NEW m, CreateValid(schema, m)
  PROVE  Fits(Created(m))
<1> DEFINE def == schema.types[m.type]
<1>1. /\ Created(m).type = m.type /\ Created(m).fields = m.fields
      /\ Created(m).state = m.state /\ Created(m).under = {def}
  BY DEF Created
<1>2. /\ \A f \in DOMAIN m.fields :
           f \in DOMAIN def.fields /\ FieldValid(m.fields[f], def.fields[f])
      /\ StateValid(m.state, def)
  BY DEF CreateValid, FieldsValid
<1> QED BY <1>1, <1>2 DEF Fits

\* An update checks what it sets, and carries on what fitted before.
LEMMA UpdatedFits ==
  ASSUME NEW old, Fits(old), NEW m, UpdateValid(schema, m)
  PROVE  Fits(Updated(old, m))
<1> DEFINE def == schema.types[m.type]
           new == Updated(old, m)
           set == {f \in DOMAIN m.fields : m.fields[f] # Null}
           kept == DOMAIN old.fields \ DOMAIN m.fields
<1>1. /\ new.fields = MergedFields(old.fields, m.fields)
      /\ new.state = MergedState(old.state, m.state)
      /\ new.under = old.under \cup {def}
  BY DEF Updated
<1>2. \A f \in DOMAIN m.fields :
        f \in DOMAIN def.fields /\ FieldValid(m.fields[f], def.fields[f])
  BY DEF UpdateValid, FieldsValid
<1>3. new.fields = [f \in kept \cup set |-> IF f \in set THEN m.fields[f] ELSE old.fields[f]]
  BY <1>1 DEF MergedFields
<1>4. ASSUME NEW f \in DOMAIN new.fields
      PROVE  \E d \in new.under :
               f \in DOMAIN d.fields /\ FieldValid(new.fields[f], d.fields[f])
  <2> HIDE DEF new, def
  <2>1. CASE f \in set
    <3>1. new.fields[f] = m.fields[f]
      BY <1>3, <1>4, <2>1
    <3> QED BY <1>1, <1>2, <2>1, <3>1
  <2>2. CASE f \notin set
    <3>1. new.fields[f] = old.fields[f] /\ f \in DOMAIN old.fields
      BY <1>3, <1>4, <2>2
    <3> QED BY <1>1, <3>1 DEF Fits
  <2> QED BY <2>1, <2>2
<1>5. \E d \in new.under : StateValid(new.state, d)
  <2> HIDE DEF new, def
  <2>1. CASE m.state # {}
    <3>1. StateValid(m.state, def)
      BY <2>1 DEF UpdateValid, def
    <3> QED BY <1>1, <2>1, <3>1 DEF MergedState
  <2>2. CASE m.state = {}
    BY <1>1, <2>2 DEF MergedState, Fits
  <2> QED BY <2>1, <2>2
<1> QED BY <1>4, <1>5 DEF Fits

\* The items of a transaction that passes its checks fit.
LEMMA StagedFit ==
  ASSUME StoredAreComplete, NEW c \in Calls, NEW t, call[c].request \in Requests,
         Refusal(call[c].request) = {}
  PROVE  \A m \in Row(c, t).item : Fits(m)
<1> DEFINE r == call[c].request
<1>1. Row(c, t).item = ItemOf(r)
  BY DEF Row
<1>2. IsCheckout(r)
  BY TerraServerAssumption DEF IsRequest
<1>3. /\ \A m \in r.create : CreateValid(schema, m)
      /\ \A m \in r.update : UpdateValid(schema, m)
  <2>1. CASE r.branch # {}
    BY <1>2, <2>1 DEF IsCheckout
  <2>2. CASE r.branch = {}
    BY <2>2 DEF Refusal, TransactionRefusal, Invalid
  <2> QED BY <2>1, <2>2
<1>4. \A old \in Item({}) : Fits(old)
  BY DEF Item, Newest, Bounded, StoredAreComplete
<1> HIDE DEF r
<1>5. ASSUME NEW m \in ItemOf(r) PROVE Fits(m)
  <2>1. \/ \E n \in r.create : m = Created(n)
        \/ \E n \in r.update : \E old \in Item({}) : m = Updated(old, n)
    BY <1>5 DEF ItemOf
  <2> QED BY <1>3, <1>4, <2>1, CreatedFits, UpdatedFits
<1> QED BY <1>1, <1>5

\* call[c] is replaced by another state of the same request.
Moves(c) ==
  /\ call' = [d \in Calls |-> call'[d]]
  /\ \A d \in Calls \ {c} : call'[d] = call[d]
  /\ IsCall(call'[c])
  /\ call'[c].request = call[c].request

\* A call that moves to a step of the protocol keeps the shape of calls.
LEMMA MovesKeepShape ==
  ASSUME Shape, NEW c \in Calls, call[c] # Unsent, Moves(c),
         call'[c].pc \in {"received", "answered"} \cup Writing \cup Reading
  PROVE  Shape'
BY DEF Shape, Moves

\* A step of a query leaves what transactions are promised.
LEMMA QueryStep ==
  ASSUME AnswersInv, NEW c \in Calls, store' = store, Moves(c),
         call[c] # Unsent, call[c].pc \in Reading \cup {"received"},
         ~Asks(c, Mutating),
         \/ call'[c].pc \in Reading /\ ~call[c].request.malformed
         \/ call'[c].pc = "answered"
  PROVE  AnswersInv'
<1>0. Shape'
  BY MovesKeepShape DEF AnswersInv
<1> USE DEF Moves, AnswersInv, Asked, Asks, Reading, Writing
<1>1. Roles'
  BY DEF Roles
<1>2. StagedAreComplete'
  BY DEF StagedAreComplete
<1>3. StoredAreComplete'
  BY DEF StoredAreComplete
<1>4. StoredOnce'
  BY DEF StoredOnce
<1>5. SuccessIsStored'
  BY DEF SuccessIsStored
<1> QED BY <1>0, <1>1, <1>2, <1>3, <1>4, <1>5

\* Nothing is sent or stored at first.
LEMMA AnswersInvInit == Init => AnswersInv
BY DEF Init, AnswersInv, Shape, Roles, StagedAreComplete, StoredAreComplete,
   StoredOnce, SuccessIsStored, Unsent, Reading, Writing

-----------------------------------------------------------------------------
\* A call at any place has been sent.
LEMMA Sent ==
  ASSUME Shape, NEW c \in Calls, call[c].pc # "unsent"
  PROVE  call[c] # Unsent /\ IsCall(call[c]) /\ call[c].request \in Requests
BY DEF Shape, Unsent

\* The steps of a query. The first one finds its bound.
LEMMA ReadHeadKeeps ==
  ASSUME AnswersInv, NEW c \in Calls, ReadHead(c)
  PROVE  AnswersInv'
<1> DEFINE b == IF call[c].bound = {} THEN {HeadTx} ELSE call[c].bound
           pc == FirstRead(call[c].request.command)
<1>1. /\ call[c].pc = "received" /\ store' = store
      /\ call' = [call EXCEPT ![c].pc = pc, ![c].bound = b]
  BY DEF ReadHead, At
<1>2. call[c] # Unsent /\ IsCall(call[c])
  BY <1>1, Sent DEF AnswersInv
<1>3. pc \in Reading
  BY DEF FirstRead, Reading
<1>4. Moves(c) /\ call'[c].pc = pc
  <2> HIDE DEF b, pc
  <2> QED BY <1>1, <1>2 DEF AnswersInv, Shape, Moves, IsCall
<1>5. ~Asks(c, Mutating) /\ ~call[c].request.malformed
  BY DEF ReadHead, Asks, AtHead, Mutating
<1> QED
  BY <1>1, <1>2, <1>3, <1>4, <1>5, QueryStep

\* The entity is read, or is not found.
LEMMA ReadRecordKeeps ==
  ASSUME AnswersInv, NEW c \in Calls, ReadRecord(c)
  PROVE  AnswersInv'
<1> DEFINE past == Asks(c, {"entity.history"})
           record == IF past THEN Record(call[c].bound) ELSE Live(call[c].bound)
           pc == IF past THEN "events" ELSE "claims"
           answer == IF past \/ Asks(c, {"entity.get"}) THEN "not_found" ELSE "ok"
<1>1. /\ call[c].pc \in {"received", "record"} /\ store' = store
      /\ \/ call' = [call EXCEPT ![c].pc = pc, ![c].record = record]
         \/ call' = [call EXCEPT ![c].pc = "answered", ![c].answer = answer]
  BY DEF ReadRecord, At, Answered
<1>2. call[c] # Unsent /\ IsCall(call[c])
  BY <1>1, Sent DEF AnswersInv
<1>3. pc \in Reading
  BY DEF Reading
<1>4. Moves(c) /\ call'[c].pc \in {pc, "answered"}
  <2> HIDE DEF pc, record, answer
  <2> QED BY <1>1, <1>2 DEF AnswersInv, Shape, Moves, IsCall
<1>5. ~Asks(c, Mutating) /\ ~call[c].request.malformed
  BY DEF AnswersInv, Roles, ReadRecord, At, Asks, AsAsked, Mutating, Reading
<1> QED
  BY <1>1, <1>2, <1>3, <1>4, <1>5, QueryStep DEF Reading
\* The properties are read and answered.
LEMMA ReadClaimsKeeps ==
  ASSUME AnswersInv, NEW c \in Calls, ReadClaims(c)
  PROVE  AnswersInv'
<1> DEFINE shown == Shown(schema, Claims(call[c].bound))
<1>1. /\ call[c].pc = "claims" /\ store' = store
      /\ call' = [call EXCEPT ![c].pc = "answered", ![c].answer = "ok", ![c].shown = shown]
  BY DEF ReadClaims, At, Answered
<1>2. call[c] # Unsent /\ IsCall(call[c])
  BY <1>1, Sent DEF AnswersInv
<1>3. Moves(c) /\ call'[c].pc \in {"answered"}
  <2> HIDE DEF shown
  <2> QED BY <1>1, <1>2 DEF AnswersInv, Shape, Moves, IsCall
<1>4. ~Asks(c, Mutating) /\ ~call[c].request.malformed
  BY <1>1 DEF AnswersInv, Roles, Asks, Reading
<1> QED
  BY <1>1, <1>2, <1>3, <1>4, QueryStep DEF Reading

\* The items are listed and answered.
LEMMA ReadItemsKeeps ==
  ASSUME AnswersInv, NEW c \in Calls, ReadItems(c)
  PROVE  AnswersInv'
<1> DEFINE items == ListItems(schema, call[c].bound)
<1>1. /\ call[c].pc = "items" /\ store' = store
      /\ call' = [call EXCEPT ![c].pc = "answered", ![c].answer = "ok", ![c].items = items]
  BY DEF ReadItems, At, Answered
<1>2. call[c] # Unsent /\ IsCall(call[c])
  BY <1>1, Sent DEF AnswersInv
<1>3. Moves(c) /\ call'[c].pc \in {"answered"}
  <2> HIDE DEF items
  <2> QED BY <1>1, <1>2 DEF AnswersInv, Shape, Moves, IsCall
<1>4. ~Asks(c, Mutating) /\ ~call[c].request.malformed
  BY <1>1 DEF AnswersInv, Roles, Asks, Reading
<1> QED
  BY <1>1, <1>2, <1>3, <1>4, QueryStep DEF Reading

\* The transactions are listed and answered.
LEMMA ReadTransactionsKeeps ==
  ASSUME AnswersInv, NEW c \in Calls, ReadTransactions(c)
  PROVE  AnswersInv'
<1> DEFINE txs == Txs(Bounded(OnMain, call[c].bound))
<1>1. /\ call[c].pc = "transactions" /\ store' = store
      /\ call' = [call EXCEPT ![c].pc = "answered", ![c].answer = "ok", ![c].txs = txs]
  BY DEF ReadTransactions, At, Answered
<1>2. call[c] # Unsent /\ IsCall(call[c])
  BY <1>1, Sent DEF AnswersInv
<1>3. Moves(c) /\ call'[c].pc \in {"answered"}
  <2> HIDE DEF txs
  <2> QED BY <1>1, <1>2 DEF AnswersInv, Shape, Moves, IsCall
<1>4. ~Asks(c, Mutating) /\ ~call[c].request.malformed
  BY <1>1 DEF AnswersInv, Roles, Asks, Reading
<1> QED
  BY <1>1, <1>2, <1>3, <1>4, QueryStep DEF Reading

\* What a transaction put is read and answered.
LEMMA ReadDetailKeeps ==
  ASSUME AnswersInv, NEW c \in Calls, ReadDetail(c)
  PROVE  AnswersInv'
<1> DEFINE found == {r \in store : r.tx \in call[c].bound}
           answer == IF found = {} THEN "not_found" ELSE "ok"
<1>1. /\ call[c].pc = "detail" /\ store' = store
      /\ call' = [call EXCEPT ![c].pc = "answered", ![c].answer = answer, ![c].detail = found]
  BY DEF ReadDetail, At, Answered
<1>2. call[c] # Unsent /\ IsCall(call[c])
  BY <1>1, Sent DEF AnswersInv
<1>3. Moves(c) /\ call'[c].pc \in {"answered"}
  <2> HIDE DEF found, answer
  <2> QED BY <1>1, <1>2 DEF AnswersInv, Shape, Moves, IsCall
<1>4. ~Asks(c, Mutating) /\ ~call[c].request.malformed
  BY <1>1 DEF AnswersInv, Roles, Asks, Reading
<1> QED
  BY <1>1, <1>2, <1>3, <1>4, QueryStep DEF Reading

\* The transactions of the entity's properties are read.
LEMMA ReadEventsKeeps ==
  ASSUME AnswersInv, NEW c \in Calls, ReadEvents(c)
  PROVE  AnswersInv'
<1> DEFINE txs == Txs(Claims(call[c].bound))
<1>1. /\ call[c].pc = "events" /\ store' = store
      /\ call' = [call EXCEPT ![c].pc = "changes", ![c].txs = txs]
  BY DEF ReadEvents, At, Answered
<1>2. call[c] # Unsent /\ IsCall(call[c])
  BY <1>1, Sent DEF AnswersInv
<1>3. Moves(c) /\ call'[c].pc \in {"changes"}
  <2> HIDE DEF txs
  <2> QED BY <1>1, <1>2 DEF AnswersInv, Shape, Moves, IsCall
<1>4. ~Asks(c, Mutating) /\ ~call[c].request.malformed
  BY <1>1 DEF AnswersInv, Roles, Asks, Reading
<1> QED
  BY <1>1, <1>2, <1>3, <1>4, QueryStep DEF Reading

\* The transactions of the entity's record are read.
LEMMA ReadChangesKeeps ==
  ASSUME AnswersInv, NEW c \in Calls, ReadChanges(c)
  PROVE  AnswersInv'
<1> DEFINE txs == call[c].txs \cup Txs({r \in Bounded(store, call[c].bound) : r.record # {}})
<1>1. /\ call[c].pc = "changes" /\ store' = store
      /\ call' = [call EXCEPT ![c].pc = "entries", ![c].txs = txs]
  BY DEF ReadChanges, At, Answered
<1>2. call[c] # Unsent /\ IsCall(call[c])
  BY <1>1, Sent DEF AnswersInv
<1>3. Moves(c) /\ call'[c].pc \in {"entries"}
  <2> HIDE DEF txs
  <2> QED BY <1>1, <1>2 DEF AnswersInv, Shape, Moves, IsCall
<1>4. ~Asks(c, Mutating) /\ ~call[c].request.malformed
  BY <1>1 DEF AnswersInv, Roles, Asks, Reading
<1> QED
  BY <1>1, <1>2, <1>3, <1>4, QueryStep DEF Reading

\* An entry of a history is read, or its last was.
LEMMA ReadEntryKeeps ==
  ASSUME AnswersInv, NEW c \in Calls, ReadEntry(c)
  PROVE  AnswersInv'
<1> DEFINE left == call[c].txs \ Txs(call[c].entries)
           entries == call[c].entries \cup {Entry(schema, Max(left))}
<1>1. /\ call[c].pc = "entries" /\ store' = store
      /\ \/ call' = [call EXCEPT ![c].pc = "answered", ![c].answer = "ok"]
         \/ call' = [call EXCEPT ![c].entries = entries]
  BY DEF ReadEntry, At, Answered
<1>2. call[c] # Unsent /\ IsCall(call[c])
  BY <1>1, Sent DEF AnswersInv
<1>3. Moves(c) /\ call'[c].pc \in {"entries", "answered"}
  <2> HIDE DEF left, entries
  <2> QED BY <1>1, <1>2 DEF AnswersInv, Shape, Moves, IsCall
<1>4. ~Asks(c, Mutating) /\ ~call[c].request.malformed
  BY <1>1 DEF AnswersInv, Roles, Asks, Reading
<1> QED
  BY <1>1, <1>2, <1>3, <1>4, QueryStep DEF Reading

\* A malformed request is answered by the dispatcher.
LEMMA RejectKeeps ==
  ASSUME AnswersInv, NEW c \in Calls, Reject(c)
  PROVE  AnswersInv'
<1>1. /\ call[c].pc = "received" /\ call[c].request.malformed /\ store' = store
      /\ call' = [call EXCEPT ![c].pc = "answered", ![c].answer = "parse_error"]
  BY DEF Reject, At, Answered
<1>2. call[c] # Unsent /\ IsCall(call[c])
  BY <1>1, Sent DEF AnswersInv
<1>3. Moves(c) /\ call'[c].pc = "answered"
  BY <1>1, <1>2 DEF AnswersInv, Shape, Moves, IsCall
<1>4. ~Asks(c, Mutating)
  BY <1>1 DEF Asks
<1> QED
  BY <1>1, <1>2, <1>3, <1>4, QueryStep

-----------------------------------------------------------------------------
\* The steps of a transaction. It waits for the lock.
LEMMA LockKeeps ==
  ASSUME AnswersInv, NEW c \in Calls, Lock(c)
  PROVE  AnswersInv'
<1>1. /\ call[c].pc = "received" /\ Asks(c, Mutating) /\ store' = store
      /\ call' = [call EXCEPT ![c].pc = "locked"]
  BY DEF Lock, At
<1>2. call[c] # Unsent /\ IsCall(call[c])
  BY <1>1, Sent DEF AnswersInv
<1>3. Moves(c) /\ call'[c].pc = "locked"
  BY <1>1, <1>2 DEF AnswersInv, Shape, Moves, IsCall
<1> USE DEF Moves, AnswersInv, Asked, Asks, Reading, Writing
<1>4. Shape'
  BY <1>2, <1>3, MovesKeepShape
<1>5. Roles'
  BY <1>1, <1>3 DEF Roles
<1>6. StagedAreComplete'
  BY <1>3 DEF StagedAreComplete
<1>7. StoredAreComplete' /\ StoredOnce'
  BY <1>1, <1>3 DEF StoredAreComplete, StoredOnce
<1>8. SuccessIsStored'
  BY <1>1, <1>3 DEF SuccessIsStored
<1> QED BY <1>4, <1>5, <1>6, <1>7, <1>8

\* A transaction that is refused leaves the store alone.
LEMMA RefuseKeeps ==
  ASSUME AnswersInv, NEW c \in Calls, Refuse(c)
  PROVE  AnswersInv'
<1>1. PICK error \in Refusal(call[c].request) :
        /\ call[c].pc = "locked" /\ store' = store
        /\ call' = [call EXCEPT ![c].pc = "answered", ![c].answer = error]
  BY DEF Refuse, At, Answered
<1>2. error # "ok"
  BY DEF Refusal, TransactionRefusal, CheckoutRefusal
<1>3. call[c] # Unsent /\ IsCall(call[c])
  BY <1>1, Sent DEF AnswersInv
<1>4. Moves(c) /\ call'[c].pc = "answered" /\ call'[c].answer = error
  BY <1>1, <1>3 DEF AnswersInv, Shape, Moves, IsCall
<1> USE DEF Moves, AnswersInv, Asked, Asks, Reading, Writing
<1>5. Shape'
  BY <1>3, <1>4, MovesKeepShape
<1>6. Roles'
  BY <1>1, <1>4 DEF Roles
<1>7. StagedAreComplete'
  BY <1>4 DEF StagedAreComplete
<1>8. StoredAreComplete' /\ StoredOnce'
  BY <1>1, <1>4 DEF StoredAreComplete, StoredOnce
<1>9. SuccessIsStored'
  BY <1>1, <1>2, <1>4 DEF SuccessIsStored
<1> QED BY <1>5, <1>6, <1>7, <1>8, <1>9

\* What is staged is complete, and fits the schemas that it names.
LEMMA StageKeeps ==
  ASSUME AnswersInv, NEW c \in Calls, Stage(c)
  PROVE  AnswersInv'
<1> DEFINE row == Row(c, NextId)
<1>1. /\ call[c].pc = "locked" /\ store' = store
      /\ call' = [call EXCEPT ![c].pc = "staged", ![c].batch = {row}]
  BY DEF Stage, At
<1>2. /\ call[c] # Unsent /\ IsCall(call[c]) /\ call[c].request \in Requests
      /\ Asks(c, Mutating)
  BY <1>1, Sent DEF AnswersInv, Roles, Writing
<1>3. row.by = c /\ Complete(row, Asked(c)) /\ \A m \in row.item : Fits(m)
  BY <1>2, RowIsComplete, StagedFit DEF Stage, AnswersInv
<1> HIDE DEF row
<1>4. Moves(c) /\ call'[c].pc = "staged" /\ call'[c].batch = {row}
  BY <1>1, <1>2 DEF AnswersInv, Shape, Moves, IsCall
<1> USE DEF Moves, AnswersInv, Asked, Asks, Reading, Writing
<1>5. Shape'
  BY <1>2, <1>4, MovesKeepShape
<1>6. Roles'
  BY <1>2, <1>4 DEF Roles
<1>7. StagedAreComplete'
  <2> SUFFICES ASSUME NEW d \in Calls, call'[d].pc = "staged"
               PROVE  /\ \E r : /\ call'[d].batch = {r} /\ r.by = d
                              /\ Complete(r, Asked(d)')
                              /\ \A m \in r.item : Fits(m)
    BY DEF StagedAreComplete
  <2>1. CASE d = c
    BY <2>1, <1>3, <1>4
  <2>2. CASE d # c
    BY <2>2, <1>4 DEF StagedAreComplete
  <2> QED BY <2>1, <2>2
<1>8. StoredAreComplete' /\ StoredOnce'
  BY <1>1, <1>4 DEF StoredAreComplete, StoredOnce
<1>9. SuccessIsStored'
  BY <1>1, <1>4 DEF SuccessIsStored
<1> QED BY <1>5, <1>6, <1>7, <1>8, <1>9

\* What is committed is what was staged, and the first row of its call.
LEMMA CommitKeeps ==
  ASSUME AnswersInv, NEW c \in Calls, Commit(c)
  PROVE  AnswersInv'
<1>1. /\ call[c].pc = "staged" /\ store' = store \cup call[c].batch
      /\ call' = [call EXCEPT ![c].pc = "committed", ![c].batch = {}]
  BY DEF Commit, At
<1>2. call[c] # Unsent /\ IsCall(call[c]) /\ Asks(c, Mutating)
  BY <1>1, Sent DEF AnswersInv, Roles, Writing
<1>3. PICK row : /\ call[c].batch = {row} /\ row.by = c /\ Complete(row, Asked(c))
                 /\ \A m \in row.item : Fits(m)
  BY <1>1 DEF AnswersInv, StagedAreComplete
<1>4. Moves(c) /\ call'[c].pc = "committed"
  BY <1>1, <1>2 DEF AnswersInv, Shape, Moves, IsCall
<1>5. store' = store \cup {row} /\ \A r \in store : r.by # c
  BY <1>1, <1>3 DEF AnswersInv, StoredAreComplete
<1> USE DEF Moves, AnswersInv, Asked, Asks, Reading, Writing
<1>6. Shape'
  BY <1>2, <1>4, MovesKeepShape
<1>7. Roles'
  BY <1>2, <1>4 DEF Roles
<1>8. StagedAreComplete'
  BY <1>4 DEF StagedAreComplete
<1>9. StoredAreComplete' /\ StoredOnce'
  BY <1>3, <1>4, <1>5, <1>6, Sent DEF StoredAreComplete, StoredOnce, Unsent
<1>10. SuccessIsStored'
  BY <1>3, <1>4, <1>5 DEF SuccessIsStored
<1> QED BY <1>6, <1>7, <1>8, <1>9, <1>10

\* Only what is committed is answered ok.
LEMMA ReplyKeeps ==
  ASSUME AnswersInv, NEW c \in Calls, Reply(c)
  PROVE  AnswersInv'
<1>1. /\ call[c].pc = "committed" /\ store' = store
      /\ call' = [call EXCEPT ![c].pc = "answered", ![c].answer = "ok"]
  BY DEF Reply, At, Answered
<1>2. call[c] # Unsent /\ IsCall(call[c])
  BY <1>1, Sent DEF AnswersInv
<1>3. Moves(c) /\ call'[c].pc = "answered" /\ call'[c].answer = "ok"
  BY <1>1, <1>2 DEF AnswersInv, Shape, Moves, IsCall
<1>9. call'[c] # Unsent
  BY <1>3 DEF Unsent
<1> USE DEF Moves, AnswersInv, Asked, Asks, Reading, Writing
<1>4. Shape'
  BY <1>2, <1>3, MovesKeepShape
<1>5. Roles'
  BY <1>3 DEF Roles
<1>6. StagedAreComplete'
  BY <1>3 DEF StagedAreComplete
<1>7. StoredAreComplete' /\ StoredOnce'
  BY <1>1, <1>3, <1>9 DEF StoredAreComplete, StoredOnce
<1>8. SuccessIsStored'
  BY <1>1, <1>3 DEF SuccessIsStored
<1> QED BY <1>4, <1>5, <1>6, <1>7, <1>8

-----------------------------------------------------------------------------
\* A call that is sent has put nothing yet.
LEMMA SendKeeps ==
  ASSUME AnswersInv, NEW c \in Calls, NEW request \in Requests, Send(c, request)
  PROVE  AnswersInv'
<1>1. /\ call[c].pc = "unsent" /\ store' = store
      /\ call' = [call EXCEPT ![c] = NewCall(request)]
  BY DEF Send, At
<1>2. /\ call' = [d \in Calls |-> call'[d]] /\ call'[c] = NewCall(request)
      /\ \A d \in Calls \ {c} : call'[d] = call[d]
  BY <1>1 DEF AnswersInv, Shape
<1>3. /\ IsCall(call'[c]) /\ call'[c].pc = "received" /\ call'[c].request = request
      /\ call'[c].pc # "unsent"
  BY <1>2 DEF NewCall, IsCall
<1> USE DEF AnswersInv, Asked, Asks, Reading, Writing
<1>4. Shape'
  BY <1>2, <1>3 DEF Shape
<1>5. Roles'
  BY <1>2, <1>3 DEF Roles
<1>6. StagedAreComplete'
  BY <1>2, <1>3 DEF StagedAreComplete
<1>7. StoredAreComplete' /\ StoredOnce'
  BY <1>1, <1>2, <1>3 DEF StoredAreComplete, StoredOnce
<1>8. SuccessIsStored'
  BY <1>1, <1>2, <1>3 DEF SuccessIsStored
<1> QED BY <1>4, <1>5, <1>6, <1>7, <1>8

\* A process that dies loses what is staged and keeps what is committed.
LEMMA DieKeeps ==
  ASSUME AnswersInv, Die
  PROVE  AnswersInv'
<1>1. /\ store' = store
      /\ call' = [c \in Calls |->
                   IF InFlight(c)
                   THEN [call[c] EXCEPT !.pc = "answered", !.answer = "lost", !.batch = {}]
                   ELSE call[c]]
  BY DEF Die
<1>2. ASSUME NEW c \in Calls
      PROVE  \/ call'[c] = call[c] /\ ~InFlight(c)
             \/ /\ InFlight(c) /\ call[c] # Unsent /\ call'[c] # Unsent
                /\ IsCall(call[c]) /\ IsCall(call'[c])
                /\ call'[c].request = call[c].request /\ call[c].request \in Requests
                /\ call'[c].pc = "answered" /\ call'[c].answer = "lost"
  <2>1. CASE ~InFlight(c)
    BY <1>1, <2>1
  <2>2. CASE InFlight(c)
    <3>1. call[c] # Unsent /\ IsCall(call[c]) /\ call[c].request \in Requests
      BY <2>2, Sent DEF InFlight, AnswersInv
    <3>2. call'[c] = [call[c] EXCEPT !.pc = "answered", !.answer = "lost", !.batch = {}]
      BY <1>1, <2>2
    <3> QED BY <2>2, <3>1, <3>2 DEF IsCall, Unsent
  <2> QED BY <2>1, <2>2
<1>3. call' = [c \in Calls |-> call'[c]]
  BY <1>1
<1> USE DEF AnswersInv, Asked, Asks, InFlight, Reading, Writing
<1>4. Shape'
  BY <1>2, <1>3 DEF Shape
<1>5. Roles'
  BY <1>2 DEF Roles, Unsent
<1>6. StagedAreComplete'
  BY <1>2 DEF StagedAreComplete
<1>7. StoredAreComplete' /\ StoredOnce'
  BY <1>1, <1>2 DEF StoredAreComplete, StoredOnce
<1>8. SuccessIsStored'
  BY <1>1, <1>2 DEF SuccessIsStored
<1> QED BY <1>4, <1>5, <1>6, <1>7, <1>8

-----------------------------------------------------------------------------
\* AnswersInv is inductive.
LEMMA AnswersInvNext == AnswersInv /\ [Next]_vars => AnswersInv'
<1> SUFFICES ASSUME AnswersInv, [Next]_vars PROVE AnswersInv'
  OBVIOUS
<1>1. ASSUME NEW file \in Files, Start(file) PROVE AnswersInv'
  BY <1>1 DEF Start, AnswersInv, Shape, Roles, Asks, Asked, StagedAreComplete,
     StoredAreComplete, StoredOnce, SuccessIsStored
<1>2. CASE Die
  BY <1>2, DieKeeps
<1>3. ASSUME NEW c \in Calls, NEW r \in Requests, Send(c, r) PROVE AnswersInv'
  BY <1>3, SendKeeps
<1>4. ASSUME NEW c \in Calls, Handle(c) PROVE AnswersInv'
  BY <1>4, RejectKeeps, LockKeeps, RefuseKeeps, StageKeeps, CommitKeeps, ReplyKeeps,
     ReadHeadKeeps, ReadRecordKeeps, ReadClaimsKeeps, ReadItemsKeeps,
     ReadTransactionsKeeps, ReadDetailKeeps, ReadEventsKeeps, ReadChangesKeeps,
     ReadEntryKeeps DEF Handle
<1>5. CASE UNCHANGED vars
  BY <1>5 DEF vars, process, AnswersInv, Shape, Roles, Asks, Asked, StagedAreComplete,
     StoredAreComplete, StoredOnce, SuccessIsStored
<1> QED BY <1>1, <1>2, <1>3, <1>4, <1>5 DEF Next

\* AnswersInv holds in every reachable state.
LEMMA AnswersInvHolds == Spec => []AnswersInv
BY AnswersInvInit, AnswersInvNext, PTL DEF Spec

\* What a client is told of a transaction is true (terra.rs, dispatch.rs): a call
\* that is answered ok has put exactly what it asked for, once; one that is refused
\* has put nothing; only one that lost its answer may have put it or not.
THEOREM AnswersAreTrueHolds == Spec => []AnswersAreTrue
<1>1. AnswersInv => AnswersAreTrue
  <2> SUFFICES ASSUME AnswersInv, NEW c \in Calls
               PROVE  /\ \A r \in Rows(c) :
                           /\ Complete(r, Asked(c))
                           /\ call[c].pc = "committed" \/ call[c].answer \in {"ok", "lost"}
                      /\ (call[c].pc = "answered" /\ call[c].answer = "ok" /\ Asks(c, Mutating))
                           => Cardinality(Rows(c)) = 1
    BY DEF AnswersAreTrue
  <2>1. \A r \in Rows(c) :
          /\ Complete(r, Asked(c))
          /\ call[c].pc = "committed" \/ call[c].answer \in {"ok", "lost"}
    BY DEF Rows, AnswersInv, StoredAreComplete
  <2>2. ASSUME call[c].pc = "answered", call[c].answer = "ok", Asks(c, Mutating)
        PROVE  Cardinality(Rows(c)) = 1
    <3>1. PICK row \in store : row.by = c
      BY <2>2 DEF AnswersInv, SuccessIsStored
    <3>2. Rows(c) = {row}
      BY <3>1 DEF Rows, AnswersInv, StoredOnce
    <3> QED BY <3>2, FS_Singleton
  <2> QED BY <2>1, <2>2
<1> QED BY <1>1, AnswersInvHolds, PTL

\* What an update of a managed item carries on is what an earlier one checked
\* (transaction.rs, validator.rs): an item holds nothing that no schema it was
\* written under declares, whatever the schemas of the processes.
THEOREM ItemsFitTheirSchemasHolds == Spec => []ItemsFitTheirSchemas
<1>1. AnswersInv => ItemsFitTheirSchemas
  BY DEF AnswersInv, StoredAreComplete, Fits, ItemsFitTheirSchemas
<1> QED BY <1>1, AnswersInvHolds, PTL

\* A terminal status of the last schema is one of the next.
LEMMA EndsAreKept ==
  ASSUME NEW old, NEW new, KeepsTerminals(old, new), NEW claim, Ends(old, claim)
  PROVE  Ends(new, claim)
<1> SUFFICES ASSUME NEW n \in new.statuses PROVE IsTerminal(n, claim.status)
  BY DEF Ends
<1>1. PICK o \in old.statuses :
        /\ ToSet(o.terminal) \subseteq ToSet(n.terminal)
        /\ o.default \in ToSet(o.terminal) => n.default \in ToSet(n.terminal)
  BY DEF KeepsTerminals
<1>2. IsTerminal(o, claim.status)
  BY DEF Ends
<1>3. CASE claim.status # {}
  BY <1>1, <1>2, <1>3 DEF IsTerminal, Resolve
<1>4. CASE claim.status = {}
  BY <1>1, <1>2, <1>4 DEF IsTerminal, Resolve
<1> QED BY <1>3, <1>4

\* A process that starts with a schema that keeps the terminal statuses shows
\* nothing that the last one did not (domain/property_tree.rs, data_schema.rs);
\* no other step changes what a status means.
THEOREM RestartsReviveNothingHolds == Spec => RestartsReviveNothing
<1>1. ASSUME NEW file \in Files, Start(file), KeepsTerminals(schema, schema')
      PROVE  Shown(schema', Claims({})) \subseteq Shown(schema, Claims({}))
  BY <1>1, EndsAreKept DEF Shown
<1>2. ASSUME schema' = schema
      PROVE  Shown(schema', Claims({})) \subseteq Shown(schema, Claims({}))
  BY <1>2
<1>3. ASSUME [Next]_vars
      PROVE  schema' = schema \/ \E file \in Files : Start(file)
  BY <1>3 DEF Next, vars, process, Die, Send, Handle, Reject, Lock, Refuse, Stage, Commit,
     Reply, ReadHead, ReadRecord, ReadClaims, ReadItems, ReadTransactions, ReadDetail,
     ReadEvents, ReadChanges, ReadEntry
<1>4. [Next]_vars =>
        [(starts > 0 /\ KeepsTerminals(schema, schema')) =>
           Shown(schema', Claims({})) \subseteq Shown(schema, Claims({}))]_vars
  BY <1>1, <1>2, <1>3
<1> QED BY <1>4, PTL DEF Spec, RestartsReviveNothing

-----------------------------------------------------------------------------
(***************************************************************************)
(* Bounded reads, for stores whose clock is not behind when they start.    *)
(***************************************************************************)
\* What a query has read so far, a state k of its call, as the store shows it.
IsFresh(k) ==
  /\ k.pc \in {"received", "record", "items", "transactions", "detail", "events", "changes"}
       => k.shown = {} /\ k.entries = {}
  /\ k.pc \in {"received", "record", "items", "transactions", "detail"} => k.record = {}

\* Each step belongs to some commands.
IsLocated(k) ==
  /\ k.pc = "record" => k.request.command \in {"entities.touched", "entity.history"}
  /\ k.pc = "claims" => k.request.command \in AsAsked \cup {"entities.touched"}
  /\ k.pc = "items" => k.request.command = "managed.list"
  /\ k.pc = "transactions" => k.request.command = "transactions.list"
  /\ k.pc = "detail" => k.request.command = "transaction.get"
  /\ k.pc \in {"events", "changes", "entries"} => k.request.command = "entity.history"

\* What was read at a step is the store's at the bound.
IsPartial(k) ==
  /\ k.pc = "claims" => k.record = Live(k.bound) /\ k.record # {}
  /\ k.pc \in {"events", "changes", "entries"} => Record(k.bound) # {}
  /\ k.pc = "changes" => k.txs = Txs(Claims(k.bound))
  /\ k.pc = "entries" => /\ k.txs = Events(k.bound)
                         /\ \A e \in k.entries : \E t \in k.txs : e = Entry(k.under, t)

\* So is the answer.
IsAnswer(k) ==
  (k.pc = "answered" /\ k.answer # "lost" /\ ~k.request.malformed
     /\ k.request.command \notin Mutating) =>
    /\ k.request.command = "managed.list" => k.items = ListItems(k.under, k.bound)
    /\ k.request.command = "transactions.list" => k.txs = Txs(Bounded(OnMain, k.bound))
    /\ k.request.command = "transaction.get" => k.detail = {r \in store : r.tx \in k.bound}
    /\ k.request.command = "entity.history" =>
         k.entries = IF Record(k.bound) = {} THEN {}
                     ELSE {Entry(k.under, t) : t \in Events(k.bound)}
    /\ k.request.command \in AsAsked \cup {"entities.touched"} =>
         /\ k.record = Live(k.bound)
         /\ k.shown = IF Live(k.bound) = {} THEN {}
                      ELSE Shown(k.under, Claims(k.bound))

\* What is known of a call in a state k, if it has a bound.
Known(k) ==
  IsFresh(k) /\ IsLocated(k) /\ (k.bound # {} => IsPartial(k) /\ IsAnswer(k))

\* A process that is down handles nothing.
Quiet == ~up => \A c \in Calls : ~InFlight(c)

\* Who is between its checks and its commit has the lock.
LockHeld == \A c \in Calls : call[c].pc \in {"locked", "staged"} => lock = {c}

\* No id is above the clock.
IdsAreUsed ==
  /\ IsFiniteSet(store) /\ clock \in Nat
  /\ \A r \in store : r.tx \in Nat /\ r.tx =< clock

\* What is about to be committed is above all that is.
StagedIsNext ==
  \A c \in Calls : call[c].pc = "staged" =>
    \A r \in call[c].batch : r.tx = clock /\ r.tx > 0 /\ \A s \in store : s.tx < r.tx

\* Bounds are ids of transactions, or none was there.
BoundsArePast ==
  \A c \in Calls : call[c] # Unsent =>
    \A b \in call[c].bound : b = 0 \/ \E r \in store : b = r.tx

\* A request is handled by the process that received it.
UnderSchema == \A c \in Calls : InFlight(c) => call[c].under = schema

\* What is known of every call. The quantifier is over states of calls, which stay
\* as they are when the call moves on.
AllKnown == \A k : (k # Unsent /\ \E c \in Calls : call[c] = k) => Known(k)

\* The inductive invariant of the reads with a bound.
SnapshotInv ==
  Quiet /\ LockHeld /\ IdsAreUsed /\ StagedIsNext /\ BoundsArePast /\ UnderSchema /\ AllKnown

-----------------------------------------------------------------------------
\* A set of naturals that is not empty has a minimum.
LEMMA HasMin ==
  ASSUME NEW S \in SUBSET Nat, S # {}
  PROVE  \E x \in S : \A y \in S : x =< y
<1> DEFINE Less == {ss \in Nat \X Nat : ss[1] < ss[2]}
<1>1. IsWellFoundedOn(Less, Nat)
  BY NatLessThanWellFounded, Zenon DEF OpToRel
<1>2. \A x, y \in Nat : y < x => <<y, x>> \in Less
  OBVIOUS
<1> HIDE DEF Less
<1>3. PICK x \in S : \A y \in S : ~ (<<y, x>> \in Less)
  BY <1>1, WFMin
<1>4. \A y \in S : ~(y < x)
  BY <1>2, <1>3
<1> QED BY <1>4

\* A bounded set of ids that is not empty has a maximum.
LEMMA HasMax ==
  ASSUME NEW S \in SUBSET Nat, S # {}, NEW n \in Nat, \A y \in S : y =< n
  PROVE  Max(S) \in S /\ \A y \in S : Max(S) >= y
<1> DEFINE T == {n - x : x \in S}
<1>1. \A x \in S : n - x \in Nat
  OBVIOUS
<1>2. T \in SUBSET Nat /\ T # {}
  BY <1>1
<1>3. PICK m \in T : \A y \in T : m =< y
  BY <1>2, HasMin
<1>4. PICK x \in S : m = n - x
  OBVIOUS
<1>5. \A y \in S : x >= y
  <2> TAKE y \in S
  <2>1. m =< n - y
    BY <1>3
  <2> QED BY <1>4, <2>1
<1> QED BY <1>5 DEF Max

\* The store is extended at its end, or stays.
Grows ==
  \/ store' = store
  \/ \E row : /\ store' = store \cup {row} /\ row.tx \in Nat
              /\ row.tx > 0 /\ \A r \in store : r.tx < row.tx

\* A bound that is the id of a transaction, or of the empty store.
IsPast(bound) ==
  bound # {} /\ \A b \in bound : b = 0 \/ \E r \in store : b = r.tx

\* What is below a bound of the past stays as it is.
LEMMA PastIsFrozen ==
  ASSUME IdsAreUsed, Grows, NEW bound, IsPast(bound)
  PROVE  /\ \A b \in bound : b \in Nat
         /\ \A r \in store' \ store : \E b \in bound : ~(r.tx =< b)
         /\ \A r \in store' \ store : r.tx \notin bound
         /\ store \subseteq store'
BY DEF IdsAreUsed, Grows, IsPast

\* So a read with such a bound returns the same after a commit.
LEMMA ReadsAreFrozen ==
  ASSUME IdsAreUsed, Grows, NEW bound, IsPast(bound)
  PROVE  /\ Record(bound)' = Record(bound)
         /\ Claims(bound)' = Claims(bound)
         /\ Item(bound)' = Item(bound)
         /\ Bounded(OnMain, bound)' = Bounded(OnMain, bound)
         /\ {r \in store : r.tx \in bound}' = {r \in store : r.tx \in bound}
         /\ Events(bound)' = Events(bound)
<1> USE PastIsFrozen
<1>1. Bounded(store, bound)' = Bounded(store, bound)
  BY DEF Bounded
<1>2. Bounded({s \in store : s.record # {}}, bound)'
        = Bounded({s \in store : s.record # {}}, bound)
  BY DEF Bounded
<1>3. Bounded({s \in store : s.item # {}}, bound)'
        = Bounded({s \in store : s.item # {}}, bound)
  BY DEF Bounded
<1>4. Bounded(OnMain, bound)' = Bounded(OnMain, bound)
  BY DEF Bounded, OnMain
<1>5. Record(bound)' = Record(bound)
  BY <1>2 DEF Record
<1>6. Claims(bound)' = Claims(bound)
  BY <1>1 DEF Claims
<1>7. Item(bound)' = Item(bound)
  BY <1>3 DEF Item
<1>8. Events(bound)' = Events(bound)
  BY <1>1 DEF Events
<1>9. {r \in store : r.tx \in bound}' = {r \in store : r.tx \in bound}
  OBVIOUS
<1> QED BY <1>4, <1>5, <1>6, <1>7, <1>8, <1>9

\* An entry of a history does too: it reads at the bound of a past transaction.
LEMMA EntriesAreFrozen ==
  ASSUME IdsAreUsed, Grows, NEW bound, NEW under, NEW t \in Events(bound)
  PROVE  Entry(under, t)' = Entry(under, t)
<1>1. IsPast({t})
  BY DEF Events, Txs, Bounded, IsPast
<1>2. Record({t})' = Record({t}) /\ Claims({t})' = Claims({t})
  BY <1>1, ReadsAreFrozen
<1> QED BY <1>2 DEF Entry, Live

\* What was known of a call that does not move is still true.
LEMMA KnownIsFrozen ==
  ASSUME IdsAreUsed, Grows, NEW k, IsPast(k.bound) \/ k.bound = {}, Known(k)
  PROVE  Known(k)'
<1>1. CASE k.bound = {}
  BY <1>1 DEF Known, IsFresh, IsLocated
<1>2. CASE IsPast(k.bound)
  <2>1. /\ Record(k.bound)' = Record(k.bound)
        /\ Claims(k.bound)' = Claims(k.bound)
        /\ Item(k.bound)' = Item(k.bound)
        /\ Bounded(OnMain, k.bound)' = Bounded(OnMain, k.bound)
        /\ {r \in store : r.tx \in k.bound}' = {r \in store : r.tx \in k.bound}
        /\ Events(k.bound)' = Events(k.bound)
    BY <1>2, ReadsAreFrozen
  <2>2. \A t \in Events(k.bound) : Entry(k.under, t)' = Entry(k.under, t)
    BY EntriesAreFrozen
  <2>3. IsPartial(k)'
    BY <1>2, <2>1, <2>2 DEF Known, IsPast, IsPartial, Live
  <2>4. IsAnswer(k)'
    <3>1. {Entry(k.under, t) : t \in Events(k.bound)}'
            = {Entry(k.under, t) : t \in Events(k.bound)}
      BY <2>1, <2>2
    <3> QED BY <1>2, <2>1, <3>1 DEF Known, IsPast, IsAnswer, Live, ListItems
  <2> QED BY <2>3, <2>4 DEF Known, IsFresh, IsLocated
<1> QED BY <1>1, <1>2

-----------------------------------------------------------------------------
\* The head of main is the id of a transaction, or none is there.
LEMMA HeadIsPast ==
  ASSUME IdsAreUsed
  PROVE  HeadTx = 0 \/ \E r \in store : HeadTx = r.tx
<1> DEFINE S == {0} \cup {r.tx : r \in OnMain}
<1>1. S \in SUBSET Nat /\ S # {} /\ \A y \in S : y =< clock
  BY DEF IdsAreUsed, OnMain
<1>2. Max(S) \in S
  BY <1>1, HasMax DEF IdsAreUsed
<1> QED BY <1>2 DEF HeadTx, OnMain

\* No id is above the last one.
LEMMA LastIsLast ==
  ASSUME IdsAreUsed
  PROVE  LastTx \in Nat /\ \A r \in store : r.tx =< LastTx
<1> DEFINE S == {0} \cup {r.tx : r \in store}
<1>1. S \in SUBSET Nat /\ S # {} /\ \A y \in S : y =< clock
  BY DEF IdsAreUsed
<1>2. Max(S) \in S /\ \A y \in S : Max(S) >= y
  BY <1>1, HasMax DEF IdsAreUsed
<1>3. Max(S) \in Nat
  BY <1>1, <1>2
<1> QED BY <1>2, <1>3 DEF LastTx

\* With no id above the clock, the next id is the next tick.
LEMMA NextIsFree ==
  ASSUME IdsAreUsed
  PROVE  NextId = clock + 1
<1> DEFINE IsNext(t) == /\ \A r \in store : r.tx # t
                        /\ \A u \in clock + 1 .. t - 1 : \E r \in store : r.tx = u
<1>1. Cardinality(store) \in Nat
  BY FS_CardinalityType DEF IdsAreUsed
<1>2. clock + 1 \in clock + 1 .. clock + Cardinality(store) + 1 /\ IsNext(clock + 1)
  BY <1>1 DEF IdsAreUsed
<1>3. ASSUME NEW t \in clock + 1 .. clock + Cardinality(store) + 1, IsNext(t)
      PROVE  t = clock + 1
  BY <1>1, <1>3 DEF IdsAreUsed
<1> QED BY <1>2, <1>3 DEF NextId

\* A step of a call that leaves the store alone.
Steps(c) ==
  /\ up /\ InFlight(c) /\ call[c] # Unsent /\ Moves(c)
  /\ UNCHANGED <<process, store>>
  /\ call'[c] # Unsent /\ call'[c].under = call[c].under
  /\ call'[c].bound \in {call[c].bound, {HeadTx}}

\* A step of a call tells nothing new of the others.
LEMMA StepsKeepKnown ==
  ASSUME SnapshotInv, NEW c \in Calls, Steps(c),
         \A k : k = call'[c] => Known(k)
  PROVE  BoundsArePast' /\ AllKnown' /\ UnderSchema' /\ Quiet'
<1> USE DEF SnapshotInv, Steps, Moves
<1>1. BoundsArePast'
  BY HeadIsPast DEF BoundsArePast
<1>2. UnderSchema' /\ Quiet'
  BY DEF UnderSchema, Quiet, InFlight, process
<1>3. ASSUME NEW k, k # Unsent, NEW d \in Calls, call'[d] = k
      PROVE  Known(k)'
  <2>1. Known(k)
    <3>1. CASE d = c
      BY <1>3, <3>1
    <3>2. CASE d # c
      BY <1>3, <3>2 DEF AllKnown
    <3> QED BY <3>1, <3>2
  <2>2. IsPast(k.bound) \/ k.bound = {}
    BY <1>1, <1>3 DEF BoundsArePast, IsPast
  <2>3. Grows
    BY DEF Grows
  <2> QED BY <2>1, <2>2, <2>3, KnownIsFrozen
<1> QED BY <1>1, <1>2, <1>3 DEF AllKnown

\* A step of a query holds no lock and stages nothing.
LEMMA QueryKeepsSnapshots ==
  ASSUME SnapshotInv, NEW c \in Calls, Steps(c), UNCHANGED <<clock, lock>>,
         call'[c].pc \notin {"locked", "staged"},
         \A k : k = call'[c] => Known(k)
  PROVE  SnapshotInv'
<1>1. BoundsArePast' /\ AllKnown' /\ UnderSchema' /\ Quiet'
  BY StepsKeepKnown DEF Steps
<1>2. IdsAreUsed' /\ StagedIsNext' /\ LockHeld'
  BY DEF SnapshotInv, Steps, Moves, IdsAreUsed, StagedIsNext, LockHeld
<1> QED BY <1>1, <1>2 DEF SnapshotInv

-----------------------------------------------------------------------------
\* What is known of a call before its step.
LEMMA Before ==
  ASSUME AnswersInv, SnapshotInv, NEW c \in Calls, call[c].pc \notin {"unsent", "answered"}
  PROVE  /\ call[c] # Unsent /\ IsCall(call[c]) /\ InFlight(c) /\ call[c].under = schema
         /\ \A k : k = call[c] => Known(k)
BY Sent DEF AnswersInv, SnapshotInv, InFlight, UnderSchema, AllKnown

\* The properties are those of the bound, and the entity was live at it.
LEMMA ReadClaimsKeepsSnapshots ==
  ASSUME AnswersInv, SnapshotInv, NEW c \in Calls, ReadClaims(c)
  PROVE  SnapshotInv'
<1> PICK k, n : k = call[c] /\ n = call'[c]
  OBVIOUS
<1> DEFINE shown == Shown(schema, Claims(k.bound))
<1>1. /\ k.pc = "claims" /\ up /\ UNCHANGED <<process, clock, lock, store>>
      /\ call' = [call EXCEPT ![c].pc = "answered", ![c].answer = "ok", ![c].shown = shown]
  BY DEF ReadClaims, At, Answered
<1>2. k # Unsent /\ IsCall(k) /\ InFlight(c) /\ k.under = schema /\ Known(k)
  BY <1>1, Before
<1>3. Moves(c) /\ n.pc = "answered" /\ n.answer = "ok" /\ n.shown = shown
                /\ n.request = k.request /\ n.under = k.under /\ n.bound = k.bound
                /\ n.record = k.record /\ n.items = k.items /\ n.txs = k.txs
                /\ n.entries = k.entries /\ n.detail = k.detail
  <2> HIDE DEF shown
  <2> QED BY <1>1, <1>2 DEF AnswersInv, Shape, Moves, IsCall
<1>4. n # Unsent
  BY <1>3 DEF Unsent
<1>5. Steps(c)
  <2> HIDE DEF shown
  <2> QED BY <1>1, <1>2, <1>3, <1>4 DEF Steps
<1>6. Known(n)
  <2>1. IsLocated(k) /\ IsFresh(k) /\ (k.bound # {} => IsPartial(k))
    BY <1>2 DEF Known
  <2>2. IsFresh(n) /\ IsLocated(n)
    BY <1>1, <1>3, <2>1 DEF IsFresh, IsLocated
  <2>3. ASSUME n.bound # {} PROVE IsPartial(n)
    BY <1>1, <1>3, <2>1, <2>3 DEF IsPartial
  <2>4. ASSUME n.bound # {} PROVE IsAnswer(n)
    BY <1>1, <1>2, <1>3, <2>1, <2>4 DEF IsPartial, IsLocated, IsAnswer, AsAsked
  <2> QED BY <2>2, <2>3, <2>4 DEF Known
<1> QED
  BY <1>1, <1>3, <1>5, <1>6, QueryKeepsSnapshots

\* The items are those of the bound.
LEMMA ReadItemsKeepsSnapshots ==
  ASSUME AnswersInv, SnapshotInv, NEW c \in Calls, ReadItems(c)
  PROVE  SnapshotInv'
<1> PICK k, n : k = call[c] /\ n = call'[c]
  OBVIOUS
<1> DEFINE items == ListItems(schema, k.bound)
<1>1. /\ k.pc = "items" /\ up /\ UNCHANGED <<process, clock, lock, store>>
      /\ call' = [call EXCEPT ![c].pc = "answered", ![c].answer = "ok", ![c].items = items]
  BY DEF ReadItems, At, Answered
<1>2. k # Unsent /\ IsCall(k) /\ InFlight(c) /\ k.under = schema /\ Known(k)
  BY <1>1, Before
<1>3. Moves(c) /\ n.pc = "answered" /\ n.answer = "ok" /\ n.items = items
                /\ n.request = k.request /\ n.under = k.under /\ n.bound = k.bound
                /\ n.record = k.record /\ n.shown = k.shown /\ n.txs = k.txs
                /\ n.entries = k.entries /\ n.detail = k.detail
  <2> HIDE DEF items
  <2> QED BY <1>1, <1>2 DEF AnswersInv, Shape, Moves, IsCall
<1>4. n # Unsent
  BY <1>3 DEF Unsent
<1>5. Steps(c)
  <2> HIDE DEF items
  <2> QED BY <1>1, <1>2, <1>3, <1>4 DEF Steps
<1>6. Known(n)
  <2>1. IsLocated(k) /\ IsFresh(k) /\ (k.bound # {} => IsPartial(k))
    BY <1>2 DEF Known
  <2>2. IsFresh(n) /\ IsLocated(n)
    BY <1>1, <1>3, <2>1 DEF IsFresh, IsLocated
  <2>3. ASSUME n.bound # {} PROVE IsPartial(n)
    BY <1>1, <1>3, <2>1, <2>3 DEF IsPartial
  <2>4. ASSUME n.bound # {} PROVE IsAnswer(n)
    BY <1>1, <1>2, <1>3, <2>1, <2>4 DEF IsPartial, IsLocated, IsAnswer, AsAsked
  <2> QED BY <2>2, <2>3, <2>4 DEF Known
<1> QED
  BY <1>1, <1>3, <1>5, <1>6, QueryKeepsSnapshots

\* The transactions are those up to the bound.
LEMMA ReadTransactionsKeepsSnapshots ==
  ASSUME AnswersInv, SnapshotInv, NEW c \in Calls, ReadTransactions(c)
  PROVE  SnapshotInv'
<1> PICK k, n : k = call[c] /\ n = call'[c]
  OBVIOUS
<1> DEFINE txs == Txs(Bounded(OnMain, k.bound))
<1>1. /\ k.pc = "transactions" /\ up /\ UNCHANGED <<process, clock, lock, store>>
      /\ call' = [call EXCEPT ![c].pc = "answered", ![c].answer = "ok", ![c].txs = txs]
  BY DEF ReadTransactions, At, Answered
<1>2. k # Unsent /\ IsCall(k) /\ InFlight(c) /\ k.under = schema /\ Known(k)
  BY <1>1, Before
<1>3. Moves(c) /\ n.pc = "answered" /\ n.answer = "ok" /\ n.txs = txs
                /\ n.request = k.request /\ n.under = k.under /\ n.bound = k.bound
                /\ n.record = k.record /\ n.shown = k.shown /\ n.items = k.items
                /\ n.entries = k.entries /\ n.detail = k.detail
  <2> HIDE DEF txs
  <2> QED BY <1>1, <1>2 DEF AnswersInv, Shape, Moves, IsCall
<1>4. n # Unsent
  BY <1>3 DEF Unsent
<1>5. Steps(c)
  <2> HIDE DEF txs
  <2> QED BY <1>1, <1>2, <1>3, <1>4 DEF Steps
<1>6. Known(n)
  <2>1. IsLocated(k) /\ IsFresh(k) /\ (k.bound # {} => IsPartial(k))
    BY <1>2 DEF Known
  <2>2. IsFresh(n) /\ IsLocated(n)
    BY <1>1, <1>3, <2>1 DEF IsFresh, IsLocated
  <2>3. ASSUME n.bound # {} PROVE IsPartial(n)
    BY <1>1, <1>3, <2>1, <2>3 DEF IsPartial
  <2>4. ASSUME n.bound # {} PROVE IsAnswer(n)
    BY <1>1, <1>2, <1>3, <2>1, <2>4 DEF IsPartial, IsLocated, IsAnswer, AsAsked
  <2> QED BY <2>2, <2>3, <2>4 DEF Known
<1> QED
  BY <1>1, <1>3, <1>5, <1>6, QueryKeepsSnapshots

\* The detail is what the transaction of the bound put, in full.
LEMMA ReadDetailKeepsSnapshots ==
  ASSUME AnswersInv, SnapshotInv, NEW c \in Calls, ReadDetail(c)
  PROVE  SnapshotInv'
<1> PICK k, n : k = call[c] /\ n = call'[c]
  OBVIOUS
<1> DEFINE detail == {r \in store : r.tx \in k.bound}
           answer == IF detail = {} THEN "not_found" ELSE "ok"
<1>1. /\ k.pc = "detail" /\ up /\ UNCHANGED <<process, clock, lock, store>>
      /\ call' = [call EXCEPT ![c].pc = "answered", ![c].answer = answer, ![c].detail = detail]
  BY DEF ReadDetail, At, Answered
<1>2. k # Unsent /\ IsCall(k) /\ InFlight(c) /\ k.under = schema /\ Known(k)
  BY <1>1, Before
<1>3. Moves(c) /\ n.pc = "answered" /\ n.answer = answer /\ n.detail = detail
                /\ n.request = k.request /\ n.under = k.under /\ n.bound = k.bound
                /\ n.record = k.record /\ n.shown = k.shown /\ n.items = k.items
                /\ n.txs = k.txs /\ n.entries = k.entries
  <2> HIDE DEF detail, answer
  <2> QED BY <1>1, <1>2 DEF AnswersInv, Shape, Moves, IsCall
<1>4. n # Unsent
  BY <1>3 DEF Unsent
<1>5. Steps(c)
  <2> HIDE DEF detail, answer
  <2> QED BY <1>1, <1>2, <1>3, <1>4 DEF Steps
<1>6. Known(n)
  <2>1. IsLocated(k) /\ IsFresh(k) /\ (k.bound # {} => IsPartial(k))
    BY <1>2 DEF Known
  <2>2. IsFresh(n) /\ IsLocated(n)
    BY <1>1, <1>3, <2>1 DEF IsFresh, IsLocated
  <2>3. ASSUME n.bound # {} PROVE IsPartial(n)
    BY <1>1, <1>3, <2>1, <2>3 DEF IsPartial
  <2>4. ASSUME n.bound # {} PROVE IsAnswer(n)
    BY <1>1, <1>2, <1>3, <2>1, <2>4 DEF IsPartial, IsLocated, IsAnswer, AsAsked
  <2> QED BY <2>2, <2>3, <2>4 DEF Known
<1> QED
  BY <1>1, <1>3, <1>5, <1>6, QueryKeepsSnapshots

\* The first half of the events is that of the bound.
LEMMA ReadEventsKeepsSnapshots ==
  ASSUME AnswersInv, SnapshotInv, NEW c \in Calls, ReadEvents(c)
  PROVE  SnapshotInv'
<1> PICK k, n : k = call[c] /\ n = call'[c]
  OBVIOUS
<1> DEFINE txs == Txs(Claims(k.bound))
<1>1. /\ k.pc = "events" /\ up /\ UNCHANGED <<process, clock, lock, store>>
      /\ call' = [call EXCEPT ![c].pc = "changes", ![c].txs = txs]
  BY DEF ReadEvents, At, Answered
<1>2. k # Unsent /\ IsCall(k) /\ InFlight(c) /\ k.under = schema /\ Known(k)
  BY <1>1, Before
<1>3. Moves(c) /\ n.pc = "changes" /\ n.txs = txs
                /\ n.request = k.request /\ n.under = k.under /\ n.bound = k.bound
                /\ n.record = k.record /\ n.shown = k.shown /\ n.items = k.items
                /\ n.entries = k.entries /\ n.detail = k.detail /\ n.answer = k.answer
  <2> HIDE DEF txs
  <2> QED BY <1>1, <1>2 DEF AnswersInv, Shape, Moves, IsCall
<1>4. n # Unsent
  BY <1>3 DEF Unsent
<1>5. Steps(c)
  <2> HIDE DEF txs
  <2> QED BY <1>1, <1>2, <1>3, <1>4 DEF Steps
<1>6. Known(n)
  <2>1. IsLocated(k) /\ IsFresh(k) /\ (k.bound # {} => IsPartial(k))
    BY <1>2 DEF Known
  <2>2. IsFresh(n) /\ IsLocated(n)
    BY <1>1, <1>3, <2>1 DEF IsFresh, IsLocated
  <2>3. ASSUME n.bound # {} PROVE IsPartial(n)
    BY <1>1, <1>3, <2>1, <2>3 DEF IsPartial
  <2>4. ASSUME n.bound # {} PROVE IsAnswer(n)
    BY <1>1, <1>2, <1>3, <2>1, <2>4 DEF IsPartial, IsLocated, IsAnswer, AsAsked
  <2> QED BY <2>2, <2>3, <2>4 DEF Known
<1> QED
  BY <1>1, <1>3, <1>5, <1>6, QueryKeepsSnapshots

\* The two reads of a history, of properties and of the record, find its events.
LEMMA EventsAreRead ==
  ASSUME NEW bound
  PROVE  Events(bound) =
           Txs(Claims(bound)) \cup Txs({r \in Bounded(store, bound) : r.record # {}})
<1>1. Txs(Claims(bound)) = Txs({r \in Bounded(store, bound) : r.claim # {}})
  <2>1. ASSUME NEW t \in Txs(Claims(bound))
        PROVE  t \in Txs({r \in Bounded(store, bound) : r.claim # {}})
    <3>1. PICK e \in Claims(bound) : t = e.tx
      BY <2>1 DEF Txs
    <3>2. PICK r \in Bounded(store, bound) :
            \E d \in r.claim : e = [tx |-> r.tx, value |-> d.value, status |-> d.status]
      BY <3>1 DEF Claims
    <3> QED BY <3>1, <3>2 DEF Txs
  <2>2. ASSUME NEW r \in Bounded(store, bound), NEW d \in r.claim
        PROVE  r.tx \in Txs(Claims(bound))
    <3>1. [tx |-> r.tx, value |-> d.value, status |-> d.status] \in Claims(bound)
      BY DEF Claims
    <3> QED BY <3>1 DEF Txs
  <2> QED BY <2>1, <2>2 DEF Txs
<1> QED BY <1>1 DEF Events, Txs

\* With the second half they are the events of the bound.
LEMMA ReadChangesKeepsSnapshots ==
  ASSUME AnswersInv, SnapshotInv, NEW c \in Calls, ReadChanges(c)
  PROVE  SnapshotInv'
<1> PICK k, n : k = call[c] /\ n = call'[c]
  OBVIOUS
<1> DEFINE txs == k.txs \cup Txs({r \in Bounded(store, k.bound) : r.record # {}})
<1>1. /\ k.pc = "changes" /\ up /\ UNCHANGED <<process, clock, lock, store>>
      /\ call' = [call EXCEPT ![c].pc = "entries", ![c].txs = txs]
  BY DEF ReadChanges, At
<1>2. k # Unsent /\ IsCall(k) /\ InFlight(c) /\ k.under = schema /\ Known(k)
  BY <1>1, Before
<1>3. /\ Moves(c) /\ n.pc = "entries" /\ n.txs = txs
      /\ n.request = k.request /\ n.under = k.under /\ n.bound = k.bound
      /\ n.entries = k.entries
  <2> HIDE DEF txs
  <2> QED BY <1>1, <1>2 DEF AnswersInv, Shape, Moves, IsCall
<1>4. n # Unsent
  BY <1>3 DEF Unsent
<1>5. Steps(c)
  <2> HIDE DEF txs
  <2> QED BY <1>1, <1>2, <1>3, <1>4 DEF Steps
<1>6. Known(n)
  <2>1. IsLocated(k) /\ IsFresh(k) /\ (k.bound # {} => IsPartial(k))
    BY <1>2 DEF Known
  <2>2. IsFresh(n) /\ IsLocated(n) /\ k.entries = {}
    BY <1>1, <1>3, <2>1 DEF IsFresh, IsLocated
  <2>3. ASSUME n.bound # {} PROVE IsPartial(n)
    <3>1. txs = Events(k.bound)
      BY <1>1, <1>3, <2>1, <2>3, EventsAreRead DEF IsPartial
    <3> HIDE DEF txs
    <3> QED BY <1>1, <1>3, <2>1, <2>2, <2>3, <3>1 DEF IsPartial
  <2>4. IsAnswer(n)
    BY <1>3 DEF IsAnswer
  <2> QED BY <2>2, <2>3, <2>4 DEF Known
<1> QED
  BY <1>1, <1>3, <1>5, <1>6, QueryKeepsSnapshots

\* Entries are added until every event has one, and only then answered.
LEMMA ReadEntryKeepsSnapshots ==
  ASSUME AnswersInv, SnapshotInv, NEW c \in Calls, ReadEntry(c)
  PROVE  SnapshotInv'
<1> PICK k, n : k = call[c] /\ n = call'[c]
  OBVIOUS
<1> DEFINE left == k.txs \ Txs(k.entries)
           entries == k.entries \cup {Entry(k.under, Max(left))}
<1>1. k.pc = "entries" /\ up /\ UNCHANGED <<process, clock, lock, store>>
  BY DEF ReadEntry, At
<1>2. k # Unsent /\ IsCall(k) /\ InFlight(c) /\ k.under = schema /\ Known(k)
  BY <1>1, Before
<1>3. IsLocated(k) /\ (k.bound # {} => IsPartial(k))
  BY <1>2 DEF Known
<1>4. CASE left = {}
  <2>1. call' = [call EXCEPT ![c].pc = "answered", ![c].answer = "ok"]
    BY <1>4 DEF ReadEntry, Answered
  <2>2. /\ Moves(c) /\ n.pc = "answered" /\ n.answer = "ok"
        /\ n.request = k.request /\ n.under = k.under /\ n.bound = k.bound
        /\ n.entries = k.entries
    <3> HIDE DEF left, entries
    <3> QED BY <1>2, <2>1 DEF AnswersInv, Shape, Moves, IsCall
  <2>3. n # Unsent
    BY <2>2 DEF Unsent
  <2>4. Steps(c)
    <3> HIDE DEF left, entries
    <3> QED BY <1>1, <1>2, <2>2, <2>3 DEF Steps
  <2>5. Known(n)
    <3>1. ASSUME k.bound # {}
          PROVE  k.entries = {Entry(k.under, t) : t \in Events(k.bound)}
      <4>1. /\ k.txs = Events(k.bound)
            /\ \A e \in k.entries : \E t \in k.txs : e = Entry(k.under, t)
        BY <1>1, <1>3, <3>1 DEF IsPartial
      <4>2. \A t : Entry(k.under, t).tx = t
        BY DEF Entry
      <4>3. ASSUME NEW t \in k.txs PROVE Entry(k.under, t) \in k.entries
        <5>1. PICK e \in k.entries : e.tx = t
          BY <1>4 DEF Txs
        <5> QED BY <4>1, <4>2, <5>1
      <4> QED BY <4>1, <4>3
    <3>2. ASSUME k.bound # {} PROVE IsAnswer(n)
      <4>1. Record(k.bound) # {}
        BY <1>1, <1>3, <3>2 DEF IsPartial
      <4> HIDE DEF left, entries
      <4> QED BY <1>1, <1>3, <2>2, <3>1, <3>2, <4>1 DEF IsAnswer, IsLocated, AsAsked
    <3> QED BY <2>2, <3>2 DEF Known, IsFresh, IsLocated, IsPartial
  <2> QED BY <1>1, <2>2, <2>4, <2>5, QueryKeepsSnapshots
<1>5. CASE left # {}
  <2>1. call' = [call EXCEPT ![c].entries = entries]
    BY <1>2, <1>5 DEF ReadEntry
  <2>2. /\ Moves(c) /\ n.pc = "entries" /\ n.entries = entries /\ n.txs = k.txs
        /\ n.request = k.request /\ n.under = k.under /\ n.bound = k.bound
    <3> HIDE DEF left, entries
    <3> QED BY <1>1, <1>2, <2>1 DEF AnswersInv, Shape, Moves, IsCall
  <2>3. n # Unsent
    BY <2>2 DEF Unsent
  <2>4. Steps(c)
    <3> HIDE DEF left, entries
    <3> QED BY <1>1, <1>2, <2>2, <2>3 DEF Steps
  <2>5. ASSUME k.bound # {} PROVE IsPartial(n)
    <3>1. /\ k.txs = Events(k.bound) /\ Record(k.bound) # {}
          /\ \A e \in k.entries : \E t \in k.txs : e = Entry(k.under, t)
      BY <1>1, <1>3, <2>5 DEF IsPartial
    <3>2. left \in SUBSET Nat /\ \A t \in left : t =< clock
      BY <3>1 DEF Events, Txs, Bounded, SnapshotInv, IdsAreUsed
    <3>3. Max(left) \in k.txs
      BY <1>5, <3>2, HasMax DEF SnapshotInv, IdsAreUsed
    <3>4. \A e \in entries : \E t \in k.txs : e = Entry(k.under, t)
      BY <3>1, <3>3
    <3> HIDE DEF left, entries
    <3> QED BY <2>2, <3>1, <3>4 DEF IsPartial
  <2>6. Known(n)
    <3> HIDE DEF left, entries
    <3> QED BY <1>1, <1>3, <2>2, <2>5 DEF Known, IsFresh, IsLocated, IsAnswer
  <2> QED BY <1>1, <2>2, <2>4, <2>6, QueryKeepsSnapshots
<1> QED BY <1>4, <1>5

\* A query without a bound takes the head, which is a past one.
LEMMA ReadHeadKeepsSnapshots ==
  ASSUME AnswersInv, SnapshotInv, NEW c \in Calls, ReadHead(c)
  PROVE  SnapshotInv'
<1> PICK k, n : k = call[c] /\ n = call'[c]
  OBVIOUS
<1> DEFINE bound == IF k.bound = {} THEN {HeadTx} ELSE k.bound
           pc == FirstRead(k.request.command)
<1>1. /\ k.pc = "received" /\ up /\ UNCHANGED <<process, clock, lock, store>>
      /\ k.request.command \in AtHead
      /\ call' = [call EXCEPT ![c].pc = pc, ![c].bound = bound]
  BY DEF ReadHead, At, Asks
<1>2. k # Unsent /\ IsCall(k) /\ InFlight(c) /\ k.under = schema /\ Known(k)
  BY <1>1, Before
<1>3. /\ Moves(c) /\ n.pc = pc /\ n.bound = bound
      /\ n.request = k.request /\ n.under = k.under /\ n.record = k.record
      /\ n.shown = k.shown /\ n.entries = k.entries
  <2> HIDE DEF bound, pc
  <2> QED BY <1>1, <1>2 DEF AnswersInv, Shape, Moves, IsCall
<1>4. \/ pc = "items" /\ k.request.command = "managed.list"
      \/ pc = "transactions" /\ k.request.command = "transactions.list"
      \/ pc = "detail" /\ k.request.command = "transaction.get"
      \/ pc = "record" /\ k.request.command \in {"entities.touched", "entity.history"}
  <2>1. CASE k.request.command = "managed.list"
    BY <2>1 DEF FirstRead
  <2>2. CASE k.request.command = "transactions.list"
    BY <2>2 DEF FirstRead
  <2>3. CASE k.request.command = "transaction.get"
    BY <2>3 DEF FirstRead
  <2>4. CASE k.request.command = "entities.touched"
    BY <2>4 DEF FirstRead
  <2>5. CASE k.request.command = "entity.history"
    BY <2>5 DEF FirstRead
  <2> QED BY <1>1, <2>1, <2>2, <2>3, <2>4, <2>5 DEF AtHead
<1> HIDE DEF bound, pc
<1>5. n # Unsent
  BY <1>3, <1>4 DEF Unsent
<1>6. Steps(c)
  BY <1>1, <1>2, <1>3, <1>5 DEF Steps, bound
<1>7. Known(n)
  <2>1. IsFresh(k)
    BY <1>2 DEF Known
  <2> QED
    BY <1>1, <1>3, <1>4, <2>1 DEF Known, IsFresh, IsLocated, IsPartial, IsAnswer
<1> QED
  BY <1>1, <1>3, <1>4, <1>6, <1>7, QueryKeepsSnapshots

\* The record is that of the bound, or the answer is that there was none.
LEMMA ReadRecordKeepsSnapshots ==
  ASSUME AnswersInv, SnapshotInv, NEW c \in Calls, ReadRecord(c)
  PROVE  SnapshotInv'
<1> PICK k, n : k = call[c] /\ n = call'[c]
  OBVIOUS
<1>0. /\ At(c, "record") \/ (At(c, "received") /\ Asks(c, AsAsked))
      /\ UNCHANGED <<process, clock, lock, store>>
  BY DEF ReadRecord
<1>1. /\ k.pc = "record" \/ (k.pc = "received" /\ k.request.command \in AsAsked)
      /\ up /\ UNCHANGED <<process, clock, lock, store>> /\ ~k.request.malformed
  <2>1. CASE At(c, "record")
    <3>1. ~call[c].request.malformed
      BY <2>1 DEF AnswersInv, Roles, Reading, At
    <3> QED BY <1>0, <2>1, <3>1 DEF At
  <2>2. CASE At(c, "received") /\ Asks(c, AsAsked)
    BY <1>0, <2>2 DEF At, Asks
  <2> QED BY <1>0, <2>1, <2>2
<1> DEFINE past == k.request.command = "entity.history"
           record == IF past THEN Record(k.bound) ELSE Live(k.bound)
           pc == IF past THEN "events" ELSE "claims"
           answer == IF past \/ k.request.command = "entity.get" THEN "not_found" ELSE "ok"
<1>2. k # Unsent /\ IsCall(k) /\ InFlight(c) /\ k.under = schema /\ Known(k)
  BY <1>1, Before
<1>3. IsFresh(k) /\ IsLocated(k)
  BY <1>2 DEF Known
<1>4. /\ k.request.command \in AsAsked \cup {"entities.touched", "entity.history"}
      /\ k.record = {} /\ k.shown = {} /\ k.entries = {}
  BY <1>1, <1>3 DEF IsFresh, IsLocated
<1>5. CASE record # {}
  <2>1. call' = [call EXCEPT ![c].pc = pc, ![c].record = record]
    BY <1>1, <1>5 DEF ReadRecord, Asks
  <2>2. /\ Moves(c) /\ n.pc = pc /\ n.record = record
        /\ n.request = k.request /\ n.under = k.under /\ n.bound = k.bound
        /\ n.shown = k.shown /\ n.entries = k.entries
    <3> HIDE DEF record, pc
    <3> QED BY <1>1, <1>2, <2>1 DEF AnswersInv, Shape, Moves, IsCall
  <2>3. n # Unsent
    BY <2>2 DEF Unsent
  <2>4. Steps(c)
    <3> HIDE DEF record, pc
    <3> QED BY <1>1, <1>2, <2>2, <2>3 DEF Steps
  <2>5. Known(n)
    BY <1>4, <1>5, <2>2 DEF Known, IsFresh, IsLocated, IsPartial, IsAnswer
  <2> QED BY <1>1, <2>2, <2>4, <2>5, QueryKeepsSnapshots
<1>6. CASE record = {}
  <2>1. call' = [call EXCEPT ![c].pc = "answered", ![c].answer = answer]
    BY <1>1, <1>6 DEF ReadRecord, Asks, Answered
  <2>2. /\ Moves(c) /\ n.pc = "answered"
        /\ n.request = k.request /\ n.under = k.under /\ n.bound = k.bound
        /\ n.shown = k.shown /\ n.entries = k.entries /\ n.record = k.record
    <3> HIDE DEF answer
    <3> QED BY <1>1, <1>2, <2>1 DEF AnswersInv, Shape, Moves, IsCall
  <2>3. n # Unsent
    BY <2>2 DEF Unsent
  <2>4. Steps(c)
    <3> HIDE DEF answer, record
    <3> QED BY <1>1, <1>2, <2>2, <2>3 DEF Steps
  <2>5. IsAnswer(n)
    BY <1>4, <1>6, <2>2 DEF IsAnswer, AsAsked
  <2>6. Known(n)
    BY <2>2, <2>5 DEF Known, IsFresh, IsLocated, IsPartial
  <2> QED BY <1>1, <2>2, <2>4, <2>6, QueryKeepsSnapshots
<1> QED BY <1>5, <1>6

\* A malformed request is promised nothing.
LEMMA RejectKeepsSnapshots ==
  ASSUME AnswersInv, SnapshotInv, NEW c \in Calls, Reject(c)
  PROVE  SnapshotInv'
<1> PICK k, n : k = call[c] /\ n = call'[c]
  OBVIOUS
<1>1. /\ k.pc = "received" /\ k.request.malformed /\ up
      /\ UNCHANGED <<process, clock, lock, store>>
      /\ call' = [call EXCEPT ![c].pc = "answered", ![c].answer = "parse_error"]
  BY DEF Reject, At, Answered
<1>2. k # Unsent /\ IsCall(k) /\ InFlight(c) /\ k.under = schema
  BY <1>1, Before
<1>3. /\ Moves(c) /\ n.pc = "answered" /\ n.request = k.request
      /\ n.under = k.under /\ n.bound = k.bound
  BY <1>1, <1>2 DEF AnswersInv, Shape, Moves, IsCall
<1>4. n # Unsent
  BY <1>3 DEF Unsent
<1>5. Steps(c)
  BY <1>1, <1>2, <1>3, <1>4 DEF Steps
<1>6. Known(n)
  BY <1>1, <1>3 DEF Known, IsFresh, IsLocated, IsPartial, IsAnswer
<1> QED
  BY <1>1, <1>3, <1>5, <1>6, QueryKeepsSnapshots

-----------------------------------------------------------------------------
\* A transaction at a step of its own is nothing a query has to know.
LEMMA WritersAreKnown ==
  ASSUME NEW k, k.pc \in Writing \/ (k.pc = "answered" /\ k.request.command \in Mutating)
  PROVE  Known(k)
BY DEF Known, IsFresh, IsLocated, IsPartial, IsAnswer, Writing

\* The lock is free when it is taken.
LEMMA LockKeepsSnapshots ==
  ASSUME AnswersInv, SnapshotInv, NEW c \in Calls, Lock(c)
  PROVE  SnapshotInv'
<1> PICK k, n : k = call[c] /\ n = call'[c]
  OBVIOUS
<1>1. /\ k.pc = "received" /\ up /\ UNCHANGED <<process, clock, store>>
      /\ lock = {} /\ lock' = {c}
      /\ call' = [call EXCEPT ![c].pc = "locked"]
  BY DEF Lock, At
<1>2. k # Unsent /\ IsCall(k) /\ InFlight(c)
  BY <1>1, Before
<1>3. /\ Moves(c) /\ n.pc = "locked" /\ n.request = k.request
      /\ n.under = k.under /\ n.bound = k.bound
  BY <1>1, <1>2 DEF AnswersInv, Shape, Moves, IsCall
<1>4. n # Unsent
  BY <1>3 DEF Unsent
<1>5. Steps(c)
  BY <1>1, <1>2, <1>3, <1>4 DEF Steps
<1>6. Known(n)
  BY <1>3, WritersAreKnown DEF Writing
<1>7. BoundsArePast' /\ AllKnown' /\ UnderSchema' /\ Quiet'
  BY <1>5, <1>6, StepsKeepKnown
<1>8. LockHeld' /\ StagedIsNext'
  BY <1>1, <1>3 DEF SnapshotInv, LockHeld, StagedIsNext, Moves
<1>9. IdsAreUsed'
  BY <1>1 DEF SnapshotInv, IdsAreUsed
<1> QED BY <1>7, <1>8, <1>9 DEF SnapshotInv

\* A transaction that is refused gives the lock back and stores nothing.
LEMMA RefuseKeepsSnapshots ==
  ASSUME AnswersInv, SnapshotInv, NEW c \in Calls, Refuse(c)
  PROVE  SnapshotInv'
<1> PICK k, n : k = call[c] /\ n = call'[c]
  OBVIOUS
<1>1. PICK error :
        /\ k.pc = "locked" /\ up /\ UNCHANGED <<process, clock, store>> /\ lock' = {}
        /\ call' = [call EXCEPT ![c].pc = "answered", ![c].answer = error]
  BY DEF Refuse, At, Answered
<1>2. k # Unsent /\ IsCall(k) /\ InFlight(c) /\ k.request.command \in Mutating
  BY <1>1, Before DEF AnswersInv, Roles, Asks, Writing
<1>3. /\ Moves(c) /\ n.pc = "answered" /\ n.request = k.request
      /\ n.under = k.under /\ n.bound = k.bound
  BY <1>1, <1>2 DEF AnswersInv, Shape, Moves, IsCall
<1>4. n # Unsent
  BY <1>3 DEF Unsent
<1>5. Steps(c)
  BY <1>1, <1>2, <1>3, <1>4 DEF Steps
<1>6. Known(n)
  BY <1>2, <1>3, WritersAreKnown
<1>7. BoundsArePast' /\ AllKnown' /\ UnderSchema' /\ Quiet'
  BY <1>5, <1>6, StepsKeepKnown
<1>8. \A d \in Calls \ {c} : call[d].pc \notin {"locked", "staged"}
  BY <1>1 DEF SnapshotInv, LockHeld
<1>9. LockHeld' /\ StagedIsNext'
  BY <1>3, <1>8 DEF LockHeld, StagedIsNext, Moves
<1>10. IdsAreUsed'
  BY <1>1 DEF SnapshotInv, IdsAreUsed
<1> QED BY <1>7, <1>9, <1>10 DEF SnapshotInv

\* Nobody else is between its checks and its commit.
LEMMA StageKeepsSnapshots ==
  ASSUME AnswersInv, SnapshotInv, NEW c \in Calls, Stage(c)
  PROVE  SnapshotInv'
<1> PICK k, n : k = call[c] /\ n = call'[c]
  OBVIOUS
<1> DEFINE row == Row(c, NextId)
<1>1. /\ k.pc = "locked" /\ up /\ UNCHANGED <<process, lock, store>>
      /\ clock' = NextId
      /\ call' = [call EXCEPT ![c].pc = "staged", ![c].batch = {row}]
  BY DEF Stage, At
<1>2. k # Unsent /\ IsCall(k) /\ InFlight(c)
  BY <1>1, Before
<1>3. NextId = clock + 1 /\ row.tx = clock + 1
  BY NextIsFree DEF SnapshotInv, Row
<1> HIDE DEF row
<1>4. /\ Moves(c) /\ n.pc = "staged" /\ n.batch = {row} /\ n.request = k.request
      /\ n.under = k.under /\ n.bound = k.bound
  BY <1>1, <1>2 DEF AnswersInv, Shape, Moves, IsCall
<1>5. n # Unsent
  BY <1>4 DEF Unsent
<1>6. Steps(c)
  BY <1>1, <1>2, <1>4, <1>5 DEF Steps
<1>7. Known(n)
  BY <1>4, WritersAreKnown DEF Writing
<1>8. BoundsArePast' /\ AllKnown' /\ UnderSchema' /\ Quiet'
  BY <1>6, <1>7, StepsKeepKnown
<1>9. lock = {c} /\ \A d \in Calls \ {c} : call[d].pc \notin {"locked", "staged"}
  BY <1>1 DEF SnapshotInv, LockHeld
<1>10. LockHeld'
  BY <1>1, <1>4, <1>9 DEF LockHeld, Moves
<1>11. StagedIsNext'
  <2>1. clock' = row.tx /\ row.tx > 0 /\ \A s \in store : s.tx < row.tx
    BY <1>1, <1>3 DEF SnapshotInv, IdsAreUsed
  <2>2. \A d \in Calls \ {c} : call'[d].pc # "staged"
    BY <1>4, <1>9 DEF Moves
  <2> QED BY <1>1, <1>4, <2>1, <2>2 DEF StagedIsNext
<1>12. IdsAreUsed'
  BY <1>1, <1>3 DEF SnapshotInv, IdsAreUsed
<1> QED BY <1>8, <1>10, <1>11, <1>12 DEF SnapshotInv

\* The row is put above all bounds: what queries have read stays true.
LEMMA CommitKeepsSnapshots ==
  ASSUME AnswersInv, SnapshotInv, NEW c \in Calls, Commit(c)
  PROVE  SnapshotInv'
<1> PICK k, n : k = call[c] /\ n = call'[c]
  OBVIOUS
<1>1. /\ k.pc = "staged" /\ up /\ UNCHANGED <<process, clock>> /\ lock' = {}
      /\ store' = store \cup k.batch
      /\ call' = [call EXCEPT ![c].pc = "committed", ![c].batch = {}]
  BY DEF Commit, At
<1>2. k # Unsent /\ IsCall(k) /\ InFlight(c)
  BY <1>1, Before
<1>3. /\ Moves(c) /\ n.pc = "committed" /\ n.request = k.request
      /\ n.under = k.under /\ n.bound = k.bound
  BY <1>1, <1>2 DEF AnswersInv, Shape, Moves, IsCall
<1>4. PICK row : k.batch = {row}
  BY <1>1 DEF AnswersInv, StagedAreComplete
<1>5. row.tx = clock /\ row.tx > 0 /\ \A s \in store : s.tx < row.tx
  BY <1>1, <1>4 DEF SnapshotInv, StagedIsNext
<1>6. Grows
  BY <1>1, <1>4, <1>5 DEF Grows, SnapshotInv, IdsAreUsed
<1>7. \A d \in Calls \ {c} : call[d].pc \notin {"locked", "staged"}
  BY <1>1 DEF SnapshotInv, LockHeld
<1>8. LockHeld' /\ StagedIsNext'
  BY <1>3, <1>7 DEF LockHeld, StagedIsNext, Moves
<1>9. IdsAreUsed'
  <2>1. IsFiniteSet(store')
    BY <1>1, <1>4, FS_AddElement DEF SnapshotInv, IdsAreUsed
  <2> QED BY <1>1, <1>4, <1>5, <2>1 DEF SnapshotInv, IdsAreUsed
<1>10. n # Unsent
  BY <1>3 DEF Unsent
<1>11. BoundsArePast'
  <2> SUFFICES ASSUME NEW d \in Calls, call'[d] # Unsent, NEW b \in call'[d].bound
               PROVE  b = 0 \/ \E r \in store' : b = r.tx
    BY DEF BoundsArePast
  <2>1. call[d] # Unsent /\ b \in call[d].bound
    BY <1>2, <1>3 DEF Moves
  <2> QED BY <1>1, <2>1 DEF SnapshotInv, BoundsArePast
<1>12. UnderSchema' /\ Quiet'
  BY <1>1, <1>2, <1>3 DEF SnapshotInv, UnderSchema, Quiet, InFlight, Moves, process
<1>13. ASSUME NEW j, j # Unsent, NEW d \in Calls, call'[d] = j
       PROVE  Known(j)'
  <2>1. CASE d = c
    <3>1. Known(n)
      BY <1>3, WritersAreKnown DEF Writing
    <3>2. IsPast(n.bound) \/ n.bound = {}
      BY <1>2, <1>3 DEF SnapshotInv, BoundsArePast, IsPast
    <3>3. Known(n)'
      BY <1>6, <3>1, <3>2, KnownIsFrozen DEF SnapshotInv
    <3> QED BY <1>13, <2>1, <3>3
  <2>2. CASE d # c
    <3>1. call[d] = j
      BY <1>3, <1>13, <2>2 DEF Moves
    <3>2. Known(j) /\ (IsPast(j.bound) \/ j.bound = {})
      BY <1>13, <3>1 DEF SnapshotInv, AllKnown, BoundsArePast, IsPast
    <3> QED BY <1>6, <3>2, KnownIsFrozen DEF SnapshotInv
  <2> QED BY <2>1, <2>2
<1>14. AllKnown'
  BY <1>13 DEF AllKnown
<1> QED BY <1>8, <1>9, <1>11, <1>12, <1>14 DEF SnapshotInv

\* An answer to a transaction changes nothing that queries read.
LEMMA ReplyKeepsSnapshots ==
  ASSUME AnswersInv, SnapshotInv, NEW c \in Calls, Reply(c)
  PROVE  SnapshotInv'
<1> PICK k, n : k = call[c] /\ n = call'[c]
  OBVIOUS
<1>1. /\ k.pc = "committed" /\ up /\ UNCHANGED <<process, clock, lock, store>>
      /\ call' = [call EXCEPT ![c].pc = "answered", ![c].answer = "ok"]
  BY DEF Reply, At, Answered
<1>2. k # Unsent /\ IsCall(k) /\ InFlight(c) /\ k.request.command \in Mutating
  BY <1>1, Before DEF AnswersInv, Roles, Asks, Writing
<1>3. /\ Moves(c) /\ n.pc = "answered" /\ n.request = k.request
      /\ n.under = k.under /\ n.bound = k.bound
  BY <1>1, <1>2 DEF AnswersInv, Shape, Moves, IsCall
<1>4. n # Unsent
  BY <1>3 DEF Unsent
<1>5. Steps(c)
  BY <1>1, <1>2, <1>3, <1>4 DEF Steps
<1>6. Known(n)
  BY <1>2, <1>3, WritersAreKnown
<1> QED BY <1>1, <1>3, <1>5, <1>6, QueryKeepsSnapshots

-----------------------------------------------------------------------------
\* A request that arrives has read nothing.
LEMMA SendKeepsSnapshots ==
  ASSUME AnswersInv, SnapshotInv, NEW c \in Calls, NEW request \in Requests,
         Send(c, request)
  PROVE  SnapshotInv'
<1> PICK n : n = NewCall(request)
  OBVIOUS
<1>1. /\ up /\ call[c].pc = "unsent" /\ UNCHANGED <<process, clock, lock, store>>
      /\ request.at \subseteq {r.tx : r \in store}
      /\ call' = [call EXCEPT ![c] = n]
  BY DEF Send, At
<1>2. /\ n.pc = "received" /\ n.under = schema /\ n.bound = request.at
      /\ n.record = {} /\ n.shown = {} /\ n.entries = {}
  BY DEF NewCall
<1>3. call'[c] = n /\ \A d \in Calls \ {c} : call'[d] = call[d]
  BY <1>1 DEF AnswersInv, Shape
<1>4. n # Unsent /\ Known(n)
  BY <1>2 DEF Unsent, Known, IsFresh, IsLocated, IsPartial, IsAnswer
<1>5. LockHeld' /\ StagedIsNext' /\ IdsAreUsed'
  BY <1>1, <1>2, <1>3 DEF SnapshotInv, LockHeld, StagedIsNext, IdsAreUsed
<1>6. BoundsArePast'
  BY <1>1, <1>2, <1>3 DEF SnapshotInv, BoundsArePast
<1>7. UnderSchema' /\ Quiet'
  BY <1>1, <1>2, <1>3 DEF SnapshotInv, UnderSchema, Quiet, InFlight, process
<1>8. ASSUME NEW j, j # Unsent, NEW d \in Calls, call'[d] = j
      PROVE  Known(j)'
  <2>1. Known(j)
    BY <1>3, <1>4, <1>8 DEF SnapshotInv, AllKnown
  <2>2. IsPast(j.bound) \/ j.bound = {}
    BY <1>1, <1>6, <1>8 DEF BoundsArePast, IsPast
  <2>3. Grows
    BY <1>1 DEF Grows
  <2> QED BY <2>1, <2>2, <2>3, KnownIsFrozen DEF SnapshotInv
<1>9. AllKnown'
  BY <1>8 DEF AllKnown
<1> QED BY <1>5, <1>6, <1>7, <1>9 DEF SnapshotInv

\* A process that dies takes its lock and its calls along.
LEMMA DieKeepsSnapshots ==
  ASSUME AnswersInv, SnapshotInv, Die
  PROVE  SnapshotInv'
<1>1. /\ ~up' /\ UNCHANGED <<schema, starts, clock, store>>
      /\ call' = [c \in Calls |->
                   IF InFlight(c)
                   THEN [call[c] EXCEPT !.pc = "answered", !.answer = "lost", !.batch = {}]
                   ELSE call[c]]
  BY DEF Die
<1>2. ASSUME NEW c \in Calls
      PROVE  \/ call'[c] = call[c] /\ ~InFlight(c)
             \/ /\ call[c] # Unsent /\ call'[c].bound = call[c].bound
                /\ call'[c].pc = "answered" /\ call'[c].answer = "lost"
  <2>1. CASE ~InFlight(c)
    BY <1>1, <2>1
  <2>2. CASE InFlight(c)
    <3>1. call[c] # Unsent /\ IsCall(call[c])
      BY <2>2, Sent DEF InFlight, AnswersInv
    <3>2. call'[c] = [call[c] EXCEPT !.pc = "answered", !.answer = "lost", !.batch = {}]
      BY <1>1, <2>2
    <3> QED BY <3>1, <3>2 DEF IsCall
  <2> QED BY <2>1, <2>2
<1>3. Quiet' /\ UnderSchema' /\ LockHeld' /\ StagedIsNext'
  BY <1>2 DEF Quiet, UnderSchema, LockHeld, StagedIsNext, InFlight
<1>4. IdsAreUsed'
  BY <1>1 DEF SnapshotInv, IdsAreUsed
<1>5. BoundsArePast'
  <2> SUFFICES ASSUME NEW d \in Calls, call'[d] # Unsent, NEW b \in call'[d].bound
               PROVE  b = 0 \/ \E r \in store' : b = r.tx
    BY DEF BoundsArePast
  <2>1. call[d] # Unsent /\ b \in call[d].bound
    BY <1>2
  <2> QED BY <1>1, <2>1 DEF SnapshotInv, BoundsArePast
<1>6. ASSUME NEW j, j # Unsent, NEW d \in Calls, call'[d] = j
      PROVE  Known(j)'
  <2>1. Known(j)
    <3>1. CASE call'[d] = call[d]
      BY <1>6, <3>1 DEF SnapshotInv, AllKnown
    <3>2. CASE j.pc = "answered" /\ j.answer = "lost"
      BY <3>2 DEF Known, IsFresh, IsLocated, IsPartial, IsAnswer
    <3> QED BY <1>2, <1>6, <3>1, <3>2
  <2>2. IsPast(j.bound) \/ j.bound = {}
    BY <1>1, <1>5, <1>6 DEF BoundsArePast, IsPast
  <2>3. Grows
    BY <1>1 DEF Grows
  <2> QED BY <2>1, <2>2, <2>3, KnownIsFrozen DEF SnapshotInv
<1>7. AllKnown'
  BY <1>6 DEF AllKnown
<1> QED BY <1>3, <1>4, <1>5, <1>7 DEF SnapshotInv

\* A process that starts does not draw ids below those it finds.
LEMMA StartKeepsSnapshots ==
  ASSUME Rollback = FALSE, SnapshotInv, NEW file \in Files, Start(file)
  PROVE  SnapshotInv'
<1>1. ~up /\ clock' = LastTx /\ UNCHANGED <<lock, store, call>>
  BY DEF Start
<1>2. \A c \in Calls : ~InFlight(c)
  BY <1>1 DEF SnapshotInv, Quiet
<1>3. Quiet' /\ UnderSchema' /\ LockHeld' /\ StagedIsNext'
  BY <1>1, <1>2 DEF Quiet, UnderSchema, LockHeld, StagedIsNext, InFlight
<1>4. IdsAreUsed'
  BY <1>1, LastIsLast DEF SnapshotInv, IdsAreUsed
<1>5. BoundsArePast'
  BY <1>1 DEF SnapshotInv, BoundsArePast
<1>6. ASSUME NEW j, j # Unsent, NEW d \in Calls, call[d] = j
      PROVE  Known(j)'
  <2>1. Known(j) /\ (IsPast(j.bound) \/ j.bound = {})
    BY <1>6 DEF SnapshotInv, AllKnown, BoundsArePast, IsPast
  <2>2. Grows
    BY <1>1 DEF Grows
  <2> QED BY <2>1, <2>2, KnownIsFrozen DEF SnapshotInv
<1>7. AllKnown'
  BY <1>1, <1>6 DEF AllKnown
<1> QED BY <1>3, <1>4, <1>5, <1>7 DEF SnapshotInv

\* Nothing changes when nothing does.
LEMMA StutterKeepsSnapshots ==
  ASSUME SnapshotInv, UNCHANGED vars
  PROVE  SnapshotInv'
<1>1. UNCHANGED <<up, schema, clock, lock, store, call>>
  BY DEF vars
<1>2. Quiet' /\ UnderSchema' /\ LockHeld' /\ StagedIsNext' /\ IdsAreUsed' /\ BoundsArePast'
  BY <1>1 DEF SnapshotInv, Quiet, UnderSchema, LockHeld, StagedIsNext, IdsAreUsed,
     BoundsArePast, InFlight
<1>3. ASSUME NEW j, j # Unsent, NEW d \in Calls, call[d] = j
      PROVE  Known(j)'
  <2>1. Known(j) /\ (IsPast(j.bound) \/ j.bound = {})
    BY <1>3 DEF SnapshotInv, AllKnown, BoundsArePast, IsPast
  <2>2. Grows
    BY <1>1 DEF Grows
  <2> QED BY <2>1, <2>2, KnownIsFrozen DEF SnapshotInv
<1>4. AllKnown'
  BY <1>1, <1>3 DEF AllKnown
<1> QED BY <1>2, <1>4 DEF SnapshotInv

-----------------------------------------------------------------------------
\* Nothing is read or stored at first.
LEMMA SnapshotInvInit == Init => SnapshotInv
<1> SUFFICES ASSUME Init PROVE SnapshotInv
  OBVIOUS
<1>1. \A c \in Calls : call[c] = Unsent
  BY DEF Init
<1>2. Quiet /\ UnderSchema /\ LockHeld /\ StagedIsNext
  BY <1>1 DEF Quiet, UnderSchema, LockHeld, StagedIsNext, InFlight, Unsent
<1>3. BoundsArePast /\ AllKnown
  BY <1>1 DEF BoundsArePast, AllKnown
<1>4. IdsAreUsed
  BY FS_EmptySet DEF Init, IdsAreUsed
<1> QED BY <1>2, <1>3, <1>4 DEF SnapshotInv

\* SnapshotInv is inductive, beside AnswersInv.
LEMMA SnapshotInvNext ==
  ASSUME Rollback = FALSE
  PROVE  AnswersInv /\ SnapshotInv /\ [Next]_vars => SnapshotInv'
<1> SUFFICES ASSUME AnswersInv, SnapshotInv, [Next]_vars PROVE SnapshotInv'
  OBVIOUS
<1>1. ASSUME NEW file \in Files, Start(file) PROVE SnapshotInv'
  BY <1>1, StartKeepsSnapshots
<1>2. CASE Die
  BY <1>2, DieKeepsSnapshots
<1>3. ASSUME NEW c \in Calls, NEW r \in Requests, Send(c, r) PROVE SnapshotInv'
  BY <1>3, SendKeepsSnapshots
<1>4. ASSUME NEW c \in Calls, Handle(c) PROVE SnapshotInv'
  BY <1>4, RejectKeepsSnapshots, LockKeepsSnapshots, RefuseKeepsSnapshots,
     StageKeepsSnapshots, CommitKeepsSnapshots, ReplyKeepsSnapshots,
     ReadHeadKeepsSnapshots, ReadRecordKeepsSnapshots, ReadClaimsKeepsSnapshots,
     ReadItemsKeepsSnapshots, ReadTransactionsKeepsSnapshots,
     ReadDetailKeepsSnapshots, ReadEventsKeepsSnapshots,
     ReadChangesKeepsSnapshots, ReadEntryKeepsSnapshots DEF Handle
<1>5. CASE UNCHANGED vars
  BY <1>5, StutterKeepsSnapshots
<1> QED BY <1>1, <1>2, <1>3, <1>4, <1>5 DEF Next

\* A query with a bound, its own or the head it read, answers with the store as
\* of that transaction, whatever is committed while it reads family after family
\* (entity_snapshot.rs, entity_history.rs): rows are added above all bounds,
\* since ids grow under the lock (terra.rs) and a process starts above them.
THEOREM BoundedReadsAreSnapshotsHolds ==
  ASSUME Rollback = FALSE
  PROVE  Spec => []BoundedReadsAreSnapshots
<1>1. AnswersInv /\ SnapshotInv => BoundedReadsAreSnapshots
  <2> SUFFICES ASSUME AnswersInv, SnapshotInv,
                      NEW c \in Calls, Query(c), call[c].bound # {}
               PROVE  LET bound == call[c].bound
                          under == call[c].under
                      IN  CASE Asks(c, {"managed.list"}) ->
                                 call[c].items = ListItems(under, bound)
                            [] Asks(c, {"transactions.list"}) ->
                                 call[c].txs = Txs(Bounded(OnMain, bound))
                            [] Asks(c, {"transaction.get"}) ->
                                 call[c].detail = {r \in store : r.tx \in bound}
                            [] Asks(c, {"entity.history"}) ->
                                 call[c].entries = IF Record(bound) = {} THEN {}
                                                   ELSE {Entry(under, t) : t \in Events(bound)}
                            [] OTHER ->
                                 /\ call[c].record = Live(bound)
                                 /\ call[c].shown = IF Live(bound) = {} THEN {}
                                                    ELSE Shown(under, Claims(bound))
    BY DEF BoundedReadsAreSnapshots
  <2> PICK k : k = call[c]
    OBVIOUS
  <2>1. /\ k.pc = "answered" /\ k.answer # "lost" /\ ~k.request.malformed
        /\ k.request.command \notin Mutating
    BY DEF Query, Asks, Asked
  <2>2. k # Unsent /\ k.request \in Requests
    BY <2>1, Sent DEF AnswersInv
  <2>3. IsAnswer(k)
    BY <2>2 DEF SnapshotInv, AllKnown, Known
  <2>4. k.request.command \in AtHead \cup AsAsked
    BY <2>1, <2>2, TerraServerAssumption DEF IsRequest
  <2>5. /\ Asks(c, {"managed.list"}) <=> k.request.command = "managed.list"
        /\ Asks(c, {"transactions.list"}) <=> k.request.command = "transactions.list"
        /\ Asks(c, {"transaction.get"}) <=> k.request.command = "transaction.get"
        /\ Asks(c, {"entity.history"}) <=> k.request.command = "entity.history"
    BY <2>1 DEF Asks
  <2>6. k.request.command \in {"managed.list", "transactions.list", "transaction.get",
                               "entity.history"} \cup AsAsked \cup {"entities.touched"}
    BY <2>4 DEF AtHead
  <2> QED BY <2>1, <2>3, <2>5, <2>6 DEF IsAnswer
<1>2. AnswersInv /\ SnapshotInv /\ [Next]_vars => SnapshotInv'
  BY SnapshotInvNext
<1>3. Spec => []SnapshotInv
  BY <1>2, SnapshotInvInit, AnswersInvHolds, PTL DEF Spec
<1> QED BY <1>1, <1>3, AnswersInvHolds, PTL

-----------------------------------------------------------------------------
(***************************************************************************)
(* Who wins a claim. A value can be taken by one transaction for each time *)
(* that it came about: the invariant counts the chance that is open while  *)
(* the property shows the value, which the winner of the claim uses up.    *)
(***************************************************************************)
\* The values that a transaction may expect.
Values == UNION {r.expected : r \in Requests}

Chance(e) == IF Current = {e} \ {Null} THEN 1 ELSE 0

OneWinner(e) ==
  Cardinality(Claimants(e)) + Chance(e)
    =< Cardinality(Sources(e)) + Reinterpretations + (IF e = Null THEN 1 ELSE 0)

\* Before the first process there is nothing; then the schema is one of the files.
SchemaIsGiven ==
  /\ starts \in Nat
  /\ starts = 0 => store = {} /\ ~up
  /\ starts > 0 => \E f \in Files : schema.statuses = f.statuses

BranchesAreUnique == \A r, s \in store : r.branch \cap s.branch # {} => r = s

\* What is staged under the lock takes no name that is taken, and a value that
\* it expects is still there.
IsFair(row) ==
  /\ \A s \in store : row.branch \cap s.branch = {}
  /\ \A e : Asked(row.by).expected = {e} /\ (\E x \in row.claim : x.value \notin {e, Null})
       => Current = {e} \ {Null}

StagedAreFair ==
  \A c \in Calls : call[c].pc = "staged" => \A row \in call[c].batch : IsFair(row)

ClaimsInv ==
  /\ SchemaIsGiven /\ BranchesAreUnique /\ StagedAreFair
  /\ \A e \in Values : OneWinner(e)

\* A call is at another place and asks what it asked; no other call moves.
StepsOfCall(c) ==
  /\ call[c] # Unsent /\ call'[c].request = call[c].request
  /\ \A d \in Calls \ {c} : call'[d] = call[d]
  /\ UNCHANGED process

\* No step of a call changes what others ask, and only Stage stages.
LEMMA HandleSteps ==
  ASSUME AnswersInv, NEW c \in Calls, Handle(c)
  PROVE  /\ StepsOfCall(c)
         /\ Stage(c) \/ call'[c].pc # "staged"
         /\ Commit(c) \/ store' = store
<1> USE DEF StepsOfCall
<1>1. \A d \in Calls : call[d].pc # "unsent" => call[d] # Unsent /\ IsCall(call[d])
  BY Sent DEF AnswersInv
<1>2. call = [d \in Calls |-> call[d]]
  BY DEF AnswersInv, Shape
<1>3. CASE Reject(c)
  BY <1>1, <1>2, <1>3 DEF Reject, At, Answered, IsCall
<1>4. CASE Lock(c)
  BY <1>1, <1>2, <1>4 DEF Lock, At, IsCall
<1>5. CASE Refuse(c)
  BY <1>1, <1>2, <1>5 DEF Refuse, At, Answered, IsCall
<1>6. CASE Stage(c)
  BY <1>1, <1>2, <1>6 DEF Stage, At, IsCall
<1>7. CASE Commit(c)
  BY <1>1, <1>2, <1>7 DEF Commit, At, IsCall
<1>8. CASE Reply(c)
  BY <1>1, <1>2, <1>8 DEF Reply, At, Answered, IsCall
<1>9. CASE ReadHead(c)
  <2> DEFINE pc == FirstRead(call[c].request.command)
             bound == IF call[c].bound = {} THEN {HeadTx} ELSE call[c].bound
  <2>1. /\ call[c].pc = "received" /\ UNCHANGED <<process, store>>
        /\ call' = [call EXCEPT ![c].pc = pc, ![c].bound = bound]
    BY <1>9 DEF ReadHead, At
  <2>2. pc # "staged"
    BY DEF FirstRead
  <2> HIDE DEF pc, bound
  <2> QED BY <1>1, <1>2, <2>1, <2>2 DEF IsCall
<1>10. CASE ReadRecord(c)
  BY <1>1, <1>2, <1>10 DEF ReadRecord, At, Answered, IsCall
<1>11. CASE ReadClaims(c)
  BY <1>1, <1>2, <1>11 DEF ReadClaims, At, Answered, IsCall
<1>12. CASE ReadItems(c)
  BY <1>1, <1>2, <1>12 DEF ReadItems, At, Answered, IsCall
<1>13. CASE ReadTransactions(c)
  BY <1>1, <1>2, <1>13 DEF ReadTransactions, At, Answered, IsCall
<1>14. CASE ReadDetail(c)
  <2> DEFINE found == {r \in store : r.tx \in call[c].bound}
             answer == IF found = {} THEN "not_found" ELSE "ok"
  <2>1. /\ call[c].pc = "detail" /\ UNCHANGED <<process, store>>
        /\ call' = [call EXCEPT ![c].pc = "answered", ![c].answer = answer, ![c].detail = found]
    BY <1>14 DEF ReadDetail, At, Answered
  <2> HIDE DEF found, answer
  <2> QED BY <1>1, <1>2, <2>1 DEF IsCall
<1>15. CASE ReadEvents(c)
  BY <1>1, <1>2, <1>15 DEF ReadEvents, At, IsCall
<1>16. CASE ReadChanges(c)
  <2> DEFINE txs == call[c].txs \cup Txs({r \in Bounded(store, call[c].bound) : r.record # {}})
  <2>1. /\ call[c].pc = "changes" /\ UNCHANGED <<process, store>>
        /\ call' = [call EXCEPT ![c].pc = "entries", ![c].txs = txs]
    BY <1>16 DEF ReadChanges, At
  <2> HIDE DEF txs
  <2> QED BY <1>1, <1>2, <2>1 DEF IsCall
<1>17. CASE ReadEntry(c)
  BY <1>1, <1>2, <1>17 DEF ReadEntry, At, Answered, IsCall
<1> QED BY <1>3, <1>4, <1>5, <1>6, <1>7, <1>8, <1>9, <1>10, <1>11, <1>12, <1>13, <1>14,
           <1>15, <1>16, <1>17 DEF Handle

\* What the store and the schema say of claims stays, while they do and while
\* calls that were sent ask what they asked.
LEMMA SameClaims ==
  ASSUME AnswersInv, ClaimsInv, store' = store, schema' = schema, starts' = starts,
         up' => up,
         \A c \in Calls : call[c] # Unsent => call'[c].request = call[c].request,
         \A c \in Calls : call'[c].pc = "staged" =>
           \/ call[c].pc = "staged" /\ \A row \in call'[c].batch : row \in call[c].batch
           \/ \A row \in call'[c].batch : IsFair(row)'
  PROVE  ClaimsInv'
<1>1. SchemaIsGiven' /\ BranchesAreUnique'
  BY DEF ClaimsInv, SchemaIsGiven, BranchesAreUnique
<1>2. Current' = Current
  BY DEF Current, Claims, Bounded
<1>3. \A r \in store : Asked(r.by)' = Asked(r.by)
  BY DEF AnswersInv, StoredAreComplete, Asked
<1>4. ASSUME NEW e \in Values
      PROVE  OneWinner(e)'
  <2>1. Claimants(e)' = Claimants(e)
    BY <1>3 DEF Claimants
  <2>2. Sources(e)' = Sources(e) /\ Reinterpretations' = Reinterpretations
    BY DEF Sources, Reinterpretations
  <2>3. Chance(e)' = Chance(e)
    BY <1>2 DEF Chance
  <2> QED BY <2>1, <2>2, <2>3 DEF ClaimsInv, OneWinner
<1>5. StagedAreFair'
  <2> SUFFICES ASSUME NEW c \in Calls, call[c].pc = "staged", call'[c].pc = "staged",
                      NEW row \in call[c].batch
               PROVE  IsFair(row)'
    BY DEF StagedAreFair
  <2>1. IsFair(row) /\ row.by = c
    BY DEF ClaimsInv, StagedAreFair, AnswersInv, StagedAreComplete
  <2>2. Asked(row.by)' = Asked(row.by)
    BY <2>1, Sent DEF AnswersInv, Asked
  <2> QED BY <1>2, <2>1, <2>2 DEF IsFair
<1> QED BY <1>1, <1>4, <1>5 DEF ClaimsInv

\* A transaction that passes its checks is fair: the name of its branch is free
\* and the value that it expects is there.
LEMMA StageIsFair ==
  ASSUME AnswersInv, NEW c \in Calls, Stage(c)
  PROVE  \A row : row = Row(c, NextId) => IsFair(row)'
<1> PICK r : r = call[c].request
  OBVIOUS
<1> DEFINE row == Row(c, NextId)
<1>1. r \in Requests /\ Refusal(r) = {}
  BY Sent DEF Stage, At, AnswersInv
<1>2. IsTransaction(r) /\ IsCheckout(r)
  BY <1>1, TerraServerAssumption DEF IsRequest
<1>3. /\ row.by = c /\ row.branch = {b.slug : b \in r.branch} /\ row.claim = ClaimOf(r)
  BY DEF Row
<1>4. Asked(c)' = r /\ store' = store /\ schema' = schema
  BY HandleSteps DEF Asked, StepsOfCall, process, Handle, Stage
<1>5. Current' = Current
  BY <1>4 DEF Current, Claims, Bounded
<1>6. \A s \in store : row.branch \cap s.branch = {}
  <2> SUFFICES ASSUME NEW b \in r.branch, NEW s \in store, b.slug \in s.branch
               PROVE  FALSE
    BY <1>3
  <2> QED BY <1>1 DEF Refusal, CheckoutRefusal
<1>7. ASSUME NEW e, r.expected = {e}
      PROVE  Current = {e} \ {Null}
  <2>1. r.branch = {}
    BY <1>2, <1>7 DEF IsCheckout
  <2>2. ~Conflicting(r)
    BY <1>1, <2>1 DEF Refusal, TransactionRefusal
  <2> QED BY <1>7, <2>2 DEF Conflicting, Expected
<1> HIDE DEF row
<1> QED BY <1>3, <1>4, <1>5, <1>6, <1>7 DEF IsFair, row

\* The transaction that commits is the newest claim: what it puts is shown, so it
\* uses up the chance that it took.
LEMMA CommitKeepsClaims ==
  ASSUME AnswersInv, SnapshotInv, ClaimsInv, NEW c \in Calls, Commit(c)
  PROVE  ClaimsInv'
<1>1. /\ call[c].pc = "staged" /\ up /\ UNCHANGED process
      /\ store' = store \cup call[c].batch
  BY DEF Commit, At
<1>2. PICK row : call[c].batch = {row} /\ row.by = c
  BY <1>1 DEF AnswersInv, StagedAreComplete
<1>3. IsFair(row) /\ row.tx \in Nat /\ \A s \in store : s.tx \in Nat /\ s.tx < row.tx
  BY <1>1, <1>2 DEF ClaimsInv, StagedAreFair, SnapshotInv, StagedIsNext, IdsAreUsed
<1>4. StepsOfCall(c) /\ call'[c].pc # "staged"
  BY HandleSteps DEF Handle, Commit, Stage, At
<1>5. \A d \in Calls : call'[d].pc # "staged"
  BY <1>1, <1>4 DEF SnapshotInv, LockHeld, StepsOfCall
<1>6. SchemaIsGiven' /\ StagedAreFair'
  BY <1>1, <1>5 DEF ClaimsInv, SchemaIsGiven, StagedAreFair, process
<1>7. BranchesAreUnique'
  <2>1. \A s \in store : row.branch \cap s.branch = {}
    BY <1>3 DEF IsFair
  <2> QED BY <1>1, <1>2, <2>1 DEF ClaimsInv, BranchesAreUnique
<1>8. /\ store' = store \cup {row} /\ row \notin store
      /\ \A r \in store' : Asked(r.by)' = Asked(r.by)
  BY <1>1, <1>2, <1>3, <1>4 DEF StepsOfCall, AnswersInv, StoredAreComplete, Asked
<1>9. ASSUME row.claim = {}
      PROVE  Current' = Current
  <2>1. Bounded(store', {}) = store' /\ Bounded(store, {}) = store
    BY DEF Bounded
  <2>2. ASSUME NEW z
        PROVE  z \in Claims({})' <=> z \in Claims({})
    <3>1. z \in Claims({})' <=> \E r \in store' : \E y \in r.claim :
            z = [tx |-> r.tx, value |-> y.value, status |-> y.status]
      BY <2>1 DEF Claims
    <3>2. z \in Claims({}) <=> \E r \in store : \E y \in r.claim :
            z = [tx |-> r.tx, value |-> y.value, status |-> y.status]
      BY <2>1 DEF Claims
    <3> QED BY <1>8, <1>9, <3>1, <3>2
  <2>3. Claims({})' = Claims({})
    BY <2>2
  <2> QED BY <1>1, <2>3 DEF Current, process
<1>10. ASSUME NEW x \in row.claim, x.value # Null
       PROVE  Current' = {y.value : y \in {z \in row.claim : z.value # Null}}
  <2> PICK claims, shown : claims = Claims({})' /\ shown = Shown(schema, claims)
    OBVIOUS
  <2>1. /\ \A y \in row.claim : [tx |-> row.tx, value |-> y.value, status |-> y.status] \in claims
        /\ \A z \in claims : z.tx \in Nat /\ z.tx =< row.tx
        /\ \A z \in claims : z.tx = row.tx => \E y \in row.claim : z.value = y.value
    BY <1>3, <1>8 DEF Claims, Bounded
  <2>2. \A y \in row.claim : y.value # Null =>
          [tx |-> row.tx, value |-> y.value, status |-> y.status] \in shown
    BY <2>1, <1>3 DEF Shown
  <2>3. ASSUME NEW z \in Newest(shown)
        PROVE  z.tx = row.tx /\ z \in claims /\ z.value # Null
    <3>1. z \in claims /\ z.value # Null /\ \A s \in shown : s.tx =< z.tx
      BY DEF Newest, Shown
    <3>2. [tx |-> row.tx, value |-> x.value, status |-> x.status] \in shown
      BY <1>10, <2>2
    <3>3. row.tx =< z.tx
      BY <3>1, <3>2
    <3>4. z.tx \in Nat /\ z.tx =< row.tx /\ row.tx \in Nat
      BY <1>3, <2>1, <3>1
    <3> QED BY <3>1, <3>3, <3>4
  <2>4. \A y \in row.claim : y.value # Null =>
          [tx |-> row.tx, value |-> y.value, status |-> y.status] \in Newest(shown)
    BY <1>3, <2>1, <2>2 DEF Newest, Shown
  <2>5. Current' = {z.value : z \in Newest(shown)}
    BY <1>1 DEF Current, process, Newest
  <2>6. ASSUME NEW v
        PROVE  v \in Current' <=> \E y \in row.claim : y.value # Null /\ v = y.value
    <3>1. ASSUME NEW y \in row.claim, y.value # Null, v = y.value
          PROVE  v \in Current'
      <4>1. \E z \in Newest(shown) : z.value = y.value
        BY <2>4, <3>1
      <4> QED BY <2>5, <3>1, <4>1
    <3>2. ASSUME NEW z \in Newest(shown), v = z.value
          PROVE  \E y \in row.claim : y.value # Null /\ v = y.value
      BY <2>1, <2>3, <3>2
    <3> QED BY <2>5, <3>1, <3>2
  <2> QED BY <2>6
<1>11. ASSUME NEW e \in Values
       PROVE  OneWinner(e)'
  <2>1. /\ IsFiniteSet(Claimants(e)) /\ IsFiniteSet(Sources(e))
        /\ row \notin Claimants(e) /\ row \notin Sources(e)
    BY <1>8, FS_Subset DEF Claimants, Sources, SnapshotInv, IdsAreUsed
  <2>2. /\ Cardinality(Claimants(e)) \in Nat /\ Cardinality(Sources(e)) \in Nat
        /\ Cardinality(Claimants(e) \cup {row}) = Cardinality(Claimants(e)) + 1
        /\ Cardinality(Sources(e) \cup {row}) = Cardinality(Sources(e)) + 1
    BY <2>1, FS_AddElement, FS_CardinalityType
  <2>3. Claimants(e)' = Claimants(e) \/ Claimants(e)' = Claimants(e) \cup {row}
    BY <1>8 DEF Claimants
  <2>4. Sources(e)' = Sources(e) \/ Sources(e)' = Sources(e) \cup {row}
    BY <1>8 DEF Sources
  <2>5. Reinterpretations' = Reinterpretations /\ Reinterpretations \in Nat
    BY <1>1 DEF Reinterpretations, process, ClaimsInv, SchemaIsGiven
  <2>6. ASSUME Claimants(e)' # Claimants(e)
        PROVE  Chance(e) = 1 /\ Chance(e)' = 0
    <3>1. row \in Claimants(e)'
      BY <2>3, <2>6
    <3>2. Asked(c).expected = {e} /\ \E x \in row.claim : x.value \notin {e, Null}
      BY <1>2, <1>8, <3>1 DEF Claimants
    <3>3. Current = {e} \ {Null}
      BY <1>2, <1>3, <3>2 DEF IsFair
    <3>4. Current' # {e} \ {Null}
      BY <1>10, <3>2
    <3> QED BY <3>3, <3>4 DEF Chance
  <2>7. ASSUME Sources(e)' = Sources(e)
        PROVE  Chance(e)' = 0 \/ Chance(e)' = Chance(e)
    <3>1. \A x \in row.claim : x.value \notin {e, Null}
      BY <1>8, <2>1, <2>7 DEF Sources
    <3>2. CASE row.claim = {}
      BY <1>9, <3>2 DEF Chance
    <3>3. CASE row.claim # {}
      BY <1>10, <3>1, <3>3 DEF Chance
    <3> QED BY <3>2, <3>3
  <2>8. Chance(e) \in {0, 1} /\ Chance(e)' \in {0, 1}
    BY DEF Chance
  <2>9. OneWinner(e)
    BY DEF ClaimsInv
  <2> PICK m, n, o, p : /\ m = Cardinality(Claimants(e)) /\ n = Cardinality(Sources(e))
                        /\ o = Cardinality(Claimants(e)') /\ p = Cardinality(Sources(e)')
    OBVIOUS
  <2>10. /\ m \in Nat /\ n \in Nat /\ o \in {m, m + 1} /\ p \in {n, n + 1}
         /\ o # m => Claimants(e)' # Claimants(e)
         /\ p = n => Sources(e)' = Sources(e)
    <3>1. m \in Nat /\ n \in Nat
      BY <2>2
    <3>2. o = m \/ (o = m + 1 /\ Claimants(e)' # Claimants(e))
      <4>1. CASE Claimants(e)' = Claimants(e)
        BY <4>1
      <4>2. CASE Claimants(e)' # Claimants(e)
        BY <2>2, <2>3, <4>2
      <4> QED BY <4>1, <4>2
    <3>3. (p = n /\ Sources(e)' = Sources(e)) \/ p = n + 1
      <4>1. CASE Sources(e)' = Sources(e)
        BY <4>1
      <4>2. CASE Sources(e)' # Sources(e)
        BY <2>2, <2>4, <4>2
      <4> QED BY <4>1, <4>2
    <3> QED BY <3>1, <3>2, <3>3
  <2>11. m + Chance(e) =< n + Reinterpretations + (IF e = Null THEN 1 ELSE 0)
    BY <2>9 DEF OneWinner
  <2>12. o + Chance(e)' =< p + Reinterpretations + (IF e = Null THEN 1 ELSE 0)
    BY <2>5, <2>6, <2>7, <2>8, <2>10, <2>11
  <2> QED BY <2>5, <2>12 DEF OneWinner
<1> QED BY <1>6, <1>7, <1>11 DEF ClaimsInv

\* A process that starts may read the old claims in another way: a chance may come
\* back, and is counted, unless no two files differ in their statuses.
LEMMA StartKeepsClaims ==
  ASSUME ClaimsInv, SnapshotInv, NEW file \in Files, Start(file)
  PROVE  ClaimsInv'
<1>1. /\ ~up /\ schema' = Parsed(file) /\ starts' = starts + 1
      /\ UNCHANGED <<store, call>>
  BY DEF Start
<1>2. schema'.statuses = file.statuses
  BY <1>1, TerraServerAssumption DEF Parsed, IsSchema
<1>3. starts \in Nat /\ (starts = 0 => store = {})
  BY DEF ClaimsInv, SchemaIsGiven
<1>4. SchemaIsGiven' /\ BranchesAreUnique'
  BY <1>1, <1>2, <1>3 DEF SchemaIsGiven, ClaimsInv, BranchesAreUnique
<1>5. StagedAreFair'
  BY <1>1 DEF SnapshotInv, Quiet, InFlight, StagedAreFair
<1>6. Claims({})' = Claims({})
  BY <1>1 DEF Claims, Bounded
<1>7. CASE starts = 0
  <2>1. Claims({}) = {} /\ Claims({})' = {}
    BY <1>3, <1>6, <1>7 DEF Claims, Bounded
  <2>2. Current' = Current
    BY <2>1 DEF Current, Shown, Newest
  <2>3. Reinterpretations' = Reinterpretations
    BY <1>1, <1>7 DEF Reinterpretations
  <2>4. ASSUME NEW e \in Values
        PROVE  OneWinner(e)'
    <3>1. Claimants(e)' = Claimants(e) /\ Sources(e)' = Sources(e)
      BY <1>1 DEF Claimants, Sources, Asked
    <3>2. Chance(e)' = Chance(e)
      BY <2>2 DEF Chance
    <3> QED BY <2>3, <3>1, <3>2 DEF ClaimsInv, OneWinner
  <2> QED BY <1>4, <1>5, <2>4 DEF ClaimsInv
<1>8. CASE starts # 0 /\ \A f, g \in Files : f.statuses = g.statuses
  <2>1. schema'.statuses = schema.statuses
    BY <1>2, <1>3, <1>8 DEF ClaimsInv, SchemaIsGiven
  <2>2. \A claim : Ends(schema', claim) <=> Ends(schema, claim)
    BY <2>1 DEF Ends
  <2>3. Shown(schema', Claims({})) = Shown(schema, Claims({}))
    BY <2>2 DEF Shown
  <2>4. Current' = Current
    BY <1>6, <2>3 DEF Current, Newest
  <2>5. Reinterpretations' = Reinterpretations
    BY <1>8 DEF Reinterpretations
  <2>6. ASSUME NEW e \in Values
        PROVE  OneWinner(e)'
    <3>1. Claimants(e)' = Claimants(e) /\ Sources(e)' = Sources(e)
      BY <1>1 DEF Claimants, Sources, Asked
    <3>2. Chance(e)' = Chance(e)
      BY <2>4 DEF Chance
    <3> QED BY <2>5, <3>1, <3>2 DEF ClaimsInv, OneWinner
  <2> QED BY <1>4, <1>5, <2>6 DEF ClaimsInv
<1>9. CASE starts # 0 /\ ~\A f, g \in Files : f.statuses = g.statuses
  <2>1. Reinterpretations' = Reinterpretations + 1 /\ Reinterpretations \in Nat
    BY <1>1, <1>3, <1>9 DEF Reinterpretations
  <2>2. ASSUME NEW e \in Values
        PROVE  OneWinner(e)'
    <3>1. Claimants(e)' = Claimants(e) /\ Sources(e)' = Sources(e)
      BY <1>1 DEF Claimants, Sources, Asked
    <3>2. Chance(e)' \in {0, 1} /\ Chance(e) \in {0, 1}
      BY DEF Chance
    <3>3. Cardinality(Claimants(e)) \in Nat /\ Cardinality(Sources(e)) \in Nat
      BY FS_Subset, FS_CardinalityType DEF Claimants, Sources, SnapshotInv, IdsAreUsed
    <3>4. OneWinner(e)
      BY DEF ClaimsInv
    <3>5. PICK m, n : m = Cardinality(Claimants(e)) /\ n = Cardinality(Sources(e))
      OBVIOUS
    <3>6. m + Chance(e)' =< n + (Reinterpretations + 1) + (IF e = Null THEN 1 ELSE 0)
      BY <2>1, <3>2, <3>3, <3>4, <3>5 DEF OneWinner
    <3> QED BY <2>1, <3>1, <3>5, <3>6 DEF OneWinner
  <2> QED BY <1>4, <1>5, <2>2 DEF ClaimsInv
<1> QED BY <1>7, <1>8, <1>9

\* At first only the absence of the property can be claimed.
LEMMA ClaimsInvInit == Init => ClaimsInv
<1> SUFFICES ASSUME Init PROVE ClaimsInv
  OBVIOUS
<1>1. store = {} /\ starts = 0 /\ ~up /\ \A c \in Calls : call[c] = Unsent
  BY DEF Init
<1>2. SchemaIsGiven /\ BranchesAreUnique /\ StagedAreFair
  BY <1>1 DEF SchemaIsGiven, BranchesAreUnique, StagedAreFair, Unsent
<1>3. Current = {} /\ Reinterpretations = 0
  BY <1>1 DEF Current, Claims, Bounded, Shown, Newest, Reinterpretations
<1>4. ASSUME NEW e \in Values
      PROVE  OneWinner(e)
  <2>1. Cardinality(Claimants(e)) = 0 /\ Cardinality(Sources(e)) = 0
    BY <1>1, FS_EmptySet DEF Claimants, Sources
  <2>2. Chance(e) = IF e = Null THEN 1 ELSE 0
    BY <1>3 DEF Chance
  <2> QED BY <1>3, <2>1, <2>2 DEF OneWinner
<1> QED BY <1>2, <1>4 DEF ClaimsInv

\* ClaimsInv is inductive, beside the other two.
LEMMA ClaimsInvNext == AnswersInv /\ SnapshotInv /\ ClaimsInv /\ [Next]_vars => ClaimsInv'
<1> SUFFICES ASSUME AnswersInv, SnapshotInv, ClaimsInv, [Next]_vars PROVE ClaimsInv'
  OBVIOUS
<1>1. ASSUME NEW file \in Files, Start(file) PROVE ClaimsInv'
  BY <1>1, StartKeepsClaims
<1>2. CASE Die
  <2>1. /\ store' = store /\ schema' = schema /\ starts' = starts /\ up
        /\ call' = [c \in Calls |->
                     IF InFlight(c)
                     THEN [call[c] EXCEPT !.pc = "answered", !.answer = "lost", !.batch = {}]
                     ELSE call[c]]
    BY <1>2 DEF Die
  <2>2. ASSUME NEW c \in Calls
        PROVE  /\ call[c] # Unsent => call'[c].request = call[c].request
               /\ call'[c].pc # "staged"
    <3>1. CASE InFlight(c)
      <4>1. IsCall(call[c])
        BY <3>1, Sent DEF InFlight, AnswersInv
      <4> QED BY <2>1, <3>1, <4>1 DEF IsCall
    <3>2. CASE ~InFlight(c)
      BY <2>1, <3>2 DEF InFlight
    <3> QED BY <3>1, <3>2
  <2> QED BY <2>1, <2>2, SameClaims
<1>3. ASSUME NEW c \in Calls, NEW r \in Requests, Send(c, r) PROVE ClaimsInv'
  <2>1. /\ call[c] = Unsent /\ UNCHANGED <<process, store>>
        /\ call' = [call EXCEPT ![c] = NewCall(r)]
    BY <1>3, Sent DEF Send, At, AnswersInv, Shape, Writing, Reading
  <2>2. /\ call'[c].pc = "received"
        /\ \A d \in Calls \ {c} : call'[d] = call[d]
    BY <2>1 DEF NewCall, AnswersInv, Shape
  <2>3. \A d \in Calls : call[d] # Unsent => call'[d].request = call[d].request
    BY <2>1, <2>2
  <2>4. \A d \in Calls : call'[d].pc = "staged" => call'[d] = call[d]
    BY <2>2
  <2> QED BY <2>1, <2>3, <2>4, SameClaims DEF process
<1>4. ASSUME NEW c \in Calls, Handle(c) PROVE ClaimsInv'
  <2>1. CASE Commit(c)
    BY <1>4, <2>1, CommitKeepsClaims
  <2>2. CASE ~Commit(c)
    <3>1. StepsOfCall(c) /\ store' = store /\ (Stage(c) \/ call'[c].pc # "staged")
      BY <1>4, <2>2, HandleSteps
    <3>2. ASSUME Stage(c), NEW row \in call'[c].batch
          PROVE  IsFair(row)'
      <4>1. row = Row(c, NextId)
        <5>1. /\ call' = [call EXCEPT ![c].pc = "staged", ![c].batch = {Row(c, NextId)}]
              /\ call[c].pc = "locked"
          BY <3>2 DEF Stage, At
        <5>2. call = [d \in Calls |-> call[d]] /\ IsCall(call[c])
          BY <5>1, Sent DEF AnswersInv, Shape
        <5>3. call'[c].batch = {Row(c, NextId)}
          BY <5>1, <5>2 DEF IsCall
        <5> QED BY <3>2, <5>3
      <4> QED BY <3>2, <4>1, StageIsFair
    <3>3. \A d \in Calls : call[d] # Unsent => call'[d].request = call[d].request
      BY <3>1 DEF StepsOfCall
    <3>4. \A d \in Calls : call'[d].pc = "staged" =>
            \/ call[d].pc = "staged" /\ \A row \in call'[d].batch : row \in call[d].batch
            \/ \A row \in call'[d].batch : IsFair(row)'
      BY <3>1, <3>2 DEF StepsOfCall
    <3> QED BY <3>1, <3>3, <3>4, SameClaims DEF StepsOfCall, process
  <2> QED BY <2>1, <2>2
<1>5. CASE UNCHANGED vars
  BY <1>5, SameClaims DEF vars, process
<1> QED BY <1>1, <1>2, <1>3, <1>4, <1>5 DEF Next

\* Of the clients that take a value at once, each of which expects what it read,
\* one wins (transaction.rs, the precondition under the lock): a value is taken at
\* most as often as it came about, and a branch has its name alone (checkout.rs).
\* Ids must grow from process to process: a claim with an older id than the one it
\* replaces would not be what the property shows next.
THEOREM ClaimsHaveOneWinnerHolds ==
  ASSUME Rollback = FALSE
  PROVE  Spec => []ClaimsHaveOneWinner
<1>1. SnapshotInv /\ ClaimsInv => ClaimsHaveOneWinner
  <2> SUFFICES ASSUME SnapshotInv, ClaimsInv PROVE ClaimsHaveOneWinner
    OBVIOUS
  <2>1. ASSUME NEW e \in Values
        PROVE  Cardinality(Claimants(e))
                 =< Cardinality(Sources(e)) + Reinterpretations + (IF e = Null THEN 1 ELSE 0)
    <3>1. OneWinner(e) /\ Chance(e) \in {0, 1} /\ Reinterpretations \in Nat
      BY DEF ClaimsInv, Chance, Reinterpretations, SchemaIsGiven
    <3>2. Cardinality(Claimants(e)) \in Nat /\ Cardinality(Sources(e)) \in Nat
      BY FS_Subset, FS_CardinalityType DEF Claimants, Sources, SnapshotInv, IdsAreUsed
    <3> QED BY <3>1, <3>2 DEF OneWinner
  <2> QED BY <2>1 DEF ClaimsHaveOneWinner, ClaimsInv, BranchesAreUnique, Values
<1>2. Spec => [](AnswersInv /\ SnapshotInv)
  BY SnapshotInvNext, SnapshotInvInit, AnswersInvHolds, PTL DEF Spec
<1>3. Spec => [](AnswersInv /\ SnapshotInv /\ ClaimsInv)
  BY <1>2, ClaimsInvInit, ClaimsInvNext, PTL DEF Spec
<1> QED BY <1>1, <1>3, PTL
=============================================================================
