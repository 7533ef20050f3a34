--------------------------- MODULE DocBridgeProofs ---------------------------
(***************************************************************************)
(* Proofs about the bridge, for any set of queries: the pipe, the child    *)
(* and the waiters behave like the in-order service of DocService.         *)
(***************************************************************************)
EXTENDS DocBridge, SequenceTheorems, TLAPS

Lines == Queries \cup {Torn}
Outcomes == {"new", "waiting", "answered", "failed"}

\* Every variable has its type, and a query is settled by its own answer.
TypeOK ==
  /\ outcome \in [Queries -> Outcomes]
  /\ answer = [q \in Queries |-> q]
  /\ pending \in Seq(Queries)
  /\ failure \in BOOLEAN /\ broken \in BOOLEAN /\ ended \in BOOLEAN
  /\ input \in Seq(Queries)
  /\ current \in Seq(Queries) /\ Len(current) =< 1
  /\ output \in Seq(Lines)
  /\ child \in {"running", "exited", "closed"}
  /\ issued \in Seq(Queries)
  /\ ran \in Seq(Queries)

\* How many of the queries issued are settled.
Settled == Len(issued) - Len(pending)

\* A query is issued once, when it is new.
IssuedOnce ==
  /\ \A i, j \in 1 .. Len(issued) : issued[i] = issued[j] => i = j
  /\ \A i \in 1 .. Len(issued) : outcome[issued[i]] # "new"

\* The waiters are the last of the queries issued, none after a failure.
WaitersAreLast ==
  /\ Settled \in Nat
  /\ \A i \in 1 .. Len(pending) : pending[i] = issued[Settled + i]
  /\ \A q \in Queries : outcome[q] = "waiting" <=> q \in Elements(pending)
  /\ failure => pending = <<>>

\* What ran was issued first, and what is in the pipe comes next; nothing is
\* lost while the child lives and its input is open.
InputInOrder ==
  /\ Len(ran) + Len(input) =< Len(issued)
  /\ \A i \in 1 .. Len(ran) : ran[i] = issued[i]
  /\ \A i \in 1 .. Len(input) : input[i] = issued[Len(ran) + i]
  /\ child = "running" /\ ~ended /\ ~failure => Len(ran) + Len(input) = Len(issued)

\* Until a failure, the lines that come back, and the answer under way, belong
\* to the oldest waiters in order, and their queries have run.
OutputInOrder ==
  ~failure =>
    /\ \A i \in 1 .. Len(output) :
         output[i] # Torn => Settled + i =< Len(ran) /\ output[i] = issued[Settled + i]
    /\ child = "running" =>
         /\ Settled + Len(output) + Len(current) = Len(ran)
         /\ \A i \in 1 .. Len(current) : current[i] = issued[Settled + Len(output) + i]

IInv == TypeOK /\ IssuedOnce /\ WaitersAreLast /\ InputInOrder /\ OutputInOrder

-----------------------------------------------------------------------------
(***************************************************************************)
(* Every step keeps the invariant.                                         *)
(***************************************************************************)
\* The invariant holds when the child has been spawned, or could not be.
LEMMA BridgeInitInv == Init => IInv
<1> SUFFICES ASSUME Init
             PROVE  IInv
  OBVIOUS
<1>1. TypeOK
  <2>1. <<>> \in Seq(Queries) /\ <<>> \in Seq(Lines) /\ Len(<<>>) =< 1
    OBVIOUS
  <2>2. outcome \in [Queries -> Outcomes]
    BY DEF Init, Outcomes
  <2>3. child \in {"running", "exited", "closed"} /\ broken \in BOOLEAN
    BY DEF Init
  <2>4. /\ answer = [q \in Queries |-> q] /\ failure = FALSE /\ ended = FALSE
        /\ pending = <<>> /\ input = <<>> /\ current = <<>> /\ output = <<>>
        /\ issued = <<>> /\ ran = <<>>
    BY DEF Init
  <2> QED BY <2>1, <2>2, <2>3, <2>4 DEF TypeOK
<1>2. Len(issued) = 0 /\ Len(pending) = 0 /\ Len(ran) = 0 /\ Len(input) = 0
      /\ Len(output) = 0 /\ Len(current) = 0
  BY DEF Init
<1>3. IssuedOnce
  BY <1>2 DEF IssuedOnce
<1>4. WaitersAreLast
  BY <1>2 DEF Init, WaitersAreLast, Settled, Elements
<1>5. InputInOrder /\ OutputInOrder
  BY <1>2 DEF InputInOrder, OutputInOrder, Settled
<1> QED BY <1>1, <1>3, <1>4, <1>5 DEF IInv

\* A sequence that has grown by one element.
LEMMA Appended ==
  ASSUME NEW S, NEW s \in Seq(S), NEW x \in S, NEW t, t = Append(s, x)
  PROVE  /\ t \in Seq(S) /\ Len(s) \in Nat /\ Len(t) = Len(s) + 1
         /\ t[Len(s) + 1] = x
         /\ \A i \in 1 .. Len(s) : t[i] = s[i] /\ i \in 1 .. Len(t)
         /\ Len(s) + 1 \in 1 .. Len(t)
         /\ \A i \in 1 .. Len(t) : i \in 1 .. Len(s) \/ i = Len(s) + 1
  OBVIOUS

\* After a failure nobody waits.
LEMMA FailStep ==
  ASSUME IInv, Fail, issued' = issued
  PROVE  /\ outcome' \in [Queries -> Outcomes] /\ pending' = <<>> /\ failure' = TRUE
         /\ IssuedOnce' /\ WaitersAreLast' /\ OutputInOrder'
         /\ \A q \in Queries : outcome'[q] = IF outcome[q] = "waiting" THEN "failed"
                                             ELSE outcome[q]
<1> USE DEF IInv, TypeOK
<1>1. \A q \in Queries : outcome[q] = "waiting" <=> q \in Elements(pending)
  BY DEF WaitersAreLast
<1>2. \A q \in Queries : outcome'[q] = IF outcome[q] = "waiting" THEN "failed"
                                       ELSE outcome[q]
  BY <1>1 DEF Fail
<1>3. outcome' \in [Queries -> Outcomes] /\ pending' = <<>> /\ failure' = TRUE
  BY DEF Fail, Outcomes
<1>4. IssuedOnce'
  <2>1. \A i \in 1 .. Len(issued) : issued[i] \in Queries
    OBVIOUS
  <2> QED BY <1>2, <2>1 DEF IssuedOnce
<1>5. WaitersAreLast'
  <2>1. Elements(<<>>) = {}
    BY DEF Elements
  <2>2. Settled' \in Nat
    BY <1>3 DEF Settled
  <2>3. \A q \in Queries : outcome'[q] = "waiting" <=> q \in Elements(pending')
    BY <1>2, <1>3, <2>1
  <2> QED BY <1>3, <2>2, <2>3 DEF WaitersAreLast, Elements
<1> QED BY <1>2, <1>3, <1>4, <1>5 DEF OutputInOrder

\* A caller issues a query.
LEMMA QueryStep ==
  ASSUME IInv, NEW q \in Queries, Query(q)
  PROVE  IInv'
<1> USE DEF IInv, TypeOK
<1>1. CASE failure
  <2>1. /\ outcome' = [outcome EXCEPT ![q] = "failed"] /\ outcome[q] = "new"
        /\ UNCHANGED <<answer, pending, failure, broken, ended, childVars, history>>
    BY <1>1 DEF Query, childVars, history
  <2>2. TypeOK'
    BY <2>1 DEF Outcomes, childVars, history
  <2>3. IssuedOnce'
    <3>1. \A i \in 1 .. Len(issued) : issued[i] \in Queries
      OBVIOUS
    <3> QED BY <2>1, <3>1 DEF IssuedOnce, history
  <2>4. WaitersAreLast'
    BY <2>1 DEF WaitersAreLast, Settled, Elements, history
  <2>5. InputInOrder' /\ OutputInOrder'
    BY <2>1 DEF InputInOrder, OutputInOrder, Settled, childVars, history
  <2> QED BY <2>2, <2>3, <2>4, <2>5
<1>2. CASE ~failure
  <2>1. /\ outcome' = [outcome EXCEPT ![q] = "waiting"] /\ outcome[q] = "new"
        /\ pending' = Append(pending, q) /\ issued' = Append(issued, q)
        /\ IF child = "running" /\ ~ended
           THEN input' = Append(input, q) /\ UNCHANGED broken
           ELSE broken' \in {broken, TRUE} /\ UNCHANGED input
        /\ UNCHANGED <<answer, failure, ended, current, output, child, ran>>
    BY <1>2 DEF Query
  <2>3. /\ pending' \in Seq(Queries) /\ issued' \in Seq(Queries)
        /\ Len(pending') = Len(pending) + 1 /\ Len(issued') = Len(issued) + 1
        /\ \A i \in 1 .. Len(pending) : pending'[i] = pending[i]
        /\ \A i \in 1 .. Len(issued) : issued'[i] = issued[i]
        /\ pending'[Len(pending) + 1] = q /\ issued'[Len(issued) + 1] = q
        /\ Len(pending) \in Nat /\ Len(issued) \in Nat
        /\ \A i \in 1 .. Len(issued') : i \in 1 .. Len(issued) \/ i = Len(issued) + 1
    BY <2>1, Appended
  <2>2. TypeOK'
    <3>1. outcome' \in [Queries -> Outcomes]
      BY <2>1 DEF Outcomes
    <3>2. input' \in Seq(Queries) /\ broken' \in BOOLEAN
      <4>1. CASE child = "running" /\ ~ended
        <5>1. input' = Append(input, q) /\ broken' = broken
          BY <2>1, <4>1
        <5>2. input \in Seq(Queries) /\ broken \in BOOLEAN
          OBVIOUS
        <5> HIDE DEF IInv, TypeOK
        <5> QED BY <5>1, <5>2, Appended
      <4>2. CASE ~(child = "running" /\ ~ended)
        <5>1. input' = input /\ broken' \in {broken, TRUE}
          BY <2>1, <4>2
        <5> QED BY <5>1
      <4> QED BY <4>1, <4>2
    <3> QED BY <2>1, <2>3, <3>1, <3>2
  <2>4. \A i \in 1 .. Len(issued) : issued[i] \in Queries /\ issued[i] # q
    BY <2>1 DEF IssuedOnce
  <2>5. IssuedOnce'
    <3>1. ASSUME NEW i \in 1 .. Len(issued'), NEW j \in 1 .. Len(issued'),
                 issued'[i] = issued'[j]
          PROVE  i = j
      <4>1. \/ i \in 1 .. Len(issued) /\ issued'[i] # q
            \/ i = Len(issued) + 1 /\ issued'[i] = q
        BY <2>3, <2>4
      <4>2. \/ j \in 1 .. Len(issued) /\ issued'[j] # q
            \/ j = Len(issued) + 1 /\ issued'[j] = q
        BY <2>3, <2>4
      <4> QED BY <2>3, <3>1, <4>1, <4>2 DEF IssuedOnce
    <3>2. ASSUME NEW i \in 1 .. Len(issued')
          PROVE  outcome'[issued'[i]] # "new"
      <4>1. CASE i = Len(issued) + 1
        BY <2>1, <2>3, <4>1
      <4>2. CASE i # Len(issued) + 1
        <5>1. i \in 1 .. Len(issued) /\ issued'[i] = issued[i]
          BY <2>3, <4>2
        <5> QED BY <2>1, <2>4, <5>1 DEF IssuedOnce
      <4> QED BY <4>1, <4>2
    <3> QED BY <3>1, <3>2 DEF IssuedOnce
  <2>6. Settled' = Settled /\ Settled \in Nat /\ Settled + Len(pending) = Len(issued)
    BY <2>3 DEF Settled, WaitersAreLast
  <2>7. WaitersAreLast'
    <3>1. ASSUME NEW i \in 1 .. Len(pending')
          PROVE  pending'[i] = issued'[Settled + i]
      <4>1. CASE i = Len(pending) + 1
        BY <2>3, <2>6, <4>1
      <4>2. CASE i # Len(pending) + 1
        <5>1. i \in 1 .. Len(pending) /\ Settled + i \in 1 .. Len(issued)
          BY <2>3, <2>6, <4>2
        <5> QED BY <2>3, <5>1 DEF WaitersAreLast
      <4> QED BY <4>1, <4>2
    <3>2. Elements(pending') = Elements(pending) \cup {q}
      <4>1. \A i \in 1 .. Len(pending') : i \in 1 .. Len(pending) \/ i = Len(pending) + 1
        BY <2>3
      <4>2. \A i \in 1 .. Len(pending) : i \in 1 .. Len(pending')
        BY <2>3
      <4>3. Len(pending) + 1 \in 1 .. Len(pending')
        BY <2>3
      <4> QED BY <2>3, <4>1, <4>2, <4>3 DEF Elements
    <3>3. \A x \in Queries : outcome'[x] = "waiting" <=> x \in Elements(pending')
      BY <2>1, <3>2 DEF WaitersAreLast
    <3> QED BY <1>2, <2>1, <2>6, <3>1, <3>3 DEF WaitersAreLast, Elements, Settled
  <2>8. InputInOrder'
    <3>1. Len(ran) \in Nat /\ Len(input) \in Nat /\ Len(ran) + Len(input) =< Len(issued)
      BY DEF InputInOrder
    <3>2. \A i \in 1 .. Len(ran) : ran'[i] = issued'[i]
      BY <2>1, <2>3, <3>1 DEF InputInOrder
    <3>3. \A i \in 1 .. Len(input) : input[i] = issued'[Len(ran) + i]
      <4>1. \A i \in 1 .. Len(input) : Len(ran) + i \in 1 .. Len(issued)
        BY <3>1
      <4> QED BY <2>3, <4>1 DEF InputInOrder
    <3>4. CASE child = "running" /\ ~ended
      <4>1. Len(ran) + Len(input) = Len(issued)
        BY <1>2, <3>4 DEF InputInOrder
      <4>2. /\ Len(input') = Len(input) + 1 /\ input'[Len(input) + 1] = q
            /\ \A i \in 1 .. Len(input) : input'[i] = input[i]
        <5>1. input' = Append(input, q) /\ input \in Seq(Queries)
          BY <2>1, <3>4
        <5> HIDE DEF IInv, TypeOK
        <5> QED BY <5>1, Appended
      <4>3. ASSUME NEW i \in 1 .. Len(input')
            PROVE  input'[i] = issued'[Len(ran) + i]
        <5>1. CASE i = Len(input) + 1
          BY <2>3, <3>1, <4>1, <4>2, <5>1
        <5>2. CASE i # Len(input) + 1
          <6>1. i \in 1 .. Len(input)
            BY <3>1, <4>2, <5>2
          <6> QED BY <3>3, <4>2, <6>1
        <5> QED BY <5>1, <5>2
      <4> HIDE DEF IInv, TypeOK
      <4>r. ran' = ran
        BY <2>1
      <4>4. Len(ran') + Len(input') = Len(issued') /\ ran' = ran
        BY <2>3, <3>1, <4>1, <4>2, <4>r
      <4>5. \A i \in 1 .. Len(ran') : ran'[i] = issued'[i]
        BY <3>2, <4>4
      <4>6. Len(ran') + Len(input') =< Len(issued')
        BY <2>3, <4>4
      <4> QED BY <4>3, <4>4, <4>5, <4>6 DEF InputInOrder
    <3>5. CASE ~(child = "running" /\ ~ended)
      <4>1. input' = input /\ ran' = ran /\ child' = child /\ ended' = ended
        BY <2>1, <3>5
      <4>2. Len(ran) + Len(input) =< Len(issued')
        BY <2>3, <3>1
      <4> HIDE DEF IInv, TypeOK
      <4> QED BY <3>2, <3>3, <3>5, <4>1, <4>2 DEF InputInOrder
    <3> QED BY <3>4, <3>5
  <2>9. OutputInOrder'
    <3>1. Len(ran) =< Len(issued) /\ Len(ran) \in Nat
      BY DEF InputInOrder
    <3>2. \A i \in 1 .. Len(output) :
            output[i] # Torn => Settled + i =< Len(ran) /\ output[i] = issued'[Settled + i]
      <4>1. \A i \in 1 .. Len(output) :
              Settled + i =< Len(ran) => Settled + i \in 1 .. Len(issued)
        BY <2>6, <3>1
      <4> QED BY <1>2, <2>3, <4>1 DEF OutputInOrder
    <3>3. child = "running" => \A i \in 1 .. Len(current) :
            current[i] = issued'[Settled + Len(output) + i]
      <4>1. child = "running" => \A i \in 1 .. Len(current) :
              Settled + Len(output) + i \in 1 .. Len(issued)
        BY <1>2, <2>6, <3>1 DEF OutputInOrder
      <4> QED BY <1>2, <2>3, <4>1 DEF OutputInOrder
    <3> QED BY <1>2, <2>1, <2>6, <3>2, <3>3 DEF OutputInOrder, Settled
  <2> QED BY <2>2, <2>5, <2>7, <2>8, <2>9
<1> QED BY <1>1, <1>2

\* A failure loses nothing but a tail of the pipe and lines that came back.
LEMMA FailInv ==
  ASSUME IInv, Fail, issued' = issued, ran' = ran, answer' = answer, current' = current,
         broken' \in BOOLEAN, ended' \in BOOLEAN, output' \in Seq(Lines),
         child' \in {"running", "exited", "closed"},
         input' \in Seq(Queries), Len(input') =< Len(input),
         \A i \in 1 .. Len(input') : input'[i] = input[i]
  PROVE  IInv'
<1>1. /\ outcome' \in [Queries -> Outcomes] /\ pending' = <<>> /\ failure' = TRUE
      /\ IssuedOnce' /\ WaitersAreLast' /\ OutputInOrder'
  BY FailStep
<1>2. TypeOK'
  <2>1. <<>> \in Seq(Queries)
    OBVIOUS
  <2>2. /\ answer = [q \in Queries |-> q] /\ current \in Seq(Queries) /\ Len(current) =< 1
        /\ issued \in Seq(Queries) /\ ran \in Seq(Queries)
    BY DEF IInv, TypeOK
  <2> QED BY <1>1, <2>1, <2>2 DEF TypeOK
<1>3. InputInOrder'
  <2>1. /\ input \in Seq(Queries) /\ ran \in Seq(Queries) /\ issued \in Seq(Queries)
        /\ Len(ran) + Len(input) =< Len(issued)
        /\ \A i \in 1 .. Len(ran) : ran[i] = issued[i]
        /\ \A i \in 1 .. Len(input) : input[i] = issued[Len(ran) + i]
    BY DEF IInv, TypeOK, InputInOrder
  <2>2. Len(input) \in Nat /\ Len(input') \in Nat /\ Len(ran) \in Nat /\ Len(issued) \in Nat
    BY <2>1
  <2>3. Len(ran) + Len(input') =< Len(issued)
    BY <2>1, <2>2
  <2>4. \A i \in 1 .. Len(input') : input'[i] = issued[Len(ran) + i]
    <3>1. \A i \in 1 .. Len(input') : i \in 1 .. Len(input)
      BY <2>2
    <3> QED BY <2>1, <3>1
  <2> QED BY <1>1, <2>1, <2>3, <2>4 DEF InputInOrder
<1> QED BY <1>1, <1>2, <1>3 DEF IInv

\* The error event of the pipe.
LEMMA ErrorStep ==
  ASSUME IInv, OnError
  PROVE  IInv'
<1>1. PICK n \in 0 .. Len(input) : input' = SubSeq(input, 1, n)
  BY DEF OnError
<1>2. input \in Seq(Queries) /\ output \in Seq(Lines)
      /\ child \in {"running", "exited", "closed"}
  BY DEF IInv, TypeOK
<1>3. /\ input' \in Seq(Queries) /\ Len(input') =< Len(input)
      /\ \A i \in 1 .. Len(input') : input'[i] = input[i]
  <2>1. n \in Nat /\ n =< Len(input)
    BY <1>1, <1>2
  <2>2. Len(input') = n /\ \A i \in 1 .. n : input'[i] = input[i] /\ input[i] \in Queries
    BY <1>1, <1>2, <2>1
  <2> QED BY <1>1, <1>2, <2>1, <2>2
<1>4. /\ Fail /\ issued' = issued /\ ran' = ran /\ answer' = answer /\ current' = current
      /\ output' = output /\ child' = child /\ broken' \in BOOLEAN /\ ended' \in BOOLEAN
  BY DEF OnError, history
<1> QED BY <1>2, <1>3, <1>4, FailInv

\* The close event of the child.
LEMMA CloseEventStep ==
  ASSUME IInv, OnClose
  PROVE  IInv'
<1>1. input \in Seq(Queries) /\ output \in Seq(Lines) /\ broken \in BOOLEAN /\ ended \in BOOLEAN
  BY DEF IInv, TypeOK
<1>2. Len(input) =< Len(input)
  BY <1>1
<1>3. /\ Fail /\ issued' = issued /\ ran' = ran /\ answer' = answer /\ current' = current
      /\ output' = output /\ child' \in {"running", "exited", "closed"} /\ broken' = broken
      /\ ended' = ended /\ input' = input
  BY DEF OnClose, history
<1> QED BY <1>1, <1>2, <1>3, FailInv

\* The facts about the oldest waiter when a good line comes back.
LineIsDue ==
  /\ ~failure /\ Len(pending) >= 1 /\ Len(output) >= 1
  /\ Settled \in Nat /\ Settled + Len(pending) = Len(issued)
  /\ Settled + 1 \in 1 .. Len(ran) /\ Settled + 1 \in 1 .. Len(issued)
  /\ Head(pending) = issued[Settled + 1] /\ Head(output) = issued[Settled + 1]
  /\ Head(pending) \in Queries

\* A line that can be parsed is the answer to the oldest waiter, which has run.
LEMMA GoodLine ==
  ASSUME IInv, output # <<>>, pending # <<>>, Head(output) # Torn
  PROVE  LineIsDue
<1>1. /\ pending \in Seq(Queries) /\ output \in Seq(Lines) /\ ran \in Seq(Queries)
      /\ issued \in Seq(Queries) /\ input \in Seq(Queries)
  BY DEF IInv, TypeOK
<1>2. /\ Settled \in Nat /\ \A i \in 1 .. Len(pending) : pending[i] = issued[Settled + i]
      /\ ~failure
  BY DEF IInv, WaitersAreLast
<1>3. /\ Len(pending) >= 1 /\ Len(output) >= 1 /\ Head(pending) = pending[1]
      /\ Head(output) = output[1] /\ Head(pending) \in Queries
  BY <1>1
<1>4. Settled + 1 =< Len(ran) /\ output[1] = issued[Settled + 1]
  BY <1>1, <1>2, <1>3 DEF IInv, OutputInOrder
<1>5. Len(ran) =< Len(issued)
  BY <1>1 DEF IInv, InputInOrder
<1>6. Settled + Len(pending) = Len(issued)
  BY <1>1 DEF Settled
<1> QED BY <1>1, <1>2, <1>3, <1>4, <1>5, <1>6 DEF LineIsDue

\* A line comes back.
LEMMA LineStep ==
  ASSUME IInv, OnLine
  PROVE  IInv'
<1>1. /\ pending \in Seq(Queries) /\ output \in Seq(Lines) /\ input \in Seq(Queries)
      /\ ran \in Seq(Queries) /\ issued \in Seq(Queries) /\ current \in Seq(Queries)
      /\ Len(current) =< 1 /\ outcome \in [Queries -> Outcomes]
      /\ answer = [q \in Queries |-> q]
      /\ failure \in BOOLEAN /\ broken \in BOOLEAN /\ ended \in BOOLEAN
      /\ child \in {"running", "exited", "closed"}
  BY DEF IInv, TypeOK
<1>2. /\ output # <<>> /\ output' = Tail(output) /\ issued' = issued /\ ran' = ran
      /\ broken' = broken /\ ended' = ended /\ input' = input /\ current' = current
      /\ child' = child
  BY DEF OnLine, history
<1>3. /\ output' \in Seq(Lines) /\ Len(output') = Len(output) - 1 /\ Len(output) \in Nat
      /\ \A i \in 1 .. Len(output') : output'[i] = output[i + 1] /\ i + 1 \in 1 .. Len(output)
  <2>1. output' \in Seq(Lines) /\ Len(output') = Len(output) - 1 /\ Len(output) \in Nat
    BY <1>1, <1>2
  <2>2. \A i \in 1 .. Len(output') : output'[i] = output[i + 1] /\ i + 1 \in 1 .. Len(output)
    BY <1>1, <1>2, <2>1
  <2> QED BY <2>1, <2>2
<1>4. CASE pending = <<>> \/ Head(output) = Torn
  <2>1. Fail /\ answer' = answer
    BY <1>4 DEF OnLine
  <2>2. Len(input) =< Len(input)
    BY <1>1
  <2> QED BY <1>1, <1>2, <1>3, <2>1, <2>2, FailInv
<1>5. CASE ~(pending = <<>> \/ Head(output) = Torn)
  <2> DEFINE w == Head(pending)
  <2>1. /\ outcome' = [outcome EXCEPT ![w] = "answered"]
        /\ answer' = [answer EXCEPT ![w] = Head(output)]
        /\ pending' = Tail(pending) /\ failure' = failure
    BY <1>5 DEF OnLine
  <2>2. LineIsDue
    BY <1>2, <1>5, GoodLine
  <2>3. w \in Queries /\ w = issued[Settled + 1] /\ Head(output) = w
    BY <2>2 DEF LineIsDue
  <2>4. /\ pending' \in Seq(Queries) /\ Len(pending') = Len(pending) - 1
        /\ Len(pending) \in Nat /\ Len(pending) >= 1
        /\ \A i \in 1 .. Len(pending') : pending'[i] = pending[i + 1]
                                         /\ i + 1 \in 1 .. Len(pending)
        /\ pending[1] = w
        /\ \A i \in 1 .. Len(pending) : pending[i] \in Queries
    <3>1. pending' \in Seq(Queries) /\ Len(pending') = Len(pending) - 1 /\ Len(pending) \in Nat
      BY <1>1, <1>5, <2>1
    <3>2. \A i \in 1 .. Len(pending') : pending'[i] = pending[i + 1] /\ i + 1 \in 1 .. Len(pending)
      BY <1>1, <1>5, <2>1, <3>1
    <3> QED BY <1>1, <1>5, <3>1, <3>2
  <2> HIDE DEF w
  <2>5. outcome' \in [Queries -> Outcomes] /\ answer' = answer
        /\ \A q \in Queries : outcome'[q] = IF q = w THEN "answered" ELSE outcome[q]
    BY <1>1, <2>1, <2>3 DEF Outcomes
  <2>6. TypeOK'
    BY <1>1, <1>2, <1>3, <2>1, <2>4, <2>5 DEF TypeOK
  <2>7. /\ Settled' = Settled + 1 /\ Settled \in Nat /\ Len(issued) \in Nat
        /\ Settled + Len(pending) = Len(issued)
    BY <1>1, <1>2, <2>2, <2>4 DEF Settled, LineIsDue
  <2>8. \A i, j \in 1 .. Len(issued) : issued[i] = issued[j] => i = j
    BY DEF IInv, IssuedOnce
  <2>9. IssuedOnce'
    <3>1. \A i \in 1 .. Len(issued) : issued[i] \in Queries /\ outcome[issued[i]] # "new"
      BY <1>1 DEF IInv, IssuedOnce
    <3> QED BY <1>2, <2>5, <2>8, <3>1 DEF IssuedOnce
  <2>10. \A i \in 1 .. Len(pending) : pending[i] = issued[Settled + i]
                                      /\ Settled + i \in 1 .. Len(issued)
    <3>1. \A i \in 1 .. Len(pending) : Settled + i \in 1 .. Len(issued)
      BY <2>4, <2>7
    <3> QED BY <3>1 DEF IInv, WaitersAreLast
  <2>11. WaitersAreLast'
    <3>1. \A i \in 1 .. Len(pending') : pending'[i] = issued[Settled + 1 + i]
      BY <2>4, <2>7, <2>10
    <3>2. ASSUME NEW i \in 1 .. Len(pending')
          PROVE  pending'[i] # w
      <4>1. pending'[i] = pending[i + 1] /\ i + 1 \in 1 .. Len(pending) /\ i \in Nat /\ i >= 1
        BY <2>4
      <4>2. pending[i + 1] = issued[Settled + (i + 1)]
            /\ Settled + (i + 1) \in 1 .. Len(issued)
        BY <2>10, <4>1
      <4>3. Settled + 1 \in 1 .. Len(issued) /\ Settled + (i + 1) # Settled + 1
        BY <2>4, <2>7, <4>1
      <4> QED BY <2>3, <2>8, <4>1, <4>2, <4>3
    <3>3. ASSUME NEW q \in Queries
          PROVE  q \in Elements(pending') <=> q \in Elements(pending) /\ q # w
      <4>1. ASSUME q \in Elements(pending')
            PROVE  q \in Elements(pending) /\ q # w
        BY <2>4, <3>2, <4>1 DEF Elements
      <4>2. ASSUME q \in Elements(pending), q # w
            PROVE  q \in Elements(pending')
        <5>1. PICK i \in 1 .. Len(pending) : q = pending[i]
          BY <4>2 DEF Elements
        <5>2. i # 1
          BY <2>4, <4>2, <5>1
        <5>3. i - 1 \in 1 .. Len(pending') /\ (i - 1) + 1 = i
          BY <2>4, <5>2
        <5>4. pending'[i - 1] = q
          BY <2>4, <5>1, <5>3
        <5> QED BY <5>3, <5>4 DEF Elements
      <4> QED BY <4>1, <4>2
    <3>4. \A q \in Queries : outcome[q] = "waiting" <=> q \in Elements(pending)
      BY DEF IInv, WaitersAreLast
    <3>5. \A q \in Queries : outcome'[q] = "waiting" <=> q \in Elements(pending')
      BY <2>5, <3>3, <3>4
    <3>6. Elements(pending') = Elements(pending)'
      BY DEF Elements
    <3>7. Settled' \in Nat /\ ~failure'
      BY <2>1, <2>2, <2>7 DEF LineIsDue
    <3> QED BY <1>2, <2>7, <3>1, <3>5, <3>6, <3>7 DEF WaitersAreLast
  <2>12. InputInOrder'
    <3>1. InputInOrder
      BY DEF IInv
    <3> QED BY <1>2, <2>1, <3>1 DEF InputInOrder
  <2>13. OutputInOrder'
    <3>1. /\ \A i \in 1 .. Len(output) : output[i] # Torn =>
               Settled + i =< Len(ran) /\ output[i] = issued[Settled + i]
          /\ child = "running" =>
               /\ Settled + Len(output) + Len(current) = Len(ran)
               /\ \A i \in 1 .. Len(current) : current[i] = issued[Settled + Len(output) + i]
      BY <2>2 DEF LineIsDue, IInv, OutputInOrder
    <3>2. \A i \in 1 .. Len(output') : output'[i] # Torn =>
            Settled + 1 + i =< Len(ran) /\ output'[i] = issued[Settled + 1 + i]
      <4>1. \A i \in 1 .. Len(output') : Settled + (i + 1) = Settled + 1 + i
        BY <2>7
      <4> QED BY <1>3, <3>1, <4>1
    <3>3. Settled + 1 + Len(output') = Settled + Len(output)
      BY <1>3, <2>7
    <3> QED BY <1>2, <2>7, <3>1, <3>2, <3>3 DEF OutputInOrder
  <2> QED BY <2>6, <2>9, <2>11, <2>12, <2>13 DEF IInv
<1> QED BY <1>4, <1>5

\* The child runs the next query of the pipe.
LEMMA ExecuteStep ==
  ASSUME IInv, Execute
  PROVE  /\ IInv'
         /\ Len(ran) < Len(issued) /\ ran' = Append(ran, issued[Len(ran) + 1])
<1>1. /\ pending \in Seq(Queries) /\ output \in Seq(Lines) /\ input \in Seq(Queries)
      /\ ran \in Seq(Queries) /\ issued \in Seq(Queries) /\ current = <<>>
      /\ input # <<>> /\ child = "running" /\ failure \in BOOLEAN
  BY DEF IInv, TypeOK, Execute
<1>2. /\ current' = <<Head(input)>> /\ input' = Tail(input) /\ ran' = Append(ran, Head(input))
      /\ outcome' = outcome /\ answer' = answer /\ pending' = pending /\ failure' = failure
      /\ broken' = broken /\ ended' = ended /\ output' = output /\ child' = child
      /\ issued' = issued
  BY DEF Execute, nodeVars
<1>3. /\ Head(input) \in Queries /\ Head(input) = input[1] /\ Len(input) \in Nat
      /\ Len(input) >= 1 /\ Len(ran) \in Nat /\ Len(issued) \in Nat /\ Len(output) \in Nat
      /\ input' \in Seq(Queries) /\ Len(input') = Len(input) - 1
  BY <1>1, <1>2
<1>4. \A i \in 1 .. Len(input') : input'[i] = input[i + 1] /\ i + 1 \in 1 .. Len(input)
  BY <1>1, <1>2, <1>3
<1>5. /\ ran' \in Seq(Queries) /\ Len(ran') = Len(ran) + 1 /\ ran'[Len(ran) + 1] = Head(input)
      /\ \A i \in 1 .. Len(ran) : ran'[i] = ran[i]
      /\ \A i \in 1 .. Len(ran') : i \in 1 .. Len(ran) \/ i = Len(ran) + 1
  BY <1>1, <1>2, <1>3, Appended
<1>6. /\ Len(ran) + Len(input) =< Len(issued)
      /\ \A i \in 1 .. Len(ran) : ran[i] = issued[i]
      /\ \A i \in 1 .. Len(input) : input[i] = issued[Len(ran) + i]
      /\ child = "running" /\ ~ended /\ ~failure => Len(ran) + Len(input) = Len(issued)
  BY DEF IInv, InputInOrder
<1>7. Head(input) = issued[Len(ran) + 1] /\ Len(ran) < Len(issued)
  BY <1>3, <1>6
<1>8. TypeOK'
  <2>1. current' \in Seq(Queries) /\ Len(current') = 1
    BY <1>2, <1>3
  <2>2. TypeOK
    BY DEF IInv
  <2> QED BY <1>2, <1>3, <1>5, <2>1, <2>2 DEF TypeOK
<1>9. IssuedOnce' /\ WaitersAreLast'
  BY <1>2 DEF IInv, IssuedOnce, WaitersAreLast, Settled, Elements
<1>10. InputInOrder'
  <2>1. \A i \in 1 .. Len(ran') : ran'[i] = issued[i]
    BY <1>5, <1>6, <1>7
  <2>2. \A i \in 1 .. Len(input') : input'[i] = issued[Len(ran') + i]
    <3>1. \A i \in 1 .. Len(input') : Len(ran) + (i + 1) = Len(ran') + i
      BY <1>3, <1>5
    <3> QED BY <1>4, <1>6, <3>1
  <2>3. Len(ran') + Len(input') = Len(ran) + Len(input)
    BY <1>3, <1>5
  <2> QED BY <1>2, <1>6, <2>1, <2>2, <2>3 DEF InputInOrder
<1>11. OutputInOrder'
  <2> SUFFICES ASSUME ~failure
               PROVE  OutputInOrder'
    BY <1>2 DEF OutputInOrder
  <2>1. Settled' = Settled /\ Settled \in Nat
    BY <1>2 DEF Settled, IInv, WaitersAreLast
  <2>2. /\ \A i \in 1 .. Len(output) : output[i] # Torn =>
             Settled + i =< Len(ran) /\ output[i] = issued[Settled + i]
        /\ Settled + Len(output) + Len(current) = Len(ran)
    BY <1>1 DEF IInv, OutputInOrder
  <2>3. Len(current) = 0 /\ Len(current') = 1 /\ current'[1] = Head(input)
    BY <1>1, <1>2
  <2>4. Settled + Len(output) = Len(ran)
    BY <1>3, <2>1, <2>2, <2>3
  <2>5. Settled + Len(output) + Len(current') = Len(ran')
    BY <1>5, <2>3, <2>4
  <2>6. \A i \in 1 .. Len(current') : current'[i] = issued[Settled + Len(output) + i]
    BY <1>7, <2>3, <2>4
  <2>7. \A i \in 1 .. Len(output) : output[i] # Torn =>
          Settled + i =< Len(ran') /\ output[i] = issued[Settled + i]
    BY <1>3, <1>5, <2>1, <2>2
  <2> QED BY <1>2, <2>1, <2>5, <2>6, <2>7 DEF OutputInOrder
<1> QED BY <1>2, <1>7, <1>8, <1>9, <1>10, <1>11 DEF IInv

\* The child writes the answer of the query it ran.
LEMMA RespondStep ==
  ASSUME IInv, Respond
  PROVE  IInv'
<1>1. /\ output \in Seq(Lines) /\ ran \in Seq(Queries) /\ current \in Seq(Queries)
      /\ Len(current) =< 1 /\ current # <<>> /\ child = "running"
  BY DEF IInv, TypeOK, Respond
<1>2. /\ output' = output \o current /\ current' = <<>> /\ outcome' = outcome
      /\ answer' = answer /\ pending' = pending /\ failure' = failure /\ broken' = broken
      /\ ended' = ended /\ input' = input /\ child' = child /\ issued' = issued /\ ran' = ran
  BY DEF Respond, nodeVars, history
<1>3. Len(current) = 1 /\ current[1] \in Queries /\ Len(output) \in Nat
  <2>1. Len(current) \in Nat /\ Len(output) \in Nat
    BY <1>1
  <2>2. Len(current) # 0
    BY <1>1, EmptySeq
  <2>3. Len(current) = 1
    <3>1. Len(current) =< 1
      BY <1>1
    <3>2. \A n \in Nat : n =< 1 /\ n # 0 => n = 1
      OBVIOUS
    <3> QED BY <2>1, <2>2, <3>1, <3>2
  <2> QED BY <1>1, <2>1, <2>3
<1>4. current \in Seq(Lines)
  <2>1. Len(current) \in Nat /\ current = [i \in 1 .. Len(current) |-> current[i]]
        /\ \A i \in 1 .. Len(current) : current[i] \in Lines
    BY <1>1 DEF Lines
  <2> QED BY <2>1
<1>5. /\ output' \in Seq(Lines) /\ Len(output') = Len(output) + 1
      /\ output'[Len(output) + 1] = current[1]
      /\ \A i \in 1 .. Len(output) : output'[i] = output[i]
      /\ \A i \in 1 .. Len(output') : i \in 1 .. Len(output) \/ i = Len(output) + 1
  <2>1. /\ output \o current \in Seq(Lines)
        /\ Len(output \o current) = Len(output) + Len(current)
        /\ \A i \in 1 .. Len(output) + Len(current) :
             (output \o current)[i] = IF i =< Len(output) THEN output[i]
                                      ELSE current[i - Len(output)]
    BY <1>1, <1>4, ConcatProperties
  <2>2. Len(output) + 1 \in 1 .. Len(output) + Len(current)
        /\ ~(Len(output) + 1 =< Len(output)) /\ (Len(output) + 1) - Len(output) = 1
    BY <1>3
  <2>3. \A i \in 1 .. Len(output) : i \in 1 .. Len(output) + Len(current) /\ i =< Len(output)
    BY <1>3
  <2>4. (output \o current)[Len(output) + 1] = current[1]
    BY <2>1, <2>2
  <2>5. \A i \in 1 .. Len(output) : (output \o current)[i] = output[i]
    BY <2>1, <2>3
  <2>6. \A i \in 1 .. Len(output) + 1 : i \in 1 .. Len(output) \/ i = Len(output) + 1
    BY <1>3
  <2> QED BY <1>2, <1>3, <2>1, <2>4, <2>5, <2>6
<1>6. TypeOK'
  <2>1. <<>> \in Seq(Queries) /\ Len(<<>>) =< 1
    OBVIOUS
  <2>2. TypeOK
    BY DEF IInv
  <2> QED BY <1>2, <1>5, <2>1, <2>2 DEF TypeOK
<1>7. IssuedOnce' /\ WaitersAreLast' /\ InputInOrder'
  BY <1>2 DEF IInv, IssuedOnce, WaitersAreLast, InputInOrder, Settled, Elements
<1>8. OutputInOrder'
  <2> SUFFICES ASSUME ~failure
               PROVE  OutputInOrder'
    BY <1>2 DEF OutputInOrder
  <2>1. Settled' = Settled /\ Settled \in Nat
    BY <1>2 DEF Settled, IInv, WaitersAreLast
  <2>2. /\ \A i \in 1 .. Len(output) : output[i] # Torn =>
             Settled + i =< Len(ran) /\ output[i] = issued[Settled + i]
        /\ Settled + Len(output) + Len(current) = Len(ran)
        /\ \A i \in 1 .. Len(current) : current[i] = issued[Settled + Len(output) + i]
    BY <1>1 DEF IInv, OutputInOrder
  <2>3. Settled + (Len(output) + 1) = Len(ran) /\ current[1] = issued[Settled + (Len(output) + 1)]
    BY <1>3, <2>1, <2>2
  <2>4. \A i \in 1 .. Len(output') : output'[i] # Torn =>
          Settled + i =< Len(ran) /\ output'[i] = issued[Settled + i]
    <3> SUFFICES ASSUME NEW i \in 1 .. Len(output'), output'[i] # Torn
                 PROVE  Settled + i =< Len(ran) /\ output'[i] = issued[Settled + i]
      OBVIOUS
    <3>1. CASE i = Len(output) + 1
      BY <1>3, <1>5, <2>1, <2>3, <3>1
    <3>2. CASE i \in 1 .. Len(output)
      BY <1>5, <2>2, <3>2
    <3> QED BY <1>5, <3>1, <3>2
  <2>5. Settled + Len(output') + Len(<<>>) = Len(ran)
    BY <1>3, <1>5, <2>1, <2>3
  <2>6. \A i \in 1 .. Len(<<>>) : <<>>[i] = issued[Settled + Len(output') + i]
    OBVIOUS
  <2> QED BY <1>2, <2>1, <2>4, <2>5, <2>6 DEF OutputInOrder
<1> QED BY <1>6, <1>7, <1>8 DEF IInv

\* The caller closes the pipe, or the child leaves.
LEMMA QuietStep ==
  ASSUME IInv, Close \/ Exit \/ UNCHANGED vars
  PROVE  IInv'
<1>1. /\ outcome' = outcome /\ answer' = answer /\ pending' = pending /\ failure' = failure
      /\ broken' = broken /\ input' = input /\ current' = current /\ output' = output
      /\ issued' = issued /\ ran' = ran
      /\ ended' \in {ended, TRUE} /\ child' \in {child, "exited"}
      /\ child' = "running" => child = "running"
      /\ ended' = FALSE => ended = FALSE
  <2>1. CASE Close
    BY <2>1 DEF Close, childVars, history
  <2>2. CASE Exit
    BY <2>2 DEF Exit, nodeVars, history
  <2>3. CASE UNCHANGED vars
    BY <2>3 DEF vars, nodeVars, childVars, history
  <2> QED BY <2>1, <2>2, <2>3
<1>2. TypeOK'
  <2>1. TypeOK
    BY DEF IInv
  <2>2. ended' \in BOOLEAN /\ child' \in {"running", "exited", "closed"}
    BY <1>1, <2>1 DEF TypeOK
  <2> QED BY <1>1, <2>1, <2>2 DEF TypeOK
<1>3. IssuedOnce' /\ WaitersAreLast'
  BY <1>1 DEF IInv, IssuedOnce, WaitersAreLast, Settled, Elements
<1>4. InputInOrder' /\ OutputInOrder'
  <2>1. ended \in BOOLEAN /\ ended' \in BOOLEAN
    BY <1>2 DEF IInv, TypeOK
  <2>2. ~ended' => ~ended
    BY <1>1, <2>1
  <2> QED BY <1>1, <2>2 DEF IInv, InputInOrder, OutputInOrder, Settled
<1> QED BY <1>2, <1>3, <1>4 DEF IInv

\* The child dies: what is in the pipe is lost, and half a line may come back.
LEMMA DieStep ==
  ASSUME IInv, Die
  PROVE  IInv'
<1>1. /\ output \in Seq(Lines) /\ ran \in Seq(Queries) /\ issued \in Seq(Queries)
      /\ input \in Seq(Queries)
  BY DEF IInv, TypeOK
<1>2. /\ child' = "exited" /\ input' = <<>> /\ current' = <<>> /\ outcome' = outcome
      /\ answer' = answer /\ pending' = pending /\ failure' = failure /\ broken' = broken
      /\ ended' = ended /\ issued' = issued /\ ran' = ran
      /\ output' = output \/ output' = Append(output, Torn)
  BY DEF Die, nodeVars, history
<1>3. Torn \in Lines /\ Len(output) \in Nat
  BY <1>1 DEF Lines
<1>4. /\ output' \in Seq(Lines)
      /\ \A i \in 1 .. Len(output') :
           output'[i] = Torn \/ (i \in 1 .. Len(output) /\ output'[i] = output[i])
  <2>1. CASE output' = output
    BY <1>1, <2>1
  <2>2. CASE output' = Append(output, Torn)
    <3>1. /\ output' \in Seq(Lines) /\ output'[Len(output) + 1] = Torn
          /\ \A i \in 1 .. Len(output) : output'[i] = output[i]
          /\ \A i \in 1 .. Len(output') : i \in 1 .. Len(output) \/ i = Len(output) + 1
      BY <1>1, <1>3, <2>2, Appended
    <3> QED BY <3>1
  <2> QED BY <1>2, <2>1, <2>2
<1>5. TypeOK'
  <2>1. <<>> \in Seq(Queries) /\ Len(<<>>) =< 1
    OBVIOUS
  <2>2. TypeOK
    BY DEF IInv
  <2> QED BY <1>2, <1>4, <2>1, <2>2 DEF TypeOK
<1>6. IssuedOnce' /\ WaitersAreLast'
  BY <1>2 DEF IInv, IssuedOnce, WaitersAreLast, Settled, Elements
<1>7. InputInOrder'
  <2>1. /\ Len(ran) + Len(input) =< Len(issued) /\ \A i \in 1 .. Len(ran) : ran[i] = issued[i]
    BY DEF IInv, InputInOrder
  <2>2. Len(<<>>) = 0 /\ Len(ran) + 0 =< Len(issued)
    BY <1>1, <2>1
  <2>3. \A i \in 1 .. Len(<<>>) : <<>>[i] = issued[Len(ran) + i]
    OBVIOUS
  <2> QED BY <1>2, <2>1, <2>2, <2>3 DEF InputInOrder
<1>8. OutputInOrder'
  <2> SUFFICES ASSUME ~failure
               PROVE  OutputInOrder'
    BY <1>2 DEF OutputInOrder
  <2>1. \A i \in 1 .. Len(output) : output[i] # Torn =>
          Settled + i =< Len(ran) /\ output[i] = issued[Settled + i]
    BY DEF IInv, OutputInOrder
  <2>2. Settled' = Settled
    BY <1>2 DEF Settled
  <2> QED BY <1>2, <1>4, <2>1, <2>2 DEF OutputInOrder
<1> QED BY <1>5, <1>6, <1>7, <1>8 DEF IInv

\* Every step of the bridge keeps the invariant.
LEMMA NextInv == IInv /\ [Next]_vars => IInv'
<1> SUFFICES ASSUME IInv, [Next]_vars
             PROVE  IInv'
  OBVIOUS
<1>1. ASSUME NEW q \in Queries, Query(q)
      PROVE  IInv'
  BY <1>1, QueryStep
<1>2. CASE Parent
  BY <1>2, LineStep, ErrorStep, CloseEventStep DEF Parent
<1>3. CASE Execute \/ Respond \/ Die
  BY <1>3, ExecuteStep, RespondStep, DieStep
<1>4. CASE Close \/ Exit \/ UNCHANGED vars
  BY <1>4, QuietStep
<1> QED BY <1>1, <1>2, <1>3, <1>4 DEF Next, Engine

\* The pipe, the child and the waiters stay in one order, whatever fails: the
\* inductive invariant of the bridge.
THEOREM BridgeInOrder == Spec => []IInv
<1> QED BY BridgeInitInv, NextInv, PTL DEF Spec

-----------------------------------------------------------------------------
(***************************************************************************)
(* The refinement.                                                         *)
(***************************************************************************)
\* What the caller of the service sees.
seen == <<outcome, answer, issued, ran, failure>>

\* A query is issued, or rejected after a failure.
LEMMA QueryRefines ==
  ASSUME NEW q \in Queries, Query(q)
  PROVE  Service!Issue(q)
<1>1. /\ outcome[q] = "new" /\ answer' = answer /\ ran' = ran /\ failure' = failure
  BY DEF Query
<1>2. CASE failure
  BY <1>1, <1>2 DEF Query, Service!Issue
<1>3. CASE ~failure
  BY <1>1, <1>3 DEF Query, Service!Issue
<1> QED BY <1>2, <1>3

\* Whatever goes wrong, every waiter is rejected.
LEMMA FailRefines ==
  ASSUME IInv, Fail, answer' = answer, issued' = issued, ran' = ran
  PROVE  Service!Stop
<1>1. \A q \in Queries : outcome[q] = "waiting" <=> q \in Elements(pending)
  BY DEF IInv, WaitersAreLast
<1>2. outcome' = [q \in Queries |-> IF Service!Waiting(q) THEN "failed" ELSE outcome[q]]
  BY <1>1 DEF Fail, Service!Waiting
<1> QED BY <1>2 DEF Fail, Service!Stop

\* The line that comes back settles the oldest waiting query, which has run.
LEMMA LineRefines ==
  ASSUME IInv, OnLine
  PROVE  Service!Next
<1>1. output # <<>> /\ issued' = issued /\ ran' = ran
  BY DEF OnLine, history
<1>2. CASE pending = <<>> \/ Head(output) = Torn
  <2>1. Fail /\ answer' = answer
    BY <1>2 DEF OnLine
  <2> QED BY <1>1, <2>1, FailRefines DEF Service!Next
<1>3. CASE ~(pending = <<>> \/ Head(output) = Torn)
  <2>1. LineIsDue
    BY <1>1, <1>3, GoodLine
  <2> DEFINE k == Settled + 1
  <2>2. /\ k \in 1 .. Len(ran) /\ k \in 1 .. Len(issued) /\ Head(pending) = issued[k]
        /\ Head(output) = issued[k] /\ issued[k] \in Queries /\ ~failure
        /\ Settled \in Nat /\ Settled + Len(pending) = Len(issued)
    BY <2>1 DEF LineIsDue
  <2>3. /\ outcome' = [outcome EXCEPT ![issued[k]] = "answered"]
        /\ answer' = [answer EXCEPT ![issued[k]] = issued[k]] /\ failure' = failure
    BY <1>3, <2>2 DEF OnLine
  <2>4. /\ issued \in Seq(Queries) /\ pending \in Seq(Queries) /\ ran \in Seq(Queries)
        /\ answer = [q \in Queries |-> q]
    BY DEF IInv, TypeOK
  <2>5. answer' = answer
    BY <2>2, <2>3, <2>4
  <2>6. /\ \A i, j \in 1 .. Len(issued) : issued[i] = issued[j] => i = j
        /\ \A i \in 1 .. Len(pending) : pending[i] = issued[Settled + i]
        /\ \A q \in Queries : outcome[q] = "waiting" <=> q \in Elements(pending)
    BY DEF IInv, IssuedOnce, WaitersAreLast
  <2>7. Service!Waiting(issued[k])
    <3>1. 1 \in 1 .. Len(pending) /\ pending[1] = issued[k]
      BY <2>1, <2>4, <2>6 DEF LineIsDue
    <3>2. issued[k] \in Elements(pending)
      BY <3>1 DEF Elements
    <3> QED BY <2>2, <2>6, <3>2 DEF Service!Waiting
  <2> HIDE DEF k
  <2>8. ASSUME NEW j \in 1 .. k - 1
        PROVE  ~Service!Waiting(issued[j])
    <3>1. j \in 1 .. Len(issued) /\ j =< Settled
      BY <2>2, <2>4 DEF k
    <3>2. issued[j] \in Queries
      BY <2>4, <3>1
    <3>3. ASSUME NEW i \in 1 .. Len(pending), issued[j] = pending[i]
          PROVE  FALSE
      <4>1. Settled + i \in 1 .. Len(issued) /\ Settled + i # j
        BY <2>2, <2>4, <3>1
      <4> QED BY <2>6, <3>1, <3>3, <4>1
    <3>4. issued[j] \notin Elements(pending)
      BY <3>3 DEF Elements
    <3> QED BY <2>6, <3>2, <3>4 DEF Service!Waiting
  <2>9. Service!Answer
    BY <1>1, <2>2, <2>3, <2>5, <2>7, <2>8 DEF Service!Answer
  <2> QED BY <2>9 DEF Service!Next
<1> QED BY <1>2, <1>3

\* Every step of the bridge is a step of the service, or one it does not see.
LEMMA NextRefines == IInv /\ [Next]_vars => [Service!Next]_seen
<1> SUFFICES ASSUME IInv, [Next]_vars
             PROVE  Service!Next \/ UNCHANGED seen
  OBVIOUS
<1>1. ASSUME NEW q \in Queries, Query(q)
      PROVE  Service!Next
  BY <1>1, QueryRefines DEF Service!Next
<1>2. CASE OnLine
  BY <1>2, LineRefines
<1>3. CASE OnError \/ OnClose
  <2>1. Fail /\ answer' = answer /\ issued' = issued /\ ran' = ran
    BY <1>3 DEF OnError, OnClose, history
  <2> QED BY <2>1, FailRefines DEF Service!Next
<1>4. CASE Execute
  <2>1. Len(ran) < Len(issued) /\ ran' = Append(ran, issued[Len(ran) + 1])
    BY <1>4, ExecuteStep
  <2>2. outcome' = outcome /\ answer' = answer /\ issued' = issued /\ failure' = failure
    BY <1>4 DEF Execute, nodeVars
  <2> QED BY <2>1, <2>2 DEF Service!Next, Service!Run
<1>5. CASE Close \/ Respond \/ Exit \/ Die \/ UNCHANGED vars
  BY <1>5 DEF Close, Respond, Exit, Die, vars, nodeVars, childVars, history, seen
<1> QED BY <1>1, <1>2, <1>3, <1>4, <1>5 DEF Next, Parent, Engine

\* Whatever the pipe and the child do, the bridge is an in-order service: what
\* is answered has run, what ran was issued, in that order, each query gets its
\* own answer, and after a failure nothing more is accepted or answered.
THEOREM BridgeRefines == Spec => ImplementsService
<1>1. Init => Service!Init
  BY DEF Init, Service!Init
<1>2. IInv /\ [Next]_vars => [Service!Next]_(Service!svars)
  BY NextRefines DEF seen, Service!svars
<1>3. Spec => []IInv
  BY BridgeInOrder
<1> QED BY <1>1, <1>2, <1>3, PTL DEF Spec, ImplementsService, Service!Spec
=============================================================================
