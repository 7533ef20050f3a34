----------------------------- MODULE DocService -----------------------------
(***************************************************************************)
(* What a caller of the bridge may rely on: a service that runs accepted   *)
(* queries one by one in the order they were issued, each at most once,    *)
(* answers them in that order and only after running them, and stops for   *)
(* good when anything goes wrong. A query that fails may have run or may   *)
(* still run.                                                              *)
(***************************************************************************)
EXTENDS Naturals, Sequences

CONSTANT Queries

VARIABLES
  outcome,   \* query -> what its caller knows of it
  answer,    \* query -> the query whose answer its caller was given
  accepted,  \* queries in the order they were issued
  ran,       \* queries in the order they ran
  stopped    \* nothing is accepted any more

svars == <<outcome, answer, accepted, ran, stopped>>

Waiting(q) == outcome[q] = "waiting"

Init ==
  /\ outcome = [q \in Queries |-> "new"]
  /\ answer = [q \in Queries |-> q]
  /\ accepted = <<>>
  /\ ran = <<>>
  /\ stopped = FALSE

Issue(q) ==
  /\ outcome[q] = "new"
  /\ IF stopped
     THEN /\ outcome' = [outcome EXCEPT ![q] = "failed"]
          /\ UNCHANGED accepted
     ELSE /\ outcome' = [outcome EXCEPT ![q] = "waiting"]
          /\ accepted' = Append(accepted, q)
  /\ UNCHANGED <<answer, ran, stopped>>

Run ==
  /\ Len(ran) < Len(accepted)
  /\ ran' = Append(ran, accepted[Len(ran) + 1])
  /\ UNCHANGED <<outcome, answer, accepted, stopped>>

\* The oldest waiting query is answered, it has run and the answer is its own.
Answer ==
  \E i \in 1 .. Len(ran) :
    /\ Waiting(accepted[i])
    /\ \A j \in 1 .. i - 1 : ~Waiting(accepted[j])
    /\ outcome' = [outcome EXCEPT ![accepted[i]] = "answered"]
    /\ UNCHANGED <<answer, accepted, ran, stopped>>

Stop ==
  /\ stopped' = TRUE
  /\ outcome' = [q \in Queries |-> IF Waiting(q) THEN "failed" ELSE outcome[q]]
  /\ UNCHANGED <<answer, accepted, ran>>

Next == (\E q \in Queries : Issue(q)) \/ Run \/ Answer \/ Stop

Spec == Init /\ [][Next]_svars
=============================================================================
