----------------------------- MODULE DocBridge -----------------------------
(***************************************************************************)
(* The bridge between the Node.js service and the engine process           *)
(* (document-bridge.mjs, document-bridge.rs). Queries go down a pipe and    *)
(* one line comes back for each; a line carries no id, so the parent gives *)
(* it to its oldest waiter. The child may die at any moment.               *)
(***************************************************************************)
EXTENDS Naturals, Sequences

CONSTANTS
  Queries,  \* the queries callers may issue, each once
  Torn      \* a line that is not JSON: the child died while writing it

ASSUME TornAssumption == Torn \notin Queries

VARIABLES
  outcome,  \* query -> "new", "waiting", "answered" or "failed"
  answer,   \* query -> the query whose answer settled it, or itself
  pending,  \* waiters, oldest first
  failure,  \* a failure was recorded; every later query is rejected with it
  broken,   \* an "error" event of the child or of its stdin is outstanding
  ended,    \* the parent's end of stdin is closed
  input,    \* lines in stdin
  current,  \* the query the child has run and not answered, at most one
  output,   \* lines in stdout
  child,    \* "running", "exited", or "closed" once the parent saw it
  issued,   \* history: queries accepted
  ran       \* history: queries the child ran

nodeVars == <<outcome, answer, pending, failure, broken, ended>>
childVars == <<input, current, output, child>>
history == <<issued, ran>>
vars == <<nodeVars, childVars, history>>

Elements(s) == {s[i] : i \in 1 .. Len(s)}

\* spawn may fail, which is reported like the death of a child.
Init ==
  /\ outcome = [q \in Queries |-> "new"]
  /\ answer = [q \in Queries |-> q]
  /\ pending = <<>>
  /\ failure = FALSE
  /\ ended = FALSE
  /\ input = <<>>
  /\ current = <<>>
  /\ output = <<>>
  /\ \/ child = "running" /\ broken = FALSE
     \/ child = "exited" /\ broken = TRUE
  /\ issued = <<>>
  /\ ran = <<>>

-----------------------------------------------------------------------------
(***************************************************************************)
(* The parent. fail records the failure and rejects every waiter.          *)
(***************************************************************************)
\* Mutant: only the oldest waiter is rejected.
FailOldest ==
  /\ failure' = TRUE
  /\ pending' = <<>>
  /\ outcome' = [q \in Queries |->
                   IF pending # <<>> /\ q = Head(pending) THEN "failed"
                   ELSE outcome[q]]

Fail ==
  /\ failure' = TRUE
  /\ pending' = <<>>
  /\ outcome' = [q \in Queries |->
                   IF q \in Elements(pending) THEN "failed" ELSE outcome[q]]

\* A write to a dead child or a closed pipe is reported later, as an event of
\* the stream, unless the stream is already destroyed.
Query(q) ==
  /\ outcome[q] = "new"
  /\ IF failure
     THEN /\ outcome' = [outcome EXCEPT ![q] = "failed"]
          /\ UNCHANGED <<pending, broken, input, issued>>
     ELSE /\ outcome' = [outcome EXCEPT ![q] = "waiting"]
          /\ pending' = Append(pending, q)
          /\ issued' = Append(issued, q)
          /\ IF child = "running" /\ ~ended
             THEN input' = Append(input, q) /\ UNCHANGED broken
             ELSE broken' \in {broken, TRUE} /\ UNCHANGED input
  /\ UNCHANGED <<answer, failure, ended, current, output, child, ran>>

\* The oldest waiter takes the line. A line that cannot be parsed, or that
\* nobody waits for, is a failure of the bridge.
OnLine ==
  /\ output # <<>>
  /\ output' = Tail(output)
  /\ LET line == Head(output)
     IN  IF pending = <<>> \/ line = Torn
         THEN Fail /\ UNCHANGED answer
         ELSE /\ outcome' = [outcome EXCEPT ![Head(pending)] = "answered"]
              /\ answer' = [answer EXCEPT ![Head(pending)] = line]
              /\ pending' = Tail(pending)
              /\ UNCHANGED failure
  /\ UNCHANGED <<broken, ended, input, current, child, history>>

\* The error event destroys the stream: lines still in the parent are lost.
OnError ==
  /\ broken
  /\ broken' = FALSE
  /\ ended' = TRUE
  /\ Fail
  /\ \E n \in 0 .. Len(input) : input' = SubSeq(input, 1, n)
  /\ UNCHANGED <<answer, current, output, child, history>>

\* Mutant: the close of the child goes unnoticed.
OnCloseIgnored ==
  /\ child = "exited" /\ output = <<>>
  /\ child' = "closed"
  /\ UNCHANGED <<nodeVars, input, current, output, history>>

\* The close event comes after the last line was read.
OnClose ==
  /\ child = "exited" /\ output = <<>>
  /\ child' = "closed"
  /\ Fail
  /\ UNCHANGED <<answer, broken, ended, input, current, output, history>>

Close ==
  /\ ~ended
  /\ ended' = TRUE
  /\ UNCHANGED <<outcome, answer, pending, failure, broken, childVars, history>>

-----------------------------------------------------------------------------
(***************************************************************************)
(* The child: read a line, run it, write and flush the answer; at the end  *)
(* of its input it exits.                                                  *)
(***************************************************************************)
Execute ==
  /\ child = "running" /\ current = <<>> /\ input # <<>>
  /\ current' = <<Head(input)>>
  /\ input' = Tail(input)
  /\ ran' = Append(ran, Head(input))
  /\ UNCHANGED <<nodeVars, output, child, issued>>

Respond ==
  /\ child = "running" /\ current # <<>>
  /\ output' = output \o current
  /\ current' = <<>>
  /\ UNCHANGED <<nodeVars, input, child, history>>

Exit ==
  /\ child = "running" /\ ended /\ input = <<>> /\ current = <<>>
  /\ child' = "exited"
  /\ UNCHANGED <<nodeVars, input, current, output, history>>

\* Killed, or out of memory: an answer under way may leave half a line.
Die ==
  /\ child = "running"
  /\ child' = "exited"
  /\ input' = <<>>
  /\ current' = <<>>
  /\ \/ UNCHANGED output
     \/ current # <<>> /\ output' = Append(output, Torn)
  /\ UNCHANGED <<nodeVars, history>>

Parent == OnLine \/ OnError \/ OnClose

Engine == Execute \/ Respond \/ Exit

Next == (\E q \in Queries : Query(q)) \/ Close \/ Parent \/ Engine \/ Die

(***************************************************************************)
(* The event loop delivers the events it has, and a living child works on. *)
(* Nobody is obliged to query, to close or to die.                         *)
(***************************************************************************)
Spec ==
  Init /\ [][Next]_vars /\ WF_vars(OnLine) /\ WF_vars(OnError)
       /\ WF_vars(OnClose) /\ WF_vars(Engine)
-----------------------------------------------------------------------------
(***************************************************************************)
(* Properties.                                                             *)
(***************************************************************************)
\* The bridge is an in-order, at-most-once service that stops at the first
\* failure: what is answered has run, and what ran was issued, in that order.
\* Lines carry no id, yet no waiter ever gets the answer to another query: not
\* after an error of the pipe, a torn line or the death of the child.
Service == INSTANCE DocService WITH accepted <- issued, stopped <- failure

ImplementsService == Service!Spec

\* No caller waits for ever, whenever the child dies or the pipe closes.
EveryQuerySettles ==
  \A q \in Queries : outcome[q] = "waiting" ~> outcome[q] \in {"answered", "failed"}
=============================================================================
