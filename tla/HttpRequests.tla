----------------------------- MODULE HttpRequests -----------------------------
(***************************************************************************)
(* The frame of the back-office modules: requests that are each handled    *)
(* statement by statement, with the other requests' statements in between. *)
(*                                                                         *)
(* A handler of this back end is a chain of awaited database statements,   *)
(* most of them autocommitted.  Every step of a handler is one statement   *)
(* and the code up to the next one.  A request arrives with its first      *)
(* statement, for nothing before that touches shared state.  Rows are      *)
(* named by the request that created them, Nobody for those that were      *)
(* there before.                                                           *)
(***************************************************************************)
EXTENDS Naturals, FiniteSets

CONSTANTS
    Requests,  \* what administrators and customers send
    Nobody,    \* the creator of the rows that were there first
    Nothing    \* no value

ASSUME RequestConstants == Nobody \notin Requests /\ Nothing \notin Requests

VARIABLES
    pc,       \* request -> the statement its handler issues next
    job,      \* request -> the operation it asks for, and its arguments
    held,     \* request -> what its handler keeps from one statement to the next
    answer,   \* request -> what its caller is told
    earlier   \* request -> the requests that were answered when it arrived

httpVars == <<pc, job, held, answer, earlier>>

\* "refused" is any 4xx but 404, "error" any 5xx.
Answers == {"none", "ok", "notFound", "refused", "error"}

Creators == Requests \cup {Nobody}

HttpInit ==
    /\ pc = [r \in Requests |-> "idle"]
    /\ job = [r \in Requests |-> Nothing]
    /\ held = [r \in Requests |-> Nothing]
    /\ answer = [r \in Requests |-> "none"]
    /\ earlier = [r \in Requests |-> {}]
-----------------------------------------------------------------------------
Answered == {r \in Requests : pc[r] = "answered"}

InProgress(r) == pc[r] \notin {"idle", "answered"}

Succeeded(r) == answer[r] = "ok"

\* Is r, which asks for operation op, about to issue this statement?
At(r, statement, op) == pc[r] = statement /\ job[r].op = op

Arrive(r, j) ==
    /\ pc[r] = "idle"
    /\ job' = [job EXCEPT ![r] = j]
    /\ earlier' = [earlier EXCEPT ![r] = Answered]

\* The first statement of a handler, when more are to come ...
Begin(r, j, statement, keep) ==
    /\ Arrive(r, j)
    /\ pc' = [pc EXCEPT ![r] = statement]
    /\ held' = [held EXCEPT ![r] = keep]
    /\ UNCHANGED answer

\* ... and when it decides the answer.
Serve(r, j, what) ==
    /\ Arrive(r, j)
    /\ pc' = [pc EXCEPT ![r] = "answered"]
    /\ answer' = [answer EXCEPT ![r] = what]
    /\ UNCHANGED held

\* A later statement.
Continue(r, statement, keep) ==
    /\ pc' = [pc EXCEPT ![r] = statement]
    /\ held' = [held EXCEPT ![r] = keep]
    /\ UNCHANGED <<job, answer, earlier>>

Answer(r, what) ==
    /\ pc' = [pc EXCEPT ![r] = "answered"]
    /\ held' = [held EXCEPT ![r] = Nothing]
    /\ answer' = [answer EXCEPT ![r] = what]
    /\ UNCHANGED <<job, earlier>>

\* A statement fails for a reason of the database's own, a lost connection say:
\* the handler throws.
StatementFails(r) == InProgress(r) /\ Answer(r, "error")

\* Were q and r in progress at once?  Rows that were there first overlap nobody.
Overlap(q, r) ==
    /\ {q, r} \subseteq Requests
    /\ q # r
    /\ pc[q] # "idle" /\ pc[r] # "idle"
    /\ q \notin earlier[r] /\ r \notin earlier[q]

HttpTypeOK ==
    /\ answer \in [Requests -> Answers]
    /\ earlier \in [Requests -> SUBSET Requests]
    /\ \A r \in Requests :
          /\ answer[r] # "none" <=> pc[r] = "answered"
          /\ job[r] = Nothing <=> pc[r] = "idle"
          /\ ~InProgress(r) => held[r] = Nothing
          /\ earlier[r] \subseteq Answered
=============================================================================
