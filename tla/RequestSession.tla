----------------------------- MODULE RequestSession -----------------------------
(***************************************************************************)
(* The database session of a request (libs/database/aio_orm.Session,       *)
(* middlewares/core_request.py), its after-commit callbacks, and the audit *)
(* events of the request (application/audit, events).                      *)
(*                                                                         *)
(* The handler of an audit event holds a SessionProxy.  The proxy resolves *)
(* the request session of the context its task was created in; the session *)
(* that EventBus._execute_handler opens and commits is used by nobody.     *)
(***************************************************************************)
EXTENDS Naturals, FiniteSets

CONSTANTS AuditedCalls,   \* requests whose service publishes an audit event
          Mailing,   \* requests whose service registers an after-commit mail
          PoolSize   \* connections of the pool

Requests == AuditedCalls \cup Mailing

ASSUME SessionAssumption == PoolSize \in Nat \ {0} /\ AuditedCalls \cap Mailing = {}

VARIABLES
  stage,    \* "working", "answered", "committed", "closed"
  answer,   \* "none", "ok" or "error"
  tx,       \* statements in the open transaction of the session
  conn,     \* requests whose session holds a connection
  task,     \* the audit event: "none", "scheduled", "handled", "failed"
  mail,     \* the callback: "none", "registered", "due", "sent"
  rows      \* committed rows

sessionVars == <<stage, answer, tx, conn, task, mail, rows>>

-----------------------------------------------------------------------------
(* The session.                                                            *)

\* A connection is acquired when a statement finds none, after a close too.
_ensure_connection(r) ==
  /\ r \notin conn => Cardinality(conn) < PoolSize
  /\ conn' = conn \cup {r}

Execute(r, row) ==
  /\ _ensure_connection(r)
  /\ tx' = [tx EXCEPT ![r] = @ \cup {row}]

\* Mutation: callbacks survive the rollback.
RollbackKeepsMail(r) ==
  /\ tx' = [tx EXCEPT ![r] = {}]
  /\ UNCHANGED mail

\* Callbacks that wait for the commit are dropped; those it already owes run.
Rollback(r) ==
  /\ tx' = [tx EXCEPT ![r] = {}]
  /\ mail' = [mail EXCEPT ![r] = IF @ = "registered" THEN "none" ELSE @]

-----------------------------------------------------------------------------
(* A request.                                                              *)

write(r) ==
  /\ stage[r] = "working" /\ answer[r] = "none"
  /\ "write" \notin tx[r]
  /\ Execute(r, "write")
  /\ UNCHANGED <<stage, answer, task, mail, rows>>

add_after_commit(r) ==
  /\ r \in Mailing /\ stage[r] = "working" /\ "write" \in tx[r]
  /\ mail[r] = "none"
  /\ mail' = [mail EXCEPT ![r] = "registered"]
  /\ UNCHANGED <<stage, answer, tx, conn, task, rows>>

\* publish_in_background: a task with a copy of the request's context.
create_log(r) ==
  /\ r \in AuditedCalls /\ stage[r] = "working" /\ "write" \in tx[r]
  /\ task[r] = "none"
  /\ task' = [task EXCEPT ![r] = "scheduled"]
  /\ UNCHANGED <<stage, answer, tx, conn, mail, rows>>

AnswerOk(r) ==
  /\ stage[r] = "working"
  /\ answer' = [answer EXCEPT ![r] = "ok"]
  /\ stage' = [stage EXCEPT ![r] = "answered"]
  /\ UNCHANGED <<tx, conn, task, mail, rows>>

\* Mutation: the handler answers and leaves the transaction to the middleware.
AnswerErrorUncleared(r) ==
  /\ stage[r] = "working"
  /\ answer' = [answer EXCEPT ![r] = "error"]
  /\ stage' = [stage EXCEPT ![r] = "answered"]
  /\ UNCHANGED <<tx, conn, task, mail, rows>>

\* A refused request, a failed statement or no connection within a minute:
\* rolled back by the statement, the exception handler or the middleware.
AnswerError(r) ==
  /\ stage[r] = "working"
  /\ Rollback(r)
  /\ answer' = [answer EXCEPT ![r] = "error"]
  /\ stage' = [stage EXCEPT ![r] = "answered"]
  /\ UNCHANGED <<conn, task, rows>>

\* The middleware commits every answer, an error answer too.
Commit(r) ==
  /\ stage[r] = "answered"
  /\ rows' = rows \cup {<<r, row>> : row \in tx[r]}
  /\ tx' = [tx EXCEPT ![r] = {}]
  /\ mail' = [mail EXCEPT ![r] = IF @ = "registered" THEN "due" ELSE @]
  /\ stage' = [stage EXCEPT ![r] = "committed"]
  /\ UNCHANGED <<answer, conn, task>>

\* The commit fails: the client sees an error, close rolls back.
CommitFails(r) ==
  /\ stage[r] = "answered" /\ tx[r] # {}
  /\ Rollback(r)
  /\ conn' = conn \ {r}
  /\ answer' = [answer EXCEPT ![r] = "error"]
  /\ stage' = [stage EXCEPT ![r] = "closed"]
  /\ UNCHANGED <<task, rows>>

RunCallback(r) ==
  /\ mail[r] = "due"
  /\ mail' = [mail EXCEPT ![r] = "sent"]
  /\ UNCHANGED <<stage, answer, tx, conn, task, rows>>

\* close rolls back and returns the connection.
Close(r) ==
  /\ stage[r] = "committed" /\ mail[r] # "due"
  /\ Rollback(r)
  /\ conn' = conn \ {r}
  /\ stage' = [stage EXCEPT ![r] = "closed"]
  /\ UNCHANGED <<answer, task, rows>>

-----------------------------------------------------------------------------
(* The background task.                                                    *)

\* The insert runs in whatever transaction the request's session has open, or
\* opens one.
handle(r) ==
  /\ task[r] = "scheduled"
  /\ Execute(r, "audit")
  /\ task' = [task EXCEPT ![r] = "handled"]
  /\ UNCHANGED <<stage, answer, mail, rows>>

\* A failed statement rolls back the session's transaction.
handle_fails(r) ==
  /\ task[r] = "scheduled"
  /\ Rollback(r)
  /\ task' = [task EXCEPT ![r] = "failed"]
  /\ UNCHANGED <<stage, answer, conn, rows>>

-----------------------------------------------------------------------------
SessionInit ==
  /\ stage = [r \in Requests |-> "working"]
  /\ answer = [r \in Requests |-> "none"]
  /\ tx = [r \in Requests |-> {}]
  /\ conn = {}
  /\ task = [r \in Requests |-> "none"]
  /\ mail = [r \in Requests |-> "none"]
  /\ rows = {}

RequestStep(r) ==
  \/ write(r) \/ add_after_commit(r) \/ create_log(r)
  \/ AnswerOk(r) \/ AnswerError(r)
  \/ Commit(r) \/ CommitFails(r) \/ RunCallback(r) \/ Close(r)

SessionNext == \E r \in Requests : RequestStep(r) \/ handle(r) \/ handle_fails(r)

SessionSpec == SessionInit /\ [][SessionNext]_sessionVars

-----------------------------------------------------------------------------
(* Properties.                                                             *)

\* A mail that waits for the commit goes out only when what it announces was
\* committed, whatever fails in between (aio_orm.Session.add_after_commit).
MailFollowsCommit == \A r \in Mailing : mail[r] = "sent" => <<r, "write">> \in rows

\* A request that is answered with an error has changed nothing, although the
\* middleware commits after every answer (apps._setup_exception_handlers,
\* core_request.dispatch).
ErrorChangesNothing == \A r \in Requests : answer[r] = "error" => <<r, "write">> \notin rows

-----------------------------------------------------------------------------
(* A statement of the code's own comments that does not hold.              *)

\* EventBus._execute_handler: handler DB operations are committed or rolled
\* back and closed here.  An insert that succeeded after the request's commit
\* is rolled back by its close, or stays in a transaction nobody ends.
HandledIsLogged ==
  \A r \in AuditedCalls : task[r] = "handled" /\ stage[r] = "closed" /\ answer[r] = "ok" => <<r, "audit">> \in rows
=============================================================================
