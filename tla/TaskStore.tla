------------------------------ MODULE TaskStore ------------------------------
(***************************************************************************)
(* The tasks table of the SQLite store (src/internal/store) as the queue   *)
(* package uses it for the review_pr tasks of one pull request.            *)
(*                                                                         *)
(* A task is identified by its delivery id: the unique index on            *)
(* (delivery_id, task_type) allows one row per delivery.  The columns kept *)
(* are those some decision of the program reads: status, whether asynq_id  *)
(* is set, and created_at, as a logical time.                              *)
(* The store has a single connection, so every statement is one step; a    *)
(* read followed by a write is two, and UpdateTask writes back the whole   *)
(* row the caller holds, whatever happened to it in between.               *)
(***************************************************************************)
EXTENDS Naturals

CONSTANTS
  Tasks,        \* deliveries of "opened"/"synchronized" events of one PR
  StoreFaults   \* TRUE: a write may fail (busy database, expired context)

ASSUME StoreFaultsAssumption == StoreFaults \in BOOLEAN

VARIABLE row

Status == {"pending", "queued", "running", "succeeded", "failed",
           "retrying", "cancelled"}

\* NewRow is the row of a delivery nobody has stored; its status is no Status.
NewRow == [status |-> "absent", asynqID |-> FALSE, created |-> 0]

Row == [status : Status \cup {"absent"}, asynqID : BOOLEAN, created : Nat]

Stored(t) == row[t].status # "absent"

Terminal == {"succeeded", "failed", "cancelled"}

-----------------------------------------------------------------------------
\* CreateTask: INSERT, refused by the unique delivery index.
CreateTask(t, rec) == ~Stored(t) /\ row' = [row EXCEPT ![t] = rec]

\* UpdateTask: UPDATE of every column by id, without a condition on status.
UpdateTask(t, rec) == row' = [row EXCEPT ![t] = rec]

\* A write whose error the caller only logs.
TryUpdateTask(t, rec) ==
  \/ UpdateTask(t, rec)
  \/ StoreFaults /\ UNCHANGED row

\* Mutant: failed tasks are taken for active ones.
ActiveOrFailedPRTasks ==
  {t \in Tasks : row[t].status \in {"pending", "queued", "running", "failed"}}

\* FindActivePRTasks: the rows a newer review of the PR replaces.
ActivePRTasks == {t \in Tasks : row[t].status \in {"pending", "queued", "running"}}

\* Mutant: a task counts as newer than itself (created_at >= ?).
HasReviewTask(t) ==
  \E u \in Tasks : /\ row[u].status \notin {"absent", "cancelled", "failed"}
                   /\ row[u].created >= row[t].created

\* HasNewerReviewTask: a later review that has not been cancelled or failed.
HasNewerReviewTask(t) ==
  \E u \in Tasks : /\ row[u].status \notin {"absent", "cancelled", "failed"}
                   /\ row[u].created > row[t].created

\* Mutant: queued tasks are taken for orphans.
PendingOrQueuedTasks == {t \in Tasks : row[t].status \in {"pending", "queued"}}

\* Mutant: only rows with an asynq id are taken for orphans.
PendingTasksInAsynq == {t \in Tasks : row[t].status = "pending" /\ row[t].asynqID}

\* ListOrphanTasks, the age condition aside (see TaskLifecycle!Aged).
PendingTasks == {t \in Tasks : row[t].status = "pending"}

\* A list of rows read earlier: the rows of S, NewRow for the others.
RowsOf(S) == [t \in Tasks |-> IF t \in S THEN row[t] ELSE NewRow]

Listed(rows) == {t \in Tasks : rows[t].status # "absent"}

\* The lists are ordered by created_at.
OldestListed(rows, t) ==
  /\ t \in Listed(rows)
  /\ \A u \in Listed(rows) : rows[t].created <= rows[u].created

=============================================================================
