---------------------------- MODULE TaskLifecycle ----------------------------
(***************************************************************************)
(* The life of the review_pr tasks of one pull request, across             *)
(*   - the webhook handlers (EnqueueHandler): persist, enqueue, then       *)
(*     cancel the reviews the new one replaces;                            *)
(*   - the asynq workers running Processor.ProcessTask;                    *)
(*   - the RecoveryLoop that re-enqueues orphaned pending rows;            *)
(*   - RetryTask, called by the REST API and by the CLI;                   *)
(*   - shutdown, crash and restart of the server process.                  *)
(* They share the tasks table (TaskStore) and the asynq queue              *)
(* (AsynqQueue) and nothing else: every actor works on the rows it read    *)
(* earlier and writes them back whole.                                     *)
(***************************************************************************)
EXTENDS TaskStore, AsynqQueue

CONSTANTS
  NoTask,         \* the task of an actor that works on none
  Handlers,       \* webhook requests served at the same time
  Workers,        \* asynq concurrency
  MaxDeliveries,  \* bound: how often Gitea delivers one event
  MaxManual,      \* bound: calls of RetryTask
  MaxRestarts,    \* bound: crashes and shutdowns of the server
  SlowHandlers,   \* TRUE: a webhook request may outlive the orphan age (120s)
  LateHandlers    \* TRUE: a handler whose context ended may outlive the
                  \* retry delay (30s and more)

ASSUME LifecycleAssumption ==
  /\ NoTask \notin Tasks
  /\ MaxDeliveries \in Nat /\ MaxManual \in Nat /\ MaxRestarts \in Nat
  /\ SlowHandlers \in BOOLEAN /\ LateHandlers \in BOOLEAN

VARIABLES
  clock,      \* logical time.Now()
  delivered,  \* [Tasks -> deliveries received so far]
  handler,    \* [Handlers -> a webhook request's progress]
  worker,     \* [Workers -> a ProcessTask call's progress]
  recovery,   \* the RecoveryLoop's progress through its list of orphans
  attempts,   \* recoveryAttempts, in memory
  manual,     \* a RetryTask call's progress
  manuals,    \* RetryTask calls so far
  phase,      \* "up" or "stopping"
  restarts    \* restarts so far

handlerVars == <<clock, delivered, handler>>
recoveryVars == <<recovery, attempts>>
manualVars == <<manual, manuals>>
processVars == <<phase, restarts>>
vars == <<row, entry, handlerVars, worker, recoveryVars, manualVars,
          processVars>>

-----------------------------------------------------------------------------
HandlerPC == {"idle", "list", "stamp", "create", "enqueue", "mark", "cancel",
              "cancelWrite"}
WorkerPC == {"idle", "load", "start", "enabled", "exec", "check", "publish", "final",
             "ack"}
RecoveryPC == {"idle", "requeue", "mark"}
ManualPC == {"idle", "enqueue", "mark"}
Verdict == {"nil", "err", "skip"}

NoRows == [t \in Tasks |-> NewRow]
IdleHandler == [pc |-> "idle", task |-> NoTask, stamp |-> 0, old |-> NoRows]
IdleWorker == [pc |-> "idle", task |-> NoTask, retried |-> 0, rec |-> NewRow,
               verdict |-> "nil", cancelled |-> FALSE, detached |-> FALSE]
IdleRecovery == [pc |-> "idle", todo |-> NoRows]
IdleManual == [pc |-> "idle", task |-> NoTask, rec |-> NewRow]

MaybeTask == Tasks \cup {NoTask}

HandlerState == [pc : HandlerPC, task : MaybeTask, stamp : Nat, old : [Tasks -> Row]]
WorkerState == [pc : WorkerPC, task : MaybeTask, retried : 0..MaxRetry, rec : Row,
                verdict : Verdict, cancelled : BOOLEAN, detached : BOOLEAN]

StoreTypeOK == row \in [Tasks -> Row] /\ entry \in [Tasks -> Entry]

HandlersTypeOK ==
  /\ clock \in Nat
  /\ delivered \in [Tasks -> Nat]
  /\ handler \in [Handlers -> HandlerState]
  /\ \A h \in Handlers : handler[h].pc # "idle" => handler[h].task \in Tasks

WorkersTypeOK ==
  /\ worker \in [Workers -> WorkerState]
  /\ \A w \in Workers : worker[w].pc # "idle" => worker[w].task \in Tasks

RecoveryTypeOK ==
  /\ recovery \in [pc : RecoveryPC, todo : [Tasks -> Row]]
  /\ attempts \in [Tasks -> Nat]

ManualTypeOK ==
  /\ manual \in [pc : ManualPC, task : MaybeTask, rec : Row]
  /\ manual.pc # "idle" => manual.task \in Tasks
  /\ manuals \in Nat

ProcessTypeOK == phase \in {"up", "stopping"} /\ restarts \in Nat

\* Every variable has its type, and an actor that is not idle has a task.
TypeOK ==
  /\ StoreTypeOK
  /\ HandlersTypeOK
  /\ WorkersTypeOK
  /\ RecoveryTypeOK
  /\ ManualTypeOK
  /\ ProcessTypeOK

Init ==
  /\ row = NoRows
  /\ entry = [t \in Tasks |-> NoEntry]
  /\ clock = 0
  /\ delivered = [t \in Tasks |-> 0]
  /\ handler = [h \in Handlers |-> IdleHandler]
  /\ worker = [w \in Workers |-> IdleWorker]
  /\ recovery = IdleRecovery
  /\ attempts = [t \in Tasks |-> 0]
  /\ manual = IdleManual
  /\ manuals = 0
  /\ phase = "up"
  /\ restarts = 0

-----------------------------------------------------------------------------
(***************************************************************************)
(* The webhook handler: handleReviewPullRequest, enqueueTask, cancelTasks. *)
(***************************************************************************)
HandlerAt(h, pc) == handler[h].pc = pc

HandlerGo(h, pc) == handler' = [handler EXCEPT ![h].pc = pc]

\* After enqueueTask: cancel what the list holds, or return.
GoCancel(h) ==
  handler' = [handler EXCEPT ![h] =
                IF Listed(@.old) = {} THEN IdleHandler ELSE [@ EXCEPT !.pc = "cancel"]]

\* cancelTasks goes on to the next listed task, or returns.
DropListed(h, t) ==
  LET old == [handler[h].old EXCEPT ![t] = NewRow] IN
  handler' = [handler EXCEPT ![h] =
                IF Listed(old) = {} THEN IdleHandler
                ELSE [@ EXCEPT !.pc = "cancel", !.old = old]]

\* The idempotence check: a stored delivery is skipped.
Receive(h, t) ==
  /\ phase = "up"
  /\ HandlerAt(h, "idle")
  /\ delivered[t] < MaxDeliveries
  /\ delivered' = [delivered EXCEPT ![t] = @ + 1]
  /\ IF Stored(t) THEN UNCHANGED handler
     ELSE handler' = [handler EXCEPT ![h] = [@ EXCEPT !.pc = "list", !.task = t]]
  /\ UNCHANGED <<row, entry, clock, worker, recoveryVars, manualVars,
                 processVars>>

\* listActivePRTasks, before the new task exists; a failed query lists nothing.
ListActive(h) ==
  /\ HandlerAt(h, "list")
  /\ \E S \in {ActivePRTasks} \cup (IF StoreFaults THEN {{}} ELSE {}) :
       handler' = [handler EXCEPT ![h].pc = "stamp", ![h].old = RowsOf(S)]
  /\ UNCHANGED <<row, entry, clock, delivered, worker, recoveryVars, manualVars,
                 processVars>>

\* Mutant: enqueued first, persisted by the queued write.
StampThenEnqueue(h) ==
  /\ HandlerAt(h, "stamp")
  /\ clock' = clock + 1
  /\ handler' = [handler EXCEPT ![h].pc = "enqueue", ![h].stamp = clock + 1]
  /\ UNCHANGED <<row, entry, delivered, worker, recoveryVars, manualVars,
                 processVars>>

\* enqueueTask takes created_at before it inserts the row.
Stamp(h) ==
  /\ HandlerAt(h, "stamp")
  /\ clock' = clock + 1
  /\ handler' = [handler EXCEPT ![h].pc = "create", ![h].stamp = clock + 1]
  /\ UNCHANGED <<row, entry, delivered, worker, recoveryVars, manualVars,
                 processVars>>

PendingRow(created) ==
  [status |-> "pending", asynqID |-> FALSE, created |-> created]

QueuedRow(rec) == [rec EXCEPT !.status = "queued", !.asynqID = TRUE]

\* CreateTask; an error, the unique index among them, ends the request before
\* anything is enqueued or cancelled.
Create(h) ==
  /\ HandlerAt(h, "create")
  /\ \/ /\ CreateTask(handler[h].task, PendingRow(handler[h].stamp))
        /\ HandlerGo(h, "enqueue")
     \/ /\ StoreFaults \/ Stored(handler[h].task)
        /\ handler' = [handler EXCEPT ![h] = IdleHandler]
        /\ UNCHANGED row
  /\ UNCHANGED <<entry, clock, delivered, worker, recoveryVars, manualVars,
                 processVars>>

\* Client.Enqueue; on any error the row stays pending and the request goes on.
Enqueue(h) ==
  /\ HandlerAt(h, "enqueue")
  /\ \/ Accept(handler[h].task) /\ HandlerGo(h, "mark")
     \/ /\ Conflict(handler[h].task) \/ (CallFails /\ UNCHANGED entry)
        /\ GoCancel(h)
  /\ UNCHANGED <<row, clock, delivered, worker, recoveryVars, manualVars,
                 processVars>>

\* The row is written as the handler created it, with status queued.
MarkQueued(h) ==
  /\ HandlerAt(h, "mark")
  /\ TryUpdateTask(handler[h].task, QueuedRow(PendingRow(handler[h].stamp)))
  /\ GoCancel(h)
  /\ UNCHANGED <<entry, clock, delivered, worker, recoveryVars, manualVars,
                 processVars>>

\* CancelProcessing: the context of whoever runs t in this process is cancelled.
CancelContext(t) ==
  worker' = [w \in Workers |->
               IF worker[w].pc # "idle" /\ worker[w].task = t /\ ~worker[w].detached
               THEN [worker[w] EXCEPT !.cancelled = TRUE] ELSE worker[w]]

\* cancelTask decides on the status it listed, not on the current one.
CancelInQueue(h, t) ==
  LET seen == handler[h].old[t] IN
  /\ HandlerAt(h, "cancel")
  /\ OldestListed(handler[h].old, t)
  /\ \/ /\ seen.asynqID /\ seen.status \in {"pending", "queued"}
        /\ \/ CanDelete(t) /\ DeleteEntry(t) /\ HandlerGo(h, "cancelWrite")
           \/ /\ CallFails \/ ~CanDelete(t)
              /\ DropListed(h, t) /\ UNCHANGED entry
        /\ UNCHANGED worker
     \/ /\ seen.asynqID /\ seen.status = "running"
        /\ \/ CallOK /\ CancelContext(t) /\ HandlerGo(h, "cancelWrite")
           \/ CallFails /\ DropListed(h, t) /\ UNCHANGED worker
        /\ UNCHANGED entry
     \/ /\ ~seen.asynqID \/ seen.status \notin {"pending", "queued", "running"}
        /\ HandlerGo(h, "cancelWrite")
        /\ UNCHANGED <<entry, worker>>
  /\ UNCHANGED <<row, clock, delivered, recoveryVars, manualVars, processVars>>

CancelledRow(rec) == [rec EXCEPT !.status = "cancelled"]

CancelInStore(h, t) ==
  /\ HandlerAt(h, "cancelWrite")
  /\ OldestListed(handler[h].old, t)
  /\ TryUpdateTask(t, CancelledRow(handler[h].old[t]))
  /\ DropListed(h, t)
  /\ UNCHANGED <<entry, clock, delivered, worker, recoveryVars, manualVars,
                 processVars>>

HandlerStep(h) ==
  \/ ListActive(h) \/ Stamp(h) \/ Create(h) \/ Enqueue(h) \/ MarkQueued(h)
  \/ \E t \in Tasks : CancelInQueue(h, t) \/ CancelInStore(h, t)

-----------------------------------------------------------------------------
(***************************************************************************)
(* The asynq worker: Processor.ProcessTask.  A worker is detached once     *)
(* asynq has stopped waiting for its handler: the entry has been dealt     *)
(* with, the handler goes on and its return value is ignored.              *)
(***************************************************************************)
WorkerAt(w, pc) == worker[w].pc = pc

WorkerGo(w, pc) == worker' = [worker EXCEPT ![w].pc = pc]

\* The handler has settled on a final row and on what it returns to asynq.
Decide(w, pc, rec, verdict) ==
  worker' = [worker EXCEPT ![w] =
               [@ EXCEPT !.pc = pc, !.rec = rec, !.verdict = verdict]]

WithStatus(w, status) == [worker[w].rec EXCEPT !.status = status]

\* A statement under the handler's context: it fails once the context is done,
\* may fail on a busy database or as the cancellation arrives.
QueryMayWork(w) == ~worker[w].detached
QueryMayFail(w) == StoreFaults \/ worker[w].cancelled \/ worker[w].detached

\* Mutant: one retry more than asynq makes.
ShouldRetryOnceMore(w) == worker[w].retried <= MaxRetry

ShouldRetry(w) == worker[w].retried < MaxRetry - 1

Holds(w, t) == worker[w].pc # "idle" /\ worker[w].task = t
Attached(w, t) == Holds(w, t) /\ ~worker[w].detached

\* asynq starts the handler.  Unless LateHandlers, a handler asynq no longer
\* waits for has returned before the retry delay is over.
Deliver(w, t) ==
  /\ phase = "up"
  /\ WorkerAt(w, "idle")
  /\ LateHandlers \/ \A v \in Workers : ~Holds(v, t)
  /\ Dequeue(t)
  /\ worker' = [worker EXCEPT ![w] = [IdleWorker EXCEPT
                  !.pc = "load", !.task = t, !.retried = entry[t].retried]]
  /\ UNCHANGED <<row, handlerVars, recoveryVars, manualVars, processVars>>

\* findRecord, and the check for a task cancelled while it was queued.
Load(w) ==
  LET t == worker[w].task IN
  /\ WorkerAt(w, "load")
  /\ \/ /\ ~Stored(t) \/ QueryMayFail(w)
        /\ Decide(w, "ack", worker[w].rec, "err")
     \/ /\ QueryMayWork(w) /\ row[t].status = "cancelled"
        /\ Decide(w, "ack", row[t], "skip")
     \/ /\ QueryMayWork(w) /\ Stored(t) /\ row[t].status # "cancelled"
        /\ Decide(w, "start", row[t], "nil")
  /\ UNCHANGED <<row, entry, handlerVars, recoveryVars, manualVars,
                 processVars>>

\* The running write; when it fails the handler goes on regardless.
Start(w) ==
  /\ WorkerAt(w, "start")
  /\ \/ QueryMayWork(w) /\ UpdateTask(worker[w].task, WithStatus(w, "running"))
     \/ QueryMayFail(w) /\ UNCHANGED row
  /\ Decide(w, "enabled", WithStatus(w, "running"), "nil")
  /\ UNCHANGED <<entry, handlerVars, recoveryVars, manualVars, processVars>>

\* Reviews are enabled for the repository, or the task is done; this one final
\* write is under the handler's context.
CheckEnabled(w) ==
  LET done == WithStatus(w, "succeeded") IN
  /\ WorkerAt(w, "enabled")
  /\ \/ WorkerGo(w, "exec") /\ UNCHANGED row
     \/ /\ \/ QueryMayWork(w) /\ UpdateTask(worker[w].task, done)
           \/ QueryMayFail(w) /\ UNCHANGED row
        /\ Decide(w, "ack", done, "nil")
  /\ UNCHANGED <<entry, handlerVars, recoveryVars, manualVars, processVars>>

FailedOrRetrying(w) == IF ShouldRetry(w) THEN "retrying" ELSE "failed"

\* reviewService.Execute up to its write-back, and what ProcessTask makes of it.
Execute(w) ==
  /\ WorkerAt(w, "exec")
  /\ \/ \* the review is done (or is a parse failure, below)
        Decide(w, "check", WithStatus(w, "succeeded"), "nil")
     \/ \* context.Canceled
        /\ worker[w].cancelled
        /\ Decide(w, "final", WithStatus(w, "cancelled"), "skip")
     \/ \* ErrPRNotOpen, or exit code 2
        Decide(w, "final", WithStatus(w, "failed"), "skip")
     \/ \* any other error or exit code
        Decide(w, "final", WithStatus(w, FailedOrRetrying(w)), "err")
     \/ \* ErrParseFailure on the last attempt: WriteDegraded posts a comment
        /\ ~ShouldRetry(w)
        /\ Decide(w, "check", WithStatus(w, "failed"), "err")
  /\ UNCHANGED <<row, entry, handlerVars, recoveryVars, manualVars,
                 processVars>>

\* Writer.Write, the staleness check; a failing query lets the review through.
CheckStale(w) ==
  /\ WorkerAt(w, "check")
  /\ \/ /\ QueryMayWork(w) /\ HasNewerReviewTask(worker[w].task)
        /\ Decide(w, "final", WithStatus(w, "cancelled"), "skip")
     \/ /\ ~HasNewerReviewTask(worker[w].task) \/ QueryMayFail(w)
        /\ WorkerGo(w, "publish")
  /\ UNCHANGED <<row, entry, handlerVars, recoveryVars, manualVars,
                 processVars>>

\* CreatePullReview.  The program does not read the review back, and a failure
\* is kept in the result without a change of status.
Publish(w) ==
  /\ WorkerAt(w, "publish")
  /\ WorkerGo(w, "final")
  /\ UNCHANGED <<row, entry, handlerVars, recoveryVars, manualVars,
                 processVars>>

\* Mutant: the final write under the handler's context.
WriteFinalInContext(w) ==
  /\ WorkerAt(w, "final")
  /\ \/ QueryMayWork(w) /\ UpdateTask(worker[w].task, worker[w].rec)
     \/ QueryMayFail(w) /\ UNCHANGED row
  /\ WorkerGo(w, "ack")
  /\ UNCHANGED <<entry, handlerVars, recoveryVars, manualVars, processVars>>

\* The final write, under a context of its own.
WriteFinal(w) ==
  /\ WorkerAt(w, "final")
  /\ TryUpdateTask(worker[w].task, worker[w].rec)
  /\ WorkerGo(w, "ack")
  /\ UNCHANGED <<entry, handlerVars, recoveryVars, manualVars, processVars>>

\* The handler returns; asynq heeds it unless the worker is detached.
Ack(w) ==
  /\ WorkerAt(w, "ack")
  /\ IF worker[w].detached THEN UNCHANGED entry
     ELSE Settle(worker[w].task, worker[w].verdict)
  /\ worker' = [worker EXCEPT ![w] = IdleWorker]
  /\ UNCHANGED <<row, handlerVars, recoveryVars, manualVars, processVars>>

WorkerStep(w) ==
  \/ Load(w) \/ Start(w) \/ CheckEnabled(w) \/ Execute(w) \/ CheckStale(w) \/ Publish(w)
  \/ WriteFinal(w) \/ Ack(w)

-----------------------------------------------------------------------------
(***************************************************************************)
(* asynq giving up on a handler.                                           *)
(***************************************************************************)
LetGo(w, cancelled) ==
  /\ worker[w].pc # "idle" /\ ~worker[w].detached
  /\ worker' = [worker EXCEPT ![w].detached = TRUE, ![w].cancelled = cancelled]

\* The handler's context is done: by CancelProcessing, or by the task's timeout
\* of minutes, which the statements before the review do not use up.
ContextDone(w) ==
  /\ worker[w].cancelled \/ worker[w].pc \notin {"load", "start", "enabled"}
  /\ LetGo(w, worker[w].cancelled)
  /\ RetryOrArchive(worker[w].task)
  /\ UNCHANGED <<row, handlerVars, recoveryVars, manualVars, processVars>>

\* The lease could not be extended: the handler's context is cancelled and the
\* entry stays active until asynq's recoverer finds it.
LoseLease(w) ==
  /\ CallFails
  /\ LetGo(w, TRUE)
  /\ UNCHANGED <<row, entry, handlerVars, recoveryVars, manualVars,
                 processVars>>

\* asynq's recoverer: an active entry nobody keeps alive.
ReclaimLease(t) ==
  /\ entry[t].state = "active"
  /\ \A w \in Workers : ~Attached(w, t)
  /\ RetryOrArchive(t)
  /\ UNCHANGED <<row, handlerVars, worker, recoveryVars, manualVars,
                 processVars>>

-----------------------------------------------------------------------------
(***************************************************************************)
(* The RecoveryLoop.                                                       *)
(***************************************************************************)
\* created_at is older than maxAge.
Aged(t) ==
  SlowHandlers \/ \A h \in Handlers :
                    ~(handler[h].task = t /\ handler[h].pc \in {"enqueue", "mark"})

Orphans == {t \in PendingTasks : Aged(t)}

RecoveryAt(pc, t) == recovery.pc = pc /\ OldestListed(recovery.todo, t)

\* requeue is done with t; the loop goes on, or waits for the next tick.
NextOrphan(t) ==
  LET todo == [recovery.todo EXCEPT ![t] = NewRow] IN
  recovery' = [pc |-> IF Listed(todo) = {} THEN "idle" ELSE "requeue", todo |-> todo]

Scan ==
  /\ recovery.pc = "idle"
  /\ Orphans # {}
  /\ recovery' = [pc |-> "requeue", todo |-> RowsOf(Orphans)]
  /\ UNCHANGED <<row, entry, handlerVars, worker, attempts, manualVars,
                 processVars>>

\* The limit is on this process's count, not on the row's retry_count.
GiveUp(t) ==
  /\ \/ /\ UpdateTask(t, [recovery.todo[t] EXCEPT !.status = "failed"])
        /\ attempts' = [attempts EXCEPT ![t] = 0]
     \/ StoreFaults /\ UNCHANGED <<row, attempts>>
  /\ NextOrphan(t)
  /\ UNCHANGED entry

\* A TaskID conflict counts as success; any other error ends requeue.
Reenqueue(t) ==
  /\ \/ /\ Accept(t) \/ Conflict(t)
        /\ recovery' = [recovery EXCEPT !.pc = "mark"]
     \/ CallFails /\ NextOrphan(t) /\ UNCHANGED entry
  /\ UNCHANGED <<row, attempts>>

RequeueOrphan(t) ==
  /\ RecoveryAt("requeue", t)
  /\ IF attempts[t] >= MaxRetry THEN GiveUp(t) ELSE Reenqueue(t)
  /\ UNCHANGED <<handlerVars, worker, manualVars, processVars>>

MarkOrphan(t) ==
  /\ RecoveryAt("mark", t)
  /\ \/ /\ UpdateTask(t, QueuedRow(recovery.todo[t]))
        /\ attempts' = [attempts EXCEPT ![t] = @ + 1]
     \/ StoreFaults /\ UNCHANGED <<row, attempts>>
  /\ NextOrphan(t)
  /\ UNCHANGED <<entry, handlerVars, worker, manualVars, processVars>>

RecoveryStep ==
  \/ Scan
  \/ \E t \in Tasks : RequeueOrphan(t) \/ MarkOrphan(t)

-----------------------------------------------------------------------------
(***************************************************************************)
(* RetryTask, from the REST API or from the CLI's own process.             *)
(***************************************************************************)
ManualRead(t) ==
  /\ manual.pc = "idle"
  /\ manuals < MaxManual
  /\ row[t].status \in {"failed", "cancelled"}
  /\ manual' = [pc |-> "enqueue", task |-> t, rec |-> row[t]]
  /\ manuals' = manuals + 1
  /\ UNCHANGED <<row, entry, handlerVars, worker, recoveryVars, processVars>>

ManualEnqueue ==
  /\ manual.pc = "enqueue"
  /\ \/ /\ Accept(manual.task) \/ Conflict(manual.task)
        /\ manual' = [manual EXCEPT !.pc = "mark"]
     \/ /\ CallFails
        /\ manual' = IdleManual
        /\ UNCHANGED entry
  /\ UNCHANGED <<row, handlerVars, worker, recoveryVars, manuals, processVars>>

ManualMark ==
  /\ manual.pc = "mark"
  /\ TryUpdateTask(manual.task, QueuedRow(manual.rec))
  /\ manual' = IdleManual
  /\ UNCHANGED <<entry, handlerVars, worker, recoveryVars, manuals,
                 processVars>>

ManualStep == ManualEnqueue \/ ManualMark

-----------------------------------------------------------------------------
(***************************************************************************)
(* The server process.  A restart loses what it had in memory; asynq's     *)
(* entries and the rows survive.  RetryTask may run in another process.    *)
(***************************************************************************)
Restart ==
  /\ restarts < MaxRestarts
  /\ restarts' = restarts + 1
  /\ phase' = "up"
  /\ handler' = [h \in Handlers |-> IdleHandler]
  /\ worker' = [w \in Workers |-> IdleWorker]
  /\ recovery' = IdleRecovery
  /\ attempts' = [t \in Tasks |-> 0]
  /\ UNCHANGED <<row, entry, clock, delivered, manualVars>>

Crash == Restart

\* doGracefulShutdown: no new request, no new task.
Stop ==
  /\ phase = "up"
  /\ restarts < MaxRestarts
  /\ phase' = "stopping"
  /\ UNCHANGED <<row, entry, handlerVars, worker, recoveryVars, manualVars,
                 restarts>>

\* asynq's ShutdownTimeout is over: the entry goes back to the queue, the
\* handler's context is cancelled.
Abort(w) ==
  /\ phase = "stopping"
  /\ LetGo(w, TRUE)
  /\ Requeue(worker[w].task)
  /\ UNCHANGED <<row, handlerVars, recoveryVars, manualVars, processVars>>

Exit ==
  /\ phase = "stopping"
  /\ \A w \in Workers : WorkerAt(w, "idle") \/ worker[w].detached
  /\ Restart

-----------------------------------------------------------------------------
Next ==
  \/ \E h \in Handlers : HandlerStep(h) \/ \E t \in Tasks : Receive(h, t)
  \/ \E w \in Workers : \/ WorkerStep(w) \/ ContextDone(w) \/ LoseLease(w) \/ Abort(w)
                        \/ \E t \in Tasks : Deliver(w, t)
  \/ \E t \in Tasks : ReclaimLease(t) \/ ManualRead(t)
  \/ RecoveryStep
  \/ ManualStep
  \/ Crash \/ Stop \/ Exit

Spec == Init /\ [][Next]_vars

\* What the program and asynq do by themselves; not Gitea's deliveries, a
\* user's RetryTask, a context ending, a lost lease, a crash or a shutdown.
\* A call that fails again and again but not always succeeds some time (SF).
Fairness ==
  /\ \A h \in Handlers : WF_vars(HandlerStep(h))
  /\ \A w \in Workers : WF_vars(WorkerStep(w))
  /\ \A t \in Tasks : /\ WF_vars(\E w \in Workers : Deliver(w, t))
                      /\ WF_vars(ReclaimLease(t))
                      /\ SF_vars(RequeueOrphan(t) /\ recovery'.pc = "mark")
  /\ WF_vars(RecoveryStep)
  /\ WF_vars(ManualStep)
  /\ WF_vars(Exit)

FairSpec == Spec /\ Fairness

-----------------------------------------------------------------------------
(***************************************************************************)
(* Properties.                                                             *)
(***************************************************************************)
\* No actor works on t or has a copy of its row.
Quiet(t) ==
  /\ \A h \in Handlers : handler[h].task # t /\ t \notin Listed(handler[h].old)
  /\ \A w \in Workers : ~Holds(w, t)
  /\ t \notin Listed(recovery.todo)
  /\ manual.task # t

\* enqueueTask persists before it enqueues: whatever fails, findRecord finds a
\* row for every task asynq delivers.
RowBeforeEntry == \A t \in Tasks : entry[t].state # "none" => Stored(t)

\* The TaskID shared by enqueueTask, requeue and RetryTask keeps asynq from
\* having two handlers of one task that it still waits for, through retries,
\* lost leases, aborts and restarts.
OneHandlerPerTask ==
  \A t \in Tasks, w \in Workers :
    Attached(w, t) =>
      /\ entry[t].state = "active"
      /\ worker[w].retried = entry[t].retried
      /\ \A v \in Workers \ {w} : ~Attached(v, t)

Superseded(t) == \E u \in Tasks : Stored(u) /\ row[u].created > row[t].created

\* cancelTask and ErrStaleReview: a review is cancelled only for a newer one,
\* so the newest review of the pull request is never cancelled.
CancelledIsSuperseded ==
  \A t \in Tasks : row[t].status = "cancelled" => Superseded(t)

\* A row left "retrying" by a failed attempt has its next attempt in asynq:
\* shouldRetry never promises a retry asynq will not make.  (A timeout, whose
\* retry a newer review deletes, may be followed by a late final write; the
\* row it leaves is that of a replaced review.)
RetryingIsScheduled ==
  \A t \in Tasks : row[t].status = "retrying" /\ Quiet(t) =>
    entry[t].state \in {"waiting", "active"} \/ Superseded(t)

\* The RecoveryLoop re-enqueues a task at most once: nothing writes "pending"
\* back over the "queued" it leaves, so the count that requeue compares with
\* max_retry never gets there and a task that cannot be enqueued is never
\* given up.
RecoveredOnce == \A t \in Tasks : attempts[t] <= 1

Settled(t) == /\ row[t].status \in Terminal
              /\ entry[t].state \in {"none", "archived"}
              /\ Quiet(t)

\* A settled task stays settled, whatever Gitea delivers again and whatever
\* the RecoveryLoop, asynq and other reviews do, unless a user retries it.
SettledUnlessRetried ==
  [][\A t \in Tasks : Settled(t) => Settled(t)' \/ manual'.task = t]_vars

\* The RecoveryLoop's promise: a task whose enqueueing failed, or whose server
\* died before enqueueing it, is executed or replaced some time.
PendingEnds ==
  \A t \in Tasks : row[t].status = "pending" ~> row[t].status # "pending"

\* While the server lives, a review that was begun succeeds, fails or is replaced
\* in the store as well: retries end, and the final write of an execution that
\* timed out is made all the same (processor.go:213-222, 605-622).
ExecutionsEnd ==
  \A t \in Tasks :
    row[t].status \in {"running", "retrying"}
      ~> row[t].status \notin {"running", "retrying"} \/ Superseded(t)

-----------------------------------------------------------------------------
(***************************************************************************)
(* The inductive invariants behind the theorems of TaskLifecycle_proofs.   *)
(***************************************************************************)
\* Whoever is about to enqueue a task has seen its row, or written it.
EnqueuersHaveRow ==
  /\ \A h \in Handlers : handler[h].pc = "enqueue" => Stored(handler[h].task)
  /\ \A t \in Listed(recovery.todo) : Stored(t)
  /\ manual.pc # "idle" => Stored(manual.task)

\* No worker is about to write a row back to where it started from.
FinalIsNoStart ==
  \A w \in Workers : worker[w].pc \in {"check", "publish", "final"} =>
    worker[w].rec.status \in {"succeeded", "failed", "cancelled", "retrying"}

\* A recovered row is never pending again, nor on the loop's list.
RecoveredIsNotPending ==
  \A t \in Tasks : attempts[t] > 0 =>
    row[t].status \notin {"absent", "pending"} /\ t \notin Listed(recovery.todo)

\* Holds whatever fails: the inductive invariant for RowBeforeEntry,
\* OneHandlerPerTask and RecoveredOnce together.
IInv ==
  /\ TypeOK
  /\ RowBeforeEntry
  /\ OneHandlerPerTask
  /\ RecoveredOnce
  /\ EnqueuersHaveRow
  /\ FinalIsNoStart
  /\ RecoveredIsNotPending

\* A copy of a row is that of a stored row and has its created_at.
CopyOf(t, rec) == Stored(t) /\ rec.created = row[t].created

CopiesAreOfStoredRows ==
  /\ \A h \in Handlers : \A t \in Listed(handler[h].old) : CopyOf(t, handler[h].old[t])
  /\ \A w \in Workers : worker[w].pc \notin {"idle", "load", "ack"} =>
       CopyOf(worker[w].task, worker[w].rec)
  /\ \A t \in Listed(recovery.todo) : CopyOf(t, recovery.todo[t])
  /\ manual.pc # "idle" => CopyOf(manual.task, manual.rec)

\* A request's task is newer than every task it is going to cancel, and is
\* stored before the first of them is cancelled.
ListedAreOlder ==
  \A h \in Handlers :
    /\ handler[h].pc \in {"create", "enqueue", "mark", "cancel", "cancelWrite"} =>
         \A t \in Listed(handler[h].old) : row[t].created < handler[h].stamp
    /\ handler[h].pc \in {"enqueue", "mark", "cancel", "cancelWrite"} =>
         Stored(handler[h].task) /\ row[handler[h].task].created = handler[h].stamp
    /\ handler[h].pc = "create" => handler[h].stamp <= clock

CreatedInThePast == \A t \in Tasks : row[t].created <= clock

\* Whoever is cancelled, or about to be, has been replaced.
CancellationsAreForNewer ==
  \A w \in Workers :
    /\ worker[w].pc # "idle" /\ worker[w].cancelled =>
         Stored(worker[w].task) /\ Superseded(worker[w].task)
    /\ worker[w].pc \notin {"idle", "load", "ack"} /\ worker[w].rec.status = "cancelled" =>
         Superseded(worker[w].task)

\* Holds while the server is not shut down and keeps its leases: the inductive
\* invariant for CancelledIsSuperseded.
CancelIInv ==
  /\ TypeOK
  /\ phase = "up"
  /\ CancelledIsSuperseded
  /\ CopiesAreOfStoredRows
  /\ ListedAreOlder
  /\ CreatedInThePast
  /\ CancellationsAreForNewer

\* The handler has told asynq, or will, to make the retry that its row promises.
Promised(w) == ShouldRetry(w) /\ worker[w].verdict = "err"

\* What a handler of a review nobody replaces has yet to do, or has done, to its
\* row: from its running write to its final one the row is not "retrying", a final
\* "retrying" is followed by an error for asynq, and once asynq has stopped
\* waiting for the handler it has scheduled the retry.
KeepsPromise(w) ==
  LET t == worker[w].task
      begun == {"enabled", "exec", "check", "publish", "final"}
  IN
  /\ worker[w].pc \in {"load", "start", "enabled"} => ~worker[w].detached
  /\ worker[w].pc \in begun => row[t].status # "retrying"
  /\ worker[w].pc \in {"check", "publish", "final"} /\ worker[w].rec.status = "retrying" =>
       Promised(w)
  /\ worker[w].pc = "ack" /\ row[t].status = "retrying" => Promised(w)
  /\ worker[w].detached /\ ShouldRetry(w) => entry[t].state = "waiting"

Replaced(t) == Stored(t) /\ Superseded(t)

\* A row left "retrying" has its retry in asynq.
RetryingHasEntry ==
  \A t \in Tasks : row[t].status = "retrying" =>
    entry[t].state \in {"waiting", "active"} \/ Replaced(t)

\* A handler that asynq no longer waits for has returned before the next begins.
OneHolderPerTask ==
  \A t \in Tasks, v, w \in Workers : Holds(v, t) /\ Holds(w, t) => v = w

ActiveIsHandled ==
  \A t \in Tasks : entry[t].state = "active" => \E w \in Workers : Attached(w, t)

PromisesKept ==
  \A w \in Workers : worker[w].pc # "idle" =>
    KeepsPromise(w) \/ Replaced(worker[w].task)

\* Holds while the server lives, keeps its leases and its store works, and no
\* handler outlives the retry delay: the inductive invariant for
\* RetryingIsScheduled.
RetryIInv ==
  /\ RetryingHasEntry
  /\ OneHolderPerTask
  /\ ActiveIsHandled
  /\ PromisesKept

=============================================================================
