# DTWorkflow in TLA+

DTWorkflow (`src/`, Go) turns Gitea webhooks and REST calls into tasks that run
Claude Code in Docker containers: reviews of pull requests, analyses and repairs of
issues, generated tests, E2E runs, code from documents.  This directory holds TLA+
models of it, the TLC runs that check them and the TLAPS proofs about them.

Contents: [inventory](#inventory), [plan](#plan), [the models](#the-models),
[runs](#runs), [where the code and its documents
disagree](#where-the-code-and-its-documents-disagree), [fairness](#fairness),
[proofs](#proofs), [what is not shown](#what-is-not-shown).

## Inventory

The main path of a task:

    Gitea webhook / REST API / CLI
        -> EnqueueHandler: row in SQLite ("pending"), entry in asynq (Redis), row "queued"
        -> asynq worker -> Processor.ProcessTask: row "running"
        -> a service (review, fix, test, e2e, iterate, code) -> worker.Pool -> Docker
        -> write-back to Gitea, row "succeeded"/"failed"/"retrying"/"cancelled",
           iteration loop, notification, and possibly follow-up tasks

| component | state | what makes it correct | modules |
|---|---|---|---|
| Task store (`store/sqlite.go`, `migrations.go`) | rows of `tasks`, sessions, rounds, results; the schema's version | one row per delivery and type; queries select what their callers take them for; an upgrade loses nothing | TaskStore, Migrations |
| Webhook enqueueing (`queue/enqueue.go`) | rows and entries | no event is lost, no delivery runs twice, only replaced tasks are cancelled | TaskLifecycle, Replacement |
| Processing (`queue/processor*.go`) | the record it read, asynq's retry count | the row ends as the execution did; a retrying row has a retry to come; nothing is done twice to the outside | TaskLifecycle, Execution |
| Recovery loop (`queue/recovery.go`) | `recoveryAttempts` in memory | every pending row is executed some time, once | TaskLifecycle |
| Manual retry (`queue/retry.go`) | none | what it reports as queued is queued | TaskLifecycle |
| asynq (external; `queue/client.go`, `options.go`) | entries per TaskID | - | AsynqQueue |
| Review service and write-back (`review/`) | the published review | outdated reviews are not published; what is published is what the filters let through | ReviewService, ReviewRules |
| Fix, test, E2E, triage, code services | results, branches, pull requests, issues | order of decisions; a retry does not repeat what people see; success is delivered | FixService, TestService, E2EService, CodeService, Attempt |
| Iteration loop (`queue/*_iterate.go`, `store/iterate_session.go`, `iterate/`) | sessions and rounds | one repair at a time, rounds follow one another and are bounded | Iteration, Rounds |
| Worker pool, Docker, collector (`worker/`) | active calls, `closed`, containers by name | a running container stays with its call; shutdown waits for the calls; every call returns, and reports what happened | WorkerPool |
| Configuration (`config/`) | current configuration, watcher | an invalid file never replaces a valid configuration; a change is not missed | ConfigRules, Configuration |
| Notifications (`notify/`, `queue/processor_notify.go`, `cmd/serve_notify.go`) | cached routers | a message reaches the channels and address of its repository | Notifications |
| Accounts, keys and timeouts (`cmd/serve_deps.go`, `worker/types.go`) | none | the queue, the pool and the host agree | Accounts |
| Server and `task` command (`cmd/serve.go`, `cmd/task.go`) | what is open, phases of start and shutdown | nothing is closed in use; a signal stops the server | Server |
| Branch cleaner, change filter; webhook receiver; REST API; daily report; Gitea client; dtw client | none that the rest reads | - | not modelled |

Interactions.  The webhook handlers, the asynq workers, the recovery loop and
RetryTask share the tasks table and the asynq queue, and nothing orders them:
each works on the row it read earlier and writes it back whole
(`UPDATE ... WHERE id = ?`, no condition on status).  The processor calls the
enqueue handler for follow-up tasks (iteration rounds, reviews of generated code, triage).  asynq
talks to a handler through its context alone (timeout, cancellation by a newer
task, shutdown, lost lease), and the handler to asynq through its return value.  A handler
talks to a container through its stdin, its stdout stream and its exit.  The server and
the `task` command share the database file and migrate it, whichever comes first.

What is hard: the interleavings of these actors on one row; a cancellation
racing the task it cancels; retries counted by asynq and predicted by
`shouldRetry`; a Redis that fails between a row's insert and its entry; crash and
restart between any two writes or calls of Gitea; a handler that outlives its context; a
session read, and written back after somebody else completed it; containers whose names
collide; a shutdown that closes what is in use.  The hazards, each at its line with
the properties about it, are listed in `PROJECT.json`.

## Plan

Done, in this order: the task lifecycle (`TaskStore`, `AsynqQueue`, `TaskLifecycle`); the worker
pool; replacement of the other kinds of tasks; the iteration loop and its abstract specification
`Rounds`; the execution of every kind of task (`Execution` over five services, `ReviewRules`);
the server process over migrations, configuration, notifications and accounts.  Then the proofs:
every invariant and every action property a passing run checks is stated by a theorem, and so is
the refinement of `Rounds`.

Left, in this order:

1. The hypotheses of theorems, where less would do: `RetriesAreScheduled` excludes restarts, and
   the iteration loop's theorems every failure of two statements, instead of a session that has met one.
2. The dtw client's wait, against the lifecycle: it takes `failed` for an end.
3. `PurgeTasks` against rows whose entries are still waiting.

## The models

Six compositions, each checked as a whole:

    MCTaskLifecycle -> TaskLifecycle -> TaskStore, AsynqQueue
    MCReplacement   -> Replacement   -> TaskStore, AsynqQueue
    MCExecution     -> Execution     -> {Review,Fix,Test,Code,E2E}Service -> Attempt -> ReviewRules
    MCServer        -> Server        -> Migrations, Notifications, Accounts, Configuration -> ConfigRules
    MCWorkerPool    -> WorkerPool
    MCIteration     -> Iteration     => Rounds (refinement)

Beside them stand the modules of proofs: `TaskLifecycle_proofs` and `TaskCancellation_proofs`, which
extends it, `Replacement_proofs`, `ReviewRules_proofs` and `Execution_proofs`, which extends it,
`Server_proofs`, `WorkerPool_proofs` and `Iteration_proofs`.  The inductive invariants are
at the end of the modules they speak of, where TLC can evaluate them.

An action is a step between two points at which another actor may see or change shared state:
one SQL statement, one call of Redis, Gitea or Docker.  Operators with a comment `Mutant:`
are deliberately wrong variants, written before the operator they stand for and used by no
action.  Each property is checked to fail when such a variant replaces the original
(`mutants` in `PROJECT.json`).

### TaskStore

`row[t]` is the row of task `t`.  A task *is* a delivery of an `opened`,
`synchronized` or `reopened` event of one pull request (in `Replacement`, of any event, or a
request): the unique index on `(delivery_id, task_type)` gives a delivery one row at
most, and `findRecord` looks it up that way.  Kept are the columns some decision reads: status,
whether `asynq_id` is set, `created_at` as a logical time.  `SetMaxOpenConns(1)` makes a statement
one step; a read and a write are two.  `StoreFaults` lets every write fail, as a busy
database or an expired context makes it.  `PurgeTasks` and the limits of list queries
(100 and more rows) are left out.

### AsynqQueue

`entry[t]` is asynq's task with the TaskID `buildAsynqTaskID` gives `t`; the same whether
enqueueTask, requeue or RetryTask enqueues it.  "waiting" stands for pending,
scheduled and retry, which no call of the program tells apart; completed tasks are removed
(no retention is set), failed ones archived, and an archived entry keeps its
TaskID.  `Redis` is "up", "flaky" (any client call of the program may fail) or "down".
asynq's own operations on its entries are assumed to succeed some time.

### TaskLifecycle

| code | actions | state |
|---|---|---|
| `handleReviewPullRequest`, `listActivePRTasks` | Receive, ListActive | `handler[h]`: pc, task, created_at taken, rows listed |
| `enqueueTask` | Stamp, Create, Enqueue, MarkQueued | |
| `cancelTasks`, `cancelTask` | CancelInQueue, CancelInStore | |
| `Processor.ProcessTask` | Load, Start, CheckEnabled, Execute, WriteFinal, Ack | `worker[w]`: pc, task, asynq's count, record, verdict, context |
| `Writer.Write` | CheckStale, Publish | |
| asynq server | Deliver, ContextDone, LoseLease, ReclaimLease, Abort | `detached`: asynq no longer waits for the handler |
| `RecoveryLoop` | Scan, RequeueOrphan (Reenqueue or GiveUp), MarkOrphan | `recovery`, `attempts` |
| `RetryTask` | ManualRead, ManualEnqueue, ManualMark | `manual` |
| `runServe`, `gracefulShutdown` | Crash, Stop, Exit | `phase`, `restarts` |

Decisions worth knowing:

- A handler whose context is done (`detached`) may go on: the statements it makes under
  that context fail, the final write does not, since it has a context of its own.  asynq has by
  then scheduled the retry.  `LateHandlers` says whether such a handler may still be
  there when the retry is due, 30 seconds or more later.
- The task's timeout is of minutes; ContextDone by timeout is therefore left to the review and
  what follows it, while a cancellation may arrive at any statement.
- A lease is lost only if Redis fails (`Redis # "up"`).
- `SlowHandlers` lets the recovery loop take a task whose webhook request is still between
  insert and queued write; the loop's age of 120 seconds otherwise excludes it.
- `Execute` is everything between the running write and the write-back, reduced to the
  status and the verdict it leads to; `Execution` has it call by call.
- `Publish` changes no shared state of the program: `giteaReviewID` is never read back.
- Stop stands for the first two shutdown layers; the recovery loop, which is cancelled only
  in the third, and running handlers go on until Exit.  `asynq.Config` sets no ShutdownTimeout, so asynq
  aborts handlers after its default of 8 seconds: Abort.
- `handleReviewPullRequest` is modelled for a pull request without an
  iteration session and outside `auto-test/` branches; `Iteration` has the other.

### Replacement

Every other request of `EnqueueHandler`: issue labels, merged pull requests (tests per module
and framework, E2E regression with triage), manual requests for one module or all, code from
a document.  `req[r]` is a request's progress through find, list, create,
enqueue, mark and cancel; `TasksOf[r]` are the tasks its delivery ids stand for.  Some kinds store
the new task first and cancel after (`StoredFirst`), generated tests and whole-repository
runs cancel first (`CancelsFirst`, `Clear`), and that is what the properties are about.  The
worker is Take and Finish, and a failing query takes the fall-back of the code, which cannot
compare frameworks (`blind`).

### Execution: Attempt, the five services, ReviewRules

One task through all its executions.  `Attempt` has what they share: `task` is its row and its
entry, `run` the handler's locals with its position in the service, `gitea` what the task has done to
the outside (pull requests opened, comments and reviews made, issues filed), `result` its row of
results.  Every call is a step: it is answered, it fails, or its answer is lost after it
was executed (`Write`), and between two of them the server may die, asynq's timeout or a
cancellation may end the context, and somebody may close the pull request.  `Execution` is
`ProcessTask` around the services: findRecord, the running write, the switch over the services'
errors (`Verdict`, in the order of the code), the final write, the iteration loop, the notification, the
comment of gen_tests, and the answer to asynq.  `task.apart` marks the cases in which row and
entry cannot agree: the last write failed, the server died, or asynq answered for a
handler whose context was over.

`ReviewRules` is pure: an output of the model with the filters of its repository, and a diff.
`ParseDiff` and `MapLine` (diff.go), `FilterIssues` and `ApplyFilters` (filter.go),
`mapVerdict` and `recalcVerdict` (writeback.go) and the processor's second judgement (`Loop`).
The properties compare them with definitions of their own: `LetThrough` names the
severities, `InDiff` counts the lines of a hunk one by one.

### Iteration and Rounds

A review that asks for changes starts a round (`AfterReviewCompleted`: find or create the session,
check the latest round, count, create the round, enqueue the repair, give the round its task),
the repair pushes, its result is persisted in three writes, and the push asks for the next review.
A repair is executed as `ProcessTask` does it: `shouldRetry` writes `failed` on the attempt before the last, completes the
round and sets the session idle, and asynq executes the repair once more all the same (`Again`, `Outcome`), since only a
cancelled row is skipped.  `Flaky` are the repairs of which an execution may come to an error.
Reviews, repairs and pushes run side by side; each holds the row it read (`copy`).
`Rounds` is the promise: a round starts when those before it are settled, is settled once
and for good, and at most MaxRounds count.  `ImplementsRounds` is the refinement: a round's row shows
when it began and that it is complete.

### WorkerPool

`call[r]` is a call of `runContainer` with its stdin writer and stream monitor, `box[c]` a
container with its age, `shutdown` the progress of `Shutdown`, `gc` that of a pass of the
collector.  A call goes through Admit (closed check and wg.Add under one lock), Create, possibly Evict
and Recreate (the name is in use), Attach, Start, Wait, Collect, Finish, Remove.  Any call of Docker may
fail; removals that fail are bounded.  `Name` gives a call's container name, so that the
instances decide who collides with whom; its age (`Ages`) passes maxAge and forceKillAge, while its call goes
on the first alone.

### Server: Migrations, ConfigRules, Configuration, Notifications, Accounts

`Server` is the `serve` process from the configuration it loads to the last thing it closes, and a
`task` command beside it.  `srv.open` is what it has opened, `busy` what its goroutines use.
`Migrations` has all 26 versions over a database whose cells remember the column they were stored
under, with SQLite's lock and snapshots, since both processes migrate.  `ConfigRules` is `Validate`
rule by rule and every `Resolve` function; `Configuration` is the manager and its watcher;
`Notifications` maps a task's state to its message and the message to a router and its channels;
`Accounts` has the tables of accounts, keys and timeouts that must agree.  `Plans` bounds what
the environment does in one behaviour and where it starts from.

## Runs

CHECK_DEADLOCK is FALSE in every run because the system really stops: when the
deliveries, attempts, faults and restarts of an instance are used up, nothing is left to do.
Symmetry (`MCTaskLifecycle`) is used in safety runs alone.

| run | instance | checks | states |
|---|---|---|---|
| duplicate_deliveries | 1 event delivered twice, 2 requests, 1 worker, MaxRetry 2, store faults, flaky Redis, 1 manual retry, slow requests | TypeOK, RowBeforeEntry, RecoveredOnce | 1.35 million |
| restarts | 1 event, 1 request, 2 workers, late handlers, flaky Redis, 1 crash or shutdown, fairness | OneHandlerPerTask, PendingEnds | 229,000 |
| overlapping_requests | 2 events, 2 requests, 1 worker, 1 manual retry | CancelledIsSuperseded, SettledUnlessRetried | 1.83 million |
| review_progress | 2 events, timeouts, retries, fairness | RetryingIsScheduled, ExecutionsEnd | 168,000 |
| replacement | 8 sets of requests that meet, over 13 tasks, store faults, 1 worker | TypeOK, NewestKept, CancelledIsReplaced, OwnTasksKept | 323,000 |
| execution | each of 7 kinds, sound or not, MaxRetry 2, 1 fault, 1 crash, 1 cancellation, 2 pull requests, 2 cases, 4 outputs of a review | TypeOK and eight properties | 2.42 million |
| iteration | 3 reviews, 2 sessions, 2 rounds, 3 executions of the first repair, any of which may fail, 1 failing statement or foreign push amid two reviews | TypeOK, OneRepair, RepairIsSettled, ImplementsRounds | 903,000 |
| worker_pool | 1 call with stdin, of a task that may outlast maxAge, a left-over of the same name, collector, Shutdown, 1 failing removal, fairness | TypeOK and five properties | 64,000 |
| server | 26 configurations, 5 versions of a database, 2 processes, 1 fault, 2 starts with 3 users at work, 3 edits | TypeOK and seven properties | 156,000 |
| shared_names, reopened_session, late_repair | see the findings | one property each, violated | |

What the properties say, and why they could fail:

- **RowBeforeEntry**: asynq holds no task that `findRecord` would not find.  The order
  of insert and Enqueue does it, across duplicated deliveries and failures.
- **OneHandlerPerTask**: asynq waits for at most one handler of a task and its count is that
  handler's, through lost leases, aborts, recovery, retries and restarts; the shared TaskID does it.
- **RecoveredOnce**: the recovery loop re-enqueues a task at most once per process.  It
  also means that the branch of `requeue` that gives up is never taken when
  `max_retry` is more than one.
- **CancelledIsSuperseded**: whatever the order of listing, storing and cancelling in
  concurrent requests, the newest review of a pull request is never cancelled.  It holds
  without shutdowns and lost leases only: asynq ends contexts then as well.
- **SettledUnlessRetried**: once a task is over, nobody working on it, no stale copy of
  its row brings it back to life unless a user retries it.
- **RetryingIsScheduled**: `shouldRetry` predicts asynq's retries, never one too many.
- **PendingEnds, ExecutionsEnd**: no task is stuck pending, running or retrying
  unless it has been replaced; the second is stated for a server that lives and a store that works.
- **NewestKept, CancelledIsReplaced, OwnTasksKept**: a task of an issue, branch or module is
  cancelled for a newer one that is stored; generated tests for one that is stored, on its way, or
  could not be stored.  A request cancels a task of its own in one case alone: the list of active
  modules could not be read, and the task is of the same module in another framework.  The code's comment
  (enqueue.go:1230-1231) promises to spare this one too, and the code does not; see the list below.
- **SucceededIsDelivered**: what a task does to Gitea is there when its row says succeeded: the comment,
  the pull request of tests, the issues of a triage, and for code from a document the pull request and
  a review of that very one.  Its two exceptions are the code's: a row that holds the mark of a review of an
  earlier, closed pull request (a defect, in the list below), and a review that could not be
  published, which the code lets succeed (result.go:51), after a failed call or an ended context.
- **NothingRepeated, NoFalseAlarm, CodeReviewedOnce**: a retry does not do again what was done, up to once per
  call that failed with its effect done.  The review of generated tests is no part of it: the code enqueues it
  again (in the list below).
- **RowMatchesEntry, TransientIsRetried**: what ProcessTask writes and what it returns to asynq are
  decided in two places; they agree, and a passing difficulty fails nothing early.
- **ShownAsFiltered, RepairIsAskedFor**: a published review shows each issue the filters let through
  once, at a line that exists or in the body, and the loop repairs only what Gitea shows as changes requested.
- **OneRepair, RepairIsSettled, ImplementsRounds**: a review that completes while a repair is
  written does not start a second one; whatever came of a repair, its round does not hold up the next review.
  OneRepair counts the repairs whose row has not yet said that they are over: one that has failed on the
  attempt before the last is executed once more, perhaps beside the next, and the code does not prevent it
  (late_repair).  RepairIsSettled is about repairs whose statements all succeed.
- **ClientOpenWhileRunning, ReportsAreTrue, EveryCallReturns, LeftoversCollected**:
  the pool, its writer, its monitor and the collector against one another.
- **RunningIsKept**: with names shared by anybody, and tasks that outlast maxAge, a container that has not
  exited is taken from its call by nobody but a call that wants its name.  The run has one call, whose task may
  outlast maxAge, and the container that has its name; the theorem any number of calls and any names.  Two
  calls that do share a name are shared_names, where what the code's comment says of the name is violated.  An
  exited container past maxAge may be removed before its call has read the logs: in the list below.
- **UpgradesAreSafe, ClosedWhenUnused, ConfigInForce, TasksRunAsConfigured, MessagesArrive,
  SignalStops, ReloadCatchesUp**: the server's life, from any stored database and accepted file.
  ConfigInForce says that a file in force is consistent and has what serve asks for; a blank database path
  or image passes both and may still fail the start.  TasksRunAsConfigured compares accounts, keys and timeouts for
  every kind of task but the account of fix_review, which opens no pull request.

Bounds.  Two events of one pull request make every pair of replaced and replacing task;
a third adds chains of the same pairs.  Two requests, or two workers, give every
race between two actors of a kind; the lifecycle runs divide them, since all at once is beyond TLC, and
each run keeps the actors its properties are about.  MaxRetry is 3 in the code; 2 is the least value
with a first, a middle and a last attempt under `shouldRetry`'s boundary, and MaxRetry 1
leaves a first and a last one where retries are not the subject.  One crash or shutdown, one failing call,
may fall between any two steps.  Two pull requests show a closed one and its
successor.  Three reviews are a round, its successor and the one that finds both;
MaxRounds 2 is reached and refused.  In the loop asynq grants 4 executions (TaskMaxRetry is 3), the runs 3: a first
one, the one before the last, after which the row says failed, and the last; only the first repair's may come to an
error (`Flaky`), which is enough for a failed repair to run beside its successor.  A third review and a failing
statement or foreign push do not meet (`TwoReviewsAfterFault`, a constraint of the run: all of them together
are more states than a run of minutes reaches, and the theorems have no such bound).  Out of
the run's reach are the rest of `NoneFixedTwice` once two rounds count, since the bound comes first, and `CreateRound`
finding its number taken, which needs two reviews at once.  In `replacement`, one worker is enough for a task to be taken
between a list and its cancellation.  In `worker_pool` the call and an earlier server's container
have one name; in `shared_names` two calls have it.  In `server` a version before and after each kind of migration (0,
12, 19, 22, 25), and files that differ in one rule each.

What a run leaves out on purpose, because the code does not prevent it: in `iteration`, failures of
the two statements that give a round its task (`Failing`), and two reviews that complete
within the time a container takes (`Prompt`); in `replacement`, one webhook handled twice at once (the
scenario `Redelivered`).  Each is in the list below.  In the worker pool a call's container may be
older than maxAge (35 minutes) but not than forceKillAge (105), since the longest default timeout is 60 minutes;
`Validate` sets no upper limit to a configured one.

## Where the code and its documents disagree

Three runs check one statement each and find a behaviour of the code that contradicts it;
`findings` in `PROJECT.json` quotes the line.

| run | statement | what happens |
|---|---|---|
| shared_names | `buildContainerName` (pool.go:646) makes a unique name | it keeps 20 characters of the delivery id, which first runs of code_from_doc all share: the second takes the first one's running container for a left-over of a restart (docker.go:194-195) and removes it |
| late_repair | with `retryCount == maxRetry-1` asynq tries no more (processor.go:215-217) | it does: the row says failed, the round is complete, the session idle, and the repair runs once more beside that of the next round |
| reopened_session | `AfterIterationApproved` (enqueue_iterate.go:505) marks the session completed, the terminal state | a repair that read the session before writes it back after: it is active again |

Others met while modelling, which have no run of their own:

Tasks and their rows
- `RetryTask` (retry.go:43-45) takes every TaskID conflict for a queued task.  The entry of a task that
  failed for good or was cancelled is archived under that TaskID, so that its retry conflicts: the row says
  queued, and nothing executes it.
- `shouldRetry` (processor.go:213-222), again for tasks of every kind: the row says failed and people are notified,
  then the task runs once more; dtw's wait takes that failed for the end.
- The final write of a review that is switched off is under the handler's context
  (processor.go:293): cancelled there, the row stays running.
- The queued write of `enqueueTask` (enqueue.go:960) may come after the worker's final one; the row then
  says queued for ever.  A last write that fails, or a crash before it, leaves running or retrying.
- `requeue` counts only attempts that succeed (recovery.go:172): with Redis down a task is never given up.
- A shutdown ends contexts as a replacement does: running reviews are recorded as cancelled
  (processor.go:396) with nothing to replace them.
- The design of re-review (`docs/plans/2026-03-26-m2.4-re-review-design.md:463`, `:469`) says that a
  replaced task is marked cancelled even when DeleteTask fails, where `cancelTask` gives up before the
  write; and that the staleness check keeps outdated results from being published, where the check and
  the publication are two steps (writeback.go:223), and a failing check lets the review through.
- `created_at` is compared as RFC3339Nano text (sqlite.go:617), whose trailing zeros are dropped:
  not the order of time when one stamp's digits begin with the other's.
- Two deliveries of one merge that are handled at once (enqueue.go:1062): each cancels the other's
  tests, which leaves no task (`Scenarios <- Redelivered`).
- A cancelled task's branch is cleaned (enqueue.go:1055) before its container has ended, which may still push.
- Two requests for documents on one branch that overlap list no active task, and both push to it (enqueue.go:1363).
- Subtasks of one module and different frameworks are not to cancel each other (ROADMAP.md:746,
  enqueue.go:1230-1231).  When the list of active modules fails, the fall-back matches by module alone
  (enqueue.go:1247): one request's second subtask cancels its first.

Services
- A success of code_from_doc is to have the review of its pull request enqueued (code/service.go:242).  The mark of
  a closed pull request is taken for that of its successor, whose number has just been written over the old one
  (service.go:416): the task enqueues no review of it.
- A gen_tests execution that finds review_enqueued set is to enqueue no review again (test/service.go:319-321).
  SaveTestGenResult of phase 1 has reset the mark (sqlite.go:725) a moment before it is read (service.go:325): a
  task executed again enqueues it again.
- `ApplyFilters` (filter.go:84-85) is to keep the loop and the write-back from disagreeing.  An approval with a
  critical or error issue is shown as a request for changes (writeback.go:335-341), and the session is completed as
  approved (processor.go:661); a "comment" with an error is shown as a request for changes, and no repair starts.
- `e2e/service.go:150`: when the earlier row cannot be read its created issues are overwritten.
- A failing request for a framework's file counts as a missing file (test/service.go:816) and fails the task for good.
- `CommentOnGenTestsPR` (gitea_notifier.go:155) lists and then creates: two that run together make two comments.

Iteration
- The session is "fixing" while a repair may push, hence no race
  (`docs/superpowers/specs/2026-05-13-iterative-review-fix-design.md:54-57`).  After the failure on the attempt before
  the last it is idle: the push of the last execution, noticed then (enqueue.go:293), is taken for a user's and
  cancels the repair that made it.
- A failing write of the round's task (enqueue_iterate.go:203) lets the next review start a second repair.
- Two reviews that complete together both start a round (enqueue_iterate.go:97).
- A review of a repair's push that is over before the repair's container waits ten seconds for the round
  and gives up (enqueue_iterate.go:428); no other review follows.

Worker pool
- maxAge (gc.go:58) is to be the longest task's time and a margin.  It is 35 minutes for a longest task of 30, and
  run_e2e and code_from_doc may take 60: the container of such a task that has exited is past maxAge at once
  (gc.go:100), and a pass that falls between its exit and ContainerLogs removes it before its call has read the logs.
- A container created and never started is in neither list of the collector.

Server, configuration, notifications
- `Validate` accepts a route to a channel that is configured and not enabled; `NewRouter` then fails on every
  send, and all messages of that repository are lost.
- `docs/design-m17-m18-notify-config.md:658-659` promises routes that are reloaded; they are a snapshot of the
  start (serve_notify.go:59 says so), and no command calls `WatchConfig`.  Between `Load` and the start of the
  watcher an edit is missed.
- `Get` is documented as a deep copy (config.go:248); TechStack, CodeStandardsPaths, the E2E pointers and the
  repositories' TestGen are shared.
- A retrying gen_tests sends system.error without a number, which GiteaNotifier refuses each time; so are the
  events of e2e and of a code_from_doc without a pull request (serve_notify.go:87-90 means to exclude such).
- serve.go:520 waits for active handlers, but asynq waits 8 seconds.  A start that fails after asynq
  has begun (serve.go:371, :396) closes the store under its handlers.  The passes of the recovery loop and of the
  collector are cancelled and not waited for.
- A signal during the start is noticed once the server serves; ImageExists and Ping have no limit.

## Fairness

`FairSpec` of `TaskLifecycle` assumes weak fairness of what the program and asynq do by themselves: a
request's next statement, a handler's next statement, delivery of a waiting entry, reclaiming
an abandoned one, the recovery loop's next step (its ticker), RetryTask once called,
exit once shutdown has begun.  Go's scheduler and asynq's polling justify these.  Strong fairness is
assumed of one thing: an Enqueue the recovery loop tries again and again succeeds some
time, for a Redis that is flaky and not down.  Nothing forces a delivery, a user's
retry, a timeout, a lost lease, a crash or a shutdown to happen.

`FairSpec` of `WorkerPool`: the goroutine of a call goes on, the stdin writer meets its deadline, a
task its timeout, time passes for containers, and the collector's ticker goes on.  Nothing is assumed of the
container, which may run for ever, nor of the monitor.

`Spec` of `Server`: the server, the command and the watcher go on by themselves; nothing
is assumed of requests, tasks, passes, signals, edits and faults.

## Proofs

A theorem holds for every value of the constants: any sets of tasks, requests, workers, reviews,
calls, files and repositories, any number of retries, rounds and faults.  The only assumptions are
those the modules state of their constants (`ASSUME`) and, where a table names them, the
hypotheses.  Sets are finite only where something is counted: reviews, sessions, and the cases of an
E2E run.  Each safety property follows from one inductive invariant of its module; the
invariants were checked with TLC on the runs' instances before they were proved.

### Tasks: TaskLifecycle_proofs, TaskCancellation_proofs

| theorem | says |
|---|---|
| TypeCorrect | `Spec => []TypeOK` |
| IInvInvariant | `Spec => []IInv` |
| EntriesHaveRows | `Spec => []RowBeforeEntry` |
| HandlersExclusive | `Spec => []OneHandlerPerTask` |
| RecoveryNeverGivesUp | `Spec => []RecoveredOnce` |
| SettledStays | `Spec => SettledUnlessRetried` |
| CancelIInvInvariant | `Spec /\ Up /\ Leases => []CancelIInv` |
| NewestIsNotCancelled | `Spec /\ Up /\ Leases => []CancelledIsSuperseded` |
| RetryIInvInvariant | `Spec /\ Up /\ NoRestart /\ Leases => []RetryIInv`, assuming `~StoreFaults`, `~LateHandlers` |
| RetriesAreScheduled | `Spec /\ Up /\ NoRestart /\ Leases => []RetryingIsScheduled`, assuming the same |

Here `Up` is `[](phase = "up")` (no shutdown begins), `NoRestart` is `[](restarts = 0)`, and `Leases` is
`[][KeepsLeases]_vars` (asynq takes no lease away).

IInv is inductive.  RowBeforeEntry alone is not, since a recovery
list or a retry in progress may be about to enqueue: EnqueuersHaveRow adds that whoever is
about to has seen the row, or written it, and rows never disappear.  OneHandlerPerTask is
preserved by each move of an entry because only a waiting entry is taken, and only an
attached handler's own return, timeout, abort or lost lease moves an active one.
RecoveredOnce needs that a recovered row is never pending again
(RecoveredIsNotPending): every write of a row comes from a copy, no copy that anyone writes is
pending except the request's first insert, which the stored row refuses, and no
handler is about to write back what it started from (FinalIsNoStart).

SettledStays is an action property: from IInv, a step writes a row or an entry only for a
task its actor holds, and takes up a task only from a list of active or pending rows, from a
waiting entry, or by RetryTask.

CancelledIsSuperseded is not inductive: a request cancels the rows it listed earlier, with
the copies it made then.  CancelIInv adds that every copy is of a stored row and has its
created_at (CopiesAreOfStoredRows), that what a request is going to cancel is older than its
own row, which is stored by then (ListedAreOlder; the created_at is taken after
the list, and rows are never newer than the clock: CreatedInThePast), and that a
context is cancelled, or a row about to be written "cancelled", only for a newer review
(CancellationsAreForNewer).  Rows only come and keep their created_at, so
what is superseded stays so: `Grow` and the lemmas on it.  Its two hypotheses are needed: asynq cancels
contexts in a shutdown and on a lost lease as well, and the newest review is then recorded as cancelled.

RetryingIsScheduled says that a row "retrying" has a retry to come or is about to be replaced.  RetryIInv
follows one task through its handler: one handler holds it at a time and an active entry has one; from
its running write to its final one the row is not "retrying"; a final "retrying" is written only
where `shouldRetry` promises an attempt and asynq will be given an error; and a handler asynq has left has
its retry waiting already (KeepsPromise), unless the review is replaced, which is where CancelIInv comes in.
Each hypothesis excludes something that leaves such a row without an entry: a last write that fails
(StoreFaults), a handler that writes "retrying" when the retry it stands for is over (LateHandlers), a shutdown,
and crashes or lost leases often enough that asynq archives an entry whose row its handler has not read yet.

### Requests: Replacement_proofs

| theorem | says |
|---|---|
| InvariantHolds, TypeCorrect | `Spec => []RInv`, `Spec => []TypeOK` |
| NewestIsKept | `Spec => []NewestKept` |
| CancelledAreReplaced | `Spec => []CancelledIsReplaced`, assuming `DistinctRequests` |
| OwnTasksAreKept | `Spec => OwnTasksKept`, assuming `DistinctRequests`, `DistinctModules`: of its own tasks a request cancels one at most after a failed list, of the same module in another framework |

RInv relates what a request lists to its own task: listed rows are stored, are compared again with the
row (created_at, module, framework) before they are cancelled, and are older than the new row where it
is stored first.  Where cancelling comes first, a second invariant follows the request to the row it owes,
and a third what it may call its own.

`DistinctRequests` is that no webhook is handled twice at once and requests have delivery ids of their
own.  Without it CancelledIsReplaced is false: each of two deliveries of one merge cancels the other's tests.
`DistinctModules` is that the modules of one request have branches of their own.  Nothing in the code
checks it: `svc/api` and `svc-api` have one ModuleKey, and with one framework the second subtask of
`EnqueueManualGenTests` would cancel the first.

### The iteration loop: Iteration_proofs

| theorem | says, assuming `Undisturbed` |
|---|---|
| InvariantHolds, TypeCorrect | `Spec => []IInv`, `Spec => []TypeOK` |
| RepairsAreSerial | `Spec => []OneRepair`: one repair at most is under way whose row has not said that it is over |
| RepairsAreSettled | `Spec => []RepairIsSettled` |
| LoopImplementsRounds | `Spec => ImplementsRounds` |

`Undisturbed` is `Prompt` and that neither of the two statements that give a round its task fails; without it OneRepair is
false (both ways are in the list above).  Failures of all other statements, retries of asynq and foreign
pushes remain.

IInv has one review in the loop at a time, counts rounds by the reviews that started them,
keeps all rounds but the last complete, says of
each handler what its copies of session and round still are, and of every live task that it is the last round's of its
session, which is active and open.  A task is live (`Live`) from its row until the row says for the first time that it is over
(`over` remembers this); in an execution asynq adds afterwards it is not, and that finds its round complete and
leaves it, or completes it where a write had failed.  LoopImplementsRounds shows that initial states map
to initial states and, action by action, that a step of Iteration is one of Rounds or leaves what it
shows alone; it uses IInv for the last round and for MaxRounds.

### Executions: ReviewRules_proofs, Execution_proofs

| theorem | says |
|---|---|
| PublishedAsFiltered | for every output and diff: each issue the filters let through is published once, on a line of the new file that the diff has or in the body, and an approval needs the model's own and nothing severe left |
| InvariantHolds, TypeCorrect | `Spec => []IInv`, `Spec => []TypeOK` |
| RowsMatchEntries | `Spec => []RowMatchesEntry` |
| TransientErrorsAreRetried | `Spec => []TransientIsRetried` |
| SuccessIsDelivered | `Spec => []SucceededIsDelivered` |
| RetriesDoNotRepeat | `Spec => []NothingRepeated` |
| ReviewsAreShownAsFiltered | `Spec => []ShownAsFiltered` |
| NoAlarmIsFalse | `Spec => NoFalseAlarm` |
| CodeIsReviewedOnce | `Spec => CodeReviewedOnce` |
| RepairsAreAskedFor | `Spec => RepairIsAskedFor` |

PublishedAsFiltered needs that `MapLine`, which walks through a hunk, finds exactly the lines that
`InDiff` counts: the n-th position of a kind in a sequence (lemma Nth).  There is no induction over data
in TLAPS, so the least counter-example is taken from the well-foundedness of the naturals (Least).

Execution's IInv says for each kind of task where its handler can be (Placed, Unanswered), what a call knows of
those before it (FixPoints, TestPoints, CodePoints, ReviewPoints, E2EPoints), what the switch of ProcessTask may
conclude (JudgeOK, EndOK), and it counts (SaidOK, FiledOK, SyncedOK, ShownOK): what was said so far is at most what
failed, crashed or was cancelled so far, and one for the last word, and one where `shouldRetry` takes the
attempt before the last for the last; an issue that was filed is in the row, in the handler's
memory, or has cost a failure.

The proofs changed the models where they were not definite: overlapping guards in CASE expressions
(`Verdict`, `ValidateRef`, `DoneMessage` and others) have no value of their own in TLA+, although TLC takes the first; they
are IF chains now, in the order of the code.  And the definition `LetThrough` had to say that an issue without a file is
never ignored by a file pattern, as `FilterIssues` has it.

### The worker pool: WorkerPool_proofs

| theorem | says |
|---|---|
| TypeCorrect | `Spec => []TypeOK` |
| ClientIsOpen | `Spec => []ClientOpenWhileRunning` |
| ReportsAreTrueTheorem | `Spec => []ReportsAreTrue` |
| ContainersAreKept | `Spec => RunningIsKept` |

A call's record says at each point of `runContainer` what may have happened to its context, monitor and
writer (CallInv); a call that is admitted is counted before `closed` is set.  ContainersAreKept assumes nothing of the names
or of how long tasks take: BoxesInv says that a container of an active call is below forceKillAge and that one the collector has listed
has exited, unless its call is over, and lemma WhoRemoves goes through the steps that remove a container.

### The server: Server_proofs

| theorem | says |
|---|---|
| InvariantHolds, TypeCorrect | `Spec => []ServerInv`, `Spec => []TypeOK` |
| UpgradesKeepData | `Spec => []UpgradesAreSafe` |
| ClosedInTime | `Spec => []ClosedWhenUnused` |
| AcceptedIsConsistent | `Spec => []ConfigInForce` |
| TasksFollowConfig | `Spec => []TasksRunAsConfigured` |
| MessagesDoArrive | `Spec => []MessagesArrive` |

The assumptions: a file's content is a record of the types Go unmarshals into (`IsConfig`), nothing of its
values; "*" and "none" are no repositories; the two processes are the server and the task command.

UpgradesKeepData.  `Kept(d, v)` describes a database that version v left: its columns in their order, rows under the
columns they were stored in, result tables linked.  Each of the 26 migrations takes `Kept(d, v - 1)` to `Kept(d, v)`, whether
run in a new file or over stored rows (MigrateKept); UpgradeInv adds that who writes holds the lock
and that nobody has committed since it looked, so that a version is applied once.

ClosedInTime.  Work is under way only while its engine is open, is waited for by the closer or was left behind by a
limit (WorkIsCovered), engines are closed in the closer's order (CloserInOrder), and what they use is open until its
turn (OpenInOrder).

AcceptedIsConsistent.  Every rule of `Validate` is about a file, `Consistent` about what `Resolve...` returns for a
repository: for each part, an override is that of one entry of the repository (OverrideIsOwn), and each
pair of global option and override is one some rule has looked at.

MessagesDoArrive.  `NewRouter` builds whenever the routes name enabled channels (ValidBuilds, from four of Validate's
rules); a repository's own router is built for it alone and the shared one for a repository that
overrides nothing (RoutersKept), which has no address of its own.

## What is not shown

- Only model-checked: liveness (`PendingEnds`, `ExecutionsEnd`, `EveryCallReturns`, `LeftoversCollected`,
  `SignalStops`, `ReloadCatchesUp`), since fairness and ENABLED are beyond TLAPS.
- Abstracted: formatting, prompts, cards, logging; the text of diffs, patterns, URLs and schedules (a file is
  well formed or not); the cutting of a review's body that is too long for Gitea; priorities and delays of queues.
- Left out of modelled components: `PurgeTasks` and statistics of the store, the batch limit of the recovery
  loop, `shouldSkipAutoTestReview`, labels and messages of the iteration loop, the HTTP calls of the notifiers.
- Not modelled, and why: the branch cleaner and the change filter (a table of paths, and a best-effort clean-up
  that drops its errors); the webhook receiver and the REST API (signature, JSON and validation of one request,
  without state; the handlers they call are modelled); the daily report (reads one day's rows, sends one card); the
  Gitea client (HTTP and pagination; what its calls do is in Attempt); dtw (calls the REST API and polls it).
