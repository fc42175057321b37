------------------------------ MODULE Replacement ------------------------------
(***************************************************************************)
(* EnqueueHandler beyond reviews: issue analysis and repair, generated     *)
(* tests, code from a document, E2E tests and their triage.  A request     *)
(* finds the active tasks for the same issue, branch or module, stores and *)
(* enqueues its own, and cancels the others: cancel and replace.           *)
(*                                                                         *)
(* The rows and the queue are those of TaskStore and AsynqQueue; the       *)
(* worker is reduced to what a replacement can see of it (TaskLifecycle    *)
(* has its steps).  A webhook may be delivered again, and its deliveries   *)
(* handled at once: those are requests with the same tasks.  A manual      *)
(* request is made once: its delivery ids are new.                         *)
(***************************************************************************)
EXTENDS TaskStore, AsynqQueue, Sequences, FiniteSets

CONSTANTS
  Scenarios,   \* sets of requests that may be made together
  Kind,        \* [Tasks -> TaskKind]
  Key,         \* [Tasks -> issue, branch or module key]
  Framework,   \* [Tasks -> test framework, "" when none was asked for]
  TasksOf,     \* [Requests -> Seq(Tasks)]: the delivery ids it would use
  Manual,      \* requests of the API and the command line
  Concurrency, \* workers of the asynq server
  Whole,       \* those for a whole repository
  MaxCalls     \* bound: [Requests -> how often one is made, one after the other]

Requests == UNION Scenarios
TaskKind == {"analyze_issue", "fix_issue", "gen_tests", "code_from_doc",
             "run_e2e", "triage_e2e"}

\* The tasks a request may store, all of one kind.
Own(r) == {TasksOf[r][i] : i \in DOMAIN TasksOf[r]}
KindOf(r) == Kind[TasksOf[r][1]]

ASSUME ReplacementAssumption ==
  /\ "none" \notin Tasks /\ Kind \in [Tasks -> TaskKind]
  /\ Requests \subseteq DOMAIN TasksOf /\ Concurrency \in Nat /\ MaxCalls \in [Requests -> Nat]
  /\ Whole \subseteq Manual
  /\ \A r \in Requests :
       /\ TasksOf[r] \in Seq(Tasks) /\ TasksOf[r] # << >>
       /\ \A t \in Own(r) : Kind[t] = KindOf(r)
       /\ KindOf(r) = "code_from_doc" => Len(TasksOf[r]) = 2
       /\ r \in Whole => KindOf(r) \in {"gen_tests", "run_e2e"}

VARIABLES
  req,        \* [Requests -> a request's progress]
  calls,      \* [Requests -> calls made]
  ctx,        \* [Tasks -> the running handler's context was cancelled]
  clock,      \* logical time.Now()
  unstored,   \* tasks whose row the store failed to insert
  made        \* the scenario

vars == <<row, entry, req, calls, ctx, clock, unstored, made>>

-----------------------------------------------------------------------------
PC == {"idle", "clear", "find", "list", "create", "enqueue", "mark", "cancel",
       "cancelWrite"}
\* todo: the modules to go; task: this one's; old: the rows to cancel; keys: the
\* active modules to clear away; blind: the framework could not be compared.
Idle == [pc |-> "idle", todo |-> << >>, task |-> "none", stamp |-> 0,
         old |-> [t \in Tasks |-> NewRow], keys |-> {}, blind |-> FALSE]

\* Rows, entries, requests and contexts are of their types.
TypeOK ==
  /\ row \in [Tasks -> Row] /\ entry \in [Tasks -> Entry]
  /\ made \in Scenarios
  /\ req \in [made -> [pc : PC, todo : Seq(Tasks), task : Tasks \cup {"none"},
                       stamp : Nat, old : [Tasks -> Row],
                       keys : SUBSET {Key[t] : t \in Tasks}, blind : BOOLEAN]]
  /\ DOMAIN calls = made /\ \A r \in made : calls[r] \in 0 .. MaxCalls[r]
  /\ ctx \in [Tasks -> BOOLEAN]
  /\ clock \in Nat /\ unstored \subseteq Tasks

Init ==
  /\ row = [t \in Tasks |-> NewRow]
  /\ entry = [t \in Tasks |-> NoEntry]
  /\ made \in Scenarios
  /\ req = [r \in made |-> Idle]
  /\ calls = [r \in made |-> 0]
  /\ ctx = [t \in Tasks |-> FALSE]
  /\ clock = 0 /\ unstored = {}

-----------------------------------------------------------------------------
\* Mutant: every kind cancels before it stores.
CancelsAnyFirst(r) == TRUE

\* gen_tests clears the way before it stores its task, the others after.
CancelsFirst(r) == KindOf(r) = "gen_tests"
At(r, pc) == req[r].pc = pc
Goto(r, pc) == req' = [req EXCEPT ![r].pc = pc]

\* Webhooks are checked against the delivery id first.
FirstPC(r) == IF r \in Manual \/ KindOf(r) = "code_from_doc" THEN "list" ELSE "find"
NextTaskWith(r, todo) ==
  req' = [req EXCEPT ![r] =
    IF todo = << >> THEN Idle
    ELSE [Idle EXCEPT !.pc = FirstPC(r), !.todo = Tail(todo), !.task = Head(todo)]]

\* On to the next module, or back to the caller.
NextTask(r) == NextTaskWith(r, req[r].todo)

-----------------------------------------------------------------------------
\* The handlers, up to the first module's task.
Call(r) ==
  /\ At(r, "idle") /\ calls[r] < MaxCalls[r]
  /\ calls' = [calls EXCEPT ![r] = @ + 1]
  /\ UNCHANGED <<row, entry, ctx, clock, unstored, made>>

\* HandleIssueLabel and EnqueueManualFix: the label, or the caller, says which.
IssueRequest(r) ==
  /\ KindOf(r) \in {"analyze_issue", "fix_issue"}
  /\ Call(r) /\ NextTaskWith(r, TasksOf[r])

\* handleMergedGenTests: switched off, no file list, no source file left, no
\* module matched: nothing happens; otherwise one task per module matched.
MergedGenTests(r) ==
  /\ KindOf(r) = "gen_tests" /\ r \notin Manual
  /\ Call(r)
  /\ \E n \in 0 .. Len(TasksOf[r]) : NextTaskWith(r, SubSeq(TasksOf[r], 1, n))

\* handleMergedE2ERegression, switched on and with files to look at.
MergedE2E(r) ==
  /\ KindOf(r) = "triage_e2e"
  /\ Call(r) /\ NextTaskWith(r, TasksOf[r])

\* EnqueueCodeFromDoc: TasksOf has the document's delivery id and one for a
\* rerun, taken when a task with the first is stored and over.
CodeFromDoc(r) ==
  LET base == TasksOf[r][1] IN
  /\ KindOf(r) = "code_from_doc"
  /\ Call(r)
  /\ \/ ~Stored(base) /\ NextTaskWith(r, <<base>>)
     \/ row[base].status \in Terminal /\ NextTaskWith(r, <<TasksOf[r][2]>>)
     \/ Stored(base) /\ row[base].status \notin Terminal /\ UNCHANGED req
     \/ StoreFaults /\ UNCHANGED req

\* EnqueueManualE2E and EnqueueManualGenTests for one module, or for a whole
\* repository whose modules cannot be scanned.
ManualModule(r) ==
  /\ r \in Manual \ Whole /\ KindOf(r) \in {"run_e2e", "gen_tests"}
  /\ Call(r) /\ NextTaskWith(r, TasksOf[r])

\* For a whole repository: every active module is cleared away first
\* (cleanupAllActiveE2ETasks, cleanupAllAutoTestBranches).
ActiveOf(kind) ==
  {u \in Tasks : /\ Kind[u] = kind
                 /\ row[u].status \in {"pending", "queued", "running", "retrying"}}
WholeRepository(r) ==
  /\ r \in Whole
  /\ Call(r)
  /\ \E K \in {{Key[u] : u \in ActiveOf(KindOf(r))}}
              \cup (IF StoreFaults \/ (KindOf(r) = "gen_tests" /\ Len(TasksOf[r]) = 1)
                    THEN {{}} ELSE {}) :
       req' = [req EXCEPT ![r] = [Idle EXCEPT !.pc = "clear", !.todo = TasksOf[r],
                                    !.keys = K]]

\* Mutant: the modules are scanned after the clearing, and there are none.
NoneLeft(r) == NextTaskWith(r, << >>)

\* The repository was scanned before the clearing: there is a task to come.
Modules(r) == NextTask(r)

\* The next module's active tasks, to be cancelled; the rest when all is clear.
Clear(r) ==
  /\ At(r, "clear")
  /\ \/ req[r].keys = {} /\ Modules(r)
     \/ \E k \in req[r].keys, seen \in {TRUE} \cup {~StoreFaults} :
          LET S == {u \in ActiveOf(KindOf(r)) : seen /\ Key[u] = k} IN
          req' = [req EXCEPT ![r].keys = @ \ {k}, ![r].old = RowsOf(S),
                    ![r].pc = IF S = {} THEN "clear" ELSE "cancel"]
  /\ UNCHANGED <<row, entry, calls, ctx, clock, unstored, made>>

-----------------------------------------------------------------------------
\* FindByDeliveryID; a failing query ends the request, for modules only theirs.
Find(r) ==
  /\ At(r, "find")
  /\ \/ Stored(req[r].task) /\ NextTask(r)
     \/ ~Stored(req[r].task) /\ Goto(r, "list")
     \/ StoreFaults /\ NextTask(r)
  /\ UNCHANGED <<row, entry, calls, ctx, clock, unstored, made>>

\* Mutant: the framework is not compared.
ReplacesAnyFramework(t, u) == Kind[u] = Kind[t] /\ Key[u] = Key[t]

\* The tasks a new one replaces: those of its issue, branch or module.  A repair
\* replaces analyses too; generated tests are told apart by framework as well,
\* unless none is asked for.
Replaces(t, u) ==
  /\ \/ Kind[u] = Kind[t]
     \/ Kind[t] = "fix_issue" /\ Kind[u] = "analyze_issue"
  /\ Key[u] = Key[t]
  /\ Kind[t] = "gen_tests" => Framework[t] \in {"", Framework[u]}

\* FindActiveIssueTasks leaves retrying tasks alone, FindActiveTasksByModule not.
Replaced(t) ==
  {u \in Tasks : /\ Replaces(t, u)
                 /\ \/ row[u].status \in {"pending", "queued", "running"}
                    \/ /\ row[u].status = "retrying"
                       /\ Kind[t] \notin {"analyze_issue", "fix_issue"}}

\* The list is taken before the new task exists.  When the query fails, the
\* request for a document ends; the others go on and cancel nothing, or, for
\* generated tests, what the simpler query finds: any framework's.
ToCancel(r, S, blind) ==
  req' = [req EXCEPT ![r].old = RowsOf(S), ![r].blind = blind,
            ![r].pc = IF CancelsFirst(r) /\ S # {} THEN "cancel" ELSE "create"]
List(r) ==
  LET t == req[r].task IN
  /\ At(r, "list")
  /\ \/ ToCancel(r, Replaced(t), FALSE)
     \/ /\ StoreFaults /\ Kind[t] = "gen_tests"
        /\ ToCancel(r, {u \in ActiveOf("gen_tests") : Key[u] = Key[t]}, TRUE)
     \/ /\ StoreFaults
        /\ IF KindOf(r) = "code_from_doc" THEN NextTask(r) ELSE Goto(r, "create")
  /\ UNCHANGED <<row, entry, calls, ctx, clock, unstored, made>>

\* Mutant: the record's status is not set.
RowWithoutStatus(stamp) == [status |-> "", asynqID |-> FALSE, created |-> stamp]

PendingRow(stamp) == [status |-> "pending", asynqID |-> FALSE, created |-> stamp]

\* enqueueTask, as in TaskLifecycle.  A row that cannot be stored ends the
\* request, or the module's part of it.
Create(r) ==
  /\ At(r, "create")
  /\ clock' = clock + 1
  /\ \/ /\ CreateTask(req[r].task, PendingRow(clock + 1))
        /\ req' = [req EXCEPT ![r].pc = "enqueue", ![r].stamp = clock + 1]
        /\ UNCHANGED unstored
     \/ /\ Stored(req[r].task)
        /\ NextTask(r) /\ UNCHANGED <<row, unstored>>
     \/ /\ StoreFaults
        /\ unstored' = unstored \cup {req[r].task}
        /\ NextTask(r) /\ UNCHANGED row
  /\ UNCHANGED <<entry, calls, ctx, made>>

\* After enqueueTask: cancel what was listed, unless that was done before.
GoOn(r) == IF CancelsFirst(r) \/ Listed(req[r].old) = {} THEN NextTask(r)
           ELSE Goto(r, "cancel")

Enqueue(r) ==
  /\ At(r, "enqueue")
  /\ \/ Accept(req[r].task) /\ Goto(r, "mark")
     \/ (Conflict(req[r].task) \/ (CallFails /\ UNCHANGED entry)) /\ GoOn(r)
  /\ UNCHANGED <<row, calls, ctx, clock, unstored, made>>

MarkQueued(r) ==
  /\ At(r, "mark")
  /\ TryUpdateTask(req[r].task, [status |-> "queued", asynqID |-> TRUE,
                                 created |-> req[r].stamp])
  /\ GoOn(r)
  /\ UNCHANGED <<entry, calls, ctx, clock, unstored, made>>

\* cancelTasks is through with t.
Dropped(r, t) ==
  LET old == [req[r].old EXCEPT ![t] = NewRow]
      one == req[r].task # "none" IN
  IF Listed(old) # {} THEN req' = [req EXCEPT ![r].old = old, ![r].pc = "cancel"]
  ELSE IF one /\ ~CancelsFirst(r) THEN NextTask(r)
  ELSE req' = [req EXCEPT ![r].old = old, ![r].pc = IF one THEN "create" ELSE "clear"]

\* cancelTask goes by the status it listed; a retrying task is left in asynq.
CancelInQueue(r, t) ==
  LET seen == req[r].old[t] IN
  /\ At(r, "cancel") /\ OldestListed(req[r].old, t)
  /\ \/ /\ seen.asynqID /\ seen.status \in {"pending", "queued"}
        /\ \/ CanDelete(t) /\ DeleteEntry(t) /\ Goto(r, "cancelWrite")
           \/ (CallFails \/ ~CanDelete(t)) /\ Dropped(r, t) /\ UNCHANGED entry
        /\ UNCHANGED ctx
     \/ /\ seen.asynqID /\ seen.status = "running"
        /\ \/ /\ CallOK /\ Goto(r, "cancelWrite")
              /\ ctx' = [ctx EXCEPT ![t] = entry[t].state = "active"]
           \/ CallFails /\ Dropped(r, t) /\ UNCHANGED ctx
        /\ UNCHANGED entry
     \/ /\ ~seen.asynqID \/ seen.status = "retrying"
        /\ Goto(r, "cancelWrite") /\ UNCHANGED <<entry, ctx>>
  /\ UNCHANGED <<row, calls, clock, unstored, made>>

CancelInStore(r, t) ==
  /\ At(r, "cancelWrite") /\ OldestListed(req[r].old, t)
  /\ TryUpdateTask(t, [req[r].old[t] EXCEPT !.status = "cancelled"])
  /\ Dropped(r, t)
  /\ UNCHANGED <<entry, calls, ctx, clock, unstored, made>>

-----------------------------------------------------------------------------
\* The worker: a cancelled task is skipped, any other one is running, and ends
\* as asynq is told; it is cancelled with its context only.
Take(t) ==
  /\ entry[t].state = "waiting"
  /\ Cardinality({u \in Tasks : entry[u].state = "active"}) < Concurrency
  /\ IF row[t].status = "cancelled" THEN Archive(t) /\ UNCHANGED row
     ELSE Dequeue(t) /\ UpdateTask(t, [row[t] EXCEPT !.status = "running"])
  /\ UNCHANGED <<req, calls, ctx, clock, unstored, made>>
Ends(t, status, verdict) ==
  /\ UpdateTask(t, [row[t] EXCEPT !.status = status])
  /\ Settle(t, verdict)
Finish(t) ==
  /\ entry[t].state = "active"
  /\ \/ ctx[t] /\ Ends(t, "cancelled", "skip")
     \/ ~ctx[t] /\ Ends(t, "succeeded", "nil")
     \/ ~ctx[t] /\ Ends(t, "failed", "skip")
     \/ ~ctx[t] /\ entry[t].retried < MaxRetry /\ Ends(t, "retrying", "err")
     \/ ~ctx[t] /\ entry[t].retried = MaxRetry /\ Ends(t, "failed", "err")
  /\ ctx' = [ctx EXCEPT ![t] = FALSE]
  /\ UNCHANGED <<req, calls, clock, unstored, made>>

-----------------------------------------------------------------------------
Receive(r) ==
  \/ IssueRequest(r) \/ MergedGenTests(r) \/ MergedE2E(r) \/ CodeFromDoc(r)
  \/ ManualModule(r) \/ WholeRepository(r)
RequestStep(r) ==
  \/ Clear(r) \/ Find(r) \/ List(r) \/ Create(r) \/ Enqueue(r) \/ MarkQueued(r)
  \/ \E t \in Tasks : CancelInQueue(r, t) \/ CancelInStore(r, t)
WorkerStep(t) == Take(t) \/ Finish(t)

Next ==
  \/ \E r \in made : Receive(r) \/ RequestStep(r)
  \/ \E t \in Tasks : WorkerStep(t)

Spec == Init /\ [][Next]_vars

-----------------------------------------------------------------------------
\* What CancelledIsReplaced and OwnTasksKept rest on and the handlers do not
\* check: no webhook is handled twice at once, a manual request has delivery ids
\* of its own, and the modules of a request have branches of their own.
DistinctRequests ==
  /\ \A S \in Scenarios : \A r, s \in S : r # s /\ KindOf(r) # "code_from_doc" =>
       Own(r) \cap Own(s) = {}
  /\ \A r \in Manual \cap Requests : MaxCalls[r] <= 1
  /\ \A r \in Requests : KindOf(r) # "code_from_doc" =>
       \A i, j \in DOMAIN TasksOf[r] : i # j => TasksOf[r][i] # TasksOf[r][j]
DistinctModules ==
  \A r \in Requests : KindOf(r) # "code_from_doc" =>
    \A t, u \in Own(r) : t # u =>
      \/ Key[t] # Key[u]
      \/ Kind[t] = "gen_tests" /\ Framework[t] \notin {"", Framework[u]}

-----------------------------------------------------------------------------
\* The tasks whose request stores the new one before it cancels the older ones.
StoredFirst == {t \in Tasks : Kind[t] \notin {"gen_tests", "run_e2e"}}

\* Where the new task is stored first, a task is cancelled only when a newer
\* one that replaces it is stored: the newest task of an issue, a branch or a
\* module survives any number of overlapping requests, failures included.
NewestKept ==
  \A t \in StoredFirst : row[t].status = "cancelled" =>
    \E u \in Tasks : Stored(u) /\ Replaces(u, t) /\ row[u].created > row[t].created

\* A request that still may store a task of the kind.
ToCome(kind) ==
  \E r \in made :
    /\ KindOf(r) = kind
    /\ \/ req[r].pc \in {"clear", "list", "cancel", "cancelWrite", "create"}
       \/ req[r].todo # << >>

\* Generated tests and whole-repository runs cancel first.  What they cancel
\* has a newer task of its kind, or one on its way, or the store failed.
CancelledIsReplaced ==
  \A t \in Tasks \ StoredFirst : row[t].status = "cancelled" =>
    \/ \E u \in Tasks : Kind[u] = Kind[t] /\ row[u].created > row[t].created
    \/ ToCome(Kind[t])
    \/ \E u \in unstored : Kind[u] = Kind[t]

\* A request cancels no task of its own: neither one its event led to when it was
\* delivered before, nor one of the other modules it enqueues.  Only the simpler
\* query, made when the active modules cannot be listed, may find one: a task it
\* has enqueued for the same module in another framework (enqueue.go:1247, against
\* the comment at 1230-1231).
OwnTasksKept ==
  [][\A r \in made : \A t \in Own(r) :
       /\ KindOf(r) # "code_from_doc"
       /\ At(r, "cancelWrite") /\ req'[r] # req[r] /\ OldestListed(req[r].old, t)
       => /\ req[r].blind /\ t # req[r].task
          /\ Key[t] = Key[req[r].task] /\ Framework[t] # Framework[req[r].task]]_vars

=============================================================================
