------------------------------ MODULE Execution -------------------------------
(***************************************************************************)
(* Processor.ProcessTask around the services: what an execution finds,     *)
(* what it makes of the service's answer, the row it leaves behind, the    *)
(* notification and the answer to asynq; and what may happen meanwhile.    *)
(***************************************************************************)
EXTENDS FixService, TestService, CodeService, E2EService, ReviewService

Init ==
  /\ \E kind \in Kinds : \E subject \in Subjects(kind), onFailure \in OnFailure(kind) :
       task = [kind |-> kind, subject |-> subject, onFailure |-> onFailure, phase |-> "queued",
               attempt |-> 0, status |-> "pending", apart |-> FALSE, ctx |-> "live", newer |-> FALSE]
  /\ run = NoRun /\ gitea = NoGitea /\ result = NoResult
  /\ slips = [faults |-> 0, crashes |-> 0, cancels |-> 0]

\* Mutant: the attempts are not counted.
RequeueForever(apart) ==
  task' = [task EXCEPT !.phase = "queued", !.attempt = @ + 1, !.apart = apart, !.ctx = "live"]

\* asynq: an error is retried later, or the entry archived with the last attempt.
\* apart: the row does not know, its write having failed, or never been reached.
Requeue(apart) ==
  LET again == task.attempt < MaxRetry IN
  task' = [task EXCEPT !.phase = IF again THEN "queued" ELSE "archived",
                       !.attempt = IF again THEN @ + 1 ELSE @,
                       !.apart = apart, !.ctx = "live"]

\* findRecord fails: nothing is written.
FindRecordFails ==
  /\ task.phase = "queued" /\ Faults /\ Requeue(TRUE)
  /\ UNCHANGED <<run, gitea, result>>

\* A cancelled task is not executed.
SkipCancelled ==
  /\ task.phase = "queued" /\ task.status = "cancelled"
  /\ task' = [task EXCEPT !.phase = "archived"]
  /\ UNCHANGED <<run, gitea, result, slips>>

\* The row is set to running, if it can be.  The review switched off ends a task as
\* succeeded, silently.
Begin ==
  /\ task.phase = "queued" /\ task.status # "cancelled" /\ UNCHANGED <<gitea, result>>
  /\ \/ UNCHANGED slips /\ task' = [task EXCEPT !.phase = "running", !.status = "running"]
     \/ Faults /\ task' = [task EXCEPT !.phase = "running"]
  /\ run' = IF Reviewing /\ task.subject = "disabled"
            THEN [NoRun EXCEPT !.pc = "store", !.status = "succeeded", !.tell = "never"]
            ELSE [NoRun EXCEPT !.pc = IF Triage THEN "container" ELSE "start"]

\* The errors ProcessTask takes for final, handled by handleSkipRetryFailure.
Deterministic ==
  {"pr_not_open", "issue_not_open", "missing_ref", "invalid_ref", "info_insufficient",
   "fix_failed", "tests_disabled", "module_not_found", "invalid_test_ref", "no_framework",
   "tests_insufficient", "tests_failed", "e2e_disabled", "code_insufficient", "code_disabled"}

\* The order of the switch: cancelled, final, degraded, tried again.
Verdict ==
  IF run.err \in {"canceled", "stale"} THEN Settles("cancelled", "skip", "never")
  ELSE IF run.err \in Deterministic THEN Settles("failed", "skip", "stored")
  ELSE IF run.err = "code_test_failure" THEN Settles("succeeded", "nil", "always")
  ELSE IF run.err \in {"fix_parse", "review_parse"} /\ ~ShouldRetry THEN Goes("degrade")
  ELSE IF run.err # "nil" \/ run.exit = 1
    THEN Settles(IF ShouldRetry THEN "retrying" ELSE "failed", "error", "stored")
  ELSE IF run.exit = 2 THEN Settles("failed", "skip", "stored")
  ELSE IF Triage /\ run.out \in {"some", "unknown"} THEN Goes("scan")
  ELSE Settles("succeeded", "nil", "stored")
Judge == At("judge") /\ Verdict /\ UNCHANGED <<task, gitea, result, slips>>

\* The final write has a context of its own; it may fail, and the row stays as it is.
Store ==
  /\ At("store") /\ UNCHANGED <<gitea, result>>
  /\ \E stored \in BOOLEAN :
       /\ IF stored THEN UNCHANGED slips ELSE Faults
       /\ task' = IF stored THEN [task EXCEPT !.status = run.status, !.apart = FALSE]
                  ELSE [task EXCEPT !.apart = TRUE]
       /\ Goes(IF run.tell = "always" \/ (run.tell = "stored" /\ stored) THEN "tell" ELSE "return")

\* The iteration loop hears of a review that succeeded first; then
\* sendCompletionNotification, but not of a review that started a repair.  Of a
\* retry one hears too.
Final == run.status \in {"succeeded", "failed"}
Looped == Reviewing /\ run.status = "succeeded" /\ run.out \in DOMAIN Outputs
Decision == IF Looped THEN Loop(run.out) ELSE "none"
Tell ==
  /\ At("tell") /\ UNCHANGED <<task, result>>
  /\ LET told == [gitea EXCEPT !.loop = Decision] IN
     \/ UNCHANGED slips /\ gitea' = IF Final THEN [told EXCEPT !.said["final"] = @ + 1] ELSE told
     \/ Faults /\ gitea' = told
     \/ Decision = "repair" /\ gitea' = told /\ UNCHANGED slips
  /\ Goes(IF Testing /\ Final /\ run.pr # 0 THEN "sync" ELSE "return")

\* syncGenTestsPRComment, CommentOnGenTestsPR: the comment with the anchor is edited.
SyncGenTestsPRComment ==
  Read("sync", Goes(IF run.pr \notin gitea.synced THEN "comment1" ELSE "edit"), Goes("return"))
CreateSyncComment == Write("comment1", [Reply("sync") EXCEPT !.synced = @ \cup {run.pr}],
                           Goes("return"), Goes("return"))
EditSyncComment == Write("edit", gitea, Goes("return"), Goes("return"))

\* asynq may notice the end of the context before the handler's answer.
Return ==
  /\ At("return") /\ run' = NoRun /\ UNCHANGED <<gitea, result, slips>>
  /\ \E ret \in {run.ret} \cup (IF Live THEN {} ELSE {"error"}) :
       IF ret = "error" THEN Requeue(task.apart \/ ~Live)
       ELSE task' = [task EXCEPT !.phase = IF ret = "nil" THEN "done" ELSE "archived",
                                 !.apart = @ \/ ~Live, !.ctx = "live"]

-----------------------------------------------------------------------------
\* The server stops: on shutdown asynq puts the entry back, after a crash its
\* recoverer does, counting the attempt.
Crash ==
  /\ task.phase = "running" /\ slips.crashes < MaxCrashes
  /\ slips' = [slips EXCEPT !.crashes = @ + 1] /\ run' = NoRun /\ UNCHANGED <<gitea, result>>
  /\ \/ task' = [task EXCEPT !.phase = "queued", !.apart = TRUE, !.ctx = "live"]
     \/ Requeue(TRUE)

\* cancelTask, by a request that replaces the task; asynq.Timeout.
Cancel ==
  /\ task.phase = "running" /\ Live /\ ~Triage /\ slips.cancels = 0
  /\ task' = [task EXCEPT !.ctx = "canceled", !.status = "cancelled"]
  /\ slips' = [slips EXCEPT !.cancels = 1] /\ UNCHANGED <<run, gitea, result>>
Expire ==
  /\ task.phase = "running" /\ Live /\ Faults
  /\ task' = [task EXCEPT !.ctx = "expired"] /\ UNCHANGED <<run, gitea, result>>

\* Somebody closes the pull request; a newer review of it is asked for.
ClosePR ==
  /\ task.phase \in {"queued", "running"} /\ gitea.pr # 0
  /\ gitea' = [gitea EXCEPT !.pr = 0] /\ UNCHANGED <<task, run, result, slips>>
NewerReview ==
  /\ Reviewing /\ task.phase = "running" /\ ~task.newer
  /\ task' = [task EXCEPT !.newer = TRUE] /\ UNCHANGED <<run, gitea, result, slips>>

Next ==
  \/ FindRecordFails \/ SkipCancelled \/ Begin \/ Judge \/ Store \/ Tell
  \/ SyncGenTestsPRComment \/ CreateSyncComment \/ EditSyncComment \/ Return
  \/ FixNext \/ TestNext \/ CodeNext \/ E2ENext \/ ReviewNext
  \/ Crash \/ Cancel \/ Expire \/ ClosePR \/ NewerReview

Spec == Init /\ [][Next]_vars

-----------------------------------------------------------------------------
\* The task, its handler and its traces are of their types, and a handler runs
\* exactly while the entry is delivered.
TypeOK ==
  /\ task.kind \in Kinds /\ task.subject \in Subjects(task.kind)
  /\ task.phase \in Phase /\ task.status \in Status /\ task.attempt \in 0 .. MaxRetry
  /\ task.ctx \in {"live", "canceled", "expired"} /\ {task.apart, task.newer} \subseteq BOOLEAN
  /\ (run.pc # "none") <=> (task.phase = "running")
  /\ run.status \in Status /\ run.exit \in 0 .. 2 /\ run.pr \in 0 .. MaxPRs
  /\ run.left \subseteq run.all /\ run.all \subseteq Cases
  /\ gitea.pr \in 0 .. gitea.made /\ gitea.made \in 0 .. MaxPRs
  /\ result.issues \subseteq Cases /\ result.marked \subseteq PRs
  /\ slips.faults \in 0 .. MaxFaults /\ slips.crashes \in 0 .. MaxCrashes

Slips == slips.faults + slips.crashes + slips.cancels
\* A call failed, or the task's context ended.
Slipped == slips.faults + slips.cancels > 0

\* The pull request of this execution has a review, or the task's row the mark of one
\* of an earlier pull request.
HasReview ==
  (run.pr \in PRs /\ gitea.reviews[run.pr] > 0) \/ result.marked \ {run.pr} # {}

\* "Succeeded" is never written of work that has not reached its addressee: an
\* analysis or a repair without its comment on the issue, tests without a pull
\* request, a triage that left a module out, an implementation without its pull
\* request or without a review of that very one, a review that is not on its pull
\* request.  Two exceptions are the code's own.  The task's row may hold the mark of
\* a review of an earlier pull request of the task, since closed: then none is asked
\* for (service.go:416).  And a review may succeed unpublished
\* (WritebackError), but only when a call failed or the task's context ended.
SucceededIsDelivered ==
  task.status = "succeeded" =>
    CASE task.kind = "analyze_issue" -> gitea.said.report > 0
      [] task.kind = "fix_issue" -> gitea.said.report > 0 /\ gitea.made > 0
      [] task.kind = "gen_tests" -> gitea.made > 0
      [] task.kind = "code_from_doc" ->
           /\ gitea.made > 0
           /\ run.status = "succeeded" /\ WantsCodeReview => HasReview
      [] task.kind = "triage_e2e" -> run.status = "succeeded" => \A m \in run.all : gitea.filed[m] > 0
      [] task.kind = "review_pr" ->
           gitea.said.review > 0 \/ task.subject = "disabled" \/ Slipped
      [] OTHER -> TRUE

\* Retries do not repeat what people read: a comment on the issue or a published
\* review is there once, a notification that the task has ended and a degraded
\* answer twice at most, as the attempt before the last takes itself for the last;
\* and once more for each call that failed, each crash, each cancellation.
SaidOnce ==
  /\ \A r \in {"reminder", "report", "review"} : gitea.said[r] <= 1 + Slips
  /\ \A r \in {"degraded", "final"} : gitea.said[r] <= 2 + Slips

\* run_e2e files one issue per failing case, however often an unstable environment
\* makes it run again.  A call that failed or a crash costs one more, or two: when
\* the row cannot be read its issues are overwritten and those filed since, kept
\* under an id no row has, are lost too.
FiledOnce == E2E => \A c \in Cases : gitea.filed[c] <= 1 + 2 * Slips

\* gen_tests keeps one comment on each of its pull requests, whatever fails: an
\* earlier one is found by its anchor and edited.
SyncedOnce == gitea.said.sync = Cardinality(gitea.synced)

\* A task tried again does not repeat what its earlier attempts have done to the
\* outside (fix/service.go, e2e/service.go:148-203, gitea_notifier.go:155-208).
NothingRepeated == SaidOnce /\ FiledOnce /\ SyncedOnce

\* A published review shows each issue the filters let through, and no other, either
\* on a line the diff has in the new file or in its body, whichever attempt and
\* whether or not the diff could be read; and approves only what the model
\* approved and nothing severe is left in (writeback.go:83-216, filter.go:86-135).
ShownAsFiltered ==
  LET shown == gitea.shown
      output == Outputs[shown.of] IN
  shown.of \in DOMAIN Outputs =>
    /\ shown.comments \cap shown.body = {}
    /\ shown.comments \cup shown.body = LetThrough(output)
    /\ \A i \in shown.comments : InDiff(i)
    /\ shown.state = "APPROVED" =>
         output.verdict = "approve" /\ ~Severe(shown.comments \cup shown.body)

\* A passing difficulty never fails a task while shouldRetry promises an attempt: it takes
\* something wrong with the task or a verdict of the container.  (Two exceptions
\* are the code's own: a framework's file that could not be asked for, a triage
\* whose modules could not be scanned or of which none could be enqueued.)
TransientIsRetried ==
  /\ run.status = "failed" /\ ShouldRetry
  /\ run.err # "no_framework" /\ ~Triage
  =>
     \/ task.subject \in Unsound
     \/ run.exit = 2 \/ run.out \in {"insufficient", "failure", "partial"}

\* The row and the queue agree on how an execution ended: done is succeeded, an
\* archived entry's row has failed or was cancelled, a queued one's says retrying
\* (failed, for the last attempt); unless the last write failed, the server died or the context ended.
RowMatchesEntry ==
  ~task.apart =>
    CASE task.phase = "done" -> task.status = "succeeded"
      [] task.phase = "archived" -> task.status \in {"failed", "cancelled"}
      [] task.phase = "queued" ->
           task.status = CASE task.attempt = 0 -> "pending"
                           [] task.attempt \in 1 .. MaxRetry - 1 -> "retrying"
                           [] OTHER -> "failed"
      [] OTHER -> TRUE

\* The comment that a repair was pushed but has no pull request is not made while
\* its pull request is open, as long as one call at most has failed.
NoFalseAlarm ==
  [][gitea'.said.noPR > gitea.said.noPR /\ slips'.faults < 2 => gitea.pr = 0]_vars

\* A review the row of code_from_doc says was enqueued for a pull request is not
\* enqueued again when the task is delivered again, if the row could be written and
\* read.
CodeReviewedOnce ==
  [][Coding /\ ~run.blind =>
       \A p \in result.marked : gitea'.reviews[p] = gitea.reviews[p]]_vars

\* The loop is told of the review that was published by this execution.
Told(decision) == gitea'.loop = decision /\ gitea.loop # decision /\ gitea.shown.of = run.out

\* The iteration loop starts a repair only of a review that asks for changes on
\* Gitea as well: the processor filters the verdict as the Writer does
\* (processor.go:651-660, writeback.go:198-216).
RepairIsAskedFor == [][Told("repair") => gitea.shown.state = "REQUEST_CHANGES"]_vars
=============================================================================
