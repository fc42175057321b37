-------------------------------- MODULE Attempt --------------------------------
(***************************************************************************)
(* One task and the executions asynq grants it: what the processor and the *)
(* services share.  An execution is a sequence of calls to Gitea, to the   *)
(* store, to the queue and to a container; every call is a step, it may    *)
(* fail, its answer may be lost, and between two calls the server may die, *)
(* the task be cancelled, the pull request be closed.                      *)
(***************************************************************************)
EXTENDS ReviewRules

CONSTANTS
  Kinds,        \* the types of task considered
  MaxRetry,     \* asynq.MaxRetry of the task
  MaxFaults,    \* bound: calls that fail or whose answer is lost
  MaxCrashes,   \* bound: deaths of the server while it executes the task
  MaxPRs,       \* bound: pull requests opened
  Cases         \* the failing cases of a run_e2e, the modules of a triage_e2e

ASSUME AttemptAssumption ==
  /\ Kinds \subseteq {"review_pr", "analyze_issue", "fix_issue", "gen_tests", "run_e2e",
                      "triage_e2e", "code_from_doc"}
  /\ {MaxFaults, MaxCrashes} \subseteq Nat /\ {MaxRetry, MaxPRs} \subseteq Nat \ {0}
  /\ IsFiniteSet(Cases)

VARIABLES
  task,     \* the task: its row in tasks and its entry in asynq
  run,      \* the locals of the handler that executes it
  gitea,    \* what the task has done to the repository and to the queue
  result,   \* its row of test_gen_results, code_from_doc_results or e2e_results
  slips     \* how often a call failed, the server died, the task was cancelled

vars == <<task, run, gitea, result, slips>>

Subjects(kind) ==
  {"sound"} \cup
  (CASE kind = "review_pr"     -> {"disabled", "closed"}
     [] kind = "analyze_issue" -> {"closed", "noref", "badref"}
     [] kind = "fix_issue"     -> {"closed", "noref", "badref", "insufficient", "tag"}
     [] kind = "gen_tests"     -> {"disabled", "badref", "nomodule", "noframework"}
     [] kind = "run_e2e"       -> {"disabled"}
     [] kind = "triage_e2e"    -> {}
     [] kind = "code_from_doc" -> {"disabled"})
\* review_on_failure of gen_tests and of code_from_doc
OnFailure(kind) == IF kind \in {"gen_tests", "code_from_doc"} THEN BOOLEAN ELSE {FALSE}
Unsound == {"disabled", "closed", "noref", "badref", "insufficient", "nomodule", "noframework"}

Status == {"pending", "running", "retrying", "succeeded", "failed", "cancelled"}
Phase == {"queued", "running", "done", "archived"}
\* sync: the comment gen_tests keeps on its pull request; final: a notification
\* that the task has ended
Replies == {"reminder", "report", "noPR", "degraded", "review", "sync", "final"}
PRs == 1 .. MaxPRs

\* err, exit: what the service returned; out: what the container said; all: the
\* cases it reported, or the modules; left, seen: those to come, those done with;
\* status, ret, tell: what becomes of the row, of the asynq entry, of the user.
NoRun == [pc |-> "none", err |-> "nil", exit |-> 0, out |-> "none", pr |-> 0, tries |-> 0,
          all |-> {}, left |-> {}, seen |-> {}, id |-> "none", blind |-> FALSE,
          status |-> "running", ret |-> "nil", tell |-> "stored"]
NoResult == [stored |-> FALSE, pr |-> 0, enqueued |-> FALSE, issues |-> {}, marked |-> {}]
NoGitea == [pr |-> 0, made |-> 0, said |-> [r \in Replies |-> 0],
            reviews |-> [p \in PRs |-> 0], filed |-> [c \in Cases |-> 0], synced |-> {},
            shown |-> NothingPublished, loop |-> "none"]

-----------------------------------------------------------------------------
At(pc) == task.phase = "running" /\ run.pc = pc
Is(kind) == task.kind = kind
Goes(pc) == run' = [run EXCEPT !.pc = pc]

\* shouldRetry; asynq executes a task 1 + MaxRetry times.
ShouldRetry == task.attempt < MaxRetry - 1

\* A call is answered, or it fails: because its context is cancelled, or for a
\* fault, and then it may have been executed all the same.
Live == task.ctx = "live"
Answered == Live /\ UNCHANGED slips
Faults == slips.faults < MaxFaults /\ slips' = [slips EXCEPT !.faults = @ + 1]
Fails == IF Live THEN Faults ELSE UNCHANGED slips
Error == IF task.ctx = "canceled" THEN "canceled" ELSE "error"

\* The service returns, to the switch on its error in ProcessTask.
Returns(err) == run' = [run EXCEPT !.pc = "judge", !.err = err]
ReturnsExit(code) == run' = [run EXCEPT !.pc = "judge", !.exit = code]

\* ProcessTask: the row to write, what asynq is told, whether the user hears of it.
Settles(status, ret, tell) ==
  run' = [run EXCEPT !.pc = "store", !.status = status, !.ret = ret, !.tell = tell]

\* A call that reads: its error ends the execution, or is passed over.
Read(pc, next, err) ==
  /\ At(pc) /\ UNCHANGED <<task, gitea, result>>
  /\ \/ Answered /\ next
     \/ Fails /\ err

\* A call that writes to Gitea: ok and err are what the handler does next.
Write(pc, effect, ok, err) ==
  /\ At(pc) /\ UNCHANGED <<task, result>>
  /\ \/ Answered /\ gitea' = effect /\ ok
     \/ Fails /\ err /\ \/ UNCHANGED gitea
                        \/ Live /\ gitea' = effect

\* CreateIssueComment
Reply(kind) == [gitea EXCEPT !.said[kind] = @ + 1]

\* CreatePullRequest: Gitea refuses a second open one of a branch.
OpenPR == [gitea EXCEPT !.made = @ + 1, !.pr = gitea.made + 1]
CreatePR(pc, ok, err) ==
  IF gitea.pr = 0 /\ gitea.made < MaxPRs THEN Write(pc, OpenPR, ok, err)
  ELSE At(pc) /\ UNCHANGED <<task, gitea, result>> /\ err
       /\ (UNCHANGED slips \/ Fails)

\* review_enqueued: marked keeps every pull request it was ever set for, which the
\* row does not; blind: the query before it failed.
Marked == IF result.stored THEN [result EXCEPT !.enqueued = TRUE, !.marked = @ \cup {run.pr}]
          ELSE result
GoesBlind(pc) == run' = [run EXCEPT !.pc = pc, !.blind = TRUE]

\* EnqueueManualReview, of a pull request
Review == [gitea EXCEPT !.reviews[run.pr] = @ + 1]

\* RunWithCommandAndStdin, whose error wraps the context's, and what the service
\* makes of the outcome: the next call, or its return.
To(pc) == [pc |-> pc, err |-> "nil", exit |-> 0]
Exit(err, code) == [pc |-> "judge", err |-> err, exit |-> code]

Container(outcome) ==
  /\ At("container") /\ UNCHANGED <<task, gitea, result, slips>>
  /\ IF ~Live THEN Returns(Error)
     ELSE \/ Returns("error")
          \/ \E o \in DOMAIN outcome :
               run' = [run EXCEPT !.out = o, !.pc = outcome[o].pc, !.err = outcome[o].err,
                                  !.exit = outcome[o].exit]
=============================================================================
