--------------------------- MODULE Execution_proofs ---------------------------
(***************************************************************************)
(* Execution: one inductive invariant for all kinds of task, and every     *)
(* safety property of the module from it.                                  *)
(*                                                                         *)
(* IInv says where the handler of a kind can be (Placed, Unanswered), what *)
(* each call knows of those before it (FixPoints .. E2EPoints), what the   *)
(* switch of ProcessTask may conclude (JudgeOK, EndOK), and counts: what   *)
(* was said and what was filed against the calls that failed, the crashes  *)
(* and the cancellations so far, and against what the row remembers        *)
(* (SaidOK, FiledOK).                                                      *)
(*                                                                         *)
(* A service's lemmas come in this order: what the container answers, the  *)
(* types and what all services have in common (...Served), from which call *)
(* to which they go (...Moves), what they say (...Says), and together that *)
(* the invariant's parts are kept (...Keeps).                              *)
(***************************************************************************)
EXTENDS Execution, ReviewRules_proofs, FiniteSetTheorems, TLAPS

-----------------------------------------------------------------------------
\* The records and their types.
RunShape ==
  run = [pc |-> run.pc, err |-> run.err, exit |-> run.exit, out |-> run.out, pr |-> run.pr,
         tries |-> run.tries, all |-> run.all, left |-> run.left, seen |-> run.seen,
         id |-> run.id, blind |-> run.blind, status |-> run.status, ret |-> run.ret,
         tell |-> run.tell]
RunOK ==
  /\ RunShape
  /\ run.exit \in {0, 1, 2} /\ run.pr \in Nat /\ run.tries \in Nat /\ run.blind \in BOOLEAN
  /\ run.all \subseteq Cases /\ run.left \subseteq run.all /\ run.status \in Status
TaskOK ==
  /\ task = [kind |-> task.kind, subject |-> task.subject, onFailure |-> task.onFailure,
             phase |-> task.phase, attempt |-> task.attempt, status |-> task.status,
             apart |-> task.apart, ctx |-> task.ctx, newer |-> task.newer]
  /\ task.kind \in Kinds /\ task.subject \in Subjects(task.kind)
  /\ task.phase \in Phase /\ task.status \in Status /\ task.attempt \in 0 .. MaxRetry
  /\ task.ctx \in {"live", "canceled", "expired"} /\ task.apart \in BOOLEAN
  /\ task.newer \in BOOLEAN
GiteaShape ==
  gitea = [pr |-> gitea.pr, made |-> gitea.made, said |-> gitea.said,
           reviews |-> gitea.reviews, filed |-> gitea.filed, synced |-> gitea.synced,
           shown |-> gitea.shown, loop |-> gitea.loop]
GiteaOK ==
  /\ GiteaShape
  /\ gitea.pr \in 0 .. gitea.made /\ gitea.made \in 0 .. MaxPRs
  /\ gitea.said \in [Replies -> Nat] /\ gitea.reviews \in [PRs -> Nat]
  /\ gitea.filed \in [Cases -> Nat] /\ gitea.synced \subseteq PRs
ResultOK ==
  /\ result = [stored |-> result.stored, pr |-> result.pr, enqueued |-> result.enqueued,
               issues |-> result.issues, marked |-> result.marked]
  /\ result.stored \in BOOLEAN /\ result.enqueued \in BOOLEAN
  /\ result.issues \subseteq Cases /\ result.marked \subseteq PRs
SlipsOK == slips \in [faults : 0 .. MaxFaults, crashes : 0 .. MaxCrashes, cancels : 0 .. 1]
Types ==
  /\ RunOK /\ TaskOK /\ GiteaOK /\ ResultOK /\ SlipsOK
  /\ run.pr <= gitea.made
  /\ (run.pc # "none") <=> (task.phase = "running")

-----------------------------------------------------------------------------
\* Where the handler of each kind can be, and ProcessTask after all of them.
FixPCs == {"ref", "refMissing", "refInvalid", "previous", "insufficient", "context", "comment",
           "doubt", "failure", "find", "base", "create", "refind", "noPR", "thank"}
TestPCs == {"module", "framework", "effects", "findTests", "createTests", "saveTests",
            "decideTests", "reviewTests", "markTests"}
CodePCs == {"findCode", "createCode", "label", "saveCode", "decideCode", "reviewCode", "markCode"}
E2EPCs == {"load", "saveE2E", "issues"}
TriagePCs == {"scan", "dispatch"}
ReviewPCs == {"labels", "files", "diff", "stale", "publish", "saveReview"}
Ending == {"store", "tell", "sync", "comment1", "edit", "return"}

Placed ==
  /\ run.pc \in {"none", "start", "container", "judge", "degrade"} \cup Ending
       \cup FixPCs \cup TestPCs \cup CodePCs \cup E2EPCs \cup TriagePCs \cup ReviewPCs
  /\ run.pc \in FixPCs => Is("analyze_issue") \/ Fixing
  /\ run.pc \in {"previous", "insufficient", "doubt", "failure", "find", "base", "create",
                 "refind", "noPR", "thank"} => Fixing
  /\ run.pc = "comment" => Is("analyze_issue")
  /\ run.pc \in TestPCs => Testing
  /\ run.pc \in CodePCs => Coding
  /\ run.pc \in E2EPCs => E2E
  /\ run.pc \in TriagePCs => Triage
  /\ run.pc \in ReviewPCs => Reviewing
  /\ run.pc = "degrade" => Fixing \/ Reviewing

\* Before the service answers there is no verdict, no error, no exit code.
Unanswered ==
  /\ run.pc \notin Ending => run.status = "running"
  /\ run.pc \in {"start", "container"} \cup TestPCs \cup CodePCs \cup E2EPCs \cup TriagePCs
                  \cup (FixPCs \ {"noPR"}) => run.err = "nil"
  /\ run.pc \notin {"judge"} \cup E2EPCs \cup Ending => run.exit = 0
  /\ Triage /\ run.pc \in {"start", "container", "judge", "scan"} => run.all = {} /\ run.seen = {}
  /\ task.phase # "running" => run = NoRun /\ Live

\* What the row may be told, and asynq.
EndPair ==
  \/ run.ret = "nil" /\ run.status = "succeeded"
  \/ run.ret = "skip" /\ run.status \in {"failed", "cancelled"}
  \/ run.ret = "error" /\ run.status = IF ShouldRetry THEN "retrying" ELSE "failed"

\* What success means, at the point where it is decided.
Reached ==
  CASE task.kind = "analyze_issue" -> gitea.said.report > 0
    [] task.kind = "fix_issue" -> gitea.said.report > 0 /\ gitea.made > 0
    [] task.kind = "gen_tests" -> gitea.made > 0
    [] task.kind = "code_from_doc" ->
         gitea.made > 0 /\ (WantsCodeReview => HasReview)
    [] task.kind = "triage_e2e" -> \A m \in run.all : gitea.filed[m] > 0
    [] task.kind = "review_pr" -> gitea.said.review > 0 \/ task.subject = "disabled" \/ Slipped
    [] OTHER -> TRUE

\* What is to blame for a failure that is final.
ToBlame ==
  task.subject \in Unsound \/ run.out \in {"insufficient", "failure", "partial"}

EndOK ==
  run.pc \in Ending =>
    /\ EndPair
    /\ run.status = "succeeded" => Reached
    /\ run.pc # "store" /\ ~task.apart /\ Live => task.status = run.status

JudgeOK ==
  run.pc = "judge" =>
    /\ run.err \in Deterministic \ {"no_framework"} => ToBlame
    /\ ~Triage /\ (run.err = "code_test_failure" \/ (run.err = "nil" /\ run.exit = 0)) => Reached
    /\ run.err = "fix_parse" => Fixing /\ run.exit = 0
    /\ run.err = "review_parse" => Reviewing /\ run.exit = 0

FixPoints ==
  /\ run.pc \in {"refMissing", "refInvalid", "insufficient"} => task.subject \in Unsound
  /\ run.pc = "doubt" => run.out = "insufficient"
  /\ run.pc = "failure" => run.out = "failure"
  /\ run.pc = "thank" => run.pr > 0
  /\ run.pc = "noPR" => run.err \in {"error", "canceled"}
  /\ run.pc = "degrade" => ~ShouldRetry
  /\ run.pc \in {"base", "create", "refind"} /\ gitea.pr # 0 /\ Live => slips.faults >= 1
  /\ run.pc = "noPR" /\ gitea.pr # 0 /\ Live => slips.faults >= 2

TestPoints ==
  /\ run.pc \in {"effects", "saveTests", "decideTests", "reviewTests", "markTests"} =>
       run.out \in {"insufficient", "failure", "partial", "ok"}
  /\ run.pc \in {"findTests", "createTests"} => Pushed
  /\ run.pc \in {"saveTests", "decideTests"} /\ Pushed => run.pr > 0
  /\ run.pc \in {"reviewTests", "markTests"} => run.pr > 0

CodePoints ==
  /\ run.pc = "saveCode" => run.out \in {"insufficient", "infrastructure", "failure", "ok"}
  /\ run.pc \in {"findCode", "createCode", "label", "decideCode", "reviewCode", "markCode"} =>
       run.out \in {"failure", "ok"}
  /\ run.pc = "saveCode" /\ run.out \in {"failure", "ok"} => run.pr > 0
  /\ run.pc \in {"label", "decideCode", "reviewCode", "markCode"} => run.pr > 0
  /\ run.pc = "markCode" => gitea.reviews[run.pr] > 0
  /\ run.pc = "decideCode" /\ ~run.blind => result.pr = run.pr
  /\ run.pc = "reviewCode" /\ ~run.blind => ~result.enqueued
  /\ Coding => \A p \in result.marked : p \in PRs /\ gitea.reviews[p] > 0
  /\ Coding => (result.enqueued <=> result.marked # {})

ReviewPoints ==
  /\ run.pc \in {"labels", "files", "diff"} => run.err = "nil"
  /\ run.pc \in {"stale", "publish", "saveReview"} =>
       run.err = "nil" \/ (run.err = "review_parse" /\ ~ShouldRetry)
  /\ run.pc \in {"diff", "stale", "publish"} /\ run.err = "nil" => run.out \in DOMAIN Outputs
  /\ run.pc = "saveReview" /\ run.err = "nil" => gitea.said.review > 0
  /\ run.pc = "degrade" /\ Reviewing => run.err = "review_parse"
  /\ ~Live => Slipped

-----------------------------------------------------------------------------
\* A context that is over, the attempt that asynq makes after the one taken for
\* the last: what may be said once more.
One(b) == IF b THEN 1 ELSE 0
Dead == One(~Live)
Late == One(task.attempt = MaxRetry)
Over == task.phase \in {"done", "archived"}
\* The execution's word on the issue or the pull request is final.
Last ==
  \/ Over
  \/ run.pc = "judge" /\ ~Triage /\ (run.err \in Deterministic \/ (run.err = "nil" /\ run.exit = 0))
  \/ run.pc = "saveReview" /\ run.err = "nil"
  \/ run.pc \in Ending /\ run.ret # "error"
\* A degraded answer was given, a notification sent.
GaveUp ==
  \/ Over
  \/ run.pc = "saveReview" /\ run.err = "review_parse"
  \/ run.pc \in Ending /\ run.status # "retrying"
Announced == Over \/ (run.pc \in Ending \ {"store", "tell"} /\ Final)

SaidOK ==
  /\ \A r \in {"reminder", "report", "review"} : gitea.said[r] + Dead <= Slips + One(Last)
  /\ gitea.said.degraded + Dead <= Slips + Late + One(GaveUp)
  /\ gitea.said.final + Dead <= Slips + Late + One(Announced)

\* An issue is filed once and remembered, or costs a slip.
Filed(c) ==
  LET F == gitea.filed[c] IN
  /\ run.pc \notin {"saveE2E", "issues"} => F <= 2 * Slips + One(c \in result.issues)
  /\ run.pc \in {"start", "container", "load"} =>
       F + 2 * Dead <= 2 * Slips + One(c \in result.issues)
  /\ run.pc \in {"saveE2E", "issues"} /\ run.id = "row" =>
       F + 2 * Dead <= 2 * Slips + One(c \in run.seen)
  /\ run.pc = "saveE2E" /\ run.id = "none" =>
       \/ F + 2 <= 2 * Slips + One(c \in result.issues)
       \/ ~result.stored /\ F + 2 * Dead <= 2 * Slips
  /\ run.pc = "issues" /\ run.id # "row" =>
       F + One(c \in run.left) <= 2 * Slips + One(c \in result.issues)
FiledOK ==
  /\ ~result.stored => result.issues = {}
  /\ run.pc = "saveE2E" => run.id \in {"none", "row"}
  /\ run.pc \in {"saveE2E", "issues"} /\ run.id = "row" => result.stored
  /\ run.pc = "saveE2E" /\ run.id = "none" => run.seen = {}
  /\ run.pc \in {"saveE2E", "issues"} => run.seen \subseteq Cases /\ run.seen \cap run.left = {}
  /\ \A c \in Cases : Filed(c)
E2EPoints ==
  /\ E2E => FiledOK
  /\ run.pc = "dispatch" => \A m \in run.seen : m \in Cases /\ gitea.filed[m] > 0

SyncedOK ==
  /\ SyncedOnce
  /\ run.pc = "comment1" => run.pr \notin gitea.synced /\ run.pr > 0
  /\ run.pc = "sync" => run.pr > 0

ShownOK ==
  gitea.shown \in {Published(o, d) : o \in DOMAIN Outputs, d \in BOOLEAN}
                    \cup {Degraded, NothingPublished}

IInv ==
  /\ Types /\ Placed /\ Unanswered /\ EndOK /\ JudgeOK
  /\ FixPoints /\ TestPoints /\ CodePoints /\ ReviewPoints /\ E2EPoints
  /\ SaidOK /\ SyncedOK /\ ShownOK
  /\ RowMatchesEntry /\ TransientIsRetried /\ SucceededIsDelivered

-----------------------------------------------------------------------------
\* What the handler's steps do to its locals.
SameData ==
  /\ run'.out = run.out /\ run'.pr = run.pr /\ run'.tries = run.tries /\ run'.all = run.all
  /\ run'.left = run.left /\ run'.seen = run.seen /\ run'.id = run.id
SameEnd == run'.status = run.status /\ run'.ret = run.ret /\ run'.tell = run.tell

\* The handler goes on to a call, and nothing else of it changes.
LEMMA GoesEffect ==
  ASSUME RunOK, NEW pc, Goes(pc)
  PROVE  /\ RunOK' /\ run'.pc = pc /\ run'.err = run.err /\ run'.exit = run.exit
         /\ run'.blind = run.blind /\ SameData /\ SameEnd
BY DEF Goes, RunOK, RunShape, SameData, SameEnd

\* The same, after a query that failed.
LEMMA GoesBlindEffect ==
  ASSUME RunOK, NEW pc, GoesBlind(pc)
  PROVE  /\ RunOK' /\ run'.pc = pc /\ run'.err = run.err /\ run'.exit = run.exit
         /\ run'.blind /\ SameData /\ SameEnd
BY DEF GoesBlind, RunOK, RunShape, SameData, SameEnd

\* The service returns an error, or none.
LEMMA ReturnsEffect ==
  ASSUME RunOK, NEW err, Returns(err)
  PROVE  /\ RunOK' /\ run'.pc = "judge" /\ run'.err = err /\ run'.exit = run.exit
         /\ run'.blind = run.blind /\ SameData /\ SameEnd
BY DEF Returns, RunOK, RunShape, SameData, SameEnd

\* The service returns the exit code.
LEMMA ReturnsExitEffect ==
  ASSUME RunOK, NEW code \in {0, 1, 2}, ReturnsExit(code)
  PROVE  /\ RunOK' /\ run'.pc = "judge" /\ run'.err = run.err /\ run'.exit = code
         /\ run'.blind = run.blind /\ SameData /\ SameEnd
BY DEF ReturnsExit, RunOK, RunShape, SameData, SameEnd

\* The switch settles the row's status, asynq's answer and the notification.
LEMMA SettlesEffect ==
  ASSUME RunOK, NEW status \in Status, NEW ret, NEW tell, Settles(status, ret, tell)
  PROVE  /\ RunOK' /\ run'.pc = "store" /\ run'.err = run.err /\ run'.exit = run.exit
         /\ run'.blind = run.blind /\ SameData
         /\ run'.status = status /\ run'.ret = ret /\ run'.tell = tell
BY DEF Settles, RunOK, RunShape, SameData

\* The error of a call is the context's or its own.
LEMMA ErrorType == Error \in {"canceled", "error"}
BY DEF Error

\* A pull request was found or opened.
Has(pc, pr) == run' = [run EXCEPT !.pc = pc, !.pr = pr]
LEMMA PREffect ==
  ASSUME RunOK, NEW pc, NEW pr \in Nat, Has(pc, pr)
  PROVE  /\ RunOK' /\ run'.pc = pc /\ run'.pr = pr /\ run'.err = run.err
         /\ run'.exit = run.exit /\ run'.blind = run.blind /\ run'.out = run.out
         /\ run'.tries = run.tries /\ run'.all = run.all /\ run'.left = run.left
         /\ run'.seen = run.seen /\ run'.id = run.id /\ SameEnd
BY DEF Has, RunOK, RunShape, SameEnd

\* The repair ends without a pull request.
LEMMA NoFixPREffect ==
  ASSUME RunOK, NoFixPR
  PROVE  /\ RunOK' /\ run'.pc = "noPR" /\ run'.err \in {"canceled", "error"}
         /\ run'.exit = run.exit /\ run'.blind = run.blind /\ SameData /\ SameEnd
BY ErrorType DEF NoFixPR, RunOK, RunShape, SameData, SameEnd

Refinds(s) == run' = [run EXCEPT !.pc = "refind", !.tries = @ + 1, !.seen = s]
\* The pull request that could not be opened is looked for again.
LEMMA RefindEffect ==
  ASSUME RunOK, NEW s, Refinds(s)
  PROVE  /\ RunOK' /\ run'.pc = "refind" /\ run'.pr = run.pr /\ run'.err = run.err
         /\ run'.exit = run.exit /\ run'.blind = run.blind /\ run'.out = run.out
         /\ run'.all = run.all /\ run'.left = run.left /\ run'.id = run.id /\ SameEnd
<1> DEFINE n == run.tries + 1
<1>1. n \in Nat /\ run' = [run EXCEPT !.pc = "refind", !.tries = n, !.seen = s]
  BY DEF Refinds, RunOK
<1> HIDE DEF n
<1> QED BY <1>1 DEF RunOK, RunShape, SameEnd

\* The container's outcome is one of a table; without a context, or for a fault,
\* there is none.
LEMMA ContainerEffect ==
  ASSUME RunOK, NEW outcome, \A o \in DOMAIN outcome : outcome[o].exit \in {0, 1, 2},
         Container(outcome)
  PROVE  /\ RunOK' /\ UNCHANGED <<task, gitea, result, slips>> /\ SameEnd
         /\ At("container") /\ run'.blind = run.blind
         /\ run'.pr = run.pr /\ run'.tries = run.tries /\ run'.all = run.all
         /\ run'.left = run.left /\ run'.seen = run.seen /\ run'.id = run.id
         /\ \/ /\ run'.pc = "judge" /\ run'.err \in {"canceled", "error"}
               /\ run'.exit = run.exit /\ run'.out = run.out
            \/ /\ Live /\ run'.out \in DOMAIN outcome /\ run'.pc = outcome[run'.out].pc
               /\ run'.err = outcome[run'.out].err /\ run'.exit = outcome[run'.out].exit
<1>1. At("container") /\ UNCHANGED <<task, gitea, result, slips>>
  BY DEF Container
<1>2. CASE Returns(Error) \/ Returns("error")
  BY <1>1, <1>2, ReturnsEffect, ErrorType DEF SameData
<1>3. CASE Live /\ \E o \in DOMAIN outcome :
               run' = [run EXCEPT !.out = o, !.pc = outcome[o].pc, !.err = outcome[o].err,
                                  !.exit = outcome[o].exit]
  <2>1. PICK o \in DOMAIN outcome :
               run' = [run EXCEPT !.out = o, !.pc = outcome[o].pc, !.err = outcome[o].err,
                                  !.exit = outcome[o].exit]
    BY <1>3
  <2> QED BY <1>1, <1>3, <2>1 DEF RunOK, RunShape, SameEnd
<1> QED BY <1>2, <1>3 DEF Container

\* What a step leaves alone stays of its type.
LEMMA Kept ==
  /\ TaskOK /\ UNCHANGED task => TaskOK'
  /\ GiteaOK /\ UNCHANGED gitea => GiteaOK'
  /\ ResultOK /\ UNCHANGED result => ResultOK'
  /\ SlipsOK /\ UNCHANGED slips => SlipsOK'
BY DEF TaskOK, GiteaOK, GiteaShape, ResultOK, SlipsOK

\* What a call of Gitea does to it.
SameGitea ==
  /\ gitea'.pr = gitea.pr /\ gitea'.made = gitea.made /\ gitea'.reviews = gitea.reviews
  /\ gitea'.filed = gitea.filed /\ gitea'.synced = gitea.synced
\* A comment counts one more reply of its kind.
LEMMA ReplyEffect ==
  ASSUME GiteaOK, NEW r \in Replies, gitea' = Reply(r)
  PROVE  /\ GiteaOK' /\ SameGitea /\ gitea'.shown = gitea.shown
         /\ gitea'.loop = gitea.loop
         /\ gitea'.said = [gitea.said EXCEPT ![r] = @ + 1]
BY DEF Reply, GiteaOK, GiteaShape, SameGitea

\* A pull request opened is the newest, and open.
LEMMA OpenPREffect ==
  ASSUME GiteaOK, gitea.made < MaxPRs, gitea' = OpenPR
  PROVE  /\ GiteaOK' /\ gitea'.made = gitea.made + 1 /\ gitea'.pr = gitea'.made
         /\ gitea'.said = gitea.said /\ gitea'.shown = gitea.shown /\ gitea'.loop = gitea.loop
         /\ gitea'.reviews = gitea.reviews
         /\ gitea'.filed = gitea.filed /\ gitea'.synced = gitea.synced
<1>1. MaxPRs \in Nat
  BY AttemptAssumption
<1>2. gitea.made + 1 \in 0 .. MaxPRs
  BY <1>1 DEF GiteaOK
<1>3. GiteaShape'
  BY DEF OpenPR, GiteaOK, GiteaShape
<1> QED BY <1>2, <1>3 DEF OpenPR, GiteaOK, GiteaShape

\* A call that fails counts once.
LEMMA FaultsEffect ==
  ASSUME SlipsOK, Faults
  PROVE  /\ SlipsOK' /\ slips'.faults = slips.faults + 1
         /\ slips'.crashes = slips.crashes /\ slips'.cancels = slips.cancels
BY AttemptAssumption DEF SlipsOK, Faults

-----------------------------------------------------------------------------
(***************************************************************************)
(* The services' steps.                                                    *)
(***************************************************************************)
Grown ==
  /\ gitea'.made >= gitea.made
  /\ \A r \in Replies : gitea'.said[r] >= gitea.said[r]
  /\ \A p \in PRs : gitea'.reviews[p] >= gitea.reviews[p]
  /\ \A c \in Cases : gitea'.filed[c] >= gitea.filed[c]

\* A service goes from one call to the next, or hands over to ProcessTask.
Served ==
  /\ task.phase = "running" /\ UNCHANGED task
  /\ run.pc \notin Ending \cup {"judge", "none"}
  /\ run'.pc \notin (Ending \ {"store"}) \cup {"none"}
  /\ run'.pc # "store" => SameEnd
  /\ run'.pc = "store" =>
       /\ EndPair' /\ (run'.status = "failed" => ~ShouldRetry \/ Triage)
       /\ run'.status = "succeeded" => Reached'
  /\ UNCHANGED slips \/ (Live /\ Faults)
  /\ Grown /\ gitea'.synced = gitea.synced /\ gitea'.said["sync"] = gitea.said["sync"]
  /\ gitea'.loop = gitea.loop /\ (gitea'.shown = gitea.shown \/ Reviewing)

\* A comment takes nothing back.
LEMMA ReplyGrows ==
  ASSUME GiteaOK, NEW r \in Replies \ {"sync"}, gitea' = Reply(r)
  PROVE  /\ Grown /\ gitea'.synced = gitea.synced /\ gitea'.said["sync"] = gitea.said["sync"]
         /\ gitea'.shown = gitea.shown /\ gitea'.loop = gitea.loop
         /\ gitea'.said[r] > 0 /\ gitea'.said[r] = gitea.said[r] + 1
         /\ \A q \in Replies \ {r} : gitea'.said[q] = gitea.said[q]
<1>1. "sync" \in Replies /\ r \in Replies /\ r # "sync"
  BY DEF Replies
<1>2. SameGitea /\ gitea'.said = [gitea.said EXCEPT ![r] = @ + 1]
  BY <1>1, ReplyEffect
<1>3. gitea.said \in [Replies -> Nat]
  BY DEF GiteaOK
<1>4. /\ gitea'.said[r] = gitea.said[r] + 1 /\ gitea.said[r] \in Nat
      /\ \A q \in Replies : gitea.said[q] \in Nat
      /\ \A q \in Replies \ {r} : gitea'.said[q] = gitea.said[q]
  BY <1>1, <1>2, <1>3
<1>5. \A q \in Replies : gitea'.said[q] >= gitea.said[q]
  BY <1>4
<1>6. /\ gitea'.made >= gitea.made /\ \A p \in PRs : gitea'.reviews[p] >= gitea.reviews[p]
      /\ \A c \in Cases : gitea'.filed[c] >= gitea.filed[c]
  BY <1>2, AttemptAssumption DEF SameGitea, GiteaOK
<1>7. gitea'.said[r] > 0
  BY <1>4
<1>8. gitea'.said["sync"] = gitea.said["sync"] /\ gitea'.synced = gitea.synced
  BY <1>1, <1>2, <1>4 DEF SameGitea
<1>9. gitea'.shown = gitea.shown /\ gitea'.loop = gitea.loop
  BY <1>1, ReplyEffect
<1> QED BY <1>4, <1>5, <1>6, <1>7, <1>8, <1>9 DEF Grown

\* Nor does a step that leaves Gitea alone.
LEMMA UnchangedGrows ==
  ASSUME GiteaOK, UNCHANGED gitea
  PROVE  /\ Grown /\ gitea'.synced = gitea.synced /\ gitea'.said["sync"] = gitea.said["sync"]
         /\ gitea'.shown = gitea.shown /\ gitea'.loop = gitea.loop
BY DEF Grown, GiteaOK

\* Nor does a pull request opened.
LEMMA OpenPRGrows ==
  ASSUME GiteaOK, gitea.made < MaxPRs, gitea' = OpenPR
  PROVE  /\ Grown /\ gitea'.synced = gitea.synced /\ gitea'.said["sync"] = gitea.said["sync"]
         /\ gitea'.shown = gitea.shown /\ gitea'.loop = gitea.loop
BY OpenPREffect DEF Grown, GiteaOK

\* Slips counts the calls that failed among others.
LEMMA SlipsEffect ==
  ASSUME SlipsOK
  PROVE  /\ Slips \in Nat
         /\ UNCHANGED slips => Slips' = Slips /\ (Slipped' <=> Slipped)
         /\ Faults => Slips' = Slips + 1 /\ Slipped'
BY FaultsEffect, AttemptAssumption DEF Slips, Slipped, SlipsOK

\* What depends on the task alone stays with it.
LEMMA TaskFrame ==
  ASSUME UNCHANGED task
  PROVE  Dead' = Dead /\ Late' = Late /\ Over' = Over /\ Live' = Live /\ ShouldRetry' = ShouldRetry
BY DEF Dead, Late, Over, Live, ShouldRetry, One

\* A step that says nothing, or something once, takes nothing back of what was said.
LEMMA SaysNothing ==
  ASSUME Types, SaidOK, UNCHANGED task, UNCHANGED slips \/ Faults, gitea'.said = gitea.said,
         Last => Last', GaveUp => GaveUp', Announced => Announced'
  PROVE  SaidOK'
<1>1. /\ One(Last) \in Nat /\ One(GaveUp) \in Nat /\ One(Announced) \in Nat
      /\ One(Last)' \in Nat /\ One(GaveUp)' \in Nat /\ One(Announced)' \in Nat
      /\ One(Last) <= One(Last)' /\ One(GaveUp) <= One(GaveUp)' /\ One(Announced) <= One(Announced)'
  BY DEF One
<1>2. Slips' >= Slips /\ Slips \in Nat /\ Slips' \in Nat
  BY SlipsEffect DEF Types
<1>3. Dead \in Nat /\ Late \in Nat /\ Dead' = Dead /\ Late' = Late
  BY TaskFrame DEF Dead, Late, One
<1>4. \A r \in Replies : gitea.said[r] \in Nat
  BY DEF Types, GiteaOK
<1>5. {"reminder", "report", "review", "degraded", "final"} \subseteq Replies
  BY DEF Replies
<1> QED BY <1>1, <1>2, <1>3, <1>4, <1>5 DEF SaidOK

\* A step that says one word keeps SaidOK if it is the last of its kind, or costs a slip.
LEMMA SaysOnce ==
  ASSUME Types, SaidOK, UNCHANGED task, UNCHANGED slips \/ Faults,
         Last => Last', GaveUp => GaveUp', Announced => Announced',
         NEW r \in Replies, gitea'.said[r] = gitea.said[r] + 1,
         \A q \in Replies \ {r} : gitea'.said[q] = gitea.said[q],
         r \in {"reminder", "report", "review"} => Faults \/ (~Last /\ Last'),
         r = "degraded" => Faults \/ (~GaveUp /\ GaveUp'),
         r = "final" => Faults \/ (~Announced /\ Announced')
  PROVE  SaidOK'
<1>1. /\ One(Last) \in Nat /\ One(GaveUp) \in Nat /\ One(Announced) \in Nat
      /\ One(Last)' \in Nat /\ One(GaveUp)' \in Nat /\ One(Announced)' \in Nat
      /\ One(Last) <= One(Last)' /\ One(GaveUp) <= One(GaveUp)' /\ One(Announced) <= One(Announced)'
      /\ ~Last /\ Last' => One(Last)' = One(Last) + 1
      /\ ~GaveUp /\ GaveUp' => One(GaveUp)' = One(GaveUp) + 1
      /\ ~Announced /\ Announced' => One(Announced)' = One(Announced) + 1
  BY DEF One
<1>2. Slips' >= Slips /\ Slips \in Nat /\ Slips' \in Nat /\ (Faults => Slips' = Slips + 1)
  BY SlipsEffect DEF Types
<1>3. Dead \in Nat /\ Late \in Nat /\ Dead' = Dead /\ Late' = Late
  BY TaskFrame DEF Dead, Late, One
<1>4. \A q \in Replies : gitea.said[q] \in Nat
  BY DEF Types, GiteaOK
<1>5. {"reminder", "report", "review", "degraded", "final"} \subseteq Replies
  BY DEF Replies
<1> QED BY <1>1, <1>2, <1>3, <1>4, <1>5 DEF SaidOK

\* Before its answer nothing a service says has been its last word.
LEMMA Unsaid ==
  ASSUME task.phase = "running", run.pc \notin {"judge", "saveReview"} \cup Ending
  PROVE  ~Last /\ ~GaveUp /\ ~Announced
BY DEF Last, GaveUp, Announced, Over

\* Before the service's answer a step that says nothing keeps SaidOK.
LEMMA Silent ==
  ASSUME Types, SaidOK, task.phase = "running", UNCHANGED task,
         run.pc \notin {"judge", "saveReview"} \cup Ending,
         UNCHANGED slips \/ Faults, gitea'.said = gitea.said
  PROVE  SaidOK'
BY Unsaid, SaysNothing

\* Before the service's answer a word is the last one or costs a slip.
LEMMA Speaks ==
  ASSUME Types, SaidOK, task.phase = "running", UNCHANGED task,
         run.pc \notin {"judge", "saveReview"} \cup Ending,
         UNCHANGED slips \/ Faults,
         NEW r \in Replies \ {"final"}, gitea' = Reply(r),
         r \in {"reminder", "report", "review"} => Faults \/ Last',
         r = "degraded" => Faults \/ GaveUp'
  PROVE  SaidOK'
<1>1. \A q \in Replies : gitea.said[q] \in Nat
  BY DEF Types, GiteaOK
<1>2. gitea'.said[r] = gitea.said[r] + 1 /\ \A q \in Replies \ {r} : gitea'.said[q] = gitea.said[q]
  BY ReplyEffect, <1>1 DEF Types, GiteaOK
<1> QED BY <1>2, Unsaid, SaysOnce

-----------------------------------------------------------------------------
\* The analysis and the repair of an issue.
LEMMA PRTypes ==
  ASSUME GiteaOK
  PROVE  gitea.pr \in Nat /\ gitea.made \in Nat /\ gitea.made + 1 \in Nat /\ MaxPRs \in Nat
         /\ gitea.pr <= gitea.made /\ gitea.made <= MaxPRs
<1>1. MaxPRs \in Nat
  BY AttemptAssumption
<1>2. gitea.made \in Nat /\ gitea.made <= MaxPRs
  BY <1>1 DEF GiteaOK
<1>3. gitea.pr \in Nat /\ gitea.pr <= gitea.made
  BY <1>2 DEF GiteaOK
<1> QED BY <1>1, <1>2, <1>3

LEMMA AnalysisAnswers ==
  ASSUME RunOK, Container(AnalysisOutcome)
  PROVE  /\ RunOK' /\ UNCHANGED <<task, gitea, result, slips>> /\ SameEnd
         /\ At("container") /\ run'.pr = run.pr /\ run'.all = run.all /\ run'.blind = run.blind
         /\ \/ run'.pc = "judge" /\ run'.err \in {"canceled", "error"} /\ run'.exit = run.exit
            \/ run'.pc = "judge" /\ run'.err = "nil" /\ run'.exit \in {1, 2}
            \/ run'.pc = "comment" /\ run'.err = "nil" /\ run'.exit = 0
<1>1. DOMAIN AnalysisOutcome = {"exit1", "exit2", "cliError", "garbled", "ok"}
  BY DEF AnalysisOutcome
<1>2. /\ AnalysisOutcome["exit1"] = Exit("nil", 1) /\ AnalysisOutcome["exit2"] = Exit("nil", 2)
      /\ AnalysisOutcome["cliError"] = Exit("nil", 1) /\ AnalysisOutcome["garbled"] = To("comment")
      /\ AnalysisOutcome["ok"] = To("comment")
  BY DEF AnalysisOutcome
<1>3. /\ Exit("nil", 1).pc = "judge" /\ Exit("nil", 1).err = "nil" /\ Exit("nil", 1).exit = 1
      /\ Exit("nil", 2).pc = "judge" /\ Exit("nil", 2).err = "nil" /\ Exit("nil", 2).exit = 2
      /\ To("comment").pc = "comment" /\ To("comment").err = "nil" /\ To("comment").exit = 0
  BY DEF Exit, To
<1>4. \A o \in DOMAIN AnalysisOutcome :
        LET e == AnalysisOutcome[o] IN
        \/ e.pc = "judge" /\ e.err = "nil" /\ e.exit \in {1, 2}
        \/ e.pc = "comment" /\ e.err = "nil" /\ e.exit = 0
  BY <1>1, <1>2, <1>3
<1>5. \A o \in DOMAIN AnalysisOutcome : AnalysisOutcome[o].exit \in {0, 1, 2}
  BY <1>4
<1>6. \/ /\ run'.pc = "judge" /\ run'.err \in {"canceled", "error"}
         /\ run'.exit = run.exit /\ run'.out = run.out
      \/ /\ Live /\ run'.out \in DOMAIN AnalysisOutcome /\ run'.pc = AnalysisOutcome[run'.out].pc
         /\ run'.err = AnalysisOutcome[run'.out].err /\ run'.exit = AnalysisOutcome[run'.out].exit
  BY <1>5, ContainerEffect
<1>7. /\ RunOK' /\ UNCHANGED <<task, gitea, result, slips>> /\ SameEnd
      /\ At("container") /\ run'.pr = run.pr /\ run'.all = run.all /\ run'.blind = run.blind
  BY <1>5, ContainerEffect
<1> QED BY <1>4, <1>6, <1>7

LEMMA FixAnswers ==
  ASSUME RunOK, Container(FixOutcome)
  PROVE  /\ RunOK' /\ UNCHANGED <<task, gitea, result, slips>> /\ SameEnd
         /\ At("container") /\ run'.pr = run.pr /\ run'.all = run.all /\ run'.blind = run.blind
         /\ \/ run'.pc = "judge" /\ run'.err \in {"canceled", "error"} /\ run'.exit = run.exit
            \/ run'.pc = "judge" /\ run'.err = "nil" /\ run'.exit \in {1, 2}
            \/ run'.pc = "judge" /\ run'.err = "fix_parse" /\ run'.exit = 0
            \/ /\ run'.err = "nil" /\ run'.exit = 0
               /\ \/ run'.pc = "doubt" /\ run'.out = "insufficient"
                  \/ run'.pc = "failure" /\ run'.out = "failure"
                  \/ run'.pc = "find" /\ run'.out = "ok"
<1>1. DOMAIN FixOutcome = {"exit1", "exit2", "garbled", "insufficient", "failure", "ok"}
  BY DEF FixOutcome
<1>2. /\ FixOutcome["exit1"] = Exit("nil", 1) /\ FixOutcome["exit2"] = Exit("nil", 2)
      /\ FixOutcome["garbled"] = Exit("fix_parse", 0)
      /\ FixOutcome["insufficient"] = To("doubt") /\ FixOutcome["failure"] = To("failure")
      /\ FixOutcome["ok"] = To("find")
  BY DEF FixOutcome
<1>3. /\ Exit("nil", 1).pc = "judge" /\ Exit("nil", 1).err = "nil" /\ Exit("nil", 1).exit = 1
      /\ Exit("nil", 2).pc = "judge" /\ Exit("nil", 2).err = "nil" /\ Exit("nil", 2).exit = 2
      /\ Exit("fix_parse", 0).pc = "judge" /\ Exit("fix_parse", 0).err = "fix_parse" /\ Exit("fix_parse", 0).exit = 0
      /\ To("doubt").pc = "doubt" /\ To("doubt").err = "nil" /\ To("doubt").exit = 0
      /\ To("failure").pc = "failure" /\ To("failure").err = "nil" /\ To("failure").exit = 0
      /\ To("find").pc = "find" /\ To("find").err = "nil" /\ To("find").exit = 0
  BY DEF Exit, To
<1>4. \A o \in DOMAIN FixOutcome :
        LET e == FixOutcome[o] IN
        \/ e.pc = "judge" /\ e.err = "nil" /\ e.exit \in {1, 2}
        \/ e.pc = "judge" /\ e.err = "fix_parse" /\ e.exit = 0
        \/ /\ e.err = "nil" /\ e.exit = 0
           /\ \/ e.pc = "doubt" /\ o = "insufficient"
              \/ e.pc = "failure" /\ o = "failure"
              \/ e.pc = "find" /\ o = "ok"
  BY <1>1, <1>2, <1>3
<1>5. \A o \in DOMAIN FixOutcome : FixOutcome[o].exit \in {0, 1, 2}
  BY <1>4
<1>6. \/ /\ run'.pc = "judge" /\ run'.err \in {"canceled", "error"}
         /\ run'.exit = run.exit /\ run'.out = run.out
      \/ /\ Live /\ run'.out \in DOMAIN FixOutcome /\ run'.pc = FixOutcome[run'.out].pc
         /\ run'.err = FixOutcome[run'.out].err /\ run'.exit = FixOutcome[run'.out].exit
  BY <1>5, ContainerEffect
<1>7. /\ RunOK' /\ UNCHANGED <<task, gitea, result, slips>> /\ SameEnd
      /\ At("container") /\ run'.pr = run.pr /\ run'.all = run.all /\ run'.blind = run.blind
  BY <1>5, ContainerEffect
<1> QED BY <1>4, <1>6, <1>7

LEMMA FoundEffect ==
  ASSUME RunOK, GiteaOK, NEW pc, Has(pc, gitea.pr)
  PROVE  /\ RunOK' /\ run'.pc = pc /\ run'.err = run.err
         /\ run'.exit = run.exit /\ run'.blind = run.blind /\ run'.out = run.out
         /\ run'.tries = run.tries /\ run'.all = run.all /\ run'.left = run.left
         /\ run'.seen = run.seen /\ run'.id = run.id /\ SameEnd
         /\ run'.pr = gitea.pr /\ run'.pr \in Nat /\ run'.pr <= gitea.made
BY PRTypes, PREffect

LEMMA OpenedEffect ==
  ASSUME RunOK, GiteaOK, NEW pc, Has(pc, gitea.made + 1)
  PROVE  /\ RunOK' /\ run'.pc = pc /\ run'.err = run.err
         /\ run'.exit = run.exit /\ run'.blind = run.blind /\ run'.out = run.out
         /\ run'.tries = run.tries /\ run'.all = run.all /\ run'.left = run.left
         /\ run'.seen = run.seen /\ run'.id = run.id /\ SameEnd
         /\ run'.pr = gitea.made + 1 /\ run'.pr \in Nat /\ run'.pr > 0
BY PRTypes, PREffect

\* A step of the analysis or the repair keeps the types and is one of a service.
LEMMA FixServed ==
  ASSUME IInv, FixNext
  PROVE  Types' /\ Served
<1> USE GoesEffect, ReturnsEffect, ReturnsExitEffect, SettlesEffect, ReplyEffect, OpenPREffect,
     FaultsEffect,
        ErrorType, Kept, ReplyGrows, UnchangedGrows, OpenPRGrows
<1> USE DEF IInv, Types, Served, Read, Write, Answered, Fails, At, SameData, Ending, Replies,
     SameGitea
<1>1. CASE GetIssue
  BY <1>1 DEF GetIssue
<1>2. CASE ValidateRef
  BY <1>2 DEF ValidateRef
<1>3. CASE CommentRefMissing
  BY <1>3 DEF CommentRefMissing
<1>4. CASE CommentRefInvalid
  BY <1>4 DEF CommentRefInvalid
<1>5. CASE CheckPreviousAnalysis
  BY <1>5 DEF CheckPreviousAnalysis
<1>6. CASE CommentInsufficient
  BY <1>6 DEF CommentInsufficient
<1>7. CASE CollectContext
  BY <1>7 DEF CollectContext
<1>8. CASE RunFix
  BY <1>8, AnalysisAnswers, FixAnswers DEF RunFix
<1>9. CASE CommentAnalysis
  BY <1>9 DEF CommentAnalysis
<1>10. CASE CommentDoubt
  BY <1>10 DEF CommentDoubt
<1>11. CASE CommentFailure
  BY <1>11 DEF CommentFailure
<1>12. CASE FindFixPR
  <2>1. /\ Fixing /\ At("find") /\ UNCHANGED <<task, gitea, result>> /\ (Answered \/ Fails)
        /\ Has("thank", gitea.pr) \/ Goes("base") \/ Goes("create")
    BY <1>12 DEF FindFixPR, Reuses, Has
  <2> QED BY <2>1, FoundEffect
<1>13. CASE DefaultBranch
  BY <1>13, NoFixPREffect DEF DefaultBranch
<1>14. CASE CreateFixPR
  <2>1. CASE Has("thank", gitea.made + 1) /\ gitea.made < MaxPRs /\ gitea' = OpenPR
    BY <1>14, <2>1, PRTypes, OpenedEffect DEF CreateFixPR, CreatePR
  <2>2. CASE \E s : Refinds(s)
    <3>1. PICK s : Refinds(s)
      BY <2>2
    <3>2. /\ Fixing /\ At("create") /\ UNCHANGED <<task, result>> /\ (Answered \/ Fails)
          /\ UNCHANGED gitea \/ (gitea.made < MaxPRs /\ gitea' = OpenPR)
      BY <1>14 DEF CreateFixPR, CreatePR
    <3>3. run.pr \in Nat
      BY DEF RunOK
    <3> QED BY <3>1, <3>2, <3>3, PRTypes, RefindEffect
  <2> QED BY <1>14, <2>1, <2>2 DEF CreateFixPR, CreatePR, Has, Refinds
<1>15. CASE RefindFixPR
  <2>1. /\ At("refind") /\ UNCHANGED <<task, gitea, result>> /\ (Answered \/ Fails)
        /\ Has("thank", gitea.pr) \/ Goes("create") \/ NoFixPR
    BY <1>15 DEF RefindFixPR, Reuses, CreateAgain, Has
  <2> QED BY <2>1, FoundEffect, NoFixPREffect
<1>16. CASE CommentNoPR
  BY <1>16 DEF CommentNoPR
<1>17. CASE CommentSuccess
  BY <1>17 DEF CommentSuccess
<1>18. CASE DegradeFix
  BY <1>18, TaskFrame DEF DegradeFix, GivesUp, EndPair, FixPoints, Status
<1> QED BY <1>1, <1>2, <1>3, <1>4, <1>5, <1>6, <1>7, <1>8, <1>9, <1>10, <1>11, <1>12, <1>13,
     <1>14, <1>15, <1>16, <1>17, <1>18 DEF FixNext

\* What the analysis and the repair know where they are.
FixMove ==
  \/ /\ run'.err = "nil" /\ run'.exit = 0
     /\ \/ run'.pc \in {"ref", "context", "container"}
        \/ run'.pc \in {"refMissing", "refInvalid"} /\ task.subject \in Unsound
        \/ run'.pc = "comment" /\ Is("analyze_issue")
        \/ Fixing /\ \/ run'.pc \in {"previous", "find"}
                     \/ run'.pc = "insufficient" /\ task.subject \in Unsound
                     \/ run'.pc = "doubt" /\ run'.out = "insufficient"
                     \/ run'.pc = "failure" /\ run'.out = "failure"
                     \/ run'.pc = "thank" /\ run'.pr > 0
                     \/ /\ run'.pc \in {"base", "create", "refind"}
                        /\ gitea'.pr # 0 /\ Live => slips'.faults >= 1
  \/ /\ Fixing /\ run'.pc = "noPR" /\ run'.err \in {"error", "canceled"} /\ run'.exit = 0
     /\ gitea'.pr # 0 /\ Live => slips'.faults >= 2
  \/ /\ run'.pc = "judge"
     /\ \/ run'.err \in {"error", "canceled"}
        \/ run'.err = "nil" /\ run'.exit \in {1, 2}
        \/ run'.err = "nil" /\ gitea'.said["report"] > 0 /\ (Fixing => gitea'.made > 0)
        \/ run'.err = "fix_parse" /\ Fixing /\ run'.exit = 0
        \/ /\ run'.err \in {"issue_not_open", "missing_ref", "invalid_ref",
                           "info_insufficient", "fix_failed"}
           /\ task.subject \in Unsound \/ run'.out \in {"insufficient", "failure"}
  \/ run'.pc = "store" /\ Fixing

LEMMA FixKnows ==
  ASSUME IInv
  PROVE  /\ run.pc \in {"start", "container", "ref", "refMissing", "refInvalid", "previous", "context",
                       "insufficient", "comment", "doubt", "failure", "find", "base", "create",
                       "refind", "thank"} => run.err = "nil" /\ run.exit = 0
         /\ run.pc = "noPR" => run.exit = 0
         /\ run.pc \in {"ref", "refMissing", "refInvalid", "context"} => Is("analyze_issue") \/ Fixing
         /\ run.pc \in {"previous", "insufficient", "doubt", "failure", "find", "base", "create",
                       "refind", "noPR", "thank"} => Fixing
         /\ run.pc = "comment" => Is("analyze_issue")
         /\ FixPoints
         /\ SlipsOK /\ GiteaOK /\ RunOK /\ run.pr <= gitea.made
         /\ slips.faults \in Nat /\ run.pr \in Nat /\ gitea.made \in Nat /\ gitea.pr \in Nat
<1>1. SlipsOK /\ GiteaOK /\ RunOK /\ run.pr <= gitea.made /\ FixPoints
  BY DEF IInv, Types
<1>2. slips.faults \in Nat
  BY <1>1, AttemptAssumption DEF SlipsOK
<1>3. run.pr \in Nat /\ gitea.made \in Nat /\ gitea.pr \in Nat
  BY <1>1, PRTypes DEF RunOK
<1> QED BY <1>1, <1>2, <1>3 DEF IInv, Placed, Unanswered, FixPCs, Ending, E2EPCs

\* From which call to which, and what the next one knows.
LEMMA FixMoves ==
  ASSUME IInv, FixNext
  PROVE  FixMove /\ (Is("analyze_issue") \/ Fixing)
<1> USE FixKnows, GoesEffect, ReturnsEffect, ReturnsExitEffect, SettlesEffect, ErrorType,
     FaultsEffect, ReplyGrows
<1> USE DEF FixMove, FixPoints, Unsound, Read, Write, Answered, Fails, At, SameData, Replies
<1>1. CASE GetIssue
  BY <1>1 DEF GetIssue
<1>2. CASE ValidateRef
  BY <1>2 DEF ValidateRef
<1>3. CASE CommentRefMissing
  BY <1>3 DEF CommentRefMissing
<1>4. CASE CommentRefInvalid
  BY <1>4 DEF CommentRefInvalid
<1>5. CASE CheckPreviousAnalysis
  BY <1>5 DEF CheckPreviousAnalysis
<1>6. CASE CommentInsufficient
  BY <1>6 DEF CommentInsufficient
<1>7. CASE CollectContext
  BY <1>7 DEF CollectContext
<1>8. CASE RunFix
  BY <1>8, AnalysisAnswers, FixAnswers DEF RunFix
<1>9. CASE CommentAnalysis
  BY <1>9 DEF CommentAnalysis, Fixing, Is
<1>10. CASE CommentDoubt
  BY <1>10 DEF CommentDoubt
<1>11. CASE CommentFailure
  BY <1>11 DEF CommentFailure
<1>12. CASE FindFixPR
  <2>1. CASE Reuses /\ gitea.pr # 0
    <3>1. Has("thank", gitea.pr) /\ Fixing /\ At("find")
      BY <1>12, <2>1 DEF FindFixPR, Reuses, Has
    <3> QED BY <3>1, <2>1, FoundEffect
  <2>2. CASE ~(Reuses /\ gitea.pr # 0)
    <3>1. /\ Fixing /\ At("find") /\ UNCHANGED gitea
          /\ \/ gitea.pr = 0
             \/ IF Live THEN Faults ELSE UNCHANGED slips
          /\ Goes("base") \/ Goes("create")
      BY <1>12, <2>2 DEF FindFixPR
    <3> QED BY <3>1
  <2> QED BY <2>1, <2>2
<1>13. CASE DefaultBranch
  BY <1>13, NoFixPREffect DEF DefaultBranch
<1>14. CASE CreateFixPR
  <2>1. Fixing /\ At("create")
    BY <1>14 DEF CreateFixPR, CreatePR
  <2>2. CASE Has("thank", gitea.made + 1)
    BY <2>1, <2>2, OpenedEffect
  <2>3. CASE (UNCHANGED <<gitea, slips>> \/ Fails) /\ \E s : Refinds(s)
    <3>1. PICK s : Refinds(s)
      BY <2>3
    <3> QED BY <2>1, <2>3, <3>1, RefindEffect
  <2> QED BY <1>14, <2>2, <2>3 DEF CreateFixPR, CreatePR, Has, Refinds
<1>15. CASE RefindFixPR
  <2>1. CASE Reuses /\ gitea.pr # 0
    <3>1. Has("thank", gitea.pr) /\ Fixing /\ At("refind")
      BY <1>15, <2>1 DEF RefindFixPR, Reuses, Has
    <3> QED BY <3>1, <2>1, FoundEffect
  <2>2. CASE ~(Reuses /\ gitea.pr # 0)
    <3>1. /\ Fixing /\ At("refind") /\ UNCHANGED gitea
          /\ \/ gitea.pr = 0 /\ UNCHANGED slips
             \/ IF Live THEN Faults ELSE UNCHANGED slips
          /\ NoFixPR \/ (Goes("create") /\ Live)
      BY <1>15, <2>2 DEF RefindFixPR, CreateAgain
    <3> QED BY <3>1, NoFixPREffect
  <2> QED BY <2>1, <2>2
<1>16. CASE CommentNoPR
  BY <1>16 DEF CommentNoPR
<1>17. CASE CommentSuccess
  <2>1. gitea'.made = gitea.made
    BY <1>17, ReplyEffect DEF CommentSuccess, SameGitea
  <2> QED BY <1>17, <2>1 DEF CommentSuccess
<1>18. CASE DegradeFix
  BY <1>18 DEF DegradeFix, GivesUp, Status
<1> QED BY <1>1, <1>2, <1>3, <1>4, <1>5, <1>6, <1>7, <1>8, <1>9, <1>10, <1>11, <1>12, <1>13,
     <1>14, <1>15, <1>16, <1>17, <1>18 DEF FixNext

\* What they say, and that it is their last word, or an answer was lost.
FixSays ==
  \/ UNCHANGED gitea \/ (gitea.made < MaxPRs /\ gitea' = OpenPR)
  \/ gitea' = Reply("noPR") /\ run.pc = "noPR" /\ Live
  \/ gitea' = Reply("degraded") /\ run'.pc = "store" /\ run'.status = "failed"
  \/ /\ gitea' = Reply("reminder") \/ gitea' = Reply("report")
     /\ \/ Faults
        \/ /\ run'.pc = "judge"
           /\ \/ run'.err \in {"missing_ref", "invalid_ref", "info_insufficient", "fix_failed"}
              \/ run'.err = "nil" /\ run'.exit = 0

\* Every step of the fix service says what FixSays lists.
LEMMA FixSaysOnce ==
  ASSUME IInv, FixNext
  PROVE  FixSays
<1> USE FixKnows, ReturnsEffect, ReturnsExitEffect, SettlesEffect
<1> USE DEF FixSays, Read, Write, Fails, At
<1>1. CASE GetIssue
  BY <1>1 DEF GetIssue
<1>2. CASE ValidateRef
  BY <1>2 DEF ValidateRef
<1>3. CASE CommentRefMissing
  BY <1>3 DEF CommentRefMissing
<1>4. CASE CommentRefInvalid
  BY <1>4 DEF CommentRefInvalid
<1>5. CASE CheckPreviousAnalysis
  BY <1>5 DEF CheckPreviousAnalysis
<1>6. CASE CommentInsufficient
  BY <1>6 DEF CommentInsufficient
<1>7. CASE CollectContext
  BY <1>7 DEF CollectContext
<1>8. CASE RunFix
  BY <1>8 DEF RunFix, Container
<1>9. CASE CommentAnalysis
  BY <1>9 DEF CommentAnalysis
<1>10. CASE CommentDoubt
  BY <1>10 DEF CommentDoubt
<1>11. CASE CommentFailure
  BY <1>11 DEF CommentFailure
<1>12. CASE FindFixPR
  BY <1>12 DEF FindFixPR
<1>13. CASE DefaultBranch
  BY <1>13 DEF DefaultBranch
<1>14. CASE CreateFixPR
  BY <1>14 DEF CreateFixPR, CreatePR
<1>15. CASE RefindFixPR
  BY <1>15 DEF RefindFixPR
<1>16. CASE CommentNoPR
  BY <1>16 DEF CommentNoPR, Answered
<1>17. CASE CommentSuccess
  BY <1>17 DEF CommentSuccess
<1>18. CASE DegradeFix
  BY <1>18 DEF DegradeFix, GivesUp, Status
<1> QED BY <1>1, <1>2, <1>3, <1>4, <1>5, <1>6, <1>7, <1>8, <1>9, <1>10, <1>11, <1>12, <1>13,
     <1>14, <1>15, <1>16, <1>17, <1>18 DEF FixNext

\* The fix service keeps its parts of the invariant.
LEMMA FixKeeps ==
  ASSUME IInv, FixNext
  PROVE  /\ Types' /\ Served /\ Placed' /\ Unanswered' /\ FixPoints' /\ JudgeOK' /\ SaidOK'
         /\ run'.pc \in FixPCs \cup {"container", "judge", "store"}
         /\ (Is("analyze_issue") \/ Fixing) /\ UNCHANGED result
<1>1. Types' /\ Served /\ FixMove /\ FixSays /\ (Is("analyze_issue") \/ Fixing)
  BY FixServed, FixMoves, FixSaysOnce
<1>2. UNCHANGED task /\ task.phase = "running"
  BY <1>1 DEF Served
<1>3. run'.pc \in FixPCs \cup {"container", "judge", "store"}
  BY <1>1 DEF FixMove, FixPCs
<1>4. Placed'
  BY <1>1, <1>2 DEF FixMove, Placed, FixPCs, TestPCs, CodePCs, E2EPCs, TriagePCs, ReviewPCs, Ending,
                    Is, Fixing, Testing, Coding, E2E, Triage, Reviewing
<1>5. Unanswered'
  BY <1>1, <1>2 DEF FixMove, Served, SameEnd, IInv, Unanswered, FixPCs, TestPCs, CodePCs,
       E2EPCs, TriagePCs, Ending, Is, Fixing, Triage
<1>6. FixPoints'
  BY <1>1, <1>2, TaskFrame DEF FixMove, FixPoints
<1>7. JudgeOK'
  BY <1>1, <1>2 DEF FixMove, JudgeOK, Reached, ToBlame, Deterministic, Is, Fixing, Triage
<1>8. SaidOK'
  <2>1. Types /\ SaidOK /\ run.pc \notin {"judge", "saveReview"} \cup Ending
        /\ (UNCHANGED slips \/ Faults)
    BY <1>1 DEF Served, IInv, Placed, ReviewPCs, Is, Fixing, Reviewing
  <2>2. CASE UNCHANGED gitea \/ (gitea.made < MaxPRs /\ gitea' = OpenPR)
    <3>1. gitea'.said = gitea.said
      BY <2>1, <2>2, OpenPREffect DEF Types
    <3> QED BY <1>2, <2>1, <3>1, Silent
  <2>3. CASE gitea' = Reply("noPR")
    BY <1>2, <2>1, <2>3, Speaks DEF Replies
  <2>4. CASE gitea' = Reply("degraded") /\ run'.pc = "store" /\ run'.status = "failed"
    BY <1>2, <2>1, <2>4, Speaks DEF Replies, GaveUp, Ending
  <2>5. CASE /\ gitea' = Reply("reminder") \/ gitea' = Reply("report")
             /\ Faults \/ Last'
    BY <1>2, <2>1, <2>5, Speaks DEF Replies
  <2> QED BY <1>1, <1>2, <2>2, <2>3, <2>4, <2>5
        DEF FixSays, Last, Deterministic, Is, Fixing, Triage
<1>9. UNCHANGED result
  BY DEF FixNext, GetIssue, ValidateRef, CommentRefMissing, CommentRefInvalid,
         CheckPreviousAnalysis, CommentInsufficient, CollectContext, RunFix, CommentAnalysis,
         CommentDoubt, CommentFailure, FindFixPR, DefaultBranch, CreateFixPR, CreatePR,
         RefindFixPR, CommentNoPR, CommentSuccess, DegradeFix, Read, Write, Container
<1> QED BY <1>1, <1>3, <1>4, <1>5, <1>6, <1>7, <1>8, <1>9

-----------------------------------------------------------------------------
\* The generation of tests.
LEMMA TestAnswers ==
  ASSUME RunOK, Container(TestOutcome)
  PROVE  /\ RunOK' /\ UNCHANGED <<task, gitea, result, slips>> /\ SameEnd
         /\ At("container") /\ run'.pr = run.pr /\ run'.all = run.all /\ run'.blind = run.blind
         /\ run'.left = run.left /\ run'.seen = run.seen /\ run'.id = run.id
         /\ \/ run'.pc = "judge" /\ run'.err \in {"canceled", "error"} /\ run'.exit = run.exit
            \/ run'.pc = "judge" /\ run'.err = "nil" /\ run'.exit = 1 /\ run'.out = "exit1"
            \/ run'.pc = "judge" /\ run'.err = "nil" /\ run'.exit = 2 /\ run'.out = "exit2"
            \/ run'.pc = "judge" /\ run'.err = "tests_parse" /\ run'.exit = 0 /\ run'.out = "garbled"
            \/ run'.pc = "effects" /\ run'.err = "nil" /\ run'.exit = 0 /\ run'.out \in {"insufficient", "failure", "partial", "ok"}
<1>1. DOMAIN TestOutcome = {"exit1", "exit2", "garbled", "insufficient", "failure", "partial", "ok"}
  BY DEF TestOutcome
<1>2. /\ TestOutcome["exit1"] = Exit("nil", 1)
      /\ TestOutcome["exit2"] = Exit("nil", 2)
      /\ TestOutcome["garbled"] = Exit("tests_parse", 0)
      /\ TestOutcome["insufficient"] = To("effects")
      /\ TestOutcome["failure"] = To("effects")
      /\ TestOutcome["partial"] = To("effects")
      /\ TestOutcome["ok"] = To("effects")
  BY DEF TestOutcome
<1>3. /\ Exit("nil", 1).pc = "judge" /\ Exit("nil", 1).err = "nil" /\ Exit("nil", 1).exit = 1
      /\ Exit("nil", 2).pc = "judge" /\ Exit("nil", 2).err = "nil" /\ Exit("nil", 2).exit = 2
      /\ Exit("tests_parse", 0).pc = "judge" /\ Exit("tests_parse", 0).err = "tests_parse" /\ Exit("tests_parse", 0).exit = 0
      /\ To("effects").pc = "effects" /\ To("effects").err = "nil" /\ To("effects").exit = 0
  BY DEF Exit, To
<1>4. \A o \in DOMAIN TestOutcome :
        LET e == TestOutcome[o] IN
        \/ e.pc = "judge" /\ e.err = "nil" /\ e.exit = 1 /\ o = "exit1"
        \/ e.pc = "judge" /\ e.err = "nil" /\ e.exit = 2 /\ o = "exit2"
        \/ e.pc = "judge" /\ e.err = "tests_parse" /\ e.exit = 0 /\ o = "garbled"
        \/ e.pc = "effects" /\ e.err = "nil" /\ e.exit = 0 /\ o \in {"insufficient", "failure", "partial", "ok"}
  BY <1>1, <1>2, <1>3
<1>5. \A o \in DOMAIN TestOutcome : TestOutcome[o].exit \in {0, 1, 2}
  BY <1>4
<1>6. \/ /\ run'.pc = "judge" /\ run'.err \in {"canceled", "error"}
         /\ run'.exit = run.exit /\ run'.out = run.out
      \/ /\ Live /\ run'.out \in DOMAIN TestOutcome /\ run'.pc = TestOutcome[run'.out].pc
         /\ run'.err = TestOutcome[run'.out].err /\ run'.exit = TestOutcome[run'.out].exit
  BY <1>5, ContainerEffect
<1>7. /\ RunOK' /\ UNCHANGED <<task, gitea, result, slips>> /\ SameEnd
      /\ At("container") /\ run'.pr = run.pr /\ run'.all = run.all /\ run'.blind = run.blind
      /\ run'.left = run.left /\ run'.seen = run.seen /\ run'.id = run.id
  BY <1>5, ContainerEffect
<1> QED BY <1>4, <1>6, <1>7

LEMMA MarkedEffect ==
  ASSUME ResultOK, run.pr \in PRs, result' = Marked
  PROVE  ResultOK' /\ (Coding /\ result'.marked # {} /\ (result.marked # {} => result.enqueued) => result'.enqueued)
         /\ (result'.enqueued => result.enqueued \/ result.stored)
         /\ (result.enqueued => result'.enqueued)
BY DEF Marked, ResultOK

LEMMA ReviewEffect ==
  ASSUME GiteaOK, run.pr \in PRs, gitea' = Review
  PROVE  /\ GiteaOK' /\ Grown /\ gitea'.pr = gitea.pr /\ gitea'.made = gitea.made
         /\ gitea'.said = gitea.said /\ gitea'.filed = gitea.filed
         /\ gitea'.synced = gitea.synced /\ gitea'.shown = gitea.shown
         /\ gitea'.loop = gitea.loop
         /\ gitea'.reviews[run.pr] > 0
         /\ \A p \in PRs \ {run.pr} : gitea'.reviews[p] = gitea.reviews[p]
BY AttemptAssumption DEF Review, GiteaOK, GiteaShape, Grown

LEMMA PRInRange ==
  ASSUME Types, run.pr > 0
  PROVE  run.pr \in PRs
<1>1. run.pr \in Nat /\ gitea.made \in Nat /\ MaxPRs \in Nat /\ gitea.made <= MaxPRs /\ run.pr <= gitea.made
  BY PRTypes DEF Types, RunOK
<1> QED BY <1>1 DEF PRs

\* A step of the generation of tests keeps the types and is one of a service.
LEMMA TestServed ==
  ASSUME IInv, TestNext
  PROVE  Types' /\ Served
<1> USE GoesEffect, GoesBlindEffect, ReturnsEffect, FaultsEffect, ErrorType, Kept, UnchangedGrows,
        OpenPRGrows, OpenPREffect, PRTypes, FoundEffect, OpenedEffect, PRInRange
<1> USE DEF IInv, Types, Served, Read, Write, Answered, Fails, At, SameData, Ending
<1>1. CASE ResolveBaseRef
  BY <1>1 DEF ResolveBaseRef
<1>2. CASE ValidateModuleExists
  BY <1>2 DEF ValidateModuleExists
<1>3. CASE ResolveFramework
  BY <1>3 DEF ResolveFramework
<1>4. CASE RunTests
  BY <1>4, TestAnswers DEF RunTests
<1>5. CASE BeforeEffects
  BY <1>5 DEF BeforeEffects
<1>6. CASE FindTestPR
  <2>1. /\ At("findTests") /\ UNCHANGED <<task, gitea, result>> /\ (Answered \/ Fails)
        /\ Has("saveTests", gitea.pr) \/ Goes("createTests")
    BY <1>6 DEF FindTestPR, Has
  <2> QED BY <2>1
<1>7. CASE CreateTestPR
  <2>1. CASE Has("saveTests", gitea.made + 1) /\ gitea.made < MaxPRs /\ gitea' = OpenPR
    BY <1>7, <2>1 DEF CreateTestPR, CreatePR
  <2>2. CASE Returns(Error)
    <3>1. /\ At("createTests") /\ UNCHANGED <<task, result>> /\ (Answered \/ Fails \/ UNCHANGED slips)
          /\ UNCHANGED gitea \/ (gitea.made < MaxPRs /\ gitea' = OpenPR)
      BY <1>7 DEF CreateTestPR, CreatePR
    <3>2. run.pr \in Nat
      BY DEF RunOK
    <3> QED BY <2>2, <3>1, <3>2
  <2> QED BY <1>7, <2>1, <2>2 DEF CreateTestPR, CreatePR, Has
<1>8. CASE PersistTestGenResult
  <2>1. ResultOK'
    BY <1>8, Kept DEF PersistTestGenResult, ResultOK, NoResult
  <2> QED BY <1>8, <2>1 DEF PersistTestGenResult
<1>9. CASE DecideReview
  <2>1. /\ At("decideTests") /\ UNCHANGED <<task, gitea, result>> /\ (Answered \/ Fails \/ UNCHANGED slips)
        /\ Returns(TestVerdict) \/ Goes("reviewTests") \/ GoesBlind("reviewTests")
    BY <1>9 DEF DecideReview
  <2>2. CASE Returns(TestVerdict)
    BY <2>1, <2>2
  <2>3. CASE Goes("reviewTests")
    BY <2>1, <2>3
  <2>4. CASE GoesBlind("reviewTests")
    BY <2>1, <2>4
  <2> QED BY <2>1, <2>2, <2>3, <2>4
<1>10. CASE EnqueueTestReview
  BY <1>10, ReviewEffect DEF EnqueueTestReview, TestPoints
<1>11. CASE MarkTestReview
  BY <1>11, MarkedEffect DEF MarkTestReview, TestPoints
<1> QED BY <1>1, <1>2, <1>3, <1>4, <1>5, <1>6, <1>7, <1>8, <1>9, <1>10, <1>11 DEF TestNext

TestMove ==
  \/ /\ run'.err = "nil" /\ run'.exit = 0
     /\ \/ run'.pc \in {"module", "framework", "container"}
        \/ /\ run'.out \in {"insufficient", "failure", "partial", "ok"}
           /\ \/ run'.pc = "effects"
              \/ run'.pc \in {"findTests", "createTests"} /\ Pushed'
              \/ run'.pc \in {"saveTests", "decideTests"} /\ (Pushed' => run'.pr > 0)
              \/ run'.pc \in {"reviewTests", "markTests"} /\ run'.pr > 0
  \/ /\ run'.pc = "judge"
     /\ \/ run'.err \in {"error", "canceled", "tests_parse", "no_framework"}
        \/ run'.err = "nil" /\ run'.exit \in {1, 2}
        \/ run'.err = "nil" /\ run'.pr > 0
        \/ /\ run'.err \in {"tests_disabled", "invalid_test_ref", "module_not_found"}
           /\ task.subject \in Unsound
        \/ /\ run'.err \in {"tests_insufficient", "tests_failed"}
           /\ run'.out \in {"insufficient", "failure", "partial"}

LEMMA TestKnows ==
  ASSUME IInv
  PROVE  /\ run.pc \in {"start", "container"} \cup TestPCs => run.err = "nil" /\ run.exit = 0
         /\ run.pc \in TestPCs => Testing
         /\ TestPoints /\ GiteaOK /\ RunOK
         /\ run.pr \in Nat /\ gitea.made \in Nat /\ gitea.pr \in Nat
<1>1. GiteaOK /\ RunOK
  BY DEF IInv, Types
<1>2. run.pr \in Nat /\ gitea.made \in Nat /\ gitea.pr \in Nat
  BY <1>1, PRTypes DEF RunOK
<1> QED BY <1>1, <1>2 DEF IInv, Placed, Unanswered, TestPCs, Ending, E2EPCs

\* From which call to which, and what the next one knows.
LEMMA TestMoves ==
  ASSUME IInv, TestNext
  PROVE  TestMove /\ Testing
<1> USE TestKnows, GoesEffect, GoesBlindEffect, ReturnsEffect, ErrorType, FoundEffect, OpenedEffect
<1> USE DEF TestMove, TestPoints, TestPCs, Pushed, Unsound, Read, Write, At, SameData
<1>1. CASE ResolveBaseRef
  BY <1>1 DEF ResolveBaseRef
<1>2. CASE ValidateModuleExists
  BY <1>2 DEF ValidateModuleExists
<1>3. CASE ResolveFramework
  BY <1>3 DEF ResolveFramework
<1>4. CASE RunTests
  BY <1>4, TestAnswers DEF RunTests
<1>5. CASE BeforeEffects
  BY <1>5 DEF BeforeEffects
<1>6. CASE FindTestPR
  <2>1. At("findTests") /\ ((gitea.pr # 0 /\ Has("saveTests", gitea.pr)) \/ Goes("createTests"))
    BY <1>6 DEF FindTestPR, Has
  <2> QED BY <2>1
<1>7. CASE CreateTestPR
  <2>1. At("createTests") /\ (Has("saveTests", gitea.made + 1) \/ Returns(Error))
    BY <1>7 DEF CreateTestPR, CreatePR, Has
  <2> QED BY <2>1
<1>8. CASE PersistTestGenResult
  BY <1>8 DEF PersistTestGenResult
<1>9. CASE DecideReview
  <2>1. /\ At("decideTests")
        /\ \/ Returns(TestVerdict) /\ (WantsReview \/ ~WantsReview)
           \/ WantsReview /\ (Goes("reviewTests") \/ GoesBlind("reviewTests"))
    BY <1>9 DEF DecideReview
  <2>2. CASE Returns(TestVerdict)
    BY <2>1, <2>2 DEF TestVerdict
  <2>3. CASE WantsReview /\ (Goes("reviewTests") \/ GoesBlind("reviewTests"))
    BY <2>1, <2>3 DEF WantsReview
  <2> QED BY <2>1, <2>2, <2>3
<1>10. CASE EnqueueTestReview
  BY <1>10 DEF EnqueueTestReview, TestVerdict
<1>11. CASE MarkTestReview
  BY <1>11 DEF MarkTestReview, TestVerdict
<1> QED BY <1>1, <1>2, <1>3, <1>4, <1>5, <1>6, <1>7, <1>8, <1>9, <1>10, <1>11 DEF TestNext

\* Generating tests says nothing before ProcessTask does.
LEMMA TestSilent ==
  ASSUME IInv, TestNext
  PROVE  gitea'.said = gitea.said
<1>1. GiteaOK /\ (run.pc \in {"reviewTests", "markTests"} => run.pr > 0) /\ (run.pr > 0 => run.pr \in PRs)
  BY PRInRange DEF IInv, Types, TestPoints
<1>2. UNCHANGED gitea \/ (gitea.made < MaxPRs /\ gitea' = OpenPR) \/ (run.pr \in PRs /\ gitea' = Review)
  BY <1>1 DEF TestNext, ResolveBaseRef, ValidateModuleExists, ResolveFramework, RunTests,
     BeforeEffects, FindTestPR, CreateTestPR, PersistTestGenResult, DecideReview,
     EnqueueTestReview, MarkTestReview, Read, Write, CreatePR, Container, At
<1> QED BY <1>1, <1>2, OpenPREffect, ReviewEffect

\* The test service keeps its parts of the invariant.
LEMMA TestKeeps ==
  ASSUME IInv, TestNext
  PROVE  /\ Types' /\ Served /\ Placed' /\ Unanswered' /\ TestPoints' /\ JudgeOK' /\ SaidOK'
         /\ run'.pc \in TestPCs \cup {"container", "judge"}
         /\ Testing
<1>1. Types' /\ Served /\ TestMove /\ gitea'.said = gitea.said /\ Testing
  BY TestServed, TestMoves, TestSilent
<1>2. UNCHANGED task /\ task.phase = "running"
  BY <1>1 DEF Served
<1>3. run'.pc \in TestPCs \cup {"container", "judge"}
  BY <1>1 DEF TestMove, TestPCs
<1>4. Placed'
  BY <1>1, <1>2 DEF TestMove, Placed, FixPCs, TestPCs, CodePCs, E2EPCs, TriagePCs, ReviewPCs,
       Ending,
                    Is, Fixing, Testing, Coding, E2E, Triage, Reviewing
<1>5. Unanswered'
  BY <1>1, <1>2 DEF TestMove, Served, SameEnd, IInv, Unanswered, FixPCs, TestPCs, CodePCs, E2EPCs,
                    TriagePCs, Ending, Is, Testing, Triage
<1>6. TestPoints'
  BY <1>1 DEF TestMove, TestPoints
<1>7. JudgeOK'
  <2>1. run'.pr > 0 => gitea'.made > 0
    BY <1>1, PRTypes DEF Types, RunOK, GiteaOK
  <2> QED BY <1>1, <1>2, <2>1 DEF TestMove, JudgeOK, Reached, ToBlame, Deterministic, Is,
       Testing, Triage
<1>8. SaidOK'
  <2>1. Types /\ SaidOK /\ run.pc \notin {"judge", "saveReview"} \cup Ending
        /\ (UNCHANGED slips \/ Faults)
    BY <1>1 DEF Served, IInv, Placed, ReviewPCs, Is, Testing, Reviewing
  <2> QED BY <1>1, <1>2, <2>1, Silent
<1> QED BY <1>1, <1>3, <1>4, <1>5, <1>6, <1>7, <1>8

-----------------------------------------------------------------------------
\* The implementation of a document.
LEMMA CodeAnswers ==
  ASSUME RunOK, Container(CodeOutcome)
  PROVE  /\ RunOK' /\ UNCHANGED <<task, gitea, result, slips>> /\ SameEnd
         /\ At("container") /\ run'.pr = run.pr /\ run'.all = run.all /\ run'.blind = run.blind
         /\ run'.left = run.left /\ run'.seen = run.seen /\ run'.id = run.id
         /\ \/ run'.pc = "judge" /\ run'.err \in {"canceled", "error"} /\ run'.exit = run.exit
            \/ run'.pc = "judge" /\ run'.err = "error" /\ run'.exit = 1 /\ run'.out = "exit1"
            \/ run'.pc = "judge" /\ run'.err = "code_parse" /\ run'.exit = 0 /\ run'.out \in {"garbled", "otherBranch"}
            \/ run'.pc = "saveCode" /\ run'.err = "nil" /\ run'.exit = 0 /\ run'.out \in {"insufficient", "infrastructure"}
            \/ run'.pc = "findCode" /\ run'.err = "nil" /\ run'.exit = 0 /\ run'.out \in {"failure", "ok"}
<1>1. DOMAIN CodeOutcome = {"exit1", "garbled", "insufficient", "infrastructure", "otherBranch", "failure", "ok"}
  BY DEF CodeOutcome
<1>2. /\ CodeOutcome["exit1"] = Exit("error", 1)
      /\ CodeOutcome["garbled"] = Exit("code_parse", 0)
      /\ CodeOutcome["insufficient"] = To("saveCode")
      /\ CodeOutcome["infrastructure"] = To("saveCode")
      /\ CodeOutcome["otherBranch"] = Exit("code_parse", 0)
      /\ CodeOutcome["failure"] = To("findCode")
      /\ CodeOutcome["ok"] = To("findCode")
  BY DEF CodeOutcome
<1>3. /\ Exit("error", 1).pc = "judge" /\ Exit("error", 1).err = "error" /\ Exit("error", 1).exit = 1
      /\ Exit("code_parse", 0).pc = "judge" /\ Exit("code_parse", 0).err = "code_parse" /\ Exit("code_parse", 0).exit = 0
      /\ To("saveCode").pc = "saveCode" /\ To("saveCode").err = "nil" /\ To("saveCode").exit = 0
      /\ To("findCode").pc = "findCode" /\ To("findCode").err = "nil" /\ To("findCode").exit = 0
  BY DEF Exit, To
<1>4. \A o \in DOMAIN CodeOutcome :
        LET e == CodeOutcome[o] IN
        \/ e.pc = "judge" /\ e.err = "error" /\ e.exit = 1 /\ o = "exit1"
        \/ e.pc = "judge" /\ e.err = "code_parse" /\ e.exit = 0 /\ o \in {"garbled", "otherBranch"}
        \/ e.pc = "saveCode" /\ e.err = "nil" /\ e.exit = 0 /\ o \in {"insufficient", "infrastructure"}
        \/ e.pc = "findCode" /\ e.err = "nil" /\ e.exit = 0 /\ o \in {"failure", "ok"}
  BY <1>1, <1>2, <1>3
<1>5. \A o \in DOMAIN CodeOutcome : CodeOutcome[o].exit \in {0, 1, 2}
  BY <1>4
<1>6. \/ /\ run'.pc = "judge" /\ run'.err \in {"canceled", "error"}
         /\ run'.exit = run.exit /\ run'.out = run.out
      \/ /\ Live /\ run'.out \in DOMAIN CodeOutcome /\ run'.pc = CodeOutcome[run'.out].pc
         /\ run'.err = CodeOutcome[run'.out].err /\ run'.exit = CodeOutcome[run'.out].exit
  BY <1>5, ContainerEffect
<1>7. /\ RunOK' /\ UNCHANGED <<task, gitea, result, slips>> /\ SameEnd
      /\ At("container") /\ run'.pr = run.pr /\ run'.all = run.all /\ run'.blind = run.blind
      /\ run'.left = run.left /\ run'.seen = run.seen /\ run'.id = run.id
  BY <1>5, ContainerEffect
<1> QED BY <1>4, <1>6, <1>7

LEMMA PersistedCodeEffect ==
  ASSUME ResultOK, result' = [result EXCEPT !.stored = TRUE, !.pr = run.pr]
  PROVE  /\ ResultOK' /\ result'.pr = run.pr /\ result'.enqueued = result.enqueued
         /\ result'.marked = result.marked
BY DEF ResultOK

LEMMA PersistedCodeRun ==
  ASSUME NEW pc, PersistedCode(Goes(pc)) \/ PersistedCode(GoesBlind(pc))
  PROVE  \/ Returns("code_insufficient") /\ run.out = "insufficient"
         \/ Returns("error") /\ run.out = "infrastructure"
         \/ (Goes(pc) \/ GoesBlind(pc)) /\ run.out \notin {"insufficient", "infrastructure"}
BY DEF PersistedCode

\* A step of the implementation keeps the types and is one of a service.
LEMMA CodeServed ==
  ASSUME IInv, CodeNext
  PROVE  Types' /\ Served
<1> USE GoesEffect, GoesBlindEffect, ReturnsEffect, FaultsEffect, ErrorType, Kept, UnchangedGrows,
        OpenPRGrows, OpenPREffect, PRTypes, FoundEffect, OpenedEffect, PRInRange
<1> USE DEF IInv, Types, Served, Read, Write, Answered, Fails, At, SameData, Ending
<1>1. CASE StartCode
  BY <1>1 DEF StartCode
<1>2. CASE RunCode
  BY <1>2, CodeAnswers DEF RunCode
<1>3. CASE FindCodePR
  <2>1. /\ At("findCode") /\ UNCHANGED <<task, gitea, result>> /\ (Answered \/ Fails)
        /\ (gitea.pr # 0 /\ Has("label", gitea.pr)) \/ Goes("createCode") \/ Returns(Error)
    BY <1>3 DEF FindCodePR, Has
  <2> QED BY <2>1
<1>4. CASE CreateCodePR
  <2>1. CASE Has("label", gitea.made + 1) /\ gitea.made < MaxPRs /\ gitea' = OpenPR
    BY <1>4, <2>1 DEF CreateCodePR, CreatePR
  <2>2. CASE Returns(Error)
    <3>1. /\ At("createCode") /\ UNCHANGED <<task, result>> /\ (Answered \/ Fails \/ UNCHANGED slips)
          /\ UNCHANGED gitea \/ (gitea.made < MaxPRs /\ gitea' = OpenPR)
      BY <1>4 DEF CreateCodePR, CreatePR
    <3>2. run.pr \in Nat
      BY DEF RunOK
    <3> QED BY <2>2, <3>1, <3>2
  <2> QED BY <1>4, <2>1, <2>2 DEF CreateCodePR, CreatePR, Has
<1>5. CASE AddLabel
  BY <1>5 DEF AddLabel
<1>6. CASE PersistCodeResult
  <2>1. /\ At("saveCode") /\ UNCHANGED <<task, gitea>> /\ (Answered \/ Fails)
        /\ PersistedCode(Goes("decideCode")) \/ PersistedCode(GoesBlind("decideCode"))
        /\ UNCHANGED result \/ result' = [result EXCEPT !.stored = TRUE, !.pr = run.pr]
    BY <1>6 DEF PersistCodeResult
  <2>2. Returns("code_insufficient") \/ Returns("error") \/ Goes("decideCode") \/ GoesBlind("decideCode")
    BY <2>1, PersistedCodeRun
  <2>3. ResultOK'
    BY <2>1, PersistedCodeEffect
  <2> QED BY <2>1, <2>2, <2>3
<1>7. CASE DecideCodeReview
  <2>1. /\ At("decideCode") /\ UNCHANGED <<task, gitea, result>> /\ (Answered \/ Fails \/ UNCHANGED slips)
        /\ Returns(CodeVerdict) \/ Goes("reviewCode") \/ GoesBlind("reviewCode")
    BY <1>7 DEF DecideCodeReview
  <2> QED BY <2>1
<1>8. CASE EnqueueCodeReview
  BY <1>8, ReviewEffect DEF EnqueueCodeReview, CodePoints
<1>9. CASE MarkCodeReview
  BY <1>9, MarkedEffect DEF MarkCodeReview, CodePoints
<1> QED BY <1>1, <1>2, <1>3, <1>4, <1>5, <1>6, <1>7, <1>8, <1>9 DEF CodeNext

CodeMove ==
  \/ run'.pc = "container" /\ run'.err = "nil" /\ run'.exit = 0
  \/ /\ run'.err = "nil" /\ run'.exit = 0
     /\ run'.pc = "saveCode"
     /\ run'.out \in {"insufficient", "infrastructure"} \/ (run'.out \in {"failure", "ok"} /\ run'.pr > 0)
  \/ /\ run'.err = "nil" /\ run'.exit = 0 /\ run'.out \in {"failure", "ok"}
     /\ \/ run'.pc \in {"findCode", "createCode"}
        \/ /\ run'.pr > 0
           /\ \/ run'.pc = "label"
              \/ run'.pc = "decideCode" /\ (~run'.blind => result'.pr = run'.pr)
              \/ run'.pc = "reviewCode" /\ (~run'.blind => ~result'.enqueued)
              \/ run'.pc = "markCode" /\ gitea'.reviews[run'.pr] > 0
  \/ /\ run'.pc = "judge"
     /\ \/ run'.err \in {"error", "canceled", "code_parse"}
        \/ run'.err = "code_disabled" /\ task.subject \in Unsound
        \/ run'.err = "code_insufficient" /\ run'.out = "insufficient"
        \/ /\ run'.err = "code_test_failure" /\ run'.out = "failure" /\ run'.pr > 0
           /\ WantsCodeReview' => HasReview'
        \/ run'.err = "nil" /\ run'.exit = 0 /\ run'.pr > 0 /\ HasReview'

LEMMA CodeKnows ==
  ASSUME IInv
  PROVE  /\ run.pc \in {"start", "container"} \cup CodePCs => run.err = "nil" /\ run.exit = 0
         /\ run.pc \in CodePCs => Coding
         /\ CodePoints /\ GiteaOK /\ RunOK /\ ResultOK
         /\ run.pr \in Nat /\ gitea.made \in Nat /\ gitea.pr \in Nat
         /\ (run.pr > 0 => run.pr \in PRs)
<1>1. GiteaOK /\ RunOK /\ ResultOK
  BY DEF IInv, Types
<1>2. run.pr \in Nat /\ gitea.made \in Nat /\ gitea.pr \in Nat
  BY <1>1, PRTypes DEF RunOK
<1>3. run.pr > 0 => run.pr \in PRs
  BY PRInRange DEF IInv
<1> QED BY <1>1, <1>2, <1>3 DEF IInv, Placed, Unanswered, CodePCs, Ending, E2EPCs

\* From which call to which, and what the next one knows.
LEMMA CodeMoves ==
  ASSUME IInv, CodeNext
  PROVE  CodeMove /\ Coding
<1> USE CodeKnows, GoesEffect, GoesBlindEffect, ReturnsEffect, ErrorType, FoundEffect, OpenedEffect
<1> USE DEF CodeMove, CodePoints, CodePCs, Unsound, Read, Write, At, SameData
<1>1. CASE StartCode
  BY <1>1 DEF StartCode
<1>2. CASE RunCode
  BY <1>2, CodeAnswers DEF RunCode
<1>3. CASE FindCodePR
  <2>1. /\ At("findCode")
        /\ (gitea.pr # 0 /\ Has("label", gitea.pr)) \/ Goes("createCode") \/ Returns(Error)
    BY <1>3 DEF FindCodePR, Has
  <2> QED BY <2>1
<1>4. CASE CreateCodePR
  <2>1. At("createCode") /\ (Has("label", gitea.made + 1) \/ Returns(Error))
    BY <1>4 DEF CreateCodePR, CreatePR, Has
  <2> QED BY <2>1
<1>5. CASE AddLabel
  BY <1>5 DEF AddLabel
<1>6. CASE PersistCodeResult
  <2>1. CASE PersistedCode(Goes("decideCode")) /\ result' = [result EXCEPT !.stored = TRUE, !.pr = run.pr]
    BY <1>6, <2>1, PersistedCodeEffect, PersistedCodeRun DEF PersistCodeResult, PersistedCode
  <2>2. CASE PersistedCode(GoesBlind("decideCode"))
    BY <1>6, <2>2, PersistedCodeRun DEF PersistCodeResult, PersistedCode
  <2> QED BY <1>6, <2>1, <2>2 DEF PersistCodeResult
<1>7. CASE DecideCodeReview
  <2>1. /\ At("decideCode") /\ UNCHANGED <<task, gitea, result>>
        /\ \/ Returns(CodeVerdict) /\ ~WantsCodeReview
           \/ Returns(CodeVerdict) /\ result.enqueued
           \/ Goes("reviewCode") /\ ~(result.enqueued /\ result.pr = run.pr)
           \/ GoesBlind("reviewCode")
    BY <1>7 DEF DecideCodeReview
  <2>2. CASE Returns(CodeVerdict) /\ ~WantsCodeReview
    <3>1. run.out = "failure" /\ ~WantsCodeReview'
      BY <2>1, <2>2 DEF WantsCodeReview
    <3> QED BY <2>1, <2>2, <3>1 DEF CodeVerdict
  <2>3. CASE Returns(CodeVerdict) /\ result.enqueued
    <3>1. HasReview
      BY <2>1, <2>3 DEF HasReview
    <3>2. HasReview'
      BY <2>1, <2>3, <3>1 DEF HasReview
    <3> QED BY <2>1, <2>3, <3>2 DEF CodeVerdict
  <2>4. CASE Goes("reviewCode") /\ ~(result.enqueued /\ result.pr = run.pr)
    BY <2>1, <2>4
  <2>5. CASE GoesBlind("reviewCode")
    BY <2>1, <2>5
  <2> QED BY <2>1, <2>2, <2>3, <2>4, <2>5
<1>8. CASE EnqueueCodeReview
  BY <1>8, ReviewEffect DEF EnqueueCodeReview
<1>9. CASE MarkCodeReview
  <2>1. At("markCode") /\ UNCHANGED gitea /\ Returns(CodeVerdict)
    BY <1>9 DEF MarkCodeReview
  <2>2. HasReview'
    BY <2>1 DEF HasReview
  <2> QED BY <2>1, <2>2 DEF CodeVerdict
<1> QED BY <1>1, <1>2, <1>3, <1>4, <1>5, <1>6, <1>7, <1>8, <1>9 DEF CodeNext

\* An implementation says nothing; a review is enqueued by one call and marked by the next.
LEMMA CodeSilent ==
  ASSUME IInv, CodeNext
  PROVE  /\ gitea'.said = gitea.said
         /\ \A p \in result'.marked : p \in PRs /\ gitea'.reviews[p] > 0
         /\ result'.enqueued <=> result'.marked # {}
         /\ gitea'.reviews = gitea.reviews \/ run.pc = "reviewCode"
<1>1. /\ GiteaOK /\ ResultOK /\ (run.pc \in {"reviewCode", "markCode"} => run.pr \in PRs)
      /\ (run.pc = "markCode" => gitea.reviews[run.pr] > 0) /\ gitea.reviews \in [PRs -> Nat]
      /\ \A p \in result.marked : p \in PRs /\ gitea.reviews[p] > 0
      /\ result.enqueued <=> result.marked # {}
  BY CodeKnows, CodeMoves DEF CodePoints, GiteaOK
<1>2. \/ UNCHANGED gitea \/ (gitea.made < MaxPRs /\ gitea' = OpenPR)
      \/ run.pr \in PRs /\ gitea' = Review /\ run.pc = "reviewCode"
  BY <1>1 DEF CodeNext, StartCode, RunCode, FindCodePR, CreateCodePR, AddLabel, PersistCodeResult,
     DecideCodeReview, EnqueueCodeReview, MarkCodeReview, Read, Write, CreatePR, Container, At
<1>3. \/ UNCHANGED result \/ result' = [result EXCEPT !.stored = TRUE, !.pr = run.pr]
      \/ run.pc = "markCode" /\ result' = Marked
  BY <1>1 DEF CodeNext, StartCode, RunCode, FindCodePR, CreateCodePR, AddLabel, PersistCodeResult,
     DecideCodeReview, EnqueueCodeReview, MarkCodeReview, Read, Write, CreatePR, Container, At
<1>4. gitea'.said = gitea.said /\ gitea'.reviews \in [PRs -> Nat] /\ Grown
  BY <1>1, <1>2, OpenPREffect, ReviewEffect, UnchangedGrows, OpenPRGrows DEF GiteaOK
<1>5. ASSUME NEW p \in PRs, gitea.reviews[p] > 0 PROVE gitea'.reviews[p] > 0
  <2>1. gitea.reviews[p] \in Nat /\ gitea'.reviews[p] \in Nat
    BY <1>1, <1>4
  <2>2. gitea'.reviews[p] >= gitea.reviews[p]
    BY <1>4 DEF Grown
  <2> QED BY <1>5, <2>1, <2>2
<1>6. result'.marked = result.marked \/ (run.pc = "markCode" /\ result'.marked = result.marked \cup {run.pr})
  BY <1>1, <1>3, PersistedCodeEffect DEF Marked, ResultOK
<1>7. \A p \in result'.marked : p \in PRs /\ gitea'.reviews[p] > 0
  BY <1>1, <1>5, <1>6
<1>9. result'.enqueued <=> result'.marked # {}
  BY <1>1, <1>3, PersistedCodeEffect DEF Marked, ResultOK
<1>8. gitea'.reviews = gitea.reviews \/ run.pc = "reviewCode"
  BY <1>1, <1>2, OpenPREffect
<1> QED BY <1>4, <1>7, <1>8, <1>9

\* The code service keeps its parts of the invariant.
LEMMA CodeKeeps ==
  ASSUME IInv, CodeNext
  PROVE  /\ Types' /\ Served /\ Placed' /\ Unanswered' /\ CodePoints' /\ JudgeOK' /\ SaidOK'
         /\ run'.pc \in CodePCs \cup {"container", "judge"}
         /\ Coding
<1>1. /\ Types' /\ Served /\ CodeMove /\ gitea'.said = gitea.said /\ Coding
      /\ \A p \in result'.marked : p \in PRs /\ gitea'.reviews[p] > 0
      /\ result'.enqueued <=> result'.marked # {}
  BY CodeServed, CodeMoves, CodeSilent DEF IInv, CodePoints
<1>2. UNCHANGED task /\ task.phase = "running"
  BY <1>1 DEF Served
<1>3. run'.pc \in CodePCs \cup {"container", "judge"}
  BY <1>1 DEF CodeMove, CodePCs
<1>4. Placed'
  BY <1>1, <1>2 DEF CodeMove, Placed, FixPCs, TestPCs, CodePCs, E2EPCs, TriagePCs, ReviewPCs,
       Ending,
                    Is, Fixing, Testing, Coding, E2E, Triage, Reviewing
<1>5. Unanswered'
  BY <1>1, <1>2 DEF CodeMove, Served, SameEnd, IInv, Unanswered, FixPCs, TestPCs, CodePCs, E2EPCs,
                    TriagePCs, Ending, Is, Coding, Triage
<1>6. CodePoints'
  BY <1>1 DEF CodeMove, CodePoints, Coding, Is
<1>7. JudgeOK'
  <2>1. run'.pr > 0 => gitea'.made > 0
    BY <1>1, PRTypes DEF Types, RunOK, GiteaOK
  <2> QED BY <1>1, <1>2, <2>1 DEF CodeMove, JudgeOK, Reached, ToBlame, Deterministic, Is,
       Coding, Triage
<1>8. SaidOK'
  <2>1. Types /\ SaidOK /\ run.pc \notin {"judge", "saveReview"} \cup Ending
        /\ (UNCHANGED slips \/ Faults)
    BY <1>1 DEF Served, IInv, Placed, ReviewPCs, Is, Coding, Reviewing
  <2> QED BY <1>1, <1>2, <2>1, Silent
<1> QED BY <1>1, <1>3, <1>4, <1>5, <1>6, <1>7, <1>8

-----------------------------------------------------------------------------
\* The end-to-end tests and their triage.
LEMMA E2EAnswers ==
  ASSUME RunOK, Container(E2EOutcome)
  PROVE  /\ RunOK' /\ UNCHANGED <<task, gitea, result, slips>> /\ SameEnd
         /\ At("container") /\ run'.pr = run.pr
         /\ \/ run'.pc = "judge" /\ run'.err \in {"canceled", "error", "e2e_parse"}
            \/ run'.pc = "load" /\ run'.err = "nil"
<1>1. DOMAIN E2EOutcome = {"garbled", "ok", "bugs", "mixed"}
  BY DEF E2EOutcome
<1>2. /\ E2EOutcome["garbled"] = Exit("e2e_parse", 0)
      /\ E2EOutcome["ok"] = [To("load") EXCEPT !.exit = 0]
      /\ E2EOutcome["bugs"] = [To("load") EXCEPT !.exit = 2]
      /\ E2EOutcome["mixed"] = [To("load") EXCEPT !.exit = 1]
  BY DEF E2EOutcome
<1>3. \A o \in DOMAIN E2EOutcome :
        LET e == E2EOutcome[o] IN
        \/ e.pc = "judge" /\ e.err = "e2e_parse" /\ e.exit = 0
        \/ e.pc = "load" /\ e.err = "nil" /\ e.exit \in {0, 1, 2}
  BY <1>1, <1>2 DEF Exit, To
<1>4. \A o \in DOMAIN E2EOutcome : E2EOutcome[o].exit \in {0, 1, 2}
  BY <1>3
<1>5. \/ run'.pc = "judge" /\ run'.err \in {"canceled", "error"}
      \/ /\ run'.out \in DOMAIN E2EOutcome /\ run'.pc = E2EOutcome[run'.out].pc
         /\ run'.err = E2EOutcome[run'.out].err
  BY <1>4, ContainerEffect
<1>6. /\ RunOK' /\ UNCHANGED <<task, gitea, result, slips>> /\ SameEnd
      /\ At("container") /\ run'.pr = run.pr
  BY <1>4, ContainerEffect
<1> QED BY <1>3, <1>5, <1>6

LEMMA TriageAnswers ==
  ASSUME RunOK, Container(TriageOutcome)
  PROVE  /\ RunOK' /\ UNCHANGED <<task, gitea, result, slips>> /\ SameEnd
         /\ At("container") /\ run'.pr = run.pr /\ run'.all = run.all /\ run'.blind = run.blind
         /\ run'.left = run.left /\ run'.seen = run.seen /\ run'.id = run.id
         /\ \/ run'.pc = "judge" /\ run'.err \in {"canceled", "error"} /\ run'.exit = run.exit
            \/ run'.pc = "judge" /\ run'.err = "nil" /\ run'.exit = 1 /\ run'.out = "exit1"
            \/ run'.pc = "judge" /\ run'.err = "nil" /\ run'.exit = 2 /\ run'.out = "exit2"
            \/ run'.pc = "judge" /\ run'.err = "triage_parse" /\ run'.exit = 0 /\ run'.out = "garbled"
            \/ run'.pc = "judge" /\ run'.err = "nil" /\ run'.exit = 0 /\ run'.out \in {"nothing", "some", "unknown"}
<1>1. DOMAIN TriageOutcome = {"exit1", "exit2", "garbled", "nothing", "some", "unknown"}
  BY DEF TriageOutcome
<1>2. /\ TriageOutcome["exit1"] = Exit("nil", 1)
      /\ TriageOutcome["exit2"] = Exit("nil", 2)
      /\ TriageOutcome["garbled"] = Exit("triage_parse", 0)
      /\ TriageOutcome["nothing"] = Exit("nil", 0)
      /\ TriageOutcome["some"] = Exit("nil", 0)
      /\ TriageOutcome["unknown"] = Exit("nil", 0)
  BY DEF TriageOutcome
<1>3. /\ Exit("nil", 1).pc = "judge" /\ Exit("nil", 1).err = "nil" /\ Exit("nil", 1).exit = 1
      /\ Exit("nil", 2).pc = "judge" /\ Exit("nil", 2).err = "nil" /\ Exit("nil", 2).exit = 2
      /\ Exit("triage_parse", 0).pc = "judge" /\ Exit("triage_parse", 0).err = "triage_parse" /\ Exit("triage_parse", 0).exit = 0
      /\ Exit("nil", 0).pc = "judge" /\ Exit("nil", 0).err = "nil" /\ Exit("nil", 0).exit = 0
  BY DEF Exit, To
<1>4. \A o \in DOMAIN TriageOutcome :
        LET e == TriageOutcome[o] IN
        \/ e.pc = "judge" /\ e.err = "nil" /\ e.exit = 1 /\ o = "exit1"
        \/ e.pc = "judge" /\ e.err = "nil" /\ e.exit = 2 /\ o = "exit2"
        \/ e.pc = "judge" /\ e.err = "triage_parse" /\ e.exit = 0 /\ o = "garbled"
        \/ e.pc = "judge" /\ e.err = "nil" /\ e.exit = 0 /\ o \in {"nothing", "some", "unknown"}
  BY <1>1, <1>2, <1>3
<1>5. \A o \in DOMAIN TriageOutcome : TriageOutcome[o].exit \in {0, 1, 2}
  BY <1>4
<1>6. \/ /\ run'.pc = "judge" /\ run'.err \in {"canceled", "error"}
         /\ run'.exit = run.exit /\ run'.out = run.out
      \/ /\ Live /\ run'.out \in DOMAIN TriageOutcome /\ run'.pc = TriageOutcome[run'.out].pc
         /\ run'.err = TriageOutcome[run'.out].err /\ run'.exit = TriageOutcome[run'.out].exit
  BY <1>5, ContainerEffect
<1>7. /\ RunOK' /\ UNCHANGED <<task, gitea, result, slips>> /\ SameEnd
      /\ At("container") /\ run'.pr = run.pr /\ run'.all = run.all /\ run'.blind = run.blind
      /\ run'.left = run.left /\ run'.seen = run.seen /\ run'.id = run.id
  BY <1>5, ContainerEffect
<1> QED BY <1>4, <1>6, <1>7

Filing(c) == [gitea EXCEPT !.filed[c] = @ + 1]
LEMMA FilingEffect ==
  ASSUME GiteaOK, NEW c \in Cases, gitea' = Filing(c)
  PROVE  /\ GiteaOK' /\ Grown /\ gitea'.pr = gitea.pr /\ gitea'.made = gitea.made
         /\ gitea'.said = gitea.said /\ gitea'.reviews = gitea.reviews
         /\ gitea'.synced = gitea.synced /\ gitea'.shown = gitea.shown
         /\ gitea'.loop = gitea.loop
         /\ gitea'.filed[c] = gitea.filed[c] + 1
         /\ \A d \in Cases \ {c} : gitea'.filed[d] = gitea.filed[d]
<1>1. gitea.made \in Nat /\ gitea.said \in [Replies -> Nat]
  BY PRTypes DEF GiteaOK
<1> QED BY <1>1 DEF Filing, GiteaOK, GiteaShape, Grown

Loads(id, saved, cases) ==
  run' = [run EXCEPT !.pc = "saveE2E", !.id = id, !.seen = saved, !.all = cases,
                     !.left = cases \ saved]
LEMMA LoadsEffect ==
  ASSUME RunOK, NEW id, NEW saved, NEW cases \in SUBSET Cases, Loads(id, saved, cases)
  PROVE  /\ RunOK' /\ run'.pc = "saveE2E" /\ run'.id = id /\ run'.seen = saved
         /\ run'.all = cases /\ run'.left = cases \ saved
         /\ run'.pr = run.pr /\ run'.err = run.err
         /\ run'.exit = run.exit /\ run'.blind = run.blind /\ run'.out = run.out
         /\ SameEnd
<1> DEFINE left == cases \ saved
<1>1. left \subseteq cases /\ left = cases \ saved
      /\ run' = [run EXCEPT !.pc = "saveE2E", !.id = id, !.seen = saved, !.all = cases, !.left = left]
  BY DEF Loads
<1> HIDE DEF left
<1> QED BY <1>1 DEF RunOK, RunShape, SameEnd

Saves(id) == run' = [run EXCEPT !.pc = "issues", !.id = id]
LEMMA SavesEffect ==
  ASSUME RunOK, NEW id, Saves(id)
  PROVE  /\ RunOK' /\ run'.pc = "issues" /\ run'.id = id /\ run'.seen = run.seen
         /\ run'.all = run.all /\ run'.left = run.left
         /\ run'.pr = run.pr /\ run'.err = run.err
         /\ run'.exit = run.exit /\ run'.blind = run.blind /\ run'.out = run.out
         /\ SameEnd
BY DEF Saves, RunOK, RunShape, SameEnd

Counts(c) == run' = [run EXCEPT !.left = @ \ {c}, !.seen = @ \cup {c}]
Passes(c) == run' = [run EXCEPT !.left = @ \ {c}]
LEMMA FiledRun ==
  ASSUME RunOK, NEW c, Counts(c) \/ Passes(c)
  PROVE  /\ RunOK' /\ run'.pc = run.pc /\ run'.id = run.id /\ run'.all = run.all
         /\ run'.left = run.left \ {c}
         /\ Counts(c) => run'.seen = run.seen \cup {c}
         /\ Passes(c) => run'.seen = run.seen
         /\ run'.pr = run.pr /\ run'.err = run.err
         /\ run'.exit = run.exit /\ run'.blind = run.blind /\ run'.out = run.out
         /\ SameEnd
<1> DEFINE left == run.left \ {c}
           seen == run.seen \cup {c}
<1>1. left \subseteq run.all /\ left = run.left \ {c} /\ seen = run.seen \cup {c}
  BY DEF RunOK
<1>2. /\ Counts(c) => run' = [run EXCEPT !.left = left, !.seen = seen]
      /\ Passes(c) => run' = [run EXCEPT !.left = left]
  BY DEF Counts, Passes
<1> HIDE DEF left, seen
<1>3. CASE Counts(c) /\ ~Passes(c)
  BY <1>1, <1>2, <1>3 DEF RunOK, RunShape, SameEnd
<1>4. CASE Passes(c) /\ ~Counts(c)
  BY <1>1, <1>2, <1>4 DEF RunOK, RunShape, SameEnd
<1>5. CASE Counts(c) /\ Passes(c)
  BY <1>1, <1>2, <1>5 DEF RunOK, RunShape, SameEnd
<1> QED BY <1>3, <1>4, <1>5

Dispatches(modules) == run' = [run EXCEPT !.pc = "dispatch", !.all = modules, !.left = modules]
LEMMA DispatchesEffect ==
  ASSUME RunOK, NEW modules \in SUBSET Cases, Dispatches(modules)
  PROVE  /\ RunOK' /\ run'.pc = "dispatch" /\ run'.id = run.id /\ run'.seen = run.seen
         /\ run'.all = modules /\ run'.left = modules
         /\ run'.pr = run.pr /\ run'.err = run.err
         /\ run'.exit = run.exit /\ run'.blind = run.blind /\ run'.out = run.out
         /\ SameEnd
BY DEF Dispatches, RunOK, RunShape, SameEnd

\* Their steps, in terms of these.
LEMMA LoadStep ==
  ASSUME LoadE2EResult
  PROVE  /\ At("load") /\ UNCHANGED <<task, gitea, result>>
         /\ \E cases \in SUBSET Cases :
              \/ Answered /\ result.stored /\ Loads("row", result.issues, cases)
              \/ Answered /\ ~result.stored /\ Loads("none", {}, cases)
              \/ Fails /\ Loads("none", {}, cases)
<1>1. PICK cases \in Failing :
        \/ Answered /\ result.stored /\ Loads("row", result.issues, cases)
        \/ Answered /\ ~result.stored /\ Loads("none", {}, cases)
        \/ Fails /\ Loads("none", {}, cases)
  BY DEF LoadE2EResult, Loads
<1>2. cases \in SUBSET Cases
  BY DEF Failing
<1> QED BY <1>1, <1>2 DEF LoadE2EResult

LEMMA SaveStep ==
  ASSUME RunOK, SaveE2EResult
  PROVE  /\ At("saveE2E") /\ UNCHANGED <<task, gitea>>
         /\ \/ /\ Answered
               /\ result' = [result EXCEPT !.stored = TRUE, !.issues = run.seen]
               /\ Saves(IF run.id = "none" /\ result.stored THEN "other" ELSE "row")
            \/ Fails /\ UNCHANGED result /\ Saves(run.id)
<1>1. Goes("issues") => Saves(run.id)
  BY DEF Goes, Saves, RunOK, RunShape
<1> QED BY <1>1 DEF SaveE2EResult, Saves

LEMMA IssueStep ==
  ASSUME CreateIssue
  PROVE  /\ At("issues") /\ UNCHANGED <<task, result>>
         /\ \E c \in run.left :
              \/ Answered /\ gitea' = Filing(c) /\ Counts(c)
              \/ Fails /\ Passes(c) /\ (UNCHANGED gitea \/ (Live /\ gitea' = Filing(c)))
BY DEF CreateIssue, Write, Filing, Counts, Passes

LEMMA EnqueueStep ==
  ASSUME EnqueueE2E
  PROVE  /\ At("dispatch") /\ UNCHANGED <<task, result>>
         /\ \E c \in run.left :
              \/ Answered /\ gitea' = Filing(c) /\ Counts(c)
              \/ Fails /\ Passes(c) /\ (UNCHANGED gitea \/ (Live /\ gitea' = Filing(c)))
BY DEF EnqueueE2E, Write, Filing, Counts, Passes

LEMMA ScanStep ==
  ASSUME LoadAvailableE2EModules
  PROVE  /\ At("scan") /\ UNCHANGED <<task, gitea, result>> /\ (Answered \/ Fails)
         /\ \/ Settles("failed", "skip", "stored")
            \/ \E modules \in SUBSET Cases : Dispatches(modules)
BY DEF LoadAvailableE2EModules, Read, Dispatches

LEMMA DispatchedStep ==
  ASSUME Dispatched
  PROVE  /\ At("dispatch") /\ UNCHANGED <<task, gitea, result, slips>>
         /\ \/ run.seen = run.all /\ Settles("succeeded", "nil", "stored")
            \/ Settles("failed", "skip", "stored")
            \/ ShouldRetry /\ Settles("retrying", "error", "stored")
            \/ ~ShouldRetry /\ Settles("failed", "error", "stored")
BY DEF Dispatched

LEMMA SavedEffect ==
  ASSUME ResultOK, NEW issues \in SUBSET Cases,
         \/ result' = [result EXCEPT !.stored = TRUE, !.issues = issues]
         \/ result.stored /\ result' = [result EXCEPT !.issues = issues]
  PROVE  ResultOK' /\ result'.stored /\ result'.issues = issues
BY DEF ResultOK

\* A step of run_e2e or of the triage keeps the types, says nothing, and is one of a service.
LEMMA E2EServed ==
  ASSUME IInv, E2ENext
  PROVE  Types' /\ Served /\ gitea'.said = gitea.said
<1> USE GoesEffect, ReturnsEffect, SettlesEffect, FaultsEffect, ErrorType, Kept, UnchangedGrows
<1> USE DEF IInv, Types, Served, Answered, Fails, At, SameData, Ending
<1>1. CASE StartE2E
  BY <1>1 DEF StartE2E
<1>2. CASE RunE2E
  BY <1>2, E2EAnswers DEF RunE2E
<1>3. CASE LoadE2EResult
  BY <1>3, LoadStep, LoadsEffect
<1>4. CASE SaveE2EResult
  <2>1. run.seen \subseteq Cases
    BY <1>4, SaveStep DEF E2EPoints, Placed, E2EPCs, FiledOK
  <2> QED BY <1>4, <2>1, SaveStep, SavesEffect, SavedEffect
<1>5. CASE CreateIssue
  <2>1. PICK c \in run.left :
          \/ Answered /\ gitea' = Filing(c) /\ Counts(c)
          \/ Fails /\ Passes(c) /\ (UNCHANGED gitea \/ (Live /\ gitea' = Filing(c)))
    BY <1>5, IssueStep
  <2>2. c \in Cases
    BY DEF RunOK
  <2>3. /\ RunOK' /\ run'.pc = run.pc /\ run'.pr = run.pr /\ SameEnd
    <3>1. RunOK /\ (Counts(c) \/ Passes(c))
      BY <2>1
    <3> QED BY <3>1, FiledRun
  <2>4. /\ GiteaOK' /\ Grown /\ gitea'.synced = gitea.synced /\ gitea'.said = gitea.said
        /\ gitea'.made = gitea.made /\ gitea'.shown = gitea.shown /\ gitea'.loop = gitea.loop
    BY <2>1, <2>2, FilingEffect
  <2> QED BY <1>5, <2>1, <2>3, <2>4, IssueStep
<1>6. CASE UpdateCreatedIssues
  <2>1. run.pc = "issues" /\ run.seen \subseteq Cases /\ (run.id = "row" => result.stored)
    BY <1>6 DEF UpdateCreatedIssues, E2EPoints, Placed, E2EPCs, FiledOK
  <2>2. UNCHANGED result \/ (result.stored /\ result' = [result EXCEPT !.issues = run.seen])
    BY <1>6, <2>1 DEF UpdateCreatedIssues
  <2>3. ResultOK'
    BY <2>1, <2>2, SavedEffect
  <2> QED BY <1>6, <2>1, <2>3 DEF UpdateCreatedIssues
<1>7. CASE RunTriage
  BY <1>7, TriageAnswers DEF RunTriage
<1>8. CASE LoadAvailableE2EModules
  BY <1>8, ScanStep, DispatchesEffect, TaskFrame DEF EndPair, Status, Placed, TriagePCs
<1>9. CASE EnqueueE2E
  <2>1. PICK c \in run.left :
          \/ Answered /\ gitea' = Filing(c) /\ Counts(c)
          \/ Fails /\ Passes(c) /\ (UNCHANGED gitea \/ (Live /\ gitea' = Filing(c)))
    BY <1>9, EnqueueStep
  <2>2. c \in Cases
    BY DEF RunOK
  <2>3. /\ RunOK' /\ run'.pc = run.pc /\ run'.pr = run.pr /\ SameEnd
    <3>1. RunOK /\ (Counts(c) \/ Passes(c))
      BY <2>1
    <3> QED BY <3>1, FiledRun
  <2>4. /\ GiteaOK' /\ Grown /\ gitea'.synced = gitea.synced /\ gitea'.said = gitea.said
        /\ gitea'.made = gitea.made /\ gitea'.shown = gitea.shown /\ gitea'.loop = gitea.loop
    BY <2>1, <2>2, FilingEffect
  <2> QED BY <1>9, <2>1, <2>3, <2>4, EnqueueStep
<1>10. CASE Dispatched
  <2>1. \A m \in run.seen : gitea.filed[m] > 0
    BY <1>10, DispatchedStep DEF E2EPoints
  <2>2. Triage
    BY <1>10, DispatchedStep DEF Placed, TriagePCs
  <2> QED BY <1>10, <2>1, <2>2, DispatchedStep, TaskFrame DEF EndPair, Status, Reached, Triage, Is
<1> QED BY <1>1, <1>2, <1>3, <1>4, <1>5, <1>6, <1>7, <1>8, <1>9, <1>10 DEF E2ENext

E2EMove ==
  \/ /\ E2E
     /\ \/ run'.pc = "container" /\ run'.err = "nil" /\ run'.exit = 0
        \/ run'.pc \in {"load", "saveE2E", "issues"} /\ run'.err = "nil"
        \/ run'.pc = "judge" /\ run'.err \in {"nil", "error", "canceled", "e2e_parse"}
        \/ run'.pc = "judge" /\ run'.err = "e2e_disabled" /\ task.subject \in Unsound
  \/ /\ Triage
     /\ \/ /\ run'.pc = "judge" /\ run'.err \in {"nil", "error", "canceled", "triage_parse"}
           /\ run'.all = {} /\ run'.seen = {}
        \/ /\ run'.pc = "dispatch" /\ run'.err = "nil" /\ run'.exit = 0
           /\ \A m \in run'.seen : m \in Cases /\ gitea'.filed[m] > 0
        \/ run'.pc = "store"

LEMMA E2EKnows ==
  ASSUME IInv
  PROVE  /\ run.pc \in {"start", "container"} \cup E2EPCs \cup TriagePCs => run.err = "nil"
         /\ run.pc \in {"start", "container"} \cup TriagePCs => run.exit = 0
         /\ run.pc \in E2EPCs => E2E
         /\ run.pc \in TriagePCs => Triage
         /\ Triage /\ run.pc \in {"container", "scan"} => run.all = {} /\ run.seen = {}
         /\ run.pc = "dispatch" => \A m \in run.seen : m \in Cases /\ gitea.filed[m] > 0
         /\ RunOK /\ GiteaOK
BY DEF IInv, Types, Placed, Unanswered, E2EPCs, TriagePCs, Ending, E2EPoints

\* From which call to which, and what the next one knows.
LEMMA E2EMoves ==
  ASSUME IInv, E2ENext
  PROVE  E2EMove
<1> USE E2EKnows, GoesEffect, ReturnsEffect, SettlesEffect, ErrorType
<1> USE DEF E2EMove, E2EPCs, TriagePCs, Unsound, At, SameData
<1>1. CASE StartE2E
  BY <1>1 DEF StartE2E
<1>2. CASE RunE2E
  BY <1>2, E2EAnswers DEF RunE2E
<1>3. CASE LoadE2EResult
  BY <1>3, LoadStep, LoadsEffect
<1>4. CASE SaveE2EResult
  BY <1>4, SaveStep, SavesEffect
<1>5. CASE CreateIssue
  <2>1. PICK c \in run.left : Counts(c) \/ Passes(c)
    BY <1>5, IssueStep
  <2>2. run'.pc = run.pc /\ run'.err = run.err
    BY <2>1, FiledRun
  <2> QED BY <1>5, <2>2, IssueStep
<1>6. CASE UpdateCreatedIssues
  BY <1>6 DEF UpdateCreatedIssues
<1>7. CASE RunTriage
  BY <1>7, TriageAnswers DEF RunTriage
<1>8. CASE LoadAvailableE2EModules
  BY <1>8, ScanStep, DispatchesEffect DEF Status
<1>9. CASE EnqueueE2E
  <2>1. PICK c \in run.left :
          \/ gitea' = Filing(c) /\ Counts(c)
          \/ Passes(c) /\ (UNCHANGED gitea \/ gitea' = Filing(c))
    BY <1>9, EnqueueStep
  <2>2. c \in Cases
    BY DEF RunOK
  <2>3. /\ run'.pc = run.pc /\ run'.err = run.err /\ run'.exit = run.exit
        /\ run'.seen = run.seen \/ (gitea' = Filing(c) /\ run'.seen = run.seen \cup {c})
    BY <2>1, FiledRun
  <2>4. \A m \in run.seen : m \in Cases /\ gitea.filed[m] > 0
    BY <1>9, EnqueueStep
  <2>5. \A m \in Cases : gitea.filed[m] \in Nat
    BY DEF GiteaOK
  <2>6. \A m \in run.seen : m \in Cases /\ gitea'.filed[m] > 0
    BY <2>1, <2>2, <2>4, <2>5, FilingEffect
  <2>7. gitea' = Filing(c) => gitea'.filed[c] > 0
    BY <2>2, <2>5, FilingEffect
  <2>8. \A m \in run'.seen : m \in Cases /\ gitea'.filed[m] > 0
    BY <2>2, <2>3, <2>6, <2>7
  <2> QED BY <1>9, <2>3, <2>8, EnqueueStep
<1>10. CASE Dispatched
  BY <1>10, DispatchedStep DEF Status
<1> QED BY <1>1, <1>2, <1>3, <1>4, <1>5, <1>6, <1>7, <1>8, <1>9, <1>10 DEF E2ENext

\* An issue filed is remembered, or costs a slip.
LEMMA E2EFiled ==
  ASSUME IInv, E2ENext, E2E
  PROVE  FiledOK'
<1>1. /\ Slips \in Nat /\ Dead \in {0, 1} /\ Dead' = Dead /\ (Live => Dead = 0) /\ (~Live => Dead = 1)
      /\ Slips' \in Nat /\ (Answered => Slips' = Slips /\ Dead = 0) /\ (UNCHANGED slips => Slips' = Slips)
      /\ (Fails => (Dead = 0 /\ Slips' = Slips + 1) \/ (Dead = 1 /\ Slips' = Slips))
  <2>1. UNCHANGED task /\ (UNCHANGED slips \/ Faults) /\ SlipsOK
    BY E2EServed DEF Served, IInv, Types
  <2>2. Dead \in {0, 1} /\ Dead' = Dead /\ (Live => Dead = 0) /\ (~Live => Dead = 1)
    BY <2>1, TaskFrame DEF Dead, One
  <2>3. Slips \in Nat /\ (UNCHANGED slips => Slips' = Slips) /\ (Faults => Slips' = Slips + 1)
    BY <2>1, SlipsEffect
  <2> QED BY <2>1, <2>2, <2>3 DEF Answered, Fails
<1>2. /\ RunOK /\ RunOK' /\ GiteaOK /\ ResultOK /\ ResultOK' /\ FiledOK
      /\ gitea.filed \in [Cases -> Nat] /\ result.issues \subseteq Cases
  BY E2EServed DEF IInv, Types, E2EPoints, GiteaOK, ResultOK
<1>3. CASE StartE2E
  <2>1. /\ UNCHANGED <<gitea, result, slips>> /\ run.pc = "start" /\ run'.pc \in {"judge", "container"}
        /\ Slips' = Slips
    BY <1>1, <1>2, <1>3, GoesEffect, ReturnsEffect DEF StartE2E, At
  <2> QED BY <1>1, <1>2, <2>1 DEF FiledOK, Filed
<1>4. CASE RunE2E
  <2>1. /\ UNCHANGED <<gitea, result, slips>> /\ run.pc = "container" /\ run'.pc \in {"judge", "load"}
        /\ Slips' = Slips
    BY <1>1, <1>2, <1>4, E2EAnswers DEF RunE2E, At
  <2> QED BY <1>1, <1>2, <2>1 DEF FiledOK, Filed, One
<1>5. CASE LoadE2EResult
  <2>1. /\ UNCHANGED <<gitea, result>> /\ run.pc = "load" /\ run'.pc = "saveE2E"
        /\ \/ /\ Answered /\ result.stored /\ run'.id = "row" /\ run'.seen = result.issues
           \/ /\ (Answered /\ ~result.stored) \/ Fails
              /\ run'.id = "none" /\ run'.seen = {}
        /\ run'.seen \cap run'.left = {}
    BY <1>2, <1>5, LoadStep, LoadsEffect DEF At
  <2>2. /\ ~result'.stored => result'.issues = {}
        /\ run'.id \in {"none", "row"} /\ (run'.id = "row" => result'.stored)
        /\ run'.id = "none" => run'.seen = {}
        /\ run'.seen \subseteq Cases
    BY <1>2, <2>1 DEF FiledOK
  <2>4. ASSUME NEW c \in Cases PROVE Filed(c)'
    <3>1. gitea.filed[c] \in Nat /\ Filed(c)
      BY <1>2 DEF FiledOK
    <3> QED BY <1>1, <1>2, <2>1, <2>2, <3>1 DEF Filed, One
  <2> QED BY <2>1, <2>2, <2>4 DEF FiledOK
<1>6. CASE SaveE2EResult
  <2>1. /\ UNCHANGED gitea /\ run.pc = "saveE2E" /\ run'.pc = "issues"
        /\ run'.seen = run.seen /\ run'.left = run.left /\ run.seen \subseteq Cases
        /\ run.seen \cap run.left = {} /\ run.id \in {"none", "row"}
        /\ run.id = "none" => run.seen = {}
        /\ \/ /\ Answered /\ result'.stored /\ result'.issues = run.seen
              /\ run'.id = IF run.id = "none" /\ result.stored THEN "other" ELSE "row"
           \/ Fails /\ UNCHANGED result /\ run'.id = run.id
    <3>1. At("saveE2E") /\ run.seen \subseteq Cases
      BY <1>2, <1>6, SaveStep DEF FiledOK, At
    <3> QED BY <1>2, <1>6, <3>1, SaveStep, SavesEffect, SavedEffect DEF FiledOK, At
  <2>2. /\ ~result'.stored => result'.issues = {}
        /\ run'.id = "row" => result'.stored
    BY <1>2, <2>1 DEF FiledOK
  <2>4. ASSUME NEW c \in Cases PROVE Filed(c)'
    <3>1. gitea.filed[c] \in Nat /\ Filed(c)
      BY <1>2 DEF FiledOK
    <3>2. ~result.stored => result.issues = {}
      BY <1>2 DEF FiledOK
    <3> QED BY <1>1, <3>2, <1>2, <2>1, <2>2, <3>1 DEF Filed, One
  <2> QED BY <2>1, <2>2, <2>4 DEF FiledOK
<1>7. CASE CreateIssue
  <2>1. PICK d \in run.left :
          \/ Answered /\ gitea' = Filing(d) /\ Counts(d)
          \/ Fails /\ Passes(d) /\ (UNCHANGED gitea \/ (Live /\ gitea' = Filing(d)))
    BY <1>7, IssueStep
  <2>2. /\ UNCHANGED result /\ run.pc = "issues" /\ run'.pc = "issues" /\ run'.id = run.id
        /\ run'.left = run.left \ {d} /\ d \in Cases
        /\ Counts(d) => run'.seen = run.seen \cup {d}
        /\ Passes(d) => run'.seen = run.seen
    BY <1>2, <1>7, <2>1, IssueStep, FiledRun DEF At, RunOK
  <2>3. /\ ~result'.stored => result'.issues = {}
        /\ run'.id = "row" => result'.stored
        /\ run.seen \subseteq Cases /\ run.seen \cap run.left = {}
        /\ run'.seen \subseteq Cases /\ run'.seen \cap run'.left = {}
    BY <1>2, <2>1, <2>2 DEF FiledOK
  <2>4. ASSUME NEW c \in Cases PROVE Filed(c)'
    <3>1. gitea.filed[c] \in Nat /\ Filed(c)
      BY <1>2 DEF FiledOK
    <3>2. CASE c = d
      <4>1. gitea'.filed[c] = gitea.filed[c] + 1 \/ (gitea'.filed[c] = gitea.filed[c] /\ Fails)
        BY <1>2, <2>1, <2>2, <3>2, FilingEffect
      <4> QED BY <1>1, <2>1, <2>2, <2>3, <3>1, <3>2, <4>1 DEF Filed, One
    <3>3. CASE c # d
      <4>1. gitea'.filed[c] = gitea.filed[c]
        BY <1>2, <2>1, <2>2, <3>3, FilingEffect
      <4> QED BY <1>1, <2>1, <2>2, <3>1, <3>3, <4>1 DEF Filed, One
    <3> QED BY <3>2, <3>3
  <2> QED BY <2>2, <2>3, <2>4 DEF FiledOK
<1>8. CASE UpdateCreatedIssues
  <2>1. /\ UNCHANGED gitea /\ run.pc = "issues" /\ run'.pc = "judge"
        /\ run.seen \subseteq Cases
        /\ \/ /\ Answered /\ run.id = "row" /\ result.stored /\ result'.issues = run.seen
              /\ result'.stored
           \/ Answered /\ (run.id # "row" \/ run.seen = {}) /\ UNCHANGED result
           \/ Fails /\ UNCHANGED result
    <3>1. /\ At("issues") /\ UNCHANGED gitea /\ Goes("judge")
          /\ \/ /\ Answered /\ run.id = "row" /\ result' = [result EXCEPT !.issues = run.seen]
             \/ Answered /\ (run.id # "row" \/ run.seen = {}) /\ UNCHANGED result
             \/ Fails /\ UNCHANGED result
      BY <1>8 DEF UpdateCreatedIssues
    <3>2. run.seen \subseteq Cases /\ (run.id = "row" => result.stored) /\ run'.pc = "judge"
      BY <1>2, <3>1, GoesEffect DEF FiledOK, At
    <3> QED BY <1>2, <3>1, <3>2, SavedEffect DEF At
  <2>2. ~result'.stored => result'.issues = {}
    BY <1>2, <2>1 DEF FiledOK
  <2>4. ASSUME NEW c \in Cases PROVE Filed(c)'
    <3>1. gitea.filed[c] \in Nat /\ Filed(c)
      BY <1>2 DEF FiledOK
    <3> QED BY <1>1, <1>2, <2>1, <2>2, <3>1 DEF Filed, One
  <2> QED BY <2>1, <2>2, <2>4 DEF FiledOK
<1>9. /\ LoadAvailableE2EModules \/ EnqueueE2E \/ Dispatched => run.pc \in TriagePCs
      /\ RunTriage => Triage
  BY DEF LoadAvailableE2EModules, EnqueueE2E, Dispatched, RunTriage, Read, Write, At, TriagePCs
<1> QED BY <1>3, <1>4, <1>5, <1>6, <1>7, <1>8, <1>9, E2EKnows DEF E2ENext, E2E, Triage, Is

\* The end-to-end service keeps its parts of the invariant.
LEMMA E2EKeeps ==
  ASSUME IInv, E2ENext
  PROVE  /\ Types' /\ Served /\ Placed' /\ Unanswered' /\ E2EPoints' /\ JudgeOK' /\ SaidOK'
         /\ run'.pc \in E2EPCs \cup TriagePCs \cup {"container", "judge", "store"}
         /\ (E2E \/ Triage)
<1>1. Types' /\ Served /\ E2EMove /\ gitea'.said = gitea.said
  BY E2EServed, E2EMoves
<1>2. UNCHANGED task /\ task.phase = "running"
  BY <1>1 DEF Served
<1>3. run'.pc \in E2EPCs \cup TriagePCs \cup {"container", "judge", "store"} /\ (E2E \/ Triage)
  BY <1>1 DEF E2EMove, E2EPCs, TriagePCs
<1>4. Placed'
  BY <1>1, <1>2 DEF E2EMove, Placed, FixPCs, TestPCs, CodePCs, E2EPCs, TriagePCs, ReviewPCs, Ending,
                    Is, Fixing, Testing, Coding, E2E, Triage, Reviewing
<1>5. Unanswered'
  BY <1>1, <1>2 DEF E2EMove, Served, SameEnd, IInv, Unanswered, FixPCs, TestPCs, CodePCs, E2EPCs,
                    TriagePCs, Ending, Is, E2E, Triage
<1>6. E2EPoints'
  <2>1. E2E' => FiledOK'
    BY <1>2, E2EFiled DEF E2E, Is
  <2>2. run'.pc = "dispatch" => \A m \in run'.seen : m \in Cases /\ gitea'.filed[m] > 0
    BY <1>1 DEF E2EMove
  <2> QED BY <2>1, <2>2 DEF E2EPoints
<1>7. JudgeOK'
  BY <1>1, <1>2 DEF E2EMove, JudgeOK, Reached, ToBlame, Deterministic, Is, E2E, Triage
<1>8. SaidOK'
  <2>1. Types /\ SaidOK /\ run.pc \notin {"judge", "saveReview"} \cup Ending
        /\ (UNCHANGED slips \/ Faults)
    BY <1>1, <1>3 DEF Served, IInv, Placed, ReviewPCs, Is, E2E, Triage, Reviewing
  <2> QED BY <1>1, <1>2, <2>1, Silent
<1> QED BY <1>1, <1>3, <1>4, <1>5, <1>6, <1>7, <1>8

-----------------------------------------------------------------------------
\* The review.
LEMMA ReviewAnswers ==
  ASSUME RunOK, Container(ReviewOutcome)
  PROVE  /\ RunOK' /\ UNCHANGED <<task, gitea, result, slips>> /\ SameEnd
         /\ At("container") /\ run'.pr = run.pr
         /\ \/ run'.pc = "judge" /\ run'.err \in {"canceled", "error"}
            \/ run'.pc = "judge" /\ run'.err = "review_parse" /\ run'.exit = 0
            \/ run'.pc = "diff" /\ run'.err = "nil" /\ run'.exit = 0 /\ run'.out \in DOMAIN Outputs
<1>1. DOMAIN ReviewOutcome = {"garbled"} \cup DOMAIN Outputs
  BY DEF ReviewOutcome
<1>2. \A o \in DOMAIN ReviewOutcome :
        ReviewOutcome[o] = IF o = "garbled" THEN Exit("review_parse", 0) ELSE To("diff")
  BY DEF ReviewOutcome
<1>3. /\ Exit("review_parse", 0).pc = "judge" /\ Exit("review_parse", 0).err = "review_parse"
      /\ Exit("review_parse", 0).exit = 0
      /\ To("diff").pc = "diff" /\ To("diff").err = "nil" /\ To("diff").exit = 0
  BY DEF Exit, To
<1>4. \A o \in DOMAIN ReviewOutcome :
        LET e == ReviewOutcome[o] IN
        \/ e.pc = "judge" /\ e.err = "review_parse" /\ e.exit = 0
        \/ e.pc = "diff" /\ e.err = "nil" /\ e.exit = 0 /\ o \in DOMAIN Outputs
  BY <1>1, <1>2, <1>3
<1>5. \A o \in DOMAIN ReviewOutcome : ReviewOutcome[o].exit \in {0, 1, 2}
  BY <1>4
<1>6. \/ run'.pc = "judge" /\ run'.err \in {"canceled", "error"}
      \/ /\ run'.out \in DOMAIN ReviewOutcome /\ run'.pc = ReviewOutcome[run'.out].pc
         /\ run'.err = ReviewOutcome[run'.out].err /\ run'.exit = ReviewOutcome[run'.out].exit
  BY <1>5, ContainerEffect
<1>7. /\ RunOK' /\ UNCHANGED <<task, gitea, result, slips>> /\ SameEnd
      /\ At("container") /\ run'.pr = run.pr
  BY <1>5, ContainerEffect
<1> QED BY <1>4, <1>6, <1>7

Notes(pc, seen) == run' = [run EXCEPT !.pc = pc, !.seen = seen]
LEMMA NotesEffect ==
  ASSUME RunOK, NEW pc, NEW seen, Notes(pc, seen)
  PROVE  /\ RunOK' /\ run'.pc = pc /\ run'.pr = run.pr /\ run'.err = run.err
         /\ run'.exit = run.exit /\ run'.out = run.out /\ SameEnd
BY DEF Notes, RunOK, RunShape, SameEnd

Publishes(r, shown) == gitea' = [Reply(r) EXCEPT !.shown = shown]
LEMMA PublishesEffect ==
  ASSUME GiteaOK, NEW r \in Replies \ {"sync"}, NEW shown, Publishes(r, shown)
  PROVE  /\ GiteaOK' /\ Grown /\ SameGitea /\ gitea'.said["sync"] = gitea.said["sync"]
         /\ gitea'.shown = shown /\ gitea'.loop = gitea.loop
         /\ gitea'.said[r] > 0 /\ gitea'.said[r] = gitea.said[r] + 1
         /\ \A q \in Replies \ {r} : gitea'.said[q] = gitea.said[q]
<1> DEFINE said == [gitea.said EXCEPT ![r] = @ + 1]
<1>1. /\ said \in [Replies -> Nat] /\ said[r] = gitea.said[r] + 1 /\ gitea.said[r] \in Nat
      /\ \A q \in Replies \ {r} : said[q] = gitea.said[q] /\ gitea.said[q] \in Nat
  BY DEF GiteaOK
<1>2. gitea' = [gitea EXCEPT !.said = said, !.shown = shown]
  BY DEF Publishes, Reply, GiteaOK, GiteaShape
<1> HIDE DEF said
<1>3. /\ gitea'.said = said /\ gitea'.shown = shown /\ gitea'.loop = gitea.loop /\ SameGitea
      /\ GiteaShape'
  BY <1>2 DEF GiteaOK, GiteaShape, SameGitea
<1>4. GiteaOK'
  BY <1>1, <1>3 DEF GiteaOK, SameGitea
<1>5. "sync" \in Replies \ {r}
  BY DEF Replies
<1>6. \A q \in Replies : gitea'.said[q] >= gitea.said[q]
  BY <1>1, <1>3
<1>7. Grown
  BY <1>3, <1>6, AttemptAssumption DEF Grown, SameGitea, GiteaOK
<1> QED BY <1>1, <1>3, <1>4, <1>5, <1>7

LEMMA PublishStep ==
  ASSUME CreatePullReview
  PROVE  /\ At("publish") /\ UNCHANGED <<task, result>>
         /\ \E r \in {"degraded", "review"}, shown \in {Degraded, Published(run.out, "diff" \in run.seen)} :
              /\ r = "degraded" <=> Degrading
              /\ shown = IF Degrading THEN Degraded ELSE Published(run.out, "diff" \in run.seen)
              /\ \/ Answered /\ Publishes(r, shown) /\ Goes("saveReview")
                 \/ Fails /\ Unpublished /\ (UNCHANGED gitea \/ (Live /\ Publishes(r, shown)))
<1>1. CASE Degrading
  BY <1>1 DEF CreatePullReview, Write, Publishes
<1>2. CASE ~Degrading
  BY <1>2 DEF CreatePullReview, Write, Publishes
<1> QED BY <1>1, <1>2

LEMMA StaleStep ==
  ASSUME StalenessCheck
  PROVE  /\ At("stale") /\ UNCHANGED <<task, gitea, result>> /\ (Answered \/ Fails)
         /\ \/ Degrading /\ Settles("cancelled", "skip", "never")
            \/ Returns("stale")
            \/ Goes("publish") \/ GoesBlind("publish")
BY DEF StalenessCheck, Stale, Read

LEMMA UnpublishedRun ==
  ASSUME RunOK, Unpublished
  PROVE  /\ RunOK' /\ run'.pr = run.pr /\ run'.exit = run.exit /\ run'.out = run.out
         /\ \/ /\ Degrading /\ run'.pc = "store" /\ run'.status = "failed"
               /\ run'.ret = "error" /\ run'.err = run.err
            \/ ~Degrading /\ run'.pc = "judge" /\ run'.err = "nil" /\ SameEnd
BY SettlesEffect, ReturnsEffect DEF Unpublished, SameData, Status

\* A step of the review keeps the types and is one of a service.
LEMMA ReviewServed ==
  ASSUME IInv, ReviewNext
  PROVE  Types' /\ Served /\ UNCHANGED result
<1> USE GoesEffect, GoesBlindEffect, ReturnsEffect, SettlesEffect, FaultsEffect, ErrorType,
     Kept, UnchangedGrows
<1> USE DEF IInv, Types, Served, Read, Answered, Fails, At, SameData, Ending
<1>1. CASE GetPullRequest
  BY <1>1 DEF GetPullRequest
<1>2. CASE GetIssueLabels
  BY <1>2 DEF GetIssueLabels
<1>3. CASE ListPullRequestFiles
  BY <1>3 DEF ListPullRequestFiles
<1>4. CASE RunReview
  BY <1>4, ReviewAnswers DEF RunReview
<1>5. CASE GetPullRequestDiff
  <2>1. /\ At("diff") /\ UNCHANGED <<task, gitea, result>> /\ (Answered \/ Fails)
        /\ Notes("stale", {"diff"}) \/ Goes("stale")
    BY <1>5 DEF GetPullRequestDiff, Notes
  <2> QED BY <2>1, NotesEffect
<1>6. CASE StalenessCheck
  BY <1>6, StaleStep DEF EndPair, Status
<1>7. CASE CreatePullReview
  <2>1. PICK r \in {"degraded", "review"}, shown \in {Degraded, Published(run.out, "diff" \in run.seen)} :
          \/ Answered /\ Publishes(r, shown) /\ Goes("saveReview")
          \/ Fails /\ Unpublished /\ (UNCHANGED gitea \/ (Live /\ Publishes(r, shown)))
    BY <1>7, PublishStep
  <2>2. r \in Replies \ {"sync"}
    BY DEF Replies
  <2>3. /\ GiteaOK' /\ Grown /\ gitea'.synced = gitea.synced /\ gitea'.made = gitea.made
        /\ gitea'.said["sync"] = gitea.said["sync"] /\ gitea'.loop = gitea.loop
    BY <2>1, <2>2, PublishesEffect DEF SameGitea
  <2>4. Degrading => ~ShouldRetry
    BY <1>7, PublishStep DEF ReviewPoints, Degrading
  <2>5. Reviewing
    BY <1>7, PublishStep DEF Placed, ReviewPCs
  <2> QED BY <1>7, <2>1, <2>3, <2>4, <2>5, PublishStep, UnpublishedRun, TaskFrame DEF EndPair
<1>8. CASE SaveReviewResult
  <2>1. Degrading => ~ShouldRetry
    BY <1>8 DEF SaveReviewResult, ReviewPoints, Degrading
  <2> QED BY <1>8, <2>1, UnpublishedRun, TaskFrame DEF SaveReviewResult, EndPair
<1>9. CASE DegradeReview
  BY <1>9 DEF DegradeReview
<1> QED BY <1>1, <1>2, <1>3, <1>4, <1>5, <1>6, <1>7, <1>8, <1>9 DEF ReviewNext

\* What the review knows where it is.
ReviewMove ==
  \/ /\ run'.exit = 0
     /\ \/ run'.err = "nil" /\ \/ run'.pc \in {"labels", "files", "container"}
                               \/ run'.pc \in {"diff", "stale", "publish"} /\ run'.out \in DOMAIN Outputs
                               \/ run'.pc = "saveReview" /\ gitea'.said["review"] > 0
        \/ run'.err = "review_parse" /\ ~ShouldRetry /\ run'.pc \in {"stale", "publish", "saveReview"}
  \/ /\ run'.pc = "judge"
     /\ \/ run'.err \in {"error", "canceled", "stale"}
        \/ run'.err = "review_parse" /\ run'.exit = 0
        \/ run'.err = "pr_not_open" /\ task.subject \in Unsound
        \/ /\ run'.err = "nil" /\ run'.exit = 0
           /\ gitea'.said["review"] > 0 \/ Slipped'
  \/ run'.pc = "store"

LEMMA ReviewKnows ==
  ASSUME IInv
  PROVE  /\ run.pc \in {"start", "container", "labels", "files", "diff"} => run.err = "nil"
         /\ run.pc \in {"start", "container", "degrade"} \cup ReviewPCs => run.exit = 0
         /\ run.pc \in {"stale", "publish", "saveReview"} =>
              run.err = "nil" \/ (run.err = "review_parse" /\ ~ShouldRetry)
         /\ run.pc \in {"diff", "stale", "publish"} /\ run.err = "nil" => run.out \in DOMAIN Outputs
         /\ run.pc = "saveReview" /\ run.err = "nil" => gitea.said["review"] > 0
         /\ run.pc \in ReviewPCs => Reviewing
         /\ run.pc = "degrade" /\ Reviewing => run.err = "review_parse" /\ ~ShouldRetry
         /\ ~Live => Slipped
         /\ RunOK /\ GiteaOK /\ SlipsOK
BY DEF IInv, Types, Placed, Unanswered, FixPoints, ReviewPoints, ReviewPCs, E2EPCs, Ending

\* From which call to which, and what the next one knows.
LEMMA ReviewMoves ==
  ASSUME IInv, ReviewNext
  PROVE  ReviewMove /\ Reviewing
<1> USE ReviewKnows, GoesEffect, GoesBlindEffect, ReturnsEffect, SettlesEffect, ErrorType
<1> USE DEF ReviewMove, ReviewPCs, Unsound, Read, At, SameData
<1>1. CASE GetPullRequest
  BY <1>1 DEF GetPullRequest
<1>2. CASE GetIssueLabels
  BY <1>2 DEF GetIssueLabels
<1>3. CASE ListPullRequestFiles
  BY <1>3 DEF ListPullRequestFiles
<1>4. CASE RunReview
  BY <1>4, ReviewAnswers DEF RunReview
<1>5. CASE GetPullRequestDiff
  <2>1. At("diff") /\ (Notes("stale", {"diff"}) \/ Goes("stale"))
    BY <1>5 DEF GetPullRequestDiff, Notes
  <2> QED BY <2>1, NotesEffect
<1>6. CASE StalenessCheck
  BY <1>6, StaleStep DEF Status
<1>7. CASE CreatePullReview
  <2>1. PICK r \in {"degraded", "review"}, shown \in {Degraded, Published(run.out, "diff" \in run.seen)} :
          /\ r = "degraded" <=> Degrading
          /\ \/ Answered /\ Publishes(r, shown) /\ Goes("saveReview")
             \/ Fails /\ Unpublished /\ (UNCHANGED gitea \/ (Live /\ Publishes(r, shown)))
    BY <1>7, PublishStep
  <2>2. run.pc = "publish"
    BY <1>7, PublishStep
  <2>3. r \in Replies \ {"sync"}
    BY DEF Replies
  <2>4. CASE Publishes(r, shown) /\ Goes("saveReview")
    BY <2>1, <2>2, <2>3, <2>4, PublishesEffect DEF Degrading
  <2>5. CASE Fails /\ Unpublished
    <3>1. Slipped'
      BY <2>5, SlipsEffect DEF Fails
    <3> QED BY <2>2, <2>5, <3>1, UnpublishedRun DEF Degrading
  <2> QED BY <2>1, <2>2, <2>4, <2>5
<1>8. CASE SaveReviewResult
  <2>1. run.pc = "saveReview" /\ UNCHANGED gitea /\ Unpublished
    BY <1>8 DEF SaveReviewResult
  <2> QED BY <2>1, UnpublishedRun DEF Degrading
<1>9. CASE DegradeReview
  BY <1>9 DEF DegradeReview
<1> QED BY <1>1, <1>2, <1>3, <1>4, <1>5, <1>6, <1>7, <1>8, <1>9 DEF ReviewNext

\* What it says, and that it is its last word, or the answer was lost.
ReviewSays ==
  \/ UNCHANGED gitea
  \/ \E r \in {"degraded", "review"} :
       /\ \/ r = "degraded" /\ Publishes(r, Degraded)
          \/ r = "review" /\ run.out \in DOMAIN Outputs
             /\ \E diff \in BOOLEAN : Publishes(r, Published(run.out, diff))
       /\ run.pc = "publish"
       /\ Faults \/ (run'.pc = "saveReview" /\ run'.err = IF r = "review" THEN "nil" ELSE "review_parse")

\* Every step of the review says what ReviewSays lists.
LEMMA ReviewSaysOnce ==
  ASSUME IInv, ReviewNext
  PROVE  ReviewSays
<1>1. CASE CreatePullReview
  <2>1. PICK r \in {"degraded", "review"}, shown \in {Degraded, Published(run.out, "diff" \in run.seen)} :
          /\ r = "degraded" <=> Degrading
          /\ shown = IF Degrading THEN Degraded ELSE Published(run.out, "diff" \in run.seen)
          /\ \/ Answered /\ Publishes(r, shown) /\ Goes("saveReview")
             \/ Fails /\ Unpublished /\ (UNCHANGED gitea \/ (Live /\ Publishes(r, shown)))
    BY <1>1, PublishStep
  <2>2. run.pc = "publish"
    BY <1>1, PublishStep DEF At
  <2>3. CASE UNCHANGED gitea
    BY <2>3 DEF ReviewSays
  <2>4. CASE ~UNCHANGED gitea
    <3>1. /\ Publishes(r, shown)
          /\ Faults \/ (run'.pc = "saveReview" /\ run'.err = run.err)
      BY <2>1, <2>4, ReviewKnows, GoesEffect DEF Fails
    <3>2. CASE Degrading
      BY <2>1, <2>2, <3>1, <3>2 DEF ReviewSays, Degrading
    <3>3. CASE ~Degrading
      <4>1. r = "review" /\ run.err = "nil" /\ run.out \in DOMAIN Outputs
        BY <2>1, <2>2, <3>3, ReviewKnows DEF Degrading
      <4> DEFINE diff == "diff" \in run.seen
      <4>2. diff \in BOOLEAN /\ Publishes("review", Published(run.out, diff))
        BY <2>1, <3>1, <3>3, <4>1
      <4> HIDE DEF diff
      <4> QED BY <2>2, <3>1, <4>1, <4>2 DEF ReviewSays
    <3> QED BY <3>2, <3>3
  <2> QED BY <2>3, <2>4
<1>2. CASE ~CreatePullReview
  <2>1. UNCHANGED gitea
    BY <1>2 DEF ReviewNext, GetPullRequest, GetIssueLabels, ListPullRequestFiles, RunReview,
                GetPullRequestDiff, StalenessCheck, SaveReviewResult, DegradeReview, Read, Container
  <2> QED BY <2>1 DEF ReviewSays
<1> QED BY <1>1, <1>2

\* The review service keeps its parts of the invariant.
LEMMA ReviewKeeps ==
  ASSUME IInv, ReviewNext
  PROVE  /\ Types' /\ Served /\ Placed' /\ Unanswered' /\ ReviewPoints' /\ JudgeOK' /\ SaidOK'
         /\ ShownOK' /\ run'.pc \in ReviewPCs \cup {"container", "judge", "store"}
         /\ Reviewing /\ UNCHANGED result
<1>1. Types' /\ Served /\ ReviewMove /\ ReviewSays /\ Reviewing /\ UNCHANGED result
  BY ReviewServed, ReviewMoves, ReviewSaysOnce
<1>2. UNCHANGED task /\ task.phase = "running" /\ (UNCHANGED slips \/ Faults)
  BY <1>1 DEF Served
<1>3. run'.pc \in ReviewPCs \cup {"container", "judge", "store"}
  BY <1>1 DEF ReviewMove, ReviewPCs
<1>4. Placed'
  BY <1>1, <1>2, <1>3 DEF Placed, FixPCs, TestPCs, CodePCs, E2EPCs, TriagePCs, ReviewPCs, Ending,
                    Is, Fixing, Testing, Coding, E2E, Triage, Reviewing
<1>5. Unanswered'
  BY <1>1, <1>2 DEF ReviewMove, Served, SameEnd, IInv, Unanswered, FixPCs, TestPCs, CodePCs, E2EPCs,
                    TriagePCs, ReviewPCs, Ending, Is, Reviewing, Triage
<1>6. ReviewPoints'
  <2>1. ~Live' => Slipped'
    BY <1>2, TaskFrame, SlipsEffect, ReviewKnows
  <2> QED BY <1>1, <1>2, <2>1, TaskFrame DEF ReviewMove, ReviewPoints
<1>7. JudgeOK'
  BY <1>1, <1>2 DEF ReviewMove, JudgeOK, Reached, ToBlame, Deterministic, Is, Reviewing, Triage
<1>8. SaidOK'
  <2>1. Types /\ SaidOK /\ GiteaOK /\ run.pc \notin {"judge"} \cup Ending
    BY <1>1 DEF IInv, Types, Served
  <2>2. CASE run.pc = "saveReview"
    <3>1. SaveReviewResult
      BY <1>1, <2>2 DEF ReviewNext, GetPullRequest, GetIssueLabels, ListPullRequestFiles, RunReview,
                  GetPullRequestDiff, StalenessCheck, CreatePullReview, DegradeReview, Read, Write,
                  Container, At
    <3>2. gitea'.said = gitea.said /\ Unpublished
      BY <3>1 DEF SaveReviewResult, Read
    <3>3. (run.err = "nil" \/ Degrading) /\ run.exit = 0 /\ RunOK
      BY <2>2, ReviewKnows DEF ReviewPCs, Degrading
    <3>4. \/ Degrading /\ run'.pc = "store" /\ run'.status = "failed" /\ run'.ret = "error"
          \/ ~Degrading /\ run'.pc = "judge" /\ run'.err = "nil" /\ run'.exit = 0
      BY <3>2, <3>3, UnpublishedRun
    <3>5. ~Over /\ ~Triage /\ ~Triage'
      BY <1>1, <1>2 DEF Over, Triage, Reviewing, Is
    <3>6. (Last => Last') /\ (GaveUp => GaveUp') /\ (Announced => Announced')
      BY <2>2, <3>3, <3>4, <3>5 DEF Last, GaveUp, Announced, Degrading, Ending
    <3> QED BY <1>2, <2>1, <3>2, <3>6, SaysNothing
  <2>3. CASE run.pc # "saveReview" /\ UNCHANGED gitea
    BY <1>2, <2>1, <2>3, Silent
  <2>4. CASE run.pc # "saveReview" /\ ~UNCHANGED gitea
    <3>1. PICK r \in {"degraded", "review"} :
            /\ \E shown : Publishes(r, shown)
            /\ Faults \/ (run'.pc = "saveReview" /\ run'.err = IF r = "review" THEN "nil" ELSE "review_parse")
      BY <1>1, <2>4 DEF ReviewSays
    <3>2. r \in Replies \ {"sync"}
      BY DEF Replies
    <3>3. gitea'.said[r] = gitea.said[r] + 1 /\ \A q \in Replies \ {r} : gitea'.said[q] = gitea.said[q]
      BY <2>1, <3>1, <3>2, PublishesEffect
    <3>4. ~Last /\ ~GaveUp /\ ~Announced
      BY <1>2, <2>1, <2>4, Unsaid
    <3>5. Faults \/ (r = "review" /\ Last') \/ (r = "degraded" /\ GaveUp')
      BY <3>1 DEF Last, GaveUp
    <3> QED BY <1>2, <2>1, <3>2, <3>3, <3>4, <3>5, SaysOnce
  <2> QED BY <2>2, <2>3, <2>4
<1>9. ShownOK'
  <2>1. GiteaOK /\ ShownOK
    BY DEF IInv, Types
  <2>2. CASE UNCHANGED gitea
    BY <2>1, <2>2 DEF ShownOK
  <2>3. CASE ~UNCHANGED gitea
    <3>1. \/ Publishes("degraded", Degraded)
          \/ run.out \in DOMAIN Outputs /\ \E diff \in BOOLEAN : Publishes("review", Published(run.out, diff))
      BY <1>1, <2>3 DEF ReviewSays
    <3>2. {"degraded", "review"} \subseteq Replies \ {"sync"}
      BY DEF Replies
    <3>3. \/ gitea'.shown = Degraded
          \/ run.out \in DOMAIN Outputs /\ \E diff \in BOOLEAN : gitea'.shown = Published(run.out, diff)
      BY <2>1, <3>1, <3>2, PublishesEffect
    <3> QED BY <3>3 DEF ShownOK
  <2> QED BY <2>2, <2>3
<1> QED BY <1>1, <1>3, <1>4, <1>5, <1>6, <1>7, <1>8, <1>9

-----------------------------------------------------------------------------
(* What every step of a service leaves true: it does not write the row, and  *)
(* it hands a status over only when it is done.                              *)
LEMMA ReachedStays ==
  ASSUME IInv, Types', Grown, UNCHANGED task, Slips' >= Slips, Slipped => Slipped', task.status = "succeeded",
         run'.status = "succeeded" => Reached'
  PROVE  SucceededIsDelivered'
<1>1. GiteaOK /\ GiteaOK' /\ SucceededIsDelivered /\ Slips \in Nat /\ Slips' \in Nat
  <2>1. SlipsOK /\ SlipsOK'
    BY DEF IInv, Types
  <2>2. Slips' \in Nat
    BY <2>1, AttemptAssumption DEF Slips, SlipsOK
  <2> QED BY <2>1, <2>2, SlipsEffect DEF IInv, Types
<1>2. /\ gitea.said["report"] \in Nat /\ gitea.said["review"] \in Nat /\ gitea.made \in Nat
      /\ gitea'.said["report"] \in Nat /\ gitea'.said["review"] \in Nat /\ gitea'.made \in Nat
  BY <1>1, AttemptAssumption DEF GiteaOK, Replies
<1>3. /\ gitea.said["report"] > 0 => gitea'.said["report"] > 0
      /\ gitea.said["review"] > 0 => gitea'.said["review"] > 0
      /\ gitea.made > 0 => gitea'.made > 0
  BY <1>2 DEF Grown, Replies
<1> QED BY <1>1, <1>3 DEF SucceededIsDelivered, Reached

\* A step of any service keeps the parts about the end of an execution.
LEMMA ServiceKeeps ==
  ASSUME IInv, Served, Types'
  PROVE  /\ EndOK' /\ SyncedOK' /\ RowMatchesEntry' /\ TransientIsRetried'
         /\ SucceededIsDelivered' /\ (~Live' => Slipped')
<1>1. /\ task.phase = "running" /\ UNCHANGED task /\ Slips' >= Slips /\ Slips \in Nat /\ Slips' \in Nat
      /\ (Slipped => Slipped') /\ run.pc \notin Ending /\ run.status = "running"
  BY SlipsEffect DEF Served, IInv, Types, Unanswered
<1>2. EndOK'
  BY DEF Served, EndOK, Ending
<1>3. SyncedOK'
  BY DEF IInv, Served, SyncedOK, SyncedOnce, Ending
<1>4. RowMatchesEntry'
  BY <1>1 DEF RowMatchesEntry
<1>5. TransientIsRetried'
  <2>1. run'.status = "failed" => ~ShouldRetry' \/ Triage'
    BY <1>1, TaskFrame DEF Served, SameEnd, Triage, Is
  <2> QED BY <2>1 DEF TransientIsRetried
<1>6. SucceededIsDelivered'
  <2>1. CASE task.status = "succeeded"
    <3>1. run'.status = "succeeded" => Reached'
      BY <1>1 DEF Served, SameEnd
    <3> QED BY <1>1, <2>1, <3>1, ReachedStays DEF Served
  <2>2. CASE task.status # "succeeded"
    BY <1>1, <2>2 DEF SucceededIsDelivered
  <2> QED BY <2>1, <2>2
<1>7. ~Live' => Slipped'
  BY <1>1, TaskFrame DEF IInv, ReviewPoints
<1> QED BY <1>2, <1>3, <1>4, <1>5, <1>6, <1>7

\* A step of any service keeps the invariant.
LEMMA ServicesKeep ==
  ASSUME IInv, FixNext \/ TestNext \/ CodeNext \/ E2ENext \/ ReviewNext
  PROVE  IInv'
<1> USE DEF FixPCs, TestPCs, CodePCs, E2EPCs, TriagePCs, ReviewPCs, Ending,
            Is, Fixing, Testing, Coding, E2E, Triage, Reviewing
<1>1. Served /\ Types' /\ Placed' /\ Unanswered' /\ JudgeOK' /\ SaidOK'
  BY FixKeeps, TestKeeps, CodeKeeps, E2EKeeps, ReviewKeeps
<1>2. /\ EndOK' /\ SyncedOK' /\ RowMatchesEntry' /\ TransientIsRetried'
      /\ SucceededIsDelivered' /\ (~Live' => Slipped')
  BY <1>1, ServiceKeeps
<1>3. UNCHANGED task
  BY <1>1 DEF Served
<1>4. ~ReviewNext => ~Reviewing
  BY FixKeeps, TestKeeps, CodeKeeps, E2EKeeps
<1>5. ShownOK'
  BY <1>1, <1>4, ReviewKeeps DEF Served, IInv, ShownOK
<1>6. FixPoints'
  BY FixKeeps, TestKeeps, CodeKeeps, E2EKeeps, ReviewKeeps DEF FixPoints
<1>7. TestPoints'
  BY FixKeeps, TestKeeps, CodeKeeps, E2EKeeps, ReviewKeeps DEF TestPoints
<1>8. CodePoints'
  BY <1>3, FixKeeps, TestKeeps, CodeKeeps, E2EKeeps, ReviewKeeps DEF CodePoints
<1>9. ReviewPoints'
  BY <1>2, FixKeeps, TestKeeps, CodeKeeps, E2EKeeps, ReviewKeeps DEF ReviewPoints
<1>10. E2EPoints'
  BY <1>3, FixKeeps, TestKeeps, CodeKeeps, E2EKeeps, ReviewKeeps DEF E2EPoints
<1> QED BY <1>1, <1>2, <1>5, <1>6, <1>7, <1>8, <1>9, <1>10 DEF IInv

-----------------------------------------------------------------------------
(* ProcessTask around the services, and what happens meanwhile.              *)
SameTask ==
  task'.kind = task.kind /\ task'.subject = task.subject /\ task'.onFailure = task.onFailure

\* asynq puts the entry back, with one attempt more, or archives it.
LEMMA RequeueEffect ==
  ASSUME TaskOK, NEW apart \in BOOLEAN, Requeue(apart)
  PROVE  /\ TaskOK' /\ SameTask /\ task'.status = task.status /\ task'.apart = apart /\ Live'
         /\ \/ /\ task.attempt < MaxRetry /\ task.attempt # MaxRetry /\ task'.phase = "queued"
               /\ task'.attempt = task.attempt + 1
            \/ /\ task.attempt = MaxRetry /\ task'.phase = "archived"
               /\ task'.attempt = task.attempt
<1>1. MaxRetry \in Nat /\ task.attempt \in Nat /\ task.attempt <= MaxRetry
  BY AttemptAssumption DEF TaskOK
<1>2. CASE task.attempt < MaxRetry
  <2> DEFINE n == task.attempt + 1
  <2>1. n \in 0 .. MaxRetry /\ n = task.attempt + 1
    BY <1>1, <1>2
  <2>2. task' = [task EXCEPT !.phase = "queued", !.attempt = n, !.apart = apart, !.ctx = "live"]
    BY <1>2 DEF Requeue, TaskOK
  <2> HIDE DEF n
  <2>3. task.attempt # MaxRetry
    BY <1>1, <1>2
  <2> QED BY <1>2, <2>1, <2>2, <2>3 DEF TaskOK, SameTask, Live, Phase
<1>3. CASE ~(task.attempt < MaxRetry)
  <2>1. task' = [task EXCEPT !.phase = "archived", !.apart = apart, !.ctx = "live"]
    BY <1>3 DEF Requeue, TaskOK
  <2>2. task.attempt = MaxRetry
    BY <1>1, <1>3
  <2>3. /\ task'.kind = task.kind /\ task'.subject = task.subject /\ task'.status = task.status
        /\ task'.apart = apart /\ task'.ctx = "live" /\ task'.phase = "archived"
        /\ task'.attempt = task.attempt /\ task'.onFailure = task.onFailure /\ TaskOK'
    BY <2>1 DEF TaskOK, Phase
  <2> QED BY <2>2, <2>3 DEF SameTask, Live
<1> QED BY <1>2, <1>3

\* The handler's locals before it starts and after it has returned.
LEMMA IdleRun ==
  ASSUME run' = NoRun
  PROVE  /\ RunOK' /\ run'.pc = "none" /\ run'.pr = 0 /\ run'.err = "nil" /\ run'.exit = 0
         /\ run'.out = "none" /\ run'.all = {} /\ run'.seen = {} /\ run'.status = "running"
BY DEF NoRun, RunOK, RunShape, Status

\* What nobody has said anything for.
LEMMA SaysLess ==
  ASSUME Types, Types', SaidOK, gitea'.said = gitea.said,
         Slips + One(Last) + Dead' <= Slips' + One(Last)' + Dead,
         Slips + Late + One(GaveUp) + Dead' <= Slips' + Late' + One(GaveUp)' + Dead,
         Slips + Late + One(Announced) + Dead' <= Slips' + Late' + One(Announced)' + Dead
  PROVE  SaidOK'
<1>1. /\ One(Last) \in Nat /\ One(GaveUp) \in Nat /\ One(Announced) \in Nat
      /\ One(Last)' \in Nat /\ One(GaveUp)' \in Nat /\ One(Announced)' \in Nat
      /\ Dead \in Nat /\ Dead' \in Nat /\ Late \in Nat /\ Late' \in Nat
  BY DEF One, Dead, Late
<1>2. Slips \in Nat /\ Slips' \in Nat
  BY AttemptAssumption DEF Types, SlipsOK, Slips
<1>3. \A r \in Replies : gitea.said[r] \in Nat
  BY DEF Types, GiteaOK
<1>4. {"reminder", "report", "review", "degraded", "final"} \subseteq Replies
  BY DEF Replies
<1> QED BY <1>1, <1>2, <1>3, <1>4 DEF SaidOK

\* What is said of an issue it has filed.
LEMMA FiledRests ==
  ASSUME Types, Types', FiledOK, result' = result, gitea'.filed = gitea.filed, Slips' >= Slips,
         run.pc \notin {"saveE2E", "issues"} \/ Slips' > Slips,
         run'.pc \notin {"saveE2E", "issues", "start", "container", "load"}
           \/ (run'.pc = "start" /\ Live')
  PROVE  FiledOK'
<1>1. Slips \in Nat /\ Slips' \in Nat /\ \A c \in Cases : gitea.filed[c] \in Nat
  BY AttemptAssumption DEF Types, SlipsOK, Slips, GiteaOK
<1>2. /\ Dead \in Nat /\ (run'.pc = "start" => Dead' = 0) /\ Dead' \in Nat
  BY DEF Dead, One
<1>3. ASSUME NEW c \in Cases PROVE Filed(c)'
  <2>1. Filed(c) /\ gitea.filed[c] \in Nat
    BY <1>1 DEF FiledOK
  <2>2. /\ One(c \in result.issues) \in {0, 1} /\ One(c \in run.seen) \in {0, 1}
        /\ One(c \in run.left) \in {0, 1}
    BY DEF One
  <2>3. gitea.filed[c] <= 2 * Slips' + One(c \in result.issues)
    <3>1. CASE run.pc \notin {"saveE2E", "issues"}
      BY <1>1, <2>1, <2>2, <3>1 DEF Filed
    <3>2. CASE run.pc \in {"saveE2E", "issues"}
      <4>1. gitea.filed[c] <= 2 * Slips + 1
        BY <1>1, <1>2, <2>1, <2>2, <3>2 DEF Filed, FiledOK
      <4>2. Slips + 1 <= Slips'
        BY <1>1, <3>2
      <4>3. \A a, b, f, i \in Nat : a + 1 <= b /\ f <= 2 * a + 1 => f <= 2 * b + i
        OBVIOUS
      <4>4. One(c \in result.issues) \in Nat
        BY <2>2
      <4> QED BY <1>1, <2>1, <4>1, <4>2, <4>3, <4>4
    <3> QED BY <3>1, <3>2
  <2> QED BY <1>1, <1>2, <2>1, <2>3 DEF Filed
<1> QED BY <1>3 DEF FiledOK

\* A handler that has its verdict is past what the services know.
LEMMA Elsewhere ==
  ASSUME IInv, run'.pc \in Ending \cup {"none"}, SameTask, UNCHANGED result,
         \A p \in PRs : gitea'.reviews[p] = gitea.reviews[p],
         ~Live' => Slipped'
  PROVE  /\ Placed' /\ JudgeOK' /\ FixPoints' /\ TestPoints' /\ CodePoints' /\ ReviewPoints'
         /\ ((E2E => FiledOK') => E2EPoints')
<1> USE DEF FixPCs, TestPCs, CodePCs, E2EPCs, TriagePCs, ReviewPCs, Ending, SameTask
<1>1. Placed' /\ JudgeOK' /\ FixPoints' /\ TestPoints'
  BY DEF Placed, JudgeOK, FixPoints, TestPoints
<1>2. CodePoints'
  BY DEF IInv, CodePoints, Coding, Is
<1>3. ReviewPoints' /\ ((E2E => FiledOK') => E2EPoints')
  BY DEF ReviewPoints, E2EPoints, E2E, Is
<1> QED BY <1>1, <1>2, <1>3

\* What has reached its addressee stays there.
LEMMA ReachedKept ==
  ASSUME Types, Types', Grown, SameTask, Slips' >= Slips, Slipped => Slipped', Reached,
         run'.out = run.out, run'.all = run.all, run'.pr = run.pr, UNCHANGED result
  PROVE  Reached'
<1>1. /\ gitea.said["report"] \in Nat /\ gitea.said["review"] \in Nat /\ gitea.made \in Nat
      /\ gitea'.said["report"] \in Nat /\ gitea'.said["review"] \in Nat /\ gitea'.made \in Nat
  BY AttemptAssumption DEF Types, GiteaOK, Replies
<1>2. /\ gitea.said["report"] > 0 => gitea'.said["report"] > 0
      /\ gitea.said["review"] > 0 => gitea'.said["review"] > 0
      /\ gitea.made > 0 => gitea'.made > 0
  BY <1>1 DEF Grown, Replies
<1>3. ASSUME NEW p \in PRs, gitea.reviews[p] > 0 PROVE gitea'.reviews[p] > 0
  <2>1. gitea.reviews[p] \in Nat /\ gitea'.reviews[p] \in Nat
    BY DEF Types, GiteaOK
  <2> QED BY <1>3, <2>1 DEF Grown
<1>4. ASSUME NEW c \in Cases, gitea.filed[c] > 0 PROVE gitea'.filed[c] > 0
  <2>1. gitea.filed[c] \in Nat /\ gitea'.filed[c] \in Nat
    BY DEF Types, GiteaOK
  <2> QED BY <1>4, <2>1 DEF Grown
<1>5. run.all \subseteq Cases /\ Slips \in Nat /\ Slips' \in Nat
  BY AttemptAssumption DEF Types, RunOK, SlipsOK, Slips
<1>6. (WantsCodeReview' <=> WantsCodeReview) /\ (HasReview => HasReview')
  BY <1>3 DEF WantsCodeReview, HasReview, SameTask
<1> QED BY <1>2, <1>4, <1>5, <1>6 DEF Reached, SameTask

\* What a row says succeeded stays delivered.
LEMMA DeliveredStays ==
  ASSUME Types, Types', SucceededIsDelivered, Grown, SameTask, Slips' >= Slips, Slipped => Slipped',
         task'.status = "succeeded" =>
           Reached' \/ (task.status = "succeeded" /\ run'.status # "succeeded")
  PROVE  SucceededIsDelivered'
<1>1. /\ gitea.said["report"] \in Nat /\ gitea.said["review"] \in Nat /\ gitea.made \in Nat
      /\ gitea'.said["report"] \in Nat /\ gitea'.said["review"] \in Nat /\ gitea'.made \in Nat
  BY AttemptAssumption DEF Types, GiteaOK, Replies
<1>2. /\ gitea.said["report"] > 0 => gitea'.said["report"] > 0
      /\ gitea.said["review"] > 0 => gitea'.said["review"] > 0
      /\ gitea.made > 0 => gitea'.made > 0
  BY <1>1 DEF Grown, Replies
<1>3. Slips \in Nat /\ Slips' \in Nat
  BY AttemptAssumption DEF Types, SlipsOK, Slips
<1> QED BY <1>2, <1>3 DEF SucceededIsDelivered, Reached, SameTask

\* The switch: a status with its answer to asynq, or another call.
JudgeMove ==
  \/ /\ run'.pc = "store" /\ EndPair' /\ (run'.status = "succeeded" => Reached')
     /\ run'.status = "failed" /\ ShouldRetry /\ ~Triage =>
          run'.err = "no_framework" \/ ToBlame' \/ run'.exit = 2
     /\ Last => run'.ret # "error"
  \/ /\ run'.pc = "degrade" /\ ~Last /\ ~ShouldRetry /\ run'.exit = 0
     /\ Fixing \/ (Reviewing /\ run'.err = "review_parse")
  \/ /\ run'.pc = "scan" /\ Triage /\ run'.err = "nil" /\ run'.exit = 0
     /\ run'.all = {} /\ run'.seen = {}

\* What the switch settles is matched by what it knows.
LEMMA JudgeMoves ==
  ASSUME IInv, Judge
  PROVE  /\ JudgeMove /\ RunOK' /\ UNCHANGED <<task, gitea, result, slips>>
         /\ run.pc = "judge" /\ task.phase = "running" /\ run'.pr = run.pr
         /\ run'.pc # "store" => SameEnd
<1>1. /\ run.pc = "judge" /\ task.phase = "running" /\ Verdict
      /\ UNCHANGED <<task, gitea, result, slips>>
  BY DEF Judge, At
<1>2. RunOK /\ JudgeOK /\ (Triage => run.all = {} /\ run.seen = {}) /\ run.status = "running"
  BY <1>1 DEF IInv, Types, Unanswered, Ending
<1>3. /\ ShouldRetry' = ShouldRetry /\ Slips' = Slips
      /\ SameData => (Reached => Reached') /\ (ToBlame => ToBlame')
  BY <1>1, TaskFrame DEF Slips, Slipped, SameData, Reached, ToBlame, WantsCodeReview, HasReview
<1>4. Triage => Reached
  BY <1>2 DEF Reached, Triage, Is
<1> USE DEF JudgeMove, SameData
<1>5. CASE run.err \in {"canceled", "stale"} /\ Settles("cancelled", "skip", "never")
  BY <1>1, <1>5, <1>2, SettlesEffect DEF EndPair, Status
<1>6. CASE run.err \in Deterministic /\ Settles("failed", "skip", "stored")
  BY <1>1, <1>6, <1>2, <1>3, SettlesEffect DEF EndPair, Status, JudgeOK
<1>7. CASE run.err = "code_test_failure" /\ Settles("succeeded", "nil", "always")
  BY <1>1, <1>7, <1>2, <1>3, <1>4, SettlesEffect DEF EndPair, Status, JudgeOK
<1>8. CASE run.err \in {"fix_parse", "review_parse"} /\ ~ShouldRetry /\ Goes("degrade")
  <2>1. ~Last
    BY <1>1, <1>8 DEF Last, Over, Deterministic, Ending
  <2> QED BY <1>1, <1>8, <1>2, <2>1, GoesEffect DEF JudgeOK
<1>9. CASE /\ run.err # "nil" \/ run.exit = 1
           /\ run.err \notin Deterministic
           /\ Settles(IF ShouldRetry THEN "retrying" ELSE "failed", "error", "stored")
  <2>1. ~Last
    BY <1>1, <1>9 DEF Last, Over, Ending
  <2> QED BY <1>1, <1>9, <1>2, <1>3, <2>1, SettlesEffect DEF EndPair, Status
<1>10. CASE run.exit = 2 /\ Settles("failed", "skip", "stored")
  BY <1>1, <1>10, <1>2, SettlesEffect DEF EndPair, Status
<1>11. CASE Triage /\ run.err = "nil" /\ run.exit = 0 /\ Goes("scan")
  BY <1>1, <1>11, <1>2, GoesEffect
<1>12. CASE run.err = "nil" /\ run.exit = 0 /\ Settles("succeeded", "nil", "stored")
  BY <1>1, <1>12, <1>2, <1>3, <1>4, SettlesEffect DEF EndPair, Status, JudgeOK
<1>13. run.exit \in {0, 1, 2}
  BY <1>2 DEF RunOK
<1>14. \/ run.err \in {"canceled", "stale"} /\ Settles("cancelled", "skip", "never")
       \/ run.err \in Deterministic /\ Settles("failed", "skip", "stored")
       \/ run.err = "code_test_failure" /\ Settles("succeeded", "nil", "always")
       \/ run.err \in {"fix_parse", "review_parse"} /\ ~ShouldRetry /\ Goes("degrade")
       \/ /\ run.err # "nil" \/ run.exit = 1
          /\ run.err \notin Deterministic
          /\ Settles(IF ShouldRetry THEN "retrying" ELSE "failed", "error", "stored")
       \/ run.exit = 2 /\ Settles("failed", "skip", "stored")
       \/ Triage /\ run.err = "nil" /\ run.exit = 0 /\ Goes("scan")
       \/ run.err = "nil" /\ run.exit = 0 /\ Settles("succeeded", "nil", "stored")
  BY <1>1, <1>13 DEF Verdict
<1> QED BY <1>1, <1>5, <1>6, <1>7, <1>8, <1>9, <1>10, <1>11, <1>12, <1>14

\* The switch keeps the invariant.
LEMMA JudgeKeeps ==
  ASSUME IInv, Judge
  PROVE  IInv'
<1>1. /\ JudgeMove /\ RunOK' /\ UNCHANGED <<task, gitea, result, slips>>
      /\ run.pc = "judge" /\ task.phase = "running" /\ run'.pr = run.pr
      /\ run'.pc # "store" => SameEnd
  BY JudgeMoves
<1>2. Types' /\ Slips' = Slips /\ Slipped' = Slipped /\ ShouldRetry' = ShouldRetry /\ Grown
  BY <1>1, Kept, TaskFrame, UnchangedGrows DEF JudgeMove, IInv, Types, Slips, Slipped
<1>3. run.status = "running" /\ run'.pc \in {"store", "degrade", "scan"} /\ run'.pc \notin {"judge", "none"}
  BY <1>1 DEF JudgeMove, IInv, Unanswered, Ending
<1>4. Placed'
  BY <1>1 DEF JudgeMove, Placed, FixPCs, TestPCs, CodePCs, E2EPCs, TriagePCs, ReviewPCs, Ending,
              Is, Fixing, Triage, Reviewing
<1>5. Unanswered'
  BY <1>1, <1>3 DEF JudgeMove, SameEnd, Unanswered, FixPCs, TestPCs, CodePCs, E2EPCs, TriagePCs,
                    ReviewPCs, Ending, Is, Triage
<1>6. EndOK' /\ JudgeOK'
  BY <1>1, <1>3 DEF JudgeMove, EndOK, JudgeOK, Ending
<1>7. FixPoints' /\ TestPoints' /\ ReviewPoints'
  BY <1>1, <1>2, <1>3 DEF JudgeMove, IInv, FixPoints, TestPoints, ReviewPoints, Live, Is,
       Fixing, Reviewing
<1>8. CodePoints'
  BY <1>1, <1>3 DEF IInv, CodePoints, Is, Coding
<1>9. E2EPoints'
  <2>1. FiledOK => FiledOK'
    <3>1. Slips \in Nat
      BY SlipsEffect DEF IInv, Types
    <3> QED BY <1>1, <1>2, <1>3, <3>1, FiledRests DEF IInv
  <2> QED BY <1>1, <1>3, <2>1 DEF IInv, E2EPoints, E2E, Is
<1>10. SaidOK'
  <2>1. (Last => Last') /\ (GaveUp => GaveUp') /\ (Announced => Announced')
    BY <1>1 DEF JudgeMove, Last, GaveUp, Announced, Over, Ending
  <2> QED BY <1>1, <2>1, SaysNothing DEF IInv
<1>11. SyncedOK' /\ ShownOK' /\ RowMatchesEntry'
  BY <1>1, <1>3 DEF IInv, SyncedOK, SyncedOnce, ShownOK, RowMatchesEntry
<1>12. TransientIsRetried'
  BY <1>1, <1>2, <1>3 DEF JudgeMove, SameEnd, TransientIsRetried, ToBlame, Triage, Is
<1>13. SucceededIsDelivered'
  <2>1. run'.status = "succeeded" => Reached'
    BY <1>1, <1>3 DEF JudgeMove, SameEnd
  <2>2. Slips' >= Slips
    BY <1>2, SlipsEffect DEF IInv, Types
  <2> QED BY <1>1, <1>2, <2>1, <2>2, DeliveredStays DEF IInv, SameTask
<1> QED BY <1>2, <1>4, <1>5, <1>6, <1>7, <1>8, <1>9, <1>10, <1>11, <1>12, <1>13 DEF IInv

-----------------------------------------------------------------------------
\* From the verdict to the answer the handler only goes on; what it tells asynq and
\* the user is settled.
LEMMA EndKeeps ==
  ASSUME IInv, Types', run.pc \in Ending, run'.pc \in Ending,
         SameTask, task'.phase = "running", task'.attempt = task.attempt, task'.ctx = task.ctx,
         SameData, SameEnd, run'.err = run.err, run'.exit = run.exit,
         Grown, gitea'.reviews = gitea.reviews, gitea'.filed = gitea.filed,
         gitea'.shown = gitea.shown, UNCHANGED result, Slips' >= Slips, Slipped => Slipped',
         task'.status \in {task.status, run.status},
         run'.pc # "store" /\ ~task'.apart /\ Live => task'.status = run.status,
         SaidOK', SyncedOK'
  PROVE  IInv'
<1>1. ShouldRetry' = ShouldRetry /\ Live' = Live /\ Slips \in Nat /\ Slips' \in Nat
  <2>1. SlipsOK /\ SlipsOK'
    BY DEF IInv, Types
  <2> QED BY <2>1, AttemptAssumption DEF ShouldRetry, Live, Slips, SlipsOK
<1>2. EndOK' /\ Unanswered'
  <2>1. EndOK /\ EndPair /\ (run.status = "succeeded" => Reached)
    BY DEF IInv, EndOK
  <2>2. EndPair'
    BY <1>1, <2>1 DEF EndPair, SameEnd
  <2>3. run'.status = "succeeded" => Reached'
    BY <2>1, ReachedKept DEF IInv, SameEnd, SameData
  <2>4. EndOK'
    BY <1>1, <2>2, <2>3 DEF EndOK, SameEnd
  <2> QED BY <2>4 DEF Unanswered, Ending, FixPCs, TestPCs, CodePCs, E2EPCs, TriagePCs
<1>3. /\ Placed' /\ JudgeOK' /\ FixPoints' /\ TestPoints' /\ CodePoints' /\ ReviewPoints'
      /\ ((E2E => FiledOK') => E2EPoints')
  <2>1. ~Live' => Slipped'
    BY <1>1 DEF IInv, ReviewPoints
  <2> QED BY <2>1, Elsewhere
<1>4. E2E => FiledOK'
  BY FiledRests DEF IInv, E2EPoints, Ending
<1>5. ShownOK' /\ RowMatchesEntry'
  BY DEF IInv, ShownOK, RowMatchesEntry
<1>6. TransientIsRetried'
  BY <1>1 DEF IInv, TransientIsRetried, SameEnd, SameData, SameTask, Triage, Is
<1>7. SucceededIsDelivered'
  <2>1. run.status = "succeeded" => Reached'
    BY ReachedKept DEF IInv, EndOK, SameData
  <2> QED BY <2>1, DeliveredStays DEF IInv, SameEnd
<1> QED BY <1>2, <1>3, <1>4, <1>5, <1>6, <1>7 DEF IInv

\* The final write, or what came of it.
LEMMA StoreKeeps ==
  ASSUME IInv, Store
  PROVE  IInv'
<1>1. PICK stored \in BOOLEAN :
        /\ IF stored THEN UNCHANGED slips ELSE Faults
        /\ task' = IF stored THEN [task EXCEPT !.status = run.status, !.apart = FALSE]
                   ELSE [task EXCEPT !.apart = TRUE]
        /\ Goes("tell") \/ Goes("return")
  BY DEF Store
<1>2. /\ run.pc = "store" /\ task.phase = "running" /\ UNCHANGED <<gitea, result>>
      /\ RunOK /\ TaskOK /\ SlipsOK /\ GiteaOK /\ run.status \in Status
  BY DEF Store, At, IInv, Types, RunOK
<1>3. /\ SameTask /\ TaskOK' /\ task'.phase = "running" /\ task'.attempt = task.attempt
      /\ task'.ctx = task.ctx
      /\ task'.status \in {task.status, run.status}
      /\ ~task'.apart => task'.status = run.status
  <2>1. CASE stored
    <3>1. task' = [task EXCEPT !.status = run.status, !.apart = FALSE]
      BY <1>1, <2>1
    <3> QED BY <1>2, <3>1 DEF TaskOK, SameTask
  <2>2. CASE ~stored
    <3>1. task' = [task EXCEPT !.apart = TRUE]
      BY <1>1, <2>2
    <3> QED BY <1>2, <3>1 DEF TaskOK, SameTask
  <2> QED BY <2>1, <2>2
<1>4. /\ RunOK' /\ SameData /\ SameEnd /\ run'.err = run.err /\ run'.exit = run.exit
      /\ run'.pc \in {"tell", "return"}
  BY <1>1, <1>2, GoesEffect
<1>5. SlipsOK' /\ Slips' >= Slips /\ (Slipped => Slipped')
  BY <1>1, <1>2, Kept, FaultsEffect, SlipsEffect
<1>6. Types'
  BY <1>2, <1>3, <1>4, <1>5, Kept DEF IInv, Types, SameData
<1>7. Grown /\ gitea'.shown = gitea.shown
  BY <1>2, UnchangedGrows
<1>8. SaidOK'
  <2>1. Dead' = Dead /\ Late' = Late /\ gitea'.said = gitea.said
    BY <1>2, <1>3 DEF Dead, Late, Live
  <2>2. (Last => Last') /\ (GaveUp => GaveUp') /\ ~Announced
    BY <1>2, <1>3, <1>4 DEF Last, GaveUp, Announced, Over, SameEnd, Ending
  <2>3. /\ One(Last) <= One(Last)' /\ One(GaveUp) <= One(GaveUp)' /\ One(Announced) <= One(Announced)'
        /\ One(Last) \in Nat /\ One(GaveUp) \in Nat /\ One(Announced) \in Nat
        /\ One(Last)' \in Nat /\ One(GaveUp)' \in Nat /\ One(Announced)' \in Nat
        /\ Dead \in Nat /\ Late \in Nat
    BY <2>2 DEF One, Dead, Late
  <2>4. Slips \in Nat /\ Slips' \in Nat
    BY <1>2, <1>5, AttemptAssumption DEF Slips, SlipsOK
  <2> QED BY <1>5, <1>6, <2>1, <2>3, <2>4, SaysLess DEF IInv
<1>9. SyncedOK'
  BY <1>2, <1>4 DEF IInv, SyncedOK, SyncedOnce
<1>10. UNCHANGED result /\ gitea'.reviews = gitea.reviews /\ gitea'.filed = gitea.filed
  BY <1>2
<1> QED BY <1>2, <1>3, <1>4, <1>5, <1>6, <1>7, <1>8, <1>9, <1>10, EndKeeps DEF Ending

\* The iteration loop is told, and the user.
Heard(said) == gitea' = [gitea EXCEPT !.loop = Decision, !.said = said]
\* Telling the loop and the user leaves the rest of Gitea alone.
LEMMA HeardEffect ==
  ASSUME GiteaOK, NEW said \in [Replies -> Nat], Heard(said),
         \A r \in Replies : said[r] >= gitea.said[r]
  PROVE  /\ GiteaOK' /\ Grown /\ SameGitea /\ gitea'.said = said /\ gitea'.shown = gitea.shown
         /\ gitea'.loop = Decision
<1>1. GiteaOK' /\ SameGitea /\ gitea'.said = said /\ gitea'.shown = gitea.shown
      /\ gitea'.loop = Decision
  <2> DEFINE loop == Decision
  <2>1. gitea' = [gitea EXCEPT !.loop = loop, !.said = said] /\ loop = Decision
    BY DEF Heard
  <2> HIDE DEF loop
  <2> QED BY <2>1 DEF GiteaOK, GiteaShape, SameGitea
<1> QED BY <1>1, AttemptAssumption DEF Grown, SameGitea, GiteaOK

\* A completed notification counts once, one that fails costs a slip.
LEMMA TellStep ==
  ASSUME GiteaOK, Tell
  PROVE  /\ At("tell") /\ UNCHANGED <<task, result>>
         /\ \/ /\ UNCHANGED slips /\ Final
               /\ Heard([gitea.said EXCEPT !["final"] = @ + 1])
            \/ Heard(gitea.said) /\ (UNCHANGED slips \/ Faults)
         /\ \/ Goes("sync") /\ run.pr # 0
            \/ Goes("return")
<1>1. [gitea EXCEPT !.loop = Decision] = [gitea EXCEPT !.loop = Decision, !.said = gitea.said]
  BY DEF GiteaOK, GiteaShape
<1>2. [[gitea EXCEPT !.loop = Decision] EXCEPT !.said["final"] = @ + 1]
        = [gitea EXCEPT !.loop = Decision, !.said = [gitea.said EXCEPT !["final"] = @ + 1]]
  BY DEF GiteaOK, GiteaShape
<1> QED BY <1>1, <1>2 DEF Tell, Heard

\* Telling keeps the invariant.
LEMMA TellKeeps ==
  ASSUME IInv, Tell
  PROVE  IInv'
<1>1. RunOK /\ TaskOK /\ SlipsOK /\ GiteaOK /\ gitea.said \in [Replies -> Nat] /\ "final" \in Replies
  BY DEF IInv, Types, GiteaOK, Replies
<1>2. /\ run.pc = "tell" /\ task.phase = "running" /\ UNCHANGED <<task, result>>
      /\ UNCHANGED slips \/ Faults
  BY <1>1, TellStep DEF At
<1>3. PICK said :
        /\ Heard(said)
        /\ \/ said = gitea.said
           \/ said = [gitea.said EXCEPT !["final"] = @ + 1] /\ Final
  BY <1>1, TellStep
<1>4. said \in [Replies -> Nat] /\ \A r \in Replies : said[r] >= gitea.said[r]
  BY <1>1, <1>3
<1>5. /\ GiteaOK' /\ Grown /\ SameGitea /\ gitea'.said = said /\ gitea'.shown = gitea.shown
  BY <1>1, <1>3, <1>4, HeardEffect
<1>6. /\ RunOK' /\ SameData /\ SameEnd /\ run'.err = run.err /\ run'.exit = run.exit
      /\ run'.pc \in {"sync", "return"} /\ (run'.pc = "sync" => run.pr # 0)
  BY <1>1, TellStep, GoesEffect
<1>7. SlipsOK' /\ Slips' >= Slips /\ (Slipped => Slipped')
  BY <1>1, <1>2, Kept, FaultsEffect, SlipsEffect
<1>8. Types'
  BY <1>1, <1>2, <1>5, <1>6, <1>7, Kept DEF IInv, Types, SameData, SameGitea
<1>9. SaidOK'
  <2>1. (Last => Last') /\ (GaveUp => GaveUp') /\ ~Announced /\ (Final => Announced')
    BY <1>2, <1>6 DEF Last, GaveUp, Announced, Over, SameEnd, Ending, Final
  <2>2. CASE said = gitea.said
    BY <1>2, <1>5, <2>1, <2>2, SaysNothing DEF IInv
  <2>3. CASE said = [gitea.said EXCEPT !["final"] = @ + 1] /\ Final
    <3>1. gitea'.said["final"] = gitea.said["final"] + 1 /\ \A q \in Replies \ {"final"} : gitea'.said[q] = gitea.said[q]
      BY <1>1, <1>5, <2>3
    <3> QED BY <1>1, <1>2, <2>1, <2>3, <3>1, SaysOnce DEF IInv
  <2> QED BY <1>3, <2>2, <2>3
<1>10. SyncedOK'
  <2>1. gitea'.said["sync"] = gitea.said["sync"]
    BY <1>1, <1>3, <1>5 DEF Replies
  <2>2. run.pr \in Nat
    BY <1>1 DEF RunOK
  <2> QED BY <1>5, <1>6, <2>1, <2>2 DEF IInv, SyncedOK, SyncedOnce, SameGitea, SameData
<1> QED BY <1>2, <1>5, <1>6, <1>7, <1>8, <1>9, <1>10, EndKeeps DEF Ending, SameTask, IInv,
     EndOK, SameGitea

\* The comment on the generated tests' pull request: written once, then edited.
LEMMA EditKeeps ==
  ASSUME IInv, SyncGenTestsPRComment \/ EditSyncComment
  PROVE  IInv'
<1>1. /\ run.pc \in {"sync", "edit"} /\ task.phase = "running" /\ UNCHANGED <<task, gitea, result>>
      /\ UNCHANGED slips \/ Faults
      /\ \/ Goes("comment1") /\ run.pc = "sync" /\ run.pr \notin gitea.synced
         \/ Goes("edit") \/ Goes("return")
  BY DEF SyncGenTestsPRComment, EditSyncComment, Read, Write, At, Answered, Fails
<1>2. RunOK /\ SlipsOK /\ GiteaOK
  BY DEF IInv, Types
<1>3. /\ RunOK' /\ SameData /\ SameEnd /\ run'.err = run.err /\ run'.exit = run.exit
      /\ run'.pc \in {"comment1", "edit", "return"}
      /\ run'.pc = "comment1" => run.pc = "sync" /\ run.pr \notin gitea.synced
  BY <1>1, <1>2, GoesEffect
<1>4. SlipsOK' /\ Slips' >= Slips /\ (Slipped => Slipped')
  BY <1>1, <1>2, Kept, FaultsEffect, SlipsEffect
<1>5. Types'
  BY <1>1, <1>2, <1>3, <1>4, Kept DEF IInv, Types, SameData
<1>6. SaidOK'
  <2>1. (Last => Last') /\ (GaveUp => GaveUp') /\ (Announced => Announced')
    BY <1>1, <1>3 DEF Last, GaveUp, Announced, Over, SameEnd, Ending, Final
  <2> QED BY <1>1, <2>1, SaysNothing DEF IInv
<1>7. SyncedOK'
  BY <1>1, <1>3 DEF IInv, SyncedOK, SyncedOnce, SameData
<1>8. Grown
  BY <1>1, <1>2, UnchangedGrows
<1> QED BY <1>1, <1>3, <1>4, <1>5, <1>6, <1>7, <1>8, EndKeeps DEF Ending, SameTask, IInv, EndOK

Comments(pr) == gitea' = [Reply("sync") EXCEPT !.synced = @ \cup {pr}]
\* The comment is on a pull request that had none.
LEMMA CommentsEffect ==
  ASSUME GiteaOK, SyncedOnce, NEW pr \in PRs, pr \notin gitea.synced, Comments(pr)
  PROVE  /\ GiteaOK' /\ Grown /\ gitea'.pr = gitea.pr /\ gitea'.made = gitea.made
         /\ gitea'.reviews = gitea.reviews /\ gitea'.filed = gitea.filed
         /\ gitea'.shown = gitea.shown /\ gitea'.loop = gitea.loop /\ SyncedOnce'
         /\ \A q \in Replies \ {"sync"} : gitea'.said[q] = gitea.said[q]
<1> DEFINE said == [gitea.said EXCEPT !["sync"] = @ + 1]
           synced == gitea.synced \cup {pr}
<1>1. /\ said \in [Replies -> Nat] /\ said["sync"] = gitea.said["sync"] + 1
      /\ \A q \in Replies \ {"sync"} : said[q] = gitea.said[q]
      /\ \A q \in Replies : said[q] >= gitea.said[q]
  BY DEF GiteaOK, Replies
<1>2. synced \subseteq PRs /\ Cardinality(synced) = Cardinality(gitea.synced) + 1
  <2>1. IsFiniteSet(PRs)
    <3>1. 1 \in Int /\ MaxPRs \in Int
      BY AttemptAssumption
    <3>2. IsFiniteSet(1 .. MaxPRs)
      BY <3>1, FS_Interval
    <3> QED BY <3>2 DEF PRs
  <2>2. IsFiniteSet(gitea.synced)
    BY <2>1, FS_Subset DEF GiteaOK
  <2> QED BY <2>2, FS_AddElement DEF GiteaOK
<1>3. gitea' = [gitea EXCEPT !.said = said, !.synced = synced]
  BY DEF Comments, Reply, GiteaOK, GiteaShape
<1> HIDE DEF said, synced
<1>4. /\ gitea'.said = said /\ gitea'.synced = synced /\ gitea'.shown = gitea.shown
      /\ gitea'.loop = gitea.loop /\ gitea'.pr = gitea.pr /\ gitea'.made = gitea.made
      /\ gitea'.reviews = gitea.reviews /\ gitea'.filed = gitea.filed /\ GiteaShape'
  BY <1>3 DEF GiteaOK, GiteaShape
<1>5. GiteaOK'
  BY <1>1, <1>2, <1>4 DEF GiteaOK
<1>6. Grown
  BY <1>1, <1>4, AttemptAssumption DEF Grown, GiteaOK
<1>7. SyncedOnce'
  BY <1>1, <1>2, <1>4 DEF SyncedOnce
<1> QED BY <1>1, <1>4, <1>5, <1>6, <1>7

\* The first comment on the pull request keeps the invariant.
LEMMA CreateSyncKeeps ==
  ASSUME IInv, CreateSyncComment
  PROVE  IInv'
<1>1. /\ run.pc = "comment1" /\ task.phase = "running" /\ UNCHANGED <<task, result>>
      /\ UNCHANGED slips \/ Faults
      /\ Goes("return")
      /\ UNCHANGED gitea \/ Comments(run.pr)
  BY DEF CreateSyncComment, Write, At, Answered, Fails, Comments
<1>2. RunOK /\ SlipsOK /\ GiteaOK /\ SyncedOnce /\ run.pr \in PRs /\ run.pr \notin gitea.synced
  BY <1>1, PRInRange DEF IInv, Types, SyncedOK
<1>3. /\ RunOK' /\ SameData /\ SameEnd /\ run'.err = run.err /\ run'.exit = run.exit
      /\ run'.pc = "return"
  BY <1>1, <1>2, GoesEffect
<1>4. SlipsOK' /\ Slips' >= Slips /\ (Slipped => Slipped')
  BY <1>1, <1>2, Kept, FaultsEffect, SlipsEffect
<1>5. /\ GiteaOK' /\ Grown /\ gitea'.made = gitea.made
      /\ gitea'.reviews = gitea.reviews /\ gitea'.filed = gitea.filed
      /\ gitea'.shown = gitea.shown /\ SyncedOnce'
      /\ \A q \in Replies \ {"sync"} : gitea'.said[q] = gitea.said[q]
  <2>1. CASE UNCHANGED gitea
    BY <1>2, <2>1, Kept, UnchangedGrows DEF SyncedOnce
  <2>2. CASE Comments(run.pr)
    BY <1>2, <2>2, CommentsEffect
  <2> QED BY <1>1, <2>1, <2>2
<1>6. Types'
  BY <1>1, <1>2, <1>3, <1>4, <1>5, Kept DEF IInv, Types, SameData
<1>7. SaidOK'
  <2>1. (Last => Last') /\ (GaveUp => GaveUp') /\ (Announced => Announced')
    BY <1>1, <1>3 DEF Last, GaveUp, Announced, Over, SameEnd, Ending, Final
  <2>2. CASE UNCHANGED gitea
    BY <1>1, <2>1, <2>2, SaysNothing DEF IInv
  <2>3. CASE Comments(run.pr)
    <3>1. gitea'.said["sync"] = gitea.said["sync"] + 1
      <4>1. gitea.said \in [Replies -> Nat] /\ "sync" \in Replies
        BY <1>2 DEF GiteaOK, Replies
      <4>2. gitea'.said = [gitea.said EXCEPT !["sync"] = @ + 1]
        BY <1>2, <2>3 DEF Comments, Reply, GiteaOK, GiteaShape
      <4> QED BY <4>1, <4>2
    <3>2. "sync" \in Replies
      BY DEF Replies
    <3> QED BY <1>1, <1>5, <2>1, <3>1, <3>2, SaysOnce DEF IInv
  <2> QED BY <1>1, <2>2, <2>3
<1>8. SyncedOK'
  BY <1>3, <1>5 DEF SyncedOK
<1> QED BY <1>1, <1>3, <1>4, <1>5, <1>6, <1>7, <1>8, EndKeeps DEF Ending, SameTask, IInv, EndOK

\* No handler runs any more, or not yet.
LEMMA IdleKeeps ==
  ASSUME IInv, run' = NoRun, TaskOK', SlipsOK', task'.phase # "running", Live', SameTask,
         task'.status = task.status, UNCHANGED <<gitea, result>>, Slips' >= Slips, Slipped => Slipped',
         run.pc \notin {"saveE2E", "issues"} \/ Slips' > Slips,
         Slips + One(Last) + Dead' <= Slips' + One(Last)' + Dead,
         Slips + Late + One(GaveUp) + Dead' <= Slips' + Late' + One(GaveUp)' + Dead,
         Slips + Late + One(Announced) + Dead' <= Slips' + Late' + One(Announced)' + Dead,
         RowMatchesEntry'
  PROVE  IInv'
<1>1. /\ RunOK' /\ run'.pc = "none" /\ run'.pr = 0 /\ run'.err = "nil" /\ run'.exit = 0
      /\ run'.out = "none" /\ run'.all = {} /\ run'.seen = {} /\ run'.status = "running"
  BY IdleRun
<1>2. GiteaOK /\ GiteaOK' /\ ResultOK' /\ gitea.made \in Nat
  BY Kept, PRTypes DEF IInv, Types
<1>3. Types'
  BY <1>1, <1>2 DEF Types
<1>4. Grown /\ gitea'.reviews = gitea.reviews /\ gitea'.filed = gitea.filed /\ gitea'.said = gitea.said
  BY <1>2, UnchangedGrows
<1>5. EndOK' /\ Unanswered'
  BY <1>1 DEF EndOK, Unanswered, Ending
<1>6. /\ Placed' /\ JudgeOK' /\ FixPoints' /\ TestPoints' /\ CodePoints' /\ ReviewPoints'
      /\ ((E2E => FiledOK') => E2EPoints')
  BY <1>1, <1>4, Elsewhere
<1>7. E2E => FiledOK'
  BY <1>1, <1>3, <1>4, FiledRests DEF IInv, E2EPoints
<1>8. SaidOK'
  BY <1>3, <1>4, SaysLess DEF IInv
<1>9. SyncedOK' /\ ShownOK'
  BY <1>1 DEF IInv, SyncedOK, SyncedOnce, ShownOK
<1>10. TransientIsRetried'
  BY <1>1 DEF TransientIsRetried
<1>11. SucceededIsDelivered'
  BY <1>1, <1>3, <1>4, DeliveredStays DEF IInv
<1> QED BY <1>3, <1>5, <1>6, <1>7, <1>8, <1>9, <1>10, <1>11 DEF IInv

\* The words that asynq's next attempt may have to say again.
LEMMA Words ==
  ASSUME Types
  PROVE  /\ One(Last) \in {0, 1} /\ One(GaveUp) \in {0, 1} /\ One(Announced) \in {0, 1}
         /\ Dead \in {0, 1} /\ Late \in {0, 1} /\ Slips \in Nat
         /\ (Last <=> One(Last) = 1) /\ (GaveUp <=> One(GaveUp) = 1)
         /\ (Announced <=> One(Announced) = 1) /\ (Live <=> Dead = 0)
         /\ (Late = 1 <=> task.attempt = MaxRetry)
<1>1. Slips \in Nat
  BY SlipsEffect DEF Types
<1> QED BY <1>1 DEF One, Dead, Late

\* A lookup of the row that fails.
LEMMA FindRecordKeeps ==
  ASSUME IInv, FindRecordFails
  PROVE  IInv'
<1>1. /\ task.phase = "queued" /\ Faults /\ Requeue(TRUE) /\ UNCHANGED <<run, gitea, result>>
      /\ Types
  BY DEF FindRecordFails, IInv
<1>2. run = NoRun /\ Live /\ run.pc = "none"
  BY <1>1 DEF IInv, Unanswered, Types
<1>3. /\ TaskOK' /\ SameTask /\ task'.status = task.status /\ task'.apart /\ Live'
      /\ task'.phase \in {"queued", "archived"}
      /\ task.attempt = MaxRetry => task'.attempt = MaxRetry
  BY <1>1, RequeueEffect DEF Types
<1>4. SlipsOK' /\ Slips' = Slips + 1 /\ Slips \in Nat /\ (Slipped => Slipped')
  BY <1>1, FaultsEffect, SlipsEffect DEF Types
<1>5. /\ One(Last)' \in {0, 1} /\ One(GaveUp)' \in {0, 1} /\ One(Announced)' \in {0, 1}
      /\ Late' \in {0, 1} /\ Dead' = 0 /\ (task'.attempt = MaxRetry => Late' = 1)
  BY <1>3 DEF One, Late, Dead
<1>6. ~Last /\ ~GaveUp /\ ~Announced
  BY <1>1, <1>2 DEF Last, GaveUp, Announced, Over, Ending
<1>7. RowMatchesEntry'
  BY <1>3 DEF RowMatchesEntry
<1>8. /\ Slips + One(Last) + Dead' <= Slips' + One(Last)' + Dead
      /\ Slips + Late + One(GaveUp) + Dead' <= Slips' + Late' + One(GaveUp)' + Dead
      /\ Slips + Late + One(Announced) + Dead' <= Slips' + Late' + One(Announced)' + Dead
  BY <1>1, <1>3, <1>4, <1>5, <1>6, Words
<1> QED BY <1>1, <1>2, <1>3, <1>4, <1>7, <1>8, IdleKeeps

\* A cancelled task is passed over.
LEMMA SkipKeeps ==
  ASSUME IInv, SkipCancelled
  PROVE  IInv'
<1>1. /\ task.phase = "queued" /\ task.status = "cancelled"
      /\ task' = [task EXCEPT !.phase = "archived"] /\ UNCHANGED <<run, gitea, result, slips>>
      /\ Types /\ TaskOK /\ SlipsOK
  BY DEF SkipCancelled, IInv, Types
<1>2. run = NoRun /\ Live /\ run.pc = "none"
  BY <1>1 DEF IInv, Unanswered, Types
<1>3. /\ TaskOK' /\ SameTask /\ task'.status = "cancelled" /\ Live' /\ task'.phase = "archived"
      /\ task'.attempt = task.attempt
  BY <1>1, <1>2 DEF TaskOK, SameTask, Live, Phase
<1>4. SlipsOK' /\ Slips' = Slips /\ Slips \in Nat /\ (Slipped => Slipped')
  BY <1>1, Kept, SlipsEffect
<1>5. /\ One(Last)' = 1 /\ One(GaveUp)' = 1 /\ One(Announced)' = 1
      /\ Late' = Late /\ Dead' = 0
  BY <1>3 DEF One, Late, Dead, Last, GaveUp, Announced, Over
<1>6. RowMatchesEntry'
  BY <1>3 DEF RowMatchesEntry
<1>7. /\ Slips + One(Last) + Dead' <= Slips' + One(Last)' + Dead
      /\ Slips + Late + One(GaveUp) + Dead' <= Slips' + Late' + One(GaveUp)' + Dead
      /\ Slips + Late + One(Announced) + Dead' <= Slips' + Late' + One(Announced)' + Dead
  BY <1>1, <1>4, <1>5, Words
<1> QED BY <1>1, <1>2, <1>3, <1>4, <1>6, <1>7, IdleKeeps

\* The handler's answer, or asynq's own when the context is over first.
LEMMA ReturnKeeps ==
  ASSUME IInv, Return
  PROVE  IInv'
<1>1. /\ run.pc = "return" /\ task.phase = "running" /\ run' = NoRun
      /\ UNCHANGED <<gitea, result, slips>> /\ Types /\ TaskOK /\ SlipsOK
      /\ EndPair /\ (~task.apart /\ Live => task.status = run.status)
  BY DEF Return, At, IInv, Types, EndOK, Ending
<1>2. PICK ret \in {run.ret} \cup (IF Live THEN {} ELSE {"error"}) :
        IF ret = "error" THEN Requeue(task.apart \/ ~Live)
        ELSE task' = [task EXCEPT !.phase = IF ret = "nil" THEN "done" ELSE "archived",
                                  !.apart = @ \/ ~Live, !.ctx = "live"]
  BY DEF Return
<1>3. /\ SlipsOK' /\ Slips' = Slips /\ Slips \in Nat /\ (Slipped => Slipped')
  BY <1>1, Kept, SlipsEffect
<1>4. MaxRetry \in Nat /\ MaxRetry > 0 /\ task.attempt \in Nat /\ task.attempt <= MaxRetry
  BY <1>1, AttemptAssumption DEF TaskOK
<1>5. ~Announced \/ Final
  BY <1>1 DEF Announced, Over
<1>6. CASE ret = "error"
  <2> DEFINE apart == task.apart \/ ~Live
  <2>1. apart \in BOOLEAN /\ Requeue(apart)
    BY <1>1, <1>2, <1>6 DEF TaskOK, Live
  <2> HIDE DEF apart
  <2>2. /\ TaskOK' /\ SameTask /\ task'.status = task.status /\ task'.apart = apart /\ Live'
        /\ \/ /\ task.attempt < MaxRetry /\ task'.phase = "queued"
              /\ task'.attempt = task.attempt + 1
           \/ /\ task.attempt = MaxRetry /\ task'.phase = "archived"
              /\ task'.attempt = task.attempt
    BY <1>1, <2>1, RequeueEffect
  <2>3. ~apart => Live /\ run.ret = "error" /\ task.status = run.status
    BY <1>1, <1>2, <1>6 DEF apart
  <2>4. run.ret = "error" => run.status = IF ShouldRetry THEN "retrying" ELSE "failed"
    BY <1>1 DEF EndPair
  <2>5. RowMatchesEntry'
    <3>1. CASE task.attempt = MaxRetry
      BY <1>4, <2>2, <2>3, <2>4, <3>1 DEF RowMatchesEntry, ShouldRetry
    <3>2. CASE task.attempt < MaxRetry
      <4>1. task'.phase = "queued" /\ task'.attempt = task.attempt + 1 /\ task'.attempt # 0
        BY <1>4, <2>2, <3>2
      <4>2. task'.attempt \in 1 .. MaxRetry - 1 <=> ShouldRetry
        BY <1>4, <3>2, <4>1 DEF ShouldRetry
      <4> QED BY <2>2, <2>3, <2>4, <4>1, <4>2 DEF RowMatchesEntry
    <3> QED BY <1>4, <3>1, <3>2
  <2>6. /\ One(Last)' \in {0, 1} /\ One(GaveUp)' \in {0, 1} /\ One(Announced)' \in {0, 1}
        /\ Late' \in {0, 1} /\ Dead' = 0 /\ (task'.attempt = MaxRetry => Late' = 1)
        /\ task'.phase = "archived" => One(GaveUp)' = 1 /\ One(Announced)' = 1 /\ One(Last)' = 1
    BY <2>2 DEF One, Late, Dead, Last, GaveUp, Announced, Over
  <2>7. /\ One(Last) \in {0, 1} /\ One(GaveUp) \in {0, 1} /\ One(Announced) \in {0, 1}
        /\ Dead \in {0, 1} /\ Late \in {0, 1}
        /\ (Last <=> One(Last) = 1) /\ (GaveUp <=> One(GaveUp) = 1)
        /\ (Announced <=> One(Announced) = 1) /\ (Live <=> Dead = 0)
        /\ (Late = 1 <=> task.attempt = MaxRetry)
    BY <1>1, Words
  <2>8. Live => run.ret = "error"
    BY <1>2, <1>6
  <2>9. Live => ~Last /\ (~ShouldRetry \/ (~GaveUp /\ ~Announced))
    BY <1>1, <2>4, <2>8 DEF Last, GaveUp, Announced, Over, Final, Ending
  <2>10. ~ShouldRetry => task'.attempt = MaxRetry /\ (task.attempt = MaxRetry => task'.phase = "archived")
    BY <1>4, <2>2 DEF ShouldRetry
  <2>11. task.attempt = MaxRetry => task'.attempt = MaxRetry
    BY <1>4, <2>2
  <2>12. /\ Slips + One(Last) + Dead' <= Slips' + One(Last)' + Dead
         /\ Slips + Late + One(GaveUp) + Dead' <= Slips' + Late' + One(GaveUp)' + Dead
         /\ Slips + Late + One(Announced) + Dead' <= Slips' + Late' + One(Announced)' + Dead
    BY <1>3, <2>6, <2>7, <2>9, <2>10, <2>11
  <2>13. task'.phase # "running"
    BY <2>2
  <2> QED BY <1>1, <1>3, <2>2, <2>5, <2>12, <2>13, IdleKeeps
<1>7. CASE ret # "error"
  <2> DEFINE phase == IF ret = "nil" THEN "done" ELSE "archived"
             apart == task.apart \/ ~Live
  <2>1. /\ phase \in {"done", "archived"} /\ apart \in BOOLEAN
        /\ task' = [task EXCEPT !.phase = phase, !.apart = apart, !.ctx = "live"]
    BY <1>1, <1>2, <1>7 DEF TaskOK, Live
  <2>2. ~apart => task.status = run.status /\ ret = run.ret
    BY <1>1, <1>2
  <2>3. RowMatchesEntry'
    <3>1. task'.phase = phase /\ task'.apart = apart /\ task'.status = task.status
      BY <1>1, <2>1 DEF TaskOK
    <3>2. ~apart /\ phase = "done" => task.status = "succeeded"
      BY <1>1, <2>2 DEF EndPair
    <3>3. ~apart /\ phase = "archived" => task.status \in {"failed", "cancelled"}
      BY <1>1, <1>7, <2>2 DEF EndPair
    <3> QED BY <2>1, <3>1, <3>2, <3>3 DEF RowMatchesEntry
  <2> HIDE DEF phase, apart
  <2>4. /\ TaskOK' /\ SameTask /\ task'.status = task.status /\ Live' /\ task'.attempt = task.attempt
        /\ task'.phase \in {"done", "archived"}
    BY <1>1, <2>1 DEF TaskOK, SameTask, Live, Phase
  <2>5. /\ One(Last)' = 1 /\ One(GaveUp)' = 1 /\ One(Announced)' = 1
        /\ Late' = Late /\ Dead' = 0
    BY <2>4 DEF One, Late, Dead, Last, GaveUp, Announced, Over
  <2>6. /\ Slips + One(Last) + Dead' <= Slips' + One(Last)' + Dead
        /\ Slips + Late + One(GaveUp) + Dead' <= Slips' + Late' + One(GaveUp)' + Dead
        /\ Slips + Late + One(Announced) + Dead' <= Slips' + Late' + One(Announced)' + Dead
    BY <1>1, <1>3, <2>5, Words
  <2> QED BY <1>1, <1>3, <2>3, <2>4, <2>6, IdleKeeps
<1> QED BY <1>6, <1>7

\* The server stops: the entry is there again, its locals are not.
LEMMA CrashKeeps ==
  ASSUME IInv, Crash
  PROVE  IInv'
<1>1. /\ task.phase = "running" /\ run' = NoRun /\ UNCHANGED <<gitea, result>>
      /\ slips.crashes < MaxCrashes /\ slips' = [slips EXCEPT !.crashes = @ + 1]
      /\ Types /\ TaskOK /\ SlipsOK
      /\ \/ task' = [task EXCEPT !.phase = "queued", !.apart = TRUE, !.ctx = "live"]
         \/ Requeue(TRUE)
  BY DEF Crash, IInv, Types
<1>2. SlipsOK' /\ Slips' = Slips + 1 /\ Slips \in Nat /\ (Slipped => Slipped')
  BY <1>1, AttemptAssumption DEF SlipsOK, Slips, Slipped
<1>3. /\ TaskOK' /\ SameTask /\ task'.status = task.status /\ task'.apart /\ Live'
      /\ task'.phase \in {"queued", "archived"}
      /\ task.attempt = MaxRetry => task'.attempt = MaxRetry
  <2>1. CASE task' = [task EXCEPT !.phase = "queued", !.apart = TRUE, !.ctx = "live"]
    BY <1>1, <2>1 DEF TaskOK, SameTask, Live, Phase
  <2>2. CASE Requeue(TRUE)
    BY <1>1, <2>2, RequeueEffect
  <2> QED BY <1>1, <2>1, <2>2
<1>4. /\ One(Last)' \in {0, 1} /\ One(GaveUp)' \in {0, 1} /\ One(Announced)' \in {0, 1}
      /\ Late' \in {0, 1} /\ Dead' = 0 /\ (task'.attempt = MaxRetry => Late' = 1)
  BY <1>3 DEF One, Late, Dead
<1>5. RowMatchesEntry'
  BY <1>3 DEF RowMatchesEntry
<1>6. /\ Slips + One(Last) + Dead' <= Slips' + One(Last)' + Dead
      /\ Slips + Late + One(GaveUp) + Dead' <= Slips' + Late' + One(GaveUp)' + Dead
      /\ Slips + Late + One(Announced) + Dead' <= Slips' + Late' + One(Announced)' + Dead
  BY <1>1, <1>2, <1>3, <1>4, Words
<1> QED BY <1>1, <1>2, <1>3, <1>5, <1>6, IdleKeeps

\* The entry is delivered.
Begins(pc) == run' = [NoRun EXCEPT !.pc = pc]
EndsAtOnce == run' = [NoRun EXCEPT !.pc = "store", !.status = "succeeded", !.tell = "never"]
LEMMA BeginsEffect ==
  ASSUME NEW pc, Begins(pc)
  PROVE  /\ RunOK' /\ run'.pc = pc /\ run'.pr = 0 /\ run'.err = "nil" /\ run'.exit = 0
         /\ run'.all = {} /\ run'.seen = {} /\ run'.status = "running"
BY DEF Begins, NoRun, RunOK, RunShape, Status
LEMMA EndsAtOnceEffect ==
  ASSUME EndsAtOnce
  PROVE  /\ RunOK' /\ run'.pc = "store" /\ run'.pr = 0 /\ run'.err = "nil" /\ run'.exit = 0
         /\ run'.status = "succeeded" /\ run'.ret = "nil"
BY DEF EndsAtOnce, NoRun, RunOK, RunShape, Status

\* The row is set to running, or could not be; the handler starts.
LEMMA BeginKeeps ==
  ASSUME IInv, Begin
  PROVE  IInv'
<1>1. /\ task.phase = "queued" /\ UNCHANGED <<gitea, result>> /\ Types /\ TaskOK /\ SlipsOK
      /\ RunOK /\ GiteaOK
      /\ \/ UNCHANGED slips /\ task' = [task EXCEPT !.phase = "running", !.status = "running"]
         \/ Faults /\ task' = [task EXCEPT !.phase = "running"]
      /\ \/ Reviewing /\ task.subject = "disabled" /\ EndsAtOnce
         \/ Triage /\ Begins("container")
         \/ Begins("start")
  BY DEF Begin, IInv, Types, EndsAtOnce, Begins
<1>2. run.pc = "none" /\ run = NoRun /\ Live
  BY <1>1 DEF IInv, Types, Unanswered
<1>3. /\ TaskOK' /\ SameTask /\ task'.phase = "running" /\ task'.attempt = task.attempt /\ Live'
      /\ task'.status \in {"running", task.status}
  BY <1>1, <1>2 DEF TaskOK, SameTask, Live, Phase, Status
<1>4. /\ RunOK' /\ run'.pr = 0 /\ run'.err = "nil" /\ run'.exit = 0
      /\ \/ /\ run'.pc = "store" /\ run'.status = "succeeded" /\ run'.ret = "nil"
            /\ Reviewing /\ task.subject = "disabled"
         \/ /\ run'.pc = "start" \/ (Triage /\ run'.pc = "container")
            /\ run'.status = "running" /\ run'.all = {} /\ run'.seen = {}
  BY <1>1, EndsAtOnceEffect, BeginsEffect
<1>5. /\ SlipsOK' /\ Slips' >= Slips /\ Slips \in Nat /\ Slips' \in Nat /\ (Slipped => Slipped')
  BY <1>1, Kept, FaultsEffect, SlipsEffect
<1>6. GiteaOK' /\ ResultOK' /\ gitea.made \in Nat /\ Grown
  BY <1>1, Kept, PRTypes, UnchangedGrows DEF Types
<1>7. Types'
  BY <1>1, <1>3, <1>4, <1>5, <1>6 DEF Types
<1>8. Placed' /\ JudgeOK' /\ FixPoints' /\ TestPoints' /\ ReviewPoints'
  BY <1>3, <1>4 DEF Placed, JudgeOK, FixPoints, TestPoints, ReviewPoints, FixPCs, TestPCs, CodePCs,
                    E2EPCs, TriagePCs, ReviewPCs, Ending
<1>9. CodePoints'
  BY <1>1, <1>3, <1>4 DEF IInv, CodePoints, Coding, Is, SameTask
<1>10. Unanswered'
  BY <1>3, <1>4 DEF Unanswered, FixPCs, TestPCs, CodePCs, E2EPCs, TriagePCs, Ending
<1>11. EndOK'
  BY <1>3, <1>4 DEF EndOK, EndPair, Reached, Ending, Is, Reviewing, SameTask
<1>12. E2EPoints'
  <2>1. E2E /\ run'.pc \in {"start", "store"} => FiledOK'
    BY <1>1, <1>2, <1>3, <1>5, <1>7, FiledRests DEF IInv, E2EPoints
  <2>2. E2E' => E2E /\ run'.pc \in {"start", "store"}
    BY <1>3, <1>4 DEF E2E, Triage, Is, SameTask
  <2> QED BY <1>4, <2>1, <2>2 DEF E2EPoints
<1>13. SaidOK'
  <2>1. ~Last /\ ~GaveUp /\ ~Announced
    BY <1>1, <1>2 DEF Last, GaveUp, Announced, Over, Ending
  <2>2. /\ One(Last)' \in {0, 1} /\ One(GaveUp)' \in {0, 1} /\ One(Announced)' \in {0, 1}
        /\ Late' = Late /\ Dead' = 0
    BY <1>3 DEF One, Late, Dead
  <2>3. /\ Slips + One(Last) + Dead' <= Slips' + One(Last)' + Dead
        /\ Slips + Late + One(GaveUp) + Dead' <= Slips' + Late' + One(GaveUp)' + Dead
        /\ Slips + Late + One(Announced) + Dead' <= Slips' + Late' + One(Announced)' + Dead
    BY <1>1, <1>5, <2>1, <2>2, Words
  <2> QED BY <1>1, <1>7, <2>3, SaysLess DEF IInv
<1>14. SyncedOK' /\ ShownOK' /\ RowMatchesEntry' /\ TransientIsRetried'
  BY <1>1, <1>3, <1>4 DEF IInv, SyncedOK, SyncedOnce, ShownOK, RowMatchesEntry, TransientIsRetried
<1>15. SucceededIsDelivered'
  <2>1. run'.status = "succeeded" => Reached'
    BY <1>3, <1>4 DEF Reached, Is, Reviewing, SameTask
  <2> QED BY <1>1, <1>3, <1>5, <1>6, <1>7, <2>1, DeliveredStays DEF IInv
<1> QED BY <1>7, <1>8, <1>9, <1>10, <1>11, <1>12, <1>13, <1>14, <1>15 DEF IInv

\* What happens while the handler is at work leaves its locals alone, and what it
\* has done.
LEMMA MeanwhileKeeps ==
  ASSUME IInv, UNCHANGED <<run, result>>, TaskOK', GiteaOK', SlipsOK', SameTask,
         task'.phase = task.phase, task'.attempt = task.attempt,
         gitea'.made = gitea.made, gitea'.said = gitea.said, gitea'.reviews = gitea.reviews,
         gitea'.filed = gitea.filed, gitea'.synced = gitea.synced, gitea'.shown = gitea.shown,
         gitea'.pr \in {0, gitea.pr},
         \/ UNCHANGED slips /\ task'.ctx = task.ctx /\ task'.status = task.status /\ task'.apart = task.apart
         \/ /\ task.phase = "running" /\ ~Live' /\ Live /\ Slips' = Slips + 1
            /\ slips'.faults >= slips.faults /\ Slipped'
            /\ task'.status \in {task.status, "cancelled"}
  PROVE  IInv'
<1>1. /\ Types /\ Slips \in Nat /\ Slips' \in Nat /\ Slips' >= Slips
      /\ slips.faults \in Nat /\ slips'.faults \in Nat /\ slips'.faults >= slips.faults
      /\ ShouldRetry' = ShouldRetry /\ (Slipped => Slipped')
  <2>1. Types /\ SlipsOK
    BY DEF IInv, Types
  <2>2. Slipped => Slipped'
    BY DEF Slipped
  <2> QED BY <2>1, <2>2, AttemptAssumption DEF SlipsOK, Slips, ShouldRetry
<1>2. /\ Types' /\ Grown
  <2>1. RunOK' /\ ResultOK'
    BY <1>1, Kept DEF Types, RunOK, RunShape
  <2>2. Grown
    <3>1. GiteaOK
      BY <1>1 DEF Types
    <3> QED BY <3>1, PRTypes DEF Grown, GiteaOK
  <2> QED BY <1>1, <2>1, <2>2 DEF Types
<1>3. Live' => Live
  BY DEF Live
<1>4. Placed' /\ JudgeOK' /\ TestPoints' /\ CodePoints'
  <2>1. Placed'
    BY DEF IInv, Placed, Is, Fixing, Testing, Coding, E2E, Triage, Reviewing, SameTask
  <2>2. JudgeOK'
    <3>1. Reached => Reached'
      BY <1>1, <1>2, ReachedKept
    <3> QED BY <1>1, <3>1 DEF IInv, JudgeOK, ToBlame, Is, Fixing, Reviewing, Triage, SameTask
  <2>3. TestPoints' /\ CodePoints'
    BY DEF IInv, TestPoints, CodePoints, Pushed, Is, Coding, SameTask
  <2> QED BY <2>1, <2>2, <2>3
<1>5. FixPoints'
  BY <1>1, <1>3 DEF IInv, FixPoints, SameTask
<1>6. ReviewPoints'
  BY <1>1, <1>3 DEF IInv, ReviewPoints, Is, Reviewing, SameTask, Live
<1>7. Unanswered'
  BY DEF IInv, Unanswered, Is, Triage, SameTask, Live
<1>8. EndOK'
  <2>1. Reached => Reached'
    BY <1>1, <1>2, ReachedKept
  <2> QED BY <1>1, <1>3, <2>1 DEF IInv, EndOK, EndPair
<1>9. E2EPoints'
  <2>1. CASE UNCHANGED slips /\ task'.ctx = task.ctx
    <3>1. Slips' = Slips /\ Dead' = Dead
      BY <2>1 DEF Slips, Dead, Live, One
    <3>2. FiledOK => FiledOK'
      BY <3>1 DEF FiledOK, Filed
    <3> QED BY <3>2 DEF IInv, E2EPoints, E2E, Is, SameTask
  <2>2. CASE Live /\ ~Live' /\ Slips' = Slips + 1
    <3>1. Dead = 0 /\ Dead' = 1
      BY <2>2 DEF Dead, One
    <3>2. \A c \in Cases : gitea.filed[c] \in Nat /\ gitea'.filed[c] = gitea.filed[c]
      BY <1>1 DEF Types, GiteaOK
    <3>3. ASSUME NEW c \in Cases, Filed(c) PROVE Filed(c)'
      <4>1. /\ gitea.filed[c] \in Nat /\ One(c \in result.issues) \in {0, 1}
            /\ One(c \in run.seen) \in {0, 1} /\ One(c \in run.left) \in {0, 1}
        BY <3>2 DEF One
      <4>2. /\ gitea'.filed[c] = gitea.filed[c] /\ One(c \in result.issues)' = One(c \in result.issues)
            /\ One(c \in run.seen)' = One(c \in run.seen) /\ One(c \in run.left)' = One(c \in run.left)
        BY DEF One
      <4>3. run' = run /\ result' = result
        OBVIOUS
      <4> QED BY <1>1, <2>2, <3>1, <3>3, <4>1, <4>2, <4>3 DEF Filed
    <3>4. FiledOK => FiledOK'
      BY <3>3 DEF FiledOK
    <3> QED BY <3>4 DEF IInv, E2EPoints, E2E, Is, SameTask
  <2> QED BY <2>1, <2>2
<1>10. SaidOK'
  <2>1. Last' = Last /\ GaveUp' = GaveUp /\ Announced' = Announced /\ Late' = Late
    BY DEF Last, GaveUp, Announced, Over, Late, Final, Triage, Is, SameTask
  <2>2. One(Last)' = One(Last) /\ One(GaveUp)' = One(GaveUp) /\ One(Announced)' = One(Announced)
    BY <2>1 DEF One
  <2>3. \/ Slips' = Slips /\ Dead' = Dead
        \/ Slips' = Slips + 1 /\ Dead' = 1 /\ Dead = 0
    BY DEF Slips, Dead, Live, One
  <2>4. /\ One(Last) \in {0, 1} /\ One(GaveUp) \in {0, 1} /\ One(Announced) \in {0, 1}
        /\ Dead \in {0, 1} /\ Late \in {0, 1} /\ Slips \in Nat
    BY <1>1, Words
  <2>5. /\ Slips + One(Last) + Dead' <= Slips' + One(Last)' + Dead
        /\ Slips + Late + One(GaveUp) + Dead' <= Slips' + Late' + One(GaveUp)' + Dead
        /\ Slips + Late + One(Announced) + Dead' <= Slips' + Late' + One(Announced)' + Dead
    BY <2>1, <2>2, <2>3, <2>4
  <2> QED BY <1>1, <1>2, <2>5, SaysLess DEF IInv
<1>11. SyncedOK' /\ ShownOK'
  BY DEF IInv, SyncedOK, SyncedOnce, ShownOK
<1>12. RowMatchesEntry'
  BY DEF IInv, RowMatchesEntry
<1>13. TransientIsRetried'
  BY <1>1 DEF IInv, TransientIsRetried, Triage, Is, SameTask
<1>14. SucceededIsDelivered'
  <2>1. task'.status = "succeeded" => task.status = "succeeded"
    OBVIOUS
  <2>2. run.status = "succeeded" => Reached
    BY DEF IInv, EndOK, Unanswered
  <2>3. run.status = "succeeded" => Reached'
    BY <1>1, <1>2, <2>2, ReachedKept
  <2> QED BY <1>1, <1>2, <2>1, <2>3, DeliveredStays DEF IInv
<1> QED BY <1>2, <1>4, <1>5, <1>6, <1>7, <1>8, <1>9, <1>10, <1>11, <1>12, <1>13, <1>14 DEF IInv

\* A request that replaces the task cancels it; asynq's deadline passes.
LEMMA CancelKeeps ==
  ASSUME IInv, Cancel
  PROVE  IInv'
<1>1. /\ task.phase = "running" /\ Live /\ slips.cancels = 0
      /\ task' = [task EXCEPT !.ctx = "canceled", !.status = "cancelled"]
      /\ slips' = [slips EXCEPT !.cancels = 1] /\ UNCHANGED <<run, gitea, result>>
      /\ TaskOK /\ GiteaOK /\ SlipsOK
  BY DEF Cancel, IInv, Types
<1>2. /\ TaskOK' /\ SameTask /\ task'.phase = task.phase /\ task'.attempt = task.attempt
      /\ task'.status = "cancelled" /\ ~Live'
  BY <1>1 DEF TaskOK, SameTask, Live, Status
<1>3. /\ SlipsOK' /\ Slips' = Slips + 1 /\ slips'.faults = slips.faults /\ slips.faults \in Nat
      /\ Slipped'
  BY <1>1, AttemptAssumption DEF SlipsOK, Slips, Slipped
<1>4. GiteaOK'
  BY <1>1, Kept
<1> QED BY <1>1, <1>2, <1>3, <1>4, MeanwhileKeeps

\* The deadline costs a slip, as a cancellation does.
LEMMA ExpireKeeps ==
  ASSUME IInv, Expire
  PROVE  IInv'
<1>1. /\ task.phase = "running" /\ Live /\ Faults
      /\ task' = [task EXCEPT !.ctx = "expired"] /\ UNCHANGED <<run, gitea, result>>
      /\ TaskOK /\ GiteaOK /\ SlipsOK
  BY DEF Expire, IInv, Types
<1>2. /\ TaskOK' /\ SameTask /\ task'.phase = task.phase /\ task'.attempt = task.attempt
      /\ task'.status = task.status /\ ~Live'
  BY <1>1 DEF TaskOK, SameTask, Live
<1>3. /\ SlipsOK' /\ Slips' = Slips + 1 /\ slips'.faults = slips.faults + 1 /\ slips.faults \in Nat
      /\ Slipped'
  BY <1>1, FaultsEffect, SlipsEffect, AttemptAssumption DEF SlipsOK
<1>4. GiteaOK'
  BY <1>1, Kept
<1> QED BY <1>1, <1>2, <1>3, <1>4, MeanwhileKeeps

\* What others do to the pull request; nothing at all.
LEMMA ElsewhereKeeps ==
  ASSUME IInv, ClosePR \/ NewerReview \/ UNCHANGED vars
  PROVE  IInv'
<1>1. /\ UNCHANGED <<run, result, slips>> /\ TaskOK /\ GiteaOK /\ SlipsOK /\ gitea.made \in Nat
      /\ \/ gitea' = [gitea EXCEPT !.pr = 0] /\ UNCHANGED task
         \/ task' = [task EXCEPT !.newer = TRUE] /\ UNCHANGED gitea
         \/ UNCHANGED <<task, gitea>>
  BY PRTypes DEF ClosePR, NewerReview, vars, IInv, Types
<1>2. /\ TaskOK' /\ SameTask /\ task'.phase = task.phase /\ task'.attempt = task.attempt
      /\ task'.ctx = task.ctx /\ task'.status = task.status /\ task'.apart = task.apart
  BY <1>1 DEF TaskOK, SameTask
<1>3. /\ GiteaOK' /\ gitea'.made = gitea.made /\ gitea'.said = gitea.said
      /\ gitea'.reviews = gitea.reviews /\ gitea'.filed = gitea.filed
      /\ gitea'.synced = gitea.synced /\ gitea'.shown = gitea.shown /\ gitea'.pr \in {0, gitea.pr}
  BY <1>1 DEF GiteaOK, GiteaShape
<1>4. SlipsOK'
  BY <1>1, Kept
<1> QED BY <1>1, <1>2, <1>3, <1>4, MeanwhileKeeps

\* A task enqueued and never delivered.
LEMMA InitHolds == Init => IInv
<1> SUFFICES ASSUME Init PROVE IInv
  OBVIOUS
<1>1. PICK kind \in Kinds : \E subject \in Subjects(kind), onFailure \in OnFailure(kind) :
        task = [kind |-> kind, subject |-> subject, onFailure |-> onFailure, phase |-> "queued",
                attempt |-> 0, status |-> "pending", apart |-> FALSE, ctx |-> "live",
                newer |-> FALSE]
  BY DEF Init
<1>2. PICK subject \in Subjects(kind), onFailure \in OnFailure(kind) :
        task = [kind |-> kind, subject |-> subject, onFailure |-> onFailure, phase |-> "queued",
                attempt |-> 0, status |-> "pending", apart |-> FALSE, ctx |-> "live",
                newer |-> FALSE]
  BY <1>1
<1>3. run = NoRun /\ gitea = NoGitea /\ result = NoResult
      /\ slips = [faults |-> 0, crashes |-> 0, cancels |-> 0]
  BY DEF Init
<1>4. /\ TaskOK /\ task.phase = "queued" /\ task.attempt = 0 /\ task.status = "pending"
      /\ ~task.apart /\ Live
  BY <1>2, AttemptAssumption DEF TaskOK, Phase, Status, Live
<1>5. SlipsOK /\ Slips = 0 /\ slips.faults = 0
  BY <1>3, AttemptAssumption DEF SlipsOK, Slips
<1>6. /\ gitea.pr = 0 /\ gitea.made = 0 /\ gitea.synced = {} /\ gitea.shown = NothingPublished
      /\ gitea.said = [r \in Replies |-> 0] /\ gitea.reviews = [p \in PRs |-> 0]
      /\ gitea.filed = [c \in Cases |-> 0] /\ GiteaShape
  BY <1>3 DEF NoGitea, GiteaShape
<1>7. GiteaOK
  BY <1>6, AttemptAssumption DEF GiteaOK
<1>8. /\ run.pc = "none" /\ run.err = "nil" /\ run.exit = 0 /\ run.out = "none" /\ run.pr = 0
      /\ run.all = {} /\ run.seen = {} /\ run.status = "running" /\ RunOK
  BY <1>3 DEF NoRun, RunOK, RunShape, Status
<1>9. ResultOK /\ result.issues = {} /\ ~result.stored /\ result.marked = {} /\ ~result.enqueued
  BY <1>3 DEF ResultOK, NoResult
<1>10. Types
  BY <1>4, <1>5, <1>6, <1>7, <1>8, <1>9 DEF Types
<1>11. Placed /\ JudgeOK /\ FixPoints /\ TestPoints
  BY <1>8 DEF Placed, JudgeOK, FixPoints, TestPoints, FixPCs, TestPCs, CodePCs, E2EPCs, TriagePCs,
              ReviewPCs
<1>12. Unanswered /\ EndOK /\ CodePoints /\ ReviewPoints
  BY <1>3, <1>4, <1>8, <1>9 DEF Unanswered, EndOK, CodePoints, ReviewPoints, Ending
<1>13. E2EPoints
  BY <1>5, <1>6, <1>8, <1>9 DEF E2EPoints, FiledOK, Filed, One
<1>14. SaidOK
  <2>1. \A r \in {"reminder", "report", "review", "degraded", "final"} : gitea.said[r] = 0
    BY <1>6 DEF Replies
  <2>2. ~Last /\ ~GaveUp /\ ~Announced /\ Dead = 0 /\ Late \in Nat
    BY <1>4, <1>8 DEF Last, GaveUp, Announced, Over, Ending, Dead, Late, One
  <2> QED BY <1>5, <2>1, <2>2 DEF SaidOK, One
<1>15. SyncedOK
  <2>1. Cardinality({}) = 0
    BY FS_EmptySet
  <2> QED BY <1>6, <1>8, <2>1 DEF SyncedOK, SyncedOnce, Replies
<1>16. ShownOK
  BY <1>6 DEF ShownOK
<1>17. RowMatchesEntry /\ TransientIsRetried /\ SucceededIsDelivered
  BY <1>4, <1>8 DEF RowMatchesEntry, TransientIsRetried, SucceededIsDelivered
<1> QED BY <1>10, <1>11, <1>12, <1>13, <1>14, <1>15, <1>16, <1>17 DEF IInv

\* Every step keeps the invariant.
LEMMA NextKeeps == IInv /\ [Next]_vars => IInv'
BY FindRecordKeeps, SkipKeeps, BeginKeeps, JudgeKeeps, StoreKeeps, TellKeeps, EditKeeps,
   CreateSyncKeeps, ReturnKeeps, ServicesKeep, CrashKeeps, CancelKeeps, ExpireKeeps,
   ElsewhereKeeps
   DEF Next

-----------------------------------------------------------------------------
(***************************************************************************)
(* The theorems.                                                           *)
(***************************************************************************)
\* The inductive invariant: every other invariant follows from it.
THEOREM InvariantHolds == Spec => []IInv
BY InitHolds, NextKeeps, PTL DEF Spec

\* The task, the locals of its handler and the traces it leaves stay of their types,
\* and a handler runs exactly while asynq has delivered the entry.
THEOREM TypeCorrect == Spec => []TypeOK
<1>1. IInv => TypeOK
  <2> SUFFICES ASSUME IInv PROVE TypeOK
    OBVIOUS
  <2>1. Types
    BY DEF IInv
  <2>2. run.pr \in 0 .. MaxPRs /\ run.exit \in 0 .. 2
    <3>1. run.pr \in Nat /\ gitea.made \in Nat /\ MaxPRs \in Nat /\ gitea.made <= MaxPRs
          /\ run.pr <= gitea.made /\ run.exit \in {0, 1, 2}
      BY <2>1, PRTypes DEF Types, RunOK
    <3> QED BY <3>1
  <2> QED BY <2>1, <2>2, AttemptAssumption
          DEF Types, RunOK, TaskOK, GiteaOK, ResultOK, SlipsOK, TypeOK
<1> QED BY <1>1, InvariantHolds, PTL

\* The row and the queue agree on how an execution ended, unless the last write of the
\* row failed, the server died or the context ended (processor.go's switch and asynq's
\* own retry counter).
THEOREM RowsMatchEntries == Spec => []RowMatchesEntry
<1>1. IInv => RowMatchesEntry
  BY DEF IInv
<1> QED BY <1>1, InvariantHolds, PTL

\* While shouldRetry promises an attempt, only something wrong with the task or a
\* verdict of the container fails it.
THEOREM TransientErrorsAreRetried == Spec => []TransientIsRetried
<1>1. IInv => TransientIsRetried
  BY DEF IInv
<1> QED BY <1>1, InvariantHolds, PTL

\* No row says succeeded of work that has not reached its addressee: the comment, the
\* pull request, the triage's tasks, a review of the very pull request an
\* implementation ends with (unless the row has the mark of a review of an earlier
\* pull request of the task), a review on the pull request (unless a call failed or
\* the task's context ended).
THEOREM SuccessIsDelivered == Spec => []SucceededIsDelivered
<1>1. IInv => SucceededIsDelivered
  BY DEF IInv
<1> QED BY <1>1, InvariantHolds, PTL

\* However often a task is tried again, what people read and what is filed is there
\* once, and once more for each call that failed, each crash, each cancellation.
THEOREM RetriesDoNotRepeat == Spec => []NothingRepeated
<1>1. IInv => NothingRepeated
  <2> SUFFICES ASSUME IInv PROVE NothingRepeated
    OBVIOUS
  <2>1. /\ One(Last) \in {0, 1} /\ One(GaveUp) \in {0, 1} /\ One(Announced) \in {0, 1}
        /\ Dead \in {0, 1} /\ Late \in {0, 1} /\ Slips \in Nat
    BY Words DEF IInv
  <2>2. SaidOnce
    <3>1. /\ \A r \in Replies : gitea.said[r] \in Nat
          /\ {"reminder", "report", "review", "degraded", "final"} \subseteq Replies
      BY DEF IInv, Types, GiteaOK, Replies
    <3>2. SaidOK
      BY DEF IInv
    <3>3. ASSUME NEW r \in {"reminder", "report", "review"} PROVE gitea.said[r] <= 1 + Slips
      <4>1. gitea.said[r] \in Nat /\ gitea.said[r] + Dead <= Slips + One(Last)
        BY <3>1, <3>2 DEF SaidOK
      <4> QED BY <2>1, <4>1
    <3>4. gitea.said["degraded"] <= 2 + Slips /\ gitea.said["final"] <= 2 + Slips
      <4>1. /\ gitea.said["degraded"] \in Nat /\ gitea.said["final"] \in Nat
            /\ gitea.said["degraded"] + Dead <= Slips + Late + One(GaveUp)
            /\ gitea.said["final"] + Dead <= Slips + Late + One(Announced)
        BY <3>1, <3>2 DEF SaidOK
      <4> QED BY <2>1, <4>1
    <3> QED BY <3>3, <3>4 DEF SaidOnce
  <2>3. FiledOnce
    <3>1. SUFFICES ASSUME E2E, NEW c \in Cases PROVE gitea.filed[c] <= 1 + 2 * Slips
      BY DEF FiledOnce
    <3>2. FiledOK /\ Filed(c) /\ gitea.filed[c] \in Nat
      BY <3>1 DEF IInv, E2EPoints, FiledOK, Types, GiteaOK
    <3>3. /\ One(c \in result.issues) \in {0, 1} /\ One(c \in run.seen) \in {0, 1}
          /\ One(c \in run.left) \in {0, 1}
      BY DEF One
    <3>4. \A s \in Nat : 2 * s \in Nat
      OBVIOUS
    <3>5. 2 * Slips \in Nat
      BY <2>1, <3>4
    <3>6. CASE run.pc \notin {"saveE2E", "issues"}
      BY <3>2, <3>3, <3>5, <3>6 DEF Filed
    <3>7. CASE run.pc \in {"saveE2E", "issues"} /\ run.id = "row"
      <4>1. gitea.filed[c] + 2 * Dead <= 2 * Slips + One(c \in run.seen)
        BY <3>2, <3>7 DEF Filed
      <4>2. 2 * Dead \in {0, 2}
        BY <2>1
      <4> QED BY <3>2, <3>3, <3>5, <4>1, <4>2
    <3>8. CASE run.pc = "saveE2E" /\ run.id # "row"
      <4>1. \/ gitea.filed[c] + 2 <= 2 * Slips + One(c \in result.issues)
            \/ gitea.filed[c] + 2 * Dead <= 2 * Slips
        BY <3>2, <3>8 DEF FiledOK, Filed
      <4>2. 2 * Dead \in {0, 2}
        BY <2>1
      <4> QED BY <3>2, <3>3, <3>5, <4>1, <4>2
    <3>9. CASE run.pc = "issues" /\ run.id # "row"
      <4>1. gitea.filed[c] + One(c \in run.left) <= 2 * Slips + One(c \in result.issues)
        BY <3>2, <3>9 DEF Filed
      <4> QED BY <3>2, <3>3, <3>5, <4>1
    <3> QED BY <3>6, <3>7, <3>8, <3>9
  <2>4. SyncedOnce
    BY DEF IInv, SyncedOK
  <2> QED BY <2>2, <2>3, <2>4 DEF NothingRepeated
<1> QED BY <1>1, InvariantHolds, PTL

\* What is shown of an output is what Write publishes of it.
LEMMA ShownIsPublished ==
  ASSUME ShownOK, gitea.shown.of \in DOMAIN Outputs
  PROVE  \E diff \in BOOLEAN : gitea.shown = Published(gitea.shown.of, diff)
<1>1. Degraded.of \notin DOMAIN Outputs /\ NothingPublished.of \notin DOMAIN Outputs
  BY OutputsAssumption DEF Degraded, NothingPublished
<1>2. PICK o \in DOMAIN Outputs, diff \in BOOLEAN : gitea.shown = Published(o, diff)
  BY <1>1 DEF ShownOK
<1>3. Published(o, diff).of = o
  BY PublishedAsFiltered
<1> QED BY <1>2, <1>3

\* What is shown on Gitea is what the filters leave of the model's output, on lines of
\* the diff or in the body, whichever attempt wrote it.
THEOREM ReviewsAreShownAsFiltered == Spec => []ShownAsFiltered
<1>1. IInv => ShownAsFiltered
  <2> SUFFICES ASSUME IInv, gitea.shown.of \in DOMAIN Outputs
               PROVE  LET shown == gitea.shown
                          output == Outputs[shown.of] IN
                      /\ shown.comments \cap shown.body = {}
                      /\ shown.comments \cup shown.body = LetThrough(output)
                      /\ \A i \in shown.comments : InDiff(i)
                      /\ shown.state = "APPROVED" =>
                           output.verdict = "approve" /\ ~Severe(shown.comments \cup shown.body)
    BY DEF ShownAsFiltered
  <2>1. PICK diff \in BOOLEAN : gitea.shown = Published(gitea.shown.of, diff)
    BY ShownIsPublished DEF IInv
  <2> DEFINE o == gitea.shown.of
  <2>2. o \in DOMAIN Outputs /\ gitea.shown = Published(o, diff)
    BY <2>1
  <2> HIDE DEF o
  <2>3. LET shown == Published(o, diff) IN
           /\ shown.of = o
           /\ shown.comments \cap shown.body = {}
           /\ shown.comments \cup shown.body = LetThrough(Outputs[o])
           /\ \A i \in shown.comments : InDiff(i)
           /\ shown.state = "APPROVED" =>
                Outputs[o].verdict = "approve" /\ ~Severe(shown.comments \cup shown.body)
    BY <2>2, PublishedAsFiltered
  <2> QED BY <2>2, <2>3 DEF o
<1> QED BY <1>1, InvariantHolds, PTL

\* ProcessTask around the services enqueues no review and reports no repair without a
\* pull request; only Tell talks to the iteration loop.
LEMMA AroundServices ==
  ASSUME IInv, [Next]_vars, ~FixNext, ~TestNext, ~CodeNext, ~E2ENext, ~ReviewNext
  PROVE  /\ gitea'.said["noPR"] = gitea.said["noPR"] /\ gitea'.reviews = gitea.reviews
         /\ Tell \/ gitea'.loop = gitea.loop
<1>1. GiteaOK /\ "noPR" \in Replies
  BY DEF IInv, Types, Replies
<1>2. CASE Tell
  <2>1. PICK said :
          /\ Heard(said)
          /\ \/ said = gitea.said
             \/ said = [gitea.said EXCEPT !["final"] = @ + 1]
    BY <1>1, <1>2, TellStep
  <2>2. said \in [Replies -> Nat] /\ said["noPR"] = gitea.said["noPR"]
        /\ \A r \in Replies : said[r] >= gitea.said[r]
    BY <1>1, <2>1 DEF GiteaOK, Replies
  <2> QED BY <1>1, <1>2, <2>1, <2>2, HeardEffect DEF SameGitea
<1>3. CASE CreateSyncComment
  <2>1. UNCHANGED gitea \/ Comments(run.pr)
    BY <1>3 DEF CreateSyncComment, Write, Comments
  <2>2. run.pc = "comment1"
    BY <1>3 DEF CreateSyncComment, Write, At
  <2>3. SyncedOnce /\ run.pr \in PRs /\ run.pr \notin gitea.synced
    BY <2>2, PRInRange DEF IInv, SyncedOK
  <2>4. CASE Comments(run.pr)
    BY <1>1, <2>3, <2>4, CommentsEffect DEF Replies
  <2> QED BY <2>1, <2>4
<1>4. CASE ClosePR
  BY <1>1, <1>4 DEF ClosePR, GiteaOK, GiteaShape
<1>5. CASE ~Tell /\ ~CreateSyncComment /\ ~ClosePR
  <2>1. UNCHANGED gitea
    BY <1>5 DEF Next, vars, FindRecordFails, SkipCancelled, Begin, Judge, Store,
       SyncGenTestsPRComment, EditSyncComment, Return, Crash, Cancel, Expire, NewerReview,
       Read, Write
  <2> QED BY <2>1
<1> QED BY <1>2, <1>3, <1>4, <1>5

\* "A repair was pushed but has no pull request" is not said while its pull request is
\* open, as long as one call at most has failed (fix/service.go's second search).
THEOREM NoAlarmIsFalse == Spec => NoFalseAlarm
<1>1. IInv /\ [Next]_vars =>
        (gitea'.said.noPR > gitea.said.noPR /\ slips'.faults < 2 => gitea.pr = 0)
  <2> SUFFICES ASSUME IInv, [Next]_vars, gitea'.said["noPR"] > gitea.said["noPR"],
                      slips'.faults < 2
               PROVE  gitea.pr = 0
    OBVIOUS
  <2>1. GiteaOK /\ "noPR" \in Replies /\ gitea.said["noPR"] \in Nat
    BY DEF IInv, Types, GiteaOK, Replies
  <2>2. gitea'.said["noPR"] # gitea.said["noPR"]
    BY <2>1
  <2>3. ~TestNext /\ ~CodeNext /\ ~E2ENext
    BY <2>2, TestSilent, CodeSilent, E2EServed
  <2>4. ~ReviewNext
    <3>1. SUFFICES ASSUME ReviewNext PROVE gitea'.said["noPR"] = gitea.said["noPR"]
      BY <2>2
    <3>2. CASE UNCHANGED gitea
      BY <3>2
    <3>3. CASE ~UNCHANGED gitea
      <4>1. PICK r \in {"degraded", "review"} : \E shown : Publishes(r, shown)
        BY <3>1, <3>3, ReviewSaysOnce DEF ReviewSays
      <4>2. r \in Replies \ {"sync"} /\ "noPR" \in Replies \ {r}
        BY DEF Replies
      <4> QED BY <2>1, <4>1, <4>2, PublishesEffect
    <3> QED BY <3>2, <3>3
  <2>5. FixNext
    BY <2>2, <2>3, <2>4, AroundServices
  <2>6. run.pc = "noPR" /\ Live
    <3>1. FixSays
      BY <2>5, FixSaysOnce
    <3>2. CASE \E r \in Replies \ {"noPR"} : gitea' = Reply(r)
      <4>1. PICK r \in Replies \ {"noPR"} : gitea' = Reply(r)
        BY <3>2
      <4>2. gitea'.said = [gitea.said EXCEPT ![r] = @ + 1]
        BY <2>1, <4>1, ReplyEffect
      <4>3. gitea'.said["noPR"] = gitea.said["noPR"]
        BY <2>1, <4>1, <4>2 DEF GiteaOK
      <4> QED BY <2>2, <4>3
    <3>3. {"degraded", "reminder", "report"} \subseteq Replies \ {"noPR"}
      BY DEF Replies
    <3>4. CASE UNCHANGED gitea \/ (gitea.made < MaxPRs /\ gitea' = OpenPR)
      BY <2>1, <2>2, <3>4, OpenPREffect
    <3> QED BY <3>1, <3>2, <3>3, <3>4 DEF FixSays
  <2>7. slips.faults \in Nat /\ slips'.faults \in Nat /\ slips'.faults >= slips.faults
    <3>1. SlipsOK /\ (UNCHANGED slips \/ Faults)
      BY <2>5, FixKeeps DEF Served, IInv, Types
    <3> QED BY <3>1, FaultsEffect, AttemptAssumption DEF SlipsOK
  <2> QED BY <2>6, <2>7 DEF IInv, FixPoints
<1> QED BY <1>1, InvariantHolds, PTL DEF Spec, NoFalseAlarm

\* A review the row of code_from_doc says was enqueued is not enqueued again, if the row
\* could be written and read.
THEOREM CodeIsReviewedOnce == Spec => CodeReviewedOnce
<1>1. IInv /\ [Next]_vars =>
        (Coding /\ ~run.blind => \A p \in result.marked : gitea'.reviews[p] = gitea.reviews[p])
  <2> SUFFICES ASSUME IInv, [Next]_vars, Coding, ~run.blind, NEW p \in result.marked
               PROVE  gitea'.reviews[p] = gitea.reviews[p]
    OBVIOUS
  <2>1. ~FixNext /\ ~TestNext /\ ~E2ENext /\ ~ReviewNext
    BY FixKeeps, TestKeeps, E2EKeeps, ReviewKeeps
       DEF Coding, Is, Fixing, Testing, E2E, Triage, Reviewing
  <2>2. CASE CodeNext
    <3>1. result.enqueued
      BY DEF IInv, CodePoints
    <3>2. run.pc # "reviewCode"
      BY <3>1 DEF IInv, CodePoints
    <3> QED BY <2>2, <3>2, CodeSilent
  <2>3. CASE ~CodeNext
    BY <2>1, <2>3, AroundServices
  <2> QED BY <2>2, <2>3
<1> QED BY <1>1, InvariantHolds, PTL DEF Spec, CodeReviewedOnce

\* The iteration loop starts a repair only of a review that asks for changes on Gitea too.
THEOREM RepairsAreAskedFor == Spec => RepairIsAskedFor
<1>1. IInv /\ [Next]_vars => (Told("repair") => gitea.shown.state = "REQUEST_CHANGES")
  <2> SUFFICES ASSUME IInv, [Next]_vars, Told("repair")
               PROVE  gitea.shown.state = "REQUEST_CHANGES"
    OBVIOUS
  <2>1. gitea'.loop = "repair" /\ gitea.loop # "repair" /\ gitea.shown.of = run.out
    BY DEF Told
  <2>2. ~FixNext /\ ~TestNext /\ ~CodeNext /\ ~E2ENext /\ ~ReviewNext
    BY <2>1, FixKeeps, TestKeeps, CodeKeeps, E2EKeeps, ReviewKeeps DEF Served
  <2>3. Tell
    BY <2>1, <2>2, AroundServices
  <2>4. Decision = "repair"
    <3>1. GiteaOK
      BY DEF IInv, Types
    <3>2. PICK said :
            /\ Heard(said)
            /\ \/ said = gitea.said
               \/ said = [gitea.said EXCEPT !["final"] = @ + 1]
      BY <2>3, <3>1, TellStep
    <3>3. said \in [Replies -> Nat] /\ \A r \in Replies : said[r] >= gitea.said[r]
      BY <3>1, <3>2 DEF GiteaOK
    <3> QED BY <2>1, <3>1, <3>2, <3>3, HeardEffect
  <2>5. run.out \in DOMAIN Outputs /\ Loop(run.out) = "repair"
    BY <2>4 DEF Decision, Looped
  <2>6. PICK diff \in BOOLEAN : gitea.shown = Published(run.out, diff)
    BY <2>1, <2>5, ShownIsPublished DEF IInv
  <2>7. Published(run.out, diff).state = ReviewState(Outputs[run.out])
    BY DEF Published
  <2> QED BY <2>5, <2>6, <2>7, RepairIsShown
<1> QED BY <1>1, InvariantHolds, PTL DEF Spec, RepairIsAskedFor
==============================================================================
