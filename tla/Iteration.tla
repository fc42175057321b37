------------------------------- MODULE Iteration -------------------------------
(***************************************************************************)
(* The iteration loop of one pull request: a review that asks for changes  *)
(* starts a round of repair (AfterReviewCompleted), the fix_review task of *)
(* the round pushes to the pull request's branch, which asks for the next  *)
(* review; an approval ends the session (AfterIterationApproved).          *)
(*                                                                         *)
(* Reviews, repairs and pushes run side by side and share the rows of the  *)
(* session and of its rounds.  A handler reads a row, works, and writes    *)
(* back the whole row it holds; every statement is a step.  What asynq and *)
(* cancellation do to a task is in TaskLifecycle: here a push cancels the  *)
(* tasks it replaces in one step.                                          *)
(***************************************************************************)
EXTENDS Naturals, Sequences, FiniteSets

CONSTANTS
  Reviews,       \* 1 .. n: the reviews asked for, in order: bound on the pushes
  Sessions,      \* 1 .. n: ids of sessions, bound on how many are created
  MaxRounds,     \* iterate.max_rounds
  MaxAttempts,   \* executions asynq grants a task: 1 + MaxRetry
  Flaky,         \* bound: the repairs of which an execution may come to an error
  MaxFaults,     \* bound: statements that fail, pushes of others amid the loop
  Fails,         \* where these happen: values of pc, "push"
  BotLogin,      \* iterate.bot_login is set
  Prompt         \* a container outlasts what the handlers before it have yet to do

ASSUME IterationAssumption ==
  /\ IsFiniteSet(Sessions) /\ Sessions = 1 .. Cardinality(Sessions)
  /\ MaxRounds \in Nat \ {0} /\ MaxAttempts \in Nat \ {0} /\ MaxFaults \in Nat
  /\ BotLogin \in BOOLEAN /\ Prompt \in BOOLEAN
  /\ IsFiniteSet(Reviews) /\ Reviews = 1 .. Cardinality(Reviews)
  /\ Flaky \subseteq Sessions \X Reviews

VARIABLES
  session,   \* [Sessions -> row]
  round,     \* [Sessions -> Seq(row)]: UNIQUE(session_id, round_number)
  fix,       \* [Fixes -> the task of a round and its handler]
  review,    \* [Reviews -> a review and its handler]
  faults

vars == <<session, round, fix, review, faults>>

-----------------------------------------------------------------------------
ActiveStatus == {"idle", "reviewing", "fixing"}
Session == ActiveStatus \cup {"none", "completed", "exhausted"}
NoSession == "none"

Round == [task : BOOLEAN, done : BOOLEAN, fixed : 0..1, recovery : BOOLEAN]
NoRound == [task |-> FALSE, done |-> FALSE, fixed |-> 0, recovery |-> FALSE]

\* A review starts one round at most.
Fixes == Sessions \X Reviews
FixStatus == {"none", "queued", "running", "retrying", "succeeded", "failed", "cancelled"}
FixPC == {"idle", "exec", "final", "round", "find", "session"}
\* attempts: executions begun, all of them once asynq calls no more; end: what the
\* execution came to; pushed: its push has yet to be noticed; over: a history
\* variable, the row has said that the repair is over.
Fix == [status : FixStatus, pc : FixPC, attempts : 0 .. MaxAttempts, ctx : BOOLEAN,
        end : {"none", "succeeded", "failed", "error", "zero", "cancelled"},
        copy : Session, pushed : BOOLEAN, over : BOOLEAN]
NoFix == [status |-> "none", pc |-> "idle", attempts |-> 0, ctx |-> FALSE,
          end |-> "none", copy |-> NoSession, pushed |-> FALSE, over |-> FALSE]

ReviewPC == {"none", "review", "find", "active", "latest", "heal", "healRound",
             "healSession", "wait", "count", "conclude", "fixing", "create", "enqueue",
             "record", "over"}
\* s, copy: the session as read; n, last: its latest round as read, then the new
\* one's; verdict: what the review says, then what becomes of the session.
Review == [pc : ReviewPC, s : Sessions \cup {0}, copy : Session, n : {0} \cup Reviews,
           last : Round, verdict : {"none", "approve", "changes", "exhausted"}]
NoReview == [pc |-> "none", s |-> 0, copy |-> NoSession, n |-> 0, last |-> NoRound,
             verdict |-> "none"]

\* Sessions, rounds, reviews and repairs are of their types.
TypeOK ==
  /\ session \in [Sessions -> Session]
  /\ DOMAIN round = Sessions
  /\ \A s \in Sessions : round[s] \in Seq(Round) /\ Len(round[s]) <= Cardinality(Reviews)
  /\ fix \in [Fixes -> Fix]
  /\ review \in [Reviews -> Review]
  /\ faults \in 0 .. MaxFaults

Init ==
  /\ session = [s \in Sessions |-> NoSession]
  /\ round = [s \in Sessions |-> << >>]
  /\ fix = [f \in Fixes |-> NoFix]
  /\ review = [r \in Reviews |-> NoReview]
  /\ faults = 0

-----------------------------------------------------------------------------
\* The store.  A unique index refuses a second active session.
Active == {s \in Sessions : session[s] \in ActiveStatus}
Refused(s, row) == row \in ActiveStatus /\ Active \ {s} # {}
WriteSession(s, row) == ~Refused(s, row) /\ session' = [session EXCEPT ![s] = row]
WriteRound(s, n, row) == round' = [round EXCEPT ![s][n] = row]
Fault(pc) == pc \in Fails /\ faults < MaxFaults /\ faults' = faults + 1
NoFault == UNCHANGED faults

\* CountNonRecoveryRounds
CountNonRecovery(s) == Cardinality({n \in DOMAIN round[s] : ~round[s][n].recovery})
\* GetRecentRoundsIssuesFixed(2): the last two rounds that count repaired nothing.
NoneFixedTwice(s) ==
  LET N == {n \in DOMAIN round[s] : ~round[s][n].recovery}
      late == {n \in N : Cardinality({k \in N : k > n}) < 2}
  IN Cardinality(late) = 2 /\ \A n \in late : round[s][n].fixed = 0

ReviewAt(r, pc) == review[r].pc = pc
Goes(r, pc) == review' = [review EXCEPT ![r].pc = pc]
Over(r) == review' = [review EXCEPT ![r] = [NoReview EXCEPT !.pc = "over"]]

-----------------------------------------------------------------------------
\* handleReviewPullRequest: the new review replaces the older ones; a push that
\* is not the running repair's own replaces the repair as well.
UnderWay(f) == fix[f].status \in {"queued", "running", "retrying"}
CancelFix(f) ==
  IF UnderWay(f)
  THEN [fix[f] EXCEPT !.status = "cancelled", !.ctx = fix[f].status = "running", !.over = TRUE]
  ELSE fix[f]

IsFixReviewPush(bot) == bot /\ BotLogin

Push(r, bot) ==
  /\ ReviewAt(r, "none") /\ \A x \in 1 .. r - 1 : ~ReviewAt(x, "none")
  /\ IF bot \/ Active = {} THEN NoFault ELSE Fault("push")
  /\ review' = [x \in Reviews |->
       IF x = r THEN [NoReview EXCEPT !.pc = "review"]
       ELSE IF ReviewAt(x, "review") THEN [NoReview EXCEPT !.pc = "over"] ELSE review[x]]
  /\ \E own \in {f \in Fixes : bot = fix[f].pushed} :
       LET noticed == [fix EXCEPT ![own].pushed = FALSE]
           spares == \/ Active = {}
                     \/ \E s \in Active : session[s] = "fixing" /\ IsFixReviewPush(bot)
       IN fix' = IF spares THEN noticed
                 ELSE [f \in Fixes |-> [CancelFix(f) EXCEPT !.pushed = noticed[f].pushed]]
  /\ UNCHANGED <<session, round>>

\* The review is done; what the loop has to do with it depends on the verdict,
\* the label of the pull request and the issues left after the filters.
Verdict(r) ==
  /\ ReviewAt(r, "review")
  /\ Prompt => \A x \in Reviews : review[x].pc \in {"none", "review", "over"}
  /\ \/ Over(r)
     \/ review' = [review EXCEPT ![r].pc = "find", ![r].verdict = "changes"]
     \/ review' = [review EXCEPT ![r].pc = "active", ![r].verdict = "approve"]
  /\ UNCHANGED <<session, round, fix, faults>>

With(r, s, row) ==
  review' = [review EXCEPT ![r].pc = "latest", ![r].s = s, ![r].copy = row]

\* FindOrCreateIterationSession
FindOrCreate(r) ==
  /\ ReviewAt(r, "find")
  /\ \/ /\ \E s \in Active : With(r, s, session[s])
        /\ UNCHANGED session
     \/ \E s \in Sessions :
          /\ Active = {} /\ session[s] = "none"
          /\ \A k \in Sessions : k < s => session[k] # "none"
          /\ WriteSession(s, "idle") /\ With(r, s, "idle")
  /\ UNCHANGED <<round, fix, faults>>

\* AfterIterationApproved: FindActiveIterationSession
FindActive(r) ==
  /\ ReviewAt(r, "active")
  /\ \/ Active = {} /\ Over(r)
     \/ \E s \in Active : With(r, s, session[s])
  /\ UNCHANGED <<session, round, fix, faults>>

\* ensureLatestFixReviewRoundCompleted has let the review through.
Through(r) == IF review[r].verdict = "approve" THEN "conclude" ELSE "count"

\* Mutant: a round whose task has been recorded is taken as it is.
NeverPending(row) == FALSE
Pending(row) == row.task /\ ~row.done

GetLatest(r) ==
  LET s == review[r].s
      n == Len(round[s])
      row == IF n = 0 THEN NoRound ELSE round[s][n] IN
  /\ ReviewAt(r, "latest")
  /\ review' = [review EXCEPT ![r].n = n, ![r].last = row,
       ![r].copy = IF Pending(row) THEN @ ELSE NoSession,   \* needed no more
       ![r].pc = IF Pending(row) THEN "heal" ELSE Through(r)]
  /\ UNCHANGED <<session, round, fix, faults>>

\* Mutant: a task that will be tried again is taken for one that is over.
TerminatedOrRetrying == {"failed", "cancelled", "retrying"}
Terminated == {"failed", "cancelled"}

\* The round is not complete: its task may be over nevertheless.
Heal(r) ==
  LET t == fix[<<review[r].s, review[r].n>>] IN
  /\ ReviewAt(r, "heal")
  /\ \/ /\ t.status = "succeeded"
        /\ review' = [review EXCEPT ![r].pc = "healRound",
                        ![r].last.done = TRUE, ![r].last.fixed = 1]
     \/ /\ t.status \in Terminated
        /\ review' = [review EXCEPT ![r].pc = "healRound",
                        ![r].last.done = TRUE, ![r].last.fixed = 0]
     \/ t.status \notin Terminated \cup {"succeeded"} /\ Goes(r, "wait")
  /\ UNCHANGED <<session, round, fix, faults>>

\* Its task could not be read.
HealBlind(r) ==
  /\ ReviewAt(r, "heal") /\ Fault("heal")
  /\ Goes(r, "wait")
  /\ UNCHANGED <<session, round, fix>>

HealRound(r) ==
  /\ ReviewAt(r, "healRound")
  /\ WriteRound(review[r].s, review[r].n, review[r].last)
  /\ Goes(r, IF review[r].last.fixed = 1 THEN "healSession" ELSE Through(r))
  /\ UNCHANGED <<session, fix, faults>>

\* What an execution that ran to its end makes of the session it has read.
Repaired(status) == IF status = "fixing" THEN "reviewing" ELSE status

HealSession(r) ==
  LET row == Repaired(review[r].copy) IN
  /\ ReviewAt(r, "healSession")
  /\ WriteSession(review[r].s, row)
  /\ review' = [review EXCEPT ![r].copy = NoSession, ![r].pc = Through(r)]
  /\ UNCHANGED <<round, fix, faults>>

\* waitForIterationRoundCompleted: ten seconds.
Wait(r) ==
  LET row == round[review[r].s][review[r].n] IN
  /\ ReviewAt(r, "wait")
  /\ \/ /\ row.done
        /\ review' = [review EXCEPT ![r].last = row, ![r].copy = NoSession, ![r].pc = Through(r)]
     \/ Over(r)
  /\ UNCHANGED <<session, round, fix, faults>>

\* One round more, or the session is exhausted.  A task or the results that
\* cannot be read are passed over: missing.
Count(r) ==
  \E missing \in SUBSET {"task", "results"} :
    LET s == review[r].s
        recovery == /\ "task" \notin missing
                    /\ review[r].last.task /\ fix[<<s, review[r].n>>].status = "failed"
        exhausted == /\ ~recovery
                     /\ \/ CountNonRecovery(s) >= MaxRounds
                        \/ "results" \notin missing /\ NoneFixedTwice(s)
    IN
    /\ ReviewAt(r, "count")
    /\ IF missing = {} THEN NoFault ELSE Fault("count")
    /\ review' = [review EXCEPT
         ![r].pc = IF exhausted THEN "conclude" ELSE "fixing",
         ![r].verdict = IF exhausted THEN "exhausted" ELSE @,
         ![r].last = [NoRound EXCEPT !.recovery = recovery]]
    /\ UNCHANGED <<session, round, fix>>

\* The session's last write.
Conclude(r) ==
  /\ ReviewAt(r, "conclude")
  /\ WriteSession(review[r].s,
                  IF review[r].verdict = "exhausted" THEN "exhausted" ELSE "completed")
  /\ Over(r)
  /\ UNCHANGED <<round, fix, faults>>

ToFixing(r) ==
  /\ ReviewAt(r, "fixing")
  /\ WriteSession(review[r].s, "fixing")
  /\ review' = [review EXCEPT ![r].pc = "create", ![r].n = @ + 1]
  /\ UNCHANGED <<round, fix, faults>>

CreateRound(r) ==
  LET s == review[r].s IN
  /\ ReviewAt(r, "create")
  /\ \/ /\ Len(round[s]) < review[r].n
        /\ round' = [round EXCEPT ![s] = Append(@, review[r].last)]
        /\ Goes(r, "enqueue")
     \/ Len(round[s]) >= review[r].n /\ Over(r) /\ UNCHANGED round
  /\ UNCHANGED <<session, fix, faults>>

EnqueueFix(r) ==
  /\ ReviewAt(r, "enqueue")
  /\ fix' = [fix EXCEPT ![<<review[r].s, review[r].n>>].status = "queued"]
  /\ Goes(r, "record")
  /\ UNCHANGED <<session, round, faults>>

\* The round as it was created, with its task: the last write.
RecordTask(r) ==
  /\ ReviewAt(r, "record")
  /\ WriteRound(review[r].s, review[r].n, [review[r].last EXCEPT !.task = TRUE])
  /\ Over(r)
  /\ UNCHANGED <<session, fix, faults>>

ReviewStep(r) ==
  \/ FindOrCreate(r) \/ FindActive(r) \/ GetLatest(r) \/ Heal(r) \/ HealBlind(r)
  \/ HealRound(r)
  \/ HealSession(r) \/ Wait(r) \/ Count(r) \/ Conclude(r) \/ ToFixing(r)
  \/ CreateRound(r) \/ EnqueueFix(r) \/ RecordTask(r)
\* A statement that fails, or is refused, ends what was to be done.
ReviewFails(r) ==
  /\ \/ /\ review[r].pc \notin {"none", "review", "over", "heal"}
        /\ Fault(review[r].pc)
     \/ /\ \/ ReviewAt(r, "fixing") /\ Refused(review[r].s, "fixing")
           \/ ReviewAt(r, "healSession") /\ Refused(review[r].s, Repaired(review[r].copy))
        /\ NoFault
  /\ Over(r)
  /\ UNCHANGED <<session, round, fix>>

-----------------------------------------------------------------------------
\* ProcessTask of a fix_review task.
FixAt(f, pc) == fix[f].pc = pc
\* asynq calls again after an error, while it grants executions.
\* Mutant: it never stops calling.
AgainAlways(f) == TRUE
Again(f) == fix[f].attempts < MaxAttempts
\* shouldRetry: FALSE one execution earlier than that.
ShouldRetry(f) == fix[f].attempts < MaxAttempts - 1

\* The handler returns an error, or what asynq takes for the end of the task.
Returned(f) == [fix[f] EXCEPT !.pc = "idle", !.end = "none", !.copy = NoSession, !.ctx = FALSE]
Archived(f) == [Returned(f) EXCEPT !.attempts = MaxAttempts]
Settled(f) == fix' = [fix EXCEPT ![f] = IF fix[f].end = "error" THEN Returned(f) ELSE Archived(f)]
\* A result that could not be persisted is an error of a success only, and its
\* next execution persists it.
Unpersisted(f) ==
  IF fix[f].end = "succeeded" /\ Again(f)
  THEN fix' = [fix EXCEPT ![f].pc = "round", ![f].attempts = @ + 1]
  ELSE Settled(f)

\* Whatever its row says, unless that it is cancelled.
StartFix(f) ==
  /\ FixAt(f, "idle") /\ Again(f) /\ (UnderWay(f) \/ fix[f].status = "failed")
  /\ fix' = [fix EXCEPT ![f].status = "running", ![f].pc = "exec",
                        ![f].attempts = @ + 1]
  /\ UNCHANGED <<session, round, review, faults>>

Ends(f, end) == fix' = [fix EXCEPT ![f].pc = "final", ![f].end = end]

\* The container's work: repaired and pushed, nothing repaired, a failure no
\* retry mends, an error, or cancelled.
PushBranch(f) ==
  /\ FixAt(f, "exec") /\ ~fix[f].pushed /\ fix[f].end = "none" /\ ~fix[f].ctx
  /\ fix' = [fix EXCEPT ![f].pushed = TRUE, ![f].end = "succeeded"]
  /\ UNCHANGED <<session, round, review, faults>>

Exec(f) ==
  /\ FixAt(f, "exec")
  /\ Prompt => \A r \in Reviews : ~(ReviewAt(r, "record") /\ f = <<review[r].s, review[r].n>>)
  /\ \/ ~fix[f].ctx /\ fix[f].end = "succeeded" /\ Ends(f, "succeeded")
     \/ ~fix[f].ctx /\ \E end \in {"zero", "failed"} : Ends(f, end)
     \/ ~fix[f].ctx /\ f \in Flaky /\ Ends(f, "error")
     \/ fix[f].ctx /\ Ends(f, "cancelled")
  /\ UNCHANGED <<session, round, review, faults>>

\* What the row says of it: repaired nothing, or nobody can read what, is failed.
QualityFailure == "failed"
Outcome(f) ==
  IF fix[f].end = "zero" THEN QualityFailure
  ELSE IF fix[f].end # "error" THEN fix[f].end
  ELSE IF ShouldRetry(f) THEN "retrying" ELSE "failed"
\* Written, and then?  Mutant: the round of a failed repair is left open.
RecordedSuccess(f) ==
  [fix[f] EXCEPT !.pc = IF fix[f].end = "succeeded" THEN "round" ELSE "find",
                 !.status = Outcome(f), !.over = TRUE]
RecordedEnd(f) == [fix[f] EXCEPT !.pc = "round", !.status = Outcome(f), !.over = TRUE]

Final(f) ==
  /\ FixAt(f, "final")
  /\ \/ /\ fix' = [fix EXCEPT ![f] = IF Outcome(f) = "retrying"
                     THEN [Returned(f) EXCEPT !.status = "retrying"] ELSE RecordedEnd(f)]
        /\ NoFault
     \/ Fault("final") /\ Settled(f)
  /\ UNCHANGED <<session, round, review>>

\* What becomes of the round: repaired, nothing repaired, failed or cancelled.
FixResult(row) == [row EXCEPT !.done = TRUE, !.task = TRUE, !.fixed = 1]
ZeroFixResult(row) == [row EXCEPT !.done = TRUE, !.task = TRUE, !.fixed = 0]
RoundOnFailure(row) == [row EXCEPT !.done = TRUE, !.fixed = 0]

\* The round's row, unless somebody completed it.  A failure whose round cannot
\* be written goes on to the session.
PersistRound(f) ==
  LET row == round[f[1]][f[2]]
      goes == fix' = [fix EXCEPT ![f].pc = "find"] IN
  /\ FixAt(f, "round")
  /\ \/ row.done /\ goes /\ UNCHANGED round /\ NoFault
     \/ /\ ~row.done /\ goes /\ NoFault
        /\ WriteRound(f[1], f[2], CASE fix[f].end = "succeeded" -> FixResult(row)
                                    [] fix[f].end = "zero" -> ZeroFixResult(row)
                                    [] OTHER -> RoundOnFailure(row))
     \/ /\ Fault("round") /\ UNCHANGED round
        /\ IF fix[f].end \in {"succeeded", "zero"} THEN Unpersisted(f) ELSE goes
  /\ UNCHANGED <<session, review>>

\* A success without its session is an error: it is tried again.
FindSession(f) ==
  /\ FixAt(f, "find")
  /\ \/ /\ f[1] \in Active /\ NoFault
        /\ fix' = [fix EXCEPT ![f].pc = "session", ![f].copy = session[f[1]]]
     \/ f[1] \notin Active /\ Unpersisted(f) /\ NoFault
     \/ Fault("session") /\ Unpersisted(f)
  /\ UNCHANGED <<session, round, review>>

\* The session of a repair that failed waits for somebody's push.
FailedSession == "idle"

PersistSession(f) ==
  LET status == IF fix[f].end \in {"succeeded", "zero"} THEN Repaired(fix[f].copy)
                ELSE FailedSession IN
  /\ FixAt(f, "session")
  /\ \/ WriteSession(f[1], status) /\ Settled(f) /\ NoFault
     \/ /\ IF Refused(f[1], status) THEN NoFault ELSE Fault("session")
        /\ Unpersisted(f)
        /\ UNCHANGED session
  /\ UNCHANGED <<round, review>>

FixStep(f) ==
  \/ StartFix(f) \/ PushBranch(f) \/ Exec(f) \/ Final(f) \/ PersistRound(f) \/ FindSession(f)
  \/ PersistSession(f)

-----------------------------------------------------------------------------
Next ==
  \/ \E r \in Reviews : \/ \E bot \in BOOLEAN : Push(r, bot)
                        \/ Verdict(r) \/ ReviewStep(r) \/ ReviewFails(r)
  \/ \E f \in Fixes : FixStep(f)

Spec == Init /\ [][Next]_vars

-----------------------------------------------------------------------------
\* One repair of the pull request is under way at a time, although every review
\* may start one, pushes cancel them and the rows they leave are read while
\* they are being written (ensureLatestFixReviewRoundCompleted): what runs
\* beside it is a task whose row has said before that it was over.
OneRepair == Cardinality({f \in Fixes : UnderWay(f) /\ ~fix[f].over}) <= 1

\* A repair recorded as failed is done with (the comment of shouldRetry: asynq
\* tries no more): it does not run again beside the repair of another round.
FailedIsOver ==
  [][\A f, g \in Fixes : fix[f].status = "failed" /\ UnderWay(g) => fix'[f].status = "failed"]_vars

\* The round of a repair that has run to its end, whatever came of it, is
\* complete once its handler is over: the next review has not to wait for it.
RepairIsSettled ==
  faults = 0 => \A f \in Fixes :
    fix[f].status \in {"succeeded", "failed"} /\ FixAt(f, "idle") => round[f[1]][f[2]].done

\* The rounds of Rounds are the rows of iteration_rounds.
Abstract == INSTANCE Rounds WITH rounds <-
  [s \in Sessions |-> [n \in DOMAIN round[s] |->
     [recovery |-> round[s][n].recovery, settled |-> round[s][n].done]]]

\* The rounds follow one another: the loop implements Rounds, of which a round's
\* row shows when it began and that it is complete.
ImplementsRounds == Abstract!Spec

\* An approved session stays completed, the terminal state whose notification
\* AfterIterationApproved sends: nothing reopens it.
CompletedStays ==
  [][\A s \in Sessions : session[s] = "completed" => session'[s] = "completed"]_session
=============================================================================
