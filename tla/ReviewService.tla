----------------------------- MODULE ReviewService -----------------------------
(***************************************************************************)
(* review.Service and its Writer: a pull request is reviewed and the       *)
(* review published, unless a newer request for one is there by then.      *)
(***************************************************************************)
EXTENDS Attempt

Reviewing == Is("review_pr")

GetPullRequest ==
  Reviewing /\
  Read("start", IF task.subject = "closed" THEN Returns("pr_not_open") ELSE Goes("labels"),
                Returns(Error))

\* Without its labels the review goes on.
GetIssueLabels == Read("labels", Goes("files"), Goes("files"))
ListPullRequestFiles == Read("files", Goes("container"), Returns(Error))

\* parseResult; the exit code of the container is not looked at.
ReviewOutcome ==
  [o \in {"garbled"} \cup DOMAIN Outputs |->
     IF o = "garbled" THEN Exit("review_parse", 0) ELSE To("diff")]
RunReview == Reviewing /\ Container(ReviewOutcome)

\* Write: without a diff every issue goes to the body.
GetPullRequestDiff ==
  Read("diff", run' = [run EXCEPT !.pc = "stale", !.seen = {"diff"}], Goes("stale"))

\* The staleness check lets through what it cannot tell (blind); degrading, a
\* stale review cancels the task.
Degrading == run.err = "review_parse"
Stale == IF Degrading THEN Settles("cancelled", "skip", "never") ELSE Returns("stale")
StalenessCheck ==
  Read("stale", IF task.newer THEN Stale ELSE Goes("publish"), GoesBlind("publish"))

\* What was published is recorded; what was not is an error the task ignores.
Unpublished == IF Degrading THEN Settles("failed", "error", "stored") ELSE Returns("nil")
CreatePullReview ==
  Write("publish",
        IF Degrading THEN [Reply("degraded") EXCEPT !.shown = Degraded]
        ELSE [Reply("review") EXCEPT !.shown = Published(run.out, "diff" \in run.seen)],
        Goes("saveReview"), Unpublished)
SaveReviewResult == Read("saveReview", Unpublished, Unpublished)

\* WriteDegraded, on the last attempt: Write of the raw output, without a diff
DegradeReview == Reviewing /\ At("degrade") /\ Goes("stale") /\ UNCHANGED <<task, gitea, result, slips>>

ReviewNext ==
  \/ GetPullRequest \/ GetIssueLabels \/ ListPullRequestFiles \/ RunReview
  \/ GetPullRequestDiff \/ StalenessCheck \/ CreatePullReview \/ SaveReviewResult
  \/ DegradeReview
=============================================================================
