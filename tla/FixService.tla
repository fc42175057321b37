------------------------------ MODULE FixService ------------------------------
(***************************************************************************)
(* fix.Service: the analysis of an issue and its repair.  Both answer in a *)
(* comment on the issue; a repair opens a pull request first.              *)
(***************************************************************************)
EXTENDS Attempt

CONSTANT MaxTries       \* len(prCreateBackoffs) + 1, bounded

Fixing == Is("fix_issue")

\* GetIssue, then what the issue lacks: a reminder asks for it.
GetIssue ==
  (Is("analyze_issue") \/ Fixing) /\
  Read("start", CASE task.subject = "closed" -> Returns("issue_not_open")
                  [] task.subject = "noref" -> Goes("refMissing")
                  [] OTHER -> Goes("ref"),
                Returns(Error))

\* Mutant: a query that fails counts as an answer.
ValidateRefAnyhow ==
  (Is("analyze_issue") \/ Fixing) /\
  Read("ref", Goes(IF task.subject = "badref" THEN "refInvalid"
                   ELSE IF Fixing THEN "previous" ELSE "context"),
              Goes("refInvalid"))
ValidateRef ==
  (Is("analyze_issue") \/ Fixing) /\
  Read("ref", Goes(IF task.subject = "badref" THEN "refInvalid"
                   ELSE IF Fixing THEN "previous" ELSE "context"),
              Returns(Error))

CommentRefMissing ==
  Write("refMissing", Reply("reminder"), Returns("missing_ref"), Returns(Error))
CommentRefInvalid ==
  Write("refInvalid", Reply("reminder"), Returns("invalid_ref"), Returns(Error))

\* The last analysis found the issue wanting; a failing query lets it through.
CheckPreviousAnalysis ==
  Read("previous", IF task.subject = "insufficient" THEN Goes("insufficient")
                   ELSE Goes("context"),
                   Goes("context"))

\* The sentinel is joined to the error of the comment: not tried again.
CommentInsufficient ==
  Write("insufficient", Reply("reminder"), Returns("info_insufficient"),
        Returns(IF Error = "canceled" THEN "canceled" ELSE "info_insufficient"))

CollectContext == Read("context", Goes("container"), Returns(Error))

\* parseResult: what cannot be parsed is posted as it is; an error of the CLI is not.
AnalysisOutcome ==
  [exit1 |-> Exit("nil", 1), exit2 |-> Exit("nil", 2), cliError |-> Exit("nil", 1),
   garbled |-> To("comment"), ok |-> To("comment")]

\* parseFixResult, validateSuccessfulFixOutput
FixOutcome ==
  [exit1 |-> Exit("nil", 1), exit2 |-> Exit("nil", 2), garbled |-> Exit("fix_parse", 0),
   insufficient |-> To("doubt"), failure |-> To("failure"), ok |-> To("find")]

RunFix == \/ Is("analyze_issue") /\ Container(AnalysisOutcome)
          \/ Fixing /\ Container(FixOutcome)

\* The comment is the outcome: an analysis that cannot be posted failed.
CommentAnalysis == Write("comment", Reply("report"), ReturnsExit(0), ReturnsExit(1))
CommentDoubt ==
  Write("doubt", Reply("reminder"), Returns("info_insufficient"), Returns("info_insufficient"))
CommentFailure == Write("failure", Reply("report"), Returns("fix_failed"), Returns("fix_failed"))

-----------------------------------------------------------------------------
\* createFixPR: an open pull request of the branch is reused; a list that fails
\* counts as empty.
Reuses == run' = [run EXCEPT !.pc = "thank", !.pr = gitea.pr]
FindFixPR ==
  Fixing /\
  Read("find", IF gitea.pr # 0 THEN Reuses ELSE Goes(IF task.subject = "tag" THEN "base" ELSE "create"),
               Goes(IF task.subject = "tag" THEN "base" ELSE "create"))

NoFixPR == run' = [run EXCEPT !.pc = "noPR", !.err = Error]
DefaultBranch == Read("base", Goes("create"), NoFixPR)

\* Mutant: a pull request whose answer is lost is not looked for.
CreateFixPROnce ==
  Fixing /\
  CreatePR("create", run' = [run EXCEPT !.pc = "thank", !.pr = gitea.made + 1], NoFixPR)
\* seen: the error is a 5xx one, tried again if the list shows no pull request.
CreateFixPR ==
  Fixing /\
  CreatePR("create", run' = [run EXCEPT !.pc = "thank", !.pr = gitea.made + 1],
    \E retriable \in {{}, {"5xx"}} :
      /\ gitea.pr # 0 => retriable = {}
      /\ run' = [run EXCEPT !.pc = "refind", !.tries = @ + 1, !.seen = retriable])

CreateAgain == IF run.seen # {} /\ run.tries < MaxTries /\ Live THEN Goes("create") ELSE NoFixPR
RefindFixPR ==
  Read("refind", IF gitea.pr # 0 THEN Reuses ELSE CreateAgain, CreateAgain)

\* Pushed, but no pull request: said on the issue, and tried again.
CommentNoPR == Write("noPR", Reply("noPR"), Goes("judge"), Goes("judge"))
CommentSuccess == Write("thank", Reply("report"), ReturnsExit(0), ReturnsExit(1))

\* WriteDegraded, on the last attempt
GivesUp == Settles("failed", "error", "stored")
DegradeFix ==
  Fixing /\ Write("degrade", Reply("degraded"), GivesUp, GivesUp)

FixNext ==
  \/ GetIssue \/ ValidateRef \/ CommentRefMissing \/ CommentRefInvalid
  \/ CheckPreviousAnalysis \/ CommentInsufficient \/ CollectContext \/ RunFix
  \/ CommentAnalysis \/ CommentDoubt \/ CommentFailure
  \/ FindFixPR \/ DefaultBranch \/ CreateFixPR \/ RefindFixPR \/ CommentNoPR \/ CommentSuccess
  \/ DegradeFix
=============================================================================
