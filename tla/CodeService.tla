----------------------------- MODULE CodeService ------------------------------
(***************************************************************************)
(* code.Service: a document is implemented on its branch; a pull request,  *)
(* its label, a row of code_from_doc_results in two phases and a review    *)
(* follow, also when the tests of the implementation fail.                 *)
(***************************************************************************)
EXTENDS Attempt

Coding == Is("code_from_doc")

\* ParseCodeFromDocOutput, validateOutput; then by failure_category.  Any exit
\* code but 0 is an error to be tried again.
CodeOutcome ==
  [exit1 |-> Exit("error", 1), garbled |-> Exit("code_parse", 0),
   insufficient |-> To("saveCode"), infrastructure |-> To("saveCode"),
   otherBranch |-> Exit("code_parse", 0), failure |-> To("findCode"), ok |-> To("findCode")]

StartCode ==
  /\ Coding /\ At("start") /\ UNCHANGED <<task, gitea, result, slips>>
  /\ IF task.subject = "disabled" THEN Returns("code_disabled") ELSE Goes("container")
RunCode == Coding /\ Container(CodeOutcome)

\* createOrReusePR: a list that fails is an error.
FindCodePR ==
  Read("findCode",
       IF gitea.pr # 0 THEN run' = [run EXCEPT !.pc = "label", !.pr = gitea.pr]
       ELSE Goes("createCode"),
       Returns(Error))
CreateCodePR ==
  CreatePR("createCode", run' = [run EXCEPT !.pc = "label", !.pr = gitea.made + 1], Returns(Error))

\* auto-iterate, of a success only; without it the work goes on.
AddLabel ==
  IF run.out = "ok" THEN Write("label", gitea, Goes("saveCode"), Goes("saveCode"))
  ELSE At("label") /\ Goes("saveCode") /\ UNCHANGED <<task, gitea, result, slips>>

\* Phase 1 leaves review_enqueued alone.
PersistedCode(next) ==
  CASE run.out = "insufficient" -> Returns("code_insufficient")
    [] run.out = "infrastructure" -> Returns("error")
    [] OTHER -> next
\* Mutant: the whole row is written, review_enqueued = 0.
PersistCodeResultWhole ==
  /\ At("saveCode") /\ UNCHANGED <<task, gitea>>
  /\ \/ /\ Answered /\ PersistedCode(Goes("decideCode"))
        /\ result' = [result EXCEPT !.stored = TRUE, !.pr = run.pr, !.enqueued = FALSE]
     \/ Fails /\ UNCHANGED result /\ PersistedCode(GoesBlind("decideCode"))
PersistCodeResult ==
  /\ At("saveCode") /\ UNCHANGED <<task, gitea>>
  /\ \/ /\ Answered /\ PersistedCode(Goes("decideCode"))
        /\ result' = [result EXCEPT !.stored = TRUE, !.pr = run.pr]
     \/ Fails /\ UNCHANGED result /\ PersistedCode(GoesBlind("decideCode"))

CodeVerdict == IF run.out = "failure" THEN "code_test_failure" ELSE "nil"

\* A success, and tests that fail where the repository asks for it (review_on_failure).
WantsCodeReview == run.out = "ok" \/ (run.out = "failure" /\ task.onFailure)

\* shouldEnqueueReview reads the row phase 1 has just written.
DecideCodeReview ==
  IF ~WantsCodeReview
  THEN At("decideCode") /\ Returns(CodeVerdict) /\ UNCHANGED <<task, gitea, result, slips>>
  ELSE Read("decideCode",
            IF result.enqueued /\ result.pr = run.pr THEN Returns(CodeVerdict) ELSE Goes("reviewCode"),
            GoesBlind("reviewCode"))

\* Mutant: a review that cannot be enqueued is logged only.
EnqueueCodeReviewAnyway == Write("reviewCode", Review, Goes("markCode"), Returns(CodeVerdict))

\* A review that cannot be enqueued fails the task.
EnqueueCodeReview == Write("reviewCode", Review, Goes("markCode"), Returns(Error))

MarkCodeReview ==
  /\ At("markCode") /\ UNCHANGED <<task, gitea>> /\ Returns(CodeVerdict)
  /\ \/ Answered /\ result' = Marked
     \/ Fails /\ UNCHANGED result

CodeNext ==
  \/ StartCode \/ RunCode \/ FindCodePR \/ CreateCodePR \/ AddLabel \/ PersistCodeResult
  \/ DecideCodeReview \/ EnqueueCodeReview \/ MarkCodeReview
=============================================================================
