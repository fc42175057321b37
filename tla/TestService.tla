----------------------------- MODULE TestService ------------------------------
(***************************************************************************)
(* test.Service: tests are generated and pushed; a pull request, a row of  *)
(* test_gen_results in two phases and a review of it follow, a failed      *)
(* generation's included.                                                  *)
(***************************************************************************)
EXTENDS Attempt

Testing == Is("gen_tests")

\* Enabled, validateModule, resolveBaseRef
ResolveBaseRef ==
  Testing /\
  Read("start", CASE task.subject = "disabled" -> Returns("tests_disabled")
                  [] task.subject = "badref" -> Returns("invalid_test_ref")
                  [] OTHER -> Goes("module"),
                Returns(IF task.subject = "disabled" THEN "tests_disabled" ELSE Error))

\* A query that fails lets the module through.
ValidateModuleExists ==
  Read("module", IF task.subject = "nomodule" THEN Returns("module_not_found") ELSE Goes("framework"),
                 Goes("framework"))

\* A file that could not be asked for counts as missing.
ResolveFramework ==
  Read("framework", IF task.subject = "noframework" THEN Returns("no_framework") ELSE Goes("container"),
                    Returns("no_framework"))

\* validateSuccessfulTestGenOutput, validateFailureTestGenOutput
TestOutcome ==
  [exit1 |-> Exit("nil", 1), exit2 |-> Exit("nil", 2), garbled |-> Exit("tests_parse", 0),
   insufficient |-> To("effects"), failure |-> To("effects"), partial |-> To("effects"),
   ok |-> To("effects")]
RunTests == Testing /\ Container(TestOutcome)

Pushed == run.out \in {"ok", "partial"}

\* The context is looked at before anything is done to the outside.
BeforeEffects ==
  /\ At("effects") /\ UNCHANGED <<task, gitea, result, slips>>
  /\ IF Live THEN Goes(IF Pushed THEN "findTests" ELSE "saveTests") ELSE Returns(Error)

FindTestPR ==
  Read("findTests",
       IF gitea.pr # 0 THEN run' = [run EXCEPT !.pc = "saveTests", !.pr = gitea.pr]
       ELSE Goes("createTests"),
       Goes("createTests"))
CreateTestPR ==
  CreatePR("createTests", run' = [run EXCEPT !.pc = "saveTests", !.pr = gitea.made + 1],
           Returns(Error))

\* Phase 1: the whole row, review_enqueued = 0.
PersistTestGenResult ==
  /\ At("saveTests") /\ UNCHANGED <<task, gitea>> /\ Goes("decideTests")
  /\ \/ Answered /\ result' = [NoResult EXCEPT !.stored = TRUE, !.pr = run.pr, !.marked = result.marked]
     \/ Fails /\ UNCHANGED result

TestVerdict ==
  CASE run.out = "insufficient" -> "tests_insufficient"
    [] run.out \in {"failure", "partial"} -> "tests_failed"
    [] OTHER -> "nil"

\* lookupPreviousEnqueueState: a failing query counts as not enqueued.
WantsReview == run.pr # 0 /\ (run.out = "ok" \/ task.onFailure)
DecideReview ==
  IF ~WantsReview
  THEN At("decideTests") /\ Returns(TestVerdict) /\ UNCHANGED <<task, gitea, result, slips>>
  ELSE Read("decideTests",
            IF result.enqueued /\ result.pr = run.pr THEN Returns(TestVerdict) ELSE Goes("reviewTests"),
            GoesBlind("reviewTests"))

\* A review that cannot be enqueued is left to the audit of review_enqueued.
EnqueueTestReview == Write("reviewTests", Review, Goes("markTests"), Returns(TestVerdict))

\* Phase 2: only review_enqueued, of a row that is there.
MarkTestReview ==
  /\ At("markTests") /\ UNCHANGED <<task, gitea>> /\ Returns(TestVerdict)
  /\ \/ Answered /\ result' = Marked
     \/ Fails /\ UNCHANGED result

TestNext ==
  \/ ResolveBaseRef \/ ValidateModuleExists \/ ResolveFramework \/ RunTests \/ BeforeEffects
  \/ FindTestPR \/ CreateTestPR \/ PersistTestGenResult \/ DecideReview
  \/ EnqueueTestReview \/ MarkTestReview
=============================================================================
