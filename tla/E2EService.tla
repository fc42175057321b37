------------------------------ MODULE E2EService ------------------------------
(***************************************************************************)
(* e2e.Service and the triage before it: run_e2e files an issue for every  *)
(* case that fails for the code's or the script's fault and remembers it   *)
(* in e2e_results; triage_e2e enqueues a run_e2e per module.               *)
(***************************************************************************)
EXTENDS Attempt

E2E == Is("run_e2e")
Triage == Is("triage_e2e")

\* E2E switched off, an environment nobody configured.
StartE2E ==
  /\ E2E /\ At("start") /\ UNCHANGED <<task, gitea, result, slips>>
  /\ IF task.subject = "disabled" THEN Returns("e2e_disabled") ELSE Goes("container")

\* parseE2EResult, isDeterministicE2EFailure: bugs alone are final (exit 2); with
\* an environment's failure among them the run is tried again (exit 1).
E2EOutcome ==
  [garbled |-> Exit("e2e_parse", 0), ok |-> [To("load") EXCEPT !.exit = 0],
   bugs |-> [To("load") EXCEPT !.exit = 2], mixed |-> [To("load") EXCEPT !.exit = 1]]
RunE2E == E2E /\ Container(E2EOutcome)

Failing == IF run.out = "ok" THEN {{}} ELSE SUBSET Cases \ {{}}

\* Mutant: the issues of an earlier execution are forgotten.
LoadNothing ==
  /\ At("load") /\ UNCHANGED <<task, gitea, result, slips>>
  /\ \E cases \in Failing :
       run' = [run EXCEPT !.pc = "saveE2E", !.all = cases, !.left = cases]

\* The row of an earlier execution; a query that fails counts as none.
LoadE2EResult ==
  /\ At("load") /\ UNCHANGED <<task, gitea, result>>
  /\ \E cases \in Failing :
       LET Loaded(id, saved) ==
             run' = [run EXCEPT !.pc = "saveE2E", !.id = id, !.seen = saved,
                                !.all = cases, !.left = cases \ saved]
       IN \/ Answered /\ IF result.stored THEN Loaded("row", result.issues) ELSE Loaded("none", {})
          \/ Fails /\ Loaded("none", {})

\* SaveE2EResult: by task_id; the row there keeps its id, the record gets a new one.
SaveE2EResult ==
  /\ At("saveE2E") /\ UNCHANGED <<task, gitea>>
  /\ \/ /\ Answered
        /\ result' = [result EXCEPT !.stored = TRUE, !.issues = run.seen]
        /\ run' = [run EXCEPT !.pc = "issues",
                     !.id = IF @ = "none" /\ result.stored THEN "other" ELSE "row"]
     \/ Fails /\ UNCHANGED result /\ Goes("issues")

\* An issue that cannot be filed is passed over.
CreateIssue ==
  \E c \in run.left :
    Write("issues", [gitea EXCEPT !.filed[c] = @ + 1],
          run' = [run EXCEPT !.left = @ \ {c}, !.seen = @ \cup {c}],
          run' = [run EXCEPT !.left = @ \ {c}])

\* UpdateE2ECreatedIssues: by id, of the row if it has that one.
UpdateCreatedIssues ==
  /\ At("issues") /\ run.left = {} /\ UNCHANGED <<task, gitea>> /\ Goes("judge")
  /\ \/ /\ Answered
        /\ result' = IF run.id = "row" /\ run.seen # {} THEN [result EXCEPT !.issues = run.seen]
                     ELSE result
     \/ Fails /\ UNCHANGED result

-----------------------------------------------------------------------------
\* ParseTriageResult
TriageOutcome ==
  [exit1 |-> Exit("nil", 1), exit2 |-> Exit("nil", 2), garbled |-> Exit("triage_parse", 0),
   nothing |-> Exit("nil", 0), some |-> Exit("nil", 0), unknown |-> Exit("nil", 0)]
RunTriage == Triage /\ Container(TriageOutcome)

\* loadAvailableE2EModules: a scan that fails and a module that is not there end
\* the task.
LoadAvailableE2EModules ==
  Read("scan",
       IF run.out = "unknown" THEN Settles("failed", "skip", "stored")
       ELSE \E modules \in SUBSET Cases \ {{}} :
              run' = [run EXCEPT !.pc = "dispatch", !.all = modules, !.left = modules],
       Settles("failed", "skip", "stored"))

\* EnqueueManualE2E, of each module; a failure is passed over.
EnqueueE2E ==
  \E m \in run.left :
    Write("dispatch", [gitea EXCEPT !.filed[m] = @ + 1],
          run' = [run EXCEPT !.left = @ \ {m}, !.seen = @ \cup {m}],
          run' = [run EXCEPT !.left = @ \ {m}])

\* Mutant: a partial failure is not reported to asynq.
DispatchedSilently ==
  /\ At("dispatch") /\ run.left = {} /\ UNCHANGED <<task, gitea, result, slips>>
  /\ IF run.seen = run.all THEN Settles("succeeded", "nil", "stored")
     ELSE IF run.seen = {} THEN Settles("failed", "skip", "stored")
     ELSE Settles(IF ShouldRetry THEN "retrying" ELSE "failed", "skip", "stored")

\* All, none or some of them.
Dispatched ==
  /\ At("dispatch") /\ run.left = {} /\ UNCHANGED <<task, gitea, result, slips>>
  /\ IF run.seen = run.all THEN Settles("succeeded", "nil", "stored")
     ELSE IF run.seen = {} THEN Settles("failed", "skip", "stored")
     ELSE Settles(IF ShouldRetry THEN "retrying" ELSE "failed", "error", "stored")

E2ENext ==
  \/ StartE2E \/ RunE2E \/ LoadE2EResult \/ SaveE2EResult \/ CreateIssue \/ UpdateCreatedIssues
  \/ RunTriage \/ LoadAvailableE2EModules \/ EnqueueE2E \/ Dispatched
=============================================================================
