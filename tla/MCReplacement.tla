---------------------------- MODULE MCReplacement ----------------------------
(* Requests that meet: a document asked for again and again, and two         *)
(* documents for one branch; a labelled issue and a manual repair of it; a   *)
(* merged pull request with two frameworks in one module, delivered again    *)
(* later; all modules' tests, or E2E runs, beside those of one module; the   *)
(* triage of two merged pull requests.  Redelivered is a merged pull request *)
(* whose webhook is handled twice at once.                                   *)
EXTENDS Replacement, TLC
CONSTANTS c1, c2, c3, a1, f1, f2, g1, g2, g3, e1, e2, q1, q2

MCKind == [t \in Tasks |->
  CASE t \in {c1, c2, c3} -> "code_from_doc" [] t = a1 -> "analyze_issue"
    [] t \in {f1, f2} -> "fix_issue"         [] t \in {g1, g2, g3} -> "gen_tests"
    [] t \in {e1, e2} -> "run_e2e"       [] OTHER -> "triage_e2e"]
MCKey == [t \in Tasks |-> "module"]
MCFramework == [t \in Tasks |-> CASE t = g1 -> "junit5" [] t = g2 -> "vitest" [] OTHER -> ""]

MCTasksOf ==
  "doc1" :> <<c1, c3>> @@ "doc2" :> <<c2, c2>> @@ "doc3" :> <<c3, c3>> @@ "label1" :> <<a1>> @@ "label2" :> <<f1>>
  @@ "fix" :> <<f2>> @@ "merged" :> <<g1, g2>> @@ "again" :> <<g1, g2>> @@ "gen" :> <<g3>>
  @@ "genAll" :> <<g1, g2>> @@ "e2eAll" :> <<e1>> @@ "e2e" :> <<e2>>
  @@ "triage1" :> <<q1>> @@ "triage2" :> <<q2>>
MCScenarios == {{"doc1"}, {"doc2", "doc3"}, {"label1", "label2"}, {"label2", "fix"}, {"merged"},
                {"genAll", "gen"}, {"e2eAll", "e2e"}, {"triage1", "triage2"}}
MCManual == {"fix", "gen", "genAll", "e2eAll", "e2e"}
MCWhole == {"genAll", "e2eAll"}
MCMaxCalls == [r \in Requests |-> IF r \in {"doc1", "merged"} THEN 2 ELSE 1]
Redelivered == {{"merged", "again"}}
ASSUME Scenarios = Redelivered \/ (DistinctRequests /\ DistinctModules)
=============================================================================
