------------------------------ MODULE MCExecution ------------------------------
(* Small instances of Execution, and the reviews a review_pr may come to.    *)
EXTENDS Execution, TLC

AllKinds == {"review_pr", "analyze_issue", "fix_issue", "gen_tests", "run_e2e",
             "triage_e2e", "code_from_doc"}

Hunk(start, ops) == [start |-> start, ops |-> ops]
File(old, new, hunks) == [old |-> old, new |-> new, binary |-> FALSE, hunks |-> hunks]
MCDiff ==
  << File("a", "a", << Hunk(3, <<"=", "-", "+", "+", "=">>), Hunk(20, <<"-", "-">>) >>),
     File("old", "renamed", << Hunk(1, <<"+">>) >>),
     File("gone", Null, << Hunk(0, <<"-", "-">>) >>),
     [File("bin", "bin", << >>) EXCEPT !.binary = TRUE] >>

Issue(file, line, severity) == [file |-> file, line |-> line, severity |-> severity]
Output(verdict, issues) ==
  [verdict |-> verdict, issues |-> issues, severity |-> "none", ignore |-> {}]

\* Filtered and not, with and without severe issues, on lines of the diff and off.
MCOutputs ==
  "changes" :> [Output("request_changes",
                  {Issue("a", 4, "error"), Issue("a", 7, "warning"), Issue("a", 20, "info")})
                EXCEPT !.severity = "warning"] @@
  "ignored" :> [Output("request_changes",
                  {Issue("a", 3, "critical"), Issue("", 0, "warning")}) EXCEPT !.ignore = {"a"}] @@
  "clean"   :> Output("approve", {Issue("renamed", 1, "info")}) @@
  "harsh"   :> Output("approve", {Issue("gone", 1, "critical"), Issue("bin", 2, "grave")})
=============================================================================
