------------------------------ MODULE ReviewRules ------------------------------
(***************************************************************************)
(* What review.Writer makes of the reviewer's output: which lines of the   *)
(* diff can be commented on, which issues the filters let through, and the *)
(* state the review is published with.                                     *)
(*                                                                         *)
(* An output is what the model answered together with the filters of its   *)
(* repository: [verdict, issues, severity, ignore], an issue a record      *)
(* [file, line, severity].  A diff is a sequence of the files it touches,  *)
(* [old, new, binary, hunks], and a hunk [start, ops] the operations on    *)
(* its lines, "=" a line of both files; the count in its header is that of *)
(* the lines not removed.                                                  *)
(***************************************************************************)
EXTENDS Naturals, Sequences, FiniteSets

CONSTANTS
  Outputs,   \* [names -> outputs the container may end with]
  Diff       \* the pull request's diff

Severities == {"critical", "error", "warning", "info", "grave"}

\* Validate accepts no other threshold (validate.go:304); "none" is none.
ASSUME OutputsAssumption ==
  /\ DOMAIN Outputs \cap {"none", "garbled"} = {}
  /\ \A o \in DOMAIN Outputs :
       /\ Outputs[o].verdict \in {"approve", "request_changes", "comment", "none"}
       /\ Outputs[o].severity \in {"critical", "error", "warning", "info", "none"}
       /\ \A i \in Outputs[o].issues : i.severity \in Severities /\ i.line \in Nat

ASSUME DiffAssumption ==
  \A k \in DOMAIN Diff : \A n \in DOMAIN Diff[k].hunks :
    Diff[k].hunks[n].start \in Nat /\ Diff[k].hunks[n].ops \in Seq({"=", "+", "-"})

Null == "/dev/null"
NoFile == ""

\* ParseDiff: a file removed is kept under its old name, a binary one left out.
ParseDiff ==
  LET Parsed(k) == [name   |-> IF Diff[k].new = Null THEN Diff[k].old ELSE Diff[k].new,
                    delete |-> Diff[k].new = Null,
                    hunks  |-> [n \in DOMAIN Diff[k].hunks |->
                      LET h == Diff[k].hunks[n]
                      IN [newStart |-> h.start,
                          newCount |-> Cardinality({p \in DOMAIN h.ops : h.ops[p] # "-"})]]]
  IN {Parsed(k) : k \in {k \in DOMAIN Diff : ~Diff[k].binary}}

\* Mutant: the line after the hunk is taken for its last.
MapLineOneMore(file, line) ==
  \E fd \in ParseDiff : fd.name = file /\ ~fd.delete /\ \E n \in DOMAIN fd.hunks :
    LET h == fd.hunks[n] IN h.newCount > 0 /\ line \in h.newStart .. h.newStart + h.newCount

\* A line of the new file within a hunk; a hunk that only removes has none.
MapLine(file, line) ==
  \E fd \in ParseDiff : fd.name = file /\ ~fd.delete /\ \E n \in DOMAIN fd.hunks :
    LET h == fd.hunks[n] IN h.newCount > 0 /\ line \in h.newStart .. h.newStart + h.newCount - 1

\* mapIssuesToComments; without a diff nothing is mapped.
Mapped(output, diff) ==
  {i \in output.issues : diff /\ i.file # NoFile /\ i.line > 0 /\ MapLine(i.file, i.line)}

-----------------------------------------------------------------------------
\* ParseSeverity: what it does not know counts as info.
Rank == [critical |-> 3, error |-> 2, warning |-> 1, info |-> 0, grave |-> 0, none |-> 0]
Severe(issues) == \E i \in issues : i.severity \in {"critical", "error"}

\* FilterIssues: the issue's file is not ignored and the issue grave enough.
MatchesIgnorePattern(output, i) == i.file # NoFile /\ i.file \in output.ignore
FilterIssues(output) ==
  {i \in output.issues : /\ ~MatchesIgnorePattern(output, i)
                         /\ Rank[i.severity] >= Rank[output.severity]}

\* recalcVerdict, once something was filtered.
RecalcVerdict(visible, verdict) ==
  CASE visible = {} -> "comment"
    [] visible # {} /\ Severe(visible) -> "request_changes"
    [] visible # {} /\ ~Severe(visible) ->
         IF verdict = "request_changes" THEN "comment" ELSE verdict

\* ApplyFilters: the verdict it leaves.
FilteredVerdict(output) ==
  IF FilterIssues(output) = output.issues THEN output.verdict
  ELSE RecalcVerdict(FilterIssues(output), output.verdict)

\* verdictToState
State == [approve |-> "APPROVED", request_changes |-> "REQUEST_CHANGES", comment |-> "COMMENT"]
StateOf(verdict) == IF verdict \in DOMAIN State THEN State[verdict] ELSE "COMMENT"

\* mapVerdict's safety net when nothing was filtered, recalcVerdict's otherwise.
ReviewState(output) ==
  IF FilterIssues(output) = output.issues /\ Severe(output.issues) THEN "REQUEST_CHANGES"
  ELSE StateOf(FilteredVerdict(output))

\* The body has what is visible and not on a line of the diff.
Published(o, diff) ==
  LET output == Outputs[o]
      visible == FilterIssues(output) IN
  [of |-> o, state |-> ReviewState(output),
   comments |-> Mapped(output, diff) \cap visible, body |-> visible \ Mapped(output, diff)]

\* WriteDegraded: the raw output.
Degraded == [of |-> "garbled", state |-> "COMMENT", comments |-> {}, body |-> {}]
NothingPublished == [of |-> "none", state |-> "none", comments |-> {}, body |-> {}]

-----------------------------------------------------------------------------
\* Mutant: the loop does not look at the filters.
LoopOnVerdict(o) ==
  CASE Outputs[o].verdict = "request_changes" -> "repair"
    [] Outputs[o].verdict = "approve" -> "approved"
    [] OTHER -> "none"

\* What ProcessTask tells the iteration loop of a review that succeeded.
Loop(o) ==
  CASE Outputs[o].verdict = "request_changes" ->
         IF FilteredVerdict(Outputs[o]) = "request_changes" THEN "repair" ELSE "none"
    [] Outputs[o].verdict = "approve" -> "approved"
    [] OTHER -> "none"

-----------------------------------------------------------------------------
\* What a reader may take a published review for, spelled out: the issues that
\* filtering leaves, an issue without a file never being ignored,
LetThrough(output) ==
  {i \in output.issues : /\ i.file = NoFile \/ i.file \notin output.ignore
                         /\ CASE output.severity = "critical" -> i.severity = "critical"
                              [] output.severity = "error" -> i.severity \in {"critical", "error"}
                              [] output.severity = "warning" ->
                                   i.severity \in {"critical", "error", "warning"}
                              [] output.severity \in {"info", "none"} -> TRUE}
\* and the lines that the diff has in the new file.
InDiff(i) ==
  \E k \in DOMAIN Diff : ~Diff[k].binary /\ Diff[k].new = i.file /\
    \E n \in DOMAIN Diff[k].hunks : LET h == Diff[k].hunks[n] IN
      \E op \in DOMAIN h.ops :
        /\ h.ops[op] # "-"
        /\ i.line = h.start + Cardinality({p \in 1 .. op - 1 : h.ops[p] # "-"})
=============================================================================
