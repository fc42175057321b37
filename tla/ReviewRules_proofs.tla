-------------------------- MODULE ReviewRules_proofs --------------------------
(***************************************************************************)
(* What the Writer publishes is what the filters leave, on lines the diff  *)
(* has, in a state the issues deserve: for every output and every diff.    *)
(***************************************************************************)
EXTENDS ReviewRules, FiniteSetTheorems, WellFoundedInduction, TLAPS

\* A set of numbers that is not empty has a least one.
LEMMA Least ==
  ASSUME NEW S \in SUBSET Nat, S # {}
  PROVE  \E m \in S : \A n \in S : m <= n
<1> DEFINE R == OpToRel(<, Nat)
<1>1. IsWellFoundedOn(R, Nat)
  BY NatLessThanWellFounded
<1>2. \E x \in S : \A y \in S : ~(<<y, x>> \in R)
  <2> HIDE DEF R
  <2> QED BY <1>1, WFMin
<1>3. \A x, y \in Nat : y < x => <<y, x>> \in R
  BY DEF OpToRel
<1> HIDE DEF R
<1>4. PICK m \in S : \A y \in S : ~(<<y, m>> \in R)
  BY <1>2
<1>5. ASSUME NEW n \in S PROVE m <= n
  <2>1. ~(n < m)
    BY <1>3, <1>4
  <2>2. m \in Nat /\ n \in Nat
    OBVIOUS
  <2> QED BY <2>1, <2>2
<1> QED BY <1>5

\* The k-th element of a set of positions: counting them up to the end passes
\* every number on the way.
LEMMA Nth ==
  ASSUME NEW n \in Nat, NEW S \in SUBSET (1 .. n), NEW k \in Nat, k < Cardinality(S)
  PROVE  \E op \in S : Cardinality({p \in S : p < op}) = k
<1> DEFINE Upto(m) == {p \in S : p <= m}
           Passed == {m \in 0 .. n : Cardinality(Upto(m)) > k}
<1>1. IsFiniteSet(S) /\ S \subseteq 1 .. n /\ S \subseteq Nat
  <2>1. IsFiniteSet(1 .. n)
    BY FS_Interval
  <2>2. IsFiniteSet(S)
    BY <2>1, FS_Subset
  <2> QED BY <2>2
<1>2. \A m \in Nat : Upto(m) \subseteq S /\ \A p \in S : p \in Upto(m) <=> p <= m
  OBVIOUS
<1>3. \A m \in Nat : {p \in S : p < m} \subseteq S /\ \A p \in S : p \in {q \in S : q < m} <=> p < m
  OBVIOUS
<1>4. \A m : m \in Passed <=> m \in 0 .. n /\ Cardinality(Upto(m)) > k
  OBVIOUS
<1> HIDE DEF Upto, Passed
<1>5. ASSUME NEW m \in Nat PROVE IsFiniteSet(Upto(m)) /\ Cardinality(Upto(m)) \in Nat
  <2>1. Upto(m) \subseteq S
    BY <1>2
  <2>2. IsFiniteSet(Upto(m))
    BY <1>1, <2>1, FS_Subset
  <2> QED BY <2>2, FS_CardinalityType
<1>6. n \in Passed
  <2>1. \A p \in S : p <= n
    BY <1>1
  <2>2. Upto(n) = S
    BY <1>2, <2>1
  <2> QED BY <1>4, <2>2
<1>7. PICK m \in Passed : \A l \in Passed : m <= l
  <2>1. Passed \in SUBSET Nat /\ Passed # {}
    BY <1>4, <1>6
  <2> QED BY <2>1, Least
<1>8. m \in Nat /\ m <= n /\ Cardinality(Upto(m)) > k
  BY <1>4
<1>9. m # 0
  <2>1. \A p \in S : p > 0
    BY <1>1
  <2>2. Upto(0) = {}
    <3>1. SUFFICES ASSUME NEW p \in Upto(0) PROVE FALSE
      OBVIOUS
    <3>2. p \in S /\ p <= 0
      BY <1>2
    <3>3. p > 0 /\ p \in Nat
      BY <1>1, <2>1, <3>2
    <3> QED BY <3>2, <3>3
  <2>3. Cardinality(Upto(0)) = 0
    BY <2>2, FS_EmptySet
  <2> QED BY <1>8, <2>3
<1>10. m - 1 \in Nat /\ m - 1 \in 0 .. n
  BY <1>8, <1>9
<1>11. m - 1 \notin Passed
  <2>1. ~(m <= m - 1)
    BY <1>8
  <2> QED BY <1>7, <2>1
<1>12. Cardinality(Upto(m - 1)) <= k /\ Cardinality(Upto(m - 1)) \in Nat
  <2>1. Cardinality(Upto(m - 1)) \in Nat
    BY <1>5, <1>10
  <2>2. ~(Cardinality(Upto(m - 1)) > k)
    BY <1>4, <1>10, <1>11
  <2> QED BY <2>1, <2>2
<1>13. \A p \in S : p <= m <=> p <= m - 1 \/ p = m
  BY <1>1, <1>8
<1>14. m \in S
  <2>1. SUFFICES ASSUME m \notin S PROVE Upto(m) = Upto(m - 1)
    BY <1>8, <1>12
  <2>2. \A p \in S : p <= m <=> p <= m - 1
    BY <1>13, <2>1
  <2> QED BY <1>2, <1>8, <1>10, <2>2
<1>15. Upto(m) = Upto(m - 1) \cup {m} /\ m \notin Upto(m - 1)
  <2>1. ~(m <= m - 1)
    BY <1>8
  <2> QED BY <1>2, <1>8, <1>10, <1>13, <1>14, <2>1
<1>16. Cardinality(Upto(m)) = Cardinality(Upto(m - 1)) + 1
  BY <1>5, <1>10, <1>15, FS_AddElement
<1>17. Cardinality(Upto(m - 1)) = k
  BY <1>8, <1>12, <1>16
<1>18. {p \in S : p < m} = Upto(m - 1)
  <2>1. \A p \in S : p < m <=> p <= m - 1
    BY <1>1, <1>8
  <2> QED BY <1>2, <1>3, <1>8, <1>10, <2>1
<1> QED BY <1>14, <1>17, <1>18

\* MapLine finds nothing but lines that a hunk has in the new file.
LEMMA MappedIsInDiff ==
  ASSUME NEW i, i.line \in Nat, MapLine(i.file, i.line)
  PROVE  InDiff(i)
<1>1. PICK k \in DOMAIN Diff :
        /\ ~Diff[k].binary /\ Diff[k].new # Null /\ Diff[k].new = i.file
        /\ \E n \in DOMAIN Diff[k].hunks :
             LET h == Diff[k].hunks[n]
                 kept == {p \in DOMAIN h.ops : h.ops[p] # "-"}
             IN Cardinality(kept) > 0 /\ i.line \in h.start .. h.start + Cardinality(kept) - 1
  <2> DEFINE Kept(h) == {p \in DOMAIN h.ops : h.ops[p] # "-"}
             Parsed(k) == [name   |-> IF Diff[k].new = Null THEN Diff[k].old ELSE Diff[k].new,
                           delete |-> Diff[k].new = Null,
                           hunks  |-> [n \in DOMAIN Diff[k].hunks |->
                             [newStart |-> Diff[k].hunks[n].start,
                              newCount |-> Cardinality(Kept(Diff[k].hunks[n]))]]]
  <2>1. ParseDiff = {Parsed(k) : k \in {k \in DOMAIN Diff : ~Diff[k].binary}}
    BY DEF ParseDiff
  <2>2. \A k : /\ Parsed(k).delete <=> Diff[k].new = Null
               /\ Diff[k].new # Null => Parsed(k).name = Diff[k].new
               /\ DOMAIN Parsed(k).hunks = DOMAIN Diff[k].hunks
               /\ \A n \in DOMAIN Diff[k].hunks :
                    /\ Parsed(k).hunks[n].newStart = Diff[k].hunks[n].start
                    /\ Parsed(k).hunks[n].newCount = Cardinality(Kept(Diff[k].hunks[n]))
    <3> HIDE DEF Kept
    <3> QED OBVIOUS
  <2> HIDE DEF Parsed, Kept
  <2>3. PICK k \in DOMAIN Diff :
          /\ ~Diff[k].binary /\ Parsed(k).name = i.file /\ ~Parsed(k).delete
          /\ \E n \in DOMAIN Parsed(k).hunks :
               LET h == Parsed(k).hunks[n]
               IN h.newCount > 0 /\ i.line \in h.newStart .. h.newStart + h.newCount - 1
    BY <2>1 DEF MapLine
  <2>4. \E n \in DOMAIN Diff[k].hunks :
          /\ Cardinality(Kept(Diff[k].hunks[n])) > 0
          /\ i.line \in Diff[k].hunks[n].start ..
                          Diff[k].hunks[n].start + Cardinality(Kept(Diff[k].hunks[n])) - 1
    BY <2>2, <2>3
  <2>5. Diff[k].new # Null /\ Diff[k].new = i.file
    BY <2>2, <2>3
  <2> QED BY <2>3, <2>4, <2>5 DEF Kept
<1>2. PICK n \in DOMAIN Diff[k].hunks :
        LET h == Diff[k].hunks[n]
            kept == {p \in DOMAIN h.ops : h.ops[p] # "-"}
        IN Cardinality(kept) > 0 /\ i.line \in h.start .. h.start + Cardinality(kept) - 1
  BY <1>1
<1> DEFINE h == Diff[k].hunks[n]
           kept == {p \in DOMAIN h.ops : h.ops[p] # "-"}
<1>3. Cardinality(kept) > 0 /\ i.line \in h.start .. h.start + Cardinality(kept) - 1
  BY <1>2
<1>4. h.start \in Nat /\ h.ops \in Seq({"=", "+", "-"})
  BY DiffAssumption
<1>5. Len(h.ops) \in Nat /\ DOMAIN h.ops = 1 .. Len(h.ops)
  BY <1>4
<1>6. kept \in SUBSET (1 .. Len(h.ops)) /\ Cardinality(kept) \in Nat
  <2>1. kept \in SUBSET (1 .. Len(h.ops))
    BY <1>5
  <2>2. IsFiniteSet(1 .. Len(h.ops))
    BY <1>5, FS_Interval
  <2> HIDE DEF h, kept
  <2>3. IsFiniteSet(kept)
    BY <2>1, <2>2, FS_Subset
  <2> QED BY <2>1, <2>3, FS_CardinalityType
<1>7. PICK op \in kept : Cardinality({p \in kept : p < op}) = i.line - h.start
  <2>1. i.line - h.start \in Nat /\ i.line - h.start < Cardinality(kept)
    <3> HIDE DEF h, kept
    <3> QED BY <1>3, <1>4, <1>6
  <2> HIDE DEF h, kept
  <2> QED BY <1>5, <1>6, <2>1, Nth
<1>8. op \in DOMAIN h.ops /\ h.ops[op] # "-" /\ op \in 1 .. Len(h.ops)
  BY <1>5
<1>9. {p \in kept : p < op} = {p \in 1 .. op - 1 : h.ops[p] # "-"}
  BY <1>5, <1>8
<1>10. i.line = h.start + Cardinality({p \in 1 .. op - 1 : h.ops[p] # "-"})
  <2>1. Cardinality({p \in 1 .. op - 1 : h.ops[p] # "-"}) = i.line - h.start
    BY <1>7, <1>9
  <2> QED BY <1>4, <2>1
<1> QED BY <1>1, <1>8, <1>10 DEF InDiff

\* FilterIssues leaves what the threshold and the ignored files let through.
LEMMA FiltersLetThrough ==
  ASSUME NEW o \in DOMAIN Outputs
  PROVE  FilterIssues(Outputs[o]) = LetThrough(Outputs[o])
<1> DEFINE Grave(s, v) ==
             CASE v = "critical" -> s = "critical"
               [] v = "error" -> s \in {"critical", "error"}
               [] v = "warning" -> s \in {"critical", "error", "warning"}
               [] v \in {"info", "none"} -> TRUE
<1>1. /\ Rank["critical"] = 3 /\ Rank["error"] = 2 /\ Rank["warning"] = 1
      /\ Rank["info"] = 0 /\ Rank["grave"] = 0 /\ Rank["none"] = 0
  BY DEF Rank
<1>2. ASSUME NEW s \in Severities, NEW v \in {"critical", "error", "warning", "info", "none"}
      PROVE  Rank[s] >= Rank[v] <=> Grave(s, v)
  <2>1. Rank[s] \in Nat /\ Rank[s] <= 3 /\ (Rank[s] = 3 <=> s = "critical")
        /\ (Rank[s] >= 2 <=> s \in {"critical", "error"})
        /\ (Rank[s] >= 1 <=> s \in {"critical", "error", "warning"})
    BY <1>1 DEF Severities
  <2>2. CASE v = "critical"
    BY <1>1, <2>1, <2>2
  <2>3. CASE v = "error"
    BY <1>1, <2>1, <2>3
  <2>4. CASE v = "warning"
    BY <1>1, <2>1, <2>4
  <2>5. CASE v \in {"info", "none"}
    <3>1. Rank[v] = 0 /\ v \notin {"critical", "error", "warning"}
      BY <1>1, <2>5
    <3>2. Rank[s] >= Rank[v]
      BY <2>1, <3>1
    <3> QED BY <2>5, <3>1, <3>2
  <2> QED BY <2>2, <2>3, <2>4, <2>5
<1>3. Outputs[o].severity \in {"critical", "error", "warning", "info", "none"}
      /\ \A i \in Outputs[o].issues : i.severity \in Severities
  BY OutputsAssumption
<1> HIDE DEF Grave
<1>4. \A i \in Outputs[o].issues :
        Rank[i.severity] >= Rank[Outputs[o].severity] <=> Grave(i.severity, Outputs[o].severity)
  BY <1>2, <1>3
<1>5. FilterIssues(Outputs[o]) =
        {i \in Outputs[o].issues : /\ i.file = NoFile \/ i.file \notin Outputs[o].ignore
                                   /\ Grave(i.severity, Outputs[o].severity)}
  BY <1>4 DEF FilterIssues, MatchesIgnorePattern
<1> QED BY <1>5 DEF Grave, LetThrough

\* A review approves only what the model approved, and nothing severe that is shown.
LEMMA ApprovalIsDeserved ==
  ASSUME NEW o \in DOMAIN Outputs, ReviewState(Outputs[o]) = "APPROVED"
  PROVE  Outputs[o].verdict = "approve" /\ ~Severe(FilterIssues(Outputs[o]))
<1> DEFINE output == Outputs[o]
<1>1. output.verdict \in {"approve", "request_changes", "comment", "none"}
  BY OutputsAssumption
<1>2. \A v \in {"approve", "request_changes", "comment", "none"} :
        StateOf(v) = "APPROVED" <=> v = "approve"
  BY DEF StateOf, State
<1> HIDE DEF output
<1>3. CASE FilterIssues(output) = output.issues
  BY <1>1, <1>2, <1>3 DEF ReviewState, FilteredVerdict, output
<1>4. CASE FilterIssues(output) # output.issues
  <2>1. StateOf(RecalcVerdict(FilterIssues(output), output.verdict)) = "APPROVED"
    BY <1>4 DEF ReviewState, FilteredVerdict, output
  <2>2. RecalcVerdict(FilterIssues(output), output.verdict) \in
          {"approve", "request_changes", "comment", "none"}
    BY <1>1 DEF RecalcVerdict
  <2>3. RecalcVerdict(FilterIssues(output), output.verdict) = "approve"
    BY <1>2, <2>1, <2>2
  <2> QED BY <2>3 DEF RecalcVerdict, output
<1> QED BY <1>3, <1>4 DEF output

\* The loop starts a repair only of a review that asks for changes on Gitea as well.
LEMMA RepairIsShown ==
  ASSUME NEW o \in DOMAIN Outputs, Loop(o) = "repair"
  PROVE  ReviewState(Outputs[o]) = "REQUEST_CHANGES"
<1>1. Outputs[o].verdict = "request_changes" /\ FilteredVerdict(Outputs[o]) = "request_changes"
  BY DEF Loop
<1>2. StateOf("request_changes") = "REQUEST_CHANGES"
  BY DEF StateOf, State
<1> QED BY <1>1, <1>2 DEF ReviewState

\* A published review shows exactly the issues the filters let through, each once, on
\* lines of the diff or in the body; what it approves deserves it (writeback.go:83-216,
\* filter.go:86-135, diff.go:40-160).
THEOREM PublishedAsFiltered ==
  ASSUME NEW o \in DOMAIN Outputs, NEW diff \in BOOLEAN
  PROVE  LET shown == Published(o, diff) IN
           /\ shown.of = o
           /\ shown.comments \cap shown.body = {}
           /\ shown.comments \cup shown.body = LetThrough(Outputs[o])
           /\ \A i \in shown.comments : InDiff(i)
           /\ shown.state = "APPROVED" =>
                Outputs[o].verdict = "approve" /\ ~Severe(shown.comments \cup shown.body)
<1> DEFINE shown == Published(o, diff)
<1>1. /\ shown.of = o /\ shown.state = ReviewState(Outputs[o])
      /\ shown.comments = Mapped(Outputs[o], diff) \cap FilterIssues(Outputs[o])
      /\ shown.body = FilterIssues(Outputs[o]) \ Mapped(Outputs[o], diff)
  BY DEF Published
<1> HIDE DEF shown
<1>2. shown.comments \cap shown.body = {}
  BY <1>1
<1>3. shown.comments \cup shown.body = FilterIssues(Outputs[o])
  BY <1>1
<1>4. ASSUME NEW i \in shown.comments PROVE InDiff(i)
  <2>1. i \in Outputs[o].issues /\ MapLine(i.file, i.line)
    BY <1>1 DEF Mapped
  <2>2. i.line \in Nat
    BY <2>1, OutputsAssumption
  <2> QED BY <2>1, <2>2, MappedIsInDiff
<1>5. shown.state = "APPROVED" =>
        Outputs[o].verdict = "approve" /\ ~Severe(shown.comments \cup shown.body)
  BY <1>1, <1>3, ApprovalIsDeserved
<1> QED BY <1>1, <1>2, <1>3, <1>4, <1>5, FiltersLetThrough DEF shown
===============================================================================
