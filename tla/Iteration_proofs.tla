--------------------------- MODULE Iteration_proofs ---------------------------
(***************************************************************************)
(* Theorems about Iteration, for any number of reviews, sessions, rounds,  *)
(* attempts and faults: of the loop as it runs when a round gets its task  *)
(* and a container outlasts the handlers before it.                        *)
(***************************************************************************)
EXTENDS Iteration, FiniteSetTheorems, SequenceTheorems, TLAPS

\* The two statements that give a round its task are carried out, and nobody
\* finishes in the few statements an earlier handler has still to execute.
Undisturbed == Prompt /\ "enqueue" \notin Fails /\ "record" \notin Fails

USE IterationAssumption

LEMMA Ids ==
  /\ Cardinality(Reviews) \in Nat /\ Reviews \subseteq Nat \ {0}
  /\ \A r \in Reviews : r <= Cardinality(Reviews)
  /\ \A r \in Reviews, n \in Nat \ {0} : n <= r => n \in Reviews
  /\ Sessions \subseteq Nat \ {0}
  /\ MaxAttempts \in Nat \ {0} /\ MaxRounds \in Nat \ {0} /\ MaxFaults \in Nat
<1>1. Cardinality(Reviews) \in Nat /\ Cardinality(Sessions) \in Nat
  BY FS_CardinalityType DEF IterationAssumption
<1> QED BY <1>1, IterationAssumption DEF IterationAssumption

-----------------------------------------------------------------------------
(***************************************************************************)
(* The inductive invariant.                                                *)
(***************************************************************************)
\* A review whose handler has the loop to see to, and one that has not created
\* its round yet.
Busy == ReviewPC \ {"none", "review", "over"}
Early == ReviewPC \ {"enqueue", "record", "over"}
Recording == {"enqueue", "record"}

\* One review sees to the loop at a time, and those to come were asked for later.
OneBusy == \A r, x \in Reviews : review[r].pc \in Busy /\ review[x].pc \in Busy => r = x
Order == \A r, x \in Reviews :
  /\ review[r].pc \in Busy /\ review[x].pc \in {"none", "review"} => r < x
  /\ review[r].pc = "review" /\ review[x].pc = "none" => r < x
  /\ review[r].pc = "review" /\ review[x].pc = "review" => r = x

\* So there is room for the round a review has yet to create.
Room == \A r \in Reviews, s \in Sessions : review[r].pc \in Early => Len(round[s]) < r

OneActive == \A s, k \in Active : s = k

\* The task of a round and its handler.
Ended == {"succeeded", "failed", "cancelled"}
\* Its row has not said yet that it is over.
Live(x) == x.status # "none" /\ ~x.over

FixOne(x) ==
  /\ x.status = "none" => x = NoFix
  /\ x.status \in {"queued", "retrying"} => x.pc = "idle"
  /\ x.pc = "idle" /\ x.status # "cancelled" => ~x.ctx
  /\ x.status = "running" => x.pc \in {"idle", "exec", "final"} /\ ~x.ctx
  /\ x.pc = "exec" => x.status = "running" \/ (x.status = "cancelled" /\ x.ctx)
  /\ x.pc = "final" => x.status \in {"running", "cancelled"}
  /\ x.pc \in {"final", "round", "find", "session"} => x.end # "none"
  /\ x.pc = "session" => x.copy \in ActiveStatus
  /\ x.status \in Ended => x.over

\* A live one is that of the last round, which is open, of an active session.
FixRow(x, f, rows, status) ==
  /\ x.status # "none" => f[2] <= Len(rows)
  /\ Live(x) => f[2] = Len(rows) /\ ~rows[f[2]].done /\ status \in ActiveStatus

FixesOK == \A f \in Fixes : FixOne(fix[f]) /\ FixRow(fix[f], f, round[f[1]], session[f[1]])

\* Only the last round may be open, and it has its task, or is about to get it.
RowsOK == \A s \in Sessions : \A n \in 1 .. Len(round[s]) : ~round[s][n].done =>
  /\ n = Len(round[s])
  /\ \/ round[s][n].task
     \/ \E r \in Reviews : review[r].pc \in Recording /\ review[r].s = s

AllDone(rows) == \A n \in 1 .. Len(rows) : rows[n].done
Counted(rows) == Cardinality({n \in DOMAIN rows : ~rows[n].recovery})

\* What the handler of a review knows of the session, its rows and their tasks.
ReviewOne(q, rows, status, tasks) ==
  /\ q.pc \in Busy \ {"find", "active"} => q.s \in Sessions
  /\ q.pc \in {"latest", "heal", "healRound", "healSession"} => q.copy \in ActiveStatus
  /\ q.pc \in {"heal", "healRound", "healSession", "wait", "count", "conclude", "fixing"} =>
       q.n = Len(rows[q.s])
  /\ q.pc \in {"heal", "healRound", "wait"} => q.n > 0
  /\ q.pc \in {"heal", "healRound"} => q.last.recovery = rows[q.s][q.n].recovery
  /\ q.pc = "healRound" => q.last.done /\ tasks[<<q.s, q.n>>].over
  /\ q.pc \in {"healSession", "count", "conclude", "fixing", "create"} => AllDone(rows[q.s])
  /\ q.pc \in {"fixing", "create"} =>
       ~q.last.done /\ (q.last.recovery \/ Counted(rows[q.s]) < MaxRounds)
  /\ q.pc = "create" => q.n = Len(rows[q.s]) + 1
  /\ q.pc \in {"create", "enqueue", "record"} => status[q.s] \in ActiveStatus
  /\ q.pc \in Recording =>
       q.n = Len(rows[q.s]) /\ q.n > 0 /\ rows[q.s][q.n] = q.last /\ ~q.last.done
  /\ q.pc = "enqueue" => tasks[<<q.s, q.n>>].status = "none"
  /\ q.pc = "record" => /\ tasks[<<q.s, q.n>>].status \in {"queued", "running", "cancelled"}
                        /\ tasks[<<q.s, q.n>>].pc \in {"idle", "exec"}

ReviewsOK == \A r \in Reviews : ReviewOne(review[r], round, session, fix)

\* What RepairIsSettled needs.
SettledOK == faults = 0 => \A f \in Fixes :
  fix[f].status \in {"succeeded", "failed"} /\ fix[f].pc # "round" => round[f[1]][f[2]].done

IInv == /\ TypeOK /\ OneBusy /\ Order /\ Room /\ OneActive /\ FixesOK /\ RowsOK /\ ReviewsOK
        /\ SettledOK

-----------------------------------------------------------------------------
LEMMA IInvInit == Init => IInv
<1> SUFFICES ASSUME Init PROVE IInv
  OBVIOUS
<1>1. TypeOK
  BY Ids DEF Init, TypeOK, Session, NoSession, Fix, NoFix, FixStatus, FixPC, Review, NoReview,
             ReviewPC, Round, NoRound
<1>2. /\ \A r \in Reviews : review[r].pc = "none"
      /\ \A s \in Sessions : Len(round[s]) = 0
  BY DEF Init, NoReview
<1>3. OneBusy /\ Order /\ Room
  <2>1. \A r \in Reviews : r \in Nat \ {0}
    BY Ids
  <2>2. "none" \notin Busy /\ "review" # "none"
    BY DEF Busy
  <2> QED BY <1>2, <2>1, <2>2 DEF OneBusy, Order, Room
<1>4. OneActive
  BY DEF Init, OneActive, Active, ActiveStatus, NoSession
<1>5. FixesOK
  BY DEF Init, FixesOK, FixOne, FixRow, NoFix, Live, Ended
<1>6. RowsOK
  BY <1>2 DEF RowsOK
<1>7. ReviewsOK
  BY <1>2 DEF ReviewsOK, ReviewOne, Busy, Recording
<1>8. SettledOK
  BY DEF Init, SettledOK, NoFix
<1> QED BY <1>1, <1>3, <1>4, <1>5, <1>6, <1>7, <1>8 DEF IInv

-----------------------------------------------------------------------------
(***************************************************************************)
(* A step of the review that sees to the loop.                             *)
(***************************************************************************)
Becomes(r, q) == review' = [review EXCEPT ![r] = q]

\* The others wait; and so they do after it.
LEMMA ReviewMoves ==
  ASSUME IInv, NEW r \in Reviews, review[r].pc \in Busy, NEW q \in Review, Becomes(r, q),
         q.pc \in Busy \cup {"over"}, q.pc \in Early => review[r].pc \in Early
  PROVE  /\ review' \in [Reviews -> Review] /\ OneBusy' /\ Order'
         /\ review'[r] = q
         /\ \A x \in Reviews \ {r} : review'[x] = review[x] /\ review[x].pc \notin Busy
         /\ (\A s \in Sessions : Len(round'[s]) = Len(round[s])) => Room'
<1>1. review \in [Reviews -> Review] /\ OneBusy /\ Order /\ Room
  BY DEF IInv, TypeOK
<1>2. /\ review' \in [Reviews -> Review] /\ review'[r] = q
      /\ \A x \in Reviews \ {r} : review'[x] = review[x]
  BY <1>1 DEF Becomes
<1>3. \A x \in Reviews \ {r} : review[x].pc \notin Busy
  BY <1>1 DEF OneBusy
<1>4. "over" \notin Busy /\ "over" \notin Early /\ "none" \notin Busy /\ "review" \notin Busy
  BY DEF Busy, Early
<1>5. q.pc \notin {"none", "review"}
  BY <1>4
<1>6. OneBusy'
  BY <1>2, <1>3 DEF OneBusy
<1>7. Order'
  BY <1>1, <1>2, <1>3, <1>5 DEF Order
<1>8. ASSUME \A s \in Sessions : Len(round'[s]) = Len(round[s]) PROVE Room'
  BY <1>1, <1>2, <1>8 DEF Room
<1> QED BY <1>2, <1>3, <1>6, <1>7, <1>8

\* Then what the others know is nothing.
LEMMA ReviewsStay ==
  ASSUME NEW r \in Reviews, NEW q, review'[r] = q, ReviewOne(q, round', session', fix'),
         \A x \in Reviews \ {r} : review'[x] = review[x] /\ review[x].pc \notin Busy
  PROVE  ReviewsOK'
<1>1. \A x : x.pc \notin Busy => ReviewOne(x, round', session', fix')
  BY DEF ReviewOne, Busy, Recording, ReviewPC
<1> QED BY <1>1 DEF ReviewsOK

\* A step that leaves the rounds and their tasks alone.
LEMMA ReviewSession ==
  ASSUME IInv, NEW r \in Reviews, review[r].pc \in Busy \ Recording, NEW q \in Review,
         Becomes(r, q), q.pc \in Busy \cup {"over"}, q.pc \in Early => review[r].pc \in Early,
         UNCHANGED <<round, fix>>, session' \in [Sessions -> Session], OneActive',
         \A f \in Fixes : Live(fix[f]) => session'[f[1]] \in ActiveStatus,
         faults' \in 0 .. MaxFaults, faults <= faults', ReviewOne(q, round, session', fix)
  PROVE  IInv'
<1>1. /\ review' \in [Reviews -> Review] /\ OneBusy' /\ Order'
      /\ review'[r] = q
      /\ \A x \in Reviews \ {r} : review'[x] = review[x] /\ review[x].pc \notin Busy
      /\ (\A s \in Sessions : Len(round'[s]) = Len(round[s])) => Room'
  BY ReviewMoves
<1>2. Room'
  BY <1>1
<1>3. TypeOK'
  BY <1>1 DEF IInv, TypeOK
<1>4. FixesOK'
  BY DEF IInv, FixesOK, FixRow
<1>5. RowsOK'
  <2> SUFFICES ASSUME NEW s \in Sessions, NEW n \in 1 .. Len(round[s]), ~round[s][n].done
               PROVE  /\ n = Len(round[s])
                      /\ \/ round[s][n].task
                         \/ \E x \in Reviews : review'[x].pc \in Recording /\ review'[x].s = s
    BY DEF RowsOK
  <2>1. /\ n = Len(round[s])
        /\ \/ round[s][n].task
           \/ \E x \in Reviews : review[x].pc \in Recording /\ review[x].s = s
    BY DEF IInv, RowsOK
  <2>2. \A x \in Reviews : review[x].pc \in Recording => x # r /\ review'[x] = review[x]
    BY <1>1
  <2> QED BY <2>1, <2>2
<1>6. ReviewsOK'
  <2>1. ReviewOne(q, round', session', fix')
    OBVIOUS
  <2> QED BY <1>1, <2>1, ReviewsStay
<1>7. SettledOK'
  <2>1. faults' = 0 => faults = 0
    BY Ids DEF IInv, TypeOK
  <2> QED BY <2>1 DEF IInv, SettledOK
<1> QED BY <1>1, <1>2, <1>3, <1>4, <1>5, <1>6, <1>7 DEF IInv

LEMMA QuietStep ==
  ASSUME IInv, NEW r \in Reviews, review[r].pc \in Busy \ Recording, NEW q \in Review,
         Becomes(r, q), q.pc \in Busy \cup {"over"}, q.pc \in Early => review[r].pc \in Early,
         UNCHANGED <<session, round, fix>>,
         faults' \in 0 .. MaxFaults, faults <= faults', ReviewOne(q, round, session, fix)
  PROVE  IInv'
<1>1. session' \in [Sessions -> Session] /\ OneActive'
  BY DEF IInv, TypeOK, OneActive, Active
<1>2. \A f \in Fixes : Live(fix[f]) => session'[f[1]] \in ActiveStatus
  BY DEF IInv, FixesOK, FixRow
<1>3. ReviewOne(q, round, session', fix)
  OBVIOUS
<1> QED BY <1>1, <1>2, <1>3, ReviewSession

\* What is over knows nothing.
LEMMA OverReview ==
  LET q == [NoReview EXCEPT !.pc = "over"] IN
  /\ q \in Review /\ q.pc = "over"
  /\ \A rows, status, tasks : ReviewOne(q, rows, status, tasks)
<1> DEFINE q == [NoReview EXCEPT !.pc = "over"]
<1>1. q \in Review /\ q.pc = "over"
  <2>1. NoRound \in Round /\ NoSession \in Session /\ "over" \in ReviewPC
    BY DEF Session, NoSession, Round, NoRound, ReviewPC
  <2>2. q = [pc |-> "over", s |-> 0, copy |-> NoSession, n |-> 0, last |-> NoRound,
             verdict |-> "none"]
    BY DEF NoReview
  <2> QED BY <2>1, <2>2 DEF Review
<1> HIDE DEF q
<1>2. \A rows, status, tasks : ReviewOne(q, rows, status, tasks)
  BY <1>1 DEF ReviewOne, Busy, Recording
<1> QED BY <1>1, <1>2 DEF q

\* A handler that stops, with or without a statement that fails.
LEMMA OverStep ==
  ASSUME IInv, NEW r \in Reviews, review[r].pc \in Busy \ Recording, Over(r),
         UNCHANGED <<session, round, fix>>, faults' \in 0 .. MaxFaults, faults <= faults'
  PROVE  IInv'
<1> DEFINE q == [NoReview EXCEPT !.pc = "over"]
<1>1. q \in Review /\ q.pc = "over" /\ ReviewOne(q, round, session, fix)
  BY OverReview
<1>2. Becomes(r, q)
  BY DEF Over, Becomes
<1>3. q.pc \in Busy \cup {"over"} /\ q.pc \notin Early
  BY <1>1 DEF Early
<1> HIDE DEF q
<1> QED BY <1>1, <1>2, <1>3, QuietStep

\* What is known at a step of a review.
LEMMA AtReview ==
  ASSUME IInv, NEW r \in Reviews
  PROVE  /\ review[r] \in Review /\ ReviewOne(review[r], round, session, fix)
         /\ review \in [Reviews -> Review] /\ session \in [Sessions -> Session]
         /\ DOMAIN round = Sessions /\ \A s \in Sessions : round[s] \in Seq(Round)
         /\ faults \in 0 .. MaxFaults
BY DEF IInv, TypeOK, ReviewsOK

LEMMA FaultTypes ==
  ASSUME faults \in 0 .. MaxFaults, NEW pc, Fault(pc) \/ NoFault
  PROVE  faults' \in 0 .. MaxFaults /\ faults <= faults'
BY Ids DEF Fault, NoFault

-----------------------------------------------------------------------------
(***************************************************************************)
(* The steps of a review that leave rounds and tasks alone.                *)
(***************************************************************************)
LEMMA StatusTypes ==
  /\ ActiveStatus \subseteq Session /\ "idle" \in ActiveStatus /\ "fixing" \in ActiveStatus
  /\ "completed" \notin ActiveStatus /\ "exhausted" \notin ActiveStatus
  /\ "completed" \in Session /\ "exhausted" \in Session /\ NoSession \in Session
  /\ \A row \in ActiveStatus : Repaired(row) \in ActiveStatus
  /\ FailedSession \in ActiveStatus
BY DEF ActiveStatus, Session, NoSession, Repaired, FailedSession

\* A session that is written is active only if no other one is.
LEMMA WrittenSession ==
  ASSUME IInv, NEW s \in Sessions, NEW row \in Session, WriteSession(s, row)
  PROVE  /\ session' \in [Sessions -> Session] /\ OneActive'
         /\ session'[s] = row /\ \A k \in Sessions : k # s => session'[k] = session[k]
<1>1. session \in [Sessions -> Session] /\ OneActive
  BY DEF IInv, TypeOK
<1>2. /\ session' \in [Sessions -> Session]
      /\ session'[s] = row /\ \A k \in Sessions : k # s => session'[k] = session[k]
  BY <1>1 DEF WriteSession
<1>3. row \in ActiveStatus => Active \ {s} = {}
  BY DEF WriteSession, Refused
<1>4. OneActive'
  BY <1>1, <1>2, <1>3 DEF OneActive, Active
<1> QED BY <1>2, <1>4

LEMMA GoesTo ==
  ASSUME review \in [Reviews -> Review], NEW r \in Reviews, NEW pc \in ReviewPC, Goes(r, pc)
  PROVE  \E q \in Review : /\ Becomes(r, q) /\ q.pc = pc /\ q.s = review[r].s
                           /\ q.copy = review[r].copy /\ q.n = review[r].n
                           /\ q.last = review[r].last /\ q.verdict = review[r].verdict
<1> DEFINE q == [review[r] EXCEPT !.pc = pc]
<1>1. review[r] \in Review
  OBVIOUS
<1>2. /\ q \in Review /\ q.pc = pc /\ q.s = review[r].s
      /\ q.copy = review[r].copy /\ q.n = review[r].n
      /\ q.last = review[r].last /\ q.verdict = review[r].verdict
  BY <1>1 DEF Review
<1>3. Becomes(r, q)
  BY DEF Goes, Becomes
<1> HIDE DEF q
<1> QED BY <1>2, <1>3

LEMMA WithStep ==
  ASSUME review \in [Reviews -> Review], NEW r \in Reviews, NEW s \in Sessions,
         NEW row \in ActiveStatus, With(r, s, row)
  PROVE  \E q \in Review : /\ Becomes(r, q) /\ q.pc = "latest"
                           /\ \A rows, status, tasks : ReviewOne(q, rows, status, tasks)
<1> DEFINE q == [review[r] EXCEPT !.pc = "latest", !.s = s, !.copy = row]
<1>1. review[r] \in Review /\ row \in Session /\ "latest" \in ReviewPC
  BY StatusTypes DEF ReviewPC
<1>2. q \in Review /\ q.pc = "latest" /\ q.s = s /\ q.copy = row
  BY <1>1 DEF Review
<1>3. Becomes(r, q)
  BY DEF With, Becomes
<1> HIDE DEF q
<1>4. \A rows, status, tasks : ReviewOne(q, rows, status, tasks)
  BY <1>2 DEF ReviewOne, Recording
<1> QED BY <1>2, <1>3, <1>4

LEMMA FindStep ==
  ASSUME IInv, NEW r \in Reviews, FindOrCreate(r) \/ FindActive(r)
  PROVE  IInv'
<1>1. /\ review \in [Reviews -> Review] /\ session \in [Sessions -> Session]
      /\ faults \in 0 .. MaxFaults /\ UNCHANGED <<round, fix, faults>>
  BY AtReview DEF FindOrCreate, FindActive
<1>2. /\ review[r].pc \in Busy \ Recording /\ review[r].pc \in Early
      /\ "latest" \in Busy
  BY DEF FindOrCreate, FindActive, ReviewAt, Busy, Early, Recording, ReviewPC
<1>3. ASSUME NEW s \in Active, With(r, s, session[s]), UNCHANGED session PROVE IInv'
  <2>1. s \in Sessions /\ session[s] \in ActiveStatus
    BY DEF Active
  <2>2. PICK q \in Review : /\ Becomes(r, q) /\ q.pc = "latest"
                            /\ \A rows, status, tasks : ReviewOne(q, rows, status, tasks)
    BY <1>1, <1>3, <2>1, WithStep
  <2> QED BY <1>1, <1>2, <1>3, <2>2, QuietStep
<1>4. ASSUME NEW s \in Sessions, Active = {}, session[s] = "none", WriteSession(s, "idle"),
             With(r, s, "idle")
      PROVE  IInv'
  <2>1. PICK q \in Review : /\ Becomes(r, q) /\ q.pc = "latest"
                            /\ \A rows, status, tasks : ReviewOne(q, rows, status, tasks)
    BY <1>1, <1>4, StatusTypes, WithStep
  <2>2. /\ session' \in [Sessions -> Session] /\ OneActive'
        /\ session'[s] = "idle" /\ \A k \in Sessions : k # s => session'[k] = session[k]
    BY <1>4, StatusTypes, WrittenSession
  <2>3. \A f \in Fixes : Live(fix[f]) => session'[f[1]] \in ActiveStatus
    <3>1. \A f \in Fixes : Live(fix[f]) => session[f[1]] \in ActiveStatus /\ f[1] \in Sessions
      BY DEF IInv, FixesOK, FixRow, Fixes
    <3> QED BY <1>4, <2>2, <3>1, StatusTypes
  <2>4. ReviewOne(q, round, session', fix)
    BY <2>1
  <2> QED BY <1>1, <1>2, <2>1, <2>2, <2>3, <2>4, ReviewSession
<1>5. CASE Active = {} /\ Over(r) /\ UNCHANGED session
  BY <1>1, <1>2, <1>5, OverStep
<1> QED BY <1>3, <1>4, <1>5 DEF FindOrCreate, FindActive

\* When the latest round does not hold the review back, all rounds are complete.
LEMMA NothingOpen ==
  ASSUME IInv, NEW r \in Reviews, review[r].pc \in Busy \ Recording, NEW s \in Sessions,
         LET n == Len(round[s]) IN n > 0 => ~Pending(round[s][n])
  PROVE  AllDone(round[s])
<1> SUFFICES ASSUME NEW n \in 1 .. Len(round[s]), ~round[s][n].done PROVE FALSE
  BY DEF AllDone
<1>1. \A x \in Reviews : review[x].pc \notin Recording
  BY DEF IInv, OneBusy, Busy, Recording, ReviewPC
<1>2. n = Len(round[s]) /\ round[s][n].task
  BY <1>1 DEF IInv, RowsOK
<1>3. n > 0
  BY AtReview
<1> QED BY <1>2, <1>3 DEF Pending

LEMMA GetLatestStep ==
  ASSUME IInv, NEW r \in Reviews, GetLatest(r)
  PROVE  IInv'
<1> DEFINE s == review[r].s
           n == Len(round[s])
           row == IF n = 0 THEN NoRound ELSE round[s][n]
           copy == IF Pending(row) THEN review[r].copy ELSE NoSession
           pc == IF Pending(row) THEN "heal" ELSE Through(r)
           q == [review[r] EXCEPT !.n = n, !.last = row, !.copy = copy, !.pc = pc]
<1>1. /\ review \in [Reviews -> Review] /\ review[r] \in Review
      /\ faults \in 0 .. MaxFaults /\ UNCHANGED <<session, round, fix, faults>>
      /\ review[r].pc = "latest"
  BY AtReview DEF GetLatest, ReviewAt
<1>2. /\ review[r].pc \in Busy \ Recording /\ review[r].pc \in Early
  BY <1>1 DEF Busy, Early, Recording, ReviewPC
<1>3. s \in Sessions /\ review[r].copy \in ActiveStatus /\ round[s] \in Seq(Round)
  BY <1>1, AtReview DEF ReviewOne, Busy, ReviewPC
<1>4. n \in Nat /\ n \in {0} \cup Reviews
  <2>1. n \in Nat /\ n < r
    BY <1>2, <1>3 DEF IInv, Room
  <2> QED BY <2>1, Ids
<1>5. row \in Round /\ (Pending(row) => n > 0 /\ row = round[s][n])
  <2>1. n > 0 => round[s][n] \in Round
    BY <1>3, <1>4, ElementOfSeq
  <2> QED BY <1>4, <2>1 DEF Round, NoRound, Pending
<1>6. ~Pending(row) => AllDone(round[s])
  BY <1>2, <1>3, NothingOpen
<1>7. /\ pc \in {"heal", "conclude", "count"} /\ (pc = "heal" <=> Pending(row))
      /\ copy \in Session /\ (Pending(row) => copy \in ActiveStatus)
  BY <1>3, StatusTypes DEF Through
<1>8. Becomes(r, q)
  BY <1>1 DEF GetLatest, Becomes
<1> HIDE DEF copy, pc, row, n
<1>9. q \in Review /\ q.pc = pc /\ q.n = n /\ q.last = row /\ q.copy = copy /\ q.s = s
  <2>1. pc \in ReviewPC
    BY <1>7 DEF ReviewPC
  <2> QED BY <1>1, <1>4, <1>5, <1>7, <2>1 DEF Review
<1>10. q.pc \in Busy \cup {"over"}
  BY <1>7, <1>9 DEF Busy, ReviewPC
<1> HIDE DEF q
<1>11. ReviewOne(q, round, session, fix)
  BY <1>3, <1>5, <1>6, <1>7, <1>9 DEF ReviewOne, Recording, n
<1> QED BY <1>1, <1>2, <1>8, <1>9, <1>10, <1>11, QuietStep

LEMMA HealBlindStep ==
  ASSUME IInv, NEW r \in Reviews, HealBlind(r)
  PROVE  IInv'
<1>1. /\ review \in [Reviews -> Review] /\ ReviewOne(review[r], round, session, fix)
      /\ faults \in 0 .. MaxFaults /\ UNCHANGED <<session, round, fix>>
      /\ review[r].pc = "heal" /\ Fault("heal") /\ Goes(r, "wait")
  BY AtReview DEF HealBlind, ReviewAt
<1>2. /\ review[r].pc \in Busy \ Recording /\ review[r].pc \in Early
      /\ "wait" \in Busy /\ "wait" \in ReviewPC
  BY <1>1 DEF Busy, Early, Recording, ReviewPC
<1>3. PICK q \in Review : /\ Becomes(r, q) /\ q.pc = "wait" /\ q.s = review[r].s
                          /\ q.copy = review[r].copy /\ q.n = review[r].n
                          /\ q.last = review[r].last /\ q.verdict = review[r].verdict
  BY <1>1, <1>2, GoesTo
<1>4. faults' \in 0 .. MaxFaults /\ faults <= faults'
  BY <1>1, FaultTypes
<1>5. ReviewOne(q, round, session, fix)
  BY <1>1, <1>2, <1>3 DEF ReviewOne, Recording
<1> QED BY <1>1, <1>2, <1>3, <1>4, <1>5, QuietStep

LEMMA HealStep ==
  ASSUME IInv, NEW r \in Reviews, Heal(r)
  PROVE  IInv'
<1> DEFINE t == fix[<<review[r].s, review[r].n>>]
<1>1. /\ review \in [Reviews -> Review] /\ ReviewOne(review[r], round, session, fix)
      /\ review[r] \in Review
      /\ faults \in 0 .. MaxFaults /\ UNCHANGED <<session, round, fix, faults>>
      /\ review[r].pc = "heal"
  BY AtReview DEF Heal, ReviewAt
<1>2. /\ review[r].pc \in Busy \ Recording /\ review[r].pc \in Early
      /\ "wait" \in Busy /\ "wait" \in ReviewPC
      /\ "healRound" \in Busy /\ "healRound" \in ReviewPC
  BY <1>1 DEF Busy, Early, Recording, ReviewPC
<1>3. faults' \in 0 .. MaxFaults /\ faults <= faults'
  BY <1>1
<1>4. ASSUME Goes(r, "wait") PROVE IInv'
  <2>1. PICK q \in Review : /\ Becomes(r, q) /\ q.pc = "wait" /\ q.s = review[r].s
                            /\ q.copy = review[r].copy /\ q.n = review[r].n
                            /\ q.last = review[r].last /\ q.verdict = review[r].verdict
    BY <1>1, <1>2, <1>4, GoesTo
  <2>2. ReviewOne(q, round, session, fix)
    BY <1>1, <1>2, <2>1 DEF ReviewOne, Recording
  <2> QED BY <1>1, <1>2, <1>3, <2>1, <2>2, QuietStep
<1>5. t.status \in Ended => t.over
  <2>1. review[r].s \in Sessions /\ review[r].n > 0 /\ review[r].n \in {0} \cup Reviews
    BY <1>1, <1>2 DEF ReviewOne, Review
  <2>2. <<review[r].s, review[r].n>> \in Fixes
    BY <2>1, Ids DEF Fixes
  <2> QED BY <2>2 DEF IInv, FixesOK, FixOne
<1>6. ASSUME NEW fixed \in 0 .. 1, t.over,
             review' = [review EXCEPT ![r].pc = "healRound",
                          ![r].last.done = TRUE, ![r].last.fixed = fixed]
      PROVE  IInv'
  <2> DEFINE last == [review[r].last EXCEPT !.done = TRUE, !.fixed = fixed]
             q == [review[r] EXCEPT !.pc = "healRound", !.last = last]
  <2>1. last \in Round /\ last.done /\ last.recovery = review[r].last.recovery
    <3>1. review[r].last \in Round
      BY <1>1 DEF Review
    <3> QED BY <3>1 DEF Round
  <2>2. Becomes(r, q)
    <3>1. [review EXCEPT ![r].pc = "healRound",
             ![r].last.done = TRUE, ![r].last.fixed = fixed] = [review EXCEPT ![r] = q]
      BY <1>1 DEF Review, Round
    <3> QED BY <1>6, <3>1 DEF Becomes
  <2> HIDE DEF last
  <2>3. /\ q \in Review /\ q.pc = "healRound" /\ q.last = last /\ q.s = review[r].s
        /\ q.n = review[r].n /\ q.copy = review[r].copy
    BY <1>1, <1>2, <2>1 DEF Review
  <2> HIDE DEF q
  <2>4. ReviewOne(q, round, session, fix)
    BY <1>1, <1>2, <1>6, <2>1, <2>3 DEF ReviewOne, Recording
  <2> QED BY <1>1, <1>2, <1>3, <2>2, <2>3, <2>4, QuietStep
<1>7. CASE /\ t.status = "succeeded"
           /\ review' = [review EXCEPT ![r].pc = "healRound",
                           ![r].last.done = TRUE, ![r].last.fixed = 1]
  <2>1. 1 \in 0 .. 1 /\ t.over
    BY <1>7, <1>5 DEF Ended
  <2> QED BY <1>6, <1>7, <2>1
<1>8. CASE /\ t.status \in Terminated
           /\ review' = [review EXCEPT ![r].pc = "healRound",
                           ![r].last.done = TRUE, ![r].last.fixed = 0]
  <2>1. 0 \in 0 .. 1 /\ t.over
    BY <1>8, <1>5 DEF Ended, Terminated
  <2> QED BY <1>6, <1>8, <2>1
<1> QED BY <1>4, <1>7, <1>8 DEF Heal

LEMMA WaitStep ==
  ASSUME IInv, NEW r \in Reviews, Wait(r)
  PROVE  IInv'
<1> DEFINE s == review[r].s
           row == round[s][review[r].n]
<1>1. /\ review \in [Reviews -> Review] /\ ReviewOne(review[r], round, session, fix)
      /\ review[r] \in Review
      /\ faults \in 0 .. MaxFaults /\ UNCHANGED <<session, round, fix, faults>>
      /\ review[r].pc = "wait"
  BY AtReview DEF Wait, ReviewAt
<1>2. review[r].pc \in Busy \ Recording /\ review[r].pc \in Early
  BY <1>1 DEF Busy, Early, Recording, ReviewPC
<1>3. CASE Over(r)
  BY <1>1, <1>2, <1>3, OverStep
<1>4. ASSUME row.done,
             review' = [review EXCEPT ![r].last = row, ![r].copy = NoSession,
                                      ![r].pc = Through(r)]
      PROVE  IInv'
  <2> DEFINE pc == Through(r)
             q == [review[r] EXCEPT !.last = row, !.copy = NoSession, !.pc = pc]
  <2>1. s \in Sessions /\ review[r].n = Len(round[s]) /\ review[r].n > 0
    BY <1>1, <1>2 DEF ReviewOne
  <2>2. round[s] \in Seq(Round)
    BY <2>1, AtReview
  <2>3. row \in Round
    BY <2>1, <2>2, ElementOfSeq
  <2>4. AllDone(round[s])
    BY <1>2, <1>4, <2>1, NothingOpen DEF Pending
  <2>5. pc \in {"conclude", "count"} /\ pc \in ReviewPC /\ pc \in Busy
    BY DEF Through, ReviewPC, Busy
  <2>6. Becomes(r, q)
    BY <1>4 DEF Becomes
  <2> HIDE DEF pc, row
  <2>7. q \in Review /\ q.pc = pc /\ q.last = row /\ q.s = s /\ q.n = review[r].n
    BY <1>1, <2>3, <2>5, StatusTypes DEF Review
  <2> HIDE DEF q
  <2>8. ReviewOne(q, round, session, fix)
    BY <2>1, <2>4, <2>5, <2>7 DEF ReviewOne, Recording
  <2> QED BY <1>1, <1>2, <2>5, <2>6, <2>7, <2>8, QuietStep
<1> QED BY <1>3, <1>4 DEF Wait

LEMMA NewRound ==
  ASSUME NEW b \in BOOLEAN
  PROVE  LET x == [NoRound EXCEPT !.recovery = b] IN x \in Round /\ ~x.done /\ x.recovery = b
<1>1. NoRound \in Round
  BY DEF NoRound, Round
<1>2. CASE b = TRUE
  BY <1>2, <1>1 DEF NoRound, Round
<1>3. CASE b = FALSE
  BY <1>3, <1>1 DEF NoRound, Round
<1> QED BY <1>2, <1>3

LEMMA CountStep ==
  ASSUME IInv, NEW r \in Reviews, Count(r)
  PROVE  IInv'
<1> DEFINE s == review[r].s
<1>1. /\ review \in [Reviews -> Review] /\ ReviewOne(review[r], round, session, fix)
      /\ review[r] \in Review
      /\ faults \in 0 .. MaxFaults /\ UNCHANGED <<session, round, fix>>
      /\ review[r].pc = "count"
  BY AtReview DEF Count, ReviewAt
<1>2. review[r].pc \in Busy \ Recording /\ review[r].pc \in Early
  BY <1>1 DEF Busy, Early, Recording, ReviewPC
<1>3. s \in Sessions /\ review[r].n = Len(round[s]) /\ AllDone(round[s])
  BY <1>1, <1>2 DEF ReviewOne
<1>4. PICK missing \in SUBSET {"task", "results"} :
        LET recovery == /\ "task" \notin missing
                        /\ review[r].last.task /\ fix[<<s, review[r].n>>].status = "failed"
            exhausted == /\ ~recovery
                         /\ \/ CountNonRecovery(s) >= MaxRounds
                            \/ "results" \notin missing /\ NoneFixedTwice(s)
        IN /\ IF missing = {} THEN NoFault ELSE Fault("count")
           /\ review' = [review EXCEPT
                ![r].pc = IF exhausted THEN "conclude" ELSE "fixing",
                ![r].verdict = IF exhausted THEN "exhausted" ELSE @,
                ![r].last = [NoRound EXCEPT !.recovery = recovery]]
  BY DEF Count
<1> DEFINE recovery == /\ "task" \notin missing
                       /\ review[r].last.task /\ fix[<<s, review[r].n>>].status = "failed"
           exhausted == /\ ~recovery
                        /\ \/ CountNonRecovery(s) >= MaxRounds
                           \/ "results" \notin missing /\ NoneFixedTwice(s)
           pc == IF exhausted THEN "conclude" ELSE "fixing"
           verdict == IF exhausted THEN "exhausted" ELSE review[r].verdict
           last == [NoRound EXCEPT !.recovery = recovery]
           q == [review[r] EXCEPT !.pc = pc, !.verdict = verdict, !.last = last]
<1>5. faults' \in 0 .. MaxFaults /\ faults <= faults'
  BY <1>1, <1>4, FaultTypes
<1>6. Becomes(r, q)
  BY <1>4 DEF Becomes
<1>7. recovery \in BOOLEAN
  OBVIOUS
<1>8. pc = "fixing" => recovery \/ ~(CountNonRecovery(s) >= MaxRounds)
  OBVIOUS
<1>9. pc \in {"conclude", "fixing"} /\ verdict \in {review[r].verdict, "exhausted"}
  OBVIOUS
<1> HIDE DEF recovery
<1>10. last \in Round /\ ~last.done /\ last.recovery = recovery
  BY <1>7, NewRound
<1>11. Counted(round[s]) \in Nat /\ CountNonRecovery(s) = Counted(round[s])
  <2>1. round[s] \in Seq(Round)
    BY <1>3, AtReview
  <2>2. IsFiniteSet(1 .. Len(round[s])) /\ DOMAIN round[s] = 1 .. Len(round[s])
    BY <2>1, FS_Interval
  <2>3. IsFiniteSet({n \in DOMAIN round[s] : ~round[s][n].recovery})
    BY <2>2, FS_Subset
  <2>4. Cardinality({n \in DOMAIN round[s] : ~round[s][n].recovery}) \in Nat
    BY <2>3, FS_CardinalityType
  <2> QED BY <2>4 DEF Counted, CountNonRecovery
<1>12. pc = "fixing" => last.recovery \/ Counted(round[s]) < MaxRounds
  BY <1>8, <1>10, <1>11, Ids
<1> HIDE DEF pc, verdict, last
<1>13. pc \in ReviewPC /\ pc \in Busy
  BY <1>9 DEF ReviewPC, Busy
<1>14. q \in Review /\ q.pc = pc /\ q.last = last /\ q.s = s /\ q.n = review[r].n
  BY <1>1, <1>9, <1>10, <1>13 DEF Review
<1> HIDE DEF q
<1>15. ReviewOne(q, round, session, fix)
  BY <1>3, <1>9, <1>10, <1>12, <1>14 DEF ReviewOne, Recording
<1> QED BY <1>1, <1>2, <1>5, <1>6, <1>13, <1>14, <1>15, QuietStep

-----------------------------------------------------------------------------
(***************************************************************************)
(* The steps of a review that write the session.                           *)
(***************************************************************************)
\* A session whose rounds are complete is written: no repair is at work on it.
LEMMA LiveStay ==
  ASSUME IInv, NEW s \in Sessions, NEW row \in Session, WriteSession(s, row),
         row \in ActiveStatus \/ AllDone(round[s])
  PROVE  \A f \in Fixes : Live(fix[f]) => session'[f[1]] \in ActiveStatus
<1> SUFFICES ASSUME NEW f \in Fixes, Live(fix[f]) PROVE session'[f[1]] \in ActiveStatus
  OBVIOUS
<1>1. /\ session'[s] = row /\ \A k \in Sessions : k # s => session'[k] = session[k]
  BY WrittenSession
<1>2. f[1] \in Sessions /\ f[2] \in Nat \ {0}
  BY Ids DEF Fixes
<1>3. /\ FixRow(fix[f], f, round[f[1]], session[f[1]])
      /\ fix[f].status # "none"
  BY DEF IInv, FixesOK, Live
<1>4. session[f[1]] \in ActiveStatus /\ f[2] \in 1 .. Len(round[f[1]]) /\ ~round[f[1]][f[2]].done
  <2>1. round[f[1]] \in Seq(Round)
    BY <1>2, AtReview DEF IInv, TypeOK
  <2> QED BY <1>2, <1>3, <2>1 DEF FixRow
<1>5. f[1] = s => row \in ActiveStatus
  BY <1>4 DEF AllDone
<1> QED BY <1>1, <1>2, <1>4, <1>5

LEMMA ConcludeStep ==
  ASSUME IInv, NEW r \in Reviews, Conclude(r)
  PROVE  IInv'
<1> DEFINE s == review[r].s
           row == IF review[r].verdict = "exhausted" THEN "exhausted" ELSE "completed"
           q == [NoReview EXCEPT !.pc = "over"]
<1>1. /\ ReviewOne(review[r], round, session, fix)
      /\ faults \in 0 .. MaxFaults /\ UNCHANGED <<round, fix, faults>>
      /\ review[r].pc = "conclude" /\ WriteSession(s, row) /\ Becomes(r, q)
  BY AtReview DEF Conclude, ReviewAt, Over, Becomes
<1>2. review[r].pc \in Busy \ Recording
  BY <1>1 DEF Busy, Recording, ReviewPC
<1>3. s \in Sessions /\ AllDone(round[s])
  BY <1>1, <1>2 DEF ReviewOne
<1>4. row \in Session
  BY StatusTypes
<1> HIDE DEF row
<1>5. session' \in [Sessions -> Session] /\ OneActive'
  BY <1>1, <1>3, <1>4, WrittenSession
<1>6. \A f \in Fixes : Live(fix[f]) => session'[f[1]] \in ActiveStatus
  BY <1>1, <1>3, <1>4, LiveStay
<1>7. q \in Review /\ q.pc = "over" /\ ReviewOne(q, round, session', fix)
  BY OverReview
<1> HIDE DEF q
<1>8. q.pc \in Busy \cup {"over"} /\ q.pc \notin Early
  BY <1>7 DEF Early
<1> QED BY <1>1, <1>2, <1>5, <1>6, <1>7, <1>8, ReviewSession

LEMMA ToFixingStep ==
  ASSUME IInv, NEW r \in Reviews, ToFixing(r)
  PROVE  IInv'
<1> DEFINE s == review[r].s
           n == review[r].n + 1
           q == [review[r] EXCEPT !.pc = "create", !.n = n]
<1>1. /\ ReviewOne(review[r], round, session, fix) /\ review[r] \in Review
      /\ faults \in 0 .. MaxFaults /\ UNCHANGED <<round, fix, faults>>
      /\ review[r].pc = "fixing" /\ WriteSession(s, "fixing") /\ Becomes(r, q)
  BY AtReview DEF ToFixing, ReviewAt, Becomes
<1>2. review[r].pc \in Busy \ Recording /\ review[r].pc \in Early
  BY <1>1 DEF Busy, Recording, ReviewPC, Early
<1>3. /\ s \in Sessions /\ AllDone(round[s]) /\ n = Len(round[s]) + 1 /\ ~review[r].last.done
      /\ review[r].last.recovery \/ Counted(round[s]) < MaxRounds
  BY <1>1, <1>2 DEF ReviewOne
<1>4. n \in Reviews
  <2>1. round[s] \in Seq(Round)
    BY <1>3, AtReview
  <2>2. Len(round[s]) \in Nat /\ Len(round[s]) < r
    BY <1>2, <1>3, <2>1 DEF IInv, Room
  <2>3. n \in Nat \ {0} /\ n <= r
    BY <1>3, <2>2, Ids
  <2> QED BY <2>3, Ids
<1>5. "fixing" \in Session /\ "fixing" \in ActiveStatus
  BY StatusTypes
<1>6. session' \in [Sessions -> Session] /\ OneActive' /\ session'[s] \in ActiveStatus
  BY <1>1, <1>3, <1>5, WrittenSession
<1>7. \A f \in Fixes : Live(fix[f]) => session'[f[1]] \in ActiveStatus
  BY <1>1, <1>3, <1>5, LiveStay
<1>8. "create" \in Busy /\ "create" \in ReviewPC
  BY DEF Busy, ReviewPC
<1>9. /\ q \in Review /\ q.pc = "create" /\ q.n = n /\ q.s = s /\ q.last = review[r].last
  BY <1>1, <1>4, <1>8 DEF Review
<1> HIDE DEF q, n
<1>10. ReviewOne(q, round, session', fix)
  BY <1>3, <1>6, <1>9 DEF ReviewOne, Recording
<1> QED BY <1>1, <1>2, <1>6, <1>7, <1>8, <1>9, <1>10, ReviewSession

LEMMA HealSessionStep ==
  ASSUME IInv, NEW r \in Reviews, HealSession(r)
  PROVE  IInv'
<1> DEFINE s == review[r].s
           row == Repaired(review[r].copy)
           pc == Through(r)
           q == [review[r] EXCEPT !.copy = NoSession, !.pc = pc]
<1>1. /\ ReviewOne(review[r], round, session, fix) /\ review[r] \in Review
      /\ faults \in 0 .. MaxFaults /\ UNCHANGED <<round, fix, faults>>
      /\ review[r].pc = "healSession" /\ WriteSession(s, row) /\ Becomes(r, q)
  BY AtReview DEF HealSession, ReviewAt, Becomes
<1>2. review[r].pc \in Busy \ Recording /\ review[r].pc \in Early
  BY <1>1 DEF Busy, Recording, ReviewPC, Early
<1>3. /\ s \in Sessions /\ AllDone(round[s]) /\ review[r].n = Len(round[s])
      /\ review[r].copy \in ActiveStatus
  BY <1>1, <1>2 DEF ReviewOne
<1>4. row \in Session /\ row \in ActiveStatus
  BY <1>3, StatusTypes
<1> HIDE DEF row
<1>5. session' \in [Sessions -> Session] /\ OneActive'
  BY <1>1, <1>3, <1>4, WrittenSession
<1>6. \A f \in Fixes : Live(fix[f]) => session'[f[1]] \in ActiveStatus
  BY <1>1, <1>3, <1>4, LiveStay
<1>7. pc \in {"conclude", "count"} /\ pc \in ReviewPC /\ pc \in Busy
  BY DEF Through, ReviewPC, Busy
<1> HIDE DEF pc
<1>8. q \in Review /\ q.pc = pc /\ q.n = review[r].n /\ q.s = s
  BY <1>1, <1>7, StatusTypes DEF Review
<1> HIDE DEF q
<1>9. ReviewOne(q, round, session', fix)
  BY <1>3, <1>7, <1>8 DEF ReviewOne, Recording
<1> QED BY <1>1, <1>2, <1>5, <1>6, <1>7, <1>8, <1>9, ReviewSession

LEMMA ReviewFailsStep ==
  ASSUME IInv, Undisturbed, NEW r \in Reviews, ReviewFails(r)
  PROVE  IInv'
<1>1. /\ review[r] \in Review /\ faults \in 0 .. MaxFaults
      /\ UNCHANGED <<session, round, fix>> /\ Over(r)
  BY AtReview DEF ReviewFails
<1>2. /\ review[r].pc \in ReviewPC
      /\ \/ /\ review[r].pc \notin {"none", "review", "over"}
            /\ review[r].pc \in Fails /\ Fault(review[r].pc)
         \/ review[r].pc \in {"fixing", "healSession"} /\ NoFault
  BY <1>1 DEF ReviewFails, Review, ReviewAt, Fault
<1>3. review[r].pc \in Busy \ Recording
  BY <1>2 DEF Undisturbed, Busy, Recording, ReviewPC
<1>4. faults' \in 0 .. MaxFaults /\ faults <= faults'
  BY <1>1, <1>2, FaultTypes
<1> QED BY <1>1, <1>3, <1>4, OverStep

-----------------------------------------------------------------------------
(***************************************************************************)
(* The steps of a review that write rounds and tasks.                      *)
(***************************************************************************)
\* A row that is written is the only one that changes.
LEMMA WrittenRound ==
  ASSUME IInv, NEW s \in Sessions, NEW n \in 1 .. Len(round[s]), NEW row \in Round,
         WriteRound(s, n, row)
  PROVE  /\ DOMAIN round' = Sessions
         /\ \A k \in Sessions : round'[k] \in Seq(Round) /\ Len(round'[k]) = Len(round[k])
         /\ \A k \in Sessions : \A m \in 1 .. Len(round[k]) :
              round'[k][m] = IF k = s /\ m = n THEN row ELSE round[k][m]
         /\ \A k \in Sessions : Len(round[k]) \in Nat
         /\ \A k \in Sessions : k # s => round'[k] = round[k]
<1>1. DOMAIN round = Sessions /\ \A k \in Sessions : round[k] \in Seq(Round)
  BY DEF IInv, TypeOK
<1> DEFINE rows == [round[s] EXCEPT ![n] = row]
<1>2. /\ rows \in Seq(Round) /\ Len(rows) = Len(round[s])
      /\ \A m \in 1 .. Len(round[s]) : rows[m] = IF m = n THEN row ELSE round[s][m]
  BY <1>1, ExceptSeq
<1>3. round' = [round EXCEPT ![s] = rows]
  BY DEF WriteRound
<1> HIDE DEF rows
<1>4. /\ DOMAIN round' = Sessions /\ round'[s] = rows
      /\ \A k \in Sessions : k # s => round'[k] = round[k]
  BY <1>1, <1>3
<1>5. \A k \in Sessions : Len(round[k]) \in Nat
  BY <1>1
<1> QED BY <1>1, <1>2, <1>4, <1>5

LEMMA RecordTaskStep ==
  ASSUME IInv, NEW r \in Reviews, RecordTask(r)
  PROVE  IInv'
<1> DEFINE s == review[r].s
           n == review[r].n
           row == [review[r].last EXCEPT !.task = TRUE]
           q == [NoReview EXCEPT !.pc = "over"]
<1>1. /\ ReviewOne(review[r], round, session, fix) /\ review[r] \in Review
      /\ UNCHANGED <<session, fix, faults>>
      /\ review[r].pc = "record" /\ WriteRound(s, n, row) /\ Becomes(r, q)
  BY AtReview DEF RecordTask, ReviewAt, Becomes, Over
<1>2. review[r].pc \in Busy /\ review[r].pc \in Recording
  BY <1>1 DEF Busy, Recording, ReviewPC
<1>3. /\ s \in Sessions /\ n = Len(round[s]) /\ n > 0 /\ round[s][n] = review[r].last
      /\ ~review[r].last.done
  BY <1>1, <1>2 DEF ReviewOne, Recording
<1>4. n \in 1 .. Len(round[s])
  <2>1. round[s] \in Seq(Round)
    BY <1>3, AtReview
  <2> QED BY <1>3, <2>1
<1>5. row \in Round /\ ~row.done /\ row.task
  BY <1>1, <1>3 DEF Review, Round
<1>6. q \in Review /\ q.pc = "over" /\ ReviewOne(q, round', session', fix')
  BY OverReview
<1> HIDE DEF row, q
<1>7. /\ DOMAIN round' = Sessions
      /\ \A k \in Sessions : round'[k] \in Seq(Round) /\ Len(round'[k]) = Len(round[k])
      /\ \A k \in Sessions : \A m \in 1 .. Len(round[k]) :
           round'[k][m] = IF k = s /\ m = n THEN row ELSE round[k][m]
      /\ \A k \in Sessions : Len(round[k]) \in Nat
  BY <1>1, <1>3, <1>4, <1>5, WrittenRound
<1>8. q.pc \in Busy \cup {"over"} /\ q.pc \notin Early
  BY <1>6 DEF Early
<1>9. /\ review' \in [Reviews -> Review] /\ OneBusy' /\ Order'
      /\ review'[r] = q
      /\ \A x \in Reviews \ {r} : review'[x] = review[x] /\ review[x].pc \notin Busy
      /\ Room'
  BY <1>1, <1>2, <1>6, <1>7, <1>8, ReviewMoves
<1>10. TypeOK'
  BY <1>1, <1>7, <1>9 DEF IInv, TypeOK
<1>11. OneActive'
  BY <1>1 DEF IInv, OneActive, Active
<1>12. \A k \in Sessions : \A m \in 1 .. Len(round[k]) : round'[k][m].done <=> round[k][m].done
  BY <1>3, <1>5, <1>7
<1>13. \A f \in Fixes : f[1] \in Sessions /\ f[2] \in Nat \ {0}
  BY Ids DEF Fixes
<1>14. FixesOK'
  <2> SUFFICES ASSUME NEW f \in Fixes PROVE FixOne(fix[f]) /\ FixRow(fix[f], f, round'[f[1]], session[f[1]])
    BY <1>1 DEF FixesOK
  <2>1. FixOne(fix[f]) /\ FixRow(fix[f], f, round[f[1]], session[f[1]])
    BY DEF IInv, FixesOK
  <2>2. Live(fix[f]) => f[2] \in 1 .. Len(round[f[1]])
    BY <2>1, <1>7, <1>13 DEF FixRow
  <2> QED BY <2>1, <2>2, <1>7, <1>12, <1>13 DEF FixRow
<1>15. RowsOK'
  <2> SUFFICES ASSUME NEW k \in Sessions, NEW m \in 1 .. Len(round[k]), ~round'[k][m].done
               PROVE  /\ m = Len(round[k])
                      /\ \/ round'[k][m].task
                         \/ \E x \in Reviews : review'[x].pc \in Recording /\ review'[x].s = k
    BY <1>7 DEF RowsOK
  <2>1. /\ m = Len(round[k])
        /\ \/ round[k][m].task
           \/ \E x \in Reviews : review[x].pc \in Recording /\ review[x].s = k
    BY <1>12 DEF IInv, RowsOK
  <2>2. CASE k = s
    BY <1>3, <1>5, <1>7, <2>1, <2>2
  <2>3. CASE k # s
    BY <1>7, <1>9, <2>1, <2>3
  <2> QED BY <2>2, <2>3
<1>16. ReviewsOK'
  BY <1>6, <1>9, ReviewsStay
<1>17. SettledOK'
  <2> SUFFICES ASSUME faults = 0, NEW f \in Fixes, fix[f].status \in {"succeeded", "failed"},
                      fix[f].pc # "round"
               PROVE  round'[f[1]][f[2]].done
    BY <1>1 DEF SettledOK
  <2>1. round[f[1]][f[2]].done
    BY DEF IInv, SettledOK
  <2>2. f[2] \in 1 .. Len(round[f[1]])
    BY <1>7, <1>13 DEF IInv, FixesOK, FixRow
  <2> QED BY <1>12, <1>13, <2>1, <2>2
<1> QED BY <1>9, <1>10, <1>11, <1>14, <1>15, <1>16, <1>17 DEF IInv

LEMMA HealRoundStep ==
  ASSUME IInv, NEW r \in Reviews, HealRound(r)
  PROVE  IInv'
<1> DEFINE s == review[r].s
           n == review[r].n
           row == review[r].last
           pc == IF review[r].last.fixed = 1 THEN "healSession" ELSE Through(r)
<1>1. /\ ReviewOne(review[r], round, session, fix) /\ review[r] \in Review
      /\ review \in [Reviews -> Review]
      /\ UNCHANGED <<session, fix, faults>>
      /\ review[r].pc = "healRound" /\ WriteRound(s, n, row) /\ Goes(r, pc)
  BY AtReview DEF HealRound, ReviewAt
<1>2. review[r].pc \in Busy \ Recording /\ review[r].pc \in Early
  BY <1>1 DEF Busy, Recording, ReviewPC, Early
<1>3. /\ s \in Sessions /\ n = Len(round[s]) /\ n > 0 /\ row.done
      /\ fix[<<s, n>>].over /\ review[r].copy \in ActiveStatus
  BY <1>1, <1>2 DEF ReviewOne
<1>4. n \in 1 .. Len(round[s])
  <2>1. round[s] \in Seq(Round)
    BY <1>3, AtReview
  <2> QED BY <1>3, <2>1
<1>5. row \in Round
  BY <1>1 DEF Review
<1>6. pc \in {"healSession", "conclude", "count"} /\ pc \in ReviewPC /\ pc \in Busy
  BY DEF Through, ReviewPC, Busy
<1> HIDE DEF row, pc
<1>7. /\ DOMAIN round' = Sessions
      /\ \A k \in Sessions : round'[k] \in Seq(Round) /\ Len(round'[k]) = Len(round[k])
      /\ \A k \in Sessions : \A m \in 1 .. Len(round[k]) :
           round'[k][m] = IF k = s /\ m = n THEN row ELSE round[k][m]
      /\ \A k \in Sessions : Len(round[k]) \in Nat
  BY <1>1, <1>3, <1>4, <1>5, WrittenRound
<1>8. PICK q \in Review : /\ Becomes(r, q) /\ q.pc = pc /\ q.s = review[r].s
                          /\ q.copy = review[r].copy /\ q.n = review[r].n
                          /\ q.last = review[r].last /\ q.verdict = review[r].verdict
  BY <1>1, <1>6, GoesTo
<1>9. /\ review' \in [Reviews -> Review] /\ OneBusy' /\ Order'
      /\ review'[r] = q
      /\ \A x \in Reviews \ {r} : review'[x] = review[x] /\ review[x].pc \notin Busy
      /\ Room'
  BY <1>2, <1>6, <1>7, <1>8, ReviewMoves
<1>10. TypeOK'
  BY <1>1, <1>7, <1>9 DEF IInv, TypeOK
<1>11. OneActive'
  BY <1>1 DEF IInv, OneActive, Active
<1>12. \A k \in Sessions : \A m \in 1 .. Len(round[k]) : round[k][m].done => round'[k][m].done
  BY <1>3, <1>7
<1>13. \A f \in Fixes : f[1] \in Sessions /\ f[2] \in Nat \ {0}
  BY Ids DEF Fixes
<1>14. FixesOK'
  <2> SUFFICES ASSUME NEW f \in Fixes PROVE FixOne(fix[f]) /\ FixRow(fix[f], f, round'[f[1]], session[f[1]])
    BY <1>1 DEF FixesOK
  <2>1. FixOne(fix[f]) /\ FixRow(fix[f], f, round[f[1]], session[f[1]])
    BY DEF IInv, FixesOK
  <2>2. Live(fix[f]) => f[2] \in 1 .. Len(round[f[1]]) /\ f[2] = Len(round[f[1]])
    BY <2>1, <1>7, <1>13 DEF FixRow
  <2>3. f = <<f[1], f[2]>>
    BY DEF Fixes
  <2>4. Live(fix[f]) => f[1] # s
    BY <1>3, <2>2, <2>3 DEF Live
  <2>5. Live(fix[f]) => round'[f[1]][f[2]] = round[f[1]][f[2]]
    BY <2>2, <2>4, <1>7, <1>13
  <2>6. Len(round'[f[1]]) = Len(round[f[1]])
    BY <1>7, <1>13
  <2> QED BY <2>1, <2>5, <2>6 DEF FixRow
<1>15. AllDone(round'[s])
  <2>1. \A m \in 1 .. Len(round[s]) : ~round[s][m].done => m = n
    BY <1>3 DEF IInv, RowsOK
  <2> QED BY <1>3, <1>7, <2>1 DEF AllDone
<1>16. RowsOK'
  <2> SUFFICES ASSUME NEW k \in Sessions, NEW m \in 1 .. Len(round[k]), ~round'[k][m].done
               PROVE  /\ m = Len(round[k])
                      /\ \/ round'[k][m].task
                         \/ \E x \in Reviews : review'[x].pc \in Recording /\ review'[x].s = k
    BY <1>7 DEF RowsOK
  <2>1. k # s
    BY <1>7, <1>15 DEF AllDone
  <2>2. round'[k][m] = round[k][m]
    BY <1>7, <2>1
  <2>3. /\ m = Len(round[k])
        /\ \/ round[k][m].task
           \/ \E x \in Reviews : review[x].pc \in Recording /\ review[x].s = k
    BY <2>2 DEF IInv, RowsOK
  <2>4. \A x \in Reviews : review[x].pc \in Recording => x # r /\ review'[x] = review[x]
    BY <1>2, <1>9
  <2> QED BY <2>2, <2>3, <2>4
<1>17. ReviewOne(q, round', session', fix')
  BY <1>1, <1>3, <1>6, <1>7, <1>8, <1>15 DEF ReviewOne, Recording
<1>18. ReviewsOK'
  BY <1>9, <1>17, ReviewsStay
<1>19. SettledOK'
  <2> SUFFICES ASSUME faults = 0, NEW f \in Fixes, fix[f].status \in {"succeeded", "failed"},
                      fix[f].pc # "round"
               PROVE  round'[f[1]][f[2]].done
    BY <1>1 DEF SettledOK
  <2>1. round[f[1]][f[2]].done
    BY DEF IInv, SettledOK
  <2>2. f[2] \in 1 .. Len(round[f[1]])
    BY <1>7, <1>13 DEF IInv, FixesOK, FixRow
  <2> QED BY <1>12, <1>13, <2>1, <2>2
<1> QED BY <1>9, <1>10, <1>11, <1>14, <1>16, <1>18, <1>19 DEF IInv

LEMMA CreateRoundStep ==
  ASSUME IInv, NEW r \in Reviews, CreateRound(r)
  PROVE  IInv'
<1> DEFINE s == review[r].s
           n == review[r].n
           row == review[r].last
<1>1. /\ ReviewOne(review[r], round, session, fix) /\ review[r] \in Review
      /\ review \in [Reviews -> Review] /\ DOMAIN round = Sessions
      /\ \A k \in Sessions : round[k] \in Seq(Round) /\ Len(round[k]) \in Nat
      /\ UNCHANGED <<session, fix, faults>> /\ faults \in 0 .. MaxFaults
      /\ review[r].pc = "create"
  BY AtReview DEF CreateRound, ReviewAt
<1>2. review[r].pc \in Busy \ Recording /\ review[r].pc \in Early
  BY <1>1 DEF Busy, Recording, ReviewPC, Early
<1>3. /\ s \in Sessions /\ n = Len(round[s]) + 1 /\ AllDone(round[s]) /\ ~row.done
      /\ session[s] \in ActiveStatus
  BY <1>1, <1>2 DEF ReviewOne
<1>4. Len(round[s]) < r /\ n \in Nat \ {0} /\ n <= Cardinality(Reviews) /\ n \in Reviews
  <2>1. Len(round[s]) < r /\ Len(round[s]) \in Nat
    BY <1>1, <1>2, <1>3 DEF IInv, Room
  <2>2. n \in Nat \ {0} /\ n <= r
    BY <1>3, <2>1, Ids
  <2> QED BY <2>1, <2>2, Ids
<1>5. CASE Over(r) /\ UNCHANGED round
  BY <1>1, <1>2, <1>5, OverStep
<1>6. CASE round' = [round EXCEPT ![s] = Append(round[s], row)] /\ Goes(r, "enqueue")
  <2>1. row \in Round
    BY <1>1 DEF Review
  <2> DEFINE rows == Append(round[s], row)
  <2>2. /\ rows \in Seq(Round) /\ Len(rows) = n /\ rows[n] = row
        /\ \A m \in 1 .. Len(round[s]) : rows[m] = round[s][m]
    BY <1>1, <1>3, <2>1, AppendProperties
  <2> HIDE DEF rows
  <2>3. /\ DOMAIN round' = Sessions /\ round'[s] = rows
        /\ \A k \in Sessions : k # s => round'[k] = round[k]
    BY <1>1, <1>3, <1>6 DEF rows
  <2>4. "enqueue" \in ReviewPC /\ "enqueue" \in Busy /\ "enqueue" \notin Early
    BY DEF ReviewPC, Busy, Early
  <2>5. PICK q \in Review : /\ Becomes(r, q) /\ q.pc = "enqueue" /\ q.s = review[r].s
                            /\ q.copy = review[r].copy /\ q.n = review[r].n
                            /\ q.last = review[r].last /\ q.verdict = review[r].verdict
    BY <1>1, <1>6, <2>4, GoesTo
  <2>6. /\ review' \in [Reviews -> Review] /\ OneBusy' /\ Order'
        /\ review'[r] = q
        /\ \A x \in Reviews \ {r} : review'[x] = review[x] /\ review[x].pc \notin Busy
    BY <1>2, <2>4, <2>5, ReviewMoves
  <2>7. Room'
    <3> SUFFICES ASSUME NEW x \in Reviews, NEW k \in Sessions, review'[x].pc \in Early
                 PROVE  Len(round'[k]) < x
      BY DEF Room
    <3>1. x # r /\ review'[x] = review[x] /\ review[x].pc \notin Busy
      BY <2>4, <2>5, <2>6
    <3>2. review[x].pc \in {"none", "review"}
      BY <3>1 DEF Early, Busy
    <3>3. r < x
      BY <1>2, <3>2 DEF IInv, Order
    <3>4. r \in Nat /\ x \in Nat
      BY Ids
    <3>5. CASE k = s
      BY <1>1, <1>3, <1>4, <2>2, <2>3, <3>3, <3>4, <3>5
    <3>6. CASE k # s
      BY <2>3, <3>1, <3>6 DEF IInv, Room
    <3> QED BY <3>5, <3>6
  <2>8. TypeOK'
    <3>1. \A k \in Sessions : round'[k] \in Seq(Round) /\ Len(round'[k]) <= Cardinality(Reviews)
      BY <1>4, <2>2, <2>3 DEF IInv, TypeOK
    <3> QED BY <1>1, <2>3, <2>6, <3>1 DEF IInv, TypeOK
  <2>9. OneActive'
    BY <1>1 DEF IInv, OneActive, Active
  <2>10. \A f \in Fixes : f[1] \in Sessions /\ f[2] \in Nat \ {0}
    BY Ids DEF Fixes
  <2>11. ASSUME NEW f \in Fixes, fix[f].status # "none"
         PROVE  /\ f[2] \in 1 .. Len(round[f[1]])
                /\ round'[f[1]][f[2]] = round[f[1]][f[2]]
                /\ Len(round[f[1]]) <= Len(round'[f[1]])
    <3>1. f[2] \in 1 .. Len(round[f[1]])
      BY <1>1, <2>10, <2>11 DEF IInv, FixesOK, FixRow
    <3>2. CASE f[1] = s
      <4>1. Len(rows) = Len(round[s]) + 1
        BY <1>3, <2>2
      <4> QED BY <1>1, <1>3, <2>2, <2>3, <3>1, <3>2, <4>1
    <3>3. CASE f[1] # s
      BY <1>1, <2>3, <2>10, <3>1, <3>3
    <3> QED BY <3>2, <3>3
  <2>12. \A f \in Fixes : Live(fix[f]) => f[1] # s
    <3>1. \A f \in Fixes : Live(fix[f]) => fix[f].status # "none" /\ ~round[f[1]][f[2]].done
      BY DEF IInv, FixesOK, FixRow, Live
    <3> QED BY <1>3, <2>11, <3>1 DEF AllDone
  <2>13. FixesOK'
    <3> SUFFICES ASSUME NEW f \in Fixes
                 PROVE  FixOne(fix[f]) /\ FixRow(fix[f], f, round'[f[1]], session[f[1]])
      BY <1>1 DEF FixesOK
    <3>1. FixOne(fix[f]) /\ FixRow(fix[f], f, round[f[1]], session[f[1]])
      BY DEF IInv, FixesOK
    <3>2. CASE Live(fix[f])
      BY <2>3, <2>10, <2>12, <3>1, <3>2
    <3>3. CASE ~Live(fix[f])
      <4>1. fix[f].status # "none" => f[2] <= Len(round'[f[1]])
        <5> SUFFICES ASSUME fix[f].status # "none" PROVE f[2] <= Len(round'[f[1]])
          OBVIOUS
        <5>1. f[2] \in 1 .. Len(round[f[1]]) /\ Len(round[f[1]]) <= Len(round'[f[1]])
          BY <2>11
        <5>2. Len(round[f[1]]) \in Nat /\ Len(round'[f[1]]) \in Nat
          BY <1>1, <1>4, <2>2, <2>3, <2>10
        <5> QED BY <5>1, <5>2
      <4> QED BY <3>1, <3>3, <4>1 DEF FixRow
    <3> QED BY <3>2, <3>3
  <2>14. RowsOK'
    <3> SUFFICES ASSUME NEW k \in Sessions, NEW m \in 1 .. Len(round'[k]), ~round'[k][m].done
                 PROVE  /\ m = Len(round'[k])
                        /\ \/ round'[k][m].task
                           \/ \E x \in Reviews : review'[x].pc \in Recording /\ review'[x].s = k
      BY DEF RowsOK
    <3>1. CASE k = s
      <4>1. m = n
        <5>1. m # n => m \in 1 .. Len(round[s])
          BY <1>1, <1>3, <2>2, <2>3, <3>1
        <5> QED BY <1>3, <2>2, <2>3, <3>1, <5>1 DEF AllDone
      <4>2. review'[r].pc \in Recording /\ review'[r].s = k
        BY <2>5, <2>6, <3>1 DEF Recording
      <4> QED BY <2>2, <2>3, <3>1, <4>1, <4>2
    <3>2. CASE k # s
      <4>1. round'[k] = round[k]
        BY <2>3, <3>2
      <4>2. /\ m = Len(round[k])
            /\ \/ round[k][m].task
               \/ \E x \in Reviews : review[x].pc \in Recording /\ review[x].s = k
        BY <4>1 DEF IInv, RowsOK
      <4>3. \A x \in Reviews : review[x].pc \in Recording => x # r /\ review'[x] = review[x]
        BY <1>2, <2>6
      <4> QED BY <4>1, <4>2, <4>3
    <3> QED BY <3>1, <3>2
  <2>15. fix[<<s, n>>].status = "none"
    <3>1. <<s, n>> \in Fixes
      BY <1>3, <1>4 DEF Fixes
    <3>2. fix[<<s, n>>].status # "none" => n \in 1 .. Len(round[s])
      BY <2>11, <3>1
    <3> QED BY <1>1, <1>3, <3>2
  <2>16. ReviewOne(q, round', session', fix')
    <3>1. /\ q.n = Len(round'[q.s]) /\ q.n > 0 /\ round'[q.s][q.n] = q.last /\ ~q.last.done
          /\ q.s \in Sessions /\ session'[q.s] \in ActiveStatus
          /\ fix'[<<q.s, q.n>>].status = "none"
      BY <1>1, <1>3, <1>4, <2>2, <2>3, <2>5, <2>15
    <3> QED BY <2>5, <3>1 DEF ReviewOne, Recording
  <2>17. ReviewsOK'
    BY <2>6, <2>16, ReviewsStay
  <2>18. SettledOK'
    <3> SUFFICES ASSUME faults = 0, NEW f \in Fixes, fix[f].status \in {"succeeded", "failed"},
                        fix[f].pc # "round"
                 PROVE  round'[f[1]][f[2]].done
      BY <1>1 DEF SettledOK
    <3>1. round[f[1]][f[2]].done
      BY DEF IInv, SettledOK
    <3> QED BY <2>11, <3>1
  <2> QED BY <2>6, <2>7, <2>8, <2>9, <2>13, <2>14, <2>17, <2>18 DEF IInv
<1> QED BY <1>5, <1>6 DEF CreateRound

LEMMA EnqueueFixStep ==
  ASSUME IInv, NEW r \in Reviews, EnqueueFix(r)
  PROVE  IInv'
<1> DEFINE s == review[r].s
           n == review[r].n
           e == <<s, n>>
<1>1. /\ ReviewOne(review[r], round, session, fix) /\ review[r] \in Review
      /\ review \in [Reviews -> Review] /\ fix \in [Fixes -> Fix]
      /\ \A k \in Sessions : round[k] \in Seq(Round) /\ Len(round[k]) \in Nat
      /\ UNCHANGED <<session, round, faults>>
      /\ fix' = [fix EXCEPT ![e].status = "queued"]
      /\ review[r].pc = "enqueue" /\ Goes(r, "record")
  BY AtReview DEF EnqueueFix, ReviewAt, IInv, TypeOK
<1>2. review[r].pc \in Busy /\ review[r].pc \in Recording
  BY <1>1 DEF Busy, Recording, ReviewPC
<1>3. /\ s \in Sessions /\ n = Len(round[s]) /\ n > 0 /\ round[s][n] = review[r].last
      /\ ~review[r].last.done /\ session[s] \in ActiveStatus
      /\ fix[<<s, n>>].status = "none"
  BY <1>1, <1>2 DEF ReviewOne
<1>4. e \in Fixes /\ fix[e] = NoFix
  <2>1. n \in Reviews
    <3>1. n \in {0} \cup Reviews
      BY <1>1 DEF Review
    <3> QED BY <1>1, <1>3, <3>1
  <2>2. e \in Fixes
    BY <1>3, <2>1 DEF Fixes
  <2>3. FixOne(fix[e])
    BY <2>2 DEF IInv, FixesOK
  <2> QED BY <1>3, <2>2, <2>3 DEF FixOne
<1> DEFINE y == [NoFix EXCEPT !.status = "queued"]
<1>5. /\ y \in Fix /\ y.status = "queued" /\ y.pc = "idle" /\ FixOne(y)
  <2>1. 0 \in 0 .. MaxAttempts /\ 0 < MaxAttempts /\ NoSession \in Session
    BY Ids, StatusTypes
  <2>2. /\ NoFix \in Fix /\ NoFix.pc = "idle" /\ ~NoFix.ctx /\ NoFix.attempts = 0
        /\ "queued" \in FixStatus /\ ~NoFix.over
    BY <2>1 DEF NoFix, Fix, FixStatus, FixPC
  <2> HIDE DEF NoFix
  <2>3. /\ y \in Fix /\ y.status = "queued" /\ y.pc = NoFix.pc /\ y.ctx = NoFix.ctx
        /\ y.attempts = NoFix.attempts
    BY <2>2 DEF Fix
  <2> HIDE DEF y
  <2> QED BY <2>1, <2>2, <2>3 DEF FixOne, Ended
<1>6. fix' = [fix EXCEPT ![e] = y]
  BY <1>1, <1>4
<1> HIDE DEF y, e
<1>7. /\ fix' \in [Fixes -> Fix] /\ fix'[e] = y
      /\ \A f \in Fixes : f # e => fix'[f] = fix[f]
  BY <1>1, <1>4, <1>5, <1>6
<1>8. "record" \in ReviewPC /\ "record" \in Busy /\ "record" \notin Early
  BY DEF ReviewPC, Busy, Early
<1>9. PICK q \in Review : /\ Becomes(r, q) /\ q.pc = "record" /\ q.s = review[r].s
                          /\ q.copy = review[r].copy /\ q.n = review[r].n
                          /\ q.last = review[r].last /\ q.verdict = review[r].verdict
  BY <1>1, <1>8, GoesTo
<1>10. /\ review' \in [Reviews -> Review] /\ OneBusy' /\ Order'
       /\ review'[r] = q
       /\ \A x \in Reviews \ {r} : review'[x] = review[x] /\ review[x].pc \notin Busy
       /\ Room'
  BY <1>1, <1>2, <1>8, <1>9, ReviewMoves
<1>11. TypeOK'
  BY <1>1, <1>7, <1>10 DEF IInv, TypeOK
<1>12. OneActive'
  BY <1>1 DEF IInv, OneActive, Active
<1>13. e[1] = s /\ e[2] = n
  BY DEF e
<1>14. FixesOK'
  <2> SUFFICES ASSUME NEW f \in Fixes
               PROVE  FixOne(fix'[f]) /\ FixRow(fix'[f], f, round[f[1]], session[f[1]])
    BY <1>1 DEF FixesOK
  <2>1. CASE f = e
    <3>1. FixRow(y, e, round[s], session[s])
      BY <1>1, <1>3, <1>13 DEF FixRow
    <3> QED BY <1>5, <1>7, <1>13, <2>1, <3>1
  <2>2. CASE f # e
    BY <1>7, <2>2 DEF IInv, FixesOK
  <2> QED BY <2>1, <2>2
<1>15. RowsOK'
  <2> SUFFICES ASSUME NEW k \in Sessions, NEW m \in 1 .. Len(round[k]), ~round[k][m].done
               PROVE  /\ m = Len(round[k])
                      /\ \/ round[k][m].task
                         \/ \E x \in Reviews : review'[x].pc \in Recording /\ review'[x].s = k
    BY <1>1 DEF RowsOK
  <2>1. /\ m = Len(round[k])
        /\ \/ round[k][m].task
           \/ \E x \in Reviews : review[x].pc \in Recording /\ review[x].s = k
    BY DEF IInv, RowsOK
  <2>2. \A x \in Reviews : review[x].pc \in Recording => review'[x].pc \in Recording /\ review'[x].s = review[x].s
    BY <1>9, <1>10 DEF Recording
  <2> QED BY <2>1, <2>2
<1>16. ReviewOne(q, round', session', fix')
  <2>1. fix'[<<q.s, q.n>>] = y
    BY <1>7, <1>9 DEF e
  <2> QED BY <1>1, <1>3, <1>5, <1>9, <2>1 DEF ReviewOne, Recording
<1>17. ReviewsOK'
  BY <1>10, <1>16, ReviewsStay
<1>18. SettledOK'
  <2> SUFFICES ASSUME faults = 0, NEW f \in Fixes, fix'[f].status \in {"succeeded", "failed"},
                      fix'[f].pc # "round"
               PROVE  round[f[1]][f[2]].done
    BY <1>1 DEF SettledOK
  <2>1. f # e
    BY <1>5, <1>7
  <2> QED BY <1>7, <2>1 DEF IInv, SettledOK
<1> QED BY <1>10, <1>11, <1>12, <1>14, <1>15, <1>17, <1>18 DEF IInv

-----------------------------------------------------------------------------
(***************************************************************************)
(* A review is asked for, and is done.                                     *)
(***************************************************************************)
\* What a review knows of a task survives the steps of the task.
LEMMA ReviewKeeps ==
  ASSUME NEW q \in Review, NEW rows, NEW status, ReviewOne(q, rows, status, fix),
         \A f \in Fixes : /\ fix[f].status = "none" => fix'[f].status = "none"
                          /\ fix[f].over => fix'[f].over,
         q.pc = "record" => /\ fix'[<<q.s, q.n>>].status \in {"queued", "running", "cancelled"}
                            /\ fix'[<<q.s, q.n>>].pc \in {"idle", "exec"}
  PROVE  ReviewOne(q, rows, status, fix')
<1>1. q.n \in {0} \cup Reviews
  BY DEF Review
<1>2. q.pc \in {"healRound", "enqueue"} => q.s \in Sessions /\ q.n > 0
  BY DEF ReviewOne, Busy, ReviewPC, Recording
<1>3. q.pc \in {"healRound", "enqueue"} => <<q.s, q.n>> \in Fixes
  BY <1>1, <1>2, Ids DEF Fixes
<1> QED BY <1>3 DEF ReviewOne

LEMMA VerdictStep ==
  ASSUME IInv, Undisturbed, NEW r \in Reviews, Verdict(r)
  PROVE  IInv'
<1>1. /\ review \in [Reviews -> Review] /\ review[r] \in Review /\ review[r].pc = "review"
      /\ faults \in 0 .. MaxFaults /\ UNCHANGED <<session, round, fix, faults>>
      /\ \A x \in Reviews : review[x].pc \in {"none", "review", "over"}
  BY AtReview DEF Verdict, ReviewAt, Undisturbed
<1>2. PICK q \in Review : q.pc \in {"find", "active", "over"} /\ Becomes(r, q)
  <2>1. CASE Over(r)
    <3>1. LET q == [NoReview EXCEPT !.pc = "over"] IN q \in Review /\ q.pc = "over" /\ Becomes(r, q)
      BY <2>1, OverReview DEF Over, Becomes
    <3> QED BY <3>1
  <2>2. ASSUME NEW pc \in {"find", "active"}, NEW verdict \in {"approve", "changes"},
               review' = [review EXCEPT ![r].pc = pc, ![r].verdict = verdict]
        PROVE  \E q \in Review : q.pc \in {"find", "active", "over"} /\ Becomes(r, q)
    <3> DEFINE q == [review[r] EXCEPT !.pc = pc, !.verdict = verdict]
    <3>1. pc \in ReviewPC
      BY DEF ReviewPC
    <3>2. q \in Review /\ q.pc = pc
      BY <1>1, <3>1 DEF Review
    <3>3. Becomes(r, q)
      BY <2>2 DEF Becomes
    <3> HIDE DEF q
    <3> QED BY <3>2, <3>3
  <2>3. CASE review' = [review EXCEPT ![r].pc = "find", ![r].verdict = "changes"]
    BY <2>2, <2>3
  <2>4. CASE review' = [review EXCEPT ![r].pc = "active", ![r].verdict = "approve"]
    BY <2>2, <2>4
  <2> QED BY <2>1, <2>3, <2>4 DEF Verdict
<1>3. /\ review' \in [Reviews -> Review] /\ review'[r] = q
      /\ \A x \in Reviews \ {r} : review'[x] = review[x] /\ review[x].pc \notin Busy
  BY <1>1, <1>2 DEF Becomes, Busy
<1>4. q.pc \notin {"none", "review"} /\ "review" \in Early /\ "review" \notin Busy
  BY <1>2 DEF Early, ReviewPC, Busy
<1>5. OneBusy'
  BY <1>3 DEF OneBusy
<1>6. Order'
  BY <1>1, <1>3, <1>4 DEF IInv, Order
<1>7. Room'
  BY <1>1, <1>3, <1>4 DEF IInv, Room
<1>8. TypeOK' /\ OneActive' /\ FixesOK' /\ SettledOK'
  BY <1>1, <1>3 DEF IInv, TypeOK, OneActive, Active, FixesOK, SettledOK
<1>9. RowsOK'
  <2>1. \A x \in Reviews : review[x].pc \notin Recording
    BY <1>1 DEF Recording
  <2> QED BY <1>1, <2>1 DEF IInv, RowsOK
<1>10. ReviewsOK'
  <2>1. ReviewOne(q, round', session', fix')
    BY <1>2 DEF ReviewOne, Busy, Recording
  <2> QED BY <1>3, <2>1, ReviewsStay
<1> QED BY <1>5, <1>6, <1>7, <1>8, <1>9, <1>10 DEF IInv

\* What a push makes of a task: it cancels the live ones, or none.
Cancelled(x, y) ==
  /\ y.pc = x.pc /\ y.attempts = x.attempts /\ y.end = x.end /\ y.copy = x.copy
  /\ \/ y.status = x.status /\ y.ctx = x.ctx /\ y.over = x.over
     \/ /\ x.status \in {"queued", "retrying"} /\ y.status = "cancelled" /\ y.ctx = x.ctx
        /\ y.over
     \/ x.status = "running" /\ y.status = "cancelled" /\ y.ctx /\ y.over
  /\ x.status = "none" => y = NoFix

LEMMA CancelFixOne ==
  ASSUME fix \in [Fixes -> Fix], FixesOK, NEW f \in Fixes, NEW pushed \in BOOLEAN,
         fix[f].status = "none" => ~pushed
  PROVE  /\ [CancelFix(f) EXCEPT !.pushed = pushed] \in Fix
         /\ Cancelled(fix[f], [CancelFix(f) EXCEPT !.pushed = pushed])
         /\ [fix[f] EXCEPT !.pushed = pushed] \in Fix
         /\ Cancelled(fix[f], [fix[f] EXCEPT !.pushed = pushed])
<1>1. fix[f] \in Fix /\ FixOne(fix[f])
  BY DEF FixesOK
<1>2. "cancelled" \in FixStatus /\ TRUE \in BOOLEAN
  BY DEF FixStatus
<1>3. \A x \in Fix : LET y == [x EXCEPT !.pushed = pushed] IN
        /\ y \in Fix /\ y.pc = x.pc /\ y.attempts = x.attempts /\ y.end = x.end
        /\ y.copy = x.copy /\ y.status = x.status /\ y.ctx = x.ctx /\ y.over = x.over
  BY DEF Fix
<1>4. fix[f].status = "none" => [fix[f] EXCEPT !.pushed = pushed] = NoFix
  <2> SUFFICES ASSUME fix[f].status = "none" PROVE [fix[f] EXCEPT !.pushed = pushed] = NoFix
    OBVIOUS
  <2>1. fix[f] = NoFix /\ pushed = FALSE
    BY <1>1 DEF FixOne
  <2>2. NoFix.pushed = FALSE
    BY DEF NoFix
  <2>3. \A x \in Fix : [x EXCEPT !.pushed = x.pushed] = x
    BY DEF Fix
  <2> QED BY <1>1, <2>1, <2>2, <2>3
<1>5. /\ [fix[f] EXCEPT !.pushed = pushed] \in Fix
      /\ Cancelled(fix[f], [fix[f] EXCEPT !.pushed = pushed])
  BY <1>1, <1>3, <1>4 DEF Cancelled
<1>6. CASE UnderWay(f)
  <2> DEFINE c == fix[f].status = "running"
             x == [fix[f] EXCEPT !.status = "cancelled", !.ctx = c, !.over = TRUE]
  <2>1. CancelFix(f) = x
    BY <1>6 DEF CancelFix
  <2>2. c \in BOOLEAN /\ (c <=> fix[f].status = "running")
    OBVIOUS
  <2> HIDE DEF c
  <2>3. /\ x \in Fix /\ x.pc = fix[f].pc /\ x.attempts = fix[f].attempts
        /\ x.end = fix[f].end /\ x.copy = fix[f].copy /\ x.status = "cancelled"
        /\ x.ctx = c /\ x.over = TRUE
    BY <1>1, <1>2, <2>2 DEF Fix
  <2> HIDE DEF x
  <2> DEFINE y == [x EXCEPT !.pushed = pushed]
  <2>4. /\ y \in Fix /\ y.pc = fix[f].pc /\ y.attempts = fix[f].attempts
        /\ y.end = fix[f].end /\ y.copy = fix[f].copy /\ y.status = "cancelled"
        /\ y.ctx = c /\ y.over = TRUE
    BY <1>3, <2>3
  <2>5. fix[f].status \in {"queued", "retrying"} => fix[f].ctx = FALSE /\ c = FALSE
    BY <1>1, <2>2 DEF FixOne, Fix
  <2>6. fix[f].status \in {"queued", "running", "retrying"}
    BY <1>6 DEF UnderWay
  <2> HIDE DEF y
  <2>7. Cancelled(fix[f], y)
    <3>1. CASE fix[f].status = "running"
      BY <2>2, <2>4, <3>1 DEF Cancelled
    <3>2. CASE fix[f].status \in {"queued", "retrying"}
      BY <2>4, <2>5, <3>2 DEF Cancelled
    <3> QED BY <2>6, <3>1, <3>2
  <2> QED BY <1>5, <2>1, <2>4, <2>7 DEF y
<1>7. CASE ~UnderWay(f)
  <2>1. CancelFix(f) = fix[f]
    BY <1>7 DEF CancelFix
  <2> QED BY <1>5, <2>1
<1> QED BY <1>6, <1>7

LEMMA PushTasks ==
  ASSUME fix \in [Fixes -> Fix], FixesOK, NEW r \in Reviews, NEW bot \in BOOLEAN, Push(r, bot)
  PROVE  /\ fix' \in [Fixes -> Fix]
         /\ \A f \in Fixes : Cancelled(fix[f], fix'[f])
<1>1. PICK own \in {f \in Fixes : bot = fix[f].pushed} :
        LET noticed == [fix EXCEPT ![own].pushed = FALSE]
            spares == \/ Active = {}
                      \/ \E s \in Active : session[s] = "fixing" /\ IsFixReviewPush(bot)
        IN fix' = IF spares THEN noticed
                  ELSE [f \in Fixes |-> [CancelFix(f) EXCEPT !.pushed = noticed[f].pushed]]
  BY DEF Push
<1> DEFINE noticed == [fix EXCEPT ![own].pushed = FALSE]
           pushed(f) == IF f = own THEN FALSE ELSE fix[f].pushed
<1>2. \A f \in Fixes : fix[f].pushed \in BOOLEAN /\ fix[f] = [fix[f] EXCEPT !.pushed = fix[f].pushed]
  <2>1. \A x \in Fix : x.pushed \in BOOLEAN /\ x = [x EXCEPT !.pushed = x.pushed]
    BY DEF Fix
  <2> QED BY <2>1
<1>3. /\ DOMAIN noticed = Fixes /\ noticed = [f \in Fixes |-> noticed[f]]
      /\ \A f \in Fixes : noticed[f] = [fix[f] EXCEPT !.pushed = pushed(f)]
  <2>1. own \in Fixes
    OBVIOUS
  <2>2. \A f \in Fixes : f # own => noticed[f] = fix[f]
    BY <2>1
  <2>3. noticed[own] = [fix[own] EXCEPT !.pushed = FALSE]
    BY <2>1
  <2>4. DOMAIN noticed = Fixes /\ noticed = [f \in Fixes |-> noticed[f]]
    BY <2>1
  <2> QED BY <1>2, <2>2, <2>3, <2>4
<1>4. \A f \in Fixes : noticed[f].pushed = pushed(f)
  <2>1. \A x \in Fix, b \in BOOLEAN : [x EXCEPT !.pushed = b].pushed = b
    BY DEF Fix
  <2>2. \A f \in Fixes : pushed(f) \in BOOLEAN
    BY <1>2
  <2> QED BY <1>3, <2>1, <2>2
<1>5. \A f \in Fixes : pushed(f) \in BOOLEAN /\ (fix[f].status = "none" => ~pushed(f))
  <2>1. \A f \in Fixes : fix[f].status = "none" => fix[f] = NoFix
    BY DEF FixesOK, FixOne
  <2>2. NoFix.pushed = FALSE
    BY DEF NoFix
  <2> QED BY <1>2, <2>1, <2>2
<1>6. fix' = noticed \/ fix' = [f \in Fixes |-> [CancelFix(f) EXCEPT !.pushed = noticed[f].pushed]]
  BY <1>1
<1> HIDE DEF noticed, pushed
<1>7. CASE fix' = noticed
  <2>1. ASSUME NEW f \in Fixes
        PROVE  noticed[f] \in Fix /\ Cancelled(fix[f], noticed[f])
    <3>1. noticed[f] = [fix[f] EXCEPT !.pushed = pushed(f)]
      BY <1>3
    <3>2. pushed(f) \in BOOLEAN /\ (fix[f].status = "none" => ~pushed(f))
      BY <1>5
    <3>3. /\ [fix[f] EXCEPT !.pushed = pushed(f)] \in Fix
          /\ Cancelled(fix[f], [fix[f] EXCEPT !.pushed = pushed(f)])
      BY <3>2, CancelFixOne
    <3> QED BY <3>1, <3>3
  <2> QED BY <1>3, <1>7, <2>1
<1>8. CASE fix' = [f \in Fixes |-> [CancelFix(f) EXCEPT !.pushed = noticed[f].pushed]]
  <2>1. ASSUME NEW f \in Fixes
        PROVE  fix'[f] \in Fix /\ Cancelled(fix[f], fix'[f])
    <3>1. fix'[f] = [CancelFix(f) EXCEPT !.pushed = pushed(f)]
      BY <1>4, <1>8
    <3>2. pushed(f) \in BOOLEAN /\ (fix[f].status = "none" => ~pushed(f))
      BY <1>5
    <3>3. /\ [CancelFix(f) EXCEPT !.pushed = pushed(f)] \in Fix
          /\ Cancelled(fix[f], [CancelFix(f) EXCEPT !.pushed = pushed(f)])
      BY <3>2, CancelFixOne
    <3> QED BY <3>1, <3>3
  <2>2. DOMAIN fix' = Fixes /\ fix' = [f \in Fixes |-> fix'[f]]
    BY <1>8
  <2> QED BY <2>1, <2>2
<1> QED BY <1>6, <1>7, <1>8

LEMMA CancelledTask ==
  ASSUME NEW x \in Fix, NEW y \in Fix, Cancelled(x, y), FixOne(x),
         NEW f, NEW rows, NEW status, FixRow(x, f, rows, status)
  PROVE  /\ FixOne(y) /\ FixRow(y, f, rows, status)
         /\ x.status = "none" => y.status = "none"
         /\ x.over => y.over
         /\ x.status \in {"queued", "running", "cancelled"} =>
              y.status \in {"queued", "running", "cancelled"}
         /\ y.status \in {"succeeded", "failed"} => x.status = y.status
         /\ y.pc = x.pc
<1>1. NoFix.status = "none"
  BY DEF NoFix
<1>2. FixOne(NoFix)
  BY DEF NoFix, FixOne, Ended
<1>3. CASE x.status = "none"
  <2>1. x = NoFix /\ y = NoFix
    BY <1>3 DEF Cancelled, FixOne
  <2> QED BY <1>1, <1>2, <2>1
<1>4. CASE x.status # "none"
  <2>1. FixOne(y)
    BY <1>4 DEF Cancelled, FixOne, Ended
  <2>2. FixRow(y, f, rows, status)
    BY <1>4 DEF Cancelled, FixRow, Live
  <2> QED BY <1>4, <2>1, <2>2 DEF Cancelled
<1> QED BY <1>3, <1>4

LEMMA PushStep ==
  ASSUME IInv, NEW r \in Reviews, NEW bot \in BOOLEAN, Push(r, bot)
  PROVE  IInv'
<1> DEFINE next(x) == IF x = r THEN [NoReview EXCEPT !.pc = "review"]
                      ELSE IF ReviewAt(x, "review") THEN [NoReview EXCEPT !.pc = "over"]
                      ELSE review[x]
<1>1. /\ review \in [Reviews -> Review] /\ review[r].pc = "none"
      /\ \A x \in 1 .. r - 1 : review[x].pc # "none"
      /\ faults \in 0 .. MaxFaults /\ UNCHANGED <<session, round>>
      /\ review' = [x \in Reviews |-> next(x)]
  BY AtReview DEF Push, ReviewAt
<1>2. faults' \in 0 .. MaxFaults /\ faults <= faults'
  <2>1. Fault("push") \/ NoFault
    BY DEF Push
  <2> QED BY <1>1, <2>1, FaultTypes
<1>3. LET q == [NoReview EXCEPT !.pc = "review"] IN q \in Review /\ q.pc = "review"
  <2>1. NoRound \in Round /\ NoSession \in Session /\ "review" \in ReviewPC
    BY DEF Session, NoSession, Round, NoRound, ReviewPC
  <2> QED BY <2>1 DEF NoReview, Review
<1>4. LET q == [NoReview EXCEPT !.pc = "over"] IN q \in Review /\ q.pc = "over"
  BY OverReview
<1>5. /\ \A x \in Reviews : next(x) \in Review
      /\ next(r).pc = "review"
      /\ \A x \in Reviews \ {r} : /\ review[x].pc = "review" => next(x).pc = "over"
                                  /\ review[x].pc # "review" => next(x) = review[x]
  BY <1>1, <1>3, <1>4 DEF ReviewAt
<1> HIDE DEF next
<1>6. /\ review' \in [Reviews -> Review] /\ review'[r].pc = "review"
      /\ \A x \in Reviews \ {r} : /\ review[x].pc = "review" => review'[x].pc = "over"
                                  /\ review[x].pc # "review" => review'[x] = review[x]
  BY <1>1, <1>5
<1>7. "review" \notin Busy /\ "none" \notin Busy /\ "over" \notin Busy
  BY DEF Busy
<1>8. \A x \in Reviews : review'[x].pc \in Busy => x # r /\ review'[x] = review[x]
  BY <1>6, <1>7
<1>9. \A x \in Reviews : review[x].pc \in Busy => x # r /\ review'[x] = review[x]
  BY <1>1, <1>6, <1>7
<1>10. OneBusy'
  BY <1>8 DEF IInv, OneBusy
<1>11. Order'
  <2> SUFFICES ASSUME NEW a \in Reviews, NEW x \in Reviews
               PROVE  /\ review'[a].pc \in Busy /\ review'[x].pc \in {"none", "review"} => a < x
                      /\ review'[a].pc = "review" /\ review'[x].pc = "none" => a < x
                      /\ review'[a].pc = "review" /\ review'[x].pc = "review" => a = x
    BY DEF Order
  <2>1. /\ review[a].pc \in Busy /\ review[x].pc \in {"none", "review"} => a < x
        /\ review[a].pc = "review" /\ review[x].pc = "none" => a < x
        /\ review[a].pc = "review" /\ review[x].pc = "review" => a = x
    BY DEF IInv, Order
  <2>2. review'[a].pc = "review" => a = r
    BY <1>6
  <2>3. review'[x].pc = "review" => x = r
    BY <1>6
  <2>4. review'[x].pc = "none" => review[x].pc = "none" /\ x # r
    BY <1>6
  <2>5. review[x].pc = "none" /\ x # r => r < x
    BY <1>1, Ids
  <2> QED BY <1>1, <1>8, <2>1, <2>2, <2>3, <2>4, <2>5
<1>12. Room'
  <2>1. \A x \in Reviews : review'[x].pc \in Early => review[x].pc \in Early
    BY <1>1, <1>6 DEF Early, ReviewPC
  <2> QED BY <1>1, <2>1 DEF IInv, Room
<1>13. fix' \in [Fixes -> Fix] /\ \A f \in Fixes : Cancelled(fix[f], fix'[f])
  BY PushTasks DEF IInv, TypeOK
<1>14. ASSUME NEW f \in Fixes
       PROVE  /\ FixOne(fix'[f]) /\ FixRow(fix'[f], f, round[f[1]], session[f[1]])
              /\ fix[f].status = "none" => fix'[f].status = "none"
              /\ fix[f].over => fix'[f].over
              /\ fix[f].status \in {"queued", "running", "cancelled"} =>
                   fix'[f].status \in {"queued", "running", "cancelled"}
              /\ fix'[f].status \in {"succeeded", "failed"} => fix[f].status = fix'[f].status
              /\ fix'[f].pc = fix[f].pc
  <2>1. /\ fix[f] \in Fix /\ fix'[f] \in Fix /\ Cancelled(fix[f], fix'[f])
        /\ FixOne(fix[f]) /\ FixRow(fix[f], f, round[f[1]], session[f[1]])
    BY <1>13 DEF IInv, TypeOK, FixesOK
  <2> QED BY <2>1, CancelledTask
<1>15. TypeOK' /\ OneActive'
  BY <1>1, <1>2, <1>6, <1>13 DEF IInv, TypeOK, OneActive, Active
<1>16. FixesOK'
  BY <1>1, <1>14 DEF FixesOK
<1>17. RowsOK'
  <2> SUFFICES ASSUME NEW k \in Sessions, NEW m \in 1 .. Len(round[k]), ~round[k][m].done
               PROVE  /\ m = Len(round[k])
                      /\ \/ round[k][m].task
                         \/ \E x \in Reviews : review'[x].pc \in Recording /\ review'[x].s = k
    BY <1>1 DEF RowsOK
  <2>1. /\ m = Len(round[k])
        /\ \/ round[k][m].task
           \/ \E x \in Reviews : review[x].pc \in Recording /\ review[x].s = k
    BY DEF IInv, RowsOK
  <2>2. \A x \in Reviews : review[x].pc \in Recording => review'[x] = review[x]
    BY <1>9 DEF Recording, Busy, ReviewPC
  <2> QED BY <2>1, <2>2
<1>18. ReviewsOK'
  <2> SUFFICES ASSUME NEW x \in Reviews PROVE ReviewOne(review'[x], round, session, fix')
    BY <1>1 DEF ReviewsOK
  <2>1. CASE review'[x].pc \in Busy
    <3>1. /\ review'[x] = review[x] /\ review[x] \in Review
          /\ ReviewOne(review[x], round, session, fix)
      BY <1>8, <2>1, AtReview
    <3>2. review[x].pc = "record" =>
            /\ fix'[<<review[x].s, review[x].n>>].status \in {"queued", "running", "cancelled"}
            /\ fix'[<<review[x].s, review[x].n>>].pc \in {"idle", "exec"}
      <4> SUFFICES ASSUME review[x].pc = "record"
                   PROVE  /\ fix'[<<review[x].s, review[x].n>>].status \in {"queued", "running", "cancelled"}
                          /\ fix'[<<review[x].s, review[x].n>>].pc \in {"idle", "exec"}
        OBVIOUS
      <4>1. review[x].s \in Sessions /\ review[x].n > 0
        BY <3>1 DEF ReviewOne, Busy, ReviewPC, Recording
      <4>2. review[x].n \in {0} \cup Reviews
        BY <3>1 DEF Review
      <4>3. <<review[x].s, review[x].n>> \in Fixes
        BY <4>1, <4>2, Ids DEF Fixes
      <4> QED BY <1>14, <3>1, <4>3 DEF ReviewOne
    <3>3. \A f \in Fixes : /\ fix[f].status = "none" => fix'[f].status = "none"
                           /\ fix[f].over => fix'[f].over
      BY <1>14
    <3> QED BY <3>1, <3>2, <3>3, ReviewKeeps
  <2>2. CASE review'[x].pc \notin Busy
    BY <2>2 DEF ReviewOne, Busy, Recording, ReviewPC
  <2> QED BY <2>1, <2>2
<1>19. SettledOK'
  <2>1. faults' = 0 => faults = 0
    BY <1>1, <1>2, Ids
  <2> QED BY <1>1, <1>14, <2>1 DEF IInv, SettledOK
<1> QED BY <1>10, <1>11, <1>12, <1>15, <1>16, <1>17, <1>18, <1>19 DEF IInv

-----------------------------------------------------------------------------
(***************************************************************************)
(* The steps of a repair.                                                  *)
(***************************************************************************)
FixBecomes(f, y) == fix' = [fix EXCEPT ![f] = y]
\* A review records the task of f: f is not beyond its container's work.
Recorded(f) == \E r \in Reviews : review[r].pc = "record" /\ f = <<review[r].s, review[r].n>>

LEMMA RecordedTask ==
  ASSUME IInv, NEW f \in Fixes, Recorded(f)
  PROVE  fix[f].status \in {"queued", "running", "cancelled"} /\ fix[f].pc \in {"idle", "exec"}
BY DEF IInv, ReviewsOK, ReviewOne, Recorded

\* A step of a repair that leaves the rounds alone.
LEMMA FixMoves ==
  ASSUME IInv, NEW f \in Fixes, NEW y \in Fix, FixBecomes(f, y), UNCHANGED <<round, review>>,
         session' \in [Sessions -> Session], OneActive',
         \A s \in Sessions : session[s] \in ActiveStatus => session'[s] \in ActiveStatus,
         fix[f].status # "none", y.status # "none", FixOne(y), fix[f].over => y.over,
         Recorded(f) => /\ y.status \in {"queued", "running", "cancelled"}
                        /\ y.pc \in {"idle", "exec"},
         faults' \in 0 .. MaxFaults, faults <= faults',
         faults' = 0 /\ y.status \in {"succeeded", "failed"} /\ y.pc # "round" =>
           round[f[1]][f[2]].done
  PROVE  IInv'
<1>1. /\ fix' \in [Fixes -> Fix] /\ fix'[f] = y /\ \A g \in Fixes : g # f => fix'[g] = fix[g]
  BY DEF IInv, TypeOK, FixBecomes
<1>2. TypeOK' /\ OneBusy' /\ Order' /\ Room' /\ RowsOK'
  BY <1>1 DEF IInv, TypeOK, OneBusy, Order, Room, RowsOK
<1>3. FixesOK'
  <2> SUFFICES ASSUME NEW g \in Fixes
               PROVE  FixOne(fix'[g]) /\ FixRow(fix'[g], g, round[g[1]], session'[g[1]])
    BY DEF FixesOK
  <2>1. /\ FixOne(fix[g]) /\ FixRow(fix[g], g, round[g[1]], session[g[1]])
        /\ g[1] \in Sessions
    BY DEF IInv, FixesOK, Fixes
  <2>2. CASE g = f
    BY <1>1, <2>1, <2>2 DEF FixRow, Live
  <2>3. CASE g # f
    BY <1>1, <2>1, <2>3 DEF FixRow
  <2> QED BY <2>2, <2>3
<1>4. ReviewsOK'
  <2> SUFFICES ASSUME NEW x \in Reviews PROVE ReviewOne(review[x], round, session', fix')
    BY DEF ReviewsOK
  <2>1. review[x] \in Review /\ ReviewOne(review[x], round, session, fix)
    BY AtReview
  <2>2. review[x].pc = "record" =>
          /\ fix'[<<review[x].s, review[x].n>>].status \in {"queued", "running", "cancelled"}
          /\ fix'[<<review[x].s, review[x].n>>].pc \in {"idle", "exec"}
    <3> SUFFICES ASSUME review[x].pc = "record"
                 PROVE  /\ fix'[<<review[x].s, review[x].n>>].status \in {"queued", "running", "cancelled"}
                        /\ fix'[<<review[x].s, review[x].n>>].pc \in {"idle", "exec"}
      OBVIOUS
    <3>1. review[x].s \in Sessions /\ review[x].n > 0
      BY <2>1 DEF ReviewOne, Busy, ReviewPC, Recording
    <3>2. review[x].n \in {0} \cup Reviews
      BY <2>1 DEF Review
    <3>3. <<review[x].s, review[x].n>> \in Fixes
      BY <3>1, <3>2, Ids DEF Fixes
    <3>4. CASE f = <<review[x].s, review[x].n>>
      BY <1>1, <3>4 DEF Recorded
    <3>5. CASE f # <<review[x].s, review[x].n>>
      BY <1>1, <2>1, <3>3, <3>5 DEF ReviewOne
    <3> QED BY <3>4, <3>5
  <2>3. \A g \in Fixes : /\ fix[g].status = "none" => fix'[g].status = "none"
                         /\ fix[g].over => fix'[g].over
    BY <1>1
  <2>4. ReviewOne(review[x], round, session, fix')
    BY <2>1, <2>2, <2>3, ReviewKeeps
  <2>5. review[x].pc \in {"create", "enqueue", "record"} => review[x].s \in Sessions
    BY <2>1 DEF ReviewOne, Busy, ReviewPC
  <2> QED BY <2>4, <2>5 DEF ReviewOne
<1>5. SettledOK'
  <2>1. faults' = 0 => faults = 0
    BY Ids DEF IInv, TypeOK
  <2> QED BY <1>1, <2>1 DEF IInv, SettledOK
<1> QED BY <1>2, <1>3, <1>4, <1>5 DEF IInv

LEMMA SessionStays ==
  ASSUME IInv, UNCHANGED session
  PROVE  /\ session' \in [Sessions -> Session] /\ OneActive'
         /\ \A s \in Sessions : session[s] \in ActiveStatus => session'[s] \in ActiveStatus
BY DEF IInv, TypeOK, OneActive, Active

\* A handler that returns leaves the row as it is.
LEMMA ReturnedTask ==
  ASSUME NEW f \in Fixes, fix[f] \in Fix
  PROVE  /\ Returned(f) \in Fix /\ Returned(f).status = fix[f].status
         /\ Returned(f).over = fix[f].over /\ Returned(f).pc = "idle" /\ ~Returned(f).ctx
BY StatusTypes DEF Returned, Fix, FixPC

LEMMA IdleTask ==
  ASSUME NEW f \in Fixes, fix[f].status # "none", FixOne(fix[f]), NEW y,
         y.status = fix[f].status, y.over = fix[f].over, y.pc = "idle", ~y.ctx
  PROVE  FixOne(y)
BY DEF FixOne

LEMMA SettledTask ==
  ASSUME fix \in [Fixes -> Fix], NEW f \in Fixes, fix[f].status # "none", Settled(f),
         FixOne(fix[f])
  PROVE  \E y \in Fix : /\ FixBecomes(f, y) /\ y.status = fix[f].status /\ y.pc = "idle"
                        /\ y.over = fix[f].over /\ FixOne(y)
<1> DEFINE x == Returned(f)
           z == [x EXCEPT !.attempts = MaxAttempts]
<1>1. x \in Fix /\ x.pc = "idle" /\ x.status = fix[f].status /\ x.over = fix[f].over /\ ~x.ctx
  BY ReturnedTask
<1>2. FixBecomes(f, x) \/ FixBecomes(f, z)
  BY DEF Settled, FixBecomes, Archived
<1> HIDE DEF x
<1>3. MaxAttempts \in 0 .. MaxAttempts
  BY Ids
<1>4. z \in Fix /\ z.pc = "idle" /\ z.status = fix[f].status /\ z.over = fix[f].over /\ ~z.ctx
  BY <1>1, <1>3 DEF Fix
<1> HIDE DEF z
<1>5. FixOne(x) /\ FixOne(z)
  BY <1>1, <1>4, IdleTask
<1> QED BY <1>1, <1>2, <1>4, <1>5

LEMMA UnpersistedTask ==
  ASSUME fix \in [Fixes -> Fix], NEW f \in Fixes, fix[f].status \in Ended, Unpersisted(f),
         fix[f].end # "none", FixOne(fix[f])
  PROVE  \E y \in Fix : /\ FixBecomes(f, y) /\ y.status = fix[f].status
                        /\ y.over = fix[f].over /\ FixOne(y)
<1>1. CASE Settled(f)
  BY <1>1, SettledTask DEF Ended
<1>2. CASE /\ Again(f)
           /\ fix' = [fix EXCEPT ![f].pc = "round", ![f].attempts = @ + 1]
  <2> DEFINE y == [fix[f] EXCEPT !.pc = "round", !.attempts = fix[f].attempts + 1]
  <2>1. fix[f] \in Fix /\ "round" \in FixPC
    BY DEF FixPC
  <2>2. fix[f].attempts \in 0 .. MaxAttempts /\ fix[f].attempts < MaxAttempts
    BY <1>2, <2>1 DEF Again, Fix
  <2>3. fix[f].attempts + 1 \in 0 .. MaxAttempts
    BY <2>2, Ids
  <2>4. FixBecomes(f, y)
    BY <1>2 DEF FixBecomes
  <2>5. /\ y \in Fix /\ y.status = fix[f].status /\ y.pc = "round" /\ y.end = fix[f].end
        /\ y.over = fix[f].over
    BY <2>1, <2>3 DEF Fix
  <2> HIDE DEF y
  <2>6. FixOne(y)
    BY <2>5 DEF FixOne, Ended
  <2> QED BY <2>4, <2>5, <2>6
<1> QED BY <1>1, <1>2 DEF Unpersisted

\* What is known at a step of a repair.
LEMMA AtFix ==
  ASSUME IInv, NEW f \in Fixes
  PROVE  /\ fix \in [Fixes -> Fix] /\ fix[f] \in Fix /\ FixOne(fix[f])
         /\ FixRow(fix[f], f, round[f[1]], session[f[1]])
         /\ faults \in 0 .. MaxFaults
         /\ f = <<f[1], f[2]>> /\ f[1] \in Sessions /\ f[2] \in Nat \ {0} /\ f[2] \in Reviews
BY Ids DEF IInv, TypeOK, FixesOK, Fixes

LEMMA StartFixStep ==
  ASSUME IInv, NEW f \in Fixes, StartFix(f)
  PROVE  IInv'
<1> DEFINE y == [fix[f] EXCEPT !.status = "running", !.pc = "exec",
                               !.attempts = fix[f].attempts + 1]
<1>1. /\ fix[f] \in Fix /\ FixOne(fix[f]) /\ fix[f].pc = "idle"
      /\ fix[f].status \in {"queued", "running", "retrying", "failed"}
      /\ UNCHANGED <<session, round, review, faults>> /\ faults \in 0 .. MaxFaults
      /\ FixBecomes(f, y) /\ fix[f].attempts < MaxAttempts
  BY AtFix DEF StartFix, FixBecomes, FixAt, UnderWay, Again
<1>2. ~fix[f].ctx /\ fix[f].attempts \in 0 .. MaxAttempts
  BY <1>1 DEF FixOne, Fix
<1>3. /\ fix[f].attempts + 1 \in 0 .. MaxAttempts /\ "running" \in FixStatus /\ "exec" \in FixPC
  BY <1>1, <1>2, Ids DEF FixStatus, FixPC
<1>4. /\ y \in Fix /\ y.status = "running" /\ y.pc = "exec" /\ y.ctx = fix[f].ctx
      /\ y.over = fix[f].over
  BY <1>1, <1>3 DEF Fix
<1> HIDE DEF y
<1>5. FixOne(y)
  BY <1>2, <1>4 DEF FixOne, Ended
<1>6. /\ session' \in [Sessions -> Session] /\ OneActive'
      /\ \A s \in Sessions : session[s] \in ActiveStatus => session'[s] \in ActiveStatus
  BY <1>1, SessionStays
<1>7. fix[f].status # "none"
  BY <1>1
<1> QED BY <1>1, <1>4, <1>5, <1>6, <1>7, FixMoves

LEMMA PushBranchStep ==
  ASSUME IInv, NEW f \in Fixes, PushBranch(f)
  PROVE  IInv'
<1> DEFINE y == [fix[f] EXCEPT !.pushed = TRUE, !.end = "succeeded"]
<1>1. /\ fix[f] \in Fix /\ FixOne(fix[f]) /\ fix[f].pc = "exec" /\ ~fix[f].ctx
      /\ UNCHANGED <<session, round, review, faults>> /\ faults \in 0 .. MaxFaults
      /\ FixBecomes(f, y)
  BY AtFix DEF PushBranch, FixBecomes, FixAt
<1>2. fix[f].status = "running"
  BY <1>1 DEF FixOne
<1>3. /\ y \in Fix /\ y.status = fix[f].status /\ y.pc = fix[f].pc /\ y.ctx = fix[f].ctx
      /\ y.over = fix[f].over
  BY <1>1 DEF Fix
<1> HIDE DEF y
<1>4. FixOne(y)
  BY <1>1, <1>2, <1>3 DEF FixOne, Ended
<1>5. /\ session' \in [Sessions -> Session] /\ OneActive'
      /\ \A s \in Sessions : session[s] \in ActiveStatus => session'[s] \in ActiveStatus
  BY <1>1, SessionStays
<1>6. fix[f].status # "none"
  BY <1>2
<1>7. /\ y.status # "none" /\ y.pc \in {"idle", "exec"}
      /\ y.status \in {"queued", "running", "cancelled"}
      /\ y.status \notin {"succeeded", "failed"}
  BY <1>1, <1>2, <1>3
<1>8. faults' \in 0 .. MaxFaults /\ faults <= faults'
  BY <1>1, Ids
<1>9. UNCHANGED <<round, review>> /\ FixBecomes(f, y)
  BY <1>1
<1> QED BY <1>3, <1>4, <1>5, <1>6, <1>7, <1>8, <1>9, FixMoves

LEMMA ExecStep ==
  ASSUME IInv, Undisturbed, NEW f \in Fixes, Exec(f)
  PROVE  IInv'
<1>1. /\ fix[f] \in Fix /\ FixOne(fix[f]) /\ fix[f].pc = "exec" /\ fix \in [Fixes -> Fix]
      /\ UNCHANGED <<session, round, review, faults>> /\ faults \in 0 .. MaxFaults
  BY AtFix DEF Exec, FixAt
<1>2. ~Recorded(f)
  BY DEF Exec, Undisturbed, Recorded, ReviewAt
<1>3. /\ session' \in [Sessions -> Session] /\ OneActive'
      /\ \A s \in Sessions : session[s] \in ActiveStatus => session'[s] \in ActiveStatus
  BY <1>1, SessionStays
<1>4. /\ fix[f].status = "running" \/ fix[f].status = "cancelled"
      /\ ~fix[f].ctx => fix[f].status = "running"
  BY <1>1 DEF FixOne
<1>5. fix[f].status # "none"
  BY <1>4
<1>6. ASSUME NEW end \in {"succeeded", "zero", "failed", "error", "cancelled"}, Ends(f, end)
      PROVE  IInv'
  <2> DEFINE y == [fix[f] EXCEPT !.pc = "final", !.end = end]
  <2>1. FixBecomes(f, y)
    BY <1>6 DEF Ends, FixBecomes
  <2>2. /\ y \in Fix /\ y.status = fix[f].status /\ y.pc = "final" /\ y.ctx = fix[f].ctx
        /\ y.end = end /\ y.over = fix[f].over
    BY <1>1 DEF Fix, FixPC
  <2> HIDE DEF y
  <2>3. FixOne(y)
    BY <1>1, <1>4, <2>2 DEF FixOne, Ended
  <2>4. y.status \notin {"succeeded", "failed", "none"}
    BY <1>4, <2>2
  <2> QED BY <1>1, <1>2, <1>3, <1>5, <2>1, <2>2, <2>3, <2>4, FixMoves
<1> QED BY <1>6 DEF Exec

LEMMA FinalStep ==
  ASSUME IInv, NEW f \in Fixes, Final(f)
  PROVE  IInv'
<1>1. /\ fix[f] \in Fix /\ FixOne(fix[f]) /\ fix[f].pc = "final" /\ fix \in [Fixes -> Fix]
      /\ UNCHANGED <<session, round, review>> /\ faults \in 0 .. MaxFaults
  BY AtFix DEF Final, FixAt
<1>2. ~Recorded(f)
  BY <1>1, RecordedTask
<1>3. /\ session' \in [Sessions -> Session] /\ OneActive'
      /\ \A s \in Sessions : session[s] \in ActiveStatus => session'[s] \in ActiveStatus
  BY <1>1, SessionStays
<1>4. fix[f].status \in {"running", "cancelled"} /\ fix[f].end # "none" /\ fix[f].status # "none"
  BY <1>1 DEF FixOne
<1>5. faults' \in 0 .. MaxFaults /\ faults <= faults'
  <2>1. Fault("final") \/ NoFault
    BY DEF Final
  <2> QED BY <1>1, <2>1, FaultTypes
<1>6. CASE Outcome(f) = "retrying" /\ fix' = [fix EXCEPT ![f] = [Returned(f) EXCEPT !.status = "retrying"]]
  <2> DEFINE x == Returned(f)
             y == [x EXCEPT !.status = "retrying"]
  <2>1. FixBecomes(f, y)
    BY <1>6 DEF FixBecomes
  <2>2. x \in Fix /\ x.pc = "idle" /\ x.over = fix[f].over /\ ~x.ctx
    BY <1>1, ReturnedTask
  <2> HIDE DEF x
  <2>3. /\ y \in Fix /\ y.status = "retrying" /\ y.pc = "idle" /\ ~y.ctx
        /\ y.over = fix[f].over
    BY <2>2 DEF Fix, FixStatus
  <2> HIDE DEF y
  <2>4. FixOne(y)
    BY <2>3 DEF FixOne, Ended
  <2> QED BY <1>1, <1>2, <1>3, <1>4, <1>5, <2>1, <2>3, <2>4, FixMoves
<1>7. CASE Outcome(f) # "retrying" /\ fix' = [fix EXCEPT ![f] = RecordedEnd(f)]
  <2> DEFINE status == Outcome(f)
             y == [fix[f] EXCEPT !.pc = "round", !.status = status, !.over = TRUE]
  <2>1. FixBecomes(f, y)
    BY <1>7 DEF FixBecomes, RecordedEnd
  <2>2. status \in Ended /\ status \in FixStatus
    <3>1. fix[f].end \in {"none", "succeeded", "failed", "error", "zero", "cancelled"}
      BY <1>1 DEF Fix
    <3>2. status \in {"succeeded", "failed", "cancelled"}
      BY <1>4, <1>7, <3>1 DEF Outcome, QualityFailure
    <3> QED BY <3>2 DEF Ended, FixStatus
  <2> HIDE DEF status
  <2>3. /\ y \in Fix /\ y.status = status /\ y.pc = "round" /\ y.end = fix[f].end
        /\ y.over = TRUE
    BY <1>1, <2>2 DEF Fix, FixPC
  <2> HIDE DEF y
  <2>4. FixOne(y) /\ y.status # "none"
    BY <1>4, <2>2, <2>3 DEF FixOne, Ended
  <2> QED BY <1>1, <1>2, <1>3, <1>4, <1>5, <2>1, <2>2, <2>3, <2>4, FixMoves
<1>8. CASE Fault("final") /\ Settled(f)
  <2>1. PICK y \in Fix : /\ FixBecomes(f, y) /\ y.status = fix[f].status /\ y.pc = "idle"
                         /\ y.over = fix[f].over /\ FixOne(y)
    BY <1>1, <1>4, <1>8, SettledTask
  <2>2. faults' # 0
    BY <1>1, <1>8 DEF Fault
  <2> QED BY <1>1, <1>2, <1>3, <1>4, <1>5, <2>1, <2>2, FixMoves
<1> QED BY <1>6, <1>7, <1>8 DEF Final

\* After the final status a task is over, and not recorded any more.
LEMMA FinishedTask ==
  ASSUME IInv, NEW f \in Fixes, fix[f].pc \in {"round", "find", "session"}
  PROVE  /\ fix[f].status \in Ended /\ fix[f].status # "none" /\ ~Recorded(f)
         /\ fix[f].end # "none" /\ f[2] \in 1 .. Len(round[f[1]])
         /\ faults = 0 /\ fix[f].status \in {"succeeded", "failed"} /\ fix[f].pc # "round" =>
              round[f[1]][f[2]].done
<1>1. fix[f] \in Fix /\ FixOne(fix[f]) /\ FixRow(fix[f], f, round[f[1]], session[f[1]])
      /\ f[1] \in Sessions /\ f[2] \in Nat \ {0}
  BY AtFix
<1>2. fix[f].status \in FixStatus /\ NoFix.pc = "idle"
  BY <1>1 DEF Fix, NoFix
<1>3. fix[f].status \in Ended /\ fix[f].status # "none" /\ fix[f].end # "none"
  BY <1>1, <1>2 DEF FixOne, FixStatus, Ended
<1>4. ~Recorded(f)
  BY RecordedTask
<1>5. f[2] \in 1 .. Len(round[f[1]])
  <2>1. round[f[1]] \in Seq(Round)
    BY <1>1, AtReview DEF IInv, TypeOK
  <2> QED BY <1>1, <1>3, <2>1 DEF FixRow
<1> QED BY <1>3, <1>4, <1>5 DEF IInv, SettledOK

LEMMA FindSessionStep ==
  ASSUME IInv, NEW f \in Fixes, FindSession(f)
  PROVE  IInv'
<1>1. /\ fix[f] \in Fix /\ FixOne(fix[f]) /\ fix[f].pc = "find" /\ fix \in [Fixes -> Fix]
      /\ UNCHANGED <<session, round, review>> /\ faults \in 0 .. MaxFaults
  BY AtFix DEF FindSession, FixAt
<1>2. /\ fix[f].status \in Ended /\ fix[f].status # "none" /\ ~Recorded(f)
      /\ fix[f].end # "none"
      /\ faults = 0 /\ fix[f].status \in {"succeeded", "failed"} => round[f[1]][f[2]].done
  BY <1>1, FinishedTask
<1>3. /\ session' \in [Sessions -> Session] /\ OneActive'
      /\ \A s \in Sessions : session[s] \in ActiveStatus => session'[s] \in ActiveStatus
  BY <1>1, SessionStays
<1>4. faults' \in 0 .. MaxFaults /\ faults <= faults' /\ (faults' = 0 => faults = 0)
  <2>1. Fault("session") \/ NoFault
    BY DEF FindSession
  <2>2. faults' \in 0 .. MaxFaults /\ faults <= faults'
    BY <1>1, <2>1, FaultTypes
  <2> QED BY <1>1, <2>2, Ids
<1>5. ASSUME NEW y \in Fix, FixBecomes(f, y), y.status = fix[f].status, y.over = fix[f].over,
             FixOne(y)
      PROVE  IInv'
  BY <1>1, <1>2, <1>3, <1>4, <1>5, FixMoves
<1>6. CASE /\ f[1] \in Active
           /\ fix' = [fix EXCEPT ![f].pc = "session", ![f].copy = session[f[1]]]
  <2> DEFINE copy == session[f[1]]
             y == [fix[f] EXCEPT !.pc = "session", !.copy = copy]
  <2>1. FixBecomes(f, y)
    BY <1>6 DEF FixBecomes
  <2>2. copy \in ActiveStatus /\ copy \in Session /\ "session" \in FixPC
    BY <1>6, StatusTypes DEF Active, FixPC
  <2> HIDE DEF copy
  <2>3. y \in Fix /\ y.status = fix[f].status /\ y.pc = "session" /\ y.end = fix[f].end
        /\ y.copy = copy /\ y.over = fix[f].over
    BY <1>1, <2>2 DEF Fix
  <2> HIDE DEF y
  <2>4. FixOne(y)
    BY <1>1, <1>2, <2>2, <2>3 DEF FixOne, Ended
  <2> QED BY <1>5, <2>1, <2>3, <2>4
<1>7. CASE Settled(f)
  BY <1>1, <1>2, <1>5, <1>7, SettledTask
<1>8. CASE Unpersisted(f)
  BY <1>1, <1>2, <1>5, <1>8, UnpersistedTask
<1> QED BY <1>6, <1>7, <1>8 DEF FindSession

LEMMA PersistSessionStep ==
  ASSUME IInv, NEW f \in Fixes, PersistSession(f)
  PROVE  IInv'
<1> DEFINE status == IF fix[f].end \in {"succeeded", "zero"} THEN Repaired(fix[f].copy)
                     ELSE FailedSession
<1>1. /\ fix[f] \in Fix /\ FixOne(fix[f]) /\ fix[f].pc = "session" /\ fix \in [Fixes -> Fix]
      /\ UNCHANGED <<round, review>> /\ faults \in 0 .. MaxFaults /\ f[1] \in Sessions
  BY AtFix DEF PersistSession, FixAt
<1>2. /\ fix[f].status \in Ended /\ fix[f].status # "none" /\ ~Recorded(f)
      /\ fix[f].end # "none"
      /\ faults = 0 /\ fix[f].status \in {"succeeded", "failed"} => round[f[1]][f[2]].done
  BY <1>1, FinishedTask
<1>3. status \in ActiveStatus /\ status \in Session
  <2>1. fix[f].copy \in ActiveStatus
    BY <1>1 DEF FixOne
  <2> QED BY <2>1, StatusTypes
<1>4. faults' \in 0 .. MaxFaults /\ faults <= faults' /\ (faults' = 0 => faults = 0)
  <2>1. Fault("session") \/ NoFault
    BY DEF PersistSession
  <2>2. faults' \in 0 .. MaxFaults /\ faults <= faults'
    BY <1>1, <2>1, FaultTypes
  <2> QED BY <1>1, <2>2, Ids
<1>5. \/ WriteSession(f[1], status) /\ Settled(f)
      \/ UNCHANGED session /\ Unpersisted(f)
  BY DEF PersistSession
<1> HIDE DEF status
<1>6. /\ session' \in [Sessions -> Session] /\ OneActive'
      /\ \A s \in Sessions : session[s] \in ActiveStatus => session'[s] \in ActiveStatus
  <2>1. CASE WriteSession(f[1], status)
    BY <1>1, <1>3, <2>1, WrittenSession
  <2>2. CASE UNCHANGED session
    BY <2>2, SessionStays
  <2> QED BY <1>5, <2>1, <2>2
<1>7. PICK y \in Fix : FixBecomes(f, y) /\ y.status = fix[f].status /\ y.over = fix[f].over
                       /\ FixOne(y)
  BY <1>1, <1>2, <1>5, SettledTask, UnpersistedTask
<1> QED BY <1>1, <1>2, <1>4, <1>6, <1>7, FixMoves

\* The round of a repair that is over and has not completed it is the last one, and
\* no review is about to write it.
LEMMA OpenRound ==
  ASSUME IInv, NEW f \in Fixes, fix[f].pc = "round", ~round[f[1]][f[2]].done
  PROVE  /\ f[2] = Len(round[f[1]])
         /\ \A x \in Reviews : review[x].pc \in Recording => review[x].s # f[1]
<1>1. /\ fix[f].status \in Ended /\ fix[f].status # "none" /\ ~Recorded(f)
      /\ f[2] \in 1 .. Len(round[f[1]]) /\ f[1] \in Sessions /\ f = <<f[1], f[2]>>
  BY FinishedTask, AtFix
<1>2. f[2] = Len(round[f[1]])
  BY <1>1 DEF IInv, RowsOK
<1>3. ASSUME NEW x \in Reviews, review[x].pc \in Recording, review[x].s = f[1] PROVE FALSE
  <2>1. ReviewOne(review[x], round, session, fix)
    BY AtReview
  <2>2. f = <<review[x].s, review[x].n>>
    BY <1>1, <1>2, <1>3, <2>1 DEF ReviewOne
  <2>3. fix[f].status # "none" /\ review[x].pc # "record"
    BY <1>1, <2>2 DEF Recorded
  <2> QED BY <1>3, <2>1, <2>2, <2>3 DEF ReviewOne, Recording
<1> QED BY <1>2, <1>3

LEMMA CompleteRound ==
  ASSUME IInv, NEW f \in Fixes, fix[f].pc = "round", ~round[f[1]][f[2]].done,
         NEW row \in Round, row.done, row.recovery = round[f[1]][f[2]].recovery,
         WriteRound(f[1], f[2], row), fix' = [fix EXCEPT ![f].pc = "find"],
         UNCHANGED <<session, review, faults>>
  PROVE  IInv'
<1> DEFINE s == f[1]
           n == f[2]
           y == [fix[f] EXCEPT !.pc = "find"]
<1>1. /\ fix[f] \in Fix /\ FixOne(fix[f]) /\ fix \in [Fixes -> Fix]
      /\ s \in Sessions /\ FixRow(fix[f], f, round[s], session[s])
  BY AtFix
<1>2. /\ fix[f].status \in Ended /\ fix[f].status # "none" /\ ~Recorded(f)
      /\ fix[f].end # "none" /\ n \in 1 .. Len(round[s])
  BY FinishedTask
<1>3. /\ n = Len(round[s])
      /\ \A x \in Reviews : review[x].pc \in Recording => review[x].s # s
  BY OpenRound
<1>4. /\ y \in Fix /\ y.status = fix[f].status /\ y.pc = "find" /\ y.end = fix[f].end
      /\ y.over = fix[f].over
  BY <1>1 DEF Fix, FixPC
<1>5. fix' = [fix EXCEPT ![f] = y]
  OBVIOUS
<1> HIDE DEF y
<1>6. /\ fix' \in [Fixes -> Fix] /\ fix'[f] = y /\ \A g \in Fixes : g # f => fix'[g] = fix[g]
  BY <1>1, <1>4, <1>5
<1>7. FixOne(y) /\ ~Live(y)
  BY <1>1, <1>2, <1>4 DEF FixOne, Live, Ended
<1>8. /\ DOMAIN round' = Sessions
      /\ \A k \in Sessions : round'[k] \in Seq(Round) /\ Len(round'[k]) = Len(round[k])
      /\ \A k \in Sessions : \A m \in 1 .. Len(round[k]) :
           round'[k][m] = IF k = s /\ m = n THEN row ELSE round[k][m]
      /\ \A k \in Sessions : Len(round[k]) \in Nat
      /\ \A k \in Sessions : k # s => round'[k] = round[k]
  BY <1>1, <1>2, WrittenRound
<1>9. TypeOK' /\ OneBusy' /\ Order' /\ OneActive'
  BY <1>6, <1>8 DEF IInv, TypeOK, OneBusy, Order, OneActive, Active
<1>10. Room'
  BY <1>8 DEF IInv, Room
<1>11. \A k \in Sessions : \A m \in 1 .. Len(round[k]) :
         /\ round[k][m].done => round'[k][m].done
         /\ round'[k][m].recovery = round[k][m].recovery
         /\ k # s => round'[k][m] = round[k][m]
  BY <1>8
<1>12. FixesOK'
  <2> SUFFICES ASSUME NEW g \in Fixes
               PROVE  FixOne(fix'[g]) /\ FixRow(fix'[g], g, round'[g[1]], session[g[1]])
    BY DEF FixesOK
  <2>1. /\ FixOne(fix[g]) /\ FixRow(fix[g], g, round[g[1]], session[g[1]])
        /\ g = <<g[1], g[2]>> /\ g[1] \in Sessions /\ g[2] \in Nat \ {0}
    BY AtFix
  <2>2. CASE g = f
    BY <1>1, <1>4, <1>6, <1>7, <1>8, <2>2 DEF FixRow
  <2>3. CASE g # f
    <3>1. fix'[g] = fix[g] /\ Len(round'[g[1]]) = Len(round[g[1]])
      BY <1>6, <1>8, <2>1, <2>3
    <3>2. Live(fix[g]) => g[2] \in 1 .. Len(round[g[1]]) /\ g[2] = Len(round[g[1]])
      BY <1>8, <2>1 DEF FixRow
    <3>3. Live(fix[g]) => g[1] # s
      BY <1>3, <2>1, <2>3, <3>2, AtFix
    <3>4. Live(fix[g]) => round'[g[1]][g[2]] = round[g[1]][g[2]]
      BY <1>11, <2>1, <3>2, <3>3
    <3> QED BY <2>1, <3>1, <3>4 DEF FixRow
  <2> QED BY <2>2, <2>3
<1>13. RowsOK'
  <2> SUFFICES ASSUME NEW k \in Sessions, NEW m \in 1 .. Len(round[k]), ~round'[k][m].done
               PROVE  /\ m = Len(round[k])
                      /\ \/ round'[k][m].task
                         \/ \E x \in Reviews : review[x].pc \in Recording /\ review[x].s = k
    BY <1>8 DEF RowsOK
  <2>1. ~(k = s /\ m = n) /\ round'[k][m] = round[k][m]
    BY <1>8
  <2> QED BY <2>1 DEF IInv, RowsOK
<1>14. ReviewsOK'
  <2> SUFFICES ASSUME NEW x \in Reviews PROVE ReviewOne(review[x], round', session, fix')
    BY DEF ReviewsOK
  <2> DEFINE q == review[x]
  <2>1. q \in Review /\ ReviewOne(q, round, session, fix)
    BY AtReview
  <2>2. q.pc = "record" =>
          /\ fix'[<<q.s, q.n>>].status \in {"queued", "running", "cancelled"}
          /\ fix'[<<q.s, q.n>>].pc \in {"idle", "exec"}
    <3> SUFFICES ASSUME q.pc = "record"
                 PROVE  /\ fix'[<<q.s, q.n>>].status \in {"queued", "running", "cancelled"}
                        /\ fix'[<<q.s, q.n>>].pc \in {"idle", "exec"}
      OBVIOUS
    <3>1. q.s \in Sessions /\ q.n > 0
      BY <2>1 DEF ReviewOne, Busy, ReviewPC, Recording
    <3>2. q.n \in {0} \cup Reviews
      BY <2>1 DEF Review
    <3>3. <<q.s, q.n>> \in Fixes
      BY <3>1, <3>2, Ids DEF Fixes
    <3>4. f # <<q.s, q.n>>
      BY <1>2 DEF Recorded
    <3> QED BY <1>6, <2>1, <3>3, <3>4 DEF ReviewOne
  <2>3. \A g \in Fixes : /\ fix[g].status = "none" => fix'[g].status = "none"
                         /\ fix[g].over => fix'[g].over
    BY <1>4, <1>6
  <2>4. ReviewOne(q, round, session, fix')
    BY <2>1, <2>2, <2>3, ReviewKeeps
  <2>5. q.pc \in Busy \ {"find", "active"} => q.s \in Sessions
    BY <2>1 DEF ReviewOne
  <2> SUFFICES ReviewOne(q, round', session, fix')
    OBVIOUS
  <2> HIDE DEF q
  <2>6. CASE q.s \in Sessions /\ q.s # s
    <3>1. round'[q.s] = round[q.s]
      BY <1>8, <2>6
    <3> QED BY <2>4, <3>1 DEF ReviewOne, AllDone, Counted
  <2>7. CASE q.s = s
    <3>1. ~AllDone(round[s])
      BY <1>2 DEF AllDone
    <3>2. q.pc \notin {"healSession", "count", "conclude", "fixing", "create"}
      BY <2>1, <2>7, <3>1 DEF ReviewOne
    <3>3. q.pc \notin Recording
      BY <1>3, <2>7 DEF q
    <3>4. q.pc \in {"heal", "healRound"} => q.n = n
      BY <1>3, <2>1, <2>7 DEF ReviewOne
    <3>5. Len(round'[s]) = Len(round[s]) /\ round'[s][n].recovery = round[s][n].recovery
      BY <1>1, <1>2, <1>8, <1>11
    <3> QED BY <2>4, <2>7, <3>2, <3>3, <3>4, <3>5 DEF ReviewOne, Recording
  <2>8. CASE q.pc \notin Busy \ {"find", "active"}
    BY <2>8 DEF ReviewOne, Busy, ReviewPC, Recording
  <2> QED BY <2>5, <2>6, <2>7, <2>8
<1>15. SettledOK'
  <2> SUFFICES ASSUME faults = 0, NEW g \in Fixes, fix'[g].status \in {"succeeded", "failed"},
                      fix'[g].pc # "round"
               PROVE  round'[g[1]][g[2]].done
    BY DEF SettledOK
  <2>1. CASE g = f
    BY <1>1, <1>2, <1>8, <2>1
  <2>2. CASE g # f
    <3>1. fix'[g] = fix[g]
      BY <1>6, <2>2
    <3>2. round[g[1]][g[2]].done
      BY <3>1 DEF IInv, SettledOK
    <3>3. /\ FixRow(fix[g], g, round[g[1]], session[g[1]])
          /\ g[1] \in Sessions /\ g[2] \in Nat \ {0}
      BY AtFix
    <3>4. g[2] \in 1 .. Len(round[g[1]])
      BY <1>8, <3>1, <3>3 DEF FixRow
    <3> QED BY <1>11, <3>2, <3>3, <3>4
  <2> QED BY <2>1, <2>2
<1> QED BY <1>9, <1>10, <1>12, <1>13, <1>14, <1>15 DEF IInv

\* Whatever a repair comes to, its round is complete and counts as it did.
LEMMA Completions ==
  ASSUME NEW row \in Round
  PROVE  \A x \in {FixResult(row), ZeroFixResult(row), RoundOnFailure(row)} :
           x \in Round /\ x.done /\ x.recovery = row.recovery
<1>1. 1 \in 0 .. 1 /\ 0 \in 0 .. 1
  OBVIOUS
<1>2. FixResult(row) \in Round /\ FixResult(row).done /\ FixResult(row).recovery = row.recovery
  BY <1>1 DEF Round, FixResult
<1>3. /\ ZeroFixResult(row) \in Round /\ ZeroFixResult(row).done
      /\ ZeroFixResult(row).recovery = row.recovery
  BY <1>1 DEF Round, ZeroFixResult
<1>4. /\ RoundOnFailure(row) \in Round /\ RoundOnFailure(row).done
      /\ RoundOnFailure(row).recovery = row.recovery
  BY <1>1 DEF Round, RoundOnFailure
<1> QED BY <1>2, <1>3, <1>4

LEMMA PersistRoundStep ==
  ASSUME IInv, NEW f \in Fixes, PersistRound(f)
  PROVE  IInv'
<1> DEFINE row == round[f[1]][f[2]]
<1>1. /\ fix[f] \in Fix /\ FixOne(fix[f]) /\ fix[f].pc = "round" /\ fix \in [Fixes -> Fix]
      /\ UNCHANGED <<session, review>> /\ faults \in 0 .. MaxFaults /\ f[1] \in Sessions
  BY AtFix DEF PersistRound, FixAt
<1>2. /\ fix[f].status \in Ended /\ fix[f].status # "none" /\ ~Recorded(f)
      /\ fix[f].end # "none" /\ f[2] \in 1 .. Len(round[f[1]])
  BY <1>1, FinishedTask
<1>3. row \in Round
  <2>1. round[f[1]] \in Seq(Round)
    BY <1>1, AtReview DEF IInv, TypeOK
  <2> QED BY <1>2, <2>1, ElementOfSeq
<1>4. /\ session' \in [Sessions -> Session] /\ OneActive'
      /\ \A s \in Sessions : session[s] \in ActiveStatus => session'[s] \in ActiveStatus
  BY <1>1, SessionStays
<1>5. ASSUME fix' = [fix EXCEPT ![f].pc = "find"], UNCHANGED round,
             faults' \in 0 .. MaxFaults, faults <= faults', faults' = 0 => row.done
      PROVE  IInv'
  <2> DEFINE y == [fix[f] EXCEPT !.pc = "find"]
  <2>1. FixBecomes(f, y)
    BY <1>5 DEF FixBecomes
  <2>2. /\ y \in Fix /\ y.status = fix[f].status /\ y.pc = "find" /\ y.end = fix[f].end
        /\ y.over = fix[f].over
    BY <1>1 DEF Fix, FixPC
  <2> HIDE DEF y
  <2>3. FixOne(y)
    BY <1>1, <1>2, <2>2 DEF FixOne, Ended
  <2> QED BY <1>1, <1>2, <1>4, <1>5, <2>1, <2>2, <2>3, FixMoves
<1>6. CASE row.done /\ fix' = [fix EXCEPT ![f].pc = "find"] /\ UNCHANGED round /\ NoFault
  BY <1>1, <1>5, <1>6, Ids DEF NoFault
<1>7. CASE /\ ~row.done /\ fix' = [fix EXCEPT ![f].pc = "find"] /\ NoFault
           /\ WriteRound(f[1], f[2], CASE fix[f].end = "succeeded" -> FixResult(row)
                                       [] fix[f].end = "zero" -> ZeroFixResult(row)
                                       [] OTHER -> RoundOnFailure(row))
  <2>1. \A x \in {FixResult(row), ZeroFixResult(row), RoundOnFailure(row)} :
          x \in Round /\ x.done /\ x.recovery = row.recovery
    BY <1>3, Completions
  <2>2. PICK x \in {FixResult(row), ZeroFixResult(row), RoundOnFailure(row)} :
          WriteRound(f[1], f[2], x)
    BY <1>7
  <2>3. x \in Round /\ x.done /\ x.recovery = row.recovery
    BY <2>1
  <2> QED BY <1>1, <1>7, <2>2, <2>3, CompleteRound DEF NoFault
<1>8. CASE /\ Fault("round") /\ UNCHANGED round
           /\ IF fix[f].end \in {"succeeded", "zero"} THEN Unpersisted(f)
              ELSE fix' = [fix EXCEPT ![f].pc = "find"]
  <2>1. faults' \in 0 .. MaxFaults /\ faults <= faults' /\ faults' # 0
    <3>1. faults' \in 0 .. MaxFaults /\ faults <= faults'
      BY <1>1, <1>8, FaultTypes
    <3> QED BY <1>1, <1>8, <3>1 DEF Fault
  <2>2. CASE fix' = [fix EXCEPT ![f].pc = "find"]
    BY <1>5, <1>8, <2>1, <2>2
  <2>3. CASE Unpersisted(f)
    <3>1. PICK y \in Fix : FixBecomes(f, y) /\ y.status = fix[f].status /\ y.over = fix[f].over
                           /\ FixOne(y)
      BY <1>1, <1>2, <2>3, UnpersistedTask
    <3> QED BY <1>1, <1>2, <1>4, <1>8, <2>1, <3>1, FixMoves
  <2> QED BY <1>8, <2>2, <2>3
<1> QED BY <1>6, <1>7, <1>8 DEF PersistRound

-----------------------------------------------------------------------------
(***************************************************************************)
(* The theorems.                                                           *)
(***************************************************************************)
LEMMA IInvStep ==
  ASSUME IInv, Undisturbed, [Next]_vars
  PROVE  IInv'
<1>1. ASSUME NEW r \in Reviews, NEW bot \in BOOLEAN, Push(r, bot) PROVE IInv'
  BY <1>1, PushStep
<1>2. ASSUME NEW r \in Reviews, Verdict(r) PROVE IInv'
  BY <1>2, VerdictStep
<1>3. ASSUME NEW r \in Reviews, ReviewStep(r) PROVE IInv'
  BY <1>3, FindStep, GetLatestStep, HealStep, HealBlindStep, HealRoundStep, HealSessionStep,
     WaitStep, CountStep, ConcludeStep, ToFixingStep, CreateRoundStep, EnqueueFixStep,
     RecordTaskStep DEF ReviewStep
<1>4. ASSUME NEW r \in Reviews, ReviewFails(r) PROVE IInv'
  BY <1>4, ReviewFailsStep
<1>5. ASSUME NEW f \in Fixes, FixStep(f) PROVE IInv'
  BY <1>5, StartFixStep, PushBranchStep, ExecStep, FinalStep, PersistRoundStep, FindSessionStep,
     PersistSessionStep DEF FixStep
<1>6. CASE UNCHANGED vars
  BY <1>6 DEF vars, IInv, TypeOK, OneBusy, Order, Room, OneActive, Active, FixesOK, RowsOK,
              ReviewsOK, SettledOK
<1> QED BY <1>1, <1>2, <1>3, <1>4, <1>5, <1>6 DEF Next

\* The inductive invariant holds of the loop, undisturbed.
THEOREM InvariantHolds ==
  ASSUME Undisturbed
  PROVE  Spec => []IInv
<1>1. Init => IInv
  BY IInvInit
<1>2. IInv /\ [Next]_vars => IInv'
  BY IInvStep
<1> QED BY <1>1, <1>2, PTL DEF Spec

\* Sessions, rounds, reviews and repairs are of their types; a session never has more
\* rounds than reviews were asked for.
THEOREM TypeCorrect ==
  ASSUME Undisturbed
  PROVE  Spec => []TypeOK
<1>1. IInv => TypeOK
  BY DEF IInv
<1> QED BY <1>1, InvariantHolds, PTL

\* Live tasks are those of the open round of the one active session.
LEMMA OneLive == IInv => OneRepair
<1> SUFFICES ASSUME IInv PROVE OneRepair
  OBVIOUS
<1> DEFINE L == {f \in Fixes : UnderWay(f) /\ ~fix[f].over}
<1>1. ASSUME NEW f \in L, NEW g \in L PROVE f = g
  <2>1. /\ FixRow(fix[f], f, round[f[1]], session[f[1]]) /\ f = <<f[1], f[2]>> /\ f[1] \in Sessions
        /\ FixRow(fix[g], g, round[g[1]], session[g[1]]) /\ g = <<g[1], g[2]>> /\ g[1] \in Sessions
    BY AtFix
  <2>2. /\ f[1] \in Active /\ f[2] = Len(round[f[1]])
        /\ g[1] \in Active /\ g[2] = Len(round[g[1]])
    BY <2>1 DEF FixRow, Live, UnderWay, Active
  <2>3. f[1] = g[1]
    BY <2>2 DEF IInv, OneActive
  <2> QED BY <2>1, <2>2, <2>3
<1> HIDE DEF L
<1>2. CASE L = {}
  <2>1. Cardinality(L) = 0
    BY <1>2, FS_EmptySet
  <2> QED BY <2>1 DEF OneRepair, L
<1>3. CASE L # {}
  <2>1. PICK f \in L : TRUE
    BY <1>3
  <2>2. L = {f}
    BY <1>1, <2>1
  <2>3. Cardinality(L) = 1
    BY <2>2, FS_Singleton
  <2> QED BY <2>3 DEF OneRepair, L
<1> QED BY <1>2, <1>3

\* One repair of the pull request is under way at a time: what runs beside it is a
\* task whose row has said before that it was over.
THEOREM RepairsAreSerial ==
  ASSUME Undisturbed
  PROVE  Spec => []OneRepair
BY OneLive, InvariantHolds, PTL

\* The round of a repair that has run to its end is complete.
THEOREM RepairsAreSettled ==
  ASSUME Undisturbed
  PROVE  Spec => []RepairIsSettled
<1>1. IInv => RepairIsSettled
  BY DEF IInv, SettledOK, RepairIsSettled, FixAt
<1> QED BY <1>1, InvariantHolds, PTL

-----------------------------------------------------------------------------
(***************************************************************************)
(* The loop implements Rounds.                                             *)
(***************************************************************************)
\* What Rounds shows of the rows of a session.
ShownRow(row) == [recovery |-> row.recovery, settled |-> row.done]
Shown(rows) == [n \in DOMAIN rows |-> ShownRow(rows[n])]
AllShown == [s \in Sessions |-> Shown(round[s])]
ShownRound == [recovery : BOOLEAN, settled : BOOLEAN]

LEMMA ShownRowIs ==
  /\ \A a \in Round : /\ ShownRow(a) \in ShownRound /\ ShownRow(a).recovery = a.recovery
                      /\ ShownRow(a).settled = a.done
  /\ \A a, b \in Round : a.recovery = b.recovery =>
       /\ a.done = b.done => ShownRow(b) = ShownRow(a)
       /\ b.done => ShownRow(b) = [ShownRow(a) EXCEPT !.settled = TRUE]
<1>1. ASSUME NEW a \in Round
      PROVE  /\ ShownRow(a) \in ShownRound /\ ShownRow(a).recovery = a.recovery
             /\ ShownRow(a).settled = a.done
  <2>1. a.recovery \in BOOLEAN /\ a.done \in BOOLEAN
    BY DEF Round
  <2> QED BY <2>1 DEF ShownRow, ShownRound
<1>2. ASSUME NEW a \in Round, NEW b \in Round, a.recovery = b.recovery
      PROVE  /\ a.done = b.done => ShownRow(b) = ShownRow(a)
             /\ b.done => ShownRow(b) = [ShownRow(a) EXCEPT !.settled = TRUE]
  <2>1. a.done = b.done => ShownRow(b) = ShownRow(a)
    BY <1>2 DEF ShownRow
  <2>2. b.done \in BOOLEAN
    BY DEF Round
  <2>3. ASSUME b.done = TRUE PROVE ShownRow(b) = [ShownRow(a) EXCEPT !.settled = TRUE]
    <3>1. ShownRow(b) = [recovery |-> a.recovery, settled |-> TRUE]
      BY <1>2, <2>3 DEF ShownRow
    <3>2. \A recovery, done, settled :
            [[recovery |-> recovery, settled |-> done] EXCEPT !.settled = settled]
              = [recovery |-> recovery, settled |-> settled]
      OBVIOUS
    <3>3. [ShownRow(a) EXCEPT !.settled = b.done] = [recovery |-> a.recovery, settled |-> b.done]
      BY <3>2 DEF ShownRow
    <3> QED BY <2>3, <3>1, <3>3
  <2> QED BY <2>1, <2>2, <2>3
<1> QED BY <1>1, <1>2

LEMMA ShownRows ==
  ASSUME NEW rows \in Seq(Round)
  PROVE  /\ Shown(rows) \in Seq(ShownRound) /\ Len(Shown(rows)) = Len(rows)
         /\ DOMAIN Shown(rows) = DOMAIN rows /\ DOMAIN rows = 1 .. Len(rows)
         /\ \A n \in 1 .. Len(rows) : rows[n] \in Round /\ Shown(rows)[n] = ShownRow(rows[n])
<1>1. DOMAIN rows = 1 .. Len(rows) /\ Len(rows) \in Nat
  OBVIOUS
<1>2. \A n \in 1 .. Len(rows) : rows[n] \in Round
  BY ElementOfSeq
<1>3. Shown(rows) = [n \in 1 .. Len(rows) |-> ShownRow(rows[n])]
  BY <1>1 DEF Shown
<1>4. Shown(rows) \in [1 .. Len(rows) -> ShownRound]
  BY <1>2, <1>3, ShownRowIs
<1>5. Shown(rows) \in Seq(ShownRound) /\ Len(Shown(rows)) = Len(rows)
  BY <1>1, <1>4
<1> QED BY <1>1, <1>2, <1>3, <1>5

\* A round that is written: it is settled by it, or it shows nothing new.
LEMMA ShownWrite ==
  ASSUME IInv, NEW s \in Sessions, NEW n \in 1 .. Len(round[s]), NEW row \in Round,
         WriteRound(s, n, row), row.recovery = round[s][n].recovery
  PROVE  /\ (row.done = round[s][n].done) => UNCHANGED AllShown
         /\ ~round[s][n].done /\ row.done => Abstract!Settle(s)
<1>1. DOMAIN round = Sessions /\ \A k \in Sessions : round[k] \in Seq(Round)
  BY DEF IInv, TypeOK
<1>2. /\ DOMAIN round' = Sessions
      /\ \A k \in Sessions : round'[k] \in Seq(Round) /\ Len(round'[k]) = Len(round[k])
      /\ \A k \in Sessions : \A m \in 1 .. Len(round[k]) :
           round'[k][m] = IF k = s /\ m = n THEN row ELSE round[k][m]
      /\ \A k \in Sessions : k # s => round'[k] = round[k]
  BY WrittenRound
<1> DEFINE old == Shown(round[s])
           new == Shown(round'[s])
<1>3. /\ old \in Seq(ShownRound) /\ Len(old) = Len(round[s])
      /\ new \in Seq(ShownRound) /\ Len(new) = Len(round[s])
      /\ DOMAIN old = 1 .. Len(round[s])
      /\ \A m \in 1 .. Len(round[s]) : /\ round[s][m] \in Round
                                       /\ old[m] = ShownRow(round[s][m])
                                       /\ new[m] = ShownRow(round'[s][m])
  <2>1. round[s] \in Seq(Round) /\ round'[s] \in Seq(Round) /\ Len(round'[s]) = Len(round[s])
    BY <1>1, <1>2
  <2> QED BY <2>1, ShownRows
<1> HIDE DEF old, new
<1>4. \A m \in 1 .. Len(round[s]) : m # n => new[m] = old[m]
  BY <1>2, <1>3
<1>5. /\ new[n] = ShownRow(row) /\ old[n] = ShownRow(round[s][n]) /\ round[s][n] \in Round
      /\ row.recovery = round[s][n].recovery
  BY <1>2, <1>3
<1>6. AllShown' = [k \in Sessions |-> Shown(round'[k])]
  BY DEF AllShown
<1>7. ASSUME row.done = round[s][n].done PROVE UNCHANGED AllShown
  <2>1. new[n] = old[n]
    BY <1>5, <1>7, ShownRowIs
  <2>2. new = old
    BY <1>3, <1>4, <2>1, SeqEqual
  <2>3. \A k \in Sessions : Shown(round'[k]) = Shown(round[k])
    BY <1>2, <2>2 DEF old, new
  <2> QED BY <1>6, <2>3 DEF AllShown
<1>8. ASSUME ~round[s][n].done, row.done PROVE Abstract!Settle(s)
  <2>1. old[n] \in ShownRound /\ new[n] \in ShownRound /\ old[n].settled = round[s][n].done
    BY <1>5, ShownRowIs
  <2>3. [old[n] EXCEPT !.settled = TRUE] = new[n]
    BY <1>5, <1>8, ShownRowIs
  <2>4. [old EXCEPT ![n] = new[n]] = new
    <3>1. /\ [old EXCEPT ![n] = new[n]] \in Seq(ShownRound)
          /\ Len([old EXCEPT ![n] = new[n]]) = Len(old)
          /\ \A j \in 1 .. Len(old) : [old EXCEPT ![n] = new[n]][j] = IF j = n THEN new[n] ELSE old[j]
      BY <1>3, <2>1, ExceptSeq
    <3> QED BY <1>3, <1>4, <3>1, SeqEqual
  <2>5. AllShown[s] = old /\ AllShown'[s] = new
    BY <1>6 DEF AllShown, old, new
  <2>6. AllShown' = [AllShown EXCEPT ![s] = new]
    <3>1. \A k \in Sessions : k # s => Shown(round'[k]) = Shown(round[k])
      BY <1>2
    <3> QED BY <1>6, <2>5, <3>1 DEF AllShown
  <2>7. [AllShown EXCEPT ![s] = new] = [AllShown EXCEPT ![s][n].settled = TRUE]
    BY <2>3, <2>4, <2>5
  <2>8. n \in DOMAIN AllShown[s] /\ ~AllShown[s][n].settled
    BY <1>3, <1>8, <2>1, <2>5
  <2> QED BY <2>6, <2>7, <2>8 DEF Abstract!Settle, AllShown, Shown, ShownRow
<1> QED BY <1>7, <1>8

\* The round a review creates starts when the others are settled, and counts if it may.
LEMMA ShownStart ==
  ASSUME IInv, NEW r \in Reviews, CreateRound(r), ~UNCHANGED round,
         NEW s \in Sessions, s = review[r].s
  PROVE  Abstract!Start(s)
<1> DEFINE row == review[r].last
<1>1. /\ review[r] \in Review /\ review[r].pc = "create"
      /\ ReviewOne(review[r], round, session, fix) /\ DOMAIN round = Sessions
      /\ round' = [round EXCEPT ![s] = Append(round[s], row)]
  BY AtReview DEF CreateRound, ReviewAt
<1>2. /\ s \in Sessions /\ AllDone(round[s]) /\ ~row.done
      /\ row.recovery \/ Counted(round[s]) < MaxRounds
  BY <1>1 DEF ReviewOne, Busy, ReviewPC
<1>3. row \in Round /\ row.recovery \in BOOLEAN /\ row.done = FALSE /\ round[s] \in Seq(Round)
  <2>1. row \in Round
    BY <1>1 DEF Review
  <2>2. row.recovery \in BOOLEAN /\ row.done \in BOOLEAN
    BY <2>1 DEF Round
  <2> QED BY <1>2, <2>1, <2>2, AtReview
<1> DEFINE rows == Append(round[s], row)
           old == Shown(round[s])
           new == Shown(rows)
<1>4. /\ rows \in Seq(Round) /\ Len(rows) = Len(round[s]) + 1 /\ rows[Len(round[s]) + 1] = row
      /\ \A m \in 1 .. Len(round[s]) : rows[m] = round[s][m]
      /\ Len(round[s]) \in Nat
  BY <1>3, AppendProperties
<1>5. /\ round'[s] = rows /\ \A k \in Sessions : k # s => round'[k] = round[k]
  BY <1>1, <1>2
<1> HIDE DEF rows
<1>6. /\ old \in Seq(ShownRound) /\ Len(old) = Len(round[s]) /\ DOMAIN old = 1 .. Len(round[s])
      /\ DOMAIN old = DOMAIN round[s]
      /\ \A m \in 1 .. Len(round[s]) : round[s][m] \in Round /\ old[m] = ShownRow(round[s][m])
  BY <1>3, ShownRows
<1>7. /\ new \in Seq(ShownRound) /\ Len(new) = Len(rows)
      /\ \A m \in 1 .. Len(rows) : new[m] = ShownRow(rows[m])
  BY <1>4, ShownRows
<1>8. /\ ShownRow(row) \in ShownRound
      /\ ShownRow(row) = [recovery |-> row.recovery, settled |-> FALSE]
  <2>1. ShownRow(row) = [recovery |-> row.recovery, settled |-> FALSE]
    BY <1>3 DEF ShownRow
  <2> QED BY <1>3, <2>1, ShownRowIs
<1> HIDE DEF old, new
<1>9. new = Append(old, ShownRow(row))
  <2>1. /\ Append(old, ShownRow(row)) \in Seq(ShownRound)
        /\ Len(Append(old, ShownRow(row))) = Len(round[s]) + 1
        /\ \A i \in 1 .. Len(round[s]) : Append(old, ShownRow(row))[i] = old[i]
        /\ Append(old, ShownRow(row))[Len(round[s]) + 1] = ShownRow(row)
    BY <1>6, <1>8, AppendProperties
  <2>2. \A i \in 1 .. Len(round[s]) : new[i] = old[i]
    BY <1>4, <1>6, <1>7
  <2>3. new[Len(round[s]) + 1] = ShownRow(row)
    BY <1>4, <1>7
  <2>4. \A i \in 1 .. Len(round[s]) + 1 : i \in 1 .. Len(round[s]) \/ i = Len(round[s]) + 1
    BY <1>4
  <2>5. \A i \in 1 .. Len(new) : new[i] = Append(old, ShownRow(row))[i]
    BY <1>4, <1>7, <2>1, <2>2, <2>3, <2>4
  <2> QED BY <1>4, <1>7, <2>1, <2>5, SeqEqual
<1>10. AllShown[s] = old /\ AllShown' = [AllShown EXCEPT ![s] = new]
  <2>1. AllShown' = [k \in Sessions |-> Shown(round'[k])]
    BY DEF AllShown
  <2> QED BY <1>2, <1>5, <2>1 DEF AllShown, old, new
<1>11. \A n \in DOMAIN AllShown[s] : AllShown[s][n].settled
  <2>1. \A m \in 1 .. Len(round[s]) : old[m].settled = round[s][m].done
    BY <1>6, ShownRowIs
  <2> QED BY <1>2, <1>6, <1>10, <2>1 DEF AllDone
<1>12. row.recovery \/ Cardinality({n \in DOMAIN AllShown[s] : ~AllShown[s][n].recovery}) < MaxRounds
  <2>1. \A m \in 1 .. Len(round[s]) : old[m].recovery = round[s][m].recovery
    BY <1>6, ShownRowIs
  <2>2. {n \in DOMAIN AllShown[s] : ~AllShown[s][n].recovery}
          = {n \in DOMAIN round[s] : ~round[s][n].recovery}
    BY <1>6, <1>10, <2>1
  <2> QED BY <1>2, <2>2 DEF Counted
<1>13. AllShown' = [AllShown EXCEPT ![s] =
                      Append(@, [recovery |-> row.recovery, settled |-> FALSE])]
  BY <1>8, <1>9, <1>10
<1>14. \E recovery \in BOOLEAN :
         /\ \A n \in DOMAIN AllShown[s] : AllShown[s][n].settled
         /\ recovery \/ Cardinality({n \in DOMAIN AllShown[s] : ~AllShown[s][n].recovery}) < MaxRounds
         /\ AllShown' = [AllShown EXCEPT ![s] =
                           Append(@, [recovery |-> recovery, settled |-> FALSE])]
  <2>1. PICK recovery \in BOOLEAN : recovery = row.recovery
    BY <1>3
  <2> QED BY <1>11, <1>12, <1>13, <2>1
<1>15. \A S : Abstract!Cardinality(S) = Cardinality(S)
  BY DEF Abstract!Cardinality, Cardinality
<1>16. Abstract!Counting(s) = {n \in DOMAIN AllShown[s] : ~AllShown[s][n].recovery}
  BY DEF Abstract!Counting, AllShown, Shown, ShownRow
<1>17. \E recovery \in BOOLEAN :
         /\ \A n \in DOMAIN AllShown[s] : AllShown[s][n].settled
         /\ recovery \/ Abstract!Cardinality(Abstract!Counting(s)) < MaxRounds
         /\ AllShown' = [AllShown EXCEPT ![s] =
                           Append(@, [recovery |-> recovery, settled |-> FALSE])]
  BY <1>14, <1>15, <1>16
<1> QED BY <1>17 DEF Abstract!Start, AllShown, Shown, ShownRow

\* Every step of the loop is a step of Rounds, or shows nothing.
LEMMA ShownStep ==
  ASSUME IInv, [Next]_vars
  PROVE  Abstract!Next \/ UNCHANGED AllShown
<1>1. UNCHANGED round => UNCHANGED AllShown
  BY DEF AllShown
<1>2. \A s \in Sessions : Abstract!Start(s) \/ Abstract!Settle(s) =>
        Abstract!Next \/ UNCHANGED AllShown
  BY DEF Abstract!Next, AllShown, Shown, ShownRow
<1>3. ASSUME NEW r \in Reviews, CreateRound(r) PROVE Abstract!Next \/ UNCHANGED AllShown
  <2>1. review[r].s \in Sessions
    <3>1. review[r].pc = "create" /\ ReviewOne(review[r], round, session, fix)
      BY <1>3, AtReview DEF CreateRound, ReviewAt
    <3> QED BY <3>1 DEF ReviewOne, Busy, ReviewPC
  <2>2. PICK s \in Sessions : s = review[r].s
    BY <2>1
  <2> QED BY <1>1, <1>2, <1>3, <2>2, ShownStart
<1>4. ASSUME NEW r \in Reviews, HealRound(r) PROVE Abstract!Next \/ UNCHANGED AllShown
  <2> DEFINE n == review[r].n
             row == review[r].last
  <2>0. PICK s \in Sessions : s = review[r].s
    <3>1. review[r].pc = "healRound" /\ ReviewOne(review[r], round, session, fix)
      BY <1>4, AtReview DEF HealRound, ReviewAt
    <3> QED BY <3>1 DEF ReviewOne, Busy, ReviewPC
  <2>1. /\ review[r].pc = "healRound" /\ ReviewOne(review[r], round, session, fix)
        /\ review[r] \in Review /\ WriteRound(s, n, row)
    BY <1>4, <2>0, AtReview DEF HealRound, ReviewAt
  <2>2. s \in Sessions /\ n = Len(round[s]) /\ n > 0 /\ row.recovery = round[s][n].recovery /\ row.done
    BY <2>0, <2>1 DEF ReviewOne, Busy, ReviewPC
  <2>3. row \in Round /\ row.done = TRUE
    <3>1. row \in Round
      BY <2>1 DEF Review
    <3>2. row.done \in BOOLEAN
      BY <3>1 DEF Round
    <3> QED BY <2>2, <3>1, <3>2
  <2>4. round[s] \in Seq(Round)
    BY <2>2, AtReview
  <2>5. n \in 1 .. Len(round[s]) /\ round[s][n] \in Round
    BY <2>2, <2>4, ElementOfSeq
  <2>6. round[s][n].done = TRUE \/ ~round[s][n].done
    <3>1. round[s][n].done \in BOOLEAN
      BY <2>5 DEF Round
    <3> QED BY <3>1
  <2>7. round[s][n].done = TRUE => UNCHANGED AllShown
    BY <2>1, <2>2, <2>3, <2>5, ShownWrite
  <2>8. ~round[s][n].done => Abstract!Settle(s)
    BY <2>1, <2>2, <2>3, <2>5, ShownWrite
  <2> QED BY <1>2, <2>2, <2>6, <2>7, <2>8
<1>5. ASSUME NEW r \in Reviews, RecordTask(r) PROVE Abstract!Next \/ UNCHANGED AllShown
  <2> DEFINE s == review[r].s
             n == review[r].n
             row == [review[r].last EXCEPT !.task = TRUE]
  <2>1. /\ review[r].pc = "record" /\ ReviewOne(review[r], round, session, fix)
        /\ review[r] \in Review /\ WriteRound(s, n, row)
    BY <1>5, AtReview DEF RecordTask, ReviewAt
  <2>2. s \in Sessions /\ n = Len(round[s]) /\ n > 0 /\ round[s][n] = review[r].last
    BY <2>1 DEF ReviewOne, Busy, ReviewPC, Recording
  <2>3. /\ row \in Round /\ row.done = review[r].last.done
        /\ row.recovery = review[r].last.recovery
    BY <2>1 DEF Review, Round
  <2>4. round[s] \in Seq(Round)
    BY <2>2, AtReview
  <2>5. n \in 1 .. Len(round[s])
    BY <2>2, <2>4
  <2> HIDE DEF row
  <2> QED BY <2>1, <2>2, <2>3, <2>5, ShownWrite
<1>6. ASSUME NEW f \in Fixes, PersistRound(f) PROVE Abstract!Next \/ UNCHANGED AllShown
  <2> DEFINE row == round[f[1]][f[2]]
  <2>1. f[1] \in Sessions /\ fix[f].pc = "round" /\ f[2] \in 1 .. Len(round[f[1]])
    BY <1>6, AtFix, FinishedTask DEF PersistRound, FixAt
  <2>2. row \in Round
    <3>1. round[f[1]] \in Seq(Round)
      BY <2>1, AtReview DEF IInv, TypeOK
    <3> QED BY <2>1, <3>1, ElementOfSeq
  <2>3. CASE UNCHANGED round
    BY <1>1, <2>3
  <2>4. ASSUME ~row.done,
               NEW x \in {FixResult(row), ZeroFixResult(row), RoundOnFailure(row)},
               WriteRound(f[1], f[2], x)
        PROVE  Abstract!Settle(f[1])
    <3>1. x \in Round /\ x.done /\ x.recovery = row.recovery
      BY <2>2, Completions
    <3> QED BY <2>1, <2>4, <3>1, ShownWrite
  <2>5. UNCHANGED round \/ (~row.done /\ \E x \in {FixResult(row), ZeroFixResult(row), RoundOnFailure(row)} :
                                           WriteRound(f[1], f[2], x))
    BY <1>6 DEF PersistRound
  <2> QED BY <1>2, <2>1, <2>3, <2>4, <2>5
<1>7. \/ UNCHANGED round
      \/ \E r \in Reviews : CreateRound(r) \/ HealRound(r) \/ RecordTask(r)
      \/ \E f \in Fixes : PersistRound(f)
  <2>1. ASSUME NEW r \in Reviews, NEW bot \in BOOLEAN, Push(r, bot) PROVE UNCHANGED round
    BY <2>1 DEF Push
  <2>2. ASSUME NEW r \in Reviews, Verdict(r) \/ ReviewFails(r) PROVE UNCHANGED round
    BY <2>2 DEF Verdict, ReviewFails
  <2>3. ASSUME NEW r \in Reviews, ReviewStep(r)
        PROVE  UNCHANGED round \/ CreateRound(r) \/ HealRound(r) \/ RecordTask(r)
    BY <2>3 DEF ReviewStep, FindOrCreate, FindActive, GetLatest, Heal, HealBlind, HealSession, Wait,
               Count, Conclude, ToFixing, EnqueueFix
  <2>4. ASSUME NEW f \in Fixes, FixStep(f) PROVE UNCHANGED round \/ PersistRound(f)
    BY <2>4 DEF FixStep, StartFix, PushBranch, Exec, Final, FindSession, PersistSession
  <2>5. CASE UNCHANGED vars
    BY <2>5 DEF vars
  <2> QED BY <2>1, <2>2, <2>3, <2>4, <2>5 DEF Next
<1> QED BY <1>1, <1>3, <1>4, <1>5, <1>6, <1>7

\* The rounds follow one another, and only so many of them count: the loop implements Rounds.
THEOREM LoopImplementsRounds ==
  ASSUME Undisturbed
  PROVE  Spec => ImplementsRounds
<1>1. Init => Abstract!Init
  <2>1. Init => AllShown = [s \in Sessions |-> << >>]
    <3> SUFFICES ASSUME Init, NEW s \in Sessions PROVE Shown(round[s]) = << >>
      BY DEF AllShown
    <3>1. round[s] = << >> /\ << >> \in Seq(Round) /\ Len(<< >>) = 0
      BY EmptySeq DEF Init
    <3>2. Shown(round[s]) \in Seq(ShownRound) /\ Len(Shown(round[s])) = 0
      BY <3>1, ShownRows
    <3> QED BY <3>2, EmptySeq
  <2> QED BY <2>1 DEF Abstract!Init, AllShown, Shown, ShownRow
<1>2. IInv /\ [Next]_vars =>
        [Abstract!Next]_([s \in Sessions |-> [n \in DOMAIN round[s] |->
           [recovery |-> round[s][n].recovery, settled |-> round[s][n].done]]])
  BY ShownStep DEF AllShown, Shown, ShownRow
<1> QED BY <1>1, <1>2, InvariantHolds, PTL DEF Spec, ImplementsRounds, Abstract!Spec

=============================================================================
