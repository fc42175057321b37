-------------------------- MODULE Replacement_proofs --------------------------
(***************************************************************************)
(* Theorems about Replacement, for any requests, tasks, modules, faults    *)
(* and workers.                                                            *)
(***************************************************************************)
EXTENDS Replacement, SequenceTheorems, TLAPS

USE ReplacementAssumption, StoreFaultsAssumption, AsynqAssumption

-----------------------------------------------------------------------------
(***************************************************************************)
(* Rows, requests and the modules they have to go through.                 *)
(***************************************************************************)
Keys == {Key[t] : t \in Tasks}
Req == [pc : PC, todo : Seq(Tasks), task : Tasks \cup {"none"}, stamp : Nat,
        old : [Tasks -> Row], keys : SUBSET Keys, blind : BOOLEAN]

LEMMA RowTypes ==
  /\ NewRow \in Row /\ NewRow.status = "absent"
  /\ \A n \in Nat : /\ PendingRow(n) \in Row /\ PendingRow(n).created = n
                    /\ PendingRow(n).status = "pending"
  /\ \A n \in Nat : [status |-> "queued", asynqID |-> TRUE, created |-> n] \in Row
  /\ \A rec \in Row, s \in Status :
       LET new == [rec EXCEPT !.status = s] IN
       new \in Row /\ new.status = s /\ new.created = rec.created
BY DEF NewRow, Row, Status, PendingRow

\* What a query returns lists the rows of S, if they are stored.
LEMMA RowsOfType ==
  ASSUME row \in [Tasks -> Row], NEW S
  PROVE  /\ RowsOf(S) \in [Tasks -> Row]
         /\ \A t \in Listed(RowsOf(S)) : t \in S /\ Stored(t) /\ RowsOf(S)[t] = row[t]
BY RowTypes DEF RowsOf, Listed, Stored

LEMMA IdleType == /\ Idle \in Req /\ Idle.pc = "idle" /\ Idle.task = "none"
                  /\ Idle.todo = << >> /\ Listed(Idle.old) = {}
BY RowTypes DEF Idle, Req, PC, Listed

\* The tasks of a request are tasks of its kind.
LEMMA OwnTasks ==
  ASSUME NEW r \in Requests
  PROVE  /\ Own(r) \subseteq Tasks /\ TasksOf[r] \in Seq(Own(r)) /\ TasksOf[r] # << >>
         /\ \A t \in Own(r) : Kind[t] = KindOf(r)
         /\ KindOf(r) \in TaskKind
<1>1. TasksOf[r] \in Seq(Tasks) /\ TasksOf[r] # << >>
  BY DEF ReplacementAssumption
<1>2. DOMAIN TasksOf[r] = 1 .. Len(TasksOf[r]) /\ Len(TasksOf[r]) \in Nat \ {0}
  BY <1>1
<1>3. Own(r) \subseteq Tasks
  BY <1>1, <1>2, ElementOfSeq DEF Own
<1>4. TasksOf[r] \in [1 .. Len(TasksOf[r]) -> Own(r)]
  BY <1>1, <1>2 DEF Own
<1>5. TasksOf[r] \in Seq(Own(r))
  BY <1>2, <1>4, SeqDef
<1>6. TasksOf[r][1] \in Own(r)
  BY <1>2 DEF Own
<1>7. KindOf(r) \in TaskKind
  BY <1>3, <1>6 DEF KindOf, ReplacementAssumption
<1> QED BY <1>1, <1>3, <1>5, <1>7 DEF ReplacementAssumption

-----------------------------------------------------------------------------
(***************************************************************************)
(* What is known of one request.                                           *)
(***************************************************************************)
\* r has yet to store the task it clears the way for.
Before(q, r) == q.task = "none" \/ CancelsFirst(r)
Storing == {"enqueue", "mark"}
Cancelling == {"cancel", "cancelWrite"}

\* A request lists stored rows: rows its task replaces, or rows of its kind that
\* it clears away; and one that has stored its task is newer than its list.
ReqInv(rows, q, r) ==
  /\ q \in Req
  /\ q.todo \in Seq(Own(r)) /\ q.task \in Own(r) \cup {"none"}
  /\ q.pc \in {"idle", "clear"} => q.task = "none"
  /\ q.task = "none" => q.pc \in {"idle", "clear"} \cup Cancelling
  /\ q.task = "none" /\ q.pc # "idle" => r \in Whole /\ q.todo = TasksOf[r]
  /\ \A t \in Listed(q.old) :
       /\ rows[t].status # "absent" /\ q.old[t].created = rows[t].created
       /\ IF t \in StoredFirst THEN q.task # "none" /\ Replaces(q.task, t)
          ELSE Kind[t] = KindOf(r)
  /\ q.pc \in Storing \/ (q.pc \in Cancelling /\ ~Before(q, r)) =>
       /\ rows[q.task].status # "absent" /\ rows[q.task].created = q.stamp
       /\ \A t \in Listed(q.old) : rows[t].created < q.stamp

\* The next module's request knows nothing yet.
LEMMA FreshInv ==
  ASSUME NEW r \in Requests
  PROVE  \A rows :
           /\ ReqInv(rows, Idle, r)
           /\ \A s \in Seq(Own(r)) : s # << >> =>
                LET q == [Idle EXCEPT !.pc = FirstPC(r), !.todo = Tail(s), !.task = Head(s)]
                IN  ReqInv(rows, q, r) /\ q.pc \in {"find", "list"}
<1> TAKE rows
<1>1. ReqInv(rows, Idle, r)
  BY IdleType DEF ReqInv, Storing, Cancelling
<1>2. ASSUME NEW s \in Seq(Own(r)), s # << >>
      PROVE  LET q == [Idle EXCEPT !.pc = FirstPC(r), !.todo = Tail(s), !.task = Head(s)]
             IN  ReqInv(rows, q, r) /\ q.pc \in {"find", "list"}
  <2> DEFINE q == [Idle EXCEPT !.pc = FirstPC(r), !.todo = Tail(s), !.task = Head(s)]
  <2>1. Head(s) \in Own(r) /\ Tail(s) \in Seq(Own(r)) /\ FirstPC(r) \in {"list", "find"}
    BY <1>2, HeadTailProperties DEF FirstPC
  <2>2. Own(r) \subseteq Tasks
    BY OwnTasks
  <2>3. Tail(s) \in Seq(Tasks) /\ Head(s) \in Tasks /\ Head(s) # "none"
    BY <2>1, <2>2, SeqMonotonic DEF ReplacementAssumption
  <2>4. /\ q \in Req /\ q.pc = FirstPC(r) /\ q.todo = Tail(s) /\ q.task = Head(s)
        /\ q.old = Idle.old
    BY <2>1, <2>3, IdleType DEF Req, PC
  <2> HIDE DEF q
  <2>5. ReqInv(rows, q, r) /\ q.pc \in {"find", "list"}
    BY <2>1, <2>3, <2>4, IdleType DEF ReqInv, Storing, Cancelling
  <2> QED BY <2>5 DEF q
<1> QED BY <1>1, <1>2

\* A step of r alone, to q.
Becomes(r, q) == req' = [req EXCEPT ![r] = q]

\* So a request that goes on to the next module keeps ReqInv.
LEMMA NextTaskInv ==
  ASSUME NEW r \in Requests, NEW s \in Seq(Own(r)), NextTaskWith(r, s)
  PROVE  \E q : /\ Becomes(r, q) /\ \A rows : ReqInv(rows, q, r)
                /\ q.pc \in {"idle", "find", "list"}
                /\ q.pc = "idle" => s = << >>
                /\ s # << >> => q.todo = Tail(s) /\ q.task = Head(s)
<1>1. CASE s = << >>
  BY <1>1, FreshInv, IdleType DEF NextTaskWith, Becomes
<1>2. CASE s # << >>
  <2> DEFINE q == [Idle EXCEPT !.pc = FirstPC(r), !.todo = Tail(s), !.task = Head(s)]
  <2>1. Becomes(r, q)
    BY <1>2 DEF NextTaskWith, Becomes
  <2>2. /\ \A rows : ReqInv(rows, q, r)
        /\ q.pc \in {"find", "list"} 
    BY <1>2, FreshInv
  <2>3. q.todo = Tail(s) /\ q.task = Head(s)
    BY IdleType DEF Req
  <2> HIDE DEF q
  <2> QED BY <1>2, <2>1, <2>2, <2>3
<1> QED BY <1>1, <1>2

\* Rows are never deleted, and keep their created_at.
Grown(old, new) ==
  \A t \in Tasks : old[t].status # "absent" =>
    new[t].status # "absent" /\ new[t].created = old[t].created

LEMMA ReqInvStays ==
  ASSUME NEW r \in Requests, NEW q, NEW rows, NEW new, ReqInv(rows, q, r), Grown(rows, new)
  PROVE  ReqInv(new, q, r)
<1>1. Own(r) \subseteq Tasks /\ Listed(q.old) \subseteq Tasks
  BY OwnTasks DEF Listed
<1>2. q.pc \in Storing \/ (q.pc \in Cancelling /\ ~Before(q, r)) => q.task \in Tasks
  BY <1>1 DEF ReqInv, Storing, Cancelling, Before
<1> QED BY <1>1, <1>2 DEF ReqInv, Grown

-----------------------------------------------------------------------------
(***************************************************************************)
(* The inductive invariant of the types and of NewestKept.                 *)
(***************************************************************************)
\* A stored task that replaces t was created after it.
Superseded(t) ==
  \E u \in Tasks : Stored(u) /\ Replaces(u, t) /\ row[u].created > row[t].created

RowsDated == \A t \in Tasks : row[t].created <= clock
RequestsOK == \A r \in made : ReqInv(row, req[r], r)

\* A task is cancelled, or about to be, only once a newer one is stored.
CancelledOrAboutTo(t) == row[t].status = "cancelled" \/ ctx[t]
NewerStored == \A t \in StoredFirst : CancelledOrAboutTo(t) => Stored(t) /\ Superseded(t)

RInv == TypeOK /\ RowsDated /\ RequestsOK /\ NewerStored

\* A step of r alone keeps the requests typed and ReqInv of all.
LEMMA OneRequestMoves ==
  ASSUME TypeOK, RequestsOK, made' = made, NEW r \in made, NEW q, Becomes(r, q),
         ReqInv(row', q, r), Grown(row, row')
  PROVE  req' \in [made' -> Req] /\ RequestsOK'
<1>1. made \subseteq Requests /\ req \in [made -> Req]
  BY DEF TypeOK, Requests, Req, Keys
<1>2. \A s \in made : req'[s] = IF s = r THEN q ELSE req[s]
  BY <1>1 DEF Becomes
<1>3. q \in Req
  BY DEF ReqInv
<1>4. req' \in [made' -> Req]
  BY <1>1, <1>3 DEF Becomes
<1>5. ASSUME NEW s \in made PROVE ReqInv(row', req'[s], s)
  <2>1. CASE s = r
    BY <1>2, <2>1
  <2>2. CASE s # r
    <3>1. ReqInv(row, req[s], s) /\ s \in Requests
      BY <1>1 DEF RequestsOK
    <3>2. ReqInv(row', req[s], s)
      BY <3>1, ReqInvStays
    <3> QED BY <1>2, <2>2, <3>2
  <2> QED BY <2>1, <2>2
<1> QED BY <1>4, <1>5 DEF RequestsOK

\* Tasks stay superseded.
LEMMA StaysSuperseded ==
  ASSUME TypeOK, Grown(row, row'), NEW t \in Tasks, Stored(t), Superseded(t)
  PROVE  Superseded(t)'
BY DEF Stored, Superseded, Grown, Replaces

\* A request that goes elsewhere with what it knows.
LEMMA GoneTo ==
  ASSUME TypeOK, NEW r \in made, NEW pc \in PC, Goto(r, pc)
  PROVE  \E q : /\ Becomes(r, q) /\ q \in Req /\ q.pc = pc
                /\ q.todo = req[r].todo /\ q.task = req[r].task /\ q.stamp = req[r].stamp
                /\ q.old = req[r].old /\ q.keys = req[r].keys /\ q.blind = req[r].blind
<1> DEFINE q == [req[r] EXCEPT !.pc = pc]
<1>1. req \in [made -> Req]
  BY DEF TypeOK, Req, Keys
<1>2. Becomes(r, q)
  BY <1>1 DEF Goto, Becomes
<1>3. /\ q \in Req /\ q.pc = pc
      /\ q.todo = req[r].todo /\ q.task = req[r].task /\ q.stamp = req[r].stamp
      /\ q.old = req[r].old /\ q.keys = req[r].keys /\ q.blind = req[r].blind
  <2>1. req[r] \in Req
    BY <1>1
  <2> QED BY <2>1 DEF Req
<1> HIDE DEF q
<1> QED BY <1>2, <1>3

\* What is known at a step of r.
LEMMA AtStep ==
  ASSUME RInv, NEW r \in made
  PROVE  /\ r \in Requests /\ req[r] \in Req /\ ReqInv(row, req[r], r)
         /\ Own(r) \subseteq Tasks /\ req[r].todo \in Seq(Own(r))
         /\ req[r].pc \in {"find", "list", "create", "enqueue", "mark"} =>
              req[r].task \in Own(r) /\ req[r].task \in Tasks
<1>1. r \in Requests
  BY DEF RInv, TypeOK, Requests
<1>2. ReqInv(row, req[r], r)
  BY DEF RInv, RequestsOK
<1> QED BY <1>1, <1>2, OwnTasks DEF ReqInv, Cancelling

-----------------------------------------------------------------------------
(***************************************************************************)
(* Each step of a request leads to a request of which ReqInv holds.        *)
(***************************************************************************)
LEMMA ReceiveStep ==
  ASSUME RInv, NEW r \in made, Receive(r)
  PROVE  /\ \E q : Becomes(r, q) /\ ReqInv(row, q, r)
         /\ DOMAIN calls' = made /\ \A s \in made : calls'[s] \in 0 .. MaxCalls[s]
         /\ UNCHANGED <<row, entry, ctx, clock, unstored, made>>
<1>1. /\ r \in Requests /\ ReqInv(row, req[r], r) /\ TasksOf[r] \in Seq(Own(r))
      /\ TasksOf[r] # << >>
  BY AtStep, OwnTasks
<1>2. Call(r)
  BY DEF Receive, IssueRequest, MergedGenTests, MergedE2E, CodeFromDoc, ManualModule,
         WholeRepository
<1>3. DOMAIN calls' = made /\ \A s \in made : calls'[s] \in 0 .. MaxCalls[s]
  <2>1. /\ DOMAIN calls = made /\ \A s \in made : calls[s] \in 0 .. MaxCalls[s]
        /\ \A s \in made : MaxCalls[s] \in Nat
    BY DEF RInv, TypeOK, Requests, ReplacementAssumption
  <2>2. DOMAIN calls' = made /\ \A s \in made : calls'[s] = IF s = r THEN calls[r] + 1 ELSE calls[s]
    BY <1>2, <2>1 DEF Call
  <2>3. calls[r] < MaxCalls[r]
    BY <1>2 DEF Call
  <2> QED BY <2>1, <2>2, <2>3
<1>4. \A s \in Seq(Own(r)) : NextTaskWith(r, s) => \E q : Becomes(r, q) /\ ReqInv(row, q, r)
  BY <1>1, NextTaskInv
<1>5. \E q : Becomes(r, q) /\ ReqInv(row, q, r)
  <2>1. CASE IssueRequest(r) \/ MergedE2E(r) \/ ManualModule(r)
    BY <1>1, <1>4, <2>1 DEF IssueRequest, MergedE2E, ManualModule
  <2>2. CASE MergedGenTests(r)
    <3>1. PICK n \in 0 .. Len(TasksOf[r]) : NextTaskWith(r, SubSeq(TasksOf[r], 1, n))
      BY <2>2 DEF MergedGenTests
    <3>2. SubSeq(TasksOf[r], 1, n) \in Seq(Own(r))
      BY <1>1, LenProperties, SubSeqProperties
    <3> QED BY <1>4, <3>1, <3>2
  <2>3. CASE CodeFromDoc(r)
    <3>1. Len(TasksOf[r]) = 2
      BY <1>1, <2>3 DEF CodeFromDoc, ReplacementAssumption
    <3>2. <<TasksOf[r][1]>> \in Seq(Own(r)) /\ <<TasksOf[r][2]>> \in Seq(Own(r))
      BY <1>1, <3>1
    <3>3. CASE UNCHANGED req
      BY <1>1, <3>3 DEF RInv, TypeOK, Becomes
    <3> QED BY <1>4, <2>3, <3>2, <3>3 DEF CodeFromDoc
  <2>4. CASE WholeRepository(r)
    <3>1. PICK K \in SUBSET Keys :
            req' = [req EXCEPT ![r] = [Idle EXCEPT !.pc = "clear", !.todo = TasksOf[r],
                                                    !.keys = K]]
      <4>1. {Key[u] : u \in ActiveOf(KindOf(r))} \in SUBSET Keys /\ {} \in SUBSET Keys
        BY DEF Keys, ActiveOf
      <4> QED BY <2>4, <4>1 DEF WholeRepository
    <3> DEFINE q == [Idle EXCEPT !.pc = "clear", !.todo = TasksOf[r], !.keys = K]
    <3>2. TasksOf[r] \in Seq(Tasks)
      BY <1>1 DEF ReplacementAssumption
    <3>3. /\ q \in Req /\ q.pc = "clear" /\ q.todo = TasksOf[r] /\ q.task = "none"
          /\ q.old = Idle.old
      BY <3>2, IdleType DEF Req, PC
    <3>4. Becomes(r, q) /\ r \in Whole
      BY <2>4, <3>1 DEF Becomes, WholeRepository
    <3> HIDE DEF q
    <3>5. ReqInv(row, q, r)
      BY <1>1, <3>3, <3>4, IdleType DEF ReqInv, Storing, Cancelling
    <3> QED BY <3>4, <3>5
  <2> QED BY <2>1, <2>2, <2>3, <2>4 DEF Receive
<1> QED BY <1>2, <1>3, <1>5 DEF Call

LEMMA ActiveTasks ==
  ASSUME TypeOK, NEW kind
  PROVE  ActiveOf(kind) \subseteq Tasks
BY DEF ActiveOf

\* With a list of rows, and somewhere else to go.
WithList(q, S, pc, keys, blind) ==
  [q EXCEPT !.keys = keys, !.old = RowsOf(S), !.blind = blind, !.pc = pc]

LEMMA ClearStep ==
  ASSUME RInv, NEW r \in made, Clear(r)
  PROVE  /\ \E q : Becomes(r, q) /\ ReqInv(row, q, r)
         /\ UNCHANGED <<row, entry, calls, ctx, clock, unstored, made>>
<1>1. /\ r \in Requests /\ req[r] \in Req /\ ReqInv(row, req[r], r)
      /\ req[r].todo \in Seq(Own(r)) /\ req[r].pc = "clear" /\ TypeOK
  BY AtStep DEF Clear, At, RInv
<1>2. req[r].task = "none" /\ r \in Whole /\ req[r].todo = TasksOf[r]
  BY <1>1 DEF ReqInv
<1>3. CASE req[r].keys = {} /\ Modules(r)
  BY <1>1, <1>3, NextTaskInv DEF Modules, NextTask, Clear
<1>4. CASE ~(req[r].keys = {} /\ Modules(r))
  <2>k. PICK k \in req[r].keys, seen \in {TRUE} \cup {~StoreFaults} :
             LET S == {u \in ActiveOf(KindOf(r)) : seen /\ Key[u] = k} IN
             req' = [req EXCEPT ![r].keys = @ \ {k}, ![r].old = RowsOf(S),
                    ![r].pc = IF S = {} THEN "clear" ELSE "cancel"]
    BY <1>4 DEF Clear
  <2> DEFINE S == {u \in ActiveOf(KindOf(r)) : seen /\ Key[u] = k}
             pc == IF S = {} THEN "clear" ELSE "cancel"
             left == req[r].keys \ {k}
  <2>1. /\ pc \in PC /\ left \in SUBSET Keys /\ req[r].blind \in BOOLEAN
        /\ pc \in {"clear", "cancel"}
    BY <1>1 DEF PC, Req
  <2>2. Becomes(r, WithList(req[r], S, pc, left, req[r].blind))
    <3>1. req = [s \in made |-> req[s]]
      BY <1>1 DEF TypeOK
    <3> DEFINE a == [req[r] EXCEPT !.keys = left, !.old = RowsOf(S), !.pc = pc]
    <3>2. a = WithList(req[r], S, pc, left, req[r].blind)
      BY <1>1 DEF Req, WithList
    <3>3. req' = [req EXCEPT ![r] = a]
      BY <2>k, <3>1
    <3> HIDE DEF a
    <3> QED BY <3>2, <3>3 DEF Becomes
  <2>3. /\ S \subseteq Tasks /\ \A u \in S : Kind[u] = KindOf(r)
    BY DEF ActiveOf
  <2>4. \A u \in S : u \notin StoredFirst
    <3>1. KindOf(r) \in {"gen_tests", "run_e2e"}
      BY <1>1, <1>2 DEF ReplacementAssumption
    <3> QED BY <2>3, <3>1 DEF StoredFirst
  <2>5. \A u \in Listed(RowsOf(S)) : u \in S /\ Stored(u) /\ RowsOf(S)[u] = row[u]
    BY <1>1, RowsOfType DEF TypeOK
  <2> HIDE DEF S, pc, left
  <2> DEFINE q == WithList(req[r], S, pc, left, req[r].blind)
  <2>6. /\ Becomes(r, q) /\ q \in Req /\ q.pc = pc
        /\ q.todo = req[r].todo /\ q.task = req[r].task /\ q.old = RowsOf(S)
    <3>1. RowsOf(S) \in [Tasks -> Row]
      BY <1>1, RowsOfType DEF TypeOK
    <3> QED BY <1>1, <2>1, <2>2, <3>1 DEF Req, WithList
  <2> HIDE DEF q
  <2>7. ReqInv(row, q, r)
    BY <1>1, <1>2, <2>1, <2>3, <2>4, <2>5, <2>6 DEF ReqInv, Storing, Cancelling, Before, Stored
  <2> QED BY <2>6, <2>7 DEF Clear
<1>5. UNCHANGED <<row, entry, calls, ctx, clock, unstored, made>>
  BY DEF Clear
<1> QED BY <1>3, <1>4, <1>5

LEMMA FindStep ==
  ASSUME RInv, NEW r \in made, Find(r)
  PROVE  /\ \E q : Becomes(r, q) /\ ReqInv(row, q, r)
         /\ UNCHANGED <<row, entry, calls, ctx, clock, unstored, made>>
<1>1. /\ r \in Requests /\ req[r] \in Req /\ ReqInv(row, req[r], r)
      /\ req[r].todo \in Seq(Own(r)) /\ req[r].pc = "find" /\ TypeOK
      /\ req[r].task \in Own(r) /\ req[r].task \in Tasks
  BY AtStep DEF Find, At, RInv
<1>2. CASE NextTask(r)
  BY <1>1, <1>2, NextTaskInv DEF NextTask, Find
<1>3. CASE Goto(r, "list")
  <2>1. "list" \in PC
    BY DEF PC
  <2>2. PICK q : /\ Becomes(r, q) /\ q \in Req /\ q.pc = "list"
                 /\ q.todo = req[r].todo /\ q.task = req[r].task /\ q.old = req[r].old
    BY <1>1, <1>3, <2>1, GoneTo
  <2>3. q.task # "none"
    BY <1>1, <2>2 DEF ReplacementAssumption
  <2>4. ReqInv(row, q, r)
    BY <1>1, <2>2, <2>3 DEF ReqInv, Storing, Cancelling
  <2> QED BY <2>2, <2>4 DEF Find
<1>4. /\ NextTask(r) \/ Goto(r, "list")
      /\ UNCHANGED <<row, entry, calls, ctx, clock, unstored, made>>
  BY DEF Find
<1> QED BY <1>2, <1>3, <1>4 DEF Find

\* What List lists: rows that q.task replaces, or of q's kind.
LEMMA ListedInv ==
  ASSUME RInv, NEW r \in made, At(r, "list"), NEW S, NEW blind \in BOOLEAN, S \subseteq Tasks,
         \A u \in S : IF u \in StoredFirst THEN Replaces(req[r].task, u) ELSE Kind[u] = KindOf(r),
         ToCancel(r, S, blind)
  PROVE  \E q : Becomes(r, q) /\ ReqInv(row, q, r)
<1> DEFINE pc == IF CancelsFirst(r) /\ S # {} THEN "cancel" ELSE "create"
           q == WithList(req[r], S, pc, req[r].keys, blind)
<1>1. /\ r \in Requests /\ req[r] \in Req /\ ReqInv(row, req[r], r)
      /\ req[r].todo \in Seq(Own(r)) /\ req[r].pc = "list" /\ TypeOK
      /\ req[r].task \in Own(r) /\ req[r].task \in Tasks
  BY AtStep DEF At, RInv
<1>2. pc \in {"cancel", "create"} /\ (pc = "cancel" => CancelsFirst(r))
  OBVIOUS
<1>3. Becomes(r, q)
  <2>1. req = [s \in made |-> req[s]]
    BY <1>1 DEF TypeOK
  <2> DEFINE a == [req[r] EXCEPT !.old = RowsOf(S), !.blind = blind, !.pc = pc]
  <2>2. a = q
    BY <1>1 DEF Req, WithList
  <2>3. req' = [req EXCEPT ![r] = a]
    BY <2>1 DEF ToCancel
  <2> HIDE DEF a, q
  <2> QED BY <2>2, <2>3 DEF Becomes
<1>4. \A u \in Listed(RowsOf(S)) : u \in S /\ Stored(u) /\ RowsOf(S)[u] = row[u]
  BY <1>1, RowsOfType DEF TypeOK
<1> HIDE DEF pc
<1>5. /\ q \in Req /\ q.pc = pc
      /\ q.todo = req[r].todo /\ q.task = req[r].task /\ q.old = RowsOf(S)
  <2>1. RowsOf(S) \in [Tasks -> Row]
    BY <1>1, RowsOfType DEF TypeOK
  <2>2. pc \in PC
    BY <1>2 DEF PC
  <2> QED BY <1>1, <2>1, <2>2 DEF Req, WithList
<1> HIDE DEF q
<1>6. q.task # "none"
  BY <1>1, <1>5 DEF ReplacementAssumption
<1>7. ReqInv(row, q, r)
  BY <1>1, <1>2, <1>4, <1>5, <1>6 DEF ReqInv, Storing, Cancelling, Before, Stored
<1> QED BY <1>3, <1>7

LEMMA ListStep ==
  ASSUME RInv, NEW r \in made, List(r)
  PROVE  /\ \E q : Becomes(r, q) /\ ReqInv(row, q, r)
         /\ UNCHANGED <<row, entry, calls, ctx, clock, unstored, made>>
<1> SUFFICES \E q : Becomes(r, q) /\ ReqInv(row, q, r)
  BY DEF List
<1> DEFINE t == req[r].task
<1>1. /\ r \in Requests /\ req[r] \in Req /\ ReqInv(row, req[r], r)
      /\ req[r].todo \in Seq(Own(r)) /\ req[r].pc = "list" /\ TypeOK /\ At(r, "list")
      /\ t \in Own(r) /\ t \in Tasks /\ Kind[t] = KindOf(r) /\ KindOf(r) \in TaskKind
  BY AtStep, OwnTasks DEF List, At, RInv
<1>2. CASE ToCancel(r, Replaced(t), FALSE)
  <2>1. Replaced(t) \subseteq Tasks
    BY DEF Replaced
  <2>2. ASSUME NEW u \in Replaced(t)
        PROVE  IF u \in StoredFirst THEN Replaces(t, u) ELSE Kind[u] = KindOf(r)
    <3>1. Replaces(t, u) /\ u \in Tasks
      BY DEF Replaced
    <3>2. CASE u \notin StoredFirst
      BY <1>1, <3>1, <3>2 DEF Replaces, StoredFirst
    <3> QED BY <3>1, <3>2
  <2> QED BY <1>1, <1>2, <2>1, <2>2, ListedInv
<1>3. CASE /\ Kind[t] = "gen_tests"
           /\ ToCancel(r, {u \in ActiveOf("gen_tests") : Key[u] = Key[t]}, TRUE)
  <2> DEFINE S == {u \in ActiveOf("gen_tests") : Key[u] = Key[t]}
  <2>1. S \subseteq Tasks /\ \A u \in S : u \notin StoredFirst /\ Kind[u] = KindOf(r)
    BY <1>1, <1>3 DEF ActiveOf, StoredFirst
  <2>2. ToCancel(r, S, TRUE)
    BY <1>3
  <2> HIDE DEF S
  <2> QED BY <1>1, <2>1, <2>2, ListedInv
<1>4. CASE NextTask(r)
  BY <1>1, <1>4, NextTaskInv DEF NextTask
<1>5. CASE Goto(r, "create")
  <2>1. "create" \in PC
    BY DEF PC
  <2>2. PICK q : /\ Becomes(r, q) /\ q \in Req /\ q.pc = "create"
                 /\ q.todo = req[r].todo /\ q.task = req[r].task /\ q.old = req[r].old
    BY <1>1, <1>5, <2>1, GoneTo
  <2>3. q.task # "none"
    BY <1>1, <2>2 DEF ReplacementAssumption
  <2>4. ReqInv(row, q, r)
    BY <1>1, <2>2, <2>3 DEF ReqInv, Storing, Cancelling
  <2> QED BY <2>2, <2>4
<1>6. \/ ToCancel(r, Replaced(t), FALSE)
      \/ /\ Kind[t] = "gen_tests"
         /\ ToCancel(r, {u \in ActiveOf("gen_tests") : Key[u] = Key[t]}, TRUE)
      \/ NextTask(r)
      \/ Goto(r, "create")
  BY DEF List
<1> QED BY <1>2, <1>3, <1>4, <1>5, <1>6

LEMMA CreateStep ==
  ASSUME RInv, NEW r \in made, Create(r)
  PROVE  /\ \E q : Becomes(r, q) /\ ReqInv(row', q, r)
         /\ row' \in [Tasks -> Row] /\ Grown(row, row')
         /\ clock' = clock + 1 /\ unstored' \subseteq Tasks
         /\ UNCHANGED <<entry, calls, ctx, made>>
         /\ \A t \in Tasks : row'[t] = row[t] \/ row'[t] = PendingRow(clock + 1)
<1> DEFINE t == req[r].task
<1>1. /\ r \in Requests /\ req[r] \in Req /\ ReqInv(row, req[r], r)
      /\ req[r].todo \in Seq(Own(r)) /\ req[r].pc = "create" /\ TypeOK
      /\ t \in Own(r) /\ t \in Tasks
  BY AtStep DEF Create, At, RInv
<1>2. /\ row \in [Tasks -> Row] /\ unstored \subseteq Tasks /\ clock \in Nat
      /\ UNCHANGED <<entry, calls, ctx, made>> /\ clock' = clock + 1 /\ clock + 1 \in Nat
  BY <1>1 DEF TypeOK, Create
<1>3. CASE NextTask(r) /\ UNCHANGED row
  <2>1. \E q : Becomes(r, q) /\ ReqInv(row', q, r)
    BY <1>1, <1>3, NextTaskInv DEF NextTask
  <2>2. unstored' \subseteq Tasks
    <3>1. unstored' = unstored \/ unstored' = unstored \cup {t}
      BY DEF Create
    <3> QED BY <1>1, <1>2, <3>1
  <2> QED BY <1>2, <1>3, <2>1, <2>2 DEF Grown
<1>4. CASE /\ CreateTask(t, PendingRow(clock + 1))
           /\ req' = [req EXCEPT ![r].pc = "enqueue", ![r].stamp = clock + 1]
           /\ UNCHANGED unstored
  <2> DEFINE q == [req[r] EXCEPT !.pc = "enqueue", !.stamp = clock + 1]
  <2>1. Becomes(r, q)
    <3>1. req = [s \in made |-> req[s]]
      BY <1>1 DEF TypeOK
    <3> QED BY <1>4, <3>1 DEF Becomes
  <2>2. /\ q \in Req /\ q.pc = "enqueue" /\ q.stamp = clock + 1
        /\ q.todo = req[r].todo /\ q.task = req[r].task /\ q.old = req[r].old
    <3>1. "enqueue" \in PC
      BY DEF PC
    <3> QED BY <1>1, <1>2, <3>1 DEF Req
  <2> HIDE DEF q
  <2>3. /\ PendingRow(clock + 1) \in Row /\ PendingRow(clock + 1).created = clock + 1
        /\ PendingRow(clock + 1).status = "pending"
    BY <1>2, RowTypes
  <2>4. /\ ~Stored(t) /\ row'[t] = PendingRow(clock + 1)
        /\ row' \in [Tasks -> Row] /\ \A u \in Tasks : u # t => row'[u] = row[u]
    BY <1>1, <1>2, <1>4, <2>3 DEF CreateTask
  <2>5. Grown(row, row')
    BY <2>4 DEF Grown, Stored
  <2>6. ReqInv(row', req[r], r)
    BY <1>1, <2>5, ReqInvStays
  <2>7. Listed(q.old) \subseteq Tasks
    BY DEF Listed
  <2>8. \A u \in Listed(q.old) : row'[u].created < q.stamp
    <3> TAKE u \in Listed(q.old)
    <3>1. u \in Tasks /\ row[u].status # "absent"
      BY <1>1, <2>2, <2>7 DEF ReqInv
    <3>2. u # t /\ row'[u] = row[u]
      BY <2>4, <3>1 DEF Stored
    <3>3. row[u].created <= clock /\ row[u].created \in Nat
      BY <1>2, <3>1 DEF RInv, RowsDated, Row
    <3> QED BY <1>2, <2>2, <3>2, <3>3
  <2>9. q.task # "none"
    BY <1>1, <2>2 DEF ReplacementAssumption
  <2>10. ReqInv(row', q, r)
    BY <1>1, <2>2, <2>3, <2>4, <2>6, <2>8, <2>9 DEF ReqInv, Storing, Cancelling
  <2> QED BY <1>2, <1>4, <2>1, <2>4, <2>5, <2>10
<1> QED BY <1>3, <1>4 DEF Create

\* After enqueueTask, whatever has become of the rows.
LEMMA GoOnInv ==
  ASSUME TypeOK, NEW r \in made, NEW rows, ReqInv(rows, req[r], r), req[r].pc \in Storing,
         GoOn(r)
  PROVE  \E q : Becomes(r, q) /\ ReqInv(rows, q, r)
<1>1. r \in Requests /\ req[r].todo \in Seq(Own(r))
  BY DEF TypeOK, Requests, ReqInv
<1>2. CASE NextTask(r)
  BY <1>1, <1>2, NextTaskInv DEF NextTask
<1>3. CASE Goto(r, "cancel")
  <2>1. "cancel" \in PC
    BY DEF PC
  <2>2. PICK q : /\ Becomes(r, q) /\ q \in Req /\ q.pc = "cancel" /\ q.stamp = req[r].stamp
                 /\ q.todo = req[r].todo /\ q.task = req[r].task /\ q.old = req[r].old
    BY <1>3, <2>1, GoneTo
  <2>3. q.task # "none"
    BY <2>2 DEF ReqInv, Storing, Cancelling
  <2>4. ReqInv(rows, q, r)
    BY <2>2, <2>3 DEF ReqInv, Storing, Cancelling
  <2> QED BY <2>2, <2>4
<1> QED BY <1>2, <1>3 DEF GoOn

LEMMA EntryTypes ==
  /\ NoEntry \in Entry /\ Waiting(0) \in Entry
  /\ \A e \in Entry : /\ [e EXCEPT !.state = "active"] \in Entry
                      /\ [e EXCEPT !.state = "archived"] \in Entry
                      /\ e.retried < MaxRetry => Waiting(e.retried + 1) \in Entry
BY DEF AsynqAssumption, NoEntry, Waiting, Entry

LEMMA EnqueueStep ==
  ASSUME RInv, NEW r \in made, Enqueue(r)
  PROVE  /\ \E q : Becomes(r, q) /\ ReqInv(row, q, r)
         /\ entry' \in [Tasks -> Entry]
         /\ UNCHANGED <<row, calls, ctx, clock, unstored, made>>
<1>1. /\ r \in Requests /\ req[r] \in Req /\ ReqInv(row, req[r], r)
      /\ req[r].todo \in Seq(Own(r)) /\ req[r].pc = "enqueue" /\ TypeOK
      /\ req[r].task \in Own(r) /\ req[r].task \in Tasks
  BY AtStep DEF Enqueue, At, RInv
<1>2. entry' \in [Tasks -> Entry]
  BY <1>1, EntryTypes DEF Enqueue, Accept, Conflict, TypeOK
<1>3. CASE GoOn(r)
  <2>1. \E q : Becomes(r, q) /\ ReqInv(row, q, r)
    BY <1>1, <1>3, GoOnInv DEF Storing
  <2> QED BY <1>2, <2>1 DEF Enqueue
<1>4. CASE Goto(r, "mark")
  <2>1. "mark" \in PC
    BY DEF PC
  <2>2. PICK q : /\ Becomes(r, q) /\ q \in Req /\ q.pc = "mark" /\ q.stamp = req[r].stamp
                 /\ q.todo = req[r].todo /\ q.task = req[r].task /\ q.old = req[r].old
    BY <1>1, <1>4, <2>1, GoneTo
  <2>3. q.task # "none"
    BY <1>1, <2>2 DEF ReplacementAssumption
  <2>4. ReqInv(row, q, r)
    BY <1>1, <2>2, <2>3 DEF ReqInv, Storing, Cancelling
  <2> QED BY <1>2, <2>2, <2>4 DEF Enqueue
<1> QED BY <1>3, <1>4 DEF Enqueue

\* A stored row replaced by one of the same age.
LEMMA RewrittenRow ==
  ASSUME row \in [Tasks -> Row], NEW t \in Tasks, NEW rec \in Row,
         TryUpdateTask(t, rec), Stored(t) => rec.status # "absent" /\ rec.created = row[t].created
  PROVE  /\ row' \in [Tasks -> Row] /\ Grown(row, row')
         /\ row'[t] \in {row[t], rec} /\ \A u \in Tasks : u # t => row'[u] = row[u]
BY DEF TryUpdateTask, UpdateTask, Grown, Stored

LEMMA MarkStep ==
  ASSUME RInv, NEW r \in made, MarkQueued(r)
  PROVE  /\ \E q : Becomes(r, q) /\ ReqInv(row', q, r)
         /\ row' \in [Tasks -> Row] /\ Grown(row, row')
         /\ UNCHANGED <<entry, calls, ctx, clock, unstored, made>>
         /\ \A t \in Tasks : \/ row'[t] = row[t]
                             \/ /\ row'[t].status = "queued" /\ Stored(t)
                                /\ row'[t].created = row[t].created
<1> DEFINE t == req[r].task
           rec == [status |-> "queued", asynqID |-> TRUE, created |-> req[r].stamp]
<1>1. /\ r \in Requests /\ req[r] \in Req /\ ReqInv(row, req[r], r)
      /\ req[r].todo \in Seq(Own(r)) /\ req[r].pc = "mark" /\ TypeOK
      /\ t \in Own(r) /\ t \in Tasks
  BY AtStep DEF MarkQueued, At, RInv
<1>2. row[t].status # "absent" /\ row[t].created = req[r].stamp
  BY <1>1 DEF ReqInv, Storing
<1>3. rec \in Row /\ rec.status = "queued" /\ rec.created = row[t].created
  BY <1>1, <1>2, RowTypes DEF Req
<1>4. TryUpdateTask(t, rec)
  BY DEF MarkQueued
<1> HIDE DEF rec, t
<1>5. /\ row' \in [Tasks -> Row] /\ Grown(row, row')
      /\ row'[t] \in {row[t], rec} /\ \A u \in Tasks : u # t => row'[u] = row[u]
  BY <1>1, <1>3, <1>4, RewrittenRow DEF TypeOK
<1>6. ReqInv(row', req[r], r)
  BY <1>1, <1>5, ReqInvStays
<1>7. \E q : Becomes(r, q) /\ ReqInv(row', q, r)
  BY <1>1, <1>6, GoOnInv DEF MarkQueued, Storing
<1> QED BY <1>2, <1>3, <1>5, <1>7 DEF MarkQueued, Stored

\* A listed row less.
LEMMA DroppedInv ==
  ASSUME TypeOK, NEW r \in made, NEW rows, ReqInv(rows, req[r], r), req[r].pc \in Cancelling,
         NEW t \in Tasks, Dropped(r, t)
  PROVE  \E q : Becomes(r, q) /\ ReqInv(rows, q, r)
<1> DEFINE old == [req[r].old EXCEPT ![t] = NewRow]
           To(pc) == [req[r] EXCEPT !.old = old, !.pc = pc]
<1>1. r \in Requests /\ req[r] \in Req /\ req[r].todo \in Seq(Own(r))
  BY DEF TypeOK, Requests, ReqInv
<1>2. old \in [Tasks -> Row] /\ \A u \in Listed(old) : u \in Listed(req[r].old) /\ old[u] = req[r].old[u]
  BY <1>1, RowTypes DEF Req, Listed
<1>3. CASE NextTask(r)
  BY <1>1, <1>3, NextTaskInv DEF NextTask
<1>4. ASSUME NEW pc \in {"cancel", "create", "clear"},
             pc = "create" => req[r].task # "none",
             pc = "clear" => req[r].task = "none",
             req' = [req EXCEPT ![r].old = old, ![r].pc = pc]
      PROVE  \E q : Becomes(r, q) /\ ReqInv(rows, q, r)
  <2>1. Becomes(r, To(pc))
    <3>1. req = [s \in made |-> req[s]]
      BY DEF TypeOK
    <3> QED BY <1>4, <3>1 DEF Becomes
  <2> DEFINE q == To(pc)
  <2>2. /\ q \in Req /\ q.pc = pc /\ q.stamp = req[r].stamp
        /\ q.todo = req[r].todo /\ q.task = req[r].task /\ q.old = old
    <3>1. pc \in PC
      BY <1>4 DEF PC
    <3> QED BY <1>1, <1>2, <3>1 DEF Req
  <2> HIDE DEF q, old
  <2>3. ReqInv(rows, q, r)
    BY <1>2, <1>4, <2>2 DEF ReqInv, Storing, Cancelling, Before
  <2> QED BY <2>1, <2>3 DEF q
<1>5. \/ NextTask(r)
      \/ req' = [req EXCEPT ![r].old = old, ![r].pc = "cancel"]
      \/ /\ req[r].task # "none"
         /\ req' = [req EXCEPT ![r].old = old, ![r].pc = "create"]
      \/ /\ req[r].task = "none"
         /\ req' = [req EXCEPT ![r].old = old, ![r].pc = "clear"]
  BY DEF Dropped
<1> HIDE DEF old, To
<1> QED BY <1>3, <1>4, <1>5

\* What a request of these kinds is about to cancel has a newer task.
LEMMA ListedSuperseded ==
  ASSUME RInv, NEW r \in made, req[r].pc \in Cancelling, NEW t \in Listed(req[r].old)
  PROVE  /\ Stored(t) /\ req[r].old[t].created = row[t].created
         /\ t \in StoredFirst => Superseded(t)
<1>1. /\ r \in Requests /\ req[r] \in Req /\ ReqInv(row, req[r], r) /\ TypeOK
      /\ Own(r) \subseteq Tasks
  BY AtStep DEF RInv
<1>2. Stored(t) /\ req[r].old[t].created = row[t].created
  BY <1>1 DEF ReqInv, Stored
<1>3. ASSUME t \in StoredFirst PROVE Superseded(t)
  <2> DEFINE u == req[r].task
  <2>1. u # "none" /\ Replaces(u, t)
    BY <1>1, <1>3 DEF ReqInv
  <2>2. u \in Own(r) /\ u \in Tasks /\ Kind[u] = KindOf(r)
    BY <1>1, <2>1, OwnTasks DEF ReqInv
  <2>3. ~Before(req[r], r)
    BY <1>3, <2>1, <2>2 DEF Before, CancelsFirst, Replaces, StoredFirst
  <2>4. row[u].status # "absent" /\ row[u].created > row[t].created
    <3>1. row[u].status # "absent" /\ row[u].created = req[r].stamp /\ row[t].created < req[r].stamp
      BY <1>1, <2>3 DEF ReqInv
    <3>2. row[u].created \in Nat /\ row[t].created \in Nat
      BY <1>1, <2>2, <1>3 DEF TypeOK, Row, StoredFirst
    <3> QED BY <3>1, <3>2
  <2> QED BY <2>1, <2>2, <2>4 DEF Superseded, Stored
<1> QED BY <1>2, <1>3

LEMMA CancelInQueueStep ==
  ASSUME RInv, NEW r \in made, NEW t \in Tasks, CancelInQueue(r, t)
  PROVE  /\ \E q : Becomes(r, q) /\ ReqInv(row, q, r)
         /\ entry' \in [Tasks -> Entry] /\ ctx' \in [Tasks -> BOOLEAN]
         /\ \A u \in Tasks : ctx'[u] => ctx[u] \/ u = t
         /\ UNCHANGED <<row, calls, clock, unstored, made>>
<1>1. /\ r \in Requests /\ req[r] \in Req /\ ReqInv(row, req[r], r)
      /\ req[r].pc = "cancel" /\ TypeOK
  BY AtStep DEF CancelInQueue, At, RInv
<1>2. entry' \in [Tasks -> Entry]
  BY <1>1, EntryTypes DEF CancelInQueue, DeleteEntry, TypeOK
<1>3. ctx' \in [Tasks -> BOOLEAN] /\ \A u \in Tasks : ctx'[u] => ctx[u] \/ u = t
  <2>1. UNCHANGED ctx \/ ctx' = [ctx EXCEPT ![t] = entry[t].state = "active"]
    BY DEF CancelInQueue
  <2> QED BY <1>1, <2>1 DEF TypeOK
<1>4. \E q : Becomes(r, q) /\ ReqInv(row, q, r)
  <2>1. CASE Dropped(r, t)
    BY <1>1, <2>1, DroppedInv DEF Cancelling
  <2>2. CASE Goto(r, "cancelWrite")
    <3>1. "cancelWrite" \in PC
      BY DEF PC
    <3>2. PICK q : /\ Becomes(r, q) /\ q \in Req /\ q.pc = "cancelWrite" /\ q.stamp = req[r].stamp
                   /\ q.todo = req[r].todo /\ q.task = req[r].task /\ q.old = req[r].old
      BY <1>1, <2>2, <3>1, GoneTo
    <3>3. ReqInv(row, q, r)
      BY <1>1, <3>2 DEF ReqInv, Storing, Cancelling, Before
    <3> QED BY <3>2, <3>3
  <2> QED BY <2>1, <2>2 DEF CancelInQueue
<1> QED BY <1>2, <1>3, <1>4 DEF CancelInQueue

LEMMA CancelInStoreStep ==
  ASSUME RInv, NEW r \in made, NEW t \in Tasks, CancelInStore(r, t)
  PROVE  /\ \E q : Becomes(r, q) /\ ReqInv(row', q, r)
         /\ row' \in [Tasks -> Row] /\ Grown(row, row')
         /\ UNCHANGED <<entry, calls, ctx, clock, unstored, made>>
         /\ Stored(t) /\ row'[t].created = row[t].created
         /\ \A u \in Tasks : u # t => row'[u] = row[u]
<1> DEFINE rec == [req[r].old[t] EXCEPT !.status = "cancelled"]
<1>1. /\ r \in Requests /\ req[r] \in Req /\ ReqInv(row, req[r], r)
      /\ req[r].pc \in Cancelling /\ TypeOK /\ t \in Listed(req[r].old)
  BY AtStep DEF CancelInStore, At, RInv, Cancelling, OldestListed
<1>2. Stored(t) /\ req[r].old[t].created = row[t].created
  BY <1>1, ListedSuperseded
<1>3. rec \in Row /\ rec.status = "cancelled" /\ rec.created = row[t].created
  <2>1. req[r].old[t] \in Row /\ "cancelled" \in Status
    BY <1>1 DEF Req, Status
  <2> QED BY <1>2, <2>1, RowTypes
<1>4. TryUpdateTask(t, rec)
  BY DEF CancelInStore
<1> HIDE DEF rec
<1>5. /\ row' \in [Tasks -> Row] /\ Grown(row, row')
      /\ row'[t] \in {row[t], rec} /\ \A u \in Tasks : u # t => row'[u] = row[u]
  BY <1>1, <1>3, <1>4, RewrittenRow DEF TypeOK
<1>6. ReqInv(row', req[r], r)
  BY <1>1, <1>5, ReqInvStays
<1>7. \E q : Becomes(r, q) /\ ReqInv(row', q, r)
  BY <1>1, <1>6, DroppedInv DEF CancelInStore
<1> QED BY <1>2, <1>3, <1>5, <1>7 DEF CancelInStore

-----------------------------------------------------------------------------
(***************************************************************************)
(* The invariant, step by step.                                            *)
(***************************************************************************)
\* A step that stores no task of its own and cancels superseded tasks only.
LEMMA NewerStays ==
  ASSUME RInv, Grown(row, row'), StoredFirst' = StoredFirst,
         \A t \in StoredFirst : CancelledOrAboutTo(t)' => Stored(t) /\ Superseded(t)
  PROVE  NewerStored'
<1>1. ASSUME NEW t \in StoredFirst, CancelledOrAboutTo(t)'
      PROVE  Stored(t)' /\ Superseded(t)'
  <2>1. Stored(t) /\ Superseded(t) /\ t \in Tasks /\ TypeOK
    BY <1>1 DEF RInv, StoredFirst
  <2>2. Superseded(t)'
    BY <2>1, StaysSuperseded
  <2> QED BY <2>1, <2>2 DEF Grown, Stored
<1> QED BY <1>1 DEF NewerStored

\* A step of a request that leaves the clock and the failed inserts alone.
LEMMA RInvStep ==
  ASSUME RInv, NEW r \in made, \E q : Becomes(r, q) /\ ReqInv(row', q, r),
         row' \in [Tasks -> Row], Grown(row, row'), entry' \in [Tasks -> Entry],
         ctx' \in [Tasks -> BOOLEAN], UNCHANGED <<calls, clock, unstored, made>>,
         \A t \in Tasks : row'[t].created = row[t].created,
         \A t \in StoredFirst : CancelledOrAboutTo(t)' => Stored(t) /\ Superseded(t)
  PROVE  RInv'
<1>1. TypeOK /\ RequestsOK
  BY DEF RInv
<1>2. req' \in [made' -> Req] /\ RequestsOK'
  BY <1>1, OneRequestMoves
<1>3. TypeOK'
  BY <1>1, <1>2 DEF TypeOK, Req, Keys
<1>4. RowsDated'
  BY DEF RInv, RowsDated
<1>5. NewerStored'
  BY NewerStays DEF StoredFirst
<1> QED BY <1>2, <1>3, <1>4, <1>5 DEF RInv

\* What a worker writes: a status, "cancelled" only with its context.
LEMMA WorkerRows ==
  ASSUME TypeOK, NEW t \in Tasks, WorkerStep(t)
  PROVE  /\ row' \in [Tasks -> Row] /\ \A u \in Tasks : u # t => row'[u] = row[u]
         /\ row'[t].created = row[t].created /\ row'[t].status \in Status \cup {row[t].status}
         /\ row'[t].status = "cancelled" => row[t].status = "cancelled" \/ ctx[t]
         /\ entry[t].state # "none"
         /\ UNCHANGED <<req, calls, clock, unstored, made>>
<1>1. \/ UNCHANGED row
      \/ \E s \in Status : /\ row' = [row EXCEPT ![t] = [row[t] EXCEPT !.status = s]]
                           /\ s = "cancelled" => ctx[t]
  BY DEF WorkerStep, Take, Finish, Ends, UpdateTask, Status
<1>2. entry[t].state # "none" /\ UNCHANGED <<req, calls, clock, unstored, made>>
  BY DEF WorkerStep, Take, Finish
<1>3. CASE UNCHANGED row
  BY <1>2, <1>3 DEF TypeOK
<1>4. ASSUME NEW s \in Status, s = "cancelled" => ctx[t],
             row' = [row EXCEPT ![t] = [row[t] EXCEPT !.status = s]]
      PROVE  /\ row' \in [Tasks -> Row] /\ \A u \in Tasks : u # t => row'[u] = row[u]
             /\ row'[t].created = row[t].created /\ row'[t].status = s
  <2>1. /\ row'[t] = [row[t] EXCEPT !.status = s]
        /\ row[t] \in Row /\ row' \in [Tasks -> Row]
    BY <1>4, RowTypes DEF TypeOK
  <2>2. row'[t].status = s /\ row'[t].created = row[t].created
    BY <2>1 DEF Row
  <2> QED BY <1>4, <2>1, <2>2 DEF TypeOK
<1> QED BY <1>1, <1>2, <1>3, <1>4

\* A step of a worker.
LEMMA WorkerRInv ==
  ASSUME RInv, NEW t \in Tasks, WorkerStep(t)
  PROVE  RInv'
<1>1. TypeOK /\ RequestsOK
  BY DEF RInv
<1>3. /\ row' \in [Tasks -> Row] /\ \A u \in Tasks : u # t => row'[u] = row[u]
      /\ row'[t].created = row[t].created /\ row'[t].status \in Status \cup {row[t].status}
      /\ row'[t].status = "cancelled" => row[t].status = "cancelled" \/ ctx[t]
  BY <1>1, WorkerRows
<1>4. Grown(row, row')
  BY <1>3 DEF Grown, Status
<1>5. entry' \in [Tasks -> Entry]
  <2>1. entry[t] \in Entry /\ entry[t].retried \in 0 .. MaxRetry
    BY <1>1 DEF TypeOK, Entry
  <2>2. \E e \in Entry : entry' = [entry EXCEPT ![t] = e]
    <3>1. CASE Take(t)
      <4>1. \/ entry' = [entry EXCEPT ![t] = [entry[t] EXCEPT !.state = "archived"]]
            \/ entry' = [entry EXCEPT ![t] = [entry[t] EXCEPT !.state = "active"]]
        BY <1>1, <3>1 DEF Take, Archive, Dequeue, TypeOK
      <4> QED BY <2>1, <4>1, EntryTypes
    <3>2. CASE Finish(t)
      <4>1. \/ DeleteEntry(t) \/ Archive(t)
            \/ entry[t].retried < MaxRetry /\ entry' = [entry EXCEPT ![t] = Waiting(entry[t].retried + 1)]
        BY <2>1, <3>2 DEF Finish, Ends, Settle, RetryOrArchive, AsynqAssumption
      <4> QED BY <1>1, <2>1, <4>1, EntryTypes DEF DeleteEntry, Archive, TypeOK
    <3> QED BY <3>1, <3>2 DEF WorkerStep
  <2> QED BY <1>1, <2>2 DEF TypeOK
<1>6. ctx' \in [Tasks -> BOOLEAN] /\ \A u \in Tasks : ctx'[u] => ctx[u]
  BY <1>1 DEF TypeOK, WorkerStep, Take, Finish
<1>7. UNCHANGED <<req, calls, clock, unstored, made>>
  BY <1>1, WorkerRows
<1>8. TypeOK'
  BY <1>1, <1>3, <1>5, <1>6, <1>7 DEF TypeOK
<1>9. RequestsOK'
  <2> SUFFICES ASSUME NEW r \in made PROVE ReqInv(row', req[r], r)
    BY <1>7 DEF RequestsOK
  <2>1. r \in Requests /\ ReqInv(row, req[r], r)
    BY AtStep
  <2> QED BY <1>4, <2>1, ReqInvStays
<1>10. RowsDated'
  BY <1>3, <1>7 DEF RInv, RowsDated
<1>11. NewerStored'
  <2>1. \A u \in StoredFirst : CancelledOrAboutTo(u)' => CancelledOrAboutTo(u)
    BY <1>3, <1>6 DEF CancelledOrAboutTo, StoredFirst
  <2>2. \A u \in StoredFirst : CancelledOrAboutTo(u)' => Stored(u) /\ Superseded(u)
    BY <2>1 DEF RInv, NewerStored
  <2>3. StoredFirst' = StoredFirst
    BY DEF StoredFirst
  <2> QED BY <1>4, <2>2, <2>3, NewerStays
<1> QED BY <1>8, <1>9, <1>10, <1>11 DEF RInv

LEMMA RInvInit == Init => RInv
<1> SUFFICES ASSUME Init PROVE RInv
  OBVIOUS
<1>1. made \in Scenarios /\ made \subseteq Requests
  BY DEF Init, Requests
<1>2. TypeOK
  <2>1. \A r \in made : MaxCalls[r] \in Nat
    BY <1>1 DEF ReplacementAssumption
  <2>2. req \in [made -> Req]
    BY IdleType DEF Init
  <2>3. NoEntry \in Entry /\ NewRow \in Row
    BY RowTypes, EntryTypes
  <2> QED BY <1>1, <2>1, <2>2, <2>3 DEF Init, TypeOK, Req, Keys
<1>3. RowsDated /\ NewerStored
  BY DEF Init, RowsDated, NewerStored, CancelledOrAboutTo, NewRow, StoredFirst
<1>4. RequestsOK
  BY <1>1, FreshInv DEF Init, RequestsOK
<1> QED BY <1>2, <1>3, <1>4 DEF RInv

LEMMA RInvNext == RInv /\ [Next]_vars => RInv'
<1> SUFFICES ASSUME RInv, [Next]_vars PROVE RInv'
  OBVIOUS
<1>1. /\ TypeOK /\ RequestsOK /\ StoredFirst' = StoredFirst
      /\ row \in [Tasks -> Row] /\ entry \in [Tasks -> Entry] /\ ctx \in [Tasks -> BOOLEAN]
  BY DEF RInv, TypeOK, StoredFirst
<1>2. \A t \in StoredFirst : CancelledOrAboutTo(t) => Stored(t) /\ Superseded(t)
  BY DEF RInv, NewerStored
<1>3. ASSUME UNCHANGED row
      PROVE  Grown(row, row') /\ row' \in [Tasks -> Row]
             /\ \A t \in Tasks : row'[t].created = row[t].created
  BY <1>1, <1>3 DEF Grown
<1>4. ASSUME NEW r \in made, UNCHANGED <<row, ctx, clock, unstored, made>>,
             \E q : Becomes(r, q) /\ ReqInv(row, q, r), entry' \in [Tasks -> Entry],
             DOMAIN calls' = made, \A s \in made : calls'[s] \in 0 .. MaxCalls[s]
      PROVE  RInv'
  <2>1. PICK q : Becomes(r, q) /\ ReqInv(row', q, r)
    BY <1>4
  <2>2. req' \in [made' -> Req] /\ RequestsOK'
    BY <1>1, <1>3, <1>4, <2>1, OneRequestMoves
  <2>3. TypeOK' /\ RowsDated'
    BY <1>1, <1>4, <2>2 DEF RInv, TypeOK, Req, Keys, RowsDated
  <2>4. NewerStored'
    BY <1>1, <1>2, <1>3, <1>4, NewerStays DEF CancelledOrAboutTo
  <2> QED BY <2>2, <2>3, <2>4 DEF RInv
<1>5. ASSUME NEW r \in made, Receive(r) PROVE RInv'
  BY <1>1, <1>4, <1>5, ReceiveStep
<1>6. \A r \in made : DOMAIN calls = made /\ \A s \in made : calls[s] \in 0 .. MaxCalls[s]
  BY <1>1 DEF TypeOK
<1>7. ASSUME NEW r \in made, Clear(r) \/ Find(r) \/ List(r) PROVE RInv'
  <2>1. /\ \E q : Becomes(r, q) /\ ReqInv(row, q, r)
        /\ UNCHANGED <<row, entry, calls, ctx, clock, unstored, made>>
    BY <1>7, ClearStep, FindStep, ListStep
  <2> QED BY <1>1, <1>4, <1>6, <2>1
<1>8. ASSUME NEW r \in made, Enqueue(r) PROVE RInv'
  BY <1>1, <1>4, <1>6, <1>8, EnqueueStep
<1>9. ASSUME NEW r \in made, Create(r) PROVE RInv'
  <2>1. /\ \E q : Becomes(r, q) /\ ReqInv(row', q, r)
        /\ row' \in [Tasks -> Row] /\ Grown(row, row')
        /\ clock' = clock + 1 /\ unstored' \subseteq Tasks
        /\ UNCHANGED <<entry, calls, ctx, made>>
        /\ \A t \in Tasks : row'[t] = row[t] \/ row'[t] = PendingRow(clock + 1)
    BY <1>9, CreateStep
  <2>2. req' \in [made' -> Req] /\ RequestsOK'
    BY <1>1, <2>1, OneRequestMoves
  <2>3. clock + 1 \in Nat /\ clock \in Nat
    BY <1>1 DEF TypeOK
  <2>4. TypeOK'
    BY <1>1, <2>1, <2>2, <2>3 DEF TypeOK, Req, Keys
  <2>5. RowsDated'
    <3> SUFFICES ASSUME NEW t \in Tasks PROVE row'[t].created <= clock + 1
      BY <2>1 DEF RowsDated
    <3>1. row[t].created <= clock /\ row[t].created \in Nat
      BY <1>1 DEF RInv, RowsDated, Row
    <3>2. row'[t].created \in {row[t].created, clock + 1}
      BY <2>1, <2>3, RowTypes
    <3> QED BY <2>3, <3>1, <3>2
  <2>6. \A t \in StoredFirst : CancelledOrAboutTo(t)' => CancelledOrAboutTo(t)
    BY <2>1, <2>3, RowTypes DEF CancelledOrAboutTo, StoredFirst
  <2>7. NewerStored'
    BY <1>1, <1>2, <2>1, <2>6, NewerStays
  <2> QED BY <2>2, <2>4, <2>5, <2>7 DEF RInv
<1>10. ASSUME NEW r \in made, MarkQueued(r) PROVE RInv'
  <2>1. /\ \E q : Becomes(r, q) /\ ReqInv(row', q, r)
        /\ row' \in [Tasks -> Row] /\ Grown(row, row')
        /\ UNCHANGED <<entry, calls, ctx, clock, unstored, made>>
        /\ \A t \in Tasks : \/ row'[t] = row[t]
                            \/ /\ row'[t].status = "queued" /\ Stored(t)
                               /\ row'[t].created = row[t].created
    BY <1>10, MarkStep
  <2>2. \A t \in StoredFirst : CancelledOrAboutTo(t)' => CancelledOrAboutTo(t)
    BY <2>1 DEF CancelledOrAboutTo, StoredFirst
  <2> QED BY <1>1, <1>2, <2>1, <2>2, RInvStep
<1>11. ASSUME NEW r \in made, NEW t \in Tasks, CancelInQueue(r, t) PROVE RInv'
  <2>1. /\ \E q : Becomes(r, q) /\ ReqInv(row, q, r)
        /\ entry' \in [Tasks -> Entry] /\ ctx' \in [Tasks -> BOOLEAN]
        /\ \A u \in Tasks : ctx'[u] => ctx[u] \/ u = t
        /\ UNCHANGED <<row, calls, clock, unstored, made>>
    BY <1>11, CancelInQueueStep
  <2>2. t \in StoredFirst => Stored(t) /\ Superseded(t)
    BY <1>11, ListedSuperseded DEF CancelInQueue, At, Cancelling, OldestListed
  <2>3. \A u \in StoredFirst : CancelledOrAboutTo(u)' => Stored(u) /\ Superseded(u)
    BY <1>2, <2>1, <2>2 DEF CancelledOrAboutTo, StoredFirst
  <2> QED BY <1>1, <1>3, <2>1, <2>3, RInvStep
<1>12. ASSUME NEW r \in made, NEW t \in Tasks, CancelInStore(r, t) PROVE RInv'
  <2>1. /\ \E q : Becomes(r, q) /\ ReqInv(row', q, r)
        /\ row' \in [Tasks -> Row] /\ Grown(row, row')
        /\ UNCHANGED <<entry, calls, ctx, clock, unstored, made>>
        /\ row'[t].created = row[t].created
        /\ \A u \in Tasks : u # t => row'[u] = row[u]
    BY <1>12, CancelInStoreStep
  <2>2. t \in StoredFirst => Stored(t) /\ Superseded(t)
    BY <1>12, ListedSuperseded DEF CancelInStore, At, Cancelling, OldestListed
  <2>3. \A u \in StoredFirst : CancelledOrAboutTo(u)' => Stored(u) /\ Superseded(u)
    BY <1>2, <2>1, <2>2 DEF CancelledOrAboutTo, StoredFirst
  <2> QED BY <1>1, <2>1, <2>3, RInvStep
<1>13. CASE UNCHANGED vars
  <2>1. UNCHANGED <<row, entry, req, calls, ctx, clock, unstored, made>>
    BY <1>13 DEF vars
  <2>2. TypeOK'
    BY <1>1, <2>1 DEF TypeOK
  <2>3. RequestsOK' /\ RowsDated'
    BY <2>1 DEF RInv, RequestsOK, RowsDated
  <2>4. NewerStored'
    BY <1>1, <1>2, <1>3, <2>1, NewerStays DEF CancelledOrAboutTo
  <2> QED BY <2>2, <2>3, <2>4 DEF RInv
<1>14. ASSUME NEW t \in Tasks, WorkerStep(t) PROVE RInv'
  BY <1>14, WorkerRInv
<1> QED BY <1>5, <1>7, <1>8, <1>9, <1>10, <1>11, <1>12, <1>13, <1>14 DEF Next, RequestStep

THEOREM InvariantHolds == Spec => []RInv
BY RInvInit, RInvNext, PTL DEF Spec

(***************************************************************************)
(* The rows, the entries and the requests are of their types.              *)
(***************************************************************************)
THEOREM TypeCorrect == Spec => []TypeOK
<1>1. RInv => TypeOK
  BY DEF RInv
<1> QED BY <1>1, InvariantHolds, PTL

(***************************************************************************)
(* However requests for issues, documents and triage overlap, be delivered *)
(* again, fail to list, store, enqueue or cancel: a task is cancelled only *)
(* when a newer one that replaces it is stored.                            *)
(***************************************************************************)
THEOREM NewestIsKept == Spec => []NewestKept
<1>1. RInv => NewestKept
  BY DEF RInv, NewerStored, NewestKept, CancelledOrAboutTo, Superseded
<1> QED BY <1>1, InvariantHolds, PTL

-----------------------------------------------------------------------------
(***************************************************************************)
(* With requests that are distinct: what a request is about to store is    *)
(* not stored yet, by any other request, worker or call.                   *)
(***************************************************************************)
Doc(r) == KindOf(r) = "code_from_doc"

\* q is about to store its task, whatever it cancels before.
Coming(q, r) == \/ q.pc \in {"clear", "list", "create"}
                \/ q.pc \in Cancelling /\ Before(q, r)

\* The modules left to a manual request, which is made once.
Remaining(rows, s) ==
  /\ \A i \in 1 .. Len(s) : rows[s[i]].status = "absent"
  /\ \A i, j \in 1 .. Len(s) : i # j => s[i] # s[j]

FreshReq(rows, q, r) ==
  /\ Coming(q, r) /\ q.task # "none" => rows[q.task].status = "absent"
  /\ r \in Manual => /\ Remaining(rows, q.todo)
                     /\ \A i \in 1 .. Len(q.todo) : q.todo[i] # q.task

FreshOK == \A r \in made : ~Doc(r) => FreshReq(row, req[r], r)
CallsOK == \A r \in made : ~Doc(r) /\ r \in Manual /\ calls[r] = 0 =>
             req[r].pc = "idle" /\ \A t \in Own(r) : ~Stored(t)
EntriesStored == \A t \in Tasks : entry[t].state # "none" => Stored(t)

FInv == RInv /\ FreshOK /\ CallsOK /\ EntriesStored

\* No task of T is stored between old and new.
NoneStored(old, new, T) ==
  \A t \in T : old[t].status = "absent" => new[t].status = "absent"

LEMMA FreshStays ==
  ASSUME NEW r \in Requests, NEW rows, NEW new, NEW q, ReqInv(rows, q, r),
         FreshReq(rows, q, r), NoneStored(rows, new, Own(r))
  PROVE  FreshReq(new, q, r)
<1>1. \A i \in 1 .. Len(q.todo) : q.todo[i] \in Own(r)
  BY DEF ReqInv
<1>2. q.task # "none" => q.task \in Own(r)
  BY DEF ReqInv
<1> QED BY <1>1, <1>2 DEF FreshReq, NoneStored, Remaining

\* On to the next module.
LEMMA NextTaskFresh ==
  ASSUME NEW r \in made, made \subseteq Requests, req \in [made -> Req], NEW rows,
         NEW s \in Seq(Own(r)), NextTaskWith(r, s), ~Doc(r),
         r \in Manual => Remaining(rows, s)
  PROVE  FreshReq(rows, req'[r], r)
<1>1. CASE s = << >>
  <2>1. req'[r] = Idle
    BY <1>1 DEF NextTaskWith
  <2> QED BY <2>1, IdleType DEF FreshReq, Coming, Remaining, Cancelling
<1>2. CASE s # << >>
  <2> DEFINE q == [Idle EXCEPT !.pc = FirstPC(r), !.todo = Tail(s), !.task = Head(s)]
  <2>1. req'[r] = q
    BY <1>2 DEF NextTaskWith
  <2>2. /\ q.pc = FirstPC(r) /\ q.todo = Tail(s) /\ q.task = Head(s)
    BY IdleType DEF Req
  <2> HIDE DEF q
  <2>3. /\ Len(s) \in Nat \ {0} /\ Head(s) = s[1]
        /\ Tail(s) \in Seq(Own(r)) /\ Len(Tail(s)) = Len(s) - 1
        /\ \A i \in 1 .. Len(Tail(s)) : Tail(s)[i] = s[i + 1]
    BY <1>2, HeadTailProperties, LenProperties
  <2>4. r \notin Manual => FirstPC(r) = "find"
    BY DEF FirstPC, Doc
  <2>5. r \in Manual => rows[q.task].status = "absent"
    BY <2>2, <2>3 DEF Remaining
  <2>6. r \in Manual => Remaining(rows, q.todo)
    <3> SUFFICES ASSUME Remaining(rows, s) PROVE Remaining(rows, Tail(s))
      BY <2>2
    <3>1. \A i \in 1 .. Len(Tail(s)) : i + 1 \in 1 .. Len(s)
      BY <2>3
    <3> QED BY <2>3, <3>1 DEF Remaining
  <2>7. r \in Manual => \A i \in 1 .. Len(q.todo) : q.todo[i] # q.task
    <3> SUFFICES ASSUME Remaining(rows, s), NEW i \in 1 .. Len(Tail(s)) PROVE Tail(s)[i] # s[1]
      BY <2>2, <2>3
    <3>1. i + 1 \in 1 .. Len(s) /\ 1 \in 1 .. Len(s) /\ i + 1 # 1
      BY <2>3
    <3> QED BY <2>3, <3>1 DEF Remaining
  <2> QED BY <2>1, <2>2, <2>4, <2>5, <2>6, <2>7 DEF FreshReq, Coming, Cancelling
<1> QED BY <1>1, <1>2

\* Or elsewhere with the same one.
LEMMA SameTaskFresh ==
  ASSUME NEW r, NEW rows, NEW p, NEW q, FreshReq(rows, p, r),
         q.todo = p.todo, q.task = p.task,
         Coming(q, r) /\ q.task # "none" => Coming(p, r) \/ rows[q.task].status = "absent"
  PROVE  FreshReq(rows, q, r)
BY DEF FreshReq

\* The fields a step of r to another place leaves alone.
LEMMA GoneFields ==
  ASSUME req \in [made -> Req], NEW r \in made, NEW pc, Goto(r, pc)
  PROVE  /\ req'[r].pc = pc /\ req'[r].todo = req[r].todo /\ req'[r].task = req[r].task
         /\ req'[r].old = req[r].old /\ req'[r].blind = req[r].blind
<1>1. req[r] \in Req /\ req'[r] = [req[r] EXCEPT !.pc = pc]
  BY DEF Goto
<1> QED BY <1>1 DEF Req

LEMMA DroppedFields ==
  ASSUME req \in [made -> Req], NEW r \in made, NEW t \in Tasks, Dropped(r, t), ~NextTask(r)
  PROVE  /\ req'[r].pc \in {"cancel", "create", "clear"}
         /\ req'[r].pc = "create" => CancelsFirst(r) /\ req[r].task # "none"
         /\ req'[r].pc = "clear" => req[r].task = "none"
         /\ req'[r].todo = req[r].todo /\ req'[r].task = req[r].task
         /\ Listed(req'[r].old) \subseteq Listed(req[r].old) /\ req'[r].blind = req[r].blind
<1> DEFINE old == [req[r].old EXCEPT ![t] = NewRow]
<1>1. PICK pc \in {"cancel", "create", "clear"} :
        /\ req' = [req EXCEPT ![r].old = old, ![r].pc = pc]
        /\ pc = "create" => CancelsFirst(r) /\ req[r].task # "none"
        /\ pc = "clear" => req[r].task = "none"
  BY DEF Dropped
<1>2. req[r] \in Req /\ req'[r] = [req[r] EXCEPT !.old = old, !.pc = pc]
  BY <1>1
<1>3. Listed(old) \subseteq Listed(req[r].old)
  BY <1>2, RowTypes DEF Req, Listed
<1> HIDE DEF old
<1> QED BY <1>1, <1>2, <1>3 DEF Req

\* What is known at a step of r of another kind than a document's.
LEMMA FreshAtStep ==
  ASSUME FInv, NEW r \in made, ~Doc(r)
  PROVE  /\ made \subseteq Requests /\ req \in [made -> Req] /\ req[r] \in Req
         /\ ReqInv(row, req[r], r) /\ req[r].todo \in Seq(Own(r))
         /\ FreshReq(row, req[r], r) /\ Own(r) \subseteq Tasks
         /\ r \in Manual => Remaining(row, req[r].todo)
<1>1. RInv /\ FreshOK
  BY DEF FInv
<1>2. made \subseteq Requests /\ req \in [made -> Req]
  BY <1>1 DEF RInv, TypeOK, Requests, Req, Keys
<1> QED BY <1>1, <1>2, AtStep DEF FreshOK, FreshReq

\* A request that is made: its tasks are not stored, if it is made once.
LEMMA ReceiveFresh ==
  ASSUME DistinctRequests, FInv, NEW r \in made, Receive(r), ~Doc(r)
  PROVE  FreshReq(row, req'[r], r)
<1>1. /\ made \subseteq Requests /\ req \in [made -> Req] /\ r \in Requests
      /\ TasksOf[r] \in Seq(Own(r)) /\ TasksOf[r] # << >>
  BY FreshAtStep, OwnTasks
<1>2. Call(r)
  BY DEF Receive, IssueRequest, MergedGenTests, MergedE2E, CodeFromDoc, ManualModule,
         WholeRepository
<1>3. r \in Manual => Remaining(row, TasksOf[r])
  <2> SUFFICES ASSUME r \in Manual PROVE Remaining(row, TasksOf[r])
    OBVIOUS
  <2>1. /\ calls[r] < MaxCalls[r] /\ calls[r] \in 0 .. MaxCalls[r] /\ MaxCalls[r] \in Nat
    BY <1>1, <1>2 DEF Call, FInv, RInv, TypeOK, ReplacementAssumption
  <2>2. MaxCalls[r] <= 1
    BY <1>1 DEF DistinctRequests
  <2>3. calls[r] = 0
    BY <2>1, <2>2
  <2>4. \A t \in Own(r) : row[t].status = "absent"
    BY <2>3 DEF FInv, CallsOK, Stored
  <2>5. DOMAIN TasksOf[r] = 1 .. Len(TasksOf[r]) /\ \A i \in 1 .. Len(TasksOf[r]) : TasksOf[r][i] \in Own(r)
    BY <1>1
  <2>6. \A i, j \in DOMAIN TasksOf[r] : i # j => TasksOf[r][i] # TasksOf[r][j]
    BY <1>1 DEF DistinctRequests, Doc
  <2> QED BY <2>4, <2>5, <2>6 DEF Remaining
<1>4. CASE \E s \in Seq(Own(r)) : NextTaskWith(r, s) /\ (r \in Manual => s = TasksOf[r])
  BY <1>1, <1>3, <1>4, NextTaskFresh
<1>5. CASE IssueRequest(r) \/ MergedE2E(r) \/ ManualModule(r)
  BY <1>1, <1>4, <1>5 DEF IssueRequest, MergedE2E, ManualModule
<1>6. CASE MergedGenTests(r)
  <2>1. PICK n \in 0 .. Len(TasksOf[r]) : NextTaskWith(r, SubSeq(TasksOf[r], 1, n))
    BY <1>6 DEF MergedGenTests
  <2>2. SubSeq(TasksOf[r], 1, n) \in Seq(Own(r))
    BY <1>1, LenProperties, SubSeqProperties
  <2>3. r \notin Manual
    BY <1>6 DEF MergedGenTests
  <2> QED BY <1>4, <2>1, <2>2, <2>3
<1>7. CASE WholeRepository(r)
  <2>1. PICK K : req' = [req EXCEPT ![r] = [Idle EXCEPT !.pc = "clear", !.todo = TasksOf[r],
                                                         !.keys = K]]
    BY <1>7 DEF WholeRepository
  <2>2. req'[r].todo = TasksOf[r] /\ req'[r].task = "none"
    BY <1>1, <2>1, IdleType DEF Req
  <2>3. \A i \in 1 .. Len(TasksOf[r]) : TasksOf[r][i] # "none"
    <3>1. "none" \notin Own(r)
      BY <1>1, OwnTasks DEF ReplacementAssumption
    <3> QED BY <1>1, <3>1
  <2> QED BY <1>3, <2>2, <2>3 DEF FreshReq
<1> QED BY <1>5, <1>6, <1>7 DEF Receive, CodeFromDoc, Doc

\* Clear and List leave the request with a list of rows.
LEMMA ListFields ==
  ASSUME req \in [made -> Req], NEW r \in made, NEW S, NEW blind, ToCancel(r, S, blind)
  PROVE  /\ req'[r].pc \in {"cancel", "create"}
         /\ req'[r].pc = "cancel" => CancelsFirst(r)
         /\ req'[r].todo = req[r].todo /\ req'[r].task = req[r].task
         /\ req'[r].old = RowsOf(S) /\ req'[r].blind = blind
<1> DEFINE pc == IF CancelsFirst(r) /\ S # {} THEN "cancel" ELSE "create"
<1>1. req[r] \in Req /\ req'[r] = [req[r] EXCEPT !.old = RowsOf(S), !.blind = blind, !.pc = pc]
  BY DEF ToCancel
<1>2. pc \in {"cancel", "create"} /\ (pc = "cancel" => CancelsFirst(r))
  OBVIOUS
<1> HIDE DEF pc
<1> QED BY <1>1, <1>2 DEF Req

LEMMA ClearFields ==
  ASSUME req \in [made -> Req], NEW r \in made, Clear(r)
  PROVE  \/ req[r].keys = {} /\ NextTask(r)
         \/ /\ req'[r].pc \in {"clear", "cancel"}
            /\ req'[r].todo = req[r].todo /\ req'[r].task = req[r].task
            /\ req'[r].blind = req[r].blind
            /\ \E S \in SUBSET ActiveOf(KindOf(r)) : req'[r].old = RowsOf(S)
<1>1. CASE req[r].keys = {} /\ Modules(r)
  BY <1>1 DEF Modules
<1>2. CASE ~(req[r].keys = {} /\ Modules(r))
  <2>1. PICK k \in req[r].keys, seen \in {TRUE} \cup {~StoreFaults} :
             LET S == {u \in ActiveOf(KindOf(r)) : seen /\ Key[u] = k} IN
             req' = [req EXCEPT ![r].keys = @ \ {k}, ![r].old = RowsOf(S),
                    ![r].pc = IF S = {} THEN "clear" ELSE "cancel"]
    BY <1>2 DEF Clear
  <2> DEFINE S == {u \in ActiveOf(KindOf(r)) : seen /\ Key[u] = k}
             pc == IF S = {} THEN "clear" ELSE "cancel"
  <2>2. /\ req[r] \in Req
        /\ req'[r] = [req[r] EXCEPT !.keys = req[r].keys \ {k}, !.old = RowsOf(S), !.pc = pc]
    BY <2>1
  <2>3. pc \in {"clear", "cancel"} /\ S \in SUBSET ActiveOf(KindOf(r))
    OBVIOUS
  <2> HIDE DEF pc, S
  <2> QED BY <2>2, <2>3 DEF Req
<1> QED BY <1>1, <1>2

\* A step of r that stores nothing: what comes is still to come.
LEMMA QuietFresh ==
  ASSUME FInv, NEW r \in made, ~Doc(r), NoneStored(row, row', Own(r)),
         \/ NextTask(r)
         \/ /\ req'[r].todo = req[r].todo /\ req'[r].task = req[r].task
            /\ Coming(req'[r], r) /\ req[r].task # "none" =>
                 Coming(req[r], r) \/ row[req[r].task].status = "absent"
  PROVE  FreshReq(row', req'[r], r)
<1>1. /\ made \subseteq Requests /\ req \in [made -> Req] /\ req[r] \in Req /\ r \in Requests
      /\ ReqInv(row, req[r], r) /\ req[r].todo \in Seq(Own(r))
      /\ FreshReq(row, req[r], r)
  BY FreshAtStep
<1>2. FreshReq(row', req[r], r)
  BY <1>1, FreshStays
<1>3. CASE NextTask(r)
  BY <1>1, <1>2, <1>3, NextTaskFresh DEF NextTask, FreshReq
<1>4. CASE /\ req'[r].todo = req[r].todo /\ req'[r].task = req[r].task
           /\ Coming(req'[r], r) /\ req[r].task # "none" =>
                Coming(req[r], r) \/ row[req[r].task].status = "absent"
  <2>1. req[r].task # "none" => req[r].task \in Own(r)
    BY <1>1 DEF ReqInv
  <2>2. req[r].task # "none" /\ row[req[r].task].status = "absent" =>
          row'[req[r].task].status = "absent"
    BY <2>1 DEF NoneStored
  <2>3. Coming(req'[r], r) /\ req'[r].task # "none" =>
          Coming(req[r], r) \/ row'[req'[r].task].status = "absent"
    BY <1>4, <2>2
  <2>4. req'[r].todo = req[r].todo /\ req'[r].task = req[r].task
    BY <1>4
  <2> QED BY <1>2, <2>3, <2>4, SameTaskFresh
<1> QED BY <1>3, <1>4

LEMMA RequestStepFresh ==
  ASSUME FInv, NEW r \in made, RequestStep(r), ~Doc(r),
         ~Create(r) => NoneStored(row, row', Own(r))
  PROVE  FreshReq(row', req'[r], r)
<1>1. /\ made \subseteq Requests /\ req \in [made -> Req] /\ req[r] \in Req /\ r \in Requests
      /\ ReqInv(row, req[r], r) /\ req[r].todo \in Seq(Own(r)) /\ RInv
      /\ FreshReq(row, req[r], r) /\ Own(r) \subseteq Tasks
  BY FreshAtStep DEF FInv
<1>2. CASE Clear(r) /\ ~Create(r)
  BY <1>1, <1>2, ClearFields, QuietFresh DEF Clear, At, Coming
<1>3. CASE Find(r) /\ ~Create(r)
  <2>1. NextTask(r) \/ (Goto(r, "list") /\ row[req[r].task].status = "absent")
    BY <1>3 DEF Find, Stored
  <2> QED BY <1>1, <1>3, <2>1, GoneFields, QuietFresh
<1>4. CASE List(r) /\ ~Create(r)
  <2>1. \/ \E S, blind : ToCancel(r, S, blind)
        \/ Goto(r, "create")
    BY <1>4 DEF List, Doc
  <2>2. Coming(req[r], r)
    BY <1>4 DEF List, At, Coming
  <2> QED BY <1>1, <1>4, <2>1, <2>2, ListFields, GoneFields, QuietFresh
<1>5. CASE Create(r)
  <2>1. CASE NextTask(r) /\ UNCHANGED row
    <3>1. NoneStored(row, row', Own(r))
      BY <2>1 DEF NoneStored
    <3> QED BY <2>1, <3>1, QuietFresh
  <2>2. CASE /\ CreateTask(req[r].task, PendingRow(clock + 1))
             /\ req' = [req EXCEPT ![r].pc = "enqueue", ![r].stamp = clock + 1]
    <3>1. req'[r] = [req[r] EXCEPT !.pc = "enqueue", !.stamp = clock + 1]
      BY <1>1, <2>2
    <3>2. req'[r].pc = "enqueue" /\ req'[r].todo = req[r].todo /\ req'[r].task = req[r].task
      BY <1>1, <3>1 DEF Req
    <3>3. r \in Manual => /\ Remaining(row, req[r].todo)
                          /\ \A i \in 1 .. Len(req[r].todo) : req[r].todo[i] # req[r].task
      BY <1>1 DEF FreshReq
    <3>4. \A t \in Tasks : t # req[r].task => row'[t] = row[t]
      BY <1>1, <2>2 DEF CreateTask, RInv, TypeOK
    <3>5. \A i \in 1 .. Len(req[r].todo) : req[r].todo[i] \in Tasks
      BY <1>1
    <3>6. r \in Manual => Remaining(row', req[r].todo)
      BY <3>3, <3>4, <3>5 DEF Remaining
    <3> QED BY <3>2, <3>3, <3>6 DEF FreshReq, Coming, Cancelling
  <2> QED BY <1>5, <2>1, <2>2 DEF Create
<1>6. CASE (Enqueue(r) \/ MarkQueued(r)) /\ ~Create(r)
  <2>1. /\ Goto(r, "mark") \/ NextTask(r) \/ (Goto(r, "cancel") /\ ~CancelsFirst(r))
        /\ req[r].pc \in Storing
    BY <1>6 DEF Enqueue, MarkQueued, GoOn, At, Storing
  <2>2. req[r].task # "none"
    BY <1>1, <2>1 DEF ReqInv, Storing, Cancelling
  <2>3. CASE Goto(r, "mark")
    <3>1. /\ req'[r].pc = "mark" /\ req'[r].todo = req[r].todo /\ req'[r].task = req[r].task
      BY <1>1, <2>3, GoneFields
    <3>2. ~Coming(req'[r], r)
      BY <3>1 DEF Coming, Cancelling
    <3> QED BY <1>6, <3>1, <3>2, QuietFresh
  <2>4. CASE Goto(r, "cancel") /\ ~CancelsFirst(r)
    <3>1. /\ req'[r].pc = "cancel" /\ req'[r].todo = req[r].todo /\ req'[r].task = req[r].task
      BY <1>1, <2>4, GoneFields
    <3>2. ~Coming(req'[r], r)
      BY <2>2, <2>4, <3>1 DEF Coming, Cancelling, Before
    <3> QED BY <1>6, <3>1, <3>2, QuietFresh
  <2> QED BY <1>6, <2>1, <2>3, <2>4, QuietFresh
<1>7. ASSUME NEW t \in Tasks, CancelInQueue(r, t) \/ CancelInStore(r, t), ~Create(r)
      PROVE  FreshReq(row', req'[r], r)
  <2>1. req[r].pc \in Cancelling /\ (Goto(r, "cancelWrite") \/ Dropped(r, t))
    BY <1>7 DEF CancelInQueue, CancelInStore, At, Cancelling
  <2>2. CASE Goto(r, "cancelWrite")
    <3>1. /\ req'[r].pc = "cancelWrite" /\ req'[r].todo = req[r].todo
          /\ req'[r].task = req[r].task
      BY <1>1, <2>2, GoneFields
    <3>2. Coming(req'[r], r) => Coming(req[r], r)
      BY <2>1, <3>1 DEF Coming, Cancelling, Before
    <3> QED BY <1>7, <3>1, <3>2, QuietFresh
  <2>3. CASE Dropped(r, t) /\ ~NextTask(r)
    <3>1. /\ req'[r].pc \in {"cancel", "create", "clear"}
          /\ req'[r].pc = "create" => CancelsFirst(r) /\ req[r].task # "none"
          /\ req'[r].pc = "clear" => req[r].task = "none"
          /\ req'[r].todo = req[r].todo /\ req'[r].task = req[r].task
      BY <1>1, <2>3, DroppedFields
    <3>2. Coming(req'[r], r) => Coming(req[r], r)
      BY <2>1, <3>1 DEF Coming, Cancelling, Before
    <3> QED BY <1>7, <3>1, <3>2, QuietFresh
  <2> QED BY <1>7, <2>1, <2>2, <2>3, QuietFresh
<1> QED BY <1>1, <1>2, <1>3, <1>4, <1>5, <1>6, <1>7 DEF RequestStep

-----------------------------------------------------------------------------
(***************************************************************************)
(* What a step does to the rows, whoever takes it.                         *)
(***************************************************************************)
\* r may write t "cancelled", or cancel its context.
MayCancel(r, t) == req[r].pc \in Cancelling /\ t \in Listed(req[r].old)

RowsMove ==
  /\ Grown(row, row') /\ made' = made /\ clock' \in {clock, clock + 1}
  /\ unstored \subseteq unstored'
  /\ \A t \in Tasks :
       /\ \/ row'[t].created = row[t].created
          \/ row'[t].created = clock + 1
       /\ CancelledOrAboutTo(t)' => CancelledOrAboutTo(t) \/ \E r \in made : MayCancel(r, t)

\* Only Create stores a task that was not stored.
OneStores(r) ==
  IF Create(r)
  THEN \A t \in Tasks : t # req[r].task \/ Stored(t) => row'[t] = row[t]
  ELSE NoneStored(row, row', Tasks)

LEMMA CallMoves ==
  ASSUME RInv, NEW r \in made, Receive(r) \/ RequestStep(r)
  PROVE  /\ RowsMove /\ OneStores(r)
         /\ \A s \in made : s # r => req'[s] = req[s]
         /\ RequestStep(r) => UNCHANGED calls /\ req[r].pc # "idle"
         /\ Receive(r) => calls'[r] # 0 /\ \A s \in made : s # r => calls'[s] = calls[s]
<1>0. /\ row \in [Tasks -> Row] /\ DOMAIN req = made /\ DOMAIN calls = made /\ clock \in Nat
      /\ clock + 1 \in Nat /\ \A s \in made : calls[s] \in Nat
  BY DEF RInv, TypeOK, Requests, ReplacementAssumption
<1>a. ASSUME UNCHANGED <<row, ctx, clock, unstored, made>> PROVE RowsMove /\ NoneStored(row, row', Tasks)
  BY <1>a DEF RowsMove, Grown, CancelledOrAboutTo, NoneStored
<1>b. ASSUME NEW q, Becomes(r, q) PROVE \A s \in made : s # r => req'[s] = req[s]
  BY <1>0, <1>b DEF Becomes
<1>c. Create(r) => req[r].pc = "create"
  BY DEF Create, At
<1>1. CASE Receive(r)
  <2>1. Call(r)
    BY <1>1 DEF Receive, IssueRequest, MergedGenTests, MergedE2E, CodeFromDoc, ManualModule,
                WholeRepository
  <2>2. req[r].pc = "idle" /\ calls' = [calls EXCEPT ![r] = @ + 1]
    BY <2>1 DEF Call, At
  <2>3. ~RequestStep(r)
    BY <2>2 DEF RequestStep, Clear, Find, List, Create, Enqueue, MarkQueued, CancelInQueue,
                CancelInStore, At
  <2>4. calls'[r] # 0 /\ \A s \in made : s # r => calls'[s] = calls[s]
    BY <1>0, <2>2
  <2> QED BY <1>0, <1>1, <1>a, <1>b, <1>c, <2>2, <2>3, <2>4, ReceiveStep DEF OneStores
<1>2. CASE Clear(r) \/ Find(r) \/ List(r) \/ Enqueue(r)
  <2>1. /\ \E q : Becomes(r, q) /\ ReqInv(row, q, r)
        /\ UNCHANGED <<row, calls, ctx, clock, unstored, made>>
    BY <1>2, ClearStep, FindStep, ListStep, EnqueueStep
  <2>2. req[r].pc \in {"clear", "find", "list", "enqueue"}
    BY <1>2 DEF Clear, Find, List, Enqueue, At
  <2>3. ~Receive(r)
    BY <2>2 DEF Receive, IssueRequest, MergedGenTests, MergedE2E, CodeFromDoc, ManualModule,
                WholeRepository, Call, At
  <2> QED BY <1>a, <1>b, <1>c, <2>1, <2>2, <2>3 DEF OneStores
<1>3. CASE Create(r)
  <2>1. /\ \E q : Becomes(r, q) /\ ReqInv(row', q, r)
        /\ row' \in [Tasks -> Row] /\ Grown(row, row')
        /\ clock' = clock + 1
        /\ UNCHANGED <<entry, calls, ctx, made>>
        /\ \A t \in Tasks : row'[t] = row[t] \/ row'[t] = PendingRow(clock + 1)
    BY <1>3, CreateStep
  <2>2. unstored \subseteq unstored'
    BY <1>3 DEF Create
  <2>3. RowsMove
    BY <1>0, <2>1, <2>2, RowTypes DEF RowsMove, CancelledOrAboutTo
  <2>4. ~Receive(r) /\ req[r].pc # "idle"
    BY <1>c, <1>3 DEF Receive, IssueRequest, MergedGenTests, MergedE2E, CodeFromDoc,
                ManualModule, WholeRepository, Call, At
  <2>5. OneStores(r)
    <3>1. \/ UNCHANGED row
          \/ ~Stored(req[r].task) /\ row' = [row EXCEPT ![req[r].task] = PendingRow(clock + 1)]
      BY <1>3 DEF Create, CreateTask
    <3> QED BY <1>0, <1>3, <3>1 DEF OneStores
  <2> QED BY <1>b, <2>1, <2>3, <2>4, <2>5
<1>4. CASE MarkQueued(r)
  <2>1. /\ \E q : Becomes(r, q) /\ ReqInv(row', q, r)
        /\ row' \in [Tasks -> Row] /\ Grown(row, row')
        /\ UNCHANGED <<entry, calls, ctx, clock, unstored, made>>
        /\ \A t \in Tasks : \/ row'[t] = row[t]
                            \/ /\ row'[t].status = "queued" /\ Stored(t)
                               /\ row'[t].created = row[t].created
    BY <1>4, MarkStep
  <2>2. RowsMove
    BY <2>1 DEF RowsMove, CancelledOrAboutTo
  <2>3. ~Receive(r) /\ req[r].pc = "mark"
    BY <1>4 DEF MarkQueued, Receive, IssueRequest, MergedGenTests, MergedE2E, CodeFromDoc,
                ManualModule, WholeRepository, Call, At
  <2>4. OneStores(r)
    BY <1>c, <2>1, <2>3 DEF OneStores, NoneStored, Stored
  <2> QED BY <1>b, <2>1, <2>2, <2>3, <2>4
<1>5. ASSUME NEW t \in Tasks, CancelInQueue(r, t) \/ CancelInStore(r, t)
      PROVE  /\ RowsMove /\ OneStores(r) /\ req[r].pc # "idle" /\ UNCHANGED calls /\ ~Receive(r)
             /\ \A s \in made : s # r => req'[s] = req[s]
  <2>1. MayCancel(r, t)
    BY <1>5 DEF CancelInQueue, CancelInStore, At, Cancelling, OldestListed, MayCancel
  <2>2. ~Receive(r) /\ req[r].pc \notin {"idle", "create"}
    BY <2>1 DEF MayCancel, Cancelling, Receive, IssueRequest, MergedGenTests, MergedE2E,
                CodeFromDoc, ManualModule, WholeRepository, Call, At
  <2>3. CASE CancelInQueue(r, t)
    <3>1. /\ \E q : Becomes(r, q) /\ ReqInv(row, q, r)
          /\ \A u \in Tasks : ctx'[u] => ctx[u] \/ u = t
          /\ UNCHANGED <<row, calls, clock, unstored, made>>
      BY <2>3, CancelInQueueStep
    <3>2. RowsMove /\ NoneStored(row, row', Tasks)
      BY <2>1, <3>1 DEF RowsMove, Grown, CancelledOrAboutTo, NoneStored
    <3> QED BY <1>b, <1>c, <2>2, <3>1, <3>2 DEF OneStores
  <2>4. CASE CancelInStore(r, t)
    <3>1. /\ \E q : Becomes(r, q) /\ ReqInv(row', q, r)
          /\ Grown(row, row')
          /\ UNCHANGED <<entry, calls, ctx, clock, unstored, made>>
          /\ Stored(t) /\ row'[t].created = row[t].created
          /\ \A u \in Tasks : u # t => row'[u] = row[u]
      BY <2>4, CancelInStoreStep
    <3>2. RowsMove /\ NoneStored(row, row', Tasks)
      BY <2>1, <3>1 DEF RowsMove, CancelledOrAboutTo, NoneStored, Stored
    <3> QED BY <1>b, <1>c, <2>2, <3>1, <3>2 DEF OneStores
  <2> QED BY <1>5, <2>3, <2>4
<1> QED BY <1>1, <1>2, <1>3, <1>4, <1>5 DEF RequestStep

LEMMA WorkerMoves ==
  ASSUME FInv, NEW t \in Tasks, WorkerStep(t)
  PROVE  RowsMove /\ NoneStored(row, row', Tasks) /\ UNCHANGED <<req, calls, made>>
<1>1. /\ \A u \in Tasks : u # t => row'[u] = row[u]
      /\ row'[t].created = row[t].created /\ row'[t].status \in Status \cup {row[t].status}
      /\ row'[t].status = "cancelled" => row[t].status = "cancelled" \/ ctx[t]
      /\ entry[t].state # "none" /\ UNCHANGED <<req, calls, clock, unstored, made>>
      /\ ctx \in [Tasks -> BOOLEAN]
  BY WorkerRows DEF FInv, RInv, TypeOK
<1>2. Stored(t)
  BY <1>1 DEF FInv, EntriesStored
<1>3. \A u \in Tasks : ctx'[u] => ctx[u]
  BY <1>1 DEF WorkerStep, Take, Finish
<1>4. RowsMove
  <2>1. Grown(row, row')
    BY <1>1 DEF Grown, Status
  <2>2. \A u \in Tasks : CancelledOrAboutTo(u)' => CancelledOrAboutTo(u)
    BY <1>1, <1>3 DEF CancelledOrAboutTo
  <2> QED BY <1>1, <2>1, <2>2 DEF RowsMove
<1>5. NoneStored(row, row', Tasks)
  BY <1>1, <1>2 DEF NoneStored, Stored
<1> QED BY <1>1, <1>4, <1>5

\* An entry has a row: it is enqueued after its row is stored.
LEMMA EntriesStayStored ==
  ASSUME FInv, Next, Grown(row, row')
  PROVE  EntriesStored'
<1> SUFFICES ASSUME NEW t \in Tasks, entry'[t].state # "none" PROVE Stored(t)
  BY DEF Grown, Stored, EntriesStored
<1>1. RInv /\ EntriesStored /\ entry \in [Tasks -> Entry]
  BY DEF FInv, RInv, TypeOK
<1>2. CASE entry[t].state # "none"
  BY <1>1, <1>2 DEF EntriesStored
<1>3. ASSUME NEW r \in made, Receive(r) \/ RequestStep(r), entry'[t].state # entry[t].state,
             entry[t].state = "none"
      PROVE  Stored(t)
  <2>1. Enqueue(r) /\ Accept(req[r].task)
    <3>1. Receive(r) => UNCHANGED entry
      BY ReceiveStep, <1>1
    <3>2. \A u \in Tasks : CancelInQueue(r, u) => UNCHANGED entry \/ DeleteEntry(u)
      BY DEF CancelInQueue
    <3>3. \A u \in Tasks : DeleteEntry(u) => entry'[t].state = entry[t].state
      BY <1>1, <1>3 DEF DeleteEntry, NoEntry
    <3>4. Enqueue(r) => UNCHANGED entry \/ Accept(req[r].task)
      BY DEF Enqueue, Conflict
    <3> QED BY <1>3, <3>1, <3>2, <3>3, <3>4 DEF RequestStep, Clear, Find, List, Create,
               MarkQueued, CancelInStore
  <2>2. t = req[r].task
    BY <1>1, <1>3, <2>1 DEF Accept
  <2>3. ReqInv(row, req[r], r) /\ req[r].pc = "enqueue"
    BY <1>1, <2>1, AtStep DEF Enqueue, At
  <2> QED BY <2>2, <2>3 DEF ReqInv, Storing, Stored
<1>4. ASSUME NEW u \in Tasks, WorkerStep(u) PROVE entry'[t].state # "none" => entry[t].state # "none"
  <2>1. u # t => entry'[t] = entry[t]
    BY <1>1, <1>4 DEF WorkerStep, Take, Finish, Ends, Settle, Archive, Dequeue, DeleteEntry,
                RetryOrArchive
  <2>2. entry[u].state # "none"
    BY <1>4 DEF WorkerStep, Take, Finish
  <2> QED BY <2>1, <2>2
<1> QED BY <1>2, <1>3, <1>4 DEF Next

\* Tasks of other requests are none of r's.
LEMMA NotByOthers ==
  ASSUME DistinctRequests, FInv, NEW r \in made, ~Doc(r), NEW s \in made, s # r, OneStores(s)
  PROVE  NoneStored(row, row', Own(r))
<1>1. Own(r) \cap Own(s) = {}
  BY DEF DistinctRequests, FInv, RInv, TypeOK, Doc
<1>2. Own(r) \subseteq Tasks
  BY FreshAtStep
<1>3. CASE Create(s)
  <2>1. req[s].task \in Own(s)
    BY <1>3, AtStep DEF FInv, Create, At
  <2> QED BY <1>1, <1>2, <1>3, <2>1 DEF OneStores, NoneStored
<1> QED BY <1>2, <1>3 DEF OneStores, NoneStored

LEMMA FInvInit == Init => FInv
<1> SUFFICES ASSUME Init PROVE FInv
  OBVIOUS
<1>1. RInv /\ made \subseteq Requests
  BY RInvInit DEF Init, Requests
<1>2. FreshOK
  BY IdleType DEF Init, FreshOK, FreshReq, Coming, Remaining, Cancelling
<1>3. CallsOK
  <2>1. \A r \in made : Own(r) \subseteq Tasks
    BY <1>1, OwnTasks
  <2> QED BY <2>1, IdleType DEF Init, CallsOK, Stored, NewRow
<1>4. EntriesStored
  BY DEF Init, EntriesStored, NoEntry
<1> QED BY <1>1, <1>2, <1>3, <1>4 DEF FInv

LEMMA FInvNext == DistinctRequests /\ FInv /\ [Next]_vars => FInv'
<1> SUFFICES ASSUME DistinctRequests, FInv, [Next]_vars PROVE FInv'
  OBVIOUS
<1>1. RInv /\ RInv' /\ made' = made
  <2>1. RInv /\ RInv'
    BY RInvNext DEF FInv
  <2>2. ASSUME Next PROVE made' = made
    BY <2>1, <2>2, CallMoves, WorkerMoves DEF Next, RowsMove
  <2> QED BY <2>1, <2>2 DEF vars
<1>2. CASE UNCHANGED vars
  BY <1>1, <1>2 DEF FInv, FreshOK, CallsOK, EntriesStored, Stored, vars
<1>3. ASSUME NEW r \in made, NoneStored(row, row', Own(r)), req'[r] = req[r], ~Doc(r)
      PROVE  FreshReq(row', req'[r], r)
  BY <1>3, FreshAtStep, FreshStays
<1>4. ASSUME NEW s \in made, Receive(s) \/ RequestStep(s) PROVE FreshOK' /\ CallsOK'
  <2>1. /\ RowsMove /\ OneStores(s)
        /\ \A r \in made : r # s => req'[r] = req[r]
        /\ RequestStep(s) => UNCHANGED calls /\ req[s].pc # "idle"
        /\ Receive(s) => calls'[s] # 0 /\ \A r \in made : r # s => calls'[r] = calls[r]
    BY <1>1, <1>4, CallMoves
  <2>2. ASSUME NEW r \in made, ~Doc(r) PROVE FreshReq(row', req'[r], r)
    <3>1. CASE r # s
      BY <1>3, <2>1, <2>2, <3>1, NotByOthers
    <3>2. CASE r = s
      <4>1. ~Create(r) => NoneStored(row, row', Own(r))
        BY <2>1, <2>2, <3>2, FreshAtStep DEF OneStores, NoneStored
      <4>2. CASE RequestStep(r)
        BY <2>2, <4>1, <4>2, RequestStepFresh
      <4>3. CASE Receive(r)
        <5>1. FreshReq(row, req'[r], r)
          BY <2>2, <4>3, ReceiveFresh
        <5>2. UNCHANGED row
          BY <1>1, <4>3, ReceiveStep
        <5> QED BY <5>1, <5>2
      <4> QED BY <1>4, <3>2, <4>2, <4>3
    <3> QED BY <3>1, <3>2
  <2>3. ASSUME NEW r \in made, ~Doc(r), r \in Manual, calls'[r] = 0
        PROVE  req'[r].pc = "idle" /\ \A t \in Own(r) : ~Stored(t)'
    <3>1. calls[r] = 0
      BY <1>4, <2>1, <2>3
    <3>2. req[r].pc = "idle" /\ \A t \in Own(r) : ~Stored(t)
      BY <2>3, <3>1 DEF FInv, CallsOK
    <3>3. r # s
      BY <1>4, <2>1, <2>3, <3>2
    <3>4. NoneStored(row, row', Own(r))
      BY <2>1, <2>3, <3>3, NotByOthers
    <3> QED BY <2>1, <3>2, <3>3, <3>4 DEF NoneStored, Stored
  <2> QED BY <1>1, <2>2, <2>3 DEF FreshOK, CallsOK
<1>5. ASSUME NEW t \in Tasks, WorkerStep(t) PROVE FreshOK' /\ CallsOK'
  <2>1. NoneStored(row, row', Tasks) /\ UNCHANGED <<req, calls, made>>
    BY <1>5, WorkerMoves
  <2>2. \A r \in made : ~Doc(r) => Own(r) \subseteq Tasks
    BY FreshAtStep
  <2>3. FreshOK'
    BY <1>3, <2>1, <2>2 DEF FreshOK, NoneStored
  <2>4. CallsOK'
    BY <2>1, <2>2 DEF FInv, CallsOK, NoneStored, Stored
  <2> QED BY <2>3, <2>4
<1>6. ASSUME Next PROVE EntriesStored'
  <2>1. Grown(row, row')
    BY <1>1, <1>6, CallMoves, WorkerMoves DEF Next, RowsMove
  <2> QED BY <1>6, <2>1, EntriesStayStored
<1> QED BY <1>1, <1>2, <1>4, <1>5, <1>6 DEF FInv, Next

-----------------------------------------------------------------------------
(***************************************************************************)
(* What is cancelled before its successor is stored.                       *)
(***************************************************************************)
NewerOfKind(t) == \E u \in Tasks : Kind[u] = Kind[t] /\ row[u].created > row[t].created
Expected(k) == \/ \E r \in made : KindOf(r) = k /\ Coming(req[r], r)
               \/ \E u \in unstored : Kind[u] = k
Followed(t) == Stored(t) /\ (NewerOfKind(t) \/ Expected(Kind[t]))
FollowedOK == \A t \in Tasks \ StoredFirst : CancelledOrAboutTo(t) => Followed(t)

\* What is listed by a request of these kinds is followed.
LEMMA ListedFollowed ==
  ASSUME RInv, NEW r \in made, NEW t \in Tasks \ StoredFirst, MayCancel(r, t)
  PROVE  Followed(t)
<1>1. /\ r \in Requests /\ ReqInv(row, req[r], r) /\ Stored(t) /\ TypeOK
      /\ Own(r) \subseteq Tasks
  BY AtStep, ListedSuperseded DEF MayCancel, RInv
<1>2. Kind[t] = KindOf(r)
  BY <1>1 DEF ReqInv, MayCancel
<1>3. CASE Before(req[r], r)
  BY <1>1, <1>2, <1>3 DEF Followed, Expected, Coming, MayCancel
<1>4. CASE ~Before(req[r], r)
  <2> DEFINE u == req[r].task
  <2>1. u \in Own(r) /\ u \in Tasks /\ Kind[u] = KindOf(r)
    BY <1>1, <1>4, OwnTasks DEF ReqInv, Before
  <2>2. row[u].created = req[r].stamp /\ row[t].created < req[r].stamp
    BY <1>1, <1>4 DEF ReqInv, MayCancel
  <2>3. row[u].created \in Nat /\ row[t].created \in Nat
    BY <1>1, <2>1 DEF TypeOK, Row
  <2>4. row[u].created > row[t].created
    BY <2>2, <2>3
  <2> HIDE DEF u
  <2> QED BY <1>1, <1>2, <2>1, <2>4 DEF Followed, NewerOfKind
<1> QED BY <1>3, <1>4

\* A request that is to store a task does so, or the store fails it.
LEMMA ComingStays ==
  ASSUME FInv, FInv', NEW r \in made, RequestStep(r), ~Doc(r), Coming(req[r], r)
  PROVE  \/ Coming(req'[r], r)
         \/ \E u \in Tasks : Kind[u] = KindOf(r) /\ row'[u].created = clock + 1
         \/ \E u \in unstored' : Kind[u] = KindOf(r)
<1>1. /\ made \subseteq Requests /\ req \in [made -> Req] /\ req[r] \in Req /\ r \in Requests
      /\ ReqInv(row, req[r], r) /\ FreshReq(row, req[r], r) /\ RInv /\ TypeOK
      /\ Own(r) \subseteq Tasks
  BY FreshAtStep DEF FInv, RInv
<1>2. CASE Clear(r)
  <2>1. CASE NextTask(r)
    <3>1. req[r].todo = TasksOf[r] /\ r \in Manual /\ TasksOf[r] # << >>
      BY <1>1, <1>2, OwnTasks DEF Clear, At, ReqInv, ReplacementAssumption
    <3>2. req'[r] = [Idle EXCEPT !.pc = "list", !.todo = Tail(req[r].todo),
                                  !.task = Head(req[r].todo)]
      BY <1>1, <2>1, <3>1 DEF NextTask, NextTaskWith, FirstPC
    <3>3. req'[r].pc = "list"
      BY <3>2, IdleType DEF Req
    <3> QED BY <3>3 DEF Coming
  <2>2. CASE ~NextTask(r)
    <3>1. req'[r].pc \in {"clear", "cancel"} /\ req'[r].task = req[r].task
      BY <1>1, <1>2, <2>2, ClearFields
    <3>2. req[r].task = "none"
      BY <1>1, <1>2 DEF Clear, At, ReqInv
    <3> QED BY <3>1, <3>2 DEF Coming, Cancelling, Before
  <2> QED BY <2>1, <2>2
<1>3. CASE List(r)
  <2>1. \/ \E S, blind : ToCancel(r, S, blind)
        \/ Goto(r, "create")
    BY <1>3 DEF List, Doc
  <2>2. req'[r].pc = "create" \/ (req'[r].pc = "cancel" /\ CancelsFirst(r))
    BY <1>1, <2>1, ListFields, GoneFields
  <2> QED BY <2>2 DEF Coming, Cancelling, Before
<1>4. CASE Create(r)
  <2> DEFINE t == req[r].task
  <2>1. t \in Own(r) /\ t \in Tasks /\ Kind[t] = KindOf(r) /\ t # "none"
    BY <1>1, <1>4, AtStep, OwnTasks DEF Create, At, ReplacementAssumption
  <2>2. ~Stored(t)
    BY <1>1, <1>4, <2>1 DEF FreshReq, Stored
  <2>3. clock + 1 \in Nat
    BY <1>1 DEF TypeOK
  <2>4. \/ row' = [row EXCEPT ![t] = PendingRow(clock + 1)]
        \/ unstored' = unstored \cup {t}
    BY <1>4, <2>2 DEF Create, CreateTask
  <2>5. row' = [row EXCEPT ![t] = PendingRow(clock + 1)] => row'[t].created = clock + 1
    BY <1>1, <2>1, <2>3, RowTypes DEF TypeOK
  <2> HIDE DEF t
  <2> QED BY <2>1, <2>4, <2>5
<1>5. ASSUME NEW t \in Tasks, CancelInQueue(r, t) \/ CancelInStore(r, t)
      PROVE  Coming(req'[r], r)
  <2>1. req[r].pc \in Cancelling /\ (Goto(r, "cancelWrite") \/ Dropped(r, t))
    BY <1>5 DEF CancelInQueue, CancelInStore, At, Cancelling
  <2>2. Before(req[r], r)
    BY <2>1 DEF Coming, Cancelling
  <2>3. CASE Goto(r, "cancelWrite")
    BY <1>1, <2>2, <2>3, GoneFields DEF Coming, Cancelling, Before
  <2>4. CASE Dropped(r, t)
    <3>1. \E pc \in {"cancel", "create", "clear"} :
            req' = [req EXCEPT ![r].old = [req[r].old EXCEPT ![t] = NewRow], ![r].pc = pc]
      BY <2>2, <2>4 DEF Dropped, Before
    <3>2. req'[r].pc \in {"cancel", "create", "clear"} /\ req'[r].task = req[r].task
      BY <1>1, <3>1 DEF Req
    <3> QED BY <2>2, <3>2 DEF Coming, Cancelling, Before
  <2> QED BY <2>1, <2>3, <2>4
<1>6. ~Find(r) /\ ~Enqueue(r) /\ ~MarkQueued(r)
  BY DEF Coming, Cancelling, Find, Enqueue, MarkQueued, At
<1> QED BY <1>2, <1>3, <1>4, <1>5, <1>6 DEF RequestStep

\* And so what is followed stays so.
LEMMA FollowedStays ==
  ASSUME FInv, FInv', Next, RowsMove, NEW t \in Tasks \ StoredFirst, Followed(t)
  PROVE  Followed(t)'
<1>1. RInv /\ RInv' /\ TypeOK /\ row[t].created <= clock
  BY DEF FInv, RInv, RowsDated
<1>2. Stored(t)' /\ row'[t].created = row[t].created
  BY DEF RowsMove, Grown, Followed, Stored
<1>3. clock \in Nat /\ \A u \in Tasks : row[u].created \in Nat
  BY <1>1 DEF TypeOK, Row
<1>4. ASSUME NEW u \in Tasks, Kind[u] = Kind[t], row'[u].created = clock + 1
      PROVE  Followed(t)'
  <2>1. row'[u].created > row'[t].created
    BY <1>1, <1>2, <1>3, <1>4
  <2> QED BY <1>2, <1>4, <2>1 DEF Followed, NewerOfKind
<1>5. CASE NewerOfKind(t)
  <2>1. PICK u \in Tasks : Kind[u] = Kind[t] /\ row[u].created > row[t].created
    BY <1>5 DEF NewerOfKind
  <2>2. CASE row'[u].created = row[u].created
    BY <1>2, <2>1, <2>2 DEF Followed, NewerOfKind
  <2> QED BY <1>4, <2>1, <2>2 DEF RowsMove
<1>6. CASE \E u \in unstored : Kind[u] = Kind[t]
  BY <1>2, <1>6 DEF Followed, Expected, RowsMove
<1>7. ASSUME NEW r \in made, KindOf(r) = Kind[t], Coming(req[r], r)
      PROVE  Followed(t)'
  <2>1. ~Doc(r) /\ made' = made
    BY <1>7 DEF Doc, StoredFirst, RowsMove
  <2>2. CASE req'[r] = req[r]
    BY <1>2, <1>7, <2>1, <2>2 DEF Followed, Expected
  <2>3. CASE RequestStep(r)
    BY <1>2, <1>4, <1>7, <2>1, <2>3, ComingStays DEF Followed, Expected
  <2>4. ~Receive(r)
    <3>1. req[r].pc # "idle"
      BY <1>7 DEF Coming, Cancelling
    <3> QED BY <3>1 DEF Receive, IssueRequest, MergedGenTests, MergedE2E, CodeFromDoc,
                ManualModule, WholeRepository, Call, At
  <2>5. ASSUME NEW s \in made, s # r, Receive(s) \/ RequestStep(s) PROVE req'[r] = req[r]
    BY <1>1, <2>5, CallMoves
  <2>6. ASSUME NEW u \in Tasks, WorkerStep(u) PROVE req'[r] = req[r]
    BY <2>6, WorkerMoves
  <2> QED BY <2>2, <2>3, <2>4, <2>5, <2>6 DEF Next
<1> QED BY <1>5, <1>6, <1>7 DEF Followed, Expected

(***************************************************************************)
(* Generated tests and whole-repository runs cancel before they store: as  *)
(* long as requests are distinct, what they cancel has a newer task of its *)
(* kind, or one on its way, or a task of its kind was lost to the store.   *)
(***************************************************************************)
THEOREM CancelledAreReplaced ==
  ASSUME DistinctRequests
  PROVE  Spec => []CancelledIsReplaced
<1>1. Init => FInv /\ FollowedOK
  BY FInvInit DEF Init, FollowedOK, CancelledOrAboutTo, NewRow
<1>2. FInv /\ FollowedOK /\ [Next]_vars => FInv' /\ FollowedOK'
  <2> SUFFICES ASSUME FInv, FollowedOK, [Next]_vars PROVE FInv' /\ FollowedOK'
    OBVIOUS
  <2>1. FInv'
    BY FInvNext
  <2>2. CASE UNCHANGED vars
    BY <2>1, <2>2 DEF FollowedOK, CancelledOrAboutTo, Followed, NewerOfKind, Expected, Stored,
                      StoredFirst, vars
  <2>3. CASE Next
    <3>1. RInv
      BY DEF FInv
    <3>2. RowsMove
      BY <2>3, <3>1, CallMoves, WorkerMoves DEF Next
    <3>3. ASSUME NEW t \in Tasks \ StoredFirst, CancelledOrAboutTo(t)' PROVE Followed(t)'
      <4>1. CancelledOrAboutTo(t) \/ \E r \in made : MayCancel(r, t)
        BY <3>2, <3>3 DEF RowsMove
      <4>2. Followed(t)
        BY <3>1, <4>1, ListedFollowed DEF FollowedOK
      <4> QED BY <2>1, <2>3, <3>2, <4>2, FollowedStays
    <3> QED BY <2>1, <3>3 DEF FollowedOK, StoredFirst
  <2> QED BY <2>2, <2>3
<1>3. FollowedOK => CancelledIsReplaced
  <2>1. \A r \in made : Coming(req[r], r) =>
           req[r].pc \in {"clear", "list", "cancel", "cancelWrite", "create"}
    BY DEF Coming, Cancelling
  <2> QED BY <2>1 DEF FollowedOK, CancelledIsReplaced, CancelledOrAboutTo, Followed,
                      NewerOfKind, Expected, ToCome
<1> QED BY <1>1, <1>2, <1>3, PTL DEF Spec

-----------------------------------------------------------------------------
(***************************************************************************)
(* What a request lists is not its own, but for a task of the same module  *)
(* in another framework, which the simpler query finds.                    *)
(***************************************************************************)
OtherFramework(t, u) == t # u /\ Key[t] = Key[u] /\ Framework[t] # Framework[u]
OwnListed(q, r) ==
  \A t \in Listed(q.old) \cap Own(r) : q.blind /\ OtherFramework(t, q.task)
OwnOK == \A r \in made : ~Doc(r) => OwnListed(req[r], r)

LEMMA NextTaskOwn ==
  ASSUME NEW r \in made, req \in [made -> Req], NEW s, NextTaskWith(r, s)
  PROVE  OwnListed(req'[r], r)
<1>1. req'[r] = Idle \/ req'[r] = [Idle EXCEPT !.pc = FirstPC(r), !.todo = Tail(s),
                                                 !.task = Head(s)]
  BY DEF NextTaskWith
<1>2. req'[r].old = Idle.old
  BY <1>1, IdleType DEF Req
<1> QED BY <1>2, IdleType DEF OwnListed

LEMMA OwnStep ==
  ASSUME DistinctModules, FInv, OwnOK, NEW r \in made, ~Doc(r), Receive(r) \/ RequestStep(r)
  PROVE  OwnListed(req'[r], r)
<1>1. /\ made \subseteq Requests /\ req \in [made -> Req] /\ req[r] \in Req /\ r \in Requests
      /\ ReqInv(row, req[r], r) /\ FreshReq(row, req[r], r) /\ RInv /\ TypeOK
      /\ Own(r) \subseteq Tasks /\ OwnListed(req[r], r)
  BY FreshAtStep DEF FInv, RInv, OwnOK
<1>2. \A s : NextTaskWith(r, s) => OwnListed(req'[r], r)
  BY <1>1, NextTaskOwn
<1>3. NextTask(r) => OwnListed(req'[r], r)
  BY <1>2 DEF NextTask
<1>4. \A pc : Goto(r, pc) => OwnListed(req'[r], r)
  BY <1>1, GoneFields DEF OwnListed
<1>5. CASE Receive(r)
  <2>1. ASSUME NEW K, req' = [req EXCEPT ![r] = [Idle EXCEPT !.pc = "clear",
                                           !.todo = TasksOf[r], !.keys = K]]
        PROVE  OwnListed(req'[r], r)
    <3>1. req'[r].old = Idle.old
      BY <1>1, <2>1, IdleType DEF Req
    <3> QED BY <3>1, IdleType DEF OwnListed
  <2> QED BY <1>2, <1>5, <2>1 DEF Receive, IssueRequest, MergedGenTests, MergedE2E,
             ManualModule, WholeRepository, CodeFromDoc, Doc
<1>6. CASE Clear(r)
  <2>1. r \in Manual /\ req[r].todo = TasksOf[r]
    BY <1>1, <1>6 DEF Clear, At, ReqInv, ReplacementAssumption
  <2>2. \A t \in Own(r) : ~Stored(t)
    <3>1. TasksOf[r] \in Seq(Own(r)) /\ DOMAIN TasksOf[r] = 1 .. Len(TasksOf[r])
      BY <1>1, OwnTasks
    <3> QED BY <1>1, <2>1, <3>1 DEF FreshReq, Remaining, Own, Stored
  <2>3. \A S : \A t \in Listed(RowsOf(S)) : Stored(t)
    BY <1>1, RowsOfType DEF TypeOK
  <2> QED BY <1>1, <1>3, <1>6, <2>2, <2>3, ClearFields DEF OwnListed
<1>7. CASE List(r)
  <2> DEFINE t == req[r].task
  <2>1. t \in Own(r) /\ t \in Tasks /\ t # "none" /\ ~Stored(t)
    <3>1. req[r].pc = "list"
      BY <1>7 DEF List, At
    <3>2. t \in Own(r) /\ t \in Tasks /\ t # "none"
      BY <1>1, <3>1, AtStep DEF ReplacementAssumption
    <3> QED BY <1>1, <3>1, <3>2 DEF FreshReq, Coming, Stored
  <2>2. CASE ToCancel(r, Replaced(t), FALSE)
    <3>1. req'[r].old = RowsOf(Replaced(t))
      BY <1>1, <2>2, ListFields
    <3>2. \A u \in Listed(req'[r].old) : u \in Replaced(t) /\ Stored(u)
      BY <1>1, <3>1, RowsOfType DEF TypeOK
    <3>3. \A u \in Own(r) : u # t => ~Replaces(t, u)
      BY <1>1, <2>1 DEF DistinctModules, Replaces, Doc
    <3>4. \A u \in Replaced(t) : Replaces(t, u)
      BY DEF Replaced
    <3> QED BY <2>1, <3>2, <3>3, <3>4 DEF OwnListed
  <2>3. CASE ToCancel(r, {u \in ActiveOf("gen_tests") : Key[u] = Key[t]}, TRUE)
    <3> DEFINE S == {u \in ActiveOf("gen_tests") : Key[u] = Key[t]}
    <3>1. req'[r].blind /\ req'[r].old = RowsOf(S) /\ req'[r].task = t
      BY <1>1, <2>3, ListFields
    <3>2. \A u \in Listed(req'[r].old) : Key[u] = Key[t] /\ Stored(u)
      BY <1>1, <3>1, RowsOfType DEF TypeOK
    <3>3. ASSUME NEW u \in Own(r), u # t, Key[u] = Key[t]
          PROVE  Framework[u] # Framework[t]
      <4>1. u \in Tasks /\ t \in Own(r) /\ KindOf(r) # "code_from_doc"
        BY <1>1, <2>1 DEF Doc
      <4>2. Framework[u] \notin {"", Framework[t]}
        BY <1>1, <3>3, <4>1, Zenon DEF DistinctModules
      <4> QED BY <4>2, Zenon
    <3> QED BY <2>1, <3>1, <3>2, <3>3 DEF OwnListed, OtherFramework
  <2> QED BY <1>3, <1>4, <1>7, <2>2, <2>3 DEF List
<1>8. CASE Create(r)
  <2>1. CASE req' = [req EXCEPT ![r].pc = "enqueue", ![r].stamp = clock + 1]
    <3>1. req'[r] = [req[r] EXCEPT !.pc = "enqueue", !.stamp = clock + 1]
      BY <1>1, <2>1
    <3>2. req'[r].old = req[r].old /\ req'[r].blind = req[r].blind /\ req'[r].task = req[r].task
      BY <1>1, <3>1 DEF Req
    <3> QED BY <1>1, <3>2 DEF OwnListed
  <2> QED BY <1>3, <1>8, <2>1 DEF Create
<1>9. ASSUME NEW t \in Tasks, Dropped(r, t) PROVE OwnListed(req'[r], r)
  BY <1>1, <1>3, <1>9, DroppedFields DEF OwnListed
<1>10. CASE Find(r) \/ Enqueue(r) \/ MarkQueued(r)
  BY <1>3, <1>4, <1>10 DEF Find, Enqueue, MarkQueued, GoOn
<1>11. ASSUME NEW t \in Tasks, CancelInQueue(r, t) \/ CancelInStore(r, t)
       PROVE  OwnListed(req'[r], r)
  BY <1>4, <1>9, <1>11 DEF CancelInQueue, CancelInStore
<1> QED BY <1>5, <1>6, <1>7, <1>8, <1>10, <1>11 DEF RequestStep

(***************************************************************************)
(* As long as requests are distinct and their modules too: no request      *)
(* cancels a task of its own, whatever overlaps it and whatever fails, but *)
(* for one in another framework of the same module, after the query of the *)
(* active modules has failed.                                              *)
(***************************************************************************)
THEOREM OwnTasksAreKept ==
  ASSUME DistinctRequests, DistinctModules
  PROVE  Spec => OwnTasksKept
<1>1. Init => FInv /\ OwnOK
  <2>1. Listed(Idle.old) = {}
    BY IdleType
  <2> QED BY <2>1, FInvInit DEF Init, OwnOK, OwnListed
<1>2. FInv /\ OwnOK /\ [Next]_vars => FInv' /\ OwnOK'
  <2> SUFFICES ASSUME FInv, OwnOK, [Next]_vars PROVE FInv' /\ OwnOK'
    OBVIOUS
  <2>1. FInv' /\ RInv
    BY FInvNext DEF FInv
  <2>2. CASE UNCHANGED vars
    BY <2>1, <2>2 DEF OwnOK, vars
  <2>3. ASSUME NEW s \in made, Receive(s) \/ RequestStep(s) PROVE OwnOK'
    <3>1. made' = made /\ \A r \in made : r # s => req'[r] = req[r]
      BY <2>1, <2>3, CallMoves DEF RowsMove
    <3>2. ~Doc(s) => OwnListed(req'[s], s)
      BY <2>3, OwnStep
    <3> QED BY <3>1, <3>2 DEF OwnOK
  <2>4. ASSUME NEW t \in Tasks, WorkerStep(t) PROVE OwnOK'
    BY <2>4, WorkerMoves DEF OwnOK
  <2> QED BY <2>1, <2>2, <2>3, <2>4 DEF Next
<1>3. OwnOK => \A r \in made : \A t \in Own(r) :
        /\ KindOf(r) # "code_from_doc"
        /\ At(r, "cancelWrite") /\ req'[r] # req[r] /\ OldestListed(req[r].old, t)
        => /\ req[r].blind /\ t # req[r].task
           /\ Key[t] = Key[req[r].task] /\ Framework[t] # Framework[req[r].task]
  BY DEF OwnOK, OwnListed, OtherFramework, Doc, OldestListed
<1> QED BY <1>1, <1>2, <1>3, PTL DEF Spec, OwnTasksKept

=============================================================================
