------------------------ MODULE TaskLifecycle_proofs ------------------------
(***************************************************************************)
(* Theorems about TaskLifecycle, for any deliveries, handlers, workers and *)
(* bounds.                                                                 *)
(***************************************************************************)
EXTENDS TaskLifecycle, TLAPS

USE StoreFaultsAssumption, AsynqAssumption, LifecycleAssumption

-----------------------------------------------------------------------------
(***************************************************************************)
(* Rows and lists of rows.                                                 *)
(***************************************************************************)
\* The rows the program writes are rows.
LEMMA RowTypes ==
  /\ NewRow \in Row
  /\ NoRows \in [Tasks -> Row]
  /\ \A n \in Nat : PendingRow(n) \in Row
  /\ \A rec \in Row : QueuedRow(rec) \in Row /\ CancelledRow(rec) \in Row
  /\ \A rec \in Row, s \in Status : [rec EXCEPT !.status = s] \in Row
BY DEF NewRow, NoRows, Row, Status, PendingRow, QueuedRow, CancelledRow

\* What a query returns is a list of rows; it lists the rows of S, all stored.
LEMMA RowsOfType ==
  ASSUME NEW S, S \subseteq Tasks, row \in [Tasks -> Row],
         \A t \in S : Stored(t)
  PROVE  /\ RowsOf(S) \in [Tasks -> Row]
         /\ Listed(RowsOf(S)) = S
         /\ \A t \in S : RowsOf(S)[t] = row[t]
BY RowTypes DEF RowsOf, Listed, Stored, NewRow

\* The queries of the program return stored rows.
LEMMA QueriesListStoredRows ==
  /\ \A t \in ActivePRTasks : t \in Tasks /\ Stored(t)
  /\ \A t \in Orphans : t \in Tasks /\ Stored(t) /\ row[t].status = "pending"
BY DEF ActivePRTasks, Orphans, PendingTasks, Stored

-----------------------------------------------------------------------------
(***************************************************************************)
(* Type correctness.                                                       *)
(***************************************************************************)
LEMMA InitTypes == Init => TypeOK
<1> SUFFICES ASSUME Init PROVE TypeOK
  OBVIOUS
<1> USE RowTypes DEF Init
<1>1. StoreTypeOK
  BY DEF StoreTypeOK, NoEntry, Entry
<1>2. HandlersTypeOK
  BY DEF HandlersTypeOK, IdleHandler, HandlerState, HandlerPC, MaybeTask
<1>3. WorkersTypeOK
  BY DEF WorkersTypeOK, IdleWorker, WorkerState, WorkerPC, Verdict, MaybeTask
<1>4. RecoveryTypeOK /\ ManualTypeOK /\ ProcessTypeOK
  BY DEF RecoveryTypeOK, ManualTypeOK, ProcessTypeOK, IdleRecovery, IdleManual,
    RecoveryPC, ManualPC, MaybeTask
<1> QED BY <1>1, <1>2, <1>3, <1>4 DEF TypeOK

\* A part of TypeOK whose variables a step leaves alone still holds.
LEMMA TypeFrame ==
  ASSUME TypeOK
  PROVE  /\ UNCHANGED row /\ entry' \in [Tasks -> Entry] => StoreTypeOK'
         /\ UNCHANGED entry /\ row' \in [Tasks -> Row] => StoreTypeOK'
         /\ UNCHANGED handlerVars => HandlersTypeOK'
         /\ UNCHANGED worker => WorkersTypeOK'
         /\ UNCHANGED recoveryVars => RecoveryTypeOK'
         /\ UNCHANGED manualVars => ManualTypeOK'
         /\ UNCHANGED processVars => ProcessTypeOK'
BY DEF TypeOK, StoreTypeOK, HandlersTypeOK, WorkersTypeOK, RecoveryTypeOK, ManualTypeOK,
  ProcessTypeOK, handlerVars, recoveryVars, manualVars, processVars

\* One handler moves to a well-typed state.
LEMMA HandlerMoves ==
  ASSUME HandlersTypeOK, UNCHANGED <<clock, delivered>>,
         NEW h \in Handlers, NEW s \in HandlerState,
         s.pc # "idle" => s.task \in Tasks,
         handler' = [handler EXCEPT ![h] = s]
  PROVE  HandlersTypeOK'
BY DEF HandlersTypeOK

LEMMA IdleTypes == /\ IdleHandler \in HandlerState /\ IdleHandler.pc = "idle"
                   /\ IdleWorker \in WorkerState /\ IdleWorker.pc = "idle"
BY RowTypes DEF IdleHandler, HandlerState, HandlerPC, MaybeTask, IdleWorker,
  WorkerState, WorkerPC, Verdict

\* GoCancel and DropListed keep the handler well typed.
LEMMA HandlerEnds ==
  ASSUME HandlersTypeOK, UNCHANGED <<clock, delivered>>, NEW h \in Handlers,
         handler[h].pc # "idle"
  PROVE  /\ GoCancel(h) => HandlersTypeOK'
         /\ \A t \in Tasks : DropListed(h, t) => HandlersTypeOK'
<1> DEFINE s == handler[h]
<1>1. s \in HandlerState /\ s.task \in Tasks
  BY DEF HandlersTypeOK
<1>2. [s EXCEPT !.pc = "cancel"] \in HandlerState
      /\ [s EXCEPT !.pc = "cancel"].task \in Tasks
  BY <1>1 DEF HandlerState, HandlerPC
<1>3. GoCancel(h) => HandlersTypeOK'
  BY <1>2, IdleTypes, HandlerMoves DEF GoCancel
<1>4. ASSUME NEW t \in Tasks, DropListed(h, t) PROVE HandlersTypeOK'
  <2> DEFINE old == [s.old EXCEPT ![t] = NewRow]
             next == [s EXCEPT !.pc = "cancel", !.old = old]
  <2>1. old \in [Tasks -> Row]
    BY <1>1, RowTypes DEF HandlerState
  <2>2. next \in HandlerState /\ next.task \in Tasks
    BY <1>1, <2>1 DEF HandlerState, HandlerPC
  <2>3. handler' = [handler EXCEPT ![h] = IF Listed(old) = {} THEN IdleHandler ELSE next]
    BY <1>4 DEF DropListed
  <2> HIDE DEF old, next
  <2> QED BY <2>2, <2>3, IdleTypes, HandlerMoves
<1> QED BY <1>3, <1>4

\* CancelContext changes nothing but who is cancelled.
LEMMA CancelContextEffect ==
  ASSUME WorkersTypeOK, NEW t \in Tasks, CancelContext(t)
  PROVE  /\ worker' \in [Workers -> WorkerState]
         /\ \A w \in Workers :
              /\ worker'[w].pc = worker[w].pc /\ worker'[w].task = worker[w].task
              /\ worker'[w].rec = worker[w].rec
              /\ worker'[w].retried = worker[w].retried
              /\ worker'[w].detached = worker[w].detached
              /\ worker'[w].cancelled # worker[w].cancelled => Attached(w, t)
<1> DEFINE next(w) == IF Attached(w, t) THEN [worker[w] EXCEPT !.cancelled = TRUE]
                                        ELSE worker[w]
<1>1. worker' = [w \in Workers |-> next(w)]
  BY DEF CancelContext, Attached, Holds
<1>2. ASSUME NEW w \in Workers
      PROVE  /\ next(w) \in WorkerState
             /\ next(w).pc = worker[w].pc /\ next(w).task = worker[w].task
             /\ next(w).rec = worker[w].rec /\ next(w).retried = worker[w].retried
             /\ next(w).detached = worker[w].detached
             /\ next(w).cancelled # worker[w].cancelled => Attached(w, t)
  <2>1. worker[w] \in WorkerState
    BY DEF WorkersTypeOK
  <2> QED BY <2>1 DEF WorkerState
<1> HIDE DEF next
<1> QED BY <1>1, <1>2

LEMMA HandlerTypes ==
  ASSUME TypeOK, NEW h \in Handlers, HandlerStep(h) \/ \E t \in Tasks : Receive(h, t)
  PROVE  TypeOK'
<1> DEFINE s == handler[h]
<1>0. /\ s \in HandlerState /\ (s.pc # "idle" => s.task \in Tasks)
      /\ HandlersTypeOK /\ WorkersTypeOK
      /\ row \in [Tasks -> Row] /\ entry \in [Tasks -> Entry]
  BY DEF TypeOK, HandlersTypeOK, StoreTypeOK
<1>pc. ASSUME NEW pc \in HandlerPC, s.pc # "idle", HandlerGo(h, pc),
              UNCHANGED <<clock, delivered>>
       PROVE  HandlersTypeOK'
  <2>1. [s EXCEPT !.pc = pc] \in HandlerState /\ [s EXCEPT !.pc = pc].task \in Tasks
    BY <1>0, <1>pc DEF HandlerState
  <2> QED BY <1>0, <1>pc, <2>1, HandlerMoves DEF HandlerGo
<1>1. ASSUME NEW t \in Tasks, Receive(h, t) PROVE TypeOK'
  <2>0. delivered' = [delivered EXCEPT ![t] = delivered[t] + 1] /\ clock' = clock
    BY <1>1 DEF Receive
  <2>1. delivered' \in [Tasks -> Nat] /\ clock' \in Nat
    BY <1>0, <2>0 DEF HandlersTypeOK
  <2> DEFINE next == [s EXCEPT !.pc = "list", !.task = t]
  <2>2. next \in HandlerState /\ next.task \in Tasks
    BY <1>0 DEF HandlerState, HandlerPC, MaybeTask
  <2>3. handler' = handler \/ handler' = [handler EXCEPT ![h] = next]
    BY <1>1 DEF Receive
  <2> HIDE DEF next
  <2>4. HandlersTypeOK'
    <3>1. handler' \in [Handlers -> HandlerState]
      BY <1>0, <2>2, <2>3 DEF HandlersTypeOK
    <3>2. \A g \in Handlers : handler'[g].pc # "idle" => handler'[g].task \in Tasks
      BY <1>0, <2>2, <2>3 DEF HandlersTypeOK
    <3> QED BY <2>1, <3>1, <3>2 DEF HandlersTypeOK
  <2> QED BY <2>4, <1>1, TypeFrame DEF Receive, TypeOK, StoreTypeOK
<1>2. CASE ListActive(h)
  <2>1. PICK S \in SUBSET ActivePRTasks :
           handler' = [handler EXCEPT ![h] = [s EXCEPT !.pc = "stamp", !.old = RowsOf(S)]]
    BY <1>2, ZenonT(60) DEF ListActive
  <2>2. RowsOf(S) \in [Tasks -> Row]
    BY <1>0, RowsOfType, QueriesListStoredRows
  <2> DEFINE next == [s EXCEPT !.pc = "stamp", !.old = RowsOf(S)]
  <2>3. next \in HandlerState /\ next.task \in Tasks
    BY <2>2, <1>0, <1>2 DEF ListActive, HandlerAt, HandlerState, HandlerPC
  <2>4. HandlersTypeOK'
    BY <1>0, <1>2, <2>1, <2>3, HandlerMoves DEF ListActive, HandlerAt
  <2> QED BY <2>4, <1>2, TypeFrame DEF ListActive, TypeOK, StoreTypeOK
<1>3. CASE Stamp(h)
  <2> DEFINE next == [s EXCEPT !.pc = "create", !.stamp = clock + 1]
  <2>1. clock' \in Nat /\ clock + 1 \in Nat /\ UNCHANGED delivered
    BY <1>0, <1>3 DEF Stamp, HandlersTypeOK
  <2>2. s.task \in Tasks /\ handler' = [handler EXCEPT ![h] = next]
    BY <1>0, <1>3 DEF Stamp, HandlerAt
  <2>3. next \in HandlerState /\ next.task \in Tasks
    BY <1>0, <2>1, <2>2 DEF HandlerState, HandlerPC
  <2>4. HandlersTypeOK'
    BY <1>0, <2>1, <2>2, <2>3 DEF HandlersTypeOK
  <2> QED BY <2>4, <1>3, TypeFrame DEF Stamp, TypeOK, StoreTypeOK
<1>4. CASE Create(h)
  <2>1. HandlersTypeOK'
    BY <1>0, <1>4, <1>pc, IdleTypes, HandlerMoves DEF Create, HandlerAt, HandlerPC, handlerVars
  <2>2. row' \in [Tasks -> Row]
    BY <1>0, <1>4, RowTypes DEF Create, CreateTask, HandlerAt, HandlerState
  <2> QED BY <2>1, <2>2, <1>4, TypeFrame DEF Create, TypeOK
<1>5. CASE Enqueue(h)
  <2>1. HandlersTypeOK'
    BY <1>0, <1>5, <1>pc, HandlerEnds DEF Enqueue, HandlerAt, HandlerPC
  <2>2. entry' \in [Tasks -> Entry]
    BY <1>0, <1>5 DEF Enqueue, Accept, Conflict, Waiting, Entry
  <2> QED BY <2>1, <2>2, <1>5, TypeFrame DEF Enqueue, TypeOK
<1>6. CASE MarkQueued(h)
  <2>1. HandlersTypeOK'
    BY <1>0, <1>6, HandlerEnds DEF MarkQueued, HandlerAt
  <2>2. row' \in [Tasks -> Row]
    BY <1>0, <1>6, RowTypes DEF MarkQueued, TryUpdateTask, UpdateTask, HandlerState
  <2> QED BY <2>1, <2>2, <1>6, TypeFrame DEF MarkQueued, TypeOK
<1>7. ASSUME NEW t \in Tasks, CancelInQueue(h, t) PROVE TypeOK'
  <2>1. HandlersTypeOK'
    BY <1>0, <1>7, <1>pc, HandlerEnds DEF CancelInQueue, HandlerAt, HandlerPC
  <2>2. entry' \in [Tasks -> Entry]
    BY <1>0, <1>7 DEF CancelInQueue, DeleteEntry, NoEntry, Entry
  <2>3. UNCHANGED worker \/ CancelContext(t)
    BY <1>7 DEF CancelInQueue
  <2>4. CancelContext(t) => WorkersTypeOK'
    BY <1>0, CancelContextEffect DEF WorkersTypeOK
  <2> QED BY <2>1, <2>2, <2>3, <2>4, <1>7, TypeFrame DEF CancelInQueue, TypeOK
<1>8. ASSUME NEW t \in Tasks, CancelInStore(h, t) PROVE TypeOK'
  <2>1. HandlersTypeOK'
    BY <1>0, <1>8, HandlerEnds DEF CancelInStore, HandlerAt
  <2>2. row' \in [Tasks -> Row]
    BY <1>0, <1>8, RowTypes DEF CancelInStore, TryUpdateTask, UpdateTask, HandlerState
  <2> QED BY <2>1, <2>2, <1>8, TypeFrame DEF CancelInStore, TypeOK
<1> QED BY <1>1, <1>2, <1>3, <1>4, <1>5, <1>6, <1>7, <1>8 DEF HandlerStep

\* What asynq does with an entry keeps it an entry.
LEMMA EntryTypes ==
  ASSUME entry \in [Tasks -> Entry], NEW t \in Tasks
  PROVE  /\ Accept(t) => entry' \in [Tasks -> Entry]
         /\ Dequeue(t) => entry' \in [Tasks -> Entry]
         /\ Requeue(t) => entry' \in [Tasks -> Entry]
         /\ RetryOrArchive(t) => entry' \in [Tasks -> Entry]
         /\ \A v \in Verdict : Settle(t, v) => entry' \in [Tasks -> Entry]
<1>1. /\ Accept(t) => entry' \in [Tasks -> Entry]
      /\ Dequeue(t) => entry' \in [Tasks -> Entry]
      /\ Requeue(t) => entry' \in [Tasks -> Entry]
  BY DEF Accept, Dequeue, Requeue, Waiting, Entry
<1>2. Archive(t) => entry' \in [Tasks -> Entry]
  BY DEF Archive, Entry
<1>3. DeleteEntry(t) => entry' \in [Tasks -> Entry]
  BY DEF DeleteEntry, NoEntry, Entry
<1>4. RetryOrArchive(t) => entry' \in [Tasks -> Entry]
  <2>1. entry[t].retried \in 0..MaxRetry
    BY DEF Entry
  <2>2. CASE entry[t].retried >= MaxRetry
    BY <1>2, <2>2 DEF RetryOrArchive
  <2>3. CASE ~(entry[t].retried >= MaxRetry)
    <3>1. Waiting(entry[t].retried + 1) \in Entry
      BY <2>1, <2>3 DEF Waiting, Entry
    <3> QED BY <3>1, <2>3 DEF RetryOrArchive
  <2> QED BY <2>2, <2>3
<1> QED BY <1>1, <1>2, <1>3, <1>4 DEF Settle, Verdict

\* One worker moves to a well-typed state.
LEMMA WorkerMoves ==
  ASSUME WorkersTypeOK, NEW w \in Workers, NEW s \in WorkerState,
         s.pc # "idle" => s.task \in Tasks,
         worker' = [worker EXCEPT ![w] = s]
  PROVE  WorkersTypeOK'
BY DEF WorkersTypeOK

\* A worker with a task decides, goes on, or is let go.
LEMMA WorkerGoesOn ==
  ASSUME WorkersTypeOK, NEW w \in Workers, worker[w].pc # "idle"
  PROVE  /\ \A pc \in WorkerPC : WorkerGo(w, pc) => WorkersTypeOK'
         /\ \A pc \in WorkerPC, rec \in Row, v \in Verdict :
              Decide(w, pc, rec, v) => WorkersTypeOK'
         /\ \A c \in BOOLEAN : LetGo(w, c) => WorkersTypeOK'
<1> DEFINE s == worker[w]
<1>0. s \in WorkerState /\ s.task \in Tasks
  BY DEF WorkersTypeOK
<1>1. ASSUME NEW pc \in WorkerPC, WorkerGo(w, pc) PROVE WorkersTypeOK'
  <2> DEFINE next == [s EXCEPT !.pc = pc]
  <2>1. next \in WorkerState /\ next.task \in Tasks
    BY <1>0 DEF WorkerState
  <2>2. worker' = [worker EXCEPT ![w] = next]
    BY <1>1 DEF WorkerGo
  <2> HIDE DEF next
  <2> QED BY <2>1, <2>2, WorkerMoves
<1>2. ASSUME NEW pc \in WorkerPC, NEW rec \in Row, NEW v \in Verdict,
             Decide(w, pc, rec, v)
      PROVE  WorkersTypeOK'
  <2> DEFINE next == [s EXCEPT !.pc = pc, !.rec = rec, !.verdict = v]
  <2>1. next \in WorkerState /\ next.task \in Tasks
    BY <1>0 DEF WorkerState
  <2>2. worker' = [worker EXCEPT ![w] = next]
    BY <1>2 DEF Decide
  <2> HIDE DEF next
  <2> QED BY <2>1, <2>2, WorkerMoves
<1>3. ASSUME NEW c \in BOOLEAN, LetGo(w, c) PROVE WorkersTypeOK'
  <2> DEFINE next == [s EXCEPT !.detached = TRUE, !.cancelled = c]
  <2>1. next \in WorkerState /\ next.task \in Tasks
    BY <1>0 DEF WorkerState
  <2>2. worker' = [worker EXCEPT ![w] = next]
    BY <1>3 DEF LetGo
  <2> HIDE DEF next
  <2> QED BY <2>1, <2>2, WorkerMoves
<1> QED BY <1>1, <1>2, <1>3

LEMMA WorkerTypes ==
  ASSUME TypeOK, NEW w \in Workers,
         \/ WorkerStep(w) \/ ContextDone(w) \/ LoseLease(w) \/ Abort(w)
         \/ \E t \in Tasks : Deliver(w, t)
  PROVE  TypeOK'
<1> DEFINE s == worker[w]
<1>0. /\ WorkersTypeOK /\ s \in WorkerState /\ (s.pc # "idle" => s.task \in Tasks)
      /\ row \in [Tasks -> Row] /\ entry \in [Tasks -> Entry]
  BY DEF TypeOK, WorkersTypeOK, StoreTypeOK
<1>rec. s.rec \in Row /\ \A x \in Status : WithStatus(w, x) \in Row
  BY <1>0, RowTypes DEF WorkerState, WithStatus
<1>1. ASSUME NEW t \in Tasks, Deliver(w, t) PROVE TypeOK'
  <2> DEFINE next == [IdleWorker EXCEPT !.pc = "load", !.task = t, !.retried = entry[t].retried]
  <2>1. entry[t].retried \in 0..MaxRetry
    BY <1>0 DEF Entry
  <2>2. next \in WorkerState /\ next.task \in Tasks
    BY <2>1, RowTypes DEF IdleWorker, WorkerState, WorkerPC, Verdict, MaybeTask
  <2>3. worker' = [worker EXCEPT ![w] = next]
    BY <1>1 DEF Deliver
  <2>4. WorkersTypeOK'
    BY <1>0, <2>2, <2>3, WorkerMoves
  <2>5. entry' \in [Tasks -> Entry]
    BY <1>0, <1>1, EntryTypes DEF Deliver
  <2> QED BY <1>1, <2>4, <2>5, TypeFrame DEF Deliver, TypeOK
<1>2. CASE Load(w)
  <2>1. s.pc # "idle" /\ row[s.task] \in Row
    BY <1>0, <1>2 DEF Load, WorkerAt
  <2>2. WorkersTypeOK'
    BY <1>0, <1>2, <1>rec, <2>1, WorkerGoesOn DEF Load, WorkerPC, Verdict
  <2> QED BY <1>2, <2>2, TypeFrame DEF Load, TypeOK, StoreTypeOK
<1>3. CASE Start(w)
  <2>1. WorkersTypeOK'
    BY <1>0, <1>3, <1>rec, WorkerGoesOn DEF Start, WorkerAt, WorkerPC, Verdict, Status
  <2>2. row' \in [Tasks -> Row]
    BY <1>0, <1>3, <1>rec DEF Start, UpdateTask, Status
  <2> QED BY <1>3, <2>1, <2>2, TypeFrame DEF Start, TypeOK
<1>enabled. CASE CheckEnabled(w)
  <2>1. WorkersTypeOK'
    BY <1>0, <1>enabled, <1>rec, WorkerGoesOn DEF CheckEnabled, WorkerAt, WorkerPC, Verdict,
      Status
  <2>2. row' \in [Tasks -> Row]
    BY <1>0, <1>enabled, <1>rec DEF CheckEnabled, UpdateTask, Status
  <2> QED BY <1>enabled, <2>1, <2>2, TypeFrame DEF CheckEnabled, TypeOK
<1>4. CASE Execute(w)
  <2>1. FailedOrRetrying(w) \in Status
    BY DEF FailedOrRetrying, Status
  <2>2. PICK pc \in WorkerPC, x \in Status, v \in Verdict : Decide(w, pc, WithStatus(w, x), v)
    BY <1>4, <2>1 DEF Execute, WorkerPC, Verdict, Status
  <2>3. WorkersTypeOK'
    BY <1>0, <1>4, <1>rec, <2>2, WorkerGoesOn DEF Execute, WorkerAt
  <2> QED BY <1>4, <2>3, TypeFrame DEF Execute, TypeOK, StoreTypeOK
<1>5. CASE CheckStale(w)
  <2>1. WorkersTypeOK'
    BY <1>0, <1>5, <1>rec, WorkerGoesOn DEF CheckStale, WorkerAt, WorkerPC, Verdict, Status
  <2> QED BY <1>5, <2>1, TypeFrame DEF CheckStale, TypeOK, StoreTypeOK
<1>6. CASE Publish(w)
  <2>1. WorkersTypeOK'
    BY <1>0, <1>6, WorkerGoesOn DEF Publish, WorkerAt, WorkerPC
  <2> QED BY <1>6, <2>1, TypeFrame DEF Publish, TypeOK, StoreTypeOK
<1>7. CASE WriteFinal(w)
  <2>1. WorkersTypeOK'
    BY <1>0, <1>7, WorkerGoesOn DEF WriteFinal, WorkerAt, WorkerPC
  <2>2. row' \in [Tasks -> Row]
    BY <1>0, <1>7, <1>rec DEF WriteFinal, TryUpdateTask, UpdateTask
  <2> QED BY <1>7, <2>1, <2>2, TypeFrame DEF WriteFinal, TypeOK
<1>8. CASE Ack(w)
  <2>1. WorkersTypeOK'
    BY <1>0, <1>8, IdleTypes, WorkerMoves DEF Ack
  <2>2. s.task \in Tasks /\ s.verdict \in Verdict
    BY <1>0, <1>8 DEF Ack, WorkerAt, WorkerState
  <2>3. entry' \in [Tasks -> Entry]
    BY <1>0, <1>8, <2>2, EntryTypes DEF Ack
  <2> QED BY <1>8, <2>1, <2>3, TypeFrame DEF Ack, TypeOK
<1>9. CASE ContextDone(w)
  <2>1. s.pc # "idle" /\ s.cancelled \in BOOLEAN
    BY <1>0, <1>9 DEF ContextDone, LetGo, WorkerState
  <2>2. WorkersTypeOK' /\ entry' \in [Tasks -> Entry]
    BY <1>0, <1>9, <2>1, WorkerGoesOn, EntryTypes DEF ContextDone
  <2> QED BY <1>9, <2>2, TypeFrame DEF ContextDone, TypeOK
<1>10. CASE LoseLease(w)
  <2>1. s.pc # "idle"
    BY <1>10 DEF LoseLease, LetGo
  <2>2. WorkersTypeOK'
    BY <1>0, <1>10, <2>1, WorkerGoesOn DEF LoseLease
  <2> QED BY <1>10, <2>2, TypeFrame DEF LoseLease, TypeOK, StoreTypeOK
<1>11. CASE Abort(w)
  <2>1. s.pc # "idle"
    BY <1>11 DEF Abort, LetGo
  <2>2. WorkersTypeOK' /\ entry' \in [Tasks -> Entry]
    BY <1>0, <1>11, <2>1, WorkerGoesOn, EntryTypes DEF Abort
  <2> QED BY <1>11, <2>2, TypeFrame DEF Abort, TypeOK
<1> QED
  BY <1>1, <1>2, <1>3, <1>enabled, <1>4, <1>5, <1>6, <1>7, <1>8, <1>9, <1>10, <1>11
    DEF WorkerStep

\* NextOrphan drops t from a well-typed list.
LEMMA NextOrphanTypes ==
  ASSUME RecoveryTypeOK, NEW t \in Tasks, NextOrphan(t)
  PROVE  recovery' \in [pc : RecoveryPC, todo : [Tasks -> Row]]
<1>1. [recovery.todo EXCEPT ![t] = NewRow] \in [Tasks -> Row]
  BY RowTypes DEF RecoveryTypeOK
<1> QED BY <1>1 DEF NextOrphan, RecoveryPC

LEMMA RecoveryTypes ==
  ASSUME TypeOK, RecoveryStep
  PROVE  TypeOK'
<1>0. /\ RecoveryTypeOK /\ \A t \in Tasks : recovery.todo[t] \in Row
      /\ row \in [Tasks -> Row] /\ entry \in [Tasks -> Entry]
  BY DEF TypeOK, StoreTypeOK, RecoveryTypeOK
<1>1. CASE Scan
  <2>1. RowsOf(Orphans) \in [Tasks -> Row]
    BY <1>0, RowsOfType, QueriesListStoredRows
  <2>2. RecoveryTypeOK'
    BY <1>0, <1>1, <2>1 DEF Scan, RecoveryTypeOK, RecoveryPC
  <2> QED BY <1>1, <2>2, TypeFrame DEF Scan, TypeOK, StoreTypeOK
<1>2. ASSUME NEW t \in Tasks, RequeueOrphan(t) PROVE TypeOK'
  <2>1. CASE GiveUp(t)
    <3>1. RecoveryTypeOK'
      BY <1>0, <2>1, NextOrphanTypes DEF GiveUp, RecoveryTypeOK
    <3>2. [recovery.todo[t] EXCEPT !.status = "failed"] \in Row
      BY <1>0, RowTypes DEF Status
    <3>3. row' \in [Tasks -> Row]
      BY <1>0, <2>1, <3>2 DEF GiveUp, UpdateTask
    <3> QED BY <1>2, <2>1, <3>1, <3>3, TypeFrame DEF RequeueOrphan, GiveUp, TypeOK
  <2>2. CASE Reenqueue(t)
    <3>1. RecoveryTypeOK'
      BY <1>0, <2>2, NextOrphanTypes DEF Reenqueue, RecoveryTypeOK, RecoveryPC
    <3>2. entry' \in [Tasks -> Entry]
      BY <1>0, <2>2, EntryTypes DEF Reenqueue, Conflict
    <3> QED BY <1>2, <2>2, <3>1, <3>2, TypeFrame DEF RequeueOrphan, Reenqueue, TypeOK
  <2> QED BY <1>2, <2>1, <2>2 DEF RequeueOrphan
<1>3. ASSUME NEW t \in Tasks, MarkOrphan(t) PROVE TypeOK'
  <2>1. RecoveryTypeOK'
    BY <1>0, <1>3, NextOrphanTypes DEF MarkOrphan, RecoveryTypeOK
  <2>2. row' \in [Tasks -> Row]
    BY <1>0, <1>3, RowTypes DEF MarkOrphan, UpdateTask
  <2> QED BY <1>3, <2>1, <2>2, TypeFrame DEF MarkOrphan, TypeOK
<1> QED BY <1>1, <1>2, <1>3 DEF RecoveryStep

LEMMA ManualTypes ==
  ASSUME TypeOK, ManualStep \/ \E t \in Tasks : ManualRead(t)
  PROVE  TypeOK'
<1>0. /\ ManualTypeOK /\ row \in [Tasks -> Row] /\ entry \in [Tasks -> Entry]
      /\ IdleManual \in [pc : ManualPC, task : MaybeTask, rec : Row]
      /\ IdleManual.pc = "idle"
  BY RowTypes DEF TypeOK, StoreTypeOK, IdleManual, ManualPC, MaybeTask
<1>1. ASSUME NEW t \in Tasks, ManualRead(t) PROVE TypeOK'
  <2>1. ManualTypeOK'
    BY <1>0, <1>1 DEF ManualRead, ManualTypeOK, ManualPC, MaybeTask
  <2> QED BY <1>1, <2>1, TypeFrame DEF ManualRead, TypeOK, StoreTypeOK
<1>2. CASE ManualEnqueue
  <2>1. ManualTypeOK' /\ entry' \in [Tasks -> Entry]
    BY <1>0, <1>2, EntryTypes DEF ManualEnqueue, ManualTypeOK, ManualPC, Conflict
  <2> QED BY <1>2, <2>1, TypeFrame DEF ManualEnqueue, TypeOK
<1>3. CASE ManualMark
  <2>1. manual.task \in Tasks /\ QueuedRow(manual.rec) \in Row
    BY <1>0, <1>3, RowTypes DEF ManualMark, ManualTypeOK
  <2>2. ManualTypeOK' /\ row' \in [Tasks -> Row]
    BY <1>0, <1>3, <2>1 DEF ManualMark, ManualTypeOK, TryUpdateTask, UpdateTask
  <2> QED BY <1>3, <2>2, TypeFrame DEF ManualMark, TypeOK
<1> QED BY <1>1, <1>2, <1>3 DEF ManualStep

LEMMA ProcessTypes ==
  ASSUME TypeOK, Crash \/ Stop \/ Exit
  PROVE  TypeOK'
<1>1. CASE Stop
  <2>1. ProcessTypeOK'
    BY <1>1 DEF Stop, TypeOK, ProcessTypeOK
  <2> QED BY <1>1, <2>1, TypeFrame DEF Stop, TypeOK, StoreTypeOK
<1>2. CASE Restart
  <2>1. HandlersTypeOK'
    BY <1>2, IdleTypes DEF Restart, TypeOK, HandlersTypeOK
  <2>2. WorkersTypeOK'
    BY <1>2, IdleTypes DEF Restart, WorkersTypeOK
  <2>3. RecoveryTypeOK'
    BY <1>2, RowTypes DEF Restart, RecoveryTypeOK, IdleRecovery, RecoveryPC
  <2>4. ProcessTypeOK'
    BY <1>2 DEF Restart, TypeOK, ProcessTypeOK
  <2> QED BY <1>2, <2>1, <2>2, <2>3, <2>4, TypeFrame DEF Restart, TypeOK, StoreTypeOK
<1> QED BY <1>1, <1>2 DEF Crash, Exit

\* asynq's recoverer touches the entry alone.
LEMMA ReclaimTypes ==
  ASSUME TypeOK, NEW t \in Tasks, ReclaimLease(t)
  PROVE  TypeOK'
BY EntryTypes, TypeFrame DEF ReclaimLease, TypeOK, StoreTypeOK

LEMMA StutterTypes == TypeOK /\ UNCHANGED vars => TypeOK'
BY TypeFrame DEF vars, handlerVars, recoveryVars, manualVars, processVars, TypeOK, StoreTypeOK

LEMMA TypeStep == TypeOK /\ [Next]_vars => TypeOK'
BY HandlerTypes, WorkerTypes, RecoveryTypes, ManualTypes, ProcessTypes, ReclaimTypes,
  StutterTypes DEF Next

\* Every state the system reaches is well typed, and no actor is ever at work
\* without a task.
THEOREM TypeCorrect == Spec => []TypeOK
BY InitTypes, TypeStep, PTL DEF Spec

-----------------------------------------------------------------------------
(***************************************************************************)
(* Which actions change which variable.                                    *)
(***************************************************************************)
LEMMA RowChanges ==
  ASSUME [Next]_vars, row' # row
  PROVE  \/ \E h \in Handlers : \/ Create(h) \/ MarkQueued(h)
                                \/ \E t \in Tasks : CancelInStore(h, t)
         \/ \E w \in Workers : Start(w) \/ CheckEnabled(w) \/ WriteFinal(w)
         \/ \E t \in Tasks : RequeueOrphan(t) \/ MarkOrphan(t)
         \/ ManualMark
BY ZenonT(60) DEF Next, vars, HandlerStep, Receive, ListActive, Stamp, Enqueue, CancelInQueue,
  WorkerStep, Deliver, Load, Execute, CheckStale, Publish, Ack, ContextDone, LoseLease,
  ReclaimLease, Abort, RecoveryStep, Scan, ManualStep, ManualRead, ManualEnqueue, Crash,
  Stop, Exit, Restart

LEMMA EntryChanges ==
  ASSUME [Next]_vars, entry' # entry
  PROVE  \/ \E h \in Handlers : Enqueue(h) \/ \E t \in Tasks : CancelInQueue(h, t)
         \/ \E w \in Workers : \/ Ack(w) \/ ContextDone(w) \/ Abort(w)
                               \/ \E t \in Tasks : Deliver(w, t)
         \/ \E t \in Tasks : RequeueOrphan(t) \/ ReclaimLease(t)
         \/ ManualEnqueue
BY ZenonT(60) DEF Next, vars, HandlerStep, Receive, ListActive, Stamp, Create, MarkQueued,
  CancelInStore, WorkerStep, Load, Start, CheckEnabled, Execute, CheckStale, Publish, WriteFinal,
  LoseLease, RecoveryStep, Scan, MarkOrphan, ManualStep, ManualRead, ManualMark, Crash,
  Stop, Exit, Restart

LEMMA HandlerChanges ==
  ASSUME [Next]_vars, handler' # handler
  PROVE  \/ \E h \in Handlers : HandlerStep(h) \/ \E t \in Tasks : Receive(h, t)
         \/ Restart
BY ZenonT(60) DEF Next, vars, handlerVars, WorkerStep, Deliver, Load, Start, CheckEnabled, Execute, CheckStale,
  Publish, WriteFinal, Ack, ContextDone, LoseLease, ReclaimLease, Abort, RecoveryStep,
  Scan, RequeueOrphan, MarkOrphan, ManualStep, ManualRead, ManualEnqueue, ManualMark,
  Crash, Stop, Exit

LEMMA WorkerChanges ==
  ASSUME [Next]_vars, worker' # worker
  PROVE  \/ \E w \in Workers : \/ WorkerStep(w) \/ ContextDone(w) \/ LoseLease(w)
                               \/ Abort(w) \/ \E t \in Tasks : Deliver(w, t)
         \/ \E h \in Handlers, t \in Tasks : CancelInQueue(h, t) /\ CancelContext(t)
         \/ Restart
BY ZenonT(60) DEF Next, vars, HandlerStep, Receive, ListActive, Stamp, Create, Enqueue, MarkQueued,
  CancelInQueue, CancelInStore, ReclaimLease, RecoveryStep, Scan, RequeueOrphan,
  MarkOrphan, ManualStep, ManualRead, ManualEnqueue, ManualMark, Crash, Stop, Exit

LEMMA RecoveryChanges ==
  ASSUME [Next]_vars, recoveryVars' # recoveryVars
  PROVE  RecoveryStep \/ Restart
BY ZenonT(60) DEF Next, vars, HandlerStep, Receive, ListActive, Stamp, Create, Enqueue, MarkQueued,
  CancelInQueue, CancelInStore, WorkerStep, Deliver, Load, Start, CheckEnabled, Execute, CheckStale,
  Publish, WriteFinal, Ack, ContextDone, LoseLease, ReclaimLease, Abort, ManualStep,
  ManualRead, ManualEnqueue, ManualMark, Crash, Stop, Exit

LEMMA ManualChanges ==
  ASSUME [Next]_vars, manualVars' # manualVars
  PROVE  ManualStep \/ \E t \in Tasks : ManualRead(t)
BY ZenonT(60) DEF Next, vars, HandlerStep, Receive, ListActive, Stamp, Create, Enqueue, MarkQueued,
  CancelInQueue, CancelInStore, WorkerStep, Deliver, Load, Start, CheckEnabled, Execute, CheckStale,
  Publish, WriteFinal, Ack, ContextDone, LoseLease, ReclaimLease, Abort, RecoveryStep,
  Scan, RequeueOrphan, MarkOrphan, Crash, Stop, Exit, Restart

-----------------------------------------------------------------------------
(***************************************************************************)
(* The inductive invariant IInv, part by part.                             *)
(***************************************************************************)
\* What a step does to a row: nothing, or the insertion of a pending row, or a
\* write of a status that is not pending.
RowMoves(t) ==
  \/ row'[t] = row[t]
  \/ ~Stored(t) /\ row'[t].status = "pending"
  \/ row'[t].status \in Status \ {"pending"}

LEMMA RowSteps ==
  ASSUME IInv, [Next]_vars
  PROVE  \A t \in Tasks : RowMoves(t)
<1> SUFFICES ASSUME row' # row PROVE \A t \in Tasks : RowMoves(t)
  BY DEF RowMoves
<1>0. /\ TypeOK /\ FinalIsNoStart /\ row \in [Tasks -> Row]
      /\ \A h \in Handlers : handler[h] \in HandlerState
      /\ \A w \in Workers : worker[w] \in WorkerState
      /\ \A t \in Tasks : recovery.todo[t] \in Row
      /\ manual.rec \in Row
  BY DEF IInv, TypeOK, StoreTypeOK, HandlersTypeOK, WorkersTypeOK, RecoveryTypeOK,
    ManualTypeOK
<1>up. ASSUME NEW u, NEW rec, UpdateTask(u, rec), rec.status \in Status \ {"pending"}
       PROVE  \A t \in Tasks : RowMoves(t)
  BY <1>0, <1>up DEF UpdateTask, RowMoves
<1>1. ASSUME NEW h \in Handlers, Create(h) PROVE \A t \in Tasks : RowMoves(t)
  BY <1>0, <1>1 DEF Create, CreateTask, PendingRow, RowMoves
<1>2. ASSUME NEW h \in Handlers, MarkQueued(h) PROVE \A t \in Tasks : RowMoves(t)
  <2>1. QueuedRow(PendingRow(handler[h].stamp)).status = "queued"
    BY DEF QueuedRow, PendingRow
  <2> QED BY <1>up, <1>2, <2>1 DEF MarkQueued, TryUpdateTask, Status
<1>3. ASSUME NEW h \in Handlers, NEW u \in Tasks, CancelInStore(h, u)
      PROVE  \A t \in Tasks : RowMoves(t)
  <2>1. handler[h].old[u] \in Row
    BY <1>0 DEF HandlerState
  <2>2. CancelledRow(handler[h].old[u]).status = "cancelled"
    BY <2>1 DEF CancelledRow, Row
  <2> QED BY <1>up, <1>3, <2>2 DEF CancelInStore, TryUpdateTask, Status
<1>4. ASSUME NEW w \in Workers, Start(w) PROVE \A t \in Tasks : RowMoves(t)
  <2>1. WithStatus(w, "running").status = "running"
    BY <1>0 DEF WithStatus, WorkerState, Row
  <2> QED BY <1>up, <1>4, <2>1 DEF Start, Status
<1>enabled. ASSUME NEW w \in Workers, CheckEnabled(w) PROVE \A t \in Tasks : RowMoves(t)
  <2>1. WithStatus(w, "succeeded").status = "succeeded"
    BY <1>0 DEF WithStatus, WorkerState, Row
  <2> QED BY <1>up, <1>enabled, <2>1 DEF CheckEnabled, Status, RowMoves
<1>5. ASSUME NEW w \in Workers, WriteFinal(w) PROVE \A t \in Tasks : RowMoves(t)
  <2>1. worker[w].rec.status \in Status \ {"pending"}
    BY <1>0, <1>5 DEF WriteFinal, WorkerAt, FinalIsNoStart, Status
  <2> QED BY <1>up, <1>5, <2>1 DEF WriteFinal, TryUpdateTask
<1>6. ASSUME NEW u \in Tasks, RequeueOrphan(u) \/ MarkOrphan(u)
      PROVE  \A t \in Tasks : RowMoves(t)
  <2>1. /\ [recovery.todo[u] EXCEPT !.status = "failed"].status = "failed"
        /\ QueuedRow(recovery.todo[u]).status = "queued"
    BY <1>0 DEF QueuedRow, Row
  <2> QED
    BY <1>up, <1>6, <2>1 DEF RequeueOrphan, GiveUp, Reenqueue, MarkOrphan, Status
<1>7. CASE ManualMark
  <2>1. QueuedRow(manual.rec).status = "queued"
    BY <1>0 DEF QueuedRow, Row
  <2> QED BY <1>up, <1>7, <2>1 DEF ManualMark, TryUpdateTask, Status
<1> QED BY <1>1, <1>2, <1>3, <1>4, <1>enabled, <1>5, <1>6, <1>7, RowChanges

\* A stored row stays stored, and only an unstored one becomes pending.
LEMMA StoredStays ==
  ASSUME IInv, [Next]_vars, NEW t \in Tasks
  PROVE  /\ Stored(t) => Stored(t)'
         /\ Stored(t) /\ row[t].status # "pending" => row'[t].status # "pending"
BY RowSteps DEF RowMoves, Stored, Status

LEMMA RowBeforeEntryStep ==
  ASSUME IInv, [Next]_vars
  PROVE  RowBeforeEntry'
<1> SUFFICES ASSUME NEW t \in Tasks, entry'[t].state # "none" PROVE Stored(t)
  BY StoredStays DEF RowBeforeEntry
<1>0. /\ RowBeforeEntry /\ EnqueuersHaveRow /\ OneHandlerPerTask /\ TypeOK
      /\ entry \in [Tasks -> Entry]
  BY DEF IInv, TypeOK, StoreTypeOK
<1> SUFFICES ASSUME entry[t].state = "none", entry' # entry PROVE Stored(t)
  BY <1>0 DEF RowBeforeEntry
<1>att. \A w \in Workers : ~Attached(w, t)
  BY <1>0 DEF OneHandlerPerTask
<1>1. ASSUME NEW h \in Handlers, Enqueue(h) PROVE Stored(t)
  BY <1>0, <1>1 DEF Enqueue, HandlerAt, EnqueuersHaveRow, Accept, Conflict
<1>2. ASSUME NEW h \in Handlers, NEW u \in Tasks, CancelInQueue(h, u) PROVE Stored(t)
  BY <1>0, <1>2 DEF CancelInQueue, DeleteEntry, NoEntry
<1>3. ASSUME NEW w \in Workers,
             \/ Ack(w) \/ ContextDone(w) \/ Abort(w) \/ \E u \in Tasks : Deliver(w, u)
      PROVE  Stored(t)
  <2>1. entry'[t] = entry[t]
    <3>1. CASE Ack(w)
      BY <1>0, <1>att, <1>3, <3>1 DEF Ack, WorkerAt, Settle, DeleteEntry, Archive, RetryOrArchive,
        Attached, Holds, TypeOK, WorkersTypeOK, WorkerState, Verdict
    <3>2. CASE ContextDone(w)
      BY <1>0, <1>att, <3>2 DEF ContextDone, LetGo, RetryOrArchive, Archive, Attached, Holds
    <3>3. CASE Abort(w)
      BY <1>0, <1>att, <3>3 DEF Abort, LetGo, Requeue, Attached, Holds
    <3>4. ASSUME NEW u \in Tasks, Deliver(w, u) PROVE entry'[t] = entry[t]
      BY <1>0, <3>4 DEF Deliver, Dequeue
    <3> QED BY <1>3, <3>1, <3>2, <3>3, <3>4
  <2> QED BY <2>1
<1>4. ASSUME NEW u \in Tasks, ReclaimLease(u) PROVE Stored(t)
  BY <1>0, <1>4 DEF ReclaimLease, RetryOrArchive, Archive
<1>5. ASSUME NEW u \in Tasks, RequeueOrphan(u) PROVE Stored(t)
  BY <1>0, <1>5 DEF RequeueOrphan, GiveUp, Reenqueue, Accept, Conflict, RecoveryAt,
    OldestListed, EnqueuersHaveRow
<1>6. CASE ManualEnqueue
  BY <1>0, <1>6 DEF ManualEnqueue, Accept, Conflict, EnqueuersHaveRow
<1> QED BY <1>1, <1>2, <1>3, <1>4, <1>5, <1>6, EntryChanges

\* A handler comes to Client.Enqueue only from a successful CreateTask.
LEMMA ToEnqueue ==
  ASSUME IInv, [Next]_vars, NEW h \in Handlers,
         HandlerStep(h) \/ \E t \in Tasks : Receive(h, t)
  PROVE  /\ \A g \in Handlers \ {h} : handler'[g] = handler[g]
         /\ handler'[h].pc = "enqueue" =>
              handler'[h] = handler[h] \/ Stored(handler[h].task)'
<1> DEFINE s == handler[h]
<1>0. /\ handler \in [Handlers -> HandlerState] /\ s \in HandlerState
      /\ row \in [Tasks -> Row] /\ (s.pc # "idle" => s.task \in Tasks)
  BY DEF IInv, TypeOK, HandlersTypeOK, StoreTypeOK
<1>to. ASSUME NEW next, handler' = [handler EXCEPT ![h] = next], next.pc # "enqueue"
       PROVE  /\ \A g \in Handlers \ {h} : handler'[g] = handler[g]
              /\ handler'[h].pc # "enqueue"
  BY <1>0, <1>to
<1>pc. ASSUME NEW pc \in HandlerPC, HandlerGo(h, pc)
       PROVE  /\ \A g \in Handlers \ {h} : handler'[g] = handler[g]
              /\ handler'[h].pc = pc /\ handler'[h].task = s.task
  BY <1>0, <1>pc DEF HandlerGo, HandlerState
<1>cancel. /\ IdleHandler.pc # "enqueue" /\ [s EXCEPT !.pc = "cancel"].pc # "enqueue"
           /\ \A old : [s EXCEPT !.pc = "cancel", !.old = old].pc # "enqueue"
  BY <1>0 DEF IdleHandler, HandlerState
<1>end. ASSUME GoCancel(h) \/ \E t \in Tasks : DropListed(h, t)
        PROVE  /\ \A g \in Handlers \ {h} : handler'[g] = handler[g]
               /\ handler'[h].pc # "enqueue"
  BY <1>end, <1>to, <1>cancel DEF GoCancel, DropListed
<1>1. ASSUME NEW t \in Tasks, Receive(h, t) PROVE handler'[h] = s \/ handler'[h].pc = "list"
  <2>1. [s EXCEPT !.pc = "list", !.task = t].pc = "list"
    BY <1>0 DEF HandlerState
  <2>2. CASE handler' = [handler EXCEPT ![h] = [s EXCEPT !.pc = "list", !.task = t]]
    BY <1>0, <2>1, <2>2
  <2> QED BY <1>1, <2>2 DEF Receive
<1>2. ASSUME NEW t \in Tasks, Receive(h, t)
      PROVE  \A g \in Handlers \ {h} : handler'[g] = handler[g]
  BY <1>0, <1>2 DEF Receive
<1>3. CASE ListActive(h)
  BY <1>0, <1>3 DEF ListActive, HandlerState
<1>4. CASE Stamp(h)
  BY <1>0, <1>4 DEF Stamp, HandlerState
<1>5. CASE Create(h)
  <2>1. CASE CreateTask(s.task, PendingRow(s.stamp)) /\ HandlerGo(h, "enqueue")
    <3>1. s.task \in Tasks
      BY <1>0, <1>5 DEF Create, HandlerAt
    <3>2. Stored(s.task)'
      <4>1. row'[s.task].status = "pending"
        BY <1>0, <2>1, <3>1 DEF CreateTask, PendingRow
      <4>2. handler'[h].task = s.task
        BY <1>pc, <2>1 DEF HandlerPC
      <4> QED BY <4>1, <4>2 DEF Stored
    <3> QED BY <1>pc, <2>1, <3>2 DEF HandlerPC
  <2>2. CASE handler' = [handler EXCEPT ![h] = IdleHandler]
    BY <1>to, <1>cancel, <2>2
  <2> QED BY <1>5, <2>1, <2>2 DEF Create
<1>6. CASE Enqueue(h)
  BY <1>pc, <1>end, <1>6 DEF Enqueue, HandlerPC
<1>7. CASE MarkQueued(h)
  BY <1>end, <1>7 DEF MarkQueued
<1>8. ASSUME NEW t \in Tasks, CancelInQueue(h, t)
      PROVE  /\ \A g \in Handlers \ {h} : handler'[g] = handler[g]
             /\ handler'[h].pc # "enqueue"
  BY <1>pc, <1>end, <1>8 DEF CancelInQueue, HandlerPC
<1>9. ASSUME NEW t \in Tasks, CancelInStore(h, t)
      PROVE  /\ \A g \in Handlers \ {h} : handler'[g] = handler[g]
             /\ handler'[h].pc # "enqueue"
  BY <1>end, <1>9 DEF CancelInStore
<1> QED BY <1>1, <1>2, <1>3, <1>4, <1>5, <1>6, <1>7, <1>8, <1>9 DEF HandlerStep

\* A row on the RecoveryLoop's list, unless it has just been read, was on it.
LEMMA ListShrinks ==
  ASSUME RecoveryTypeOK, NEW t \in Tasks, NextOrphan(t)
  PROVE  /\ Listed(recovery'.todo) \subseteq Listed(recovery.todo)
         /\ t \notin Listed(recovery'.todo)
<1>1. recovery'.todo = [recovery.todo EXCEPT ![t] = NewRow]
  BY DEF NextOrphan
<1> QED BY <1>1 DEF Listed, NewRow, RecoveryTypeOK

LEMMA RecoveryListSteps ==
  ASSUME IInv, [Next]_vars
  PROVE  Listed(recovery'.todo) \subseteq Listed(recovery.todo) \cup Orphans
<1>0. RecoveryTypeOK /\ TypeOK
  BY DEF IInv, TypeOK
<1>1. CASE UNCHANGED recoveryVars
  BY <1>1 DEF recoveryVars, Listed
<1>2. CASE Scan
  <2>1. Listed(RowsOf(Orphans)) = Orphans
    BY <1>0, RowsOfType, QueriesListStoredRows DEF TypeOK, StoreTypeOK
  <2>2. recovery'.todo = RowsOf(Orphans)
    BY <1>2 DEF Scan
  <2> QED BY <2>1, <2>2 DEF Listed
<1>3. ASSUME NEW t \in Tasks, RequeueOrphan(t) \/ MarkOrphan(t)
      PROVE  Listed(recovery'.todo) \subseteq Listed(recovery.todo)
  <2>1. CASE NextOrphan(t)
    BY <1>0, <2>1, ListShrinks
  <2>2. CASE recovery' = [recovery EXCEPT !.pc = "mark"]
    BY <1>0, <2>2 DEF Listed, RecoveryTypeOK
  <2> QED BY <1>3, <2>1, <2>2 DEF RequeueOrphan, GiveUp, Reenqueue, MarkOrphan
<1>4. CASE Restart
  BY <1>4 DEF Restart, IdleRecovery, NoRows, NewRow, Listed
<1> QED BY <1>1, <1>2, <1>3, <1>4, RecoveryChanges DEF RecoveryStep

LEMMA EnqueuersStep ==
  ASSUME IInv, [Next]_vars
  PROVE  EnqueuersHaveRow'
<1>0. /\ EnqueuersHaveRow /\ HandlersTypeOK /\ ManualTypeOK /\ ManualTypeOK'
      /\ \A t \in Tasks : Stored(t) => Stored(t)'
  BY StoredStays, TypeStep DEF IInv, TypeOK
<1>1. ASSUME NEW g \in Handlers, handler'[g].pc = "enqueue"
      PROVE  Stored(handler[g].task)'
  <2>1. CASE handler'[g] = handler[g]
    BY <1>0, <1>1, <2>1 DEF EnqueuersHaveRow, HandlersTypeOK
  <2>2. CASE \E h \in Handlers : HandlerStep(h) \/ \E t \in Tasks : Receive(h, t)
    BY <1>1, <2>1, <2>2, ToEnqueue
  <2>3. CASE Restart
    BY <1>1, <2>3 DEF Restart, IdleHandler
  <2> QED BY <2>1, <2>2, <2>3, HandlerChanges
<1>2. ASSUME NEW t \in Listed(recovery'.todo) PROVE Stored(t)'
  BY <1>0, RecoveryListSteps, QueriesListStoredRows DEF EnqueuersHaveRow, Listed
<1>3. manual'.pc # "idle" => Stored(manual.task)'
  <2>1. CASE UNCHANGED manualVars
    BY <1>0, <2>1 DEF manualVars, EnqueuersHaveRow, ManualTypeOK
  <2>2. ASSUME NEW t \in Tasks, ManualRead(t) PROVE Stored(manual.task)'
    BY <1>0, <2>2 DEF ManualRead, Stored
  <2>3. CASE ManualStep
    BY <1>0, <2>3 DEF ManualStep, ManualEnqueue, ManualMark, IdleManual, EnqueuersHaveRow,
      ManualTypeOK
  <2> QED BY <2>1, <2>2, <2>3, ManualChanges
<1> QED BY <1>1, <1>2, <1>3 DEF EnqueuersHaveRow

LEMMA RecoveredStep ==
  ASSUME IInv, [Next]_vars
  PROVE  RecoveredIsNotPending' /\ RecoveredOnce'
<1>0. /\ RecoveredIsNotPending /\ RecoveredOnce /\ RecoveryTypeOK
      /\ EnqueuersHaveRow /\ EnqueuersHaveRow' /\ row \in [Tasks -> Row]
      /\ attempts \in [Tasks -> Nat]
  BY EnqueuersStep DEF IInv, TypeOK, StoreTypeOK, RecoveryTypeOK
<1>same. ASSUME NEW t \in Tasks, attempts'[t] = attempts[t]
         PROVE  /\ attempts'[t] <= 1
                /\ attempts'[t] > 0 => /\ row'[t].status \notin {"absent", "pending"}
                                       /\ t \notin Listed(recovery'.todo)
  BY <1>0, <1>same, StoredStays, RecoveryListSteps, QueriesListStoredRows
    DEF RecoveredIsNotPending, RecoveredOnce, Stored
<1>zero. ASSUME NEW t \in Tasks, attempts'[t] = 0
         PROVE  attempts'[t] <= 1 /\ ~(attempts'[t] > 0)
  BY <1>zero
<1>1. ASSUME NEW u \in Tasks, MarkOrphan(u), attempts' # attempts
      PROVE  /\ attempts'[u] <= 1
             /\ row'[u].status \notin {"absent", "pending"}
             /\ u \notin Listed(recovery'.todo)
             /\ \A t \in Tasks \ {u} : attempts'[t] = attempts[t]
  <2>1. /\ u \in Listed(recovery.todo)
        /\ UpdateTask(u, QueuedRow(recovery.todo[u])) /\ NextOrphan(u)
        /\ attempts' = [attempts EXCEPT ![u] = attempts[u] + 1]
    BY <1>1 DEF MarkOrphan, RecoveryAt, OldestListed
  <2>2. attempts[u] = 0
    BY <1>0, <2>1 DEF RecoveredIsNotPending
  <2>3. row'[u].status = "queued"
    BY <1>0, <2>1 DEF UpdateTask, QueuedRow, RecoveryTypeOK, Row
  <2> QED BY <1>0, <2>1, <2>2, <2>3, ListShrinks
<1>2. ASSUME NEW u \in Tasks, RequeueOrphan(u), NEW t \in Tasks
      PROVE  attempts'[t] = attempts[t] \/ attempts'[t] = 0
  BY <1>0, <1>2 DEF RequeueOrphan, GiveUp, Reenqueue
<1>3. CASE Restart
  BY <1>3, <1>zero DEF Restart, RecoveredIsNotPending, RecoveredOnce
<1>4. CASE attempts' = attempts
  BY <1>4, <1>same DEF RecoveredIsNotPending, RecoveredOnce
<1>5. CASE \E u \in Tasks : RequeueOrphan(u)
  BY <1>2, <1>5, <1>same, <1>zero DEF RecoveredIsNotPending, RecoveredOnce
<1>6. CASE \E u \in Tasks : MarkOrphan(u) /\ attempts' # attempts
  BY <1>1, <1>6, <1>same DEF RecoveredIsNotPending, RecoveredOnce
<1> QED
  BY <1>3, <1>4, <1>5, <1>6, RecoveryChanges DEF RecoveryStep, Scan, recoveryVars

FinalPC == {"check", "publish", "final"}
FinalStatus == {"succeeded", "failed", "cancelled", "retrying"}

\* What a step of a worker with a task may make of the worker.
WorkerBecomes(w, s) ==
  /\ worker' = [worker EXCEPT ![w] = s]
  /\ s.pc = "idle" \/ /\ worker[w].pc # "idle"
                      /\ s.task = worker[w].task /\ s.retried = worker[w].retried
                      /\ worker[w].detached => s.detached
  /\ s.pc \in FinalPC => \/ s.rec.status \in FinalStatus
                         \/ s.rec = worker[w].rec /\ worker[w].pc \in FinalPC

LEMMA WorkerStepEffect ==
  ASSUME TypeOK, NEW w \in Workers,
         WorkerStep(w) \/ ContextDone(w) \/ LoseLease(w) \/ Abort(w)
  PROVE  \E s : WorkerBecomes(w, s)
<1> DEFINE s == worker[w]
<1>0. s \in WorkerState
  BY DEF TypeOK, WorkersTypeOK
<1>status. \A x \in Status : WithStatus(w, x).status = x
  BY <1>0 DEF WithStatus, WorkerState, Row
<1>decide. ASSUME NEW pc \in WorkerPC \ {"idle"}, NEW rec, NEW v, s.pc # "idle",
                  Decide(w, pc, rec, v), pc \in FinalPC => rec.status \in FinalStatus
           PROVE  \E next : WorkerBecomes(w, next)
  <2> DEFINE next == [s EXCEPT !.pc = pc, !.rec = rec, !.verdict = v]
  <2>1. /\ next.pc = pc /\ next.rec = rec /\ next.task = s.task
        /\ next.retried = s.retried /\ next.detached = s.detached
    BY <1>0 DEF WorkerState
  <2>2. worker' = [worker EXCEPT ![w] = next]
    BY <1>decide DEF Decide
  <2> HIDE DEF next
  <2>3. WorkerBecomes(w, next)
    BY <1>decide, <2>1, <2>2 DEF WorkerBecomes
  <2> QED BY <2>3
<1>go. ASSUME NEW pc \in WorkerPC \ {"idle"}, s.pc # "idle", WorkerGo(w, pc),
              pc \in FinalPC => s.pc \in FinalPC
       PROVE  \E next : WorkerBecomes(w, next)
  <2> DEFINE next == [s EXCEPT !.pc = pc]
  <2>1. /\ next.pc = pc /\ next.rec = s.rec /\ next.task = s.task
        /\ next.retried = s.retried /\ next.detached = s.detached
    BY <1>0 DEF WorkerState
  <2>2. worker' = [worker EXCEPT ![w] = next]
    BY <1>go DEF WorkerGo
  <2> HIDE DEF next
  <2>3. WorkerBecomes(w, next)
    BY <1>go, <2>1, <2>2 DEF WorkerBecomes
  <2> QED BY <2>3
<1>letGo. ASSUME NEW c \in BOOLEAN, LetGo(w, c)
          PROVE  \E next : WorkerBecomes(w, next)
  <2> DEFINE next == [s EXCEPT !.detached = TRUE, !.cancelled = c]
  <2>1. /\ next.pc = s.pc /\ next.rec = s.rec /\ next.task = s.task
        /\ next.retried = s.retried /\ next.detached = TRUE
    BY <1>0 DEF WorkerState
  <2>2. worker' = [worker EXCEPT ![w] = next] /\ s.pc # "idle"
    BY <1>letGo DEF LetGo
  <2> HIDE DEF next
  <2>3. WorkerBecomes(w, next)
    BY <2>1, <2>2 DEF WorkerBecomes
  <2> QED BY <2>3
<1>1. CASE Load(w)
  BY <1>1, <1>decide DEF Load, WorkerAt, WorkerPC, FinalPC
<1>2. CASE Start(w)
  BY <1>2, <1>decide DEF Start, WorkerAt, WorkerPC, FinalPC
<1>enabled. CASE CheckEnabled(w)
  BY <1>enabled, <1>decide, <1>go DEF CheckEnabled, WorkerAt, WorkerPC, FinalPC
<1>3. CASE Execute(w)
  <2>1. FailedOrRetrying(w) \in FinalStatus
    BY DEF FailedOrRetrying, FinalStatus
  <2>2. PICK pc \in WorkerPC \ {"idle"}, x \in FinalStatus, v \in Verdict :
          Decide(w, pc, WithStatus(w, x), v)
    BY <1>3, <2>1 DEF Execute, WorkerPC, Verdict, FinalStatus
  <2>3. WithStatus(w, x).status = x
    BY <1>status DEF Status, FinalStatus
  <2> QED BY <1>3, <1>decide, <2>2, <2>3 DEF Execute, WorkerAt
<1>4. CASE CheckStale(w)
  BY <1>4, <1>decide, <1>go, <1>status DEF CheckStale, WorkerAt, WorkerPC, FinalPC,
    FinalStatus, Status
<1>5. CASE Publish(w)
  BY <1>5, <1>go DEF Publish, WorkerAt, WorkerPC, FinalPC
<1>6. CASE WriteFinal(w)
  BY <1>6, <1>go DEF WriteFinal, WorkerAt, WorkerPC, FinalPC
<1>7. CASE Ack(w)
  <2>1. WorkerBecomes(w, IdleWorker)
    BY <1>7 DEF Ack, WorkerBecomes, IdleWorker, FinalPC
  <2> QED BY <2>1
<1>8. CASE ContextDone(w) \/ LoseLease(w) \/ Abort(w)
  <2>1. s.cancelled \in BOOLEAN
    BY <1>0 DEF WorkerState
  <2> QED BY <1>8, <1>letGo, <2>1 DEF ContextDone, LoseLease, Abort
<1> QED BY <1>1, <1>2, <1>enabled, <1>3, <1>4, <1>5, <1>6, <1>7, <1>8 DEF WorkerStep

\* Only Deliver attaches a worker to a task.
LEMMA AttachedSteps ==
  ASSUME IInv, [Next]_vars,
         ~\E w \in Workers, t \in Tasks : Deliver(w, t)
  PROVE  \A w \in Workers : \A t \in Tasks : Attached(w, t)' =>
           Attached(w, t) /\ worker'[w].retried = worker[w].retried
<1>0. TypeOK /\ WorkersTypeOK
  BY DEF IInv, TypeOK
<1> SUFFICES ASSUME worker' # worker, NEW v \in Workers, NEW t \in Tasks, Attached(v, t)'
             PROVE  Attached(v, t) /\ worker'[v].retried = worker[v].retried
  BY DEF Attached, Holds
<1>1. ASSUME NEW w \in Workers,
             WorkerStep(w) \/ ContextDone(w) \/ LoseLease(w) \/ Abort(w)
      PROVE  Attached(v, t) /\ worker'[v].retried = worker[v].retried
  <2>1. PICK s : WorkerBecomes(w, s)
    BY <1>0, <1>1, WorkerStepEffect
  <2>2. worker'[v] = IF v = w THEN s ELSE worker[v]
    BY <1>0, <2>1 DEF WorkerBecomes, WorkersTypeOK
  <2> QED BY <2>1, <2>2 DEF WorkerBecomes, Attached, Holds
<1>2. ASSUME NEW u \in Tasks, CancelContext(u)
      PROVE  Attached(v, t) /\ worker'[v].retried = worker[v].retried
  BY <1>0, <1>2, CancelContextEffect DEF Attached, Holds
<1>3. CASE Restart
  BY <1>3 DEF Restart, IdleWorker, Attached, Holds
<1> QED BY <1>1, <1>2, <1>3, WorkerChanges

\* An entry changes only while no handler of its task is, or stays, attached.
LEMMA EntryOfAttachedStays ==
  ASSUME IInv, [Next]_vars,
         ~\E w \in Workers, t \in Tasks : Deliver(w, t),
         NEW v \in Workers, NEW t \in Tasks, Attached(v, t)'
  PROVE  entry'[t] = entry[t]
<1>0. /\ TypeOK /\ OneHandlerPerTask /\ worker \in [Workers -> WorkerState]
      /\ entry \in [Tasks -> Entry]
      /\ \A w \in Workers : worker[w].pc # "idle" => worker[w].task \in Tasks
  BY DEF IInv, TypeOK, WorkersTypeOK, StoreTypeOK
<1>1. Attached(v, t) /\ entry[t].state = "active"
  BY <1>0, AttachedSteps DEF OneHandlerPerTask
<1>2. ASSUME NEW h \in Handlers, Enqueue(h) PROVE entry'[t] = entry[t]
  BY <1>0, <1>1, <1>2 DEF Enqueue, Accept, Conflict
<1>3. ASSUME NEW h \in Handlers, NEW u \in Tasks, CancelInQueue(h, u)
      PROVE  entry'[t] = entry[t]
  BY <1>0, <1>1, <1>3 DEF CancelInQueue, CanDelete, DeleteEntry
<1>4. ASSUME NEW w \in Workers, Ack(w) \/ ContextDone(w) \/ Abort(w)
      PROVE  entry'[t] = entry[t]
  <2>1. worker[w].pc # "idle" /\ worker[w].task \in Tasks
    BY <1>0, <1>4 DEF Ack, WorkerAt, ContextDone, Abort, LetGo
  <2>2. CASE worker[w].task = t /\ ~worker[w].detached
    <3>1. w = v
      BY <1>0, <1>1, <2>1, <2>2 DEF OneHandlerPerTask, Attached, Holds
    <3>2. ~Attached(w, t)'
      BY <1>0, <1>4 DEF Ack, ContextDone, Abort, LetGo, IdleWorker, Attached, Holds,
        WorkerState
    <3> QED BY <3>1, <3>2
  <2>3. CASE worker[w].detached
    BY <1>4, <2>3 DEF Ack, ContextDone, Abort, LetGo
  <2>4. CASE worker[w].task # t /\ ~worker[w].detached
    <3>1. worker[w].verdict \in Verdict
      BY <1>0 DEF WorkerState
    <3> QED
      BY <1>0, <1>4, <2>1, <2>4, <3>1 DEF Ack, ContextDone, Abort, Settle, RetryOrArchive,
        Archive, DeleteEntry, Requeue, Verdict
  <2> QED BY <2>2, <2>3, <2>4
<1>5. ASSUME NEW u \in Tasks, RequeueOrphan(u) PROVE entry'[t] = entry[t]
  BY <1>0, <1>1, <1>5 DEF RequeueOrphan, GiveUp, Reenqueue, Accept, Conflict
<1>6. ASSUME NEW u \in Tasks, ReclaimLease(u) PROVE entry'[t] = entry[t]
  BY <1>0, <1>1, <1>6 DEF ReclaimLease, RetryOrArchive, Archive
<1>7. CASE ManualEnqueue
  BY <1>0, <1>1, <1>7 DEF ManualEnqueue, Accept, Conflict
<1> QED BY <1>2, <1>3, <1>4, <1>5, <1>6, <1>7, EntryChanges

LEMMA OneHandlerStep ==
  ASSUME IInv, [Next]_vars
  PROVE  OneHandlerPerTask'
<1>0. /\ OneHandlerPerTask /\ worker \in [Workers -> WorkerState]
      /\ entry \in [Tasks -> Entry]
  BY DEF IInv, TypeOK, WorkersTypeOK, StoreTypeOK
<1>1. ASSUME ~\E w \in Workers, t \in Tasks : Deliver(w, t)
      PROVE  OneHandlerPerTask'
  BY <1>0, <1>1, AttachedSteps, EntryOfAttachedStays DEF OneHandlerPerTask
<1>2. ASSUME NEW w \in Workers, NEW t \in Tasks, Deliver(w, t)
      PROVE  OneHandlerPerTask'
  <2> DEFINE next == [IdleWorker EXCEPT !.pc = "load", !.task = t,
                                        !.retried = entry[t].retried]
  <2>1. next.task = t /\ next.retried = entry[t].retried
    BY DEF IdleWorker
  <2>2. worker' = [worker EXCEPT ![w] = next]
    BY <1>2 DEF Deliver
  <2> HIDE DEF next
  <2>3. \A v \in Workers : ~Attached(v, t)
    BY <1>0, <1>2 DEF Deliver, Dequeue, OneHandlerPerTask
  <2>4. /\ entry'[t].state = "active" /\ entry'[t].retried = entry[t].retried
        /\ \A u \in Tasks \ {t} : entry'[u] = entry[u]
    BY <1>0, <1>2 DEF Deliver, Dequeue, Entry
  <2>5. ASSUME NEW v \in Workers, NEW u \in Tasks, Attached(v, u)'
        PROVE  \/ v = w /\ u = t
               \/ v # w /\ u # t /\ Attached(v, u) /\ worker'[v] = worker[v]
    BY <1>0, <2>1, <2>2, <2>3, <2>5 DEF Attached, Holds
  <2> QED BY <1>0, <2>1, <2>2, <2>4, <2>5 DEF OneHandlerPerTask
<1> QED BY <1>1, <1>2

LEMMA FinalStep ==
  ASSUME IInv, [Next]_vars
  PROVE  FinalIsNoStart'
<1>0. TypeOK /\ WorkersTypeOK /\ FinalIsNoStart
  BY DEF IInv, TypeOK
<1> SUFFICES ASSUME worker' # worker, NEW v \in Workers, worker'[v].pc \in FinalPC
             PROVE  worker'[v].rec.status \in FinalStatus
  BY <1>0 DEF FinalIsNoStart, FinalPC, FinalStatus
<1>1. ASSUME NEW w \in Workers,
             WorkerStep(w) \/ ContextDone(w) \/ LoseLease(w) \/ Abort(w)
      PROVE  worker'[v].rec.status \in FinalStatus
  <2>1. PICK s : WorkerBecomes(w, s)
    BY <1>0, <1>1, WorkerStepEffect
  <2>2. worker'[v] = IF v = w THEN s ELSE worker[v]
    BY <1>0, <2>1 DEF WorkerBecomes, WorkersTypeOK
  <2> QED BY <1>0, <2>1, <2>2 DEF WorkerBecomes, FinalIsNoStart, FinalPC, FinalStatus
<1>2. ASSUME NEW u \in Tasks, CancelContext(u)
      PROVE  worker'[v].rec.status \in FinalStatus
  BY <1>0, <1>2, CancelContextEffect DEF FinalIsNoStart, FinalPC, FinalStatus
<1>3. ASSUME NEW w \in Workers, NEW t \in Tasks, Deliver(w, t)
      PROVE  worker'[v].rec.status \in FinalStatus
  BY <1>0, <1>3 DEF Deliver, IdleWorker, FinalIsNoStart, FinalPC, FinalStatus,
    WorkersTypeOK
<1>4. CASE Restart
  BY <1>4 DEF Restart, IdleWorker, FinalPC
<1> QED BY <1>1, <1>2, <1>3, <1>4, WorkerChanges

-----------------------------------------------------------------------------
(***************************************************************************)
(* Settled tasks: everybody works on others.                               *)
(***************************************************************************)
\* Nobody writes the row of a task that is quiet, but CreateTask its first one.
LEMMA QuietRowStays ==
  ASSUME TypeOK, [Next]_vars, NEW t \in Tasks, Stored(t), Quiet(t)
  PROVE  row'[t] = row[t]
<1>0. /\ row \in [Tasks -> Row]
      /\ \A w \in Workers : worker[w].pc # "idle" => worker[w].task # t
  BY DEF TypeOK, StoreTypeOK, Quiet, Holds
<1>up. ASSUME NEW u \in Tasks \cup {NoTask}, u # t, NEW rec, UpdateTask(u, rec) \/ CreateTask(u, rec)
       PROVE  row'[t] = row[t]
  BY <1>0, <1>up DEF UpdateTask, CreateTask
<1>1. ASSUME NEW h \in Handlers, Create(h) \/ MarkQueued(h) PROVE row'[t] = row[t]
  <2>1. handler[h].task # t /\ handler[h].task \in Tasks \cup {NoTask}
    BY DEF Quiet, TypeOK, HandlersTypeOK, HandlerState, MaybeTask
  <2> QED BY <1>1, <1>up, <2>1 DEF Create, MarkQueued, TryUpdateTask
<1>2. ASSUME NEW h \in Handlers, NEW u \in Tasks, CancelInStore(h, u) PROVE row'[t] = row[t]
  BY <1>2, <1>up DEF CancelInStore, OldestListed, TryUpdateTask, Quiet
<1>3. ASSUME NEW w \in Workers, Start(w) \/ CheckEnabled(w) \/ WriteFinal(w)
      PROVE  row'[t] = row[t]
  <2>1. worker[w].task # t /\ worker[w].task \in Tasks \cup {NoTask}
    BY <1>0, <1>3 DEF Start, CheckEnabled, WriteFinal, WorkerAt, TypeOK, WorkersTypeOK,
      WorkerState, MaybeTask
  <2> QED BY <1>3, <1>up, <2>1 DEF Start, CheckEnabled, WriteFinal, TryUpdateTask
<1>4. ASSUME NEW u \in Tasks, RequeueOrphan(u) \/ MarkOrphan(u) PROVE row'[t] = row[t]
  <2>1. u # t
    BY <1>4 DEF RequeueOrphan, MarkOrphan, RecoveryAt, OldestListed, Quiet
  <2> QED BY <1>4, <1>up, <2>1 DEF RequeueOrphan, GiveUp, Reenqueue, MarkOrphan
<1>5. ASSUME ManualMark PROVE row'[t] = row[t]
  <2>1. manual.task # t /\ manual.task \in Tasks \cup {NoTask}
    BY DEF Quiet, TypeOK, ManualTypeOK, MaybeTask
  <2> QED BY <1>5, <1>up, <2>1 DEF ManualMark, TryUpdateTask
<1> QED BY <1>1, <1>2, <1>3, <1>4, <1>5, RowChanges

\* Nobody touches its entry either, once asynq is done with it.
LEMMA QuietEntryStays ==
  ASSUME TypeOK, [Next]_vars, NEW t \in Tasks, Quiet(t), entry[t].state \in {"none", "archived"}
  PROVE  entry'[t] = entry[t]
<1>0. entry \in [Tasks -> Entry]
  BY DEF TypeOK, StoreTypeOK
<1>1. ASSUME NEW h \in Handlers, Enqueue(h) PROVE entry'[t] = entry[t]
  BY <1>0, <1>1 DEF Enqueue, Accept, Conflict, Quiet
<1>2. ASSUME NEW h \in Handlers, NEW u \in Tasks, CancelInQueue(h, u) PROVE entry'[t] = entry[t]
  BY <1>0, <1>2 DEF CancelInQueue, OldestListed, DeleteEntry, Quiet
<1>3. ASSUME NEW w \in Workers, Ack(w) \/ ContextDone(w) \/ Abort(w) PROVE entry'[t] = entry[t]
  <2>1. worker[w].task # t /\ worker[w].verdict \in Verdict
    BY <1>3 DEF Ack, WorkerAt, ContextDone, Abort, LetGo, Quiet, Holds, TypeOK,
      WorkersTypeOK, WorkerState
  <2> QED
    BY <1>0, <1>3, <2>1 DEF Ack, ContextDone, Abort, Settle, RetryOrArchive, Archive,
      DeleteEntry, Requeue, Verdict
<1>4. ASSUME NEW w \in Workers, NEW u \in Tasks, Deliver(w, u) PROVE entry'[t] = entry[t]
  BY <1>0, <1>4 DEF Deliver, Dequeue
<1>5. ASSUME NEW u \in Tasks, RequeueOrphan(u) PROVE entry'[t] = entry[t]
  BY <1>0, <1>5 DEF RequeueOrphan, RecoveryAt, OldestListed, GiveUp, Reenqueue, Accept,
    Conflict, Quiet
<1>6. ASSUME NEW u \in Tasks, ReclaimLease(u) PROVE entry'[t] = entry[t]
  BY <1>0, <1>6 DEF ReclaimLease, RetryOrArchive, Archive
<1>7. ASSUME ManualEnqueue PROVE entry'[t] = entry[t]
  BY <1>0, <1>7 DEF ManualEnqueue, Accept, Conflict, Quiet
<1> QED BY <1>1, <1>2, <1>3, <1>4, <1>5, <1>6, <1>7, EntryChanges

\* And nobody takes it up, unless RetryTask does.
LEMMA QuietStays ==
  ASSUME IInv, [Next]_vars, NEW t \in Tasks, Settled(t), manual'.task # t
  PROVE  Quiet(t)'
<1>0. /\ TypeOK /\ Quiet(t) /\ Stored(t) /\ row[t].status \notin {"pending", "queued", "running"}
      /\ row \in [Tasks -> Row] /\ NoTask # t
      /\ handler \in [Handlers -> HandlerState] /\ worker \in [Workers -> WorkerState]
  BY LifecycleAssumption
    DEF IInv, TypeOK, StoreTypeOK, HandlersTypeOK, WorkersTypeOK, Settled, Stored, Terminal
<1>1. t \notin Listed(recovery'.todo)
  BY <1>0, RecoveryListSteps DEF Quiet, Orphans, PendingTasks
<1>2. \A w \in Workers : ~Holds(w, t)'
  <2> SUFFICES ASSUME worker' # worker PROVE \A w \in Workers : ~Holds(w, t)'
    BY <1>0 DEF Quiet, Holds
  <2>1. ASSUME NEW w \in Workers, WorkerStep(w) \/ ContextDone(w) \/ LoseLease(w) \/ Abort(w)
        PROVE  \A v \in Workers : ~Holds(v, t)'
    <3>1. PICK s : WorkerBecomes(w, s)
      BY <1>0, <2>1, WorkerStepEffect
    <3> QED BY <1>0, <3>1 DEF WorkerBecomes, Quiet, Holds
  <2>2. ASSUME NEW w \in Workers, NEW u \in Tasks, Deliver(w, u)
        PROVE  \A v \in Workers : ~Holds(v, t)'
    <3>1. u # t
      BY <1>0, <2>2 DEF Deliver, Dequeue, Settled
    <3> QED BY <1>0, <2>2, <3>1 DEF Deliver, IdleWorker, Quiet, Holds
  <2>3. ASSUME NEW u \in Tasks, CancelContext(u) PROVE \A v \in Workers : ~Holds(v, t)'
    BY <1>0, <2>3, CancelContextEffect DEF TypeOK, Quiet, Holds
  <2>4. ASSUME Restart PROVE \A v \in Workers : ~Holds(v, t)'
    BY <2>4 DEF Restart, IdleWorker, Holds
  <2> QED BY <2>1, <2>2, <2>3, <2>4, WorkerChanges
<1> DEFINE Apart(s) == s.task # t /\ t \notin Listed(s.old)
<1>idle. Apart(IdleHandler)
  BY <1>0 DEF IdleHandler, Listed, NoRows, NewRow
<1>3. ASSUME NEW h \in Handlers PROVE Apart(handler'[h])
  <2>0. Apart(handler[h]) /\ handler[h] \in HandlerState
    BY <1>0 DEF Quiet
  <2>1. CASE handler'[h] = handler[h] \/ handler'[h] = IdleHandler
    BY <1>idle, <2>0, <2>1
  <2>2. ASSUME NEW g \in Handlers, NEW u \in Tasks, Receive(g, u) PROVE Apart(handler'[h])
    <3> DEFINE next == [handler[g] EXCEPT !.pc = "list", !.task = u]
    <3>1. next.task = u /\ next.old = handler[g].old
      BY <1>0 DEF HandlerState
    <3>2. handler' = handler \/ (u # t /\ handler' = [handler EXCEPT ![g] = next])
      BY <1>0, <2>2 DEF Receive
    <3> HIDE DEF next
    <3> QED BY <1>0, <2>0, <3>1, <3>2 DEF Quiet
  <2>3. ASSUME NEW g \in Handlers, ListActive(g) PROVE Apart(handler'[h])
    <3>1. PICK S \in SUBSET ActivePRTasks :
            handler' = [handler EXCEPT ![g].pc = "stamp", ![g].old = RowsOf(S)]
      BY <2>3 DEF ListActive
    <3>2. Listed(RowsOf(S)) = S /\ t \notin S
      BY <1>0, RowsOfType, QueriesListStoredRows DEF ActivePRTasks
    <3> QED BY <1>0, <2>0, <3>1, <3>2 DEF HandlerState
  <2>4. ASSUME NEW g \in Handlers, NEW pc,
               handler' = [handler EXCEPT ![g] = [@ EXCEPT !.pc = pc]]
        PROVE  Apart(handler'[h])
    BY <1>0, <2>0, <2>4 DEF HandlerState
  <2>5. ASSUME NEW g \in Handlers, Stamp(g) \/ Create(g) \/ Enqueue(g) \/ MarkQueued(g)
        PROVE  Apart(handler'[h])
    <3>1. ASSUME Stamp(g) PROVE Apart(handler'[h])
      <4> DEFINE next == [handler[g] EXCEPT !.pc = "create", !.stamp = clock + 1]
      <4>1. next.task = handler[g].task /\ next.old = handler[g].old
        BY <1>0 DEF HandlerState
      <4>2. handler' = [handler EXCEPT ![g] = next]
        BY <1>0, <3>1 DEF Stamp
      <4> HIDE DEF next
      <4> QED BY <1>0, <2>0, <4>1, <4>2 DEF Quiet
    <3>2. ASSUME NEW pc, HandlerGo(g, pc) PROVE Apart(handler'[h])
      BY <1>0, <2>4, <3>2 DEF HandlerGo
    <3>3. ASSUME handler' = [handler EXCEPT ![g] = IdleHandler] PROVE Apart(handler'[h])
      BY <1>0, <1>idle, <2>0, <3>3
    <3>4. ASSUME GoCancel(g) PROVE Apart(handler'[h])
      <4>1. \/ handler' = [handler EXCEPT ![g] = IdleHandler]
            \/ HandlerGo(g, "cancel")
        BY <1>0, <3>4 DEF GoCancel, HandlerGo
      <4> QED BY <3>2, <3>3, <4>1
    <3> HIDE DEF Apart
    <3> QED BY <2>5, <3>1, <3>2, <3>3, <3>4 DEF Create, Enqueue, MarkQueued
  <2>6. ASSUME NEW g \in Handlers, NEW u \in Tasks, DropListed(g, u) PROVE Apart(handler'[h])
    <3> DEFINE old == [handler[g].old EXCEPT ![u] = NewRow]
    <3>1. t \notin Listed(old)
      BY <1>0 DEF Listed, NewRow, HandlerState, Quiet
    <3>2. handler' = [handler EXCEPT ![g] = IF Listed(old) = {} THEN IdleHandler
                                  ELSE [handler[g] EXCEPT !.pc = "cancel", !.old = old]]
      BY <2>6 DEF DropListed
    <3> HIDE DEF old
    <3> QED BY <1>0, <1>idle, <2>0, <3>1, <3>2 DEF HandlerState
  <2>7. ASSUME NEW g \in Handlers, NEW u \in Tasks, CancelInQueue(g, u) \/ CancelInStore(g, u)
        PROVE  Apart(handler'[h])
    BY <2>4, <2>6, <2>7 DEF CancelInQueue, CancelInStore, HandlerGo
  <2>8. ASSUME Restart PROVE Apart(handler'[h])
    BY <1>idle, <2>8 DEF Restart
  <2> HIDE DEF Apart
  <2> QED BY <2>1, <2>2, <2>3, <2>5, <2>7, <2>8, HandlerChanges DEF HandlerStep
<1> QED BY <1>1, <1>2, <1>3 DEF Quiet

-----------------------------------------------------------------------------
(***************************************************************************)
(* The theorems.                                                           *)
(***************************************************************************)
LEMMA InitIInv == Init => IInv
<1> SUFFICES ASSUME Init PROVE IInv
  OBVIOUS
<1>1. TypeOK
  BY InitTypes
<1>2. RowBeforeEntry /\ RecoveredOnce /\ RecoveredIsNotPending
  BY DEF Init, RowBeforeEntry, RecoveredOnce, RecoveredIsNotPending, NoEntry
<1>3. OneHandlerPerTask /\ FinalIsNoStart
  BY DEF Init, OneHandlerPerTask, FinalIsNoStart, IdleWorker, Attached, Holds
<1>4. EnqueuersHaveRow
  BY DEF Init, EnqueuersHaveRow, IdleHandler, IdleRecovery, IdleManual, Listed, NoRows,
    NewRow
<1> QED BY <1>1, <1>2, <1>3, <1>4 DEF IInv

\* IInv is inductive: no step of any actor, and no failure, leaves it.
THEOREM IInvInvariant == Spec => []IInv
<1>1. IInv /\ [Next]_vars => IInv'
  <2> SUFFICES ASSUME IInv, [Next]_vars PROVE IInv'
    OBVIOUS
  <2>1. TypeOK'
    BY TypeStep DEF IInv
  <2> QED
    BY <2>1, RowBeforeEntryStep, OneHandlerStep, RecoveredStep, EnqueuersStep, FinalStep
      DEF IInv
<1> QED BY InitIInv, <1>1, PTL DEF Spec

\* Whatever fails, and whenever the server dies: the task asynq delivers has a
\* row that findRecord finds.
THEOREM EntriesHaveRows == Spec => []RowBeforeEntry
<1>1. IInv => RowBeforeEntry
  BY DEF IInv
<1> QED BY IInvInvariant, <1>1, PTL

\* For any number of deliveries, handlers, workers and restarts, asynq never
\* waits for two handlers of one task.
THEOREM HandlersExclusive == Spec => []OneHandlerPerTask
<1>1. IInv => OneHandlerPerTask
  BY DEF IInv
<1> QED BY IInvInvariant, <1>1, PTL

\* requeue's count of recovery attempts never exceeds one, so that with
\* max_retry above one its failed branch is never taken.
THEOREM RecoveryNeverGivesUp == Spec => []RecoveredOnce
<1>1. IInv => RecoveredOnce
  BY DEF IInv
<1> QED BY IInvInvariant, <1>1, PTL

\* Whatever fails and whoever else is at work: a settled task stays as it is
\* until a user retries it, however often Gitea delivers its event.
THEOREM SettledStays == Spec => SettledUnlessRetried
<1>1. IInv /\ [Next]_vars => [\A t \in Tasks : Settled(t) => Settled(t)' \/ manual'.task = t]_vars
  <2> SUFFICES ASSUME IInv, [Next]_vars, NEW t \in Tasks, Settled(t), manual'.task # t
               PROVE  Settled(t)'
    OBVIOUS
  <2>1. TypeOK /\ Stored(t) /\ Quiet(t)
    BY DEF IInv, Settled, Stored, Terminal
  <2>2. row'[t] = row[t] /\ entry'[t] = entry[t]
    BY <2>1, QuietRowStays, QuietEntryStays DEF Settled
  <2> QED BY <2>2, QuietStays DEF Settled
<1> QED BY IInvInvariant, <1>1, PTL DEF Spec, SettledUnlessRetried

=============================================================================
