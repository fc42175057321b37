----------------------- MODULE TaskCancellation_proofs -----------------------
(***************************************************************************)
(* Which tasks are cancelled, for any deliveries, handlers, workers and    *)
(* crashes: while the server is not being shut down and keeps its leases,  *)
(* only reviews that a newer one replaces.  And from that which retries    *)
(* asynq has: those the rows promise, but for replaced reviews.            *)
(***************************************************************************)
EXTENDS TaskLifecycle_proofs

USE StoreFaultsAssumption, AsynqAssumption, LifecycleAssumption

\* No lease is lost in a step.  As long as no shutdown begins either, a handler's
\* context is cancelled by CancelProcessing alone.
KeepsLeases == \A w \in Workers : ~LoseLease(w)

Undisturbed == phase' = "up" /\ [KeepsLeases]_vars

-----------------------------------------------------------------------------
(***************************************************************************)
(* The parts of CancelIInv, for given rows rw and a given time now.        *)
(***************************************************************************)
In(rw, t) == rw[t].status # "absent"
Copy(rw, t, rec) == In(rw, t) /\ rec.created = rw[t].created
Newer(rw, t) == \E u \in Tasks : In(rw, u) /\ rw[u].created > rw[t].created

RowsOK(rw, now) ==
  \A t \in Tasks : /\ rw[t].created <= now
                   /\ rw[t].status = "cancelled" => Newer(rw, t)

ListOK(rw, rows) == \A t \in Listed(rows) : Copy(rw, t, rows[t])

HasList == {"create", "enqueue", "mark", "cancel", "cancelWrite"}

HandlerOK(rw, now, s) ==
  /\ ListOK(rw, s.old)
  /\ s.pc \in HasList => \A t \in Listed(s.old) : rw[t].created < s.stamp
  /\ s.pc \in HasList \ {"create"} => In(rw, s.task) /\ rw[s.task].created = s.stamp
  /\ s.pc = "create" => s.stamp <= now

HasRecord == WorkerPC \ {"idle", "load", "ack"}

WorkerOK(rw, s) ==
  /\ s.pc # "idle" /\ s.cancelled => In(rw, s.task) /\ Newer(rw, s.task)
  /\ s.pc \in HasRecord => /\ Copy(rw, s.task, s.rec)
                           /\ s.rec.status = "cancelled" => Newer(rw, s.task)

ManualOK(rw, s) == s.pc # "idle" => Copy(rw, s.task, s.rec)

\* CancelIInv says that all actors, and all rows, are in order.
LEMMA Parts ==
  ASSUME CancelIInv
  PROVE  /\ TypeOK /\ phase = "up" /\ RowsOK(row, clock)
         /\ \A h \in Handlers : HandlerOK(row, clock, handler[h])
         /\ \A w \in Workers : WorkerOK(row, worker[w])
         /\ ListOK(row, recovery.todo)
         /\ ManualOK(row, manual)
<1>1. RowsOK(row, clock)
  BY DEF CancelIInv, CancelledIsSuperseded, CreatedInThePast, RowsOK, Superseded, Newer, In,
    Stored
<1>2. \A h \in Handlers : HandlerOK(row, clock, handler[h])
  BY DEF CancelIInv, CopiesAreOfStoredRows, ListedAreOlder, CopyOf, HandlerOK, ListOK, Copy,
    In, Stored, HasList
<1>3. \A w \in Workers : WorkerOK(row, worker[w])
  BY DEF CancelIInv, CopiesAreOfStoredRows, CancellationsAreForNewer, CopyOf, WorkerOK, Copy,
    In, Stored, Superseded, Newer, HasRecord
<1>4. ListOK(row, recovery.todo) /\ ManualOK(row, manual)
  BY DEF CancelIInv, CopiesAreOfStoredRows, CopyOf, ListOK, ManualOK, Copy, In, Stored
<1> QED BY <1>1, <1>2, <1>3, <1>4 DEF CancelIInv

LEMMA PartsNext ==
  ASSUME TypeOK', phase' = "up", RowsOK(row', clock'),
         \A h \in Handlers : HandlerOK(row', clock', handler'[h]),
         \A w \in Workers : WorkerOK(row', worker'[w]),
         ListOK(row', recovery'.todo),
         ManualOK(row', manual')
  PROVE  CancelIInv'
<1>1. (CancelledIsSuperseded /\ CreatedInThePast)'
  BY DEF CancelledIsSuperseded, CreatedInThePast, RowsOK, Superseded, Newer, In, Stored
<1>2. ListedAreOlder'
  BY DEF ListedAreOlder, HandlerOK, In, Stored, HasList
<1>3. CancellationsAreForNewer'
  <2>1. \A w \in Workers : worker'[w].pc \in WorkerPC
    BY DEF TypeOK, WorkersTypeOK, WorkerState
  <2> QED
    BY <2>1 DEF CancellationsAreForNewer, WorkerOK, In, Stored, Superseded, Newer, HasRecord
<1>4. CopiesAreOfStoredRows'
  <2>1. \A w \in Workers : worker'[w].pc \in WorkerPC
    BY DEF TypeOK, WorkersTypeOK, WorkerState
  <2> QED
    BY <2>1 DEF CopiesAreOfStoredRows, CopyOf, HandlerOK, WorkerOK, ListOK, ManualOK, Copy,
      In, Stored, HasRecord
<1> QED BY <1>1, <1>2, <1>3, <1>4 DEF CancelIInv

-----------------------------------------------------------------------------
(***************************************************************************)
(* Rows are added and rewritten, never removed, and keep their created_at. *)
(***************************************************************************)
Grow(rw, rw2) ==
  \A t \in Tasks : In(rw, t) => In(rw2, t) /\ rw2[t].created = rw[t].created

\* What was in order stays in order when rows are added and time goes on.
LEMMA GrowKeeps ==
  ASSUME NEW rw \in [Tasks -> Row], NEW rw2 \in [Tasks -> Row], Grow(rw, rw2)
  PROVE  /\ \A t \in Tasks : In(rw, t) /\ Newer(rw, t) => Newer(rw2, t)
         /\ \A t \in Tasks : \A rec : Copy(rw, t, rec) => Copy(rw2, t, rec)
         /\ \A rows : ListOK(rw, rows) => ListOK(rw2, rows)
<1>1. \A t \in Tasks : In(rw, t) /\ Newer(rw, t) => Newer(rw2, t)
  BY DEF Grow, Newer
<1>2. \A t \in Tasks : \A rec : Copy(rw, t, rec) => Copy(rw2, t, rec)
  BY DEF Grow, Copy
<1>3. \A rows : ListOK(rw, rows) => ListOK(rw2, rows)
  BY <1>2 DEF ListOK, Listed
<1> QED BY <1>1, <1>2, <1>3

LEMMA HandlerOKStays ==
  ASSUME NEW rw \in [Tasks -> Row], NEW rw2 \in [Tasks -> Row], Grow(rw, rw2),
         NEW now \in Nat, NEW later \in Nat, now <= later,
         NEW s \in HandlerState, s.pc # "idle" => s.task \in Tasks, HandlerOK(rw, now, s)
  PROVE  HandlerOK(rw2, later, s)
<1>1. ListOK(rw2, s.old)
  BY GrowKeeps DEF HandlerOK
<1>2. \A t \in Listed(s.old) : t \in Tasks /\ rw2[t].created = rw[t].created
  BY DEF HandlerOK, ListOK, Listed, Copy, Grow
<1>3. s.pc \in HasList => \A t \in Listed(s.old) : rw2[t].created < s.stamp
  BY <1>2 DEF HandlerOK
<1>4. s.pc \in HasList \ {"create"} => In(rw2, s.task) /\ rw2[s.task].created = s.stamp
  BY DEF HandlerOK, Grow, HasList
<1>5. s.pc = "create" => s.stamp <= later
  BY DEF HandlerOK, HandlerState
<1> QED BY <1>1, <1>3, <1>4, <1>5 DEF HandlerOK

LEMMA WorkerOKStays ==
  ASSUME NEW rw \in [Tasks -> Row], NEW rw2 \in [Tasks -> Row], Grow(rw, rw2),
         NEW s \in WorkerState, s.pc # "idle" => s.task \in Tasks,
         WorkerOK(rw, s)
  PROVE  WorkerOK(rw2, s)
BY GrowKeeps DEF WorkerOK, Copy, HasRecord, Grow

\* A write of a copy, cancelled only when there is a newer row.
LEMMA WriteKeeps ==
  ASSUME NEW rw \in [Tasks -> Row], NEW now \in Nat, RowsOK(rw, now),
         NEW t \in Tasks, NEW rec, rec.status # "absent", Copy(rw, t, rec),
         rec.status = "cancelled" => Newer(rw, t),
         NEW rw2, rw2 = [rw EXCEPT ![t] = rec]
  PROVE  Grow(rw, rw2) /\ RowsOK(rw2, now)
<1>1. \A u \in Tasks : rw2[u].created = rw[u].created /\ (In(rw, u) => In(rw2, u))
  BY DEF Copy, In
<1>2. \A u \in Tasks : Newer(rw, u) => Newer(rw2, u)
  BY <1>1 DEF Newer
<1>3. \A u \in Tasks : rw2[u].status = "cancelled" => Newer(rw, u)
  BY DEF RowsOK
<1> QED BY <1>1, <1>2, <1>3 DEF Grow, RowsOK

\* The insertion of a row.
LEMMA InsertKeeps ==
  ASSUME NEW rw \in [Tasks -> Row], NEW now \in Nat, RowsOK(rw, now),
         NEW t \in Tasks, ~In(rw, t), NEW n \in Nat, n <= now,
         NEW rw2, rw2 = [rw EXCEPT ![t] = PendingRow(n)]
  PROVE  Grow(rw, rw2) /\ RowsOK(rw2, now)
<1>1. /\ \A u \in Tasks \ {t} : rw2[u] = rw[u]
      /\ rw2[t].status = "pending" /\ rw2[t].created = n
  BY DEF PendingRow
<1>2. Grow(rw, rw2)
  BY <1>1 DEF Grow, In
<1>3. ASSUME NEW u \in Tasks, rw2[u].status = "cancelled" PROVE Newer(rw2, u)
  <2>1. rw[u].status = "cancelled" /\ u # t
    BY <1>1, <1>3
  <2>2. PICK v \in Tasks : In(rw, v) /\ rw[v].created > rw[u].created
    BY <2>1 DEF RowsOK, Newer
  <2> QED BY <1>1, <2>1, <2>2 DEF Newer, In
<1> QED BY <1>1, <1>2, <1>3 DEF RowsOK

-----------------------------------------------------------------------------
(***************************************************************************)
(* Every step keeps the parts.                                             *)
(***************************************************************************)
LEMMA NoDisturbance ==
  ASSUME Undisturbed, phase = "up", [Next]_vars, worker' # worker
  PROVE  \A w \in Workers : ~LoseLease(w) /\ ~Abort(w)
BY DEF Undisturbed, KeepsLeases, vars, Abort

\* Only Stamp moves the clock.
LEMMA ClockSteps ==
  ASSUME TypeOK, [Next]_vars
  PROVE  /\ clock \in Nat /\ clock' \in Nat /\ clock <= clock'
         /\ clock' # clock => \E h \in Handlers : Stamp(h)
<1>1. clock \in Nat
  BY DEF TypeOK, HandlersTypeOK
<1>2. ASSUME clock' # clock PROVE \E h \in Handlers : Stamp(h)
  BY <1>2, ZenonT(30) DEF Next, vars, handlerVars, HandlerStep, Receive, ListActive, Create, Enqueue,
    MarkQueued, CancelInQueue, CancelInStore, WorkerStep, Deliver, Load, Start,
    CheckEnabled, Execute, CheckStale, Publish, WriteFinal, Ack, ContextDone, LoseLease,
    Abort, ReclaimLease, RecoveryStep, Scan, RequeueOrphan, MarkOrphan, ManualStep,
    ManualRead, ManualEnqueue, ManualMark, Crash, Exit, Stop, Restart
<1>3. CASE clock' = clock
  BY <1>1, <1>3
<1>4. ASSUME NEW h \in Handlers, Stamp(h) PROVE clock' \in Nat /\ clock <= clock'
  BY <1>1, <1>4 DEF Stamp
<1> QED BY <1>1, <1>2, <1>3, <1>4

\* Whoever writes a row writes a copy of it, or the first one.
LEMMA RowsStep ==
  ASSUME IInv, CancelIInv, [Next]_vars
  PROVE  Grow(row, row') /\ RowsOK(row', clock')
<1>0. /\ TypeOK /\ row \in [Tasks -> Row] /\ clock \in Nat /\ RowsOK(row, clock)
      /\ \A h \in Handlers : handler[h] \in HandlerState /\ HandlerOK(row, clock, handler[h])
      /\ \A h \in Handlers : handler[h].pc # "idle" => handler[h].task \in Tasks
      /\ \A w \in Workers : worker[w] \in WorkerState /\ WorkerOK(row, worker[w])
      /\ \A w \in Workers : worker[w].pc # "idle" => worker[w].task \in Tasks
      /\ recovery.todo \in [Tasks -> Row] /\ ListOK(row, recovery.todo)
      /\ manual.rec \in Row /\ (manual.pc # "idle" => manual.task \in Tasks)
      /\ ManualOK(row, manual)
  BY Parts DEF TypeOK, StoreTypeOK, HandlersTypeOK, WorkersTypeOK, RecoveryTypeOK,
    ManualTypeOK
<1> DEFINE Good == Grow(row, row') /\ RowsOK(row', clock)
<1>same. ASSUME row' = row PROVE Good
  BY <1>0, <1>same DEF Grow
<1>write. ASSUME NEW t \in Tasks, NEW rec, UpdateTask(t, rec), rec.status # "absent",
                 Copy(row, t, rec), rec.status = "cancelled" => Newer(row, t)
          PROVE  Good
  BY <1>0, <1>write, WriteKeeps DEF UpdateTask
<1>insert. ASSUME NEW t \in Tasks, NEW n \in Nat, CreateTask(t, PendingRow(n)), n <= clock
           PROVE  Good
  <2>1. ~In(row, t)
    BY <1>insert DEF CreateTask, Stored, In
  <2> QED BY <1>0, <1>insert, <2>1, InsertKeeps DEF CreateTask
<1> HIDE DEF Good
<1>1. ASSUME NEW h \in Handlers, Create(h) PROVE Good
  <2>1. CASE CreateTask(handler[h].task, PendingRow(handler[h].stamp))
    <3>1. /\ handler[h].task \in Tasks /\ handler[h].stamp \in Nat
          /\ handler[h].stamp <= clock
      BY <1>0, <1>1 DEF Create, HandlerAt, HandlerOK, HandlerState
    <3> QED BY <1>insert, <2>1, <3>1
  <2> QED BY <1>1, <1>same, <2>1 DEF Create
<1>2. ASSUME NEW h \in Handlers, MarkQueued(h) PROVE Good
  <2> DEFINE rec == QueuedRow(PendingRow(handler[h].stamp))
  <2>1. rec.status = "queued" /\ rec.created = handler[h].stamp
    BY DEF QueuedRow, PendingRow
  <2>2. handler[h].task \in Tasks /\ Copy(row, handler[h].task, rec)
    BY <1>0, <1>2, <2>1 DEF MarkQueued, HandlerAt, HandlerOK, HasList, Copy
  <2> HIDE DEF rec
  <2>3. UpdateTask(handler[h].task, rec) \/ row' = row
    BY <1>2 DEF MarkQueued, TryUpdateTask, rec
  <2> QED BY <1>same, <1>write, <2>1, <2>2, <2>3
<1>3. ASSUME NEW h \in Handlers, NEW t \in Tasks, CancelInStore(h, t) PROVE Good
  <2> DEFINE rec == CancelledRow(handler[h].old[t])
  <2>1. /\ t \in Listed(handler[h].old) /\ handler[h].pc = "cancelWrite"
        /\ handler[h].old[t] \in Row
    BY <1>0, <1>3 DEF CancelInStore, HandlerAt, OldestListed, HandlerState
  <2>2. rec.status = "cancelled" /\ rec.created = handler[h].old[t].created
    BY <2>1 DEF CancelledRow, Row
  <2>3. Copy(row, t, rec)
    BY <1>0, <2>1, <2>2 DEF HandlerOK, ListOK, Copy
  <2>4. Newer(row, t)
    BY <1>0, <2>1 DEF HandlerOK, HasList, Newer
  <2> HIDE DEF rec
  <2>5. UpdateTask(t, rec) \/ row' = row
    BY <1>3 DEF CancelInStore, TryUpdateTask, rec
  <2> QED BY <1>same, <1>write, <2>2, <2>3, <2>4, <2>5
<1>status. ASSUME NEW w \in Workers, NEW x \in Status
           PROVE  /\ WithStatus(w, x).status = x
                  /\ WithStatus(w, x).created = worker[w].rec.created
  BY <1>0 DEF WithStatus, WorkerState, Row
<1>4. ASSUME NEW w \in Workers, Start(w) \/ CheckEnabled(w) PROVE Good
  <2>1. PICK x \in {"running", "succeeded"} :
          UpdateTask(worker[w].task, WithStatus(w, x)) \/ row' = row
    BY <1>4 DEF Start, CheckEnabled
  <2>2. worker[w].task \in Tasks /\ Copy(row, worker[w].task, worker[w].rec)
    BY <1>0, <1>4 DEF Start, CheckEnabled, WorkerAt, WorkerOK, HasRecord, WorkerPC
  <2>3. x \in Status
    BY DEF Status
  <2>4. WithStatus(w, x).status = x /\ Copy(row, worker[w].task, WithStatus(w, x))
    BY <1>status, <2>2, <2>3 DEF Copy
  <2> QED BY <1>same, <1>write, <2>1, <2>2, <2>4
<1>5. ASSUME NEW w \in Workers, WriteFinal(w) PROVE Good
  <2>1. /\ worker[w].task \in Tasks /\ Copy(row, worker[w].task, worker[w].rec)
        /\ worker[w].rec.status = "cancelled" => Newer(row, worker[w].task)
    BY <1>0, <1>5 DEF WriteFinal, WorkerAt, WorkerOK, HasRecord, WorkerPC
  <2>2. UpdateTask(worker[w].task, worker[w].rec) \/ row' = row
    BY <1>5 DEF WriteFinal, TryUpdateTask
  <2>3. worker[w].rec.status # "absent"
    BY <1>5 DEF WriteFinal, WorkerAt, IInv, FinalIsNoStart
  <2> QED BY <1>same, <1>write, <2>1, <2>2, <2>3
<1>6. ASSUME NEW t \in Tasks, RequeueOrphan(t) \/ MarkOrphan(t) PROVE Good
  <2>1. Copy(row, t, recovery.todo[t]) /\ recovery.todo[t] \in Row
    BY <1>0, <1>6 DEF RequeueOrphan, MarkOrphan, RecoveryAt, OldestListed, ListOK
  <2>2. PICK rec \in {[recovery.todo[t] EXCEPT !.status = "failed"], QueuedRow(recovery.todo[t])} :
          UpdateTask(t, rec) \/ row' = row
    BY <1>6 DEF RequeueOrphan, GiveUp, Reenqueue, MarkOrphan
  <2>3. rec.status \in {"failed", "queued"} /\ Copy(row, t, rec)
    BY <2>1 DEF QueuedRow, Copy, Row
  <2> QED BY <1>same, <1>write, <2>2, <2>3
<1>7. ASSUME ManualMark PROVE Good
  <2> DEFINE rec == QueuedRow(manual.rec)
  <2>1. manual.task \in Tasks /\ Copy(row, manual.task, manual.rec)
    BY <1>0, <1>7 DEF ManualMark, ManualOK
  <2>2. rec.status = "queued" /\ Copy(row, manual.task, rec)
    BY <1>0, <2>1 DEF QueuedRow, Copy, Row
  <2> HIDE DEF rec
  <2>3. UpdateTask(manual.task, rec) \/ row' = row
    BY <1>7 DEF ManualMark, TryUpdateTask, rec
  <2> QED BY <1>same, <1>write, <2>1, <2>2, <2>3
<1>8. Good
  BY <1>same, <1>1, <1>2, <1>3, <1>4, <1>5, <1>6, <1>7, RowChanges
<1>9. \A t \in Tasks : row'[t].created \in Nat
  BY <1>0, TypeStep DEF TypeOK, StoreTypeOK, Row
<1> QED BY <1>0, <1>8, <1>9, ClockSteps DEF RowsOK, Good

\* A request that goes on past its CreateTask, or is done with a listed row.
LEMMA HandlerOKMoves ==
  ASSUME NEW rw \in [Tasks -> Row], NEW now \in Nat, NEW s \in HandlerState,
         HandlerOK(rw, now, s), s.pc \in HasList \ {"create"},
         NEW pc \in HasList \ {"create"}
  PROVE  /\ HandlerOK(rw, now, [s EXCEPT !.pc = pc])
         /\ \A t \in Tasks :
              HandlerOK(rw, now, [s EXCEPT !.pc = pc, !.old = [s.old EXCEPT ![t] = NewRow]])
<1>1. ASSUME NEW old \in [Tasks -> Row], \A t \in Listed(old) : t \in Listed(s.old) /\ old[t] = s.old[t]
      PROVE  HandlerOK(rw, now, [s EXCEPT !.pc = pc, !.old = old])
  <2> DEFINE next == [s EXCEPT !.pc = pc, !.old = old]
  <2>1. next.pc = pc /\ next.old = old /\ next.task = s.task /\ next.stamp = s.stamp
    BY DEF HandlerState
  <2> HIDE DEF next
  <2>2. HandlerOK(rw, now, next)
    BY <1>1, <2>1 DEF HandlerOK, ListOK
  <2> QED BY <2>2 DEF next
<1>2. [s EXCEPT !.pc = pc] = [s EXCEPT !.pc = pc, !.old = s.old] /\ s.old \in [Tasks -> Row]
  BY DEF HandlerState
<1>3. HandlerOK(rw, now, [s EXCEPT !.pc = pc])
  BY <1>1, <1>2
<1>4. ASSUME NEW t \in Tasks
      PROVE  HandlerOK(rw, now, [s EXCEPT !.pc = pc, !.old = [s.old EXCEPT ![t] = NewRow]])
  <2> DEFINE old == [s.old EXCEPT ![t] = NewRow]
  <2>1. old \in [Tasks -> Row]
    BY <1>2, RowTypes
  <2>2. \A u \in Listed(old) : u \in Listed(s.old) /\ old[u] = s.old[u]
    BY <1>2 DEF Listed, NewRow
  <2> QED BY <1>1, <2>1, <2>2
<1> QED BY <1>3, <1>4

LEMMA HandlerOKIdle ==
  ASSUME NEW rw, NEW now PROVE HandlerOK(rw, now, IdleHandler)
BY DEF HandlerOK, ListOK, Listed, IdleHandler, NoRows, NewRow, HasList

LEMMA HandlersStep ==
  ASSUME IInv, CancelIInv, [Next]_vars
  PROVE  \A h \in Handlers : HandlerOK(row', clock', handler'[h])
<1>0. /\ TypeOK /\ row \in [Tasks -> Row] /\ row' \in [Tasks -> Row]
      /\ clock \in Nat /\ clock' \in Nat /\ clock <= clock'
      /\ Grow(row, row') /\ RowsOK(row, clock)
      /\ handler \in [Handlers -> HandlerState]
      /\ \A h \in Handlers : HandlerOK(row, clock, handler[h])
      /\ \A h \in Handlers : handler[h].pc # "idle" => handler[h].task \in Tasks
  BY Parts, ClockSteps, RowsStep, TypeStep DEF TypeOK, StoreTypeOK, HandlersTypeOK
<1>stay. \A h \in Handlers : HandlerOK(row', clock', handler[h])
  BY <1>0, HandlerOKStays
<1> DEFINE Good == \A h \in Handlers : HandlerOK(row', clock', handler'[h])
<1>same. ASSUME handler' = handler PROVE Good
  BY <1>stay, <1>same
<1>to. ASSUME NEW h \in Handlers, NEW s, HandlerOK(row', clock', s),
              handler' = [handler EXCEPT ![h] = s]
       PROVE  Good
  BY <1>0, <1>stay, <1>to
<1> HIDE DEF Good
<1>go. ASSUME NEW h \in Handlers, handler[h].pc \in HasList \ {"create"}
       PROVE  /\ \A pc \in HasList \ {"create"} : HandlerGo(h, pc) => Good
              /\ GoCancel(h) => Good
              /\ \A t \in Tasks : DropListed(h, t) => Good
  <2>0. handler[h] \in HandlerState /\ "cancel" \in HasList \ {"create"}
    BY <1>0 DEF HasList
  <2>1. ASSUME NEW pc \in HasList \ {"create"}, HandlerGo(h, pc) PROVE Good
    BY <1>0, <1>stay, <1>go, <1>to, <2>0, <2>1, HandlerOKMoves DEF HandlerGo
  <2>2. ASSUME GoCancel(h) PROVE Good
    <3>1. HandlerOK(row', clock', [handler[h] EXCEPT !.pc = "cancel"])
      BY <1>0, <1>stay, <1>go, <2>0, HandlerOKMoves
    <3> QED BY <1>to, <2>2, <3>1, HandlerOKIdle DEF GoCancel
  <2>3. ASSUME NEW t \in Tasks, DropListed(h, t) PROVE Good
    <3> DEFINE old == [handler[h].old EXCEPT ![t] = NewRow]
               next == [handler[h] EXCEPT !.pc = "cancel", !.old = old]
    <3>1. HandlerOK(row', clock', next)
      BY <1>0, <1>stay, <1>go, <2>0, HandlerOKMoves
    <3>2. handler' = [handler EXCEPT ![h] = IF Listed(old) = {} THEN IdleHandler ELSE next]
      BY <2>3 DEF DropListed
    <3> HIDE DEF old, next
    <3> QED BY <1>to, <3>1, <3>2, HandlerOKIdle
  <2> QED BY <2>1, <2>2, <2>3
<1>1. ASSUME NEW h \in Handlers, NEW t \in Tasks, Receive(h, t) PROVE Good
  <2> DEFINE next == [handler[h] EXCEPT !.pc = "list", !.task = t]
  <2>1. next.pc = "list" /\ next.old = handler[h].old
    BY <1>0 DEF HandlerState
  <2> HIDE DEF next
  <2>2. HandlerOK(row', clock', next)
    BY <1>stay, <2>1 DEF HandlerOK, HasList
  <2>3. handler' = handler \/ handler' = [handler EXCEPT ![h] = next]
    BY <1>1 DEF Receive, next
  <2> QED BY <1>same, <1>to, <2>2, <2>3
<1>2. ASSUME NEW h \in Handlers, ListActive(h) PROVE Good
  <2>1. PICK S \in SUBSET ActivePRTasks :
          handler' = [handler EXCEPT ![h].pc = "stamp", ![h].old = RowsOf(S)]
    BY <1>2 DEF ListActive
  <2> DEFINE next == [handler[h] EXCEPT !.pc = "stamp", !.old = RowsOf(S)]
  <2>2. next.pc = "stamp" /\ next.old = RowsOf(S)
    BY <1>0 DEF HandlerState
  <2>3. handler' = [handler EXCEPT ![h] = next]
    BY <1>0, <2>1
  <2>4. /\ S \subseteq Tasks /\ \A t \in S : Stored(t)
        /\ Listed(RowsOf(S)) = S /\ \A t \in S : RowsOf(S)[t] = row[t]
    BY <1>0, RowsOfType, QueriesListStoredRows
  <2> HIDE DEF next
  <2>5. ListOK(row, next.old)
    BY <2>2, <2>4 DEF ListOK, Copy, In, Stored
  <2>6. ListOK(row', next.old)
    BY <1>0, <2>5, GrowKeeps
  <2>7. HandlerOK(row', clock', next)
    BY <2>2, <2>6 DEF HandlerOK, HasList
  <2> QED BY <1>to, <2>3, <2>7
<1>3. ASSUME NEW h \in Handlers, Stamp(h) PROVE Good
  <2> DEFINE next == [handler[h] EXCEPT !.pc = "create", !.stamp = clock + 1]
  <2>1. next.pc = "create" /\ next.old = handler[h].old /\ next.stamp = clock + 1
    BY <1>0 DEF HandlerState
  <2>2. handler' = [handler EXCEPT ![h] = next] /\ clock' = clock + 1 /\ row' = row
    BY <1>0, <1>3 DEF Stamp
  <2> HIDE DEF next
  <2>3. \A t \in Listed(next.old) : row'[t].created < next.stamp
    BY <1>0, <2>1, <2>2 DEF RowsOK, Listed, Row
  <2>4. HandlerOK(row', clock', next)
    BY <1>0, <1>stay, <2>1, <2>2, <2>3 DEF HandlerOK, HasList
  <2> QED BY <1>to, <2>2, <2>4
<1>4. ASSUME NEW h \in Handlers, Create(h) PROVE Good
  <2>0. handler[h].pc = "create" /\ handler[h].task \in Tasks
    BY <1>0, <1>4 DEF Create, HandlerAt
  <2>1. CASE CreateTask(handler[h].task, PendingRow(handler[h].stamp)) /\ HandlerGo(h, "enqueue")
    <3> DEFINE next == [handler[h] EXCEPT !.pc = "enqueue"]
    <3>1. /\ next.pc = "enqueue" /\ next.old = handler[h].old
          /\ next.task = handler[h].task /\ next.stamp = handler[h].stamp
      BY <1>0 DEF HandlerState
    <3>2. handler' = [handler EXCEPT ![h] = next]
      BY <2>1 DEF HandlerGo
    <3>3. In(row', next.task) /\ row'[next.task].created = next.stamp
      BY <1>0, <2>0, <2>1, <3>1 DEF CreateTask, PendingRow, In
    <3> HIDE DEF next
    <3>4. HandlerOK(row', clock', next)
      BY <1>stay, <2>0, <3>1, <3>3 DEF HandlerOK, HasList
    <3> QED BY <1>to, <3>2, <3>4
  <2>2. CASE handler' = [handler EXCEPT ![h] = IdleHandler]
    BY <1>to, <2>2, HandlerOKIdle
  <2> QED BY <1>4, <2>1, <2>2 DEF Create
<1>5. ASSUME NEW h \in Handlers,
             Enqueue(h) \/ MarkQueued(h) \/ \E t \in Tasks : CancelInQueue(h, t) \/ CancelInStore(h, t)
      PROVE  Good
  <2>1. handler[h].pc \in HasList \ {"create"}
    BY <1>5 DEF Enqueue, MarkQueued, CancelInQueue, CancelInStore, HandlerAt, HasList
  <2>2. \/ \E pc \in {"mark", "cancelWrite"} : HandlerGo(h, pc)
        \/ GoCancel(h)
        \/ \E t \in Tasks : DropListed(h, t)
    BY <1>5 DEF Enqueue, MarkQueued, CancelInQueue, CancelInStore
  <2>3. {"mark", "cancelWrite"} \subseteq HasList \ {"create"}
    BY DEF HasList
  <2> QED BY <1>go, <2>1, <2>2, <2>3
<1>6. ASSUME Restart PROVE Good
  BY <1>6, HandlerOKIdle DEF Restart, Good
<1>7. Good
  BY <1>same, <1>1, <1>2, <1>3, <1>4, <1>5, <1>6, HandlerChanges DEF HandlerStep
<1> QED BY <1>7 DEF Good

\* A context is cancelled for a newer review, and a row to be written is a copy
\* which says "cancelled" only if there is one.
LEMMA WorkersStep ==
  ASSUME Undisturbed, IInv, CancelIInv, [Next]_vars
  PROVE  \A w \in Workers : WorkerOK(row', worker'[w])
<1>0. /\ TypeOK /\ WorkersTypeOK /\ phase = "up"
      /\ row \in [Tasks -> Row] /\ row' \in [Tasks -> Row] /\ Grow(row, row')
      /\ RowsOK(row, clock)
      /\ worker \in [Workers -> WorkerState]
      /\ \A h \in Handlers : HandlerOK(row, clock, handler[h]) /\ handler[h] \in HandlerState
      /\ \A h \in Handlers : handler[h].pc # "idle" => handler[h].task \in Tasks
      /\ \A w \in Workers : WorkerOK(row, worker[w])
      /\ \A w \in Workers : worker[w].pc # "idle" => worker[w].task \in Tasks
  BY Parts, RowsStep, TypeStep DEF TypeOK, StoreTypeOK, WorkersTypeOK, HandlersTypeOK
<1>stay. \A w \in Workers : WorkerOK(row', worker[w])
  BY <1>0, WorkerOKStays
<1> DEFINE Good == \A w \in Workers : WorkerOK(row', worker'[w])
<1>same. ASSUME worker' = worker PROVE Good
  BY <1>stay, <1>same
<1>to. ASSUME NEW w \in Workers, NEW s, WorkerOK(row', s), worker' = [worker EXCEPT ![w] = s]
       PROVE  Good
  BY <1>0, <1>stay, <1>to
<1> HIDE DEF Good
<1>decide. ASSUME NEW w \in Workers, NEW pc, NEW rec, NEW v, worker[w].pc # "idle",
                  Decide(w, pc, rec, v),
                  pc \in HasRecord => /\ Copy(row', worker[w].task, rec)
                                      /\ rec.status = "cancelled" => Newer(row', worker[w].task)
           PROVE  Good
  <2> DEFINE next == [worker[w] EXCEPT !.pc = pc, !.rec = rec, !.verdict = v]
  <2>1. /\ next.pc = pc /\ next.rec = rec /\ next.task = worker[w].task
        /\ next.cancelled = worker[w].cancelled
    BY <1>0 DEF WorkerState
  <2>2. worker' = [worker EXCEPT ![w] = next]
    BY <1>decide DEF Decide
  <2> HIDE DEF next
  <2>3. WorkerOK(row', next)
    BY <1>stay, <1>decide, <2>1 DEF WorkerOK
  <2> QED BY <1>to, <2>2, <2>3
<1>go. ASSUME NEW w \in Workers, NEW pc, worker[w].pc # "idle", WorkerGo(w, pc),
              pc \in HasRecord => worker[w].pc \in HasRecord
       PROVE  Good
  <2> DEFINE next == [worker[w] EXCEPT !.pc = pc]
  <2>1. /\ next.pc = pc /\ next.rec = worker[w].rec /\ next.task = worker[w].task
        /\ next.cancelled = worker[w].cancelled
    BY <1>0 DEF WorkerState
  <2>2. worker' = [worker EXCEPT ![w] = next]
    BY <1>go DEF WorkerGo
  <2> HIDE DEF next
  <2>3. WorkerOK(row', next)
    BY <1>stay, <1>go, <2>1 DEF WorkerOK
  <2> QED BY <1>to, <2>2, <2>3
<1>status. ASSUME NEW w \in Workers, NEW x \in Status
           PROVE  /\ WithStatus(w, x).status = x
                  /\ WithStatus(w, x).created = worker[w].rec.created
  BY <1>0 DEF WithStatus, WorkerState, Row
\* A worker with a record settles on a status.
<1>settle. ASSUME NEW w \in Workers, worker[w].pc \in HasRecord, NEW x \in Status, NEW pc, NEW v,
                  Decide(w, pc, WithStatus(w, x), v),
                  x = "cancelled" => Newer(row', worker[w].task)
           PROVE  Good
  <2>1. Copy(row', worker[w].task, worker[w].rec) /\ worker[w].pc # "idle"
    BY <1>stay, <1>settle DEF WorkerOK, HasRecord
  <2>2. Copy(row', worker[w].task, WithStatus(w, x)) /\ WithStatus(w, x).status = x
    BY <2>1, <1>status DEF Copy
  <2> QED BY <1>settle, <1>decide, <2>1, <2>2
<1>1. ASSUME NEW w \in Workers, Load(w) PROVE Good
  <2>1. worker[w].pc # "idle" /\ worker[w].task \in Tasks /\ row' = row
    BY <1>0, <1>1 DEF Load, WorkerAt
  <2>2. "ack" \notin HasRecord
    BY DEF HasRecord
  <2>3. CASE \E rec, v : Decide(w, "ack", rec, v)
    BY <1>decide, <2>1, <2>2, <2>3
  <2>4. ASSUME Stored(worker[w].task), row[worker[w].task].status # "cancelled",
               Decide(w, "start", row[worker[w].task], "nil")
        PROVE  Good
    <3>1. Copy(row', worker[w].task, row[worker[w].task])
      BY <2>1, <2>4 DEF Copy, In, Stored
    <3> QED BY <1>decide, <2>1, <2>4, <3>1
  <2> QED BY <1>1, <2>3, <2>4 DEF Load
<1>2. ASSUME NEW w \in Workers, Start(w) PROVE Good
  BY <1>2, <1>settle DEF Start, WorkerAt, HasRecord, WorkerPC, Status
<1>3. ASSUME NEW w \in Workers, CheckEnabled(w) PROVE Good
  <2>1. worker[w].pc = "enabled" /\ "enabled" \in HasRecord
    BY <1>3 DEF CheckEnabled, WorkerAt, HasRecord, WorkerPC
  <2>2. WorkerGo(w, "exec") \/ Decide(w, "ack", WithStatus(w, "succeeded"), "nil")
    BY <1>3 DEF CheckEnabled
  <2> QED BY <1>go, <1>settle, <2>1, <2>2 DEF Status
<1>4. ASSUME NEW w \in Workers, Execute(w) PROVE Good
  <2>1. worker[w].pc = "exec" /\ "exec" \in HasRecord
    BY <1>4 DEF Execute, WorkerAt, HasRecord, WorkerPC
  <2>2. FailedOrRetrying(w) \in Status \ {"cancelled"}
    BY DEF FailedOrRetrying, Status
  <2>3. PICK pc \in WorkerPC, x \in Status, v \in Verdict :
          /\ Decide(w, pc, WithStatus(w, x), v)
          /\ x = "cancelled" => worker[w].cancelled
    BY <1>4, <2>2 DEF Execute, WorkerPC, Status, Verdict
  <2>4. x = "cancelled" => Newer(row', worker[w].task)
    BY <1>stay, <2>1, <2>3 DEF WorkerOK
  <2> QED BY <1>settle, <2>1, <2>3, <2>4
<1>5. ASSUME NEW w \in Workers, CheckStale(w) PROVE Good
  <2>1. worker[w].pc = "check" /\ "check" \in HasRecord /\ row' = row
    BY <1>5 DEF CheckStale, WorkerAt, HasRecord, WorkerPC
  <2>2. HasNewerReviewTask(worker[w].task) => Newer(row', worker[w].task)
    BY <2>1 DEF HasNewerReviewTask, Newer, In
  <2>3. \/ WorkerGo(w, "publish")
        \/ /\ Decide(w, "final", WithStatus(w, "cancelled"), "skip")
           /\ HasNewerReviewTask(worker[w].task)
    BY <1>5 DEF CheckStale
  <2> QED BY <1>go, <1>settle, <2>1, <2>2, <2>3 DEF Status
<1>6. ASSUME NEW w \in Workers, Publish(w) \/ WriteFinal(w) PROVE Good
  <2>1. worker[w].pc \in HasRecord /\ worker[w].pc # "idle"
    BY <1>6 DEF Publish, WriteFinal, WorkerAt, HasRecord, WorkerPC
  <2> QED BY <1>6, <1>go, <2>1 DEF Publish, WriteFinal
<1>idle. WorkerOK(row', IdleWorker)
  BY DEF WorkerOK, IdleWorker, HasRecord
<1>7. ASSUME NEW w \in Workers, Ack(w) PROVE Good
  BY <1>7, <1>to, <1>idle DEF Ack
<1>8. ASSUME NEW w \in Workers, ContextDone(w) PROVE Good
  <2> DEFINE next == [worker[w] EXCEPT !.detached = TRUE, !.cancelled = worker[w].cancelled]
  <2>1. /\ next.pc = worker[w].pc /\ next.rec = worker[w].rec /\ next.task = worker[w].task
        /\ next.cancelled = worker[w].cancelled
    BY <1>0 DEF WorkerState
  <2>2. worker' = [worker EXCEPT ![w] = next]
    BY <1>8 DEF ContextDone, LetGo
  <2> HIDE DEF next
  <2>3. WorkerOK(row', next)
    BY <1>stay, <2>1 DEF WorkerOK
  <2> QED BY <1>to, <2>2, <2>3
<1>9. ASSUME NEW w \in Workers, NEW t \in Tasks, Deliver(w, t) PROVE Good
  <2> DEFINE next == [IdleWorker EXCEPT !.pc = "load", !.task = t, !.retried = entry[t].retried]
  <2>1. next.pc = "load" /\ next.cancelled = FALSE
    BY DEF IdleWorker
  <2>2. worker' = [worker EXCEPT ![w] = next]
    BY <1>9 DEF Deliver
  <2> HIDE DEF next
  <2>3. WorkerOK(row', next)
    BY <2>1 DEF WorkerOK, HasRecord
  <2> QED BY <1>to, <2>2, <2>3
<1>10. ASSUME NEW h \in Handlers, NEW t \in Tasks, CancelInQueue(h, t), CancelContext(t)
       PROVE  Good
  <2>1. /\ t \in Listed(handler[h].old) /\ handler[h].pc = "cancel" /\ row' = row
    BY <1>10 DEF CancelInQueue, HandlerAt, OldestListed
  <2>2. In(row', t) /\ Newer(row', t)
    BY <1>0, <2>1 DEF HandlerOK, ListOK, Copy, HasList, Newer
  <2>3. ASSUME NEW w \in Workers PROVE WorkerOK(row', worker'[w])
    <3>1. /\ worker'[w].pc = worker[w].pc /\ worker'[w].task = worker[w].task
          /\ worker'[w].rec = worker[w].rec
          /\ worker'[w].cancelled # worker[w].cancelled => worker[w].task = t
      BY <1>0, <1>10, CancelContextEffect DEF Attached, Holds
    <3> QED BY <1>stay, <2>2, <3>1 DEF WorkerOK
  <2> QED BY <2>3 DEF Good
<1>11. ASSUME Restart PROVE Good
  BY <1>11, <1>idle DEF Restart, Good
<1>12. Good
  <2> SUFFICES ASSUME worker' # worker PROVE Good
    BY <1>same
  <2>1. \A w \in Workers : ~LoseLease(w) /\ ~Abort(w)
    BY <1>0, NoDisturbance
  <2>2. \/ \E w \in Workers : \/ WorkerStep(w) \/ ContextDone(w)
                             \/ \E t \in Tasks : Deliver(w, t)
        \/ \E h \in Handlers, t \in Tasks : CancelInQueue(h, t) /\ CancelContext(t)
        \/ Restart
    BY <2>1, WorkerChanges
  <2>3. ASSUME NEW w \in Workers, WorkerStep(w) PROVE Good
    BY <1>1, <1>2, <1>3, <1>4, <1>5, <1>6, <1>7, <2>3 DEF WorkerStep
  <2> QED BY <1>8, <1>9, <1>10, <1>11, <2>2, <2>3
<1> QED BY <1>12 DEF Good

\* The recovery loop lists rows as they are, and drops them one by one.
LEMMA OrphansStep ==
  ASSUME IInv, CancelIInv, [Next]_vars
  PROVE  ListOK(row', recovery'.todo)
<1>0. /\ TypeOK /\ RecoveryTypeOK
      /\ row \in [Tasks -> Row] /\ row' \in [Tasks -> Row] /\ Grow(row, row')
      /\ ListOK(row, recovery.todo)
  BY Parts, RowsStep, TypeStep DEF TypeOK, StoreTypeOK
<1>stay. ListOK(row', recovery.todo)
  BY <1>0, GrowKeeps
<1>1. CASE recovery'.todo = recovery.todo
  BY <1>stay, <1>1
<1>2. ASSUME Scan PROVE ListOK(row', recovery'.todo)
  <2>1. recovery'.todo = RowsOf(Orphans) /\ row' = row
    BY <1>2 DEF Scan
  <2>2. /\ Listed(RowsOf(Orphans)) = Orphans
        /\ \A t \in Orphans : Stored(t) /\ RowsOf(Orphans)[t] = row[t]
    BY <1>0, RowsOfType, QueriesListStoredRows
  <2> QED BY <2>1, <2>2 DEF ListOK, Copy, In, Stored
<1>3. ASSUME NEW t \in Tasks, NextOrphan(t) PROVE ListOK(row', recovery'.todo)
  <2>1. recovery'.todo = [recovery.todo EXCEPT ![t] = NewRow]
    BY <1>3 DEF NextOrphan
  <2> QED BY <1>0, <1>stay, <2>1 DEF ListOK, Listed, NewRow, RecoveryTypeOK
<1>4. CASE recovery' = [recovery EXCEPT !.pc = "mark"]
  BY <1>0, <1>stay, <1>4 DEF RecoveryTypeOK
<1>5. CASE Restart
  BY <1>5 DEF Restart, IdleRecovery, NoRows, NewRow, ListOK, Listed
<1> QED
  BY <1>1, <1>2, <1>3, <1>4, <1>5, RecoveryChanges DEF RecoveryStep, RequeueOrphan, GiveUp,
    Reenqueue, MarkOrphan, recoveryVars

\* RetryTask reads a row that is there.
LEMMA RetryStep ==
  ASSUME IInv, CancelIInv, [Next]_vars
  PROVE  ManualOK(row', manual')
<1>0. /\ TypeOK /\ row \in [Tasks -> Row] /\ row' \in [Tasks -> Row] /\ Grow(row, row')
      /\ ManualOK(row, manual)
      /\ manual \in [pc : ManualPC, task : MaybeTask, rec : Row]
      /\ manual.pc # "idle" => manual.task \in Tasks
  BY Parts, RowsStep, TypeStep DEF TypeOK, StoreTypeOK, ManualTypeOK
<1>stay. ManualOK(row', manual)
  BY <1>0, GrowKeeps DEF ManualOK
<1>1. CASE manual' = manual
  BY <1>stay, <1>1
<1>2. ASSUME NEW t \in Tasks, ManualRead(t) PROVE ManualOK(row', manual')
  BY <1>2 DEF ManualRead, ManualOK, Copy, In
<1>3. CASE ManualEnqueue
  BY <1>0, <1>stay, <1>3 DEF ManualEnqueue, ManualOK, IdleManual
<1>4. CASE ManualMark
  BY <1>4 DEF ManualMark, ManualOK, IdleManual
<1> QED BY <1>1, <1>2, <1>3, <1>4, ManualChanges DEF ManualStep, manualVars

-----------------------------------------------------------------------------
(***************************************************************************)
(* The theorems.                                                           *)
(***************************************************************************)
LEMMA InitCancelIInv == Init => CancelIInv
<1> SUFFICES ASSUME Init PROVE CancelIInv
  OBVIOUS
<1>1. TypeOK /\ phase = "up"
  BY InitTypes DEF Init
<1>2. CancelledIsSuperseded /\ CreatedInThePast
  BY DEF Init, CancelledIsSuperseded, CreatedInThePast, NoRows, NewRow
<1>3. CopiesAreOfStoredRows
  BY DEF Init, CopiesAreOfStoredRows, IdleHandler, IdleWorker, IdleRecovery, IdleManual,
    Listed, NoRows, NewRow
<1>4. ListedAreOlder /\ CancellationsAreForNewer
  BY DEF Init, ListedAreOlder, CancellationsAreForNewer, IdleHandler, IdleWorker
<1> QED BY <1>1, <1>2, <1>3, <1>4 DEF CancelIInv

\* CancelIInv is inductive for the steps of a server that is not being shut
\* down and keeps its leases, whatever else fails.
THEOREM CancelIInvInvariant ==
  Spec /\ [](phase = "up") /\ [][KeepsLeases]_vars => []CancelIInv
<1>1. IInv /\ CancelIInv /\ [Next]_vars /\ (phase = "up")' /\ [KeepsLeases]_vars => CancelIInv'
  <2> SUFFICES ASSUME IInv, CancelIInv, [Next]_vars, phase' = "up", [KeepsLeases]_vars
               PROVE  CancelIInv'
    OBVIOUS
  <2>1. TypeOK' /\ RowsOK(row', clock')
    BY TypeStep, RowsStep DEF CancelIInv
  <2>2. \A w \in Workers : WorkerOK(row', worker'[w])
    BY WorkersStep DEF Undisturbed
  <2> QED
    BY <2>1, <2>2, HandlersStep, OrphansStep, RetryStep, PartsNext
<1> QED BY InitCancelIInv, IInvInvariant, <1>1, PTL DEF Spec

\* For any number of overlapping requests, handlers, workers and crashes, and
\* with writes and calls that fail: cancelTasks and the staleness check cancel
\* a review only when a newer one of the pull request is stored.
THEOREM NewestIsNotCancelled ==
  Spec /\ [](phase = "up") /\ [][KeepsLeases]_vars => []CancelledIsSuperseded
<1>1. CancelIInv => CancelledIsSuperseded
  BY DEF CancelIInv
<1> QED BY CancelIInvInvariant, <1>1, PTL

-----------------------------------------------------------------------------
(***************************************************************************)
(* Retries: a row that says "retrying" has its retry in asynq.             *)
(***************************************************************************)
\* KeepsPromise, for a handler s whose row has status r and whose entry has state e.
PromiseOK(r, e, s) ==
  /\ s.pc \in {"load", "start", "enabled"} => ~s.detached
  /\ s.pc \in {"enabled", "exec", "check", "publish", "final"} => r # "retrying"
  /\ s.pc \in {"check", "publish", "final"} /\ s.rec.status = "retrying" =>
       s.retried < MaxRetry - 1 /\ s.verdict = "err"
  /\ s.pc = "ack" /\ r = "retrying" => s.retried < MaxRetry - 1 /\ s.verdict = "err"
  /\ s.detached /\ s.retried < MaxRetry - 1 => e = "waiting"

\* A step of a server that is up, keeps its leases and does not crash.
Alive == Undisturbed /\ restarts' = restarts

LEMMA AliveSteps ==
  ASSUME TypeOK, phase = "up", Alive, [Next]_vars
  PROVE  ~Restart /\ (worker' # worker => \A w \in Workers : ~LoseLease(w) /\ ~Abort(w))
<1>1. ~Restart
  BY DEF Alive, Restart, TypeOK, ProcessTypeOK
<1> QED BY <1>1, NoDisturbance DEF Alive

\* What is replaced stays so.
LEMMA ReplacedStays ==
  ASSUME IInv, CancelIInv, [Next]_vars, NEW t \in Tasks, Replaced(t)
  PROVE  Replaced(t)'
<1>1. /\ Grow(row, row') /\ row \in [Tasks -> Row] /\ row' \in [Tasks -> Row]
  BY RowsStep, TypeStep DEF IInv, TypeOK, StoreTypeOK
<1>2. In(row, t) /\ Newer(row, t)
  BY DEF Replaced, Stored, Superseded, In, Newer
<1>3. In(row', t) /\ Newer(row', t)
  BY <1>1, <1>2, GrowKeeps DEF Grow
<1> QED BY <1>3 DEF Replaced, Stored, Superseded, In, Newer

\* The same of a task that is no constant.
Gone(rw, t) == In(rw, t) /\ Newer(rw, t)

LEMMA GoneStays ==
  ASSUME IInv, CancelIInv, [Next]_vars
  PROVE  \A t \in Tasks : (Replaced(t) <=> Gone(row, t)) /\ (Gone(row, t) => Gone(row', t))
<1>1. /\ Grow(row, row') /\ row \in [Tasks -> Row] /\ row' \in [Tasks -> Row]
  BY RowsStep, TypeStep DEF IInv, TypeOK, StoreTypeOK
<1>2. \A t \in Tasks : Gone(row, t) => Gone(row', t)
  BY <1>1, GrowKeeps DEF Grow, Gone
<1>3. \A t \in Tasks : Replaced(t) <=> Gone(row, t)
  BY DEF Replaced, Stored, Superseded, Gone, In, Newer
<1> QED BY <1>2, <1>3

\* Whoever is cancelled, or about to be, is replaced.
LEMMA CancelledIsReplaced ==
  ASSUME CancelIInv
  PROVE  /\ \A w \in Workers : worker[w].pc # "idle" /\ worker[w].cancelled =>
              Replaced(worker[w].task)
         /\ \A h \in Handlers, t \in Tasks : CancelInQueue(h, t) => Replaced(t)
<1>1. \A w \in Workers : worker[w].pc # "idle" /\ worker[w].cancelled =>
        Replaced(worker[w].task)
  BY DEF CancelIInv, CancellationsAreForNewer, Replaced
<1>2. ASSUME NEW h \in Handlers, NEW t \in Tasks, CancelInQueue(h, t) PROVE Replaced(t)
  <2>1. /\ t \in Listed(handler[h].old) /\ handler[h].pc = "cancel"
        /\ HandlerOK(row, clock, handler[h]) /\ handler[h].task \in Tasks
    BY <1>2, Parts DEF CancelInQueue, HandlerAt, OldestListed, TypeOK, HandlersTypeOK
  <2>2. In(row, t) /\ Newer(row, t)
    BY <2>1 DEF HandlerOK, ListOK, Copy, HasList, Newer
  <2> QED BY <2>2 DEF Replaced, Stored, Superseded, In, Newer
<1> QED BY <1>1, <1>2

\* Only Deliver gives a worker a task.
LEMMA HeldSteps ==
  ASSUME IInv, [Next]_vars, ~\E w \in Workers, t \in Tasks : Deliver(w, t)
  PROVE  \A w \in Workers : \A t \in Tasks : Holds(w, t)' => Holds(w, t)
<1>0. TypeOK /\ WorkersTypeOK
  BY DEF IInv, TypeOK
<1> SUFFICES ASSUME worker' # worker, NEW v \in Workers, NEW t \in Tasks, Holds(v, t)'
             PROVE  Holds(v, t)
  BY DEF Holds
<1>1. ASSUME NEW w \in Workers,
             WorkerStep(w) \/ ContextDone(w) \/ LoseLease(w) \/ Abort(w)
      PROVE  Holds(v, t)
  <2>1. PICK s : WorkerBecomes(w, s)
    BY <1>0, <1>1, WorkerStepEffect
  <2>2. worker'[v] = IF v = w THEN s ELSE worker[v]
    BY <1>0, <2>1 DEF WorkerBecomes, WorkersTypeOK
  <2> QED BY <2>1, <2>2 DEF WorkerBecomes, Holds
<1>2. ASSUME NEW u \in Tasks, CancelContext(u) PROVE Holds(v, t)
  BY <1>0, <1>2, CancelContextEffect DEF Holds
<1>3. CASE Restart
  BY <1>3 DEF Restart, IdleWorker, Holds
<1> QED BY <1>1, <1>2, <1>3, WorkerChanges

LEMMA OneHolderStep ==
  ASSUME ~LateHandlers, IInv, OneHolderPerTask, [Next]_vars
  PROVE  OneHolderPerTask'
<1>1. CASE ~\E w \in Workers, t \in Tasks : Deliver(w, t)
  BY <1>1, HeldSteps DEF OneHolderPerTask
<1>2. ASSUME NEW w \in Workers, NEW t \in Tasks, Deliver(w, t) PROVE OneHolderPerTask'
  <2> DEFINE next == [IdleWorker EXCEPT !.pc = "load", !.task = t, !.retried = entry[t].retried]
  <2>1. next.task = t /\ worker' = [worker EXCEPT ![w] = next]
    BY <1>2 DEF Deliver, IdleWorker
  <2> HIDE DEF next
  <2>2. \A v \in Workers : ~Holds(v, t)
    BY <1>2 DEF Deliver
  <2>3. worker \in [Workers -> WorkerState]
    BY DEF IInv, TypeOK, WorkersTypeOK
  <2>4. ASSUME NEW v \in Workers, NEW u \in Tasks, Holds(v, u)'
        PROVE  (v = w /\ u = t) \/ (u # t /\ v # w /\ Holds(v, u))
    BY <2>1, <2>2, <2>3, <2>4 DEF Holds
  <2> QED BY <2>4 DEF OneHolderPerTask
<1> QED BY <1>1, <1>2

\* Only a handler's last write makes a row "retrying".
LEMMA RowTurnsRetrying ==
  ASSUME IInv, [Next]_vars, NEW t \in Tasks, row'[t].status = "retrying",
         row[t].status # "retrying"
  PROVE  \E w \in Workers : /\ WriteFinal(w) /\ worker[w].task = t
                            /\ worker[w].rec.status = "retrying"
<1>0. /\ TypeOK /\ row \in [Tasks -> Row]
      /\ \A h \in Handlers : handler[h] \in HandlerState
      /\ \A w \in Workers : worker[w] \in WorkerState
      /\ \A u \in Tasks : recovery.todo[u] \in Row
      /\ manual.rec \in Row
  BY DEF IInv, TypeOK, StoreTypeOK, HandlersTypeOK, WorkersTypeOK, RecoveryTypeOK, ManualTypeOK
<1>up. ASSUME NEW u, NEW rec, UpdateTask(u, rec) PROVE u = t /\ rec.status = "retrying"
  BY <1>0, <1>up DEF UpdateTask
<1>1. ASSUME NEW h \in Handlers, Create(h) PROVE FALSE
  <2>1. PendingRow(handler[h].stamp).status = "pending"
    BY DEF PendingRow
  <2>2. \A rec : CreateTask(handler[h].task, rec) => UpdateTask(handler[h].task, rec)
    BY DEF CreateTask, UpdateTask
  <2> QED BY <1>up, <1>1, <2>1, <2>2 DEF Create
<1>2. ASSUME NEW h \in Handlers, MarkQueued(h) PROVE FALSE
  <2>1. QueuedRow(PendingRow(handler[h].stamp)).status = "queued"
    BY DEF QueuedRow, PendingRow
  <2> QED BY <1>up, <1>2, <2>1 DEF MarkQueued, TryUpdateTask
<1>3. ASSUME NEW h \in Handlers, NEW u \in Tasks, CancelInStore(h, u) PROVE FALSE
  <2>1. handler[h].old[u] \in Row
    BY <1>0 DEF HandlerState
  <2>2. CancelledRow(handler[h].old[u]).status = "cancelled"
    BY <2>1 DEF CancelledRow, Row
  <2> QED BY <1>up, <1>3, <2>2 DEF CancelInStore, TryUpdateTask
<1>4. ASSUME NEW w \in Workers, Start(w) \/ CheckEnabled(w) PROVE FALSE
  <2>1. /\ WithStatus(w, "running").status = "running"
        /\ WithStatus(w, "succeeded").status = "succeeded"
    BY <1>0 DEF WithStatus, WorkerState, Row
  <2> QED BY <1>up, <1>4, <2>1 DEF Start, CheckEnabled
<1>5. ASSUME NEW u \in Tasks, RequeueOrphan(u) \/ MarkOrphan(u) PROVE FALSE
  <2>1. /\ [recovery.todo[u] EXCEPT !.status = "failed"].status = "failed"
        /\ QueuedRow(recovery.todo[u]).status = "queued"
    BY <1>0 DEF QueuedRow, Row
  <2> QED BY <1>up, <1>5, <2>1 DEF RequeueOrphan, GiveUp, Reenqueue, MarkOrphan
<1>6. ~ManualMark
  <2>1. QueuedRow(manual.rec).status = "queued"
    BY <1>0 DEF QueuedRow, Row
  <2> QED BY <1>up, <2>1 DEF ManualMark, TryUpdateTask
<1>7. ASSUME NEW w \in Workers, WriteFinal(w)
      PROVE  worker[w].task = t /\ worker[w].rec.status = "retrying"
  BY <1>up, <1>7 DEF WriteFinal, TryUpdateTask
<1> QED BY <1>1, <1>2, <1>3, <1>4, <1>5, <1>6, <1>7, RowChanges

\* What asynq schedules for a handler whose attempt was not the last.
LEMMA RetryIsScheduled ==
  ASSUME IInv, NEW w \in Workers, NEW t \in Tasks, Attached(w, t),
         worker[w].retried < MaxRetry - 1,
         ContextDone(w) \/ (Ack(w) /\ worker[w].verdict = "err")
  PROVE  entry'[t].state = "waiting"
<1>1. /\ entry \in [Tasks -> Entry] /\ entry[t].retried = worker[w].retried
      /\ worker[w].task = t /\ ~worker[w].detached
  BY DEF IInv, TypeOK, StoreTypeOK, OneHandlerPerTask, Attached, Holds
<1>2. RetryOrArchive(t)
  BY <1>1 DEF ContextDone, Ack, Settle
<1>3. entry[t].retried \in Nat /\ ~(entry[t].retried >= MaxRetry)
  BY <1>1 DEF Entry
<1> QED BY <1>1, <1>2, <1>3 DEF RetryOrArchive, Waiting

\* Who takes an entry that is waiting or being handled out of asynq's hands.
LEMMA EntryEnds ==
  ASSUME IInv, CancelIInv, ActiveIsHandled, Alive, [Next]_vars, NEW t \in Tasks,
         entry[t].state \in {"waiting", "active"}
  PROVE  \/ entry'[t] = entry[t]
         \/ Replaced(t)
         \/ \E w \in Workers : (Ack(w) \/ ContextDone(w)) /\ Attached(w, t)
         \/ entry[t].state = "waiting" /\ \E w \in Workers : Deliver(w, t)
<1>0. /\ TypeOK /\ phase = "up" /\ OneHandlerPerTask
      /\ worker \in [Workers -> WorkerState] /\ entry \in [Tasks -> Entry]
      /\ \A w \in Workers : worker[w].pc # "idle" => worker[w].task \in Tasks
  BY DEF IInv, CancelIInv, TypeOK, WorkersTypeOK, StoreTypeOK
<1> DEFINE Good == \/ entry'[t] = entry[t]
                   \/ Replaced(t)
                   \/ \E w \in Workers : (Ack(w) \/ ContextDone(w)) /\ Attached(w, t)
                   \/ entry[t].state = "waiting" /\ \E w \in Workers : Deliver(w, t)
<1>1. ASSUME NEW h \in Handlers, Enqueue(h) PROVE Good
  BY <1>0, <1>1 DEF Enqueue, Accept, Conflict
<1>2. ASSUME NEW h \in Handlers, NEW u \in Tasks, CancelInQueue(h, u) PROVE Good
  <2>1. CASE u = t
    BY <1>2, <2>1, CancelledIsReplaced
  <2>2. CASE u # t
    BY <1>0, <1>2, <2>2 DEF CancelInQueue, DeleteEntry
  <2> QED BY <2>1, <2>2
<1>3. ASSUME NEW w \in Workers, Ack(w) \/ ContextDone(w) PROVE Good
  <2>1. worker[w].pc # "idle" /\ worker[w].task \in Tasks /\ worker[w].verdict \in Verdict
    BY <1>0, <1>3 DEF Ack, WorkerAt, ContextDone, LetGo, WorkerState
  <2>2. CASE Attached(w, t)
    BY <1>3, <2>2
  <2>3. CASE worker[w].detached
    BY <1>3, <2>3 DEF Ack, ContextDone, LetGo
  <2>4. CASE worker[w].task # t
    <3>1. UNCHANGED entry \/ \E u \in Tasks \ {t}, v \in Verdict : Settle(u, v) \/ RetryOrArchive(u)
      BY <1>3, <2>1, <2>4 DEF Ack, ContextDone
    <3>2. ASSUME NEW u \in Tasks \ {t}, NEW v \in Verdict, Settle(u, v) \/ RetryOrArchive(u)
          PROVE  entry'[t] = entry[t]
      BY <1>0, <3>2 DEF Settle, RetryOrArchive, Archive, DeleteEntry, Verdict
    <3> QED BY <3>1, <3>2
  <2> QED BY <2>1, <2>2, <2>3, <2>4 DEF Attached, Holds
<1>4. ASSUME NEW w \in Workers, NEW u \in Tasks, Deliver(w, u) PROVE Good
  BY <1>0, <1>4 DEF Deliver, Dequeue
<1>5. ASSUME NEW u \in Tasks, RequeueOrphan(u) PROVE Good
  BY <1>0, <1>5 DEF RequeueOrphan, GiveUp, Reenqueue, Accept, Conflict
<1>6. ASSUME NEW u \in Tasks, ReclaimLease(u) PROVE Good
  <2>1. u # t
    BY <1>6 DEF ReclaimLease, ActiveIsHandled
  <2> QED BY <1>0, <1>6, <2>1 DEF ReclaimLease, RetryOrArchive, Archive
<1>7. ASSUME ManualEnqueue PROVE Good
  BY <1>0, <1>7 DEF ManualEnqueue, Accept, Conflict
<1>8. ASSUME NEW w \in Workers PROVE ~Abort(w)
  BY <1>0 DEF Abort
<1> QED BY <1>1, <1>2, <1>3, <1>4, <1>5, <1>6, <1>7, <1>8, EntryChanges

\* What asynq makes of an entry when its handler ends is no active entry.
LEMMA SettledIsNotActive ==
  ASSUME entry \in [Tasks -> Entry], NEW u \in Tasks, NEW v \in Verdict,
         Settle(u, v) \/ RetryOrArchive(u), NEW t \in Tasks, entry'[t].state = "active"
  PROVE  t # u /\ entry[t].state = "active"
<1>1. PICK e : entry' = [entry EXCEPT ![u] = e] /\ e.state # "active"
  <2>1. DeleteEntry(u) \/ Archive(u) \/ RetryOrArchive(u)
    BY DEF Settle, Verdict
  <2>2. CASE DeleteEntry(u)
    <3>1. NoEntry.state = "none"
      BY DEF NoEntry
    <3>2. entry' = [entry EXCEPT ![u] = NoEntry]
      BY <2>2 DEF DeleteEntry
    <3> QED BY <3>1, <3>2
  <2>3. CASE Archive(u)
    <3> DEFINE e == [entry[u] EXCEPT !.state = "archived"]
    <3>1. e.state = "archived"
      BY DEF Entry
    <3>2. entry' = [entry EXCEPT ![u] = e]
      BY <2>3 DEF Archive
    <3> HIDE DEF e
    <3> QED BY <3>1, <3>2
  <2>4. CASE entry' = [entry EXCEPT ![u] = Waiting(entry[u].retried + 1)]
    <3>1. Waiting(entry[u].retried + 1).state = "waiting"
      BY DEF Waiting
    <3> QED BY <2>4, <3>1
  <2> QED BY <2>1, <2>2, <2>3, <2>4 DEF RetryOrArchive
<1> QED BY <1>1

\* An active entry has a handler that asynq waits for.
LEMMA ActiveStep ==
  ASSUME IInv, CancelIInv, ActiveIsHandled, Alive, [Next]_vars
  PROVE  ActiveIsHandled'
<1>0. /\ TypeOK /\ phase = "up" /\ WorkersTypeOK /\ worker \in [Workers -> WorkerState]
      /\ entry \in [Tasks -> Entry] /\ OneHandlerPerTask
      /\ \A w \in Workers : worker[w].pc # "idle" => worker[w].task \in Tasks
  BY DEF IInv, CancelIInv, TypeOK, WorkersTypeOK, StoreTypeOK
<1> SUFFICES ASSUME NEW t \in Tasks, entry'[t].state = "active"
             PROVE  \E w \in Workers : Attached(w, t)'
  BY DEF ActiveIsHandled
<1>1. ASSUME NEW w \in Workers, Deliver(w, t) PROVE Attached(w, t)'
  BY <1>0, <1>1 DEF Deliver, IdleWorker, Attached, Holds
<1>2. ASSUME entry[t].state = "active" PROVE \E w \in Workers : Attached(w, t)'
  <2>1. PICK w \in Workers : Attached(w, t)
    BY <1>2 DEF ActiveIsHandled
  <2>2. ~Ack(w) /\ ~ContextDone(w)
    <3>1. worker[w].task = t /\ ~worker[w].detached /\ worker[w].verdict \in Verdict
      BY <1>0, <2>1 DEF Attached, Holds, WorkerState
    <3>2. \A v \in Verdict : ~Settle(t, v) /\ ~RetryOrArchive(t)
      BY <1>0, SettledIsNotActive
    <3> QED BY <3>1, <3>2 DEF Ack, ContextDone
  <2>3. CASE worker' = worker
    BY <2>1, <2>3 DEF Attached, Holds
  <2>4. CASE worker' # worker
    <3>1. \A v \in Workers : ~LoseLease(v) /\ ~Abort(v)
      BY <1>0, <2>4, AliveSteps
    <3>2. ASSUME NEW v \in Workers, WorkerStep(v) \/ ContextDone(v) PROVE Attached(w, t)'
      <4>1. PICK s : WorkerBecomes(v, s)
        BY <1>0, <3>2, WorkerStepEffect
      <4>2. CASE v # w
        BY <1>0, <2>1, <4>1, <4>2 DEF WorkerBecomes, Attached, Holds
      <4>3. CASE v = w
        <5>1. WorkerStep(w) /\ ~Ack(w)
          BY <2>2, <3>2, <4>3
        <5>2. PICK pc \in WorkerPC \ {"idle"} :
                WorkerGo(w, pc) \/ \E rec, verdict : Decide(w, pc, rec, verdict)
          BY <5>1 DEF WorkerStep, Load, Start, CheckEnabled, Execute, CheckStale, Publish,
            WriteFinal, WorkerPC
        <5>3. worker'[w].pc = pc /\ worker'[w].detached = worker[w].detached
          <6>1. CASE WorkerGo(w, pc)
            BY <1>0, <6>1 DEF WorkerGo, WorkerState
          <6>2. ASSUME NEW rec, NEW verdict, Decide(w, pc, rec, verdict)
                PROVE  worker'[w].pc = pc /\ worker'[w].detached = worker[w].detached
            BY <1>0, <6>2 DEF Decide, WorkerState
          <6> QED BY <5>2, <6>1, <6>2
        <5> QED BY <1>0, <2>1, <4>1, <4>3, <5>3 DEF WorkerBecomes, Attached, Holds
      <4> QED BY <4>2, <4>3
    <3>3. ASSUME NEW v \in Workers, NEW u \in Tasks, Deliver(v, u) PROVE Attached(w, t)'
      BY <1>0, <2>1, <3>3 DEF Deliver, WorkerAt, Attached, Holds
    <3>4. ASSUME NEW u \in Tasks, CancelContext(u) PROVE Attached(w, t)'
      BY <1>0, <2>1, <3>4, CancelContextEffect DEF Attached, Holds
    <3> QED BY <1>0, <2>4, <3>1, <3>2, <3>3, <3>4, WorkerChanges, AliveSteps
  <2> QED BY <2>3, <2>4
<1>3. ASSUME entry[t].state # "active" PROVE \E w \in Workers : Deliver(w, t)
  <2>0. entry' # entry
    BY <1>3
  <2>1. ASSUME NEW h \in Handlers, Enqueue(h) PROVE FALSE
    BY <1>0, <1>3, <2>1 DEF Enqueue, Accept, Conflict, Waiting
  <2>2. ASSUME NEW h \in Handlers, NEW u \in Tasks, CancelInQueue(h, u) PROVE FALSE
    BY <1>0, <1>3, <2>2 DEF CancelInQueue, DeleteEntry, NoEntry
  <2>3. ASSUME NEW w \in Workers, Ack(w) \/ ContextDone(w) PROVE FALSE
    <3>1. worker[w].pc # "idle" /\ worker[w].task \in Tasks /\ worker[w].verdict \in Verdict
      BY <1>0, <2>3 DEF Ack, WorkerAt, ContextDone, LetGo, WorkerState
    <3>2. ASSUME NEW u \in Tasks, NEW v \in Verdict, Settle(u, v) \/ RetryOrArchive(u)
          PROVE  FALSE
      BY <1>0, <1>3, <3>2, SettledIsNotActive
    <3> QED BY <2>0, <2>3, <3>1, <3>2 DEF Ack, ContextDone
  <2>4. ASSUME NEW w \in Workers, NEW u \in Tasks, Deliver(w, u) PROVE Deliver(w, t)
    BY <1>0, <1>3, <2>4 DEF Deliver, Dequeue
  <2>5. ASSUME NEW u \in Tasks, RequeueOrphan(u) PROVE FALSE
    BY <1>0, <1>3, <2>5 DEF RequeueOrphan, GiveUp, Reenqueue, Accept, Conflict, Waiting
  <2>6. ASSUME NEW u \in Tasks, ReclaimLease(u) PROVE FALSE
    BY <1>0, <1>3, <2>6 DEF ReclaimLease, RetryOrArchive, Archive, Waiting
  <2>7. ~ManualEnqueue
    BY <1>0, <1>3 DEF ManualEnqueue, Accept, Conflict, Waiting
  <2>8. \A w \in Workers : ~Abort(w)
    BY <1>0 DEF Abort
  <2> QED BY <2>0, <2>1, <2>2, <2>3, <2>4, <2>5, <2>6, <2>7, <2>8, EntryChanges
<1> QED BY <1>1, <1>2, <1>3

\* A row stays "retrying", or turns so, with its retry in asynq.
LEMMA RetryingStep ==
  ASSUME IInv, CancelIInv, RetryIInv, Alive, [Next]_vars
  PROVE  RetryingHasEntry'
<1>0. /\ TypeOK /\ phase = "up" /\ OneHandlerPerTask /\ RetryingHasEntry /\ ActiveIsHandled
      /\ PromisesKept
      /\ worker \in [Workers -> WorkerState] /\ entry \in [Tasks -> Entry]
  BY DEF IInv, CancelIInv, RetryIInv, TypeOK, WorkersTypeOK, StoreTypeOK
<1> SUFFICES ASSUME NEW t \in Tasks, row'[t].status = "retrying", ~Replaced(t), ~Replaced(t)'
             PROVE  entry'[t].state \in {"waiting", "active"}
  BY ReplacedStays DEF RetryingHasEntry
<1>1. CASE row[t].status = "retrying"
  <2>1. entry[t].state \in {"waiting", "active"}
    BY <1>0, <1>1 DEF RetryingHasEntry
  <2>2. ASSUME NEW w \in Workers, Ack(w) \/ ContextDone(w), Attached(w, t)
        PROVE  entry'[t].state = "waiting"
    <3>1. KeepsPromise(w) /\ worker[w].task = t /\ ~worker[w].cancelled
      BY <1>0, <2>2, CancelledIsReplaced DEF PromisesKept, Attached, Holds, WorkerState
    <3>2. worker[w].pc = "ack"
      BY <1>0, <1>1, <2>2, <3>1 DEF KeepsPromise, Ack, WorkerAt, ContextDone, Attached, Holds,
        WorkerState, WorkerPC
    <3>3. worker[w].retried < MaxRetry - 1 /\ worker[w].verdict = "err"
      BY <1>1, <3>1, <3>2 DEF KeepsPromise, Promised, ShouldRetry
    <3> QED BY <2>2, <3>3, RetryIsScheduled
  <2>3. ASSUME NEW w \in Workers, Deliver(w, t) PROVE entry'[t].state = "active"
    BY <1>0, <2>3 DEF Deliver, Dequeue
  <2> QED BY <1>0, <2>1, <2>2, <2>3, EntryEnds
<1>2. CASE row[t].status # "retrying"
  <2>1. PICK w \in Workers : /\ WriteFinal(w) /\ worker[w].task = t
                             /\ worker[w].rec.status = "retrying"
    BY <1>2, RowTurnsRetrying
  <2>2. KeepsPromise(w) /\ worker[w].pc = "final" /\ entry' = entry
    BY <1>0, <2>1 DEF WriteFinal, WorkerAt, PromisesKept
  <2>3. ShouldRetry(w)
    BY <2>1, <2>2 DEF KeepsPromise, Promised
  <2>4. CASE worker[w].detached
    BY <2>1, <2>2, <2>3, <2>4 DEF KeepsPromise
  <2>5. CASE ~worker[w].detached
    BY <1>0, <2>1, <2>2, <2>5 DEF OneHandlerPerTask, Attached, Holds
  <2> QED BY <2>4, <2>5
<1> QED BY <1>1, <1>2

\* The record a worker decides on, or goes on with.
LEMMA DecideEffect ==
  ASSUME worker \in [Workers -> WorkerState], NEW w \in Workers, NEW pc
  PROVE  /\ WorkerGo(w, pc) =>
              /\ worker'[w].pc = pc /\ worker'[w].task = worker[w].task
              /\ worker'[w].retried = worker[w].retried /\ worker'[w].rec = worker[w].rec
              /\ worker'[w].verdict = worker[w].verdict
              /\ worker'[w].detached = worker[w].detached
         /\ \A rec, v : Decide(w, pc, rec, v) =>
              /\ worker'[w].pc = pc /\ worker'[w].task = worker[w].task
              /\ worker'[w].retried = worker[w].retried /\ worker'[w].rec = rec
              /\ worker'[w].verdict = v
              /\ worker'[w].detached = worker[w].detached
<1>1. ASSUME WorkerGo(w, pc)
      PROVE  /\ worker'[w].pc = pc /\ worker'[w].task = worker[w].task
             /\ worker'[w].retried = worker[w].retried /\ worker'[w].rec = worker[w].rec
             /\ worker'[w].verdict = worker[w].verdict
             /\ worker'[w].detached = worker[w].detached
  BY <1>1 DEF WorkerGo, WorkerState
<1>2. ASSUME NEW rec, NEW v, Decide(w, pc, rec, v)
      PROVE  /\ worker'[w].pc = pc /\ worker'[w].task = worker[w].task
             /\ worker'[w].retried = worker[w].retried /\ worker'[w].rec = rec
             /\ worker'[w].verdict = v
             /\ worker'[w].detached = worker[w].detached
  BY <1>2 DEF Decide, WorkerState
<1> QED BY <1>1, <1>2

LEMMA PromiseParts ==
  ASSUME NEW w \in Workers
  PROVE  /\ KeepsPromise(w) <=>
              PromiseOK(row[worker[w].task].status, entry[worker[w].task].state, worker[w])
         /\ KeepsPromise(w)' <=>
              PromiseOK(row'[worker'[w].task].status, entry'[worker'[w].task].state, worker'[w])
BY DEF KeepsPromise, PromiseOK, Promised, ShouldRetry

\* A handler's own steps keep its promise.
LEMMA OwnStepKeeps ==
  ASSUME ~StoreFaults, IInv, NEW w \in Workers, WorkerStep(w), worker'[w].pc # "idle",
         ~worker[w].cancelled,
         PromiseOK(row[worker[w].task].status, entry[worker[w].task].state, worker[w])
  PROVE  PromiseOK(row'[worker'[w].task].status, entry'[worker'[w].task].state, worker'[w])
<1> DEFINE s == worker[w]
           t == s.task
           next == worker'[w]
<1>0. /\ worker \in [Workers -> WorkerState] /\ row \in [Tasks -> Row] /\ s \in WorkerState
      /\ entry \in [Tasks -> Entry]
      /\ s.pc # "idle" => t \in Tasks
      /\ OneHandlerPerTask /\ RowBeforeEntry
  BY DEF IInv, TypeOK, StoreTypeOK, WorkersTypeOK
<1>fail. QueryMayFail(w) => s.detached
  BY DEF QueryMayFail
<1>status. \A x \in Status : WithStatus(w, x).status = x
  BY <1>0 DEF WithStatus, WorkerState, Row
<1>1. CASE Load(w)
  <2>1. s.pc = "load" /\ ~s.detached /\ t \in Tasks /\ UNCHANGED <<row, entry>>
    BY <1>0, <1>1 DEF Load, WorkerAt, PromiseOK
  <2>2. Stored(t)
    BY <1>0, <2>1 DEF OneHandlerPerTask, Attached, Holds, RowBeforeEntry
  <2>3. \/ row[t].status = "cancelled" /\ Decide(w, "ack", row[t], "skip")
        \/ Decide(w, "start", row[t], "nil")
    BY <1>1, <1>fail, <2>1, <2>2 DEF Load
  <2> QED BY <1>0, <2>1, <2>3, DecideEffect DEF PromiseOK
<1>2. CASE Start(w)
  <2>1. s.pc = "start" /\ ~s.detached /\ t \in Tasks /\ UNCHANGED entry
    BY <1>0, <1>2 DEF Start, WorkerAt, PromiseOK
  <2>2. /\ UpdateTask(t, WithStatus(w, "running"))
        /\ Decide(w, "enabled", WithStatus(w, "running"), "nil")
    BY <1>2, <1>fail, <2>1 DEF Start
  <2>3. row'[t].status = "running"
    BY <1>0, <1>status, <2>1, <2>2 DEF UpdateTask, Status
  <2>4. /\ next.pc = "enabled" /\ next.task = t /\ ~next.detached
    BY <1>0, <2>1, <2>2, DecideEffect
  <2> QED BY <2>3, <2>4 DEF PromiseOK
<1>3. CASE CheckEnabled(w)
  <2>1. /\ s.pc = "enabled" /\ ~s.detached /\ t \in Tasks /\ UNCHANGED entry
        /\ row[t].status # "retrying"
    BY <1>0, <1>3 DEF CheckEnabled, WorkerAt, PromiseOK
  <2>2. CASE WorkerGo(w, "exec") /\ UNCHANGED row
    BY <1>0, <2>1, <2>2, DecideEffect DEF PromiseOK
  <2>3. CASE /\ UpdateTask(t, WithStatus(w, "succeeded"))
             /\ Decide(w, "ack", WithStatus(w, "succeeded"), "nil")
    <3>1. row'[t].status = "succeeded"
      BY <1>0, <1>status, <2>1, <2>3 DEF UpdateTask, Status
    <3>2. next.pc = "ack" /\ next.task = t /\ ~next.detached
      BY <1>0, <2>1, <2>3, DecideEffect
    <3> QED BY <3>1, <3>2 DEF PromiseOK
  <2> QED BY <1>3, <1>fail, <2>1, <2>2, <2>3 DEF CheckEnabled
<1>4. CASE Execute(w)
  <2>1. /\ s.pc = "exec" /\ t \in Tasks /\ UNCHANGED <<row, entry>>
        /\ row[t].status # "retrying"
    BY <1>0, <1>4 DEF Execute, WorkerAt, PromiseOK
  <2>2. PICK pc \in {"check", "final"}, x \in Status, v \in Verdict :
          /\ Decide(w, pc, WithStatus(w, x), v)
          /\ x = "retrying" => s.retried < MaxRetry - 1 /\ v = "err"
    BY <1>4 DEF Execute, FailedOrRetrying, ShouldRetry, Status, Verdict
  <2>3. /\ next.pc = pc /\ next.task = t /\ next.retried = s.retried
        /\ next.rec.status = x /\ next.verdict = v /\ next.detached = s.detached
    BY <1>0, <1>status, <2>2, DecideEffect
  <2> QED BY <2>1, <2>2, <2>3 DEF PromiseOK
<1>5. CASE CheckStale(w)
  <2>1. /\ s.pc = "check" /\ t \in Tasks /\ UNCHANGED <<row, entry>>
        /\ row[t].status # "retrying"
    BY <1>0, <1>5 DEF CheckStale, WorkerAt, PromiseOK
  <2>2. CASE Decide(w, "final", WithStatus(w, "cancelled"), "skip")
    <3>1. WithStatus(w, "cancelled").status = "cancelled"
      BY <1>status DEF Status
    <3> DEFINE rec == WithStatus(w, "cancelled")
    <3> HIDE DEF rec
    <3>0. Decide(w, "final", rec, "skip")
      BY <2>2 DEF rec
    <3>2. /\ next.pc = "final" /\ next.task = t /\ next.retried = s.retried
          /\ next.rec = rec /\ next.detached = s.detached
      BY <1>0, <3>0, DecideEffect
    <3> QED BY <2>1, <3>1, <3>2 DEF PromiseOK, rec
  <2>3. CASE WorkerGo(w, "publish")
    BY <1>0, <2>1, <2>3, DecideEffect DEF PromiseOK
  <2> QED BY <1>5, <2>2, <2>3 DEF CheckStale
<1>6. CASE Publish(w)
  <2>1. /\ s.pc = "publish" /\ UNCHANGED <<row, entry>> /\ WorkerGo(w, "final")
    BY <1>6 DEF Publish, WorkerAt
  <2> QED BY <1>0, <2>1, DecideEffect DEF PromiseOK
<1>7. CASE WriteFinal(w)
  <2>1. /\ s.pc = "final" /\ t \in Tasks /\ UNCHANGED entry /\ WorkerGo(w, "ack")
        /\ UpdateTask(t, s.rec)
    BY <1>0, <1>7 DEF WriteFinal, WorkerAt, TryUpdateTask
  <2>2. row'[t].status = s.rec.status
    BY <1>0, <2>1 DEF UpdateTask
  <2>3. /\ next.pc = "ack" /\ next.task = t /\ next.retried = s.retried
        /\ next.verdict = s.verdict /\ next.detached = s.detached
    BY <1>0, <2>1, DecideEffect
  <2> QED BY <2>1, <2>2, <2>3 DEF PromiseOK
<1>8. CASE Ack(w)
  BY <1>0, <1>8 DEF Ack, IdleWorker
<1> QED BY <1>1, <1>2, <1>3, <1>4, <1>5, <1>6, <1>7, <1>8 DEF WorkerStep

LEMMA PromisesStep ==
  ASSUME ~StoreFaults, ~LateHandlers, IInv, CancelIInv, RetryIInv, Alive, [Next]_vars
  PROVE  PromisesKept'
<1>0. /\ TypeOK /\ phase = "up" /\ OneHandlerPerTask /\ OneHolderPerTask /\ ActiveIsHandled
      /\ WorkersTypeOK /\ worker \in [Workers -> WorkerState] /\ entry \in [Tasks -> Entry]
      /\ \A w \in Workers : worker[w].pc # "idle" => worker[w].task \in Tasks
  BY DEF IInv, CancelIInv, RetryIInv, TypeOK, WorkersTypeOK, StoreTypeOK
<1> SUFFICES ASSUME NEW w \in Workers, worker'[w].pc # "idle", ~Gone(row', worker'[w].task)
             PROVE  PromiseOK(row'[worker'[w].task].status, entry'[worker'[w].task].state, worker'[w])
  <2>1. ASSUME NEW w \in Workers, worker'[w].pc # "idle",
               PromiseOK(row'[worker'[w].task].status, entry'[worker'[w].task].state, worker'[w])
        PROVE  KeepsPromise(w)'
    BY <2>1, PromiseParts
  <2>2. ASSUME NEW w \in Workers, Gone(row', worker'[w].task) PROVE Replaced(worker[w].task)'
    BY <2>2 DEF Gone, In, Newer, Replaced, Stored, Superseded
  <2> QED BY <2>1, <2>2 DEF PromisesKept
<1> DEFINE s == worker[w]
           t == s.task
           Good == PromiseOK(row'[worker'[w].task].status, entry'[worker'[w].task].state, worker'[w])
\* What holds of a worker that has the task already.
<1>had. ASSUME s.pc # "idle", worker'[w].task = t
        PROVE  /\ t \in Tasks /\ ~Replaced(t) /\ ~s.cancelled /\ Holds(w, t)
               /\ PromiseOK(row[t].status, entry[t].state, s)
  <2>1. t \in Tasks
    BY <1>0, <1>had
  <2>2. ~Replaced(t)
    BY <1>had, <2>1, GoneStays
  <2>3. ~s.cancelled
    BY <1>had, <2>2, CancelledIsReplaced
  <2>4. KeepsPromise(w)
    BY <1>had, <2>2 DEF RetryIInv, PromisesKept
  <2> QED BY <1>had, <2>1, <2>2, <2>3, <2>4, PromiseParts DEF Holds
\* Another actor's step: the row does not turn "retrying", the retry stays.
<1>1. ASSUME worker'[w] = s PROVE Good
  <2>0. /\ s.pc # "idle" /\ worker'[w].task = t /\ t \in Tasks /\ ~Replaced(t)
        /\ Holds(w, t) /\ PromiseOK(row[t].status, entry[t].state, s)
    BY <1>1, <1>had
  <2>1. row'[t].status = "retrying" => row[t].status = "retrying"
    <3> SUFFICES ASSUME row'[t].status = "retrying", row[t].status # "retrying" PROVE FALSE
      OBVIOUS
    <3>1. PICK v \in Workers : WriteFinal(v) /\ worker[v].task = t
      BY <2>0, RowTurnsRetrying
    <3>2. v = w
      BY <1>0, <2>0, <3>1 DEF OneHolderPerTask, WriteFinal, WorkerAt, Holds
    <3>3. s.pc = "final" /\ worker'[w].pc = "ack"
      BY <1>0, <3>1, <3>2, DecideEffect DEF WriteFinal, WorkerAt
    <3> QED BY <1>1, <3>3
  <2>2. s.detached /\ entry[t].state = "waiting" => entry'[t].state = "waiting"
    <3> SUFFICES ASSUME s.detached, entry[t].state = "waiting" PROVE entry'[t].state = "waiting"
      OBVIOUS
    <3>1. ~\E v \in Workers : Attached(v, t)
      BY <1>0, <2>0 DEF OneHandlerPerTask
    <3>2. ~\E v \in Workers : Deliver(v, t)
      BY <2>0 DEF Deliver
    <3> QED BY <2>0, <3>1, <3>2, EntryEnds DEF RetryIInv
  <2> QED BY <1>1, <2>0, <2>1, <2>2 DEF PromiseOK
<1>2. ASSUME WorkerStep(w) PROVE Good
  <2>1. PICK next : WorkerBecomes(w, next)
    BY <1>0, <1>2, WorkerStepEffect
  <2>2. s.pc # "idle" /\ worker'[w].task = t
    BY <1>0, <2>1 DEF WorkerBecomes
  <2> QED BY <1>2, <1>had, <2>2, OwnStepKeeps
<1>3. ASSUME ContextDone(w) PROVE Good
  <2> DEFINE next == [s EXCEPT !.detached = TRUE, !.cancelled = s.cancelled]
  <2>1. /\ next.pc = s.pc /\ next.rec = s.rec /\ next.task = t /\ next.detached
        /\ next.retried = s.retried /\ next.verdict = s.verdict
    BY <1>0 DEF WorkerState
  <2>2. worker' = [worker EXCEPT ![w] = next] /\ s.pc # "idle" /\ ~s.detached /\ row' = row
    BY <1>3 DEF ContextDone, LetGo
  <2>3. worker'[w] = next
    BY <1>0, <2>2
  <2> HIDE DEF next
  <2>4. /\ t \in Tasks /\ ~s.cancelled /\ Holds(w, t)
        /\ PromiseOK(row[t].status, entry[t].state, s)
    BY <1>had, <2>1, <2>2, <2>3
  <2>5. s.pc \notin {"load", "start", "enabled"}
    BY <1>3, <2>4 DEF ContextDone
  <2>6. s.retried < MaxRetry - 1 => entry'[t].state = "waiting"
    BY <1>3, <2>2, <2>4, RetryIsScheduled DEF Attached
  <2> QED BY <2>1, <2>2, <2>3, <2>4, <2>5, <2>6 DEF PromiseOK
<1>4. ASSUME NEW u \in Tasks, Deliver(w, u) PROVE Good
  <2> DEFINE next == [IdleWorker EXCEPT !.pc = "load", !.task = u, !.retried = entry[u].retried]
  <2>1. next.pc = "load" /\ next.detached = FALSE
    BY DEF IdleWorker
  <2>2. worker' = [worker EXCEPT ![w] = next]
    BY <1>4 DEF Deliver
  <2> HIDE DEF next
  <2>3. worker'[w] = next
    BY <1>0, <2>2
  <2> QED BY <2>1, <2>3 DEF PromiseOK
\* A cancellation is that of a replaced task.
<1>5. ASSUME NEW h \in Handlers, NEW u \in Tasks, CancelInQueue(h, u), CancelContext(u)
      PROVE  Good
  <2>1. Gone(row', u)
    BY <1>5, CancelledIsReplaced, GoneStays
  <2>2. worker'[w].task = t
    BY <1>0, <1>5, CancelContextEffect
  <2>3. worker[w].task # u
    BY <2>1, <2>2
  <2>4. worker'[w] = s
    BY <1>5, <2>3 DEF CancelContext
  <2> QED BY <1>1, <2>4
<1>6. CASE worker' = worker
  BY <1>1, <1>6
<1>7. ASSUME worker' # worker, worker'[w] # s PROVE Good
  <2>1. ~Restart /\ \A v \in Workers : ~LoseLease(v) /\ ~Abort(v)
    BY <1>0, <1>7, AliveSteps
  <2>2. ASSUME NEW v \in Workers, WorkerStep(v) \/ ContextDone(v) PROVE v = w
    <3>1. PICK next : WorkerBecomes(v, next)
      BY <1>0, <2>2, WorkerStepEffect
    <3> QED BY <1>0, <1>7, <3>1 DEF WorkerBecomes
  <2>3. ASSUME NEW v \in Workers, NEW u \in Tasks, Deliver(v, u) PROVE v = w
    BY <1>0, <1>7, <2>3 DEF Deliver
  <2> HIDE DEF Good
  <2> QED BY <1>2, <1>3, <1>4, <1>5, <1>7, <2>1, <2>2, <2>3, WorkerChanges
<1> QED BY <1>1, <1>6, <1>7

LEMMA InitRetryIInv == Init => RetryIInv
<1> SUFFICES ASSUME Init PROVE RetryIInv
  OBVIOUS
<1>1. RetryingHasEntry
  BY DEF Init, RetryingHasEntry, NoRows, NewRow
<1>2. OneHolderPerTask /\ PromisesKept
  BY DEF Init, OneHolderPerTask, PromisesKept, Holds, IdleWorker
<1>3. ActiveIsHandled
  BY DEF Init, ActiveIsHandled, NoEntry
<1> QED BY <1>1, <1>2, <1>3 DEF RetryIInv

\* RetryIInv is inductive for the steps of a server that lives, keeps its leases
\* and whose store works, when no handler outlives the retry delay.
THEOREM RetryIInvInvariant ==
  ASSUME ~StoreFaults, ~LateHandlers
  PROVE  Spec /\ [](phase = "up" /\ restarts = 0) /\ [][KeepsLeases]_vars => []RetryIInv
<1>1. /\ IInv /\ CancelIInv /\ RetryIInv /\ [Next]_vars
      /\ phase = "up" /\ restarts = 0 /\ (phase = "up" /\ restarts = 0)' /\ [KeepsLeases]_vars
      => RetryIInv'
  <2> SUFFICES ASSUME IInv, CancelIInv, RetryIInv, [Next]_vars, restarts = 0, restarts' = 0,
                      phase' = "up", [KeepsLeases]_vars
               PROVE  RetryIInv'
    OBVIOUS
  <2>1. Alive
    BY DEF Alive, Undisturbed
  <2>2. RetryingHasEntry' /\ PromisesKept'
    BY <2>1, RetryingStep, PromisesStep
  <2>3. OneHolderPerTask' /\ ActiveIsHandled'
    BY <2>1, OneHolderStep, ActiveStep DEF RetryIInv
  <2> QED BY <2>2, <2>3 DEF RetryIInv
<1> QED BY InitRetryIInv, IInvInvariant, CancelIInvInvariant, <1>1, PTL DEF Spec

\* For any number of deliveries, requests, handlers and retries: a row that a
\* failed attempt leaves "retrying" has its next attempt in asynq or is replaced.
\* shouldRetry promises no retry too many, whether the attempt ends by itself, by
\* its timeout or by a cancellation.
THEOREM RetriesAreScheduled ==
  ASSUME ~StoreFaults, ~LateHandlers
  PROVE  Spec /\ [](phase = "up" /\ restarts = 0) /\ [][KeepsLeases]_vars
           => []RetryingIsScheduled
<1>1. RetryIInv => RetryingIsScheduled
  BY DEF RetryIInv, RetryingHasEntry, RetryingIsScheduled, Replaced
<1> QED BY RetryIInvInvariant, <1>1, PTL

=============================================================================
