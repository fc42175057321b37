--------------------------- MODULE WorkerPool_proofs ---------------------------
(***************************************************************************)
(* Theorems about WorkerPool, for any calls, containers, names and faults. *)
(***************************************************************************)
EXTENDS WorkerPool, TLAPS

USE PoolAssumption

-----------------------------------------------------------------------------
(***************************************************************************)
(* One call: what its record says at every point of runContainer.          *)
(***************************************************************************)
\* Past Start, up to the removal of the container.
Launched == {"wait", "collect", "finish", "remove"}

\* The handler's context leaves its mark on the call's own; only a timer that
\* went off first is a cause; the writer starts with the container, and what
\* finalizeResult returns without an error was written.
CallInv(r, c) ==
  /\ c \in Call
  /\ c.err = "activity" => c.cause = "activity"
  /\ c.ctxDone => c.cause # "none"
  /\ c.cause = "activity" => c.monitor = "fired"
  /\ c.monitor # "none" => c.pc \in Launched
  /\ r \in Stdin /\ c.pc \in {"wait", "collect", "finish"} => c.stdin # "none"
  /\ r \in Stdin /\ c.pc = "remove" /\ c.err = "nil" => c.stdin = "ok"
CallsInv == call \in [Runs -> Call] /\ \A r \in Runs : CallInv(r, call[r])

LEMMA NewCallInv ==
  ASSUME NEW r \in Runs
  PROVE  CallInv(r, NewCall) /\ CallInv(r, Over)
BY DEF CallInv, NewCall, Over, Call, CallPC, Error, Cause, Launched

\* A step that replaces one call by another such call keeps them all.
LEMMA OneCallMoves ==
  ASSUME CallsInv, NEW r \in Runs, NEW c, CallInv(r, c),
         call' = [call EXCEPT ![r] = c]
  PROVE  CallsInv'
BY DEF CallsInv, CallInv

\* A call that is over keeps nothing.
LEMMA ReturnKeeps ==
  ASSUME CallsInv, NEW r \in Runs, Return(r)
  PROVE  CallsInv'
BY NewCallInv, OneCallMoves DEF Return

\* Before its container runs a call has no monitor, and goes on or gives up.
LEMMA GotoKeeps ==
  ASSUME CallsInv, NEW r \in Runs, call[r].pc \notin Launched,
         NEW pc \in CallPC \ Launched, Goto(r, pc)
  PROVE  CallsInv'
<1>1. CallInv(r, [call[r] EXCEPT !.pc = pc])
  BY DEF CallsInv, CallInv, Call, CallPC, Launched
<1> QED BY <1>1, OneCallMoves DEF Goto

\* A call gives up: it removes its container with an error it met on its way.
LEMMA CallFails ==
  ASSUME CallsInv, NEW r \in Runs, NEW pc \in CallPC, NEW e \in Error \ {"nil", "activity"},
         pc \in {"collect", "remove"},
         pc = "collect" => call[r].pc = "wait",
         Fail(r, pc, e)
  PROVE  CallsInv'
<1> DEFINE c == call[r]
           mid == [c EXCEPT !.pc = pc]
           next == [mid EXCEPT !.err = e]
<1>1. CallInv(r, c)
  BY DEF CallsInv
<1>2. mid \in Call /\ mid.pc = pc /\ mid.ctxDone = c.ctxDone /\ mid.cause = c.cause
      /\ mid.stdin = c.stdin /\ mid.monitor = c.monitor
  BY <1>1 DEF CallInv, Call
<1>3. next \in Call /\ next.pc = pc /\ next.err = e /\ next.ctxDone = c.ctxDone
      /\ next.cause = c.cause /\ next.stdin = c.stdin /\ next.monitor = c.monitor
  <2> HIDE DEF mid
  <2> QED BY <1>2 DEF Call
<1>4. call' = [call EXCEPT ![r] = next]
  BY DEF Fail
<1> HIDE DEF c, next
<1>5. CallInv(r, next)
  BY <1>1, <1>3 DEF CallInv, Launched, c
<1> QED BY <1>4, <1>5, OneCallMoves

LEMMA CallStepKeeps ==
  ASSUME CallsInv, NEW r \in Runs, CallStep(r)
  PROVE  CallsInv'
<1> USE DEF CallPC, Launched
<1>1. CASE Admit(r)
  BY <1>1, ReturnKeeps, GotoKeeps DEF Admit, At
<1>2. CASE Prepare(r)
  BY <1>2, ReturnKeeps, GotoKeeps DEF Prepare, At
<1>3. CASE Create(r) \/ Recreate(r)
  BY <1>3, ReturnKeeps, GotoKeeps DEF Create, Recreate, Made, At
<1>4. CASE Evict(r)
  BY <1>4, ReturnKeeps, GotoKeeps DEF Evict, At
<1>5. CASE Attach(r)
  BY <1>5, CallFails, GotoKeeps DEF Attach, At, Error
<1>6. CASE Start(r)
  <2> DEFINE started == [call[r] EXCEPT !.pc = "wait",
                           !.stdin = IF r \in Stdin THEN "writing" ELSE "none",
                           !.monitor = IF pool.streaming THEN "watching" ELSE "none"]
  <2>1. CallInv(r, started)
    <3> DEFINE c == call[r]
    <3>1. CallInv(r, c) /\ c.pc = "start"
      BY <1>6 DEF CallsInv, Start, At
    <3> HIDE DEF c
    <3>2. ASSUME NEW w \in {"writing", "none"}, NEW m \in {"watching", "none"},
                 r \in Stdin => w = "writing"
          PROVE  CallInv(r, [c EXCEPT !.pc = "wait", !.stdin = w, !.monitor = m])
      BY <3>1, <3>2 DEF CallInv, Call
    <3> QED BY <3>2 DEF c
  <2>2. CASE call' = [call EXCEPT ![r] = started]
    <3> HIDE DEF started
    <3> QED BY <2>1, <2>2, OneCallMoves
  <2>3. \/ call' = [call EXCEPT ![r] = started]
        \/ Fail(r, "remove", "setup")
    BY <1>6 DEF Start, CallsInv
  <2> QED BY <1>6, <2>2, <2>3, CallFails DEF Start, At, Error
<1>7. CASE Wait(r)
  <2>1. CallInv(r, [call[r] EXCEPT !.pc = "collect"])
    BY <1>7 DEF CallsInv, CallInv, Call, Wait, At
  <2>2. CASE Goto(r, "collect")
    BY <2>1, <2>2, OneCallMoves DEF Goto
  <2>3. CASE Fail(r, "collect", "docker") \/ Fail(r, "collect", "ctx")
    BY <1>7, <2>3, CallFails DEF Wait, At, Error
  <2> QED BY <1>7, <2>2, <2>3 DEF Wait
<1>8. CASE Collect(r)
  <2> DEFINE c == IF pool.streaming THEN Cancelled(r, "stopped") ELSE call[r]
             next == [c EXCEPT !.pc = "finish",
                               !.err = IF c.err # "nil" /\ Inactive(c)
                                       THEN "activity" ELSE c.err]
  <2>1. CallInv(r, c) /\ c.pc = "collect"
    BY <1>8 DEF CallsInv, CallInv, Call, Collect, At, Cancelled, FirstCause, Cause
  <2>2. CallInv(r, next)
    <3> HIDE DEF c
    <3> QED BY <2>1 DEF CallInv, Call, Error, Inactive
  <2>3. call' = [call EXCEPT ![r] = next]
    BY <1>8 DEF Collect
  <2> HIDE DEF next
  <2> QED BY <2>2, <2>3, OneCallMoves
<1>9. CASE Finish(r)
  <2> DEFINE next == [call[r] EXCEPT !.pc = "remove",
                        !.err = IF call[r].err = "nil" /\ call[r].stdin = "failed"
                                THEN "stdin" ELSE call[r].err]
  <2>1. CallInv(r, next)
    <3> DEFINE c == call[r]
    <3>1. CallInv(r, c) /\ c.pc = "finish" /\ c.stdin # "writing"
      BY <1>9 DEF CallsInv, Finish, At
    <3> HIDE DEF c
    <3>2. CallInv(r, [c EXCEPT !.pc = "remove", !.err = "stdin"])
      BY <3>1 DEF CallInv, Call, Error
    <3>3. ~(c.err = "nil" /\ c.stdin = "failed")
          => CallInv(r, [c EXCEPT !.pc = "remove", !.err = c.err])
      BY <3>1 DEF CallInv, Call
    <3>4. CallInv(r, [c EXCEPT !.pc = "remove",
                        !.err = IF c.err = "nil" /\ c.stdin = "failed" THEN "stdin" ELSE c.err])
      BY <3>2, <3>3
    <3> QED BY <3>4 DEF c
  <2>2. call' = [call EXCEPT ![r] = next]
    BY <1>9 DEF Finish, CallsInv, Call
  <2> HIDE DEF next
  <2> QED BY <2>1, <2>2, OneCallMoves
<1>10. CASE Remove(r)
  BY <1>10, ReturnKeeps DEF Remove
<1> QED BY <1>1, <1>2, <1>3, <1>4, <1>5, <1>6, <1>7, <1>8, <1>9, <1>10 DEF CallStep

LEMMA BesideKeeps ==
  ASSUME CallsInv, NEW r \in Runs, Beside(r)
  PROVE  CallsInv'
<1>0. CallInv(r, call[r])
  BY DEF CallsInv
<1>1. CASE CtxEnds(r)
  <2>1. CallInv(r, [Cancelled(r, "ctx") EXCEPT !.ctxDone = TRUE])
    BY <1>0 DEF CallInv, Call, Cancelled, FirstCause, Cause, Launched
  <2> QED BY <1>1, <2>1, OneCallMoves DEF CtxEnds
<1>2. CASE StdinEnds(r)
  <2>1. CallInv(r, [call[r] EXCEPT !.stdin = "ok"])
    BY <1>0, <1>2 DEF StdinEnds, CallInv, Call, Cancelled, FirstCause, Cause, Launched
  <2>2. CallInv(r, [Cancelled(r, "stdin") EXCEPT !.stdin = "failed"])
    BY <1>0, <1>2 DEF StdinEnds, CallInv, Call, Cancelled, FirstCause, Cause, Launched
  <2> QED BY <1>2, <2>1, <2>2, OneCallMoves DEF StdinEnds
<1>3. CASE MonitorFires(r)
  <2>1. CallInv(r, [Cancelled(r, "activity")
                      EXCEPT !.monitor = IF call[r].ctxDone THEN "late" ELSE "fired"])
    BY <1>0, <1>3 DEF MonitorFires, Waiting, CallInv, Call, Cancelled, FirstCause, Cause, Launched
  <2> QED BY <1>3, <2>1, OneCallMoves DEF MonitorFires
<1>4. CASE MonitorEnds(r)
  <2>1. CallInv(r, [call[r] EXCEPT !.monitor = "ended"])
    BY <1>0, <1>4 DEF MonitorEnds, CallInv, Call, Cancelled, FirstCause, Cause, Launched
  <2> QED BY <1>4, <2>1, OneCallMoves DEF MonitorEnds
<1>5. CASE WaitTimesOut(r)
  <2>1. CallInv(r, Cancelled(r, "timeout"))
    BY <1>0 DEF CallInv, Call, Cancelled, FirstCause, Cause, Launched
  <2> QED BY <1>5, <2>1, OneCallMoves DEF WaitTimesOut
<1> QED BY <1>1, <1>2, <1>3, <1>4, <1>5 DEF Beside

-----------------------------------------------------------------------------
(***************************************************************************)
(* The containers, Shutdown and the collector.                             *)
(***************************************************************************)
\* A removal leaves no container or the one that was there.
LEMMA RemovalEffect ==
  ASSUME box \in [Containers -> Box], faults \in 0 .. MaxFaults,
         NEW c \in Containers, Removal(c)
  PROVE  /\ box' \in [Containers -> Box] /\ faults' \in 0 .. MaxFaults
         /\ \A d \in Containers : box'[d] # box[d] => d = c /\ box'[d] = NoBox
<1>1. NoBox \in Box
  BY DEF NoBox, Box
<1>2. box' \in [Containers -> Box]
      /\ \A d \in Containers : box'[d] # box[d] => d = c /\ box'[d] = NoBox
  <2>1. UNCHANGED box \/ box' = [box EXCEPT ![c] = NoBox]
    BY DEF Removal
  <2> QED BY <1>1, <2>1
<1>3. faults' \in 0 .. MaxFaults
  BY DEF Removal, PoolAssumption
<1> QED BY <1>2, <1>3

\* What is next to the calls in TypeOK.
RestOK ==
  /\ box \in [Containers -> Box]
  /\ pool \in [streaming : BOOLEAN, network : BOOLEAN] /\ faults \in 0 .. MaxFaults
  /\ shutdown \in {"up", "waiting", "grace", "closed", "abandoned"}
  /\ gc \in [pc : {"idle", "exited", "running"}, list : SUBSET Containers]

LEMMA CallStepTypes ==
  ASSUME RestOK, NEW r \in Runs, CallStep(r) \/ Beside(r)
  PROVE  RestOK'
<1> USE DEF RestOK
<1>0. r \in Containers
  BY DEF Containers
<1>1. CASE Admit(r) \/ Attach(r) \/ Wait(r) \/ Collect(r) \/ Finish(r) \/ Beside(r)
  BY <1>1 DEF Admit, Attach, Wait, Collect, Finish, Beside, CtxEnds, StdinEnds,
    MonitorFires, MonitorEnds, WaitTimesOut
<1>2. CASE Prepare(r)
  BY <1>2 DEF Prepare
<1>3. CASE Create(r) \/ Recreate(r)
  BY <1>0, <1>3 DEF Create, Recreate, Made, NoBox, Box
<1>4. CASE Evict(r)
  <2>1. NoBox \in Box
    BY DEF NoBox, Box
  <2> QED BY <1>4, <2>1 DEF Evict
<1>5. CASE Start(r)
  BY <1>0, <1>5 DEF Start, Box
<1>6. CASE Remove(r)
  BY <1>0, <1>6, RemovalEffect DEF Remove
<1> QED BY <1>1, <1>2, <1>3, <1>4, <1>5, <1>6 DEF CallStep

\* A scan lists containers that have exited or are past the second age.
LEMMA GCListEffect ==
  ASSUME gc \in [pc : {"idle", "exited", "running"}, list : SUBSET Containers], GCList
  PROVE  /\ gc' \in [pc : {"idle", "exited", "running"}, list : SUBSET Containers]
         /\ \A c \in gc'.list :
              box[c].st = "exited" \/ (box[c].st = "running" /\ box[c].age = "stuck")
<1>1. CASE gc.pc = "idle"
  BY <1>1 DEF GCList, OfAge
<1>2. CASE gc.pc = "exited"
  BY <1>2 DEF GCList, OfAge
<1>3. CASE gc.pc = "running"
  BY <1>3 DEF GCList
<1> QED BY <1>1, <1>2, <1>3

LEMMA OtherStepTypes ==
  ASSUME RestOK,
         \/ \E c \in Containers : BoxExits(c) \/ Ages(c)
         \/ ShutdownStep \/ GCStep
  PROVE  RestOK' /\ UNCHANGED call
<1> USE DEF RestOK
<1>1. ASSUME NEW c \in Containers, BoxExits(c) PROVE RestOK' /\ UNCHANGED call
  BY <1>1 DEF BoxExits, Box
<1>2. ASSUME NEW c \in Containers, Ages(c) PROVE RestOK' /\ UNCHANGED call
  BY <1>2 DEF Ages, Box
<1>3. ASSUME ShutdownStep PROVE RestOK' /\ UNCHANGED call
  BY <1>3 DEF ShutdownStep, ShutdownBegins, Drained, ShutdownTimesOut
<1>4. ASSUME GCList PROVE RestOK' /\ UNCHANGED call
  BY <1>4, GCListEffect DEF GCList
<1>5. ASSUME NEW c \in Containers, GCRemove(c) PROVE RestOK' /\ UNCHANGED call
  BY <1>5, RemovalEffect DEF GCRemove
<1> QED BY <1>1, <1>2, <1>3, <1>4, <1>5 DEF GCStep

\* What goes on beside a call moves neither it nor anything else but its record.
LEMMA BesideEffect ==
  ASSUME CallsInv, NEW r \in Runs, Beside(r)
  PROVE  /\ UNCHANGED <<box, pool, shutdown, gc, faults>>
         /\ \A q \in Runs : call'[q].pc = call[q].pc
<1>1. call[r] \in Call
  BY DEF CallsInv
<1>2. UNCHANGED <<box, pool, shutdown, gc, faults>>
  BY DEF Beside, CtxEnds, StdinEnds, MonitorFires, MonitorEnds, WaitTimesOut
<1>3. \A cause : Cancelled(r, cause).pc = call[r].pc
  BY <1>1 DEF Cancelled, Call
<1>4. \A cause : LET c == Cancelled(r, cause) IN
        /\ [c EXCEPT !.ctxDone = TRUE].pc = c.pc
        /\ [c EXCEPT !.stdin = "failed"].pc = c.pc
        /\ \A m : [c EXCEPT !.monitor = m].pc = c.pc
  BY <1>1 DEF Cancelled, Call
<1>5. \A q \in Runs : q # r => call'[q] = call[q]
  BY DEF Beside, CtxEnds, StdinEnds, MonitorFires, MonitorEnds, WaitTimesOut, CallsInv
<1>6. call'[r].pc = call[r].pc
  <2>1. CASE CtxEnds(r)
    BY <2>1, <1>3, <1>4 DEF CtxEnds, CallsInv
  <2>2. CASE StdinEnds(r)
    <3>1. [call[r] EXCEPT !.stdin = "ok"].pc = call[r].pc
      BY <1>1 DEF Call
    <3>2. [Cancelled(r, "stdin") EXCEPT !.stdin = "failed"].pc = call[r].pc
      BY <1>3, <1>4
    <3> QED BY <2>2, <3>1, <3>2 DEF StdinEnds, CallsInv
  <2>3. CASE MonitorFires(r)
    BY <2>3, <1>3, <1>4 DEF MonitorFires, CallsInv
  <2>4. CASE MonitorEnds(r)
    BY <2>4, <1>1 DEF MonitorEnds, CallsInv, Call
  <2>5. CASE WaitTimesOut(r)
    BY <2>5, <1>3 DEF WaitTimesOut, CallsInv
  <2> QED BY <2>1, <2>2, <2>3, <2>4, <2>5 DEF Beside
<1> QED BY <1>2, <1>5, <1>6

\* Shutdown is over with its calls: none is admitted once it has begun.
DrainedInv == shutdown = "closed" => Active = {}

LEMMA DrainedKeeps ==
  ASSUME CallsInv, DrainedInv, Next
  PROVE  DrainedInv'
<1> USE DEF DrainedInv
<1>1. ASSUME NEW r \in Runs, CallStep(r) PROVE DrainedInv'
  <2>1. CASE At(r, "idle")
    BY <1>1, <2>1 DEF CallStep, At, Admit, Prepare, Create, Evict, Recreate, Attach,
      Start, Wait, Collect, Finish, Remove, Active, Goto, Return, Over, NewCall, CallsInv
  <2>2. CASE ~At(r, "idle")
    <3>1. shutdown' = shutdown /\ ~At(r, "done")
          /\ \A q \in Runs : q # r => call'[q] = call[q]
      BY <1>1, <2>2 DEF CallStep, At, Admit, Prepare, Create, Evict, Recreate, Attach,
        Start, Wait, Collect, Finish, Remove, Goto, Return, Fail, Made, CallsInv
    <3> QED BY <2>2, <3>1 DEF Active, At
  <2> QED BY <2>1, <2>2
<1>2. ASSUME NEW r \in Runs, Beside(r) PROVE DrainedInv'
  <2>1. UNCHANGED shutdown /\ \A q \in Runs : call'[q].pc = call[q].pc
    BY <1>2, BesideEffect
  <2> QED BY <2>1 DEF Active
<1>3. ASSUME \/ \E c \in Containers : BoxExits(c) \/ Ages(c)
             \/ GCStep
      PROVE  DrainedInv'
  BY <1>3 DEF BoxExits, Ages, GCStep, GCList, GCRemove, Active
<1>4. ASSUME ShutdownStep PROVE DrainedInv'
  BY <1>4 DEF ShutdownStep, ShutdownBegins, Drained, ShutdownTimesOut, Active
<1> QED BY <1>1, <1>2, <1>3, <1>4 DEF Next

-----------------------------------------------------------------------------
(***************************************************************************)
(* The theorems.                                                           *)
(***************************************************************************)
PoolInv == CallsInv /\ RestOK /\ DrainedInv

LEMMA PoolInvInductive ==
  /\ Init => PoolInv
  /\ PoolInv /\ [Next]_vars => PoolInv'
<1>1. ASSUME Init PROVE PoolInv
  <2>1. CallsInv
    BY <1>1, NewCallInv DEF Init, CallsInv, CallInv
  <2>2. RestOK
    <3>1. \A st \in {"running", "exited"} : [NoBox EXCEPT !.st = st] \in Box
      BY DEF NoBox, Box
    <3>2. NoBox \in Box
      BY DEF NoBox, Box
    <3>3. box \in [Containers -> Box]
      BY <1>1, <3>1, <3>2 DEF Init
    <3>4. pool \in [streaming : BOOLEAN, network : BOOLEAN]
      BY <1>1 DEF Init
    <3> QED BY <1>1, <3>3, <3>4 DEF Init, RestOK, PoolAssumption
  <2> QED BY <1>1, <2>1, <2>2 DEF PoolInv, DrainedInv, Init
<1>2. ASSUME PoolInv, [Next]_vars PROVE PoolInv'
  <2>1. CASE Next
    <3>1. CallsInv' /\ RestOK'
      <4>1. ASSUME NEW r \in Runs, CallStep(r) \/ Beside(r) PROVE CallsInv' /\ RestOK'
        BY <1>2, <4>1, CallStepKeeps, BesideKeeps, CallStepTypes DEF PoolInv
      <4>2. ASSUME \/ \E c \in Containers : BoxExits(c) \/ Ages(c)
                   \/ ShutdownStep \/ GCStep
            PROVE  CallsInv' /\ RestOK'
        BY <1>2, <4>2, OtherStepTypes DEF PoolInv, CallsInv, CallInv
      <4> QED BY <2>1, <4>1, <4>2 DEF Next
    <3> QED BY <1>2, <2>1, <3>1, DrainedKeeps DEF PoolInv
  <2>2. CASE UNCHANGED vars
    BY <1>2, <2>2 DEF vars, PoolInv, CallsInv, CallInv, RestOK, DrainedInv, Active
  <2> QED BY <1>2, <2>1, <2>2
<1> QED BY <1>1, <1>2

LEMMA PoolInvInvariant == Spec => []PoolInv
BY PoolInvInductive, PTL DEF Spec

\* Calls, containers, Shutdown and the collector are of their types at all times.
THEOREM TypeCorrect == Spec => []TypeOK
<1>1. PoolInv => TypeOK
  BY DEF PoolInv, CallsInv, CallInv, RestOK, TypeOK
<1> QED BY <1>1, PoolInvInvariant, PTL

\* No call is left when Shutdown has closed the Docker client in time: the
\* closed check and wg.Add of runContainer let no call slip in between.
THEOREM ClientIsOpen == Spec => []ClientOpenWhileRunning
<1>1. PoolInv => ClientOpenWhileRunning
  BY DEF PoolInv, DrainedInv, ClientOpenWhileRunning
<1> QED BY <1>1, PoolInvInvariant, PTL

\* Success means that the prompt was written, inactivity that the monitor's
\* timer came first, however many calls there are and whatever ends them.
THEOREM ReportsAreTrueTheorem == Spec => []ReportsAreTrue
<1>1. PoolInv => ReportsAreTrue
  BY DEF PoolInv, CallsInv, CallInv, ReportsAreTrue, At, PoolAssumption
<1> QED BY <1>1, PoolInvInvariant, PTL

-----------------------------------------------------------------------------
(***************************************************************************)
(* Who removes a container.                                                *)
(***************************************************************************)
\* A call that has no container yet.
Early == {"idle", "prepare", "create", "evict", "recreate"}

\* A call has no container before it creates it; its container is not past the
\* second age while it goes on; and what the collector lists of it has exited.
BoxesInv ==
  /\ \A r \in Runs : call[r].pc \in Early => box[r] = NoBox
  /\ \A r \in Active : box[r].age # "stuck"
  /\ \A r \in Runs : r \in gc.list =>
       \/ call[r].pc = "done"
       \/ call[r].pc \notin Early /\ box[r].st \in {"exited", "none"}

LEMMA CallStepBoxes ==
  ASSUME PoolInv, BoxesInv, NEW r \in Runs, CallStep(r)
  PROVE  BoxesInv'
<1> USE DEF At, Active, Containers, Early
<1>0. /\ call \in [Runs -> Call] /\ box \in [Containers -> Box]
      /\ NoBox \in Box /\ NoBox.st = "none" /\ NoBox.age = "young"
      /\ Over.pc = "done"
  BY DEF PoolInv, CallsInv, RestOK, NoBox, Box, Over, NewCall
<1>1. CASE Admit(r) \/ Prepare(r) \/ Attach(r) \/ Wait(r) \/ Collect(r) \/ Finish(r)
  <2>1. UNCHANGED <<box, gc>> /\ \A q \in Runs : q # r => call'[q] = call[q]
    BY <1>0, <1>1 DEF Admit, Prepare, Attach, Wait, Collect, Finish, Goto, Return, Fail
  <2>2. \/ call'[r].pc = "done"
        \/ call[r].pc = "idle" /\ call'[r].pc = "prepare"
        \/ call[r].pc = "prepare" /\ call'[r].pc = "create"
        \/ call[r].pc \notin {"idle", "prepare", "create", "evict", "recreate", "done"}
            /\ call'[r].pc \notin {"idle", "prepare", "create", "evict", "recreate", "done"}
    <3>1. /\ Return(r) => call'[r].pc = "done"
          /\ \A pc : Goto(r, pc) => call'[r].pc = pc
          /\ \A pc, e : Fail(r, pc, e) => call'[r].pc = pc
      BY <1>0 DEF Goto, Fail, Return, Call
    <3>2. CASE Admit(r) \/ Prepare(r)
      BY <3>1, <3>2 DEF Admit, Prepare
    <3>5. CASE Attach(r)
      BY <3>1, <3>5 DEF Attach
    <3>6. CASE Wait(r)
      BY <3>1, <3>6 DEF Wait
    <3>3. CASE Collect(r)
      BY <1>0, <3>3 DEF Collect
    <3>4. CASE Finish(r)
      BY <1>0, <3>4 DEF Finish
    <3> QED BY <1>1, <3>2, <3>3, <3>4, <3>5, <3>6
  <2> QED BY <1>0, <2>1, <2>2 DEF BoxesInv
<1>2. CASE Create(r) \/ Recreate(r)
  <2>1. CASE Made(r)
    <3>1. box' = [box EXCEPT ![r] = [NoBox EXCEPT !.st = "created"]] /\ UNCHANGED gc
          /\ [NoBox EXCEPT !.st = "created"].age = "young"
      BY <1>2, <2>1 DEF Create, Recreate, Made, NoBox
    <3>2. call[r].pc \notin {"idle", "done"} /\ call'[r].pc \in {"attach", "start"}
          /\ \A q \in Runs : q # r => call'[q] = call[q]
      BY <1>0, <1>2, <2>1 DEF Create, Recreate, Made, Goto, Call
    <3>3. r \notin gc.list /\ \A q \in Containers : q # r => box'[q] = box[q]
      BY <1>0, <1>2, <3>1, <3>2 DEF BoxesInv, Create, Recreate, At
    <3>4. box'[r].age = "young"
      BY <1>0, <3>1
    <3> QED BY <1>0, <3>1, <3>2, <3>3, <3>4 DEF BoxesInv
  <2>2. CASE Goto(r, "evict") /\ At(r, "create") /\ UNCHANGED <<box, gc>>
    BY <1>0, <2>2 DEF Goto, BoxesInv, Call
  <2>3. CASE Return(r) /\ UNCHANGED <<box, gc>>
    BY <1>0, <2>3 DEF Return, BoxesInv
  <2> QED BY <1>2, <2>1, <2>2, <2>3 DEF Create, Recreate
<1>3. CASE Evict(r)
  <2>1. UNCHANGED gc /\ \A c \in Containers : box'[c] \in {NoBox, box[c]}
    BY <1>0, <1>3 DEF Evict
  <2>2. call[r].pc = "evict" /\ call'[r].pc \in {"recreate", "done"}
        /\ \A q \in Runs : q # r => call'[q] = call[q]
    BY <1>0, <1>3 DEF Evict, Goto, Return, Call
  <2>3. r \notin gc.list /\ box'[r] = NoBox
    BY <1>0, <2>1, <2>2 DEF BoxesInv
  <2>4. \A c \in Containers :
          /\ box[c].age # "stuck" => box'[c].age # "stuck"
          /\ box[c].st \in {"exited", "none"} => box'[c].st \in {"exited", "none"}
    BY <1>0, <2>1
  <2>5. \A c \in Containers : box[c] = NoBox => box'[c] = NoBox
    BY <2>1
  <2> QED BY <1>0, <2>1, <2>2, <2>3, <2>4, <2>5 DEF BoxesInv
<1>4. CASE Start(r)
  <2>1. UNCHANGED gc /\ box'[r].age = box[r].age
        /\ \A q \in Runs : q # r => box'[q] = box[q] /\ call'[q] = call[q]
    BY <1>0, <1>4 DEF Start, Fail, Box
  <2>2. call[r].pc = "start" /\ call'[r].pc \in {"wait", "remove"}
    BY <1>0, <1>4 DEF Start, Fail, Call
  <2>3. box'[r] = box[r] \/ box[r].st = "created"
    BY <1>4 DEF Start
  <2> QED BY <1>0, <2>1, <2>2, <2>3 DEF BoxesInv
<1>5. CASE Remove(r)
  <2>1. UNCHANGED gc /\ call'[r].pc = "done"
        /\ \A q \in Runs : q # r => box'[q] = box[q] /\ call'[q] = call[q]
    BY <1>0, <1>5 DEF Remove, Removal, Return
  <2> QED BY <1>0, <2>1 DEF BoxesInv
<1> QED BY <1>1, <1>2, <1>3, <1>4, <1>5 DEF CallStep

LEMMA OtherStepBoxes ==
  ASSUME PoolInv, BoxesInv, UNCHANGED call,
         \/ \E c \in Containers : BoxExits(c) \/ Ages(c)
         \/ ShutdownStep \/ GCStep
  PROVE  BoxesInv'
<1> USE DEF Active, Containers
<1>0. /\ call \in [Runs -> Call] /\ box \in [Containers -> Box]
      /\ NoBox.st = "none" /\ NoBox.age = "young" /\ gc.list \subseteq Containers
  BY DEF PoolInv, CallsInv, RestOK, NoBox, Box
<1>1. ASSUME NEW c \in Containers, BoxExits(c) PROVE BoxesInv'
  <2>1. UNCHANGED gc /\ box[c] # NoBox /\ box'[c].age = box[c].age
        /\ box'[c].st = "exited"
        /\ \A q \in Containers : q # c => box'[q] = box[q]
    BY <1>0, <1>1 DEF BoxExits, Box
  <2> QED BY <2>1 DEF BoxesInv
<1>2. ASSUME NEW c \in Containers, Ages(c) PROVE BoxesInv'
  <2>1. UNCHANGED gc /\ box[c] # NoBox /\ box'[c].st = box[c].st
        /\ (c \in Active => box'[c].age = "old")
        /\ \A q \in Containers : q # c => box'[q] = box[q]
    BY <1>0, <1>2 DEF Ages, Box
  <2> QED BY <2>1 DEF BoxesInv
<1>3. CASE ShutdownStep
  BY <1>3 DEF ShutdownStep, ShutdownBegins, Drained, ShutdownTimesOut, BoxesInv
<1>4. CASE GCList
  <2>1. UNCHANGED box
        /\ \A c \in gc'.list :
             box[c].st = "exited" \/ (box[c].st = "running" /\ box[c].age = "stuck")
    BY <1>4, GCListEffect DEF GCList, PoolInv, RestOK
  <2>2. ASSUME NEW r \in Runs, r \in gc'.list
        PROVE  \/ call[r].pc = "done"
               \/ call[r].pc \notin Early /\ box[r].st = "exited"
    <3>1. box[r] # NoBox
      BY <1>0, <2>1, <2>2
    <3>2. call[r].pc \notin Early
      BY <3>1 DEF BoxesInv
    <3>3. box[r].age = "stuck" => call[r].pc = "done"
      BY <3>2 DEF BoxesInv, Early
    <3> QED BY <2>1, <2>2, <3>2, <3>3
  <2> QED BY <1>0, <2>1, <2>2 DEF BoxesInv
<1>5. ASSUME NEW c \in Containers, GCRemove(c) PROVE BoxesInv'
  <2>1. gc'.list \subseteq gc.list /\ \A q \in Containers : box'[q] \in {NoBox, box[q]}
    BY <1>0, <1>5 DEF GCRemove, Removal, PoolInv, RestOK
  <2> QED BY <1>0, <2>1 DEF BoxesInv
<1> QED BY <1>1, <1>2, <1>3, <1>4, <1>5 DEF GCStep

LEMMA BoxesInductive ==
  /\ Init => BoxesInv
  /\ PoolInv /\ BoxesInv /\ [Next]_vars => BoxesInv'
<1>1. Init => BoxesInv
  BY DEF Init, BoxesInv, NoBox, Active, NewCall
<1>2. ASSUME PoolInv, BoxesInv, [Next]_vars PROVE BoxesInv'
  <2>1. ASSUME NEW r \in Runs, CallStep(r) PROVE BoxesInv'
    BY <1>2, <2>1, CallStepBoxes
  <2>2. ASSUME NEW r \in Runs, Beside(r) PROVE BoxesInv'
    BY <1>2, <2>2, BesideEffect DEF PoolInv, BoxesInv, Active
  <2>3. CASE \/ \E c \in Containers : BoxExits(c) \/ Ages(c)
             \/ ShutdownStep \/ GCStep
    BY <1>2, <2>3, OtherStepTypes, OtherStepBoxes DEF PoolInv
  <2>4. CASE UNCHANGED vars
    BY <1>2, <2>4 DEF vars, BoxesInv, Active
  <2> QED BY <1>2, <2>1, <2>2, <2>3, <2>4 DEF Next
<1> QED BY <1>1, <1>2

\* A step that makes nothing of a container that has not exited.
LEMMA WhoRemoves ==
  ASSUME PoolInv, BoxesInv, [Next]_vars, NEW q \in Runs,
         box[q].st \in {"created", "running"}, box'[q].st = "none",
         call[q].pc \notin {"remove", "done"}
  PROVE  \E r \in Runs \ {q} : Name[r] = Name[q] /\ At(r, "evict") /\ call'[r].pc = "recreate"
<1>0. /\ call \in [Runs -> Call] /\ box \in [Containers -> Box]
      /\ NoBox.st = "none" /\ q \in Containers
  BY DEF PoolInv, CallsInv, RestOK, NoBox, Box, Containers
<1>1. ASSUME NEW r \in Runs, CallStep(r)
      PROVE  r # q /\ Name[r] = Name[q] /\ At(r, "evict") /\ call'[r].pc = "recreate"
  <2>1. CASE Made(r) \/ Start(r)
    BY <1>0, <2>1 DEF Made, Start, NoBox, Box
  <2>2. CASE Evict(r)
    <3>1. q \in Holders(Name[r]) /\ Goto(r, "recreate")
      BY <1>0, <2>2 DEF Evict
    <3>2. call'[r].pc = "recreate"
      BY <1>0, <3>1 DEF Goto, Call
    <3>3. r # q
      BY <1>0, <2>2 DEF BoxesInv, Early, Evict, At
    <3> QED BY <2>2, <3>1, <3>2, <3>3 DEF Holders, Evict
  <2>3. CASE Remove(r)
    BY <1>0, <2>3 DEF Remove, Removal, At
  <2> QED BY <1>0, <1>1, <2>1, <2>2, <2>3 DEF CallStep, Admit, Prepare, Create, Recreate,
    Attach, Wait, Collect, Finish
<1>2. ASSUME NEW r \in Runs, Beside(r) PROVE FALSE
  BY <1>2, BesideEffect DEF PoolInv
<1>3. ASSUME NEW c \in Containers, BoxExits(c) \/ Ages(c) PROVE FALSE
  BY <1>0, <1>3 DEF BoxExits, Ages, Box
<1>4. CASE ShutdownStep \/ GCList \/ UNCHANGED vars
  BY <1>4 DEF ShutdownStep, ShutdownBegins, Drained, ShutdownTimesOut, GCList, vars
<1>5. ASSUME NEW c \in Containers, GCRemove(c) PROVE FALSE
  BY <1>0, <1>5 DEF GCRemove, Removal, BoxesInv
<1> QED BY <1>1, <1>2, <1>3, <1>4, <1>5 DEF Next, GCStep

\* A container that has not exited is taken from under its call by another call
\* that wants its name and by nothing else: whatever the names, however long the
\* tasks within forceKillAge, and with any number of calls, containers of earlier
\* servers and failed removals.
THEOREM ContainersAreKept == Spec => RunningIsKept
<1>1. Init => BoxesInv
  BY BoxesInductive
<1>2. PoolInv /\ BoxesInv /\ [Next]_vars => BoxesInv'
  BY BoxesInductive
<1>3. PoolInv /\ BoxesInv /\ [Next]_vars =>
        [\A r \in Runs :
           /\ box[r].st \in {"created", "running"} /\ box'[r].st = "none"
           /\ call[r].pc \notin {"remove", "done"}
           => \E q \in Runs \ {r} :
                Name[q] = Name[r] /\ At(q, "evict") /\ call'[q].pc = "recreate"]_vars
  BY WhoRemoves
<1> QED BY <1>1, <1>2, <1>3, PoolInvInvariant, PTL DEF Spec, RunningIsKept
=============================================================================
