------------------------------ MODULE WorkerPool ------------------------------
(***************************************************************************)
(* The worker pool: calls of Pool.runContainer, each with a container of   *)
(* its own, a stdin writer and a stream monitor; Pool.Shutdown; and the    *)
(* garbage collector that removes what calls and earlier instances of the  *)
(* server left behind.                                                     *)
(*                                                                         *)
(* A container is named by the call that creates it: a call creates at     *)
(* most one.  Its Docker name is Name[c], which others may have as well.   *)
(***************************************************************************)
EXTENDS FiniteSets, Naturals

CONSTANTS
  Runs,        \* calls of runContainer
  Leftovers,   \* containers of an earlier instance of the server
  Name,        \* [Runs \cup Leftovers -> Docker names]: buildContainerName
  Stdin,       \* calls with stdin data
  MaxFaults    \* bound: removals of containers that fail

Containers == Runs \cup Leftovers

ASSUME PoolAssumption ==
  /\ Runs \cap Leftovers = {} /\ Stdin \subseteq Runs
  /\ Containers \subseteq DOMAIN Name
  /\ MaxFaults \in Nat

VARIABLES
  call,       \* [Runs -> a call of runContainer]
  box,        \* [Containers -> a container]
  pool,       \* StreamMonitor.Enabled, and networkCreated
  shutdown,   \* the progress of Shutdown; closed is shutdown # "up"
  gc,         \* the collector's progress through the containers it listed
  faults      \* removals that failed so far

vars == <<call, box, pool, shutdown, gc, faults>>

-----------------------------------------------------------------------------
CallPC == {"idle", "prepare", "create", "evict", "recreate", "attach",
           "start", "wait", "collect", "finish", "remove", "done"}
\* What the call will return; a call that is over keeps nothing.
Error == {"nil", "setup", "docker", "ctx", "stdin", "activity"}
Cause == {"none", "ctx", "stdin", "activity", "timeout", "stopped"}
Call == [pc : CallPC, err : Error,
         ctxDone : BOOLEAN,                       \* the handler's context
         cause : Cause,                           \* why the monitor's ended
         stdin : {"none", "writing", "ok", "failed"},
         monitor : {"none", "watching", "fired", "late", "ended"}]
NewCall == [pc |-> "idle", err |-> "nil", ctxDone |-> FALSE, cause |-> "none",
            stdin |-> "none", monitor |-> "none"]
Over == [NewCall EXCEPT !.pc = "done"]
Box == [st : {"none", "created", "running", "exited"}, age : {"young", "old", "stuck"}]
NoBox == [st |-> "none", age |-> "young"]

\* Calls, containers, Shutdown and the collector are of their types, and a call
\* reports inactivity only if inactivity ended its context.
TypeOK ==
  /\ call \in [Runs -> Call] /\ box \in [Containers -> Box]
  /\ \A r \in Runs : call[r].err = "activity" => call[r].cause = "activity"
  /\ pool \in [streaming : BOOLEAN, network : BOOLEAN] /\ faults \in 0 .. MaxFaults
  /\ shutdown \in {"up", "waiting", "grace", "closed", "abandoned"}
  /\ gc \in [pc : {"idle", "exited", "running"}, list : SUBSET Containers]

\* The calls the wait group counts.
Active == {r \in Runs : call[r].pc \notin {"idle", "done"}}
Holders(n) == {c \in Containers : box[c].st # "none" /\ Name[c] = n}

Init ==
  /\ call = [r \in Runs |-> NewCall]
  /\ box \in {b \in [Containers -> {NoBox, [NoBox EXCEPT !.st = "running"],
                                    [NoBox EXCEPT !.st = "exited"]}] :
                \A r \in Runs : b[r] = NoBox}
  /\ pool \in [streaming : BOOLEAN, network : {FALSE}] /\ faults = 0 /\ shutdown = "up"
  /\ gc = [pc |-> "idle", list |-> {}]

-----------------------------------------------------------------------------
At(r, pc) == call[r].pc = pc
Goto(r, pc) == call' = [call EXCEPT ![r].pc = pc]
Fail(r, pc, e) == call' = [call EXCEPT ![r].pc = pc, ![r].err = e]
Return(r) == call' = [call EXCEPT ![r] = Over]

\* Mutant: the closed check is dropped.
AdmitAlways(r) ==
  /\ At(r, "idle")
  /\ Goto(r, "prepare")
  /\ UNCHANGED <<box, pool, shutdown, gc, faults>>

\* The closed check and wg.Add are one step: both are under shutdownMu.
Admit(r) ==
  /\ At(r, "idle")
  /\ IF shutdown = "up" THEN Goto(r, "prepare") ELSE Return(r)
  /\ UNCHANGED <<box, pool, shutdown, gc, faults>>

\* The task's type, the network (made once, retried until it is) and the image.
Prepare(r) ==
  /\ At(r, "prepare")
  /\ \/ /\ Return(r)
        /\ \E made \in {pool.network, TRUE} : pool' = [pool EXCEPT !.network = made]
     \/ /\ ~call[r].ctxDone
        /\ Goto(r, "create")
        /\ pool' = [pool EXCEPT !.network = TRUE]
  /\ UNCHANGED <<box, shutdown, gc, faults>>

Made(r) ==
  /\ Holders(Name[r]) = {} /\ ~call[r].ctxDone
  /\ box' = [box EXCEPT ![r] = [NoBox EXCEPT !.st = "created"]]
  /\ Goto(r, IF r \in Stdin THEN "attach" ELSE "start")

Create(r) ==
  /\ At(r, "create")
  /\ \/ Made(r)
     \/ Holders(Name[r]) # {} /\ Goto(r, "evict") /\ UNCHANGED box
     \/ Return(r) /\ UNCHANGED box
  /\ UNCHANGED <<pool, shutdown, gc, faults>>

\* The name is taken: whatever holds it is removed by force, by name.
Evict(r) ==
  /\ At(r, "evict")
  /\ \/ /\ ~call[r].ctxDone
        /\ box' = [c \in Containers |-> IF c \in Holders(Name[r]) THEN NoBox ELSE box[c]]
        /\ Goto(r, "recreate")
     \/ Return(r) /\ UNCHANGED box
  /\ UNCHANGED <<pool, shutdown, gc, faults>>

Recreate(r) ==
  /\ At(r, "recreate")
  /\ \/ Made(r)
     \/ Return(r) /\ UNCHANGED box
  /\ UNCHANGED <<pool, shutdown, gc, faults>>

Attach(r) ==
  /\ At(r, "attach")
  /\ \/ ~call[r].ctxDone /\ box[r].st = "created" /\ Goto(r, "start")
     \/ Fail(r, "remove", "setup")
  /\ UNCHANGED <<box, pool, shutdown, gc, faults>>

\* Once it runs, the stdin writer and the monitor run beside the call.
Start(r) ==
  /\ At(r, "start")
  /\ \/ /\ ~call[r].ctxDone /\ box[r].st = "created"
        /\ box' = [box EXCEPT ![r].st = "running"]
        /\ call' = [call EXCEPT
             ![r].pc = "wait",
             ![r].stdin = IF r \in Stdin THEN "writing" ELSE "none",
             ![r].monitor = IF pool.streaming THEN "watching" ELSE "none"]
     \/ Fail(r, "remove", "setup") /\ UNCHANGED box
  /\ UNCHANGED <<pool, shutdown, gc, faults>>

-----------------------------------------------------------------------------
\* What happens beside a call that waits for its container.
Waiting == {"wait", "collect"}
\* context.WithCancelCause: the first cancellation names the cause.
FirstCause(c, cause) == IF c.cause = "none" THEN cause ELSE c.cause

Cancelled(r, cause) == [call[r] EXCEPT !.cause = FirstCause(call[r], cause)]

\* The handler's context ends: a newer task, the task's timeout, a shutdown.
CtxEnds(r) ==
  /\ r \in Active /\ ~call[r].ctxDone
  /\ call' = [call EXCEPT ![r] = [Cancelled(r, "ctx") EXCEPT !.ctxDone = TRUE]]
  /\ UNCHANGED <<box, pool, shutdown, gc, faults>>

\* Mutant: a write into a container that is gone blocks for ever.
StdinNoDeadline(r) ==
  /\ call[r].stdin = "writing" /\ box[r].st = "running"
  /\ \/ call' = [call EXCEPT ![r].stdin = "ok"]
     \/ call' = [call EXCEPT ![r] = [Cancelled(r, "stdin") EXCEPT !.stdin = "failed"]]
  /\ UNCHANGED <<box, pool, shutdown, gc, faults>>

\* writeStdinAsync; the write has a deadline, so it ends.
StdinEnds(r) ==
  /\ call[r].stdin = "writing"
  /\ \/ call' = [call EXCEPT ![r].stdin = "ok"]
     \/ call' = [call EXCEPT ![r] = [Cancelled(r, "stdin") EXCEPT !.stdin = "failed"]]
  /\ UNCHANGED <<box, pool, shutdown, gc, faults>>

\* The activity timer; it may go off together with any other cancellation
\* ("late": the handler's context had ended before).
MonitorFires(r) ==
  /\ call[r].monitor = "watching" /\ call[r].pc \in Waiting
  /\ call' = [call EXCEPT ![r] = [Cancelled(r, "activity")
                 EXCEPT !.monitor = IF call[r].ctxDone THEN "late" ELSE "fired"]]
  /\ UNCHANGED <<box, pool, shutdown, gc, faults>>

\* FollowLogs failed, the stream ended or the context did.
MonitorEnds(r) ==
  /\ call[r].monitor = "watching"
  /\ call' = [call EXCEPT ![r].monitor = "ended"]
  /\ UNCHANGED <<box, pool, shutdown, gc, faults>>

\* Without the monitor, WaitContainer has the task type's timeout.
WaitTimesOut(r) ==
  /\ ~pool.streaming /\ At(r, "wait")
  /\ call' = [call EXCEPT ![r] = Cancelled(r, "timeout")]
  /\ UNCHANGED <<box, pool, shutdown, gc, faults>>

BoxExits(c) ==
  /\ box[c].st = "running"
  /\ box' = [box EXCEPT ![c].st = "exited"]
  /\ UNCHANGED <<call, pool, shutdown, gc, faults>>

-----------------------------------------------------------------------------
\* WaitContainer: the exit status, an error of Docker, or the end of the
\* context, whichever select picks.  A container removed by force was killed.
\* The exit code and the output chosen by it are left out.
Wait(r) ==
  /\ At(r, "wait")
  /\ \/ box[r].st \in {"exited", "none"} /\ Goto(r, "collect")
     \/ Fail(r, "collect", "docker")
     \/ call[r].cause # "none" /\ Fail(r, "collect", "ctx")
  /\ UNCHANGED <<box, pool, shutdown, gc, faults>>

\* Mutant: the monitor's word is taken, not the context's cause.
TimerWentOff(c) == c.monitor \in {"fired", "late"}

Inactive(c) == c.cause = "activity"

\* The monitor is stopped, and an activity timeout put in the place of the
\* error it caused: context.Cause is read after the monitor was cancelled.
Collect(r) ==
  /\ At(r, "collect")
  /\ LET c == IF pool.streaming THEN Cancelled(r, "stopped") ELSE call[r]
     IN call' = [call EXCEPT ![r] =
          [c EXCEPT !.pc = "finish",
                    !.err = IF c.err # "nil" /\ Inactive(c)
                            THEN "activity" ELSE c.err]]
  /\ UNCHANGED <<box, pool, shutdown, gc, faults>>

\* Mutant: the stdin writer's report is read only if it is there already.
FinishNow(r) ==
  /\ At(r, "finish")
  /\ call' = [call EXCEPT ![r].pc = "remove",
                          ![r].err = IF @ = "nil" /\ call[r].stdin = "failed"
                                     THEN "stdin" ELSE @]
  /\ UNCHANGED <<box, pool, shutdown, gc, faults>>

\* finalizeResult blocks until the stdin writer has reported.
Finish(r) ==
  /\ At(r, "finish") /\ call[r].stdin # "writing"
  /\ call' = [call EXCEPT ![r].pc = "remove",
                          ![r].err = IF @ = "nil" /\ call[r].stdin = "failed"
                                     THEN "stdin" ELSE @]
  /\ UNCHANGED <<box, pool, shutdown, gc, faults>>

\* RemoveContainer takes a container that is not there for removed.
Removal(c) ==
  \/ box' = [box EXCEPT ![c] = NoBox] /\ UNCHANGED faults
  \/ box[c].st # "none" /\ faults < MaxFaults
       /\ faults' = faults + 1 /\ UNCHANGED box

\* The deferred removal, under a context of its own.
Remove(r) ==
  /\ At(r, "remove")
  /\ Removal(r)
  /\ Return(r)
  /\ UNCHANGED <<pool, shutdown, gc>>

-----------------------------------------------------------------------------
ShutdownBegins ==
  /\ shutdown = "up" /\ shutdown' = "waiting"
  /\ UNCHANGED <<call, box, pool, gc, faults>>
Drained ==
  /\ shutdown \in {"waiting", "grace"} /\ Active = {}
  /\ shutdown' = "closed"
  /\ UNCHANGED <<call, box, pool, gc, faults>>
\* The caller's deadline, then 30 seconds more; then the client is closed
\* under whatever still runs.
ShutdownTimesOut ==
  /\ \/ shutdown = "waiting" /\ shutdown' = "grace"
     \/ shutdown = "grace" /\ shutdown' = "abandoned"
  /\ UNCHANGED <<call, box, pool, gc, faults>>

-----------------------------------------------------------------------------
\* A container grows older than maxAge (35 minutes), then than forceKillAge
\* (three times that).  The longest tasks have 60 minutes, so the container of a
\* call that goes on may be past the first age but not the second.
Ages(c) ==
  /\ box[c].st # "none" /\ box[c].age # "stuck"
  /\ c \in Active => box[c].age = "young"
  /\ box' = [box EXCEPT ![c].age = IF @ = "young" THEN "old" ELSE "stuck"]
  /\ UNCHANGED <<call, pool, shutdown, gc, faults>>

\* Mutant: the age is not looked at.
AnyAge(st, ages) == {c \in Containers : box[c].st = st}

\* Mutant: only exited containers are looked for.
ExitedOfAge(st, ages) ==
  {c \in Containers : st = "exited" /\ box[c].st = st /\ box[c].age \in ages}

OfAge(st, ages) == {c \in Containers : box[c].st = st /\ box[c].age \in ages}

\* Two scans: exited containers past maxAge, running ones past forceKillAge.
GCList ==
  /\ gc.list = {}
  /\ CASE gc.pc = "idle" -> gc' = [pc |-> "exited",
                                   list |-> OfAge("exited", {"old", "stuck"})]
       [] gc.pc = "exited" -> gc' = [pc |-> "running", list |-> OfAge("running", {"stuck"})]
       [] gc.pc = "running" -> gc' = [pc |-> "idle", list |-> {}]
  /\ UNCHANGED <<call, box, pool, shutdown, faults>>
GCRemove(c) ==
  /\ c \in gc.list
  /\ Removal(c)
  /\ gc' = [gc EXCEPT !.list = @ \ {c}]
  /\ UNCHANGED <<call, pool, shutdown>>

-----------------------------------------------------------------------------
CallStep(r) ==
  \/ Admit(r) \/ Prepare(r) \/ Create(r) \/ Evict(r) \/ Recreate(r)
  \/ Attach(r) \/ Start(r) \/ Wait(r) \/ Collect(r) \/ Finish(r) \/ Remove(r)
Beside(r) ==
  \/ CtxEnds(r) \/ StdinEnds(r) \/ MonitorFires(r)
  \/ MonitorEnds(r) \/ WaitTimesOut(r)
ShutdownStep == ShutdownBegins \/ Drained \/ ShutdownTimesOut
GCStep == GCList \/ \E c \in Containers : GCRemove(c)

Next ==
  \/ \E r \in Runs : CallStep(r) \/ Beside(r)
  \/ \E c \in Containers : BoxExits(c) \/ Ages(c)
  \/ ShutdownStep \/ GCStep

Spec == Init /\ [][Next]_vars

\* Goroutines are scheduled, a write has its deadline and a task its timeout,
\* and the collector's ticker goes on; time makes containers old.
FairSpec ==
  /\ Spec
  /\ \A r \in Runs : /\ WF_vars(~At(r, "idle") /\ CallStep(r))
                     /\ WF_vars(CtxEnds(r)) /\ WF_vars(StdinEnds(r))
  /\ \A c \in Containers : WF_vars(Ages(c))
  /\ WF_vars(GCStep)

-----------------------------------------------------------------------------
\* Shutdown closes the Docker client only when no call is left, or after both
\* its timeouts: no call slips in between the closed check and wg.Add.
ClientOpenWhileRunning == shutdown = "closed" => Active = {}

\* A container that has not exited is taken from under its call only by another
\* call that wants its name: neither the collector, even when the task outlasts
\* maxAge, nor Shutdown, nor a call of another name removes it.
RunningIsKept ==
  [][\A r \in Runs :
       /\ box[r].st \in {"created", "running"} /\ box'[r].st = "none"
       /\ call[r].pc \notin {"remove", "done"}
       => \E q \in Runs \ {r} :
            Name[q] = Name[r] /\ At(q, "evict") /\ call'[q].pc = "recreate"]_vars

\* What CreateContainer takes for a conflict is a left-over of a restart or of a
\* redelivery (docker.go:194): it removes no container whose call goes on.
EvictsLeftovers ==
  [][\A q, r \in Runs :
       At(q, "evict") /\ call'[q].pc = "recreate" /\ box[r].st # "none"
         /\ box'[r].st = "none" => r \notin Active]_vars

\* What a call reports is true, however the writer, the monitor, the context and
\* the container's exit interleave: success only with the whole prompt in the
\* container, inactivity only when the monitor's timer came first, since the
\* processor retries what was inactive and not what was cancelled
\* (pool.go:286-294, 351-402).
ReportsAreTrue ==
  /\ \A r \in Stdin : At(r, "remove") /\ call[r].err = "nil" => call[r].stdin = "ok"
  /\ \A r \in Runs : call[r].err = "activity" => call[r].monitor = "fired"

\* Every call returns, whatever Docker does: finalizeResult does not wait for
\* ever for a writer.
EveryCallReturns == \A r \in Runs : At(r, "prepare") ~> At(r, "done")

\* A container that ran and that its call or an earlier server left behind is
\* removed in the end.
LeftoversCollected ==
  \A c \in Containers :
    (box[c].st \in {"running", "exited"} /\ c \notin Active) ~> box[c].st = "none"
=============================================================================
