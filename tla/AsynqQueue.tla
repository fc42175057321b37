----------------------------- MODULE AsynqQueue -----------------------------
(***************************************************************************)
(* The asynq queue in Redis, an external service, as src/internal/queue    *)
(* uses it: buildAsynqTaskID gives a task the same asynq TaskID whoever    *)
(* enqueues it, so there is at most one entry per task.                    *)
(*                                                                         *)
(* "waiting" covers the pending queue and the set of scheduled retries,    *)
(* which no call of the program tells apart; a finished entry is removed,  *)
(* one that failed for good is kept as "archived" and keeps its TaskID.    *)
(***************************************************************************)
EXTENDS Naturals

CONSTANTS
  MaxRetry,     \* TaskMaxRetry(): retries after the first execution
  Redis         \* "up", "flaky" (a call may fail) or "down" (every call fails)

ASSUME AsynqAssumption == /\ MaxRetry \in Nat \ {0}
                          /\ Redis \in {"up", "flaky", "down"}

VARIABLE entry

Entry == [state : {"none", "waiting", "active", "archived"}, retried : 0..MaxRetry]
NoEntry == [state |-> "none", retried |-> 0]
Waiting(n) == [state |-> "waiting", retried |-> n]

CallOK   == Redis # "down"
CallFails == Redis # "up"

\* Mutant: enqueued without the TaskID option.
AcceptAnyway(t) == CallOK /\ entry' = [entry EXCEPT ![t] = Waiting(0)]

\* Client.Enqueue: accepted, or refused because the TaskID is in use.
Accept(t) == /\ CallOK
             /\ entry[t].state = "none"
             /\ entry' = [entry EXCEPT ![t] = Waiting(0)]

Conflict(t) == CallOK /\ entry[t].state # "none" /\ UNCHANGED entry

\* Inspector.DeleteTask refuses an active or unknown task.
CanDelete(t) == CallOK /\ entry[t].state \in {"waiting", "archived"}
DeleteEntry(t) == entry' = [entry EXCEPT ![t] = NoEntry]

\* The server takes a due entry and hands it to a worker.
Dequeue(t) == /\ entry[t].state = "waiting"
              /\ entry' = [entry EXCEPT ![t].state = "active"]

\* What asynq makes of a handler's return value.
Archive(t) == entry' = [entry EXCEPT ![t].state = "archived"]

\* Mutant: enqueued without the MaxRetry option.
RetryAnyway(t) == entry' = [entry EXCEPT ![t] = Waiting(entry[t].retried + 1)]

RetryOrArchive(t) ==
  IF entry[t].retried >= MaxRetry
  THEN Archive(t)
  ELSE entry' = [entry EXCEPT ![t] = Waiting(entry[t].retried + 1)]

Settle(t, verdict) ==
  CASE verdict = "nil"  -> DeleteEntry(t)
    [] verdict = "skip" -> Archive(t)
    [] verdict = "err"  -> RetryOrArchive(t)

\* Shutdown: the message goes back to the queue as it was.
Requeue(t) == entry' = [entry EXCEPT ![t].state = "waiting"]

=============================================================================
