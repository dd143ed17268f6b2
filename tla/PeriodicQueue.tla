---------------------------- MODULE PeriodicQueue ----------------------------
(***************************************************************************)
(* The PeriodicWorker under a QueueWorker: its interval calls run(), which *)
(* drains the queue and resolves at once.  Tasks live on through stop()    *)
(* and need no interval.                                                   *)
(*                                                                         *)
(* drain() is synchronous, so callbacks and timers wait until it is left;  *)
(* the handler that it calls may start or stop the worker.                 *)
(***************************************************************************)
EXTENDS PeriodicWorker

CONSTANTS Tasks, Retries, Concurrency   \* of the QueueWorker

VARIABLES taskQueue, runningTasks, drain, st, attempts, enqueued, started

Queue == INSTANCE QueueWorker

queueVars  == <<taskQueue, runningTasks, drain, st, attempts, enqueued, started>>
workerVars == <<vars, queueVars>>

\* start() and stop(), by any caller while no drain is running, or by a handler.
StartOrStop == drain # "loop" /\ (Start \/ Stop) /\ UNCHANGED queueVars

\* A callback of the promise chain of start().
Callback(g) == drain = "no" /\ ChainStep(g) /\ UNCHANGED queueVars

\* The interval fires, and runCycle calls run().
CycleRuns == Tick /\ Queue!Run

\* run() has resolved; the status callback of the cycle may throw.
CycleOver == drain = "no" /\ EndOfCycle /\ UNCHANGED queueVars

QueueStep ==
  \/ Queue!DrainStep
  \/ \E t \in Tasks : Queue!EnqueueTask(t) \/ Queue!TaskStep(t)

WorkerInit == Init /\ Queue!Init

WorkerNext ==
  \/ StartOrStop
  \/ \E g \in Generation : Callback(g)
  \/ CycleRuns
  \/ CycleOver
  \/ QueueStep /\ UNCHANGED vars

WorkerSpec == WorkerInit /\ [][WorkerNext]_workerVars

\* As in PeriodicWorker: promises settle and timers fire, whenever no drain is
\* running; and a drain ends.  Nothing is assumed of the tasks.
WorkerFairSpec ==
  /\ WorkerSpec
  /\ WF_workerVars(Queue!DrainStep /\ UNCHANGED vars)
  /\ SF_workerVars(\E g \in Generation : Callback(g))
  /\ SF_workerVars(CycleRuns)
  /\ SF_workerVars(CycleOver)

=============================================================================
