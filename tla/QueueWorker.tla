----------------------------- MODULE QueueWorker -----------------------------
(***************************************************************************)
(* app/queueWorker.ts: a FIFO queue of tasks, drained by at most           *)
(* Concurrency handlers at a time, with the retries of utils/retry.ts.     *)
(*                                                                         *)
(* drain() is synchronous, but the handler it starts runs up to its first  *)
(* await inside of drain() and may enqueue tasks there.  So the loop of    *)
(* drain() is modelled step by step; everything else the worker does waits *)
(* until the loop is left.                                                 *)
(***************************************************************************)
EXTENDS Naturals, Sequences, FiniteSets

CONSTANTS
  Tasks,        \* the tasks callers enqueue, each one once
  Retries,      \* `retries` of each task; 0 stands for undefined, too
  Concurrency   \* how many tasks may run at a time

ASSUME TasksAssumption       == IsFiniteSet(Tasks)
ASSUME RetriesAssumption     == Retries \in [Tasks -> Nat]
ASSUME ConcurrencyAssumption == Concurrency \in Nat \ {0}

VARIABLES
  taskQueue,     \* this.taskQueue
  runningTasks,  \* this.runningTasks
  drain,         \* where drain() is; this.draining is drain # "no"
  st,            \* where each task is
  attempts,      \* how often the handler of each task was called
  enqueued,      \* history: the tasks in the order they were enqueued
  started        \* history: the tasks in the order they were started

vars == <<taskQueue, runningTasks, drain, st, attempts, enqueued, started>>

\* "attempt": the handler's promise is pending; "backoff": retry.ts sleeps;
\* "succeeded", "exhausted": the task's promise settled and `finally` is due.
State == {"new", "queued", "attempt", "backoff", "succeeded", "exhausted",
          "done", "failed"}

\* "loop": the loop tests its condition; "handler": the synchronous part of the
\* handler that the loop just called is running.
Drain == {"no", "loop", "handler"}

\* The tasks that take a slot.
Holding == {"attempt", "backoff", "succeeded", "exhausted"}

Holders == {t \in Tasks : st[t] \in Holding}

\* How often dispatch is tried: without retries, once.
MaxAttempts(t) == IF Retries[t] > 0 THEN Retries[t] ELSE 1

-----------------------------------------------------------------------------

\* enqueueTask: by any caller while no drain is running, or by the synchronous
\* part of a handler; then the drain it asks for returns at once.
EnqueueTask(t) ==
  /\ st[t] = "new"
  /\ drain # "loop"
  /\ st' = [st EXCEPT ![t] = "queued"]
  /\ taskQueue' = Append(taskQueue, t)
  /\ enqueued' = Append(enqueued, t)
  /\ drain' = IF drain = "no" THEN "loop" ELSE drain
  /\ UNCHANGED <<runningTasks, attempts, started>>

\* run(), which the interval of the PeriodicWorker calls.
Run ==
  /\ drain = "no"
  /\ drain' = "loop"
  /\ UNCHANGED <<taskQueue, runningTasks, st, attempts, enqueued, started>>

HasWork == runningTasks < Concurrency /\ taskQueue # <<>>

\* One turn of the loop: shift a task and call its handler.
StartTask ==
  /\ drain = "loop"
  /\ HasWork
  /\ LET t == Head(taskQueue)
     IN /\ st' = [st EXCEPT ![t] = "attempt"]
        /\ attempts' = [attempts EXCEPT ![t] = @ + 1]
        /\ started' = Append(started, t)
  /\ taskQueue' = Tail(taskQueue)
  /\ runningTasks' = runningTasks + 1
  /\ drain' = "handler"
  /\ UNCHANGED enqueued

\* The handler came to its first await; the loop goes on.
HandlerYields ==
  /\ drain = "handler"
  /\ drain' = "loop"
  /\ UNCHANGED <<taskQueue, runningTasks, st, attempts, enqueued, started>>

LeaveDrain ==
  /\ drain = "loop"
  /\ ~HasWork
  /\ drain' = "no"
  /\ UNCHANGED <<taskQueue, runningTasks, st, attempts, enqueued, started>>

\* The handler's promise settles: the task is over, or an attempt is left.
AttemptSettles(t, ok) ==
  /\ drain = "no"
  /\ st[t] = "attempt"
  /\ st' = [st EXCEPT ![t] = IF ok THEN "succeeded"
                             ELSE IF attempts[t] >= MaxAttempts(t) THEN "exhausted"
                             ELSE "backoff"]
  /\ UNCHANGED <<taskQueue, runningTasks, drain, attempts, enqueued, started>>

\* The backoff of retry.ts ends, and the handler is called again.
Retry(t) ==
  /\ drain = "no"
  /\ st[t] = "backoff"
  /\ st' = [st EXCEPT ![t] = "attempt"]
  /\ attempts' = [attempts EXCEPT ![t] = @ + 1]
  /\ UNCHANGED <<taskQueue, runningTasks, drain, enqueued, started>>

\* Fault: nobody drains the queue when a slot is free again.
ReleaseOnly(t) ==
  /\ drain = "no"
  /\ st[t] \in {"succeeded", "exhausted"}
  /\ st' = [st EXCEPT ![t] = IF @ = "succeeded" THEN "done" ELSE "failed"]
  /\ runningTasks' = runningTasks - 1
  /\ UNCHANGED <<taskQueue, drain, attempts, enqueued, started>>

\* `finally`: give the slot back and drain.
Release(t) ==
  /\ drain = "no"
  /\ st[t] \in {"succeeded", "exhausted"}
  /\ st' = [st EXCEPT ![t] = IF @ = "succeeded" THEN "done" ELSE "failed"]
  /\ runningTasks' = runningTasks - 1
  /\ drain' = "loop"
  /\ UNCHANGED <<taskQueue, attempts, enqueued, started>>

-----------------------------------------------------------------------------

Init ==
  /\ taskQueue = <<>>
  /\ runningTasks = 0
  /\ drain = "no"
  /\ st = [t \in Tasks |-> "new"]
  /\ attempts = [t \in Tasks |-> 0]
  /\ enqueued = <<>>
  /\ started = <<>>

DrainStep == StartTask \/ HandlerYields \/ LeaveDrain

TaskStep(t) == (\E ok \in BOOLEAN : AttemptSettles(t, ok)) \/ Retry(t) \/ Release(t)

Next ==
  \/ DrainStep
  \/ Run
  \/ \E t \in Tasks : EnqueueTask(t) \/ TaskStep(t)

Spec == Init /\ [][Next]_vars

\* Synchronous code ends, and handlers settle.  TaskStep is only enabled between
\* drains, hence the strong fairness.  Nothing is assumed of Run.
FairSpec == Spec /\ WF_vars(DrainStep) /\ \A t \in Tasks : SF_vars(TaskStep(t))

-----------------------------------------------------------------------------
(* Properties.                                                             *)

\* The state has its shape.
TypeOK ==
  /\ taskQueue \in Seq(Tasks)
  /\ runningTasks \in Nat
  /\ drain \in Drain
  /\ st \in [Tasks -> State]
  /\ attempts \in [Tasks -> Nat]
  /\ enqueued \in Seq(Tasks)
  /\ started \in Seq(Tasks)

\* The counter is the number of tasks that hold a slot, retries and backoffs
\* included, and never exceeds the configured concurrency, whatever handlers
\* enqueue while they are being started (lines 70-76, 92-95).
SlotsAccounted == runningTasks = Cardinality(Holders) /\ runningTasks <= Concurrency

\* No wake-up is lost: outside of drain() a task waits only because every slot
\* is taken.  The periodic run() never has to find work (lines 65-107).
NoIdleSlot == drain = "no" /\ taskQueue # <<>> => runningTasks = Concurrency

\* Tasks start in the order they were enqueued, each one once, and none is
\* dropped between the queue and its handler.
FirstInFirstOut == enqueued = started \o taskQueue

\* A handler is called as often as the task's retries allow, and one that was
\* called that often and failed is given up (queueWorker.ts:80-90, retry.ts).
AttemptsBounded ==
  \A t \in Tasks :
    /\ attempts[t] <= MaxAttempts(t)
    /\ st[t] \in {"exhausted", "failed"} => attempts[t] = MaxAttempts(t)

\* Every task that was enqueued is done or given up in the end, also when the
\* worker was never started.
TasksSettle == \A t \in Tasks : st[t] = "queued" ~> st[t] \in {"done", "failed"}

=============================================================================
