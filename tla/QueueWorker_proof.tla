------------------------- MODULE QueueWorker_proof -------------------------
(***************************************************************************)
(* Proofs about QueueWorker, for every set of tasks, their retries and the *)
(* concurrency.                                                            *)
(*                                                                         *)
(* The counter agrees with the tasks that hold a slot because a task that  *)
(* is shifted off the queue held none: the queue names waiting tasks only, *)
(* each of them once (QueueIsWaiting).                                     *)
(***************************************************************************)
EXTENDS QueueWorker, FiniteSetTheorems, SequenceTheorems, TLAPS

QueueIsWaiting ==
  /\ \A i \in 1..Len(taskQueue) : st[taskQueue[i]] = "queued"
  /\ \A i, j \in 1..Len(taskQueue) : taskQueue[i] = taskQueue[j] => i = j

\* What is left of the attempts of a task.
AttemptsLeft ==
  \A t \in Tasks :
    /\ st[t] \in {"new", "queued"} => attempts[t] = 0
    /\ st[t] = "backoff" => attempts[t] < MaxAttempts(t)

Inv ==
  /\ TypeOK
  /\ QueueIsWaiting
  /\ SlotsAccounted
  /\ NoIdleSlot
  /\ FirstInFirstOut
  /\ AttemptsLeft
  /\ AttemptsBounded

LEMMA MaxAttemptsType == \A t \in Tasks : MaxAttempts(t) \in Nat \ {0}
BY RetriesAssumption DEF MaxAttempts

LEMMA HoldersFinite == IsFiniteSet(Holders)
BY TasksAssumption, FS_Subset DEF Holders

LEMMA InvInitial == Init => Inv
<1> SUFFICES ASSUME Init PROVE Inv
  OBVIOUS
<1>1. Holders = {}
  BY DEF Init, Holders, Holding
<1>2. TypeOK
  BY DEF Init, TypeOK, State, Drain
<1>3. SlotsAccounted
  BY <1>1, FS_EmptySet, ConcurrencyAssumption DEF Init, SlotsAccounted
<1>4. QueueIsWaiting /\ NoIdleSlot /\ FirstInFirstOut
  BY DEF Init, QueueIsWaiting, NoIdleSlot, FirstInFirstOut
<1>5. AttemptsLeft /\ AttemptsBounded
  BY MaxAttemptsType DEF Init, AttemptsLeft, AttemptsBounded
<1> QED
  BY <1>2, <1>3, <1>4, <1>5 DEF Inv

-----------------------------------------------------------------------------
(* The three ways in which a step moves a task.                            *)

\* t goes from one state to another, and takes no slot or gives none back.
LEMMA SlotKept ==
  ASSUME Inv, NEW t \in Tasks, NEW s \in State, st' = [st EXCEPT ![t] = s],
         s \in Holding <=> st[t] \in Holding, UNCHANGED runningTasks
  PROVE  SlotsAccounted'
<1>1. Holders' = Holders
  BY DEF Inv, TypeOK, Holders
<1> QED
  BY <1>1 DEF Inv, SlotsAccounted

LEMMA SlotTaken ==
  ASSUME Inv, NEW t \in Tasks, st[t] \notin Holding, st' = [st EXCEPT ![t] = "attempt"],
         runningTasks < Concurrency, runningTasks' = runningTasks + 1
  PROVE  SlotsAccounted'
<1>1. Holders' = Holders \cup {t} /\ t \notin Holders
  BY DEF Inv, TypeOK, Holders, Holding
<1>2. Cardinality(Holders') = Cardinality(Holders) + 1
  BY <1>1, HoldersFinite, FS_AddElement
<1>3. runningTasks = Cardinality(Holders) /\ runningTasks \in Nat
  BY DEF Inv, SlotsAccounted, TypeOK
<1> QED
  BY <1>2, <1>3, ConcurrencyAssumption DEF SlotsAccounted

LEMMA SlotReleased ==
  ASSUME Inv, NEW t \in Tasks, st[t] \in Holding,
         NEW s \in {"done", "failed"}, st' = [st EXCEPT ![t] = s],
         runningTasks' = runningTasks - 1
  PROVE  SlotsAccounted' /\ runningTasks' \in Nat
<1>1. Holders' = Holders \ {t} /\ t \in Holders
  BY DEF Inv, TypeOK, Holders, Holding
<1>2. Cardinality(Holders') = Cardinality(Holders) - 1
  BY <1>1, HoldersFinite, FS_RemoveElement
<1>3. Cardinality(Holders') \in Nat
  <2>1. IsFiniteSet(Holders \ {t})
    BY HoldersFinite, FS_RemoveElement
  <2>2. Cardinality(Holders \ {t}) \in Nat
    BY <2>1, FS_CardinalityType
  <2> QED
    BY <1>1, <2>2
<1>4. runningTasks = Cardinality(Holders) /\ runningTasks <= Concurrency /\ runningTasks \in Nat
  BY DEF Inv, TypeOK, SlotsAccounted
<1> QED
  BY <1>2, <1>3, <1>4, ConcurrencyAssumption DEF SlotsAccounted

\* A step that leaves the queue alone moves no task that waits in it.
LEMMA QueueKept ==
  ASSUME Inv, NEW t \in Tasks, st[t] # "queued", NEW s, st' = [st EXCEPT ![t] = s],
         UNCHANGED <<taskQueue, enqueued, started>>
  PROVE  QueueIsWaiting' /\ FirstInFirstOut'
<1>1. \A i \in 1..Len(taskQueue) : taskQueue[i] \in Tasks
  BY DEF Inv, TypeOK
<1> QED
  BY <1>1 DEF Inv, TypeOK, QueueIsWaiting, FirstInFirstOut

-----------------------------------------------------------------------------

LEMMA InvInductive == Inv /\ [Next]_vars => Inv'
<1> SUFFICES ASSUME Inv, [Next]_vars PROVE Inv'
  OBVIOUS
<1>1. ASSUME NEW t \in Tasks, EnqueueTask(t) PROVE Inv'
  <2>1. /\ taskQueue \in Seq(Tasks) /\ enqueued \in Seq(Tasks) /\ started \in Seq(Tasks)
        /\ taskQueue' = Append(taskQueue, t) /\ enqueued' = Append(enqueued, t)
        /\ st' = [st EXCEPT ![t] = "queued"] /\ st[t] = "new"
        /\ UNCHANGED <<runningTasks, attempts, started>>
    BY <1>1 DEF EnqueueTask, Inv, TypeOK
  <2>2. TypeOK'
    BY <1>1, <2>1, AppendProperties DEF EnqueueTask, Inv, TypeOK, State, Drain
  <2>3. QueueIsWaiting'
    <3>1. /\ Len(taskQueue') = Len(taskQueue) + 1
          /\ \A i \in 1..Len(taskQueue) : taskQueue'[i] = taskQueue[i]
          /\ taskQueue'[Len(taskQueue) + 1] = t
      BY <2>1, AppendProperties
    <3>2. \A i \in 1..Len(taskQueue) : taskQueue[i] \in Tasks /\ taskQueue[i] # t
      BY <2>1 DEF Inv, QueueIsWaiting
    <3>3. \A i \in 1..Len(taskQueue') : i \in 1..Len(taskQueue) \/ i = Len(taskQueue) + 1
      BY <2>1, <3>1
    <3>4. \A i \in 1..Len(taskQueue') : st'[taskQueue'[i]] = "queued"
      BY <2>1, <3>1, <3>2, <3>3 DEF Inv, TypeOK, QueueIsWaiting
    <3> QED
      BY <3>1, <3>2, <3>3, <3>4 DEF Inv, QueueIsWaiting
  <2>4. SlotsAccounted'
    BY <2>1, SlotKept DEF State, Holding
  <2>5. FirstInFirstOut'
    <3>1. enqueued' = enqueued \o <<t>> /\ taskQueue' = taskQueue \o <<t>>
      BY <2>1, AppendIsConcat
    <3>2. <<t>> \in Seq(Tasks)
      OBVIOUS
    <3>3. started \o (taskQueue \o <<t>>) = (started \o taskQueue) \o <<t>>
      BY <2>1, <3>2, ConcatAssociative
    <3> QED
      BY <2>1, <3>1, <3>3 DEF Inv, FirstInFirstOut
  <2>6. NoIdleSlot'
    BY <1>1 DEF EnqueueTask, NoIdleSlot
  <2>7. AttemptsLeft' /\ AttemptsBounded'
    BY <2>1 DEF Inv, TypeOK, AttemptsLeft, AttemptsBounded, MaxAttempts
  <2> QED
    BY <2>2, <2>3, <2>4, <2>5, <2>6, <2>7 DEF Inv
<1>2. CASE StartTask
  <2> DEFINE t == Head(taskQueue)
  <2>1. /\ drain = "loop" /\ drain' = "handler"
        /\ runningTasks < Concurrency /\ taskQueue # <<>>
        /\ st' = [st EXCEPT ![t] = "attempt"]
        /\ attempts' = [attempts EXCEPT ![t] = @ + 1]
        /\ started' = Append(started, t)
        /\ taskQueue' = Tail(taskQueue)
        /\ runningTasks' = runningTasks + 1
        /\ UNCHANGED enqueued
    BY <1>2 DEF StartTask, HasWork
  <2>2. taskQueue \in Seq(Tasks) /\ started \in Seq(Tasks) /\ runningTasks \in Nat
    BY DEF Inv, TypeOK
  <2>3. /\ t \in Tasks /\ Tail(taskQueue) \in Seq(Tasks)
        /\ Len(Tail(taskQueue)) = Len(taskQueue) - 1
        /\ \A i \in 1..Len(Tail(taskQueue)) : Tail(taskQueue)[i] = taskQueue[i + 1]
    BY <2>1, <2>2, HeadTailProperties
  <2>4. t = taskQueue[1] /\ 1 \in 1..Len(taskQueue)
    BY <2>1, <2>2
  <2>5. st[t] = "queued"
    BY <2>4 DEF Inv, QueueIsWaiting
  <2>6. TypeOK'
    BY <2>1, <2>2, <2>3, AppendProperties DEF Inv, TypeOK, State, Drain
  <2>7. QueueIsWaiting'
    <3>1. \A i \in 1..Len(Tail(taskQueue)) : i + 1 \in 1..Len(taskQueue) /\ i + 1 # 1
      BY <2>2, <2>3
    <3>2. \A i \in 1..Len(Tail(taskQueue)) : taskQueue[i + 1] # t /\ taskQueue[i + 1] \in Tasks
      BY <2>2, <2>4, <3>1 DEF Inv, QueueIsWaiting
    <3>3. \A i \in 1..Len(Tail(taskQueue)) : st'[taskQueue[i + 1]] = "queued"
      BY <2>1, <3>1, <3>2 DEF Inv, TypeOK, QueueIsWaiting
    <3>4. \A i, j \in 1..Len(Tail(taskQueue)) : taskQueue[i + 1] = taskQueue[j + 1] => i = j
      <4>1. \A i, j \in 1..Len(Tail(taskQueue)) :
              taskQueue[i + 1] = taskQueue[j + 1] => i + 1 = j + 1
        BY <3>1 DEF Inv, QueueIsWaiting
      <4> QED
        BY <4>1
    <3> QED
      BY <2>1, <2>3, <3>3, <3>4 DEF QueueIsWaiting
  <2>8. SlotsAccounted'
    BY <2>1, <2>3, <2>5, SlotTaken DEF Holding
  <2>9. FirstInFirstOut'
    <3>1. taskQueue = <<t>> \o Tail(taskQueue)
      BY <2>1, <2>2, <2>3
    <3>2. started' = started \o <<t>>
      BY <2>1, <2>2, <2>3, AppendIsConcat
    <3>3. started' \o Tail(taskQueue) = started \o (<<t>> \o Tail(taskQueue))
      BY <2>2, <2>3, <3>2, ConcatAssociative
    <3> QED
      BY <2>1, <3>1, <3>3 DEF Inv, FirstInFirstOut
  <2>10. AttemptsLeft' /\ AttemptsBounded'
    BY <2>1, <2>3, <2>5, MaxAttemptsType
       DEF Inv, TypeOK, AttemptsLeft, AttemptsBounded
  <2> QED
    BY <2>1, <2>6, <2>7, <2>8, <2>9, <2>10 DEF Inv, NoIdleSlot
<1>3. ASSUME NEW t \in Tasks, NEW ok \in BOOLEAN, AttemptSettles(t, ok) PROVE Inv'
  <2>1. PICK s \in {"succeeded", "exhausted", "backoff"} :
          /\ st' = [st EXCEPT ![t] = s]
          /\ s = "exhausted" => attempts[t] >= MaxAttempts(t)
          /\ s = "backoff" => ~(attempts[t] >= MaxAttempts(t))
    BY <1>3 DEF AttemptSettles
  <2>2. /\ drain = "no" /\ st[t] = "attempt"
        /\ UNCHANGED <<taskQueue, runningTasks, drain, attempts, enqueued, started>>
    BY <1>3 DEF AttemptSettles
  <2>3. TypeOK'
    BY <2>1, <2>2 DEF Inv, TypeOK, State
  <2>4. QueueIsWaiting' /\ FirstInFirstOut'
    BY <2>1, <2>2, QueueKept
  <2>5. SlotsAccounted'
    BY <2>1, <2>2, SlotKept DEF State, Holding
  <2>6. NoIdleSlot'
    BY <2>2 DEF Inv, NoIdleSlot
  <2>7. AttemptsLeft' /\ AttemptsBounded'
    <3>1. \A u \in Tasks : attempts[u] \in Nat /\ MaxAttempts(u) \in Nat
      BY MaxAttemptsType DEF Inv, TypeOK
    <3> QED
      BY <2>1, <2>2, <3>1 DEF Inv, TypeOK, AttemptsLeft, AttemptsBounded, MaxAttempts
  <2> QED
    BY <2>3, <2>4, <2>5, <2>6, <2>7 DEF Inv
<1>4. ASSUME NEW t \in Tasks, Retry(t) PROVE Inv'
  <2>1. /\ drain = "no" /\ st[t] = "backoff"
        /\ st' = [st EXCEPT ![t] = "attempt"]
        /\ attempts' = [attempts EXCEPT ![t] = @ + 1]
        /\ UNCHANGED <<taskQueue, runningTasks, drain, enqueued, started>>
    BY <1>4 DEF Retry
  <2>2. TypeOK'
    BY <2>1 DEF Inv, TypeOK, State
  <2>3. QueueIsWaiting' /\ FirstInFirstOut'
    BY <2>1, QueueKept
  <2>4. SlotsAccounted'
    BY <2>1, SlotKept DEF State, Holding
  <2>5. NoIdleSlot'
    BY <2>1 DEF Inv, NoIdleSlot
  <2>6. AttemptsLeft' /\ AttemptsBounded'
    <3>1. \A u \in Tasks : attempts[u] \in Nat /\ MaxAttempts(u) \in Nat
      BY MaxAttemptsType DEF Inv, TypeOK
    <3> QED
      BY <2>1, <3>1 DEF Inv, TypeOK, AttemptsLeft, AttemptsBounded, MaxAttempts
  <2> QED
    BY <2>2, <2>3, <2>4, <2>5, <2>6 DEF Inv
<1>5. ASSUME NEW t \in Tasks, Release(t) PROVE Inv'
  <2>1. PICK s \in {"done", "failed"} :
          /\ st' = [st EXCEPT ![t] = s]
          /\ s = "failed" => st[t] = "exhausted"
    BY <1>5 DEF Release
  <2>2. /\ st[t] \in {"succeeded", "exhausted"} /\ drain' = "loop"
        /\ runningTasks' = runningTasks - 1
        /\ UNCHANGED <<taskQueue, attempts, enqueued, started>>
    BY <1>5 DEF Release
  <2>3. SlotsAccounted' /\ runningTasks' \in Nat
    BY <2>1, <2>2, SlotReleased DEF Holding
  <2>4. TypeOK'
    BY <2>1, <2>2, <2>3 DEF Inv, TypeOK, State, Drain
  <2>5. QueueIsWaiting' /\ FirstInFirstOut'
    BY <2>1, <2>2, QueueKept
  <2>6. AttemptsLeft' /\ AttemptsBounded'
    BY <2>1, <2>2 DEF Inv, TypeOK, AttemptsLeft, AttemptsBounded, MaxAttempts
  <2> QED
    BY <2>2, <2>3, <2>4, <2>5, <2>6 DEF Inv, NoIdleSlot
<1>6. ASSUME UNCHANGED <<taskQueue, runningTasks, st, attempts, enqueued, started>>,
             drain' \in Drain, drain' = "no" /\ drain # "no" => ~HasWork
      PROVE  Inv'
  <2>1. Holders' = Holders
    BY <1>6 DEF Holders
  <2>2. NoIdleSlot'
    <3>1. runningTasks <= Concurrency /\ runningTasks \in Nat
      BY DEF Inv, SlotsAccounted, TypeOK
    <3> QED
      BY <1>6, <3>1, ConcurrencyAssumption DEF Inv, NoIdleSlot, HasWork
  <2> QED
    BY <1>6, <2>1, <2>2 DEF Inv, TypeOK, QueueIsWaiting, SlotsAccounted, FirstInFirstOut,
                            AttemptsLeft, AttemptsBounded, MaxAttempts
<1>7. CASE Run \/ HandlerYields \/ LeaveDrain
  BY <1>6, <1>7 DEF Run, HandlerYields, LeaveDrain, Drain
<1>8. CASE UNCHANGED vars
  BY <1>6, <1>8 DEF vars, Inv, TypeOK
<1> QED
  BY <1>1, <1>2, <1>3, <1>4, <1>5, <1>7, <1>8 DEF Next, DrainStep, TaskStep

LEMMA InvAlways == Spec => []Inv
BY InvInitial, InvInductive, PTL DEF Spec

\* The state keeps its shape; runningTasks never falls below zero.
THEOREM TypeCorrect == Spec => []TypeOK
BY InvAlways, PTL DEF Inv

\* The concurrency limit holds and no slot leaks, for any number of tasks.
THEOREM Slots == Spec => []SlotsAccounted
BY InvAlways, PTL DEF Inv

\* No wake-up is lost: whenever drain() is left, it left no work behind.
THEOREM NoLostWakeUp == Spec => []NoIdleSlot
BY InvAlways, PTL DEF Inv

\* Tasks start in the order they came.
THEOREM Fifo == Spec => []FirstInFirstOut
BY InvAlways, PTL DEF Inv

\* No task is tried more often than its retries allow.
THEOREM Attempts == Spec => []AttemptsBounded
BY InvAlways, PTL DEF Inv

=============================================================================
