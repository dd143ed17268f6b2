------------------------ MODULE PeriodicWorker_proof ------------------------
(***************************************************************************)
(* Proofs about PeriodicWorker, for every bound on the generation.         *)
(*                                                                         *)
(* Which start a callback belongs to is decided by the generation, so the  *)
(* invariant says what the fields hold for the current one: Current.       *)
(* A QueueWorker takes the steps of its PeriodicWorker and of its queue,   *)
(* so what holds of either holds of the two together.                      *)
(***************************************************************************)
EXTENDS PeriodicQueue, TLAPS

\* The fields speak of the current generation, or of none.
Current ==
  /\ \A g \in Generation : g > generation => chain[g] = "none"
  /\ \A g \in Generation :
       g = generation /\ Pending(g) =>
         startPromise = g /\ wanted /\ (chain[g] # "settling" => cycleTimer = None)
  /\ startPromise # None => startPromise = generation /\ Pending(startPromise)
  /\ cycleTimer # None => cycleTimer = generation /\ wanted
  /\ ~wanted => startPromise = None

Inv == TypeOK /\ Current /\ NoLeakedTimer /\ CyclesNeverOverlap

LEMMA InvInitial == Init => Inv
<1> SUFFICES ASSUME Init PROVE Inv
  OBVIOUS
<1>1. TypeOK
  <2>1. generation \in 0..MaxGeneration /\ runs \in Nat
    BY GenerationAssumption DEF Init
  <2>2. chain \in [Generation -> Stage]
    BY DEF Init, Stage
  <2> QED
    BY <2>1, <2>2 DEF Init, TypeOK
<1>2. \A g \in Generation : chain[g] = "none"
  BY DEF Init
<1>3. Current
  BY <1>2 DEF Init, Current, Pending, None
<1> QED
  BY <1>1, <1>3 DEF Init, Inv, NoLeakedTimer, CyclesNeverOverlap, None

LEMMA InvInductive == Inv /\ [Next]_vars => Inv'
<1> SUFFICES ASSUME Inv, [Next]_vars PROVE Inv'
  OBVIOUS
<1> USE GenerationAssumption DEF None, Generation
<1>1. CASE Start
  <2>1. CASE UNCHANGED <<generation, startPromise, chain>>
    BY <1>1, <2>1 DEF Start, Inv, TypeOK, Current, NoLeakedTimer, CyclesNeverOverlap,
                      Pending, cycleVars
  <2>2. CASE /\ cycleTimer = None /\ startPromise = None
             /\ generation < MaxGeneration
             /\ generation' = generation + 1
             /\ startPromise' = generation + 1
             /\ chain' = [chain EXCEPT ![generation + 1] = "queued"]
    <3>1. TypeOK'
      BY <1>1, <2>2 DEF Start, Inv, TypeOK, Stage, cycleVars
    <3>2. Current'
      <4>1. /\ generation + 1 \in Generation /\ generation + 1 # None
            /\ chain'[generation + 1] = "queued"
            /\ \A g \in Generation \ {generation + 1} : chain'[g] = chain[g]
        BY <2>2 DEF Inv, TypeOK
      <4>2. UNCHANGED cycleTimer /\ wanted'
        BY <1>1 DEF Start
      <4>3. \A g \in Generation : g > generation' => chain'[g] = "none"
        BY <2>2, <4>1 DEF Inv, TypeOK, Current
      <4>4. \A g \in Generation : g = generation' => g = generation + 1
        BY <2>2
      <4>5. \A g \in Generation : g = generation' =>
              startPromise' = g /\ wanted' /\ cycleTimer' = None
        BY <2>2, <4>2, <4>4
      <4>6. startPromise' = generation' /\ Pending(startPromise)'
        BY <2>2, <4>1 DEF Pending
      <4> QED
        BY <2>2, <4>2, <4>3, <4>5, <4>6 DEF Current
    <3> QED
      BY <1>1, <2>2, <3>1, <3>2 DEF Start, Inv, NoLeakedTimer, CyclesNeverOverlap, cycleVars
  <2> QED
    BY <1>1, <2>1, <2>2 DEF Start
<1>2. CASE Stop
  <2>1. TypeOK'
    <3>1. /\ generation' \in 0..MaxGeneration /\ startPromise' = None /\ cycleTimer' = None
          /\ timers' \subseteq Generation /\ UNCHANGED chain
      BY <1>2 DEF Stop, Inv, TypeOK
    <3>2. wanted' \in BOOLEAN /\ UNCHANGED <<isLocked, runs, ready>>
      BY <1>2 DEF Stop, cycleVars
    <3> QED
      BY <3>1, <3>2 DEF Inv, TypeOK
  <2>2. Current'
    <3>1. \A g \in Generation : g >= generation' => chain'[g] = "none"
      BY <1>2 DEF Stop, Inv, TypeOK, Current
    <3>2. startPromise' = None /\ cycleTimer' = None
      BY <1>2 DEF Stop
    <3>3. \A g \in Generation : g = generation' => ~Pending(g)'
      BY <1>2, <3>1 DEF Stop, Inv, TypeOK, Pending
    <3> QED
      BY <1>2, <3>1, <3>2, <3>3 DEF Stop, Inv, TypeOK, Current
  <2> QED
    BY <1>2, <2>1, <2>2 DEF Stop, Inv, NoLeakedTimer, CyclesNeverOverlap, cycleVars
<1>3. ASSUME NEW g \in Generation, CallPrepare(g) \/ PrepareSettles(g) PROVE Inv'
  <2>1. /\ Pending(g) /\ chain[g] # "settling"
        /\ \E stage \in Stage \ {"none", "done", "settling"} :
             chain' = [chain EXCEPT ![g] = stage]
        /\ UNCHANGED <<generation, startPromise, cycleTimer, timers, wanted, cycleVars>>
    BY <1>3 DEF CallPrepare, PrepareSettles, Stage, Pending
  <2>2. TypeOK'
    BY <2>1 DEF Inv, TypeOK, cycleVars
  <2>3. Current'
    BY <2>1 DEF Inv, TypeOK, Current, Pending
  <2> QED
    BY <2>1, <2>2, <2>3 DEF Inv, NoLeakedTimer, CyclesNeverOverlap, cycleVars
<1>4. ASSUME NEW g \in Generation, SetTimer(g) PROVE Inv'
  <2>1. TypeOK'
    BY <1>4 DEF SetTimer, Inv, TypeOK, Stage, cycleVars
  <2>2. Current'
    BY <1>4 DEF SetTimer, Inv, TypeOK, Current, Pending
  <2>3. NoLeakedTimer'
    BY <1>4 DEF SetTimer, Inv, Current, Pending, NoLeakedTimer
  <2> QED
    BY <1>4, <2>1, <2>2, <2>3 DEF SetTimer, Inv, CyclesNeverOverlap, cycleVars
<1>5. ASSUME NEW g \in Generation, Finally(g) PROVE Inv'
  <2>1. TypeOK'
    BY <1>5 DEF Finally, Inv, TypeOK, Stage, cycleVars
  <2>2. Current'
    BY <1>5 DEF Finally, Inv, TypeOK, Current, Pending
  <2> QED
    BY <1>5, <2>1, <2>2 DEF Finally, Inv, NoLeakedTimer, CyclesNeverOverlap, cycleVars
<1>6. CASE Tick
  BY <1>6 DEF Tick, Inv, TypeOK, Current, NoLeakedTimer, CyclesNeverOverlap, Pending, lifeVars
<1>7. CASE EndOfCycle
  <2>1. UNCHANGED lifeVars /\ isLocked' = FALSE /\ ready' \in BOOLEAN
    BY <1>7 DEF EndOfCycle, CycleEnds
  <2>2. runs' = 0
    BY <1>7 DEF EndOfCycle, CycleEnds, Inv, TypeOK, CyclesNeverOverlap
  <2>3. TypeOK'
    BY <2>1, <2>2 DEF Inv, TypeOK, lifeVars
  <2>4. Current' /\ NoLeakedTimer'
    BY <2>1 DEF Inv, Current, NoLeakedTimer, Pending, lifeVars
  <2> QED
    BY <2>1, <2>2, <2>3, <2>4 DEF Inv, CyclesNeverOverlap
<1>8. CASE UNCHANGED vars
  BY <1>8 DEF vars, lifeVars, cycleVars, Inv, TypeOK, Current, NoLeakedTimer,
              CyclesNeverOverlap, Pending
<1> QED
  BY <1>1, <1>2, <1>3, <1>4, <1>5, <1>6, <1>7, <1>8 DEF Next, ChainStep

LEMMA InvAlways == Spec => []Inv
BY InvInitial, InvInductive, PTL DEF Spec

\* The state keeps its shape.
THEOREM TypeCorrect == Spec => []TypeOK
BY InvAlways, PTL DEF Inv

\* An interval that cycleTimer does not name never exists, however often the
\* worker is stopped and started while it prepares.
THEOREM TimersOwned == Spec => []NoLeakedTimer
BY InvAlways, PTL DEF Inv

\* Cycles never overlap, across restarts too.
THEOREM OneCycle == Spec => []CyclesNeverOverlap
BY InvAlways, PTL DEF Inv

\* After stop() nothing the worker left behind can set an interval again.
THEOREM Stopped == Spec => []StopHolds
<1>1. Inv => StopHolds
  BY DEF Inv, Current, NoLeakedTimer, StopHolds
<1> QED
  BY <1>1, InvAlways, PTL

\* A second start() joins the preparation that is under way.
THEOREM Shared == Spec => []StartIsShared
<1>1. Inv => StartIsShared
  BY DEF Inv, Current, StartIsShared
<1> QED
  BY <1>1, InvAlways, PTL

-----------------------------------------------------------------------------
(* The refinement: every step is one of WorkerLifecycle, or none.          *)


LEMMA StepImplements == Inv /\ [Next]_vars => [Lifecycle!Next]_<<Mode, runs>>
<1> SUFFICES ASSUME Inv, [Next]_vars PROVE [Lifecycle!Next]_<<Mode, runs>>
  OBVIOUS
<1> USE DEF None, Generation
<1>1. CASE Start
  <2>1. runs' = runs
    BY <1>1 DEF Start, cycleVars
  <2>2. CASE UNCHANGED startPromise
    BY <1>1, <2>1, <2>2 DEF Start, Mode
  <2>3. CASE /\ cycleTimer = None /\ startPromise = None
             /\ startPromise' = generation + 1
    <3>1. Mode = "stopped" /\ Mode' = "starting"
      BY <1>1, <2>3 DEF Start, Mode, Inv, TypeOK
    <3> QED
      BY <2>1, <3>1 DEF Lifecycle!Next, Lifecycle!Start
  <2> QED
    BY <1>1, <2>2, <2>3 DEF Start
<1>2. CASE Stop
  <2>1. Mode' = "stopped" /\ runs' = runs
    BY <1>2 DEF Stop, Mode, cycleVars
  <2> QED
    BY <2>1 DEF Lifecycle!Next, Lifecycle!Stop
<1>3. ASSUME NEW g \in Generation, CallPrepare(g) \/ PrepareSettles(g)
      PROVE UNCHANGED <<Mode, runs>>
  BY <1>3 DEF CallPrepare, PrepareSettles, Mode, cycleVars
<1>4. ASSUME NEW g \in Generation, SetTimer(g) PROVE [Lifecycle!Next]_<<Mode, runs>>
  <2>1. runs' = runs
    BY <1>4 DEF SetTimer, cycleVars
  <2>2. CASE g # generation
    BY <1>4, <2>1, <2>2 DEF SetTimer, Mode
  <2>3. CASE g = generation
    <3>1. cycleTimer = None /\ startPromise = g /\ cycleTimer' = g /\ g # None
      BY <1>4, <2>3 DEF SetTimer, Inv, Current, Pending
    <3>2. Mode = "starting" /\ Mode' = "running"
      BY <3>1 DEF Mode
    <3> QED
      BY <2>1, <3>2 DEF Lifecycle!Next, Lifecycle!Prepared
  <2> QED
    BY <2>2, <2>3
<1>5. ASSUME NEW g \in Generation, Finally(g) PROVE [Lifecycle!Next]_<<Mode, runs>>
  <2>1. runs' = runs /\ cycleTimer' = cycleTimer
    BY <1>5 DEF Finally, cycleVars
  <2>2. CASE g # generation \/ cycleTimer # None
    BY <1>5, <2>1, <2>2 DEF Finally, Mode
  <2>3. CASE g = generation /\ cycleTimer = None
    <3>1. startPromise = g /\ startPromise' = None
      BY <1>5, <2>3 DEF Finally, Inv, Current, Pending
    <3>2. Mode = "starting" /\ Mode' = "stopped"
      BY <2>1, <2>3, <3>1 DEF Mode
    <3> QED
      BY <2>1, <3>2 DEF Lifecycle!Next, Lifecycle!PrepareFailed
  <2> QED
    BY <2>2, <2>3
<1>6. CASE Tick
  <2>1. Mode = "running" /\ UNCHANGED Mode
    BY <1>6 DEF Tick, Inv, NoLeakedTimer, Mode, lifeVars
  <2>2. runs = 0 /\ runs' = 1
    BY <1>6 DEF Tick, Inv, CyclesNeverOverlap
  <2> QED
    BY <2>1, <2>2 DEF Lifecycle!Next, Lifecycle!CycleBegins
<1>7. CASE EndOfCycle
  <2>1. UNCHANGED Mode
    BY <1>7 DEF EndOfCycle, CycleEnds, Mode, lifeVars
  <2>2. runs = 1 /\ runs' = 0
    BY <1>7 DEF EndOfCycle, CycleEnds, Inv, TypeOK, CyclesNeverOverlap
  <2> QED
    BY <2>1, <2>2 DEF Lifecycle!Next, Lifecycle!CycleEnds
<1>8. CASE UNCHANGED vars
  BY <1>8 DEF vars, lifeVars, cycleVars, Mode
<1> QED
  BY <1>1, <1>2, <1>3, <1>4, <1>5, <1>6, <1>7, <1>8 DEF Next, ChainStep

\* Whatever callbacks of abandoned starts do, a PeriodicWorker behaves like a
\* worker that is stopped, starting or running, and cycles only while it runs.
THEOREM Refinement == Spec => ImplementsLifecycle
<1>1. Init => Lifecycle!Init
  BY DEF Init, Lifecycle!Init, Mode, None
<1> QED
  BY <1>1, InvAlways, StepImplements, PTL DEF Spec, ImplementsLifecycle, Lifecycle!Spec

-----------------------------------------------------------------------------
(* The PeriodicWorker and the queue of a QueueWorker.                      *)

LEMMA WorkerSteps ==
  [WorkerNext]_workerVars => [Next]_vars /\ [Queue!Next]_(Queue!vars)
<1> SUFFICES ASSUME [WorkerNext]_workerVars
             PROVE  [Next]_vars /\ [Queue!Next]_(Queue!vars)
  OBVIOUS
<1> USE DEF queueVars, Queue!vars
<1>1. CASE StartOrStop
  BY <1>1 DEF StartOrStop, Next
<1>2. CASE \E g \in Generation : Callback(g)
  BY <1>2 DEF Callback, Next
<1>3. CASE CycleRuns
  BY <1>3 DEF CycleRuns, Next, Queue!Next
<1>4. CASE CycleOver
  BY <1>4 DEF CycleOver, Next
<1>5. CASE QueueStep /\ UNCHANGED vars
  BY <1>5 DEF QueueStep, Queue!Next
<1>6. CASE UNCHANGED workerVars
  BY <1>6 DEF workerVars
<1> QED
  BY <1>1, <1>2, <1>3, <1>4, <1>5, <1>6 DEF WorkerNext

\* With tasks and drains between its callbacks, a QueueWorker is a PeriodicWorker
\* still, so the theorems above hold of it.
THEOREM PeriodicInside == WorkerSpec => Spec
BY WorkerSteps, PTL DEF WorkerSpec, WorkerInit, Spec

\* Started, stopped or restarted, its queue is the one of QueueWorker.
THEOREM QueueInside == WorkerSpec => Queue!Spec
BY WorkerSteps, PTL DEF WorkerSpec, WorkerInit, Queue!Spec

=============================================================================
