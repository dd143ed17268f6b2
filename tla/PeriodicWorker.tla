--------------------------- MODULE PeriodicWorker ---------------------------
(***************************************************************************)
(* app/periodicWorker.ts: start, stop and the cycles of a PeriodicWorker,  *)
(* with the status that Worker.updateStatus (app/worker.ts) reports.       *)
(*                                                                         *)
(* start() chains three callbacks on a promise: prepare, then the one that *)
(* sets the interval, then `finally`.  stop() and further start() calls    *)
(* fall between them, so the callbacks of an abandoned start still run.    *)
(* Each is an action; the generation a start took names its promise and    *)
(* the interval it sets.                                                   *)
(***************************************************************************)
EXTENDS Naturals, FiniteSets

CONSTANTS
  MaxGeneration   \* bound: how often start and stop may move the generation

ASSUME GenerationAssumption == MaxGeneration \in Nat \ {0}

VARIABLES
  generation,     \* this.generation
  startPromise,   \* generation of the start that this.startPromise is, or None
  chain,          \* how far the promise chain of each generation has come
  cycleTimer,     \* generation of the interval in this.cycleTimer, or None
  timers,         \* intervals that Node still fires
  isLocked,       \* this.isLocked
  runs,           \* how many calls of run() are pending
  ready,          \* this.status.ready, which the metric and the callback follow
  wanted          \* history: the owner's last call was start, not stop

lifeVars  == <<generation, startPromise, chain, cycleTimer, timers, wanted>>
cycleVars == <<isLocked, runs, ready>>
vars      == <<lifeVars, cycleVars>>

None == 0

Generation == 1..MaxGeneration

\* "queued": prepare has not been called; "prepared"/"failed": it settled and
\* the next callback is due; "settling": `finally` is due.
Stage == {"none", "queued", "preparing", "prepared", "failed", "settling", "done"}

Pending(g) == chain[g] \notin {"none", "done"}

-----------------------------------------------------------------------------
(* start() and the callbacks it chains.                                    *)

Start ==
  /\ wanted' = TRUE
  /\ \/ /\ cycleTimer # None \/ startPromise # None
        /\ UNCHANGED <<generation, startPromise, chain>>
     \/ /\ cycleTimer = None /\ startPromise = None
        /\ generation < MaxGeneration
        /\ generation' = generation + 1
        /\ startPromise' = generation + 1
        /\ chain' = [chain EXCEPT ![generation + 1] = "queued"]
  /\ UNCHANGED <<cycleTimer, timers, cycleVars>>

CallPrepare(g) ==
  /\ chain[g] = "queued"
  /\ chain' = [chain EXCEPT ![g] = "preparing"]
  /\ UNCHANGED <<generation, startPromise, cycleTimer, timers, wanted, cycleVars>>

PrepareSettles(g) ==
  /\ chain[g] = "preparing"
  /\ \E result \in {"prepared", "failed"} : chain' = [chain EXCEPT ![g] = result]
  /\ UNCHANGED <<generation, startPromise, cycleTimer, timers, wanted, cycleVars>>

\* The second callback: only the start that is still current sets an interval.
SetTimer(g) ==
  /\ chain[g] = "prepared"
  /\ chain' = [chain EXCEPT ![g] = "settling"]
  /\ IF g = generation
     THEN cycleTimer' = g /\ timers' = timers \cup {g}
     ELSE UNCHANGED <<cycleTimer, timers>>
  /\ UNCHANGED <<generation, startPromise, wanted, cycleVars>>

\* Fault: an abandoned start forgets the promise of the current one.
FinallyForgets(g) ==
  /\ chain[g] \in {"settling", "failed"}
  /\ chain' = [chain EXCEPT ![g] = "done"]
  /\ startPromise' = None
  /\ UNCHANGED <<generation, cycleTimer, timers, wanted, cycleVars>>

\* `finally` also runs when prepare rejected.
Finally(g) ==
  /\ chain[g] \in {"settling", "failed"}
  /\ chain' = [chain EXCEPT ![g] = "done"]
  /\ startPromise' = IF g = generation THEN None ELSE startPromise
  /\ UNCHANGED <<generation, cycleTimer, timers, wanted, cycleVars>>

Stop ==
  /\ generation < MaxGeneration
  /\ wanted' = FALSE
  /\ generation' = generation + 1
  /\ startPromise' = None
  /\ cycleTimer' = None
  /\ timers' = timers \ {cycleTimer}
  /\ UNCHANGED <<chain, cycleVars>>

-----------------------------------------------------------------------------
(* runCycle().                                                             *)

\* An interval fires; a cycle in progress makes it skip.
Tick ==
  /\ timers # {}
  /\ ~isLocked
  /\ isLocked' = TRUE
  /\ runs' = runs + 1
  /\ UNCHANGED <<lifeVars, ready>>

\* Fault: the lock is released in the `try`, not in `finally`.
CycleEndsLocked(caught) ==
  /\ runs > 0
  /\ runs' = runs - 1
  /\ isLocked' = caught
  /\ ready' = ~caught
  /\ UNCHANGED lifeVars

\* run() settles, and the `catch` sees its error or one the status callback threw
\* out of the `try`.  `finally` unlocks, although that callback may throw again.
CycleEnds(caught) ==
  /\ runs > 0
  /\ runs' = runs - 1
  /\ isLocked' = FALSE
  /\ ready' = ~caught
  /\ UNCHANGED lifeVars

-----------------------------------------------------------------------------

Init ==
  /\ generation = 0
  /\ startPromise = None
  /\ chain = [g \in Generation |-> "none"]
  /\ cycleTimer = None
  /\ timers = {}
  /\ isLocked = FALSE
  /\ runs = 0
  /\ ready = TRUE
  /\ wanted = FALSE

ChainStep(g) == CallPrepare(g) \/ PrepareSettles(g) \/ SetTimer(g) \/ Finally(g)

EndOfCycle == \E caught \in BOOLEAN : CycleEnds(caught)

Next ==
  \/ Start
  \/ Stop
  \/ \E g \in Generation : ChainStep(g)
  \/ Tick
  \/ EndOfCycle

Spec == Init /\ [][Next]_vars

\* prepare() and run() settle, and Node runs due callbacks.
FairSpec ==
  /\ Spec
  /\ \A g \in Generation : WF_vars(ChainStep(g))
  /\ WF_vars(Tick)
  /\ WF_vars(EndOfCycle)

-----------------------------------------------------------------------------
(* Properties.                                                             *)

\* The state has its shape.
TypeOK ==
  /\ generation \in 0..MaxGeneration
  /\ startPromise \in Generation \cup {None}
  /\ chain \in [Generation -> Stage]
  /\ cycleTimer \in Generation \cup {None}
  /\ timers \subseteq Generation
  /\ isLocked \in BOOLEAN
  /\ runs \in Nat
  /\ ready \in BOOLEAN
  /\ wanted \in BOOLEAN

\* However starts, stops and late preparations interleave, Node fires the one
\* interval that cycleTimer can clear, and no other (lines 62-66, 74-81).
NoLeakedTimer == timers = {cycleTimer} \ {None}

\* A stopped worker has no interval and no start that could still set one,
\* though preparations from before the stop may be under way.
StopHolds ==
  ~wanted =>
    /\ timers = {} /\ startPromise = None
    /\ \A g \in Generation : Pending(g) => g # generation

\* While the preparation of the current start is pending, a further start()
\* shares it: the `finally` of an older start does not forget it (line 69).
StartIsShared ==
  \A g \in Generation :
    g = generation /\ Pending(g) => startPromise = g

\* Cycles never overlap, also across a stop and a start, and the lock is held
\* exactly while one runs.
CyclesNeverOverlap == runs = (IF isLocked THEN 1 ELSE 0)

\* A worker that is left running begins and ends cycles for ever, though run()
\* and the status callback may fail, and a cycle may date from before a restart.
CyclesRecur == <>[](timers # {}) => []<>isLocked /\ []<>~isLocked

\* What the fields that start() tests say of the worker.
Mode == IF cycleTimer # None THEN "running"
        ELSE IF startPromise # None THEN "starting" ELSE "stopped"

Lifecycle == INSTANCE WorkerLifecycle WITH mode <- Mode, cycles <- runs

\* A PeriodicWorker implements the lifecycle its owner relies on: each callback
\* of an abandoned start is a step that nobody outside sees (lines 60-90).
ImplementsLifecycle == Lifecycle!Spec

=============================================================================
