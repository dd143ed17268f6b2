--------------------------- MODULE WorkerLifecycle ---------------------------
(***************************************************************************)
(* What a PeriodicWorker promises its owner: it is stopped, starting or    *)
(* running; start and stop move it between these; a cycle starts only      *)
(* while it runs and no other cycle does.  A cycle outlives a stop.        *)
(***************************************************************************)

VARIABLES
  mode,   \* "stopped", "starting" or "running"
  cycles  \* how many cycles are in progress

Init == mode = "stopped" /\ cycles = 0

Start == mode = "stopped" /\ mode' = "starting" /\ UNCHANGED cycles

Prepared == mode = "starting" /\ mode' = "running" /\ UNCHANGED cycles

PrepareFailed == mode = "starting" /\ mode' = "stopped" /\ UNCHANGED cycles

Stop == mode # "stopped" /\ mode' = "stopped" /\ UNCHANGED cycles

CycleBegins == mode = "running" /\ cycles = 0 /\ cycles' = 1 /\ UNCHANGED mode

CycleEnds == cycles = 1 /\ cycles' = 0 /\ UNCHANGED mode

Next == Start \/ Prepared \/ PrepareFailed \/ Stop \/ CycleBegins \/ CycleEnds

Spec == Init /\ [][Next]_<<mode, cycles>>

=============================================================================
