------------------------------ MODULE CliRunner ------------------------------
(***************************************************************************)
(* agents/cli-runner.ts: one CliRunner.run(), from spawn to its verdict.   *)
(*                                                                         *)
(* The events of the child, of its output, of the abort signal and of the  *)
(* three timers come in any order until `close`; one of them may terminate *)
(* the child, another complete its result.  A line of output counts by     *)
(* what the adapter makes of it.                                           *)
(***************************************************************************)

VARIABLES
  exitPolicy,           \* of the adapter; the run never changes it
  child,                \* the process: "spawning", "alive" or "dead"
  exitCode,             \* of a dead child
  pipes,                \* who may still write: "child", "other" or "nobody"
  lastLine,             \* what the unterminated end of stdout will turn out to be
  timeoutHandle, killHandle, resultExitHandle,   \* the timers
  listening,            \* the abort handler is registered
  terminated,           \* history: terminate() was called
  killedByTimeout, killedByAbortSignal, abortReason, resultCompleted,
  verdict               \* how run() settled

timerVars == <<timeoutHandle, killHandle, resultExitHandle, listening>>
flagVars  == <<killedByTimeout, killedByAbortSignal, abortReason, resultCompleted>>
childVars == <<exitPolicy, child, exitCode, pipes>>
vars      == <<childVars, lastLine, timerVars, terminated, flagVars, verdict>>

Timer == {"unset", "armed", "off"}

\* What a line does: complete the result, make consumeEvent throw, or show the
\* adapter an error (a line that is no JSON, or one of stderr).
LineKind == {"result", "throws", "diagnostic"}

ExitPolicy == {"trust-result", "require-zero"}

Verdict == {"pending", "error", "timeout", "aborted", "reason", "exit", "failed", "ok"}

Awaiting == verdict = "pending"

-----------------------------------------------------------------------------

\* clearTimeout of a handle that may not be set.
Cleared(handle) == IF handle = "armed" THEN "off" ELSE handle

\* Fault: SIGTERM alone.
TerminateOnly == terminated' = TRUE /\ UNCHANGED killHandle

\* terminate(): SIGTERM, and the timer of the SIGKILL unless there was one.
Terminate ==
  /\ terminated' = TRUE
  /\ killHandle' = IF killHandle = "unset" THEN "armed" ELSE killHandle

\* What the handlers do with a line.  Only the first diagnostic counts.
Consume(kind) ==
  \/ /\ kind = "result" /\ ~resultCompleted
     /\ resultCompleted' = TRUE
     /\ timeoutHandle' = Cleared(timeoutHandle)
     /\ resultExitHandle' = "armed"
     /\ UNCHANGED <<abortReason, terminated, killHandle>>
  \/ /\ kind = "throws" \/ (kind = "diagnostic" /\ ~abortReason)
     /\ abortReason' = TRUE
     /\ Terminate
     /\ UNCHANGED <<resultCompleted, timeoutHandle, resultExitHandle>>

\* A line of output arrives.
Output(kind) ==
  /\ Awaiting /\ child # "spawning" /\ pipes # "nobody"
  /\ Consume(kind)
  /\ UNCHANGED <<childVars, lastLine, listening, killedByTimeout,
                 killedByAbortSignal, verdict>>

\* The child leaves an unterminated line, which only parser.end() will parse.
LeaveLine(kind) ==
  /\ Awaiting /\ child = "alive" /\ lastLine = "none"
  /\ lastLine' = kind
  /\ UNCHANGED <<childVars, timerVars, terminated, flagVars, verdict>>

-----------------------------------------------------------------------------
(* The timers and the abort signal.                                        *)

TimeoutFires ==
  /\ timeoutHandle = "armed" /\ child # "spawning"
  /\ timeoutHandle' = "off"
  /\ killedByTimeout' = TRUE
  /\ Terminate
  /\ UNCHANGED <<childVars, lastLine, resultExitHandle, listening,
                 killedByAbortSignal, abortReason, resultCompleted, verdict>>

Abort ==
  /\ listening /\ child # "spawning"
  /\ listening' = FALSE
  /\ killedByAbortSignal' = TRUE
  /\ abortReason' = TRUE
  /\ Terminate
  /\ UNCHANGED <<childVars, lastLine, timeoutHandle, resultExitHandle,
                 killedByTimeout, resultCompleted, verdict>>

\* The child had its time to exit after a completed result.
ResultExitFires ==
  /\ resultExitHandle = "armed"
  /\ resultExitHandle' = "off"
  /\ Terminate
  /\ UNCHANGED <<childVars, lastLine, timeoutHandle, listening, flagVars, verdict>>

\* The pipes of a child that died: another process may hold them.
ReleasePipes == pipes' \in {"nobody", "other"}

\* A child that a signal killed has no code; `code ?? 1` makes it a failure.
CodeOfSignal == "nonzero"

\* SIGKILL.
KillFires ==
  /\ killHandle = "armed"
  /\ killHandle' = "off"
  /\ IF child = "alive"
     THEN child' = "dead" /\ exitCode' = CodeOfSignal /\ ReleasePipes
     ELSE UNCHANGED <<child, exitCode, pipes>>
  /\ UNCHANGED <<exitPolicy, lastLine, timeoutHandle, resultExitHandle, listening,
                 terminated, flagVars, verdict>>

-----------------------------------------------------------------------------
(* The child.                                                              *)

\* spawn() reports a failure on the next tick, before any timer or event.
Spawned ==
  /\ child = "spawning" /\ Awaiting
  /\ child' = "alive"
  /\ UNCHANGED <<exitPolicy, exitCode, pipes, lastLine, timerVars, terminated, flagVars, verdict>>

\* The `finally` of the await.
ClearAll ==
  /\ timeoutHandle' = Cleared(timeoutHandle)
  /\ listening' = FALSE

SpawnFails ==
  /\ child = "spawning" /\ Awaiting
  /\ ClearAll
  /\ killHandle' = Cleared(killHandle)
  /\ resultExitHandle' = Cleared(resultExitHandle)
  /\ verdict' = "error"
  /\ UNCHANGED <<childVars, lastLine, terminated, flagVars>>

\* The child exits by itself, or of the SIGTERM.
ChildExits(code) ==
  /\ child = "alive"
  /\ child' = "dead"
  /\ exitCode' = code
  /\ ReleasePipes
  /\ UNCHANGED <<exitPolicy, lastLine, timerVars, terminated, flagVars, verdict>>

OtherExits ==
  /\ pipes = "other"
  /\ pipes' = "nobody"
  /\ UNCHANGED <<exitPolicy, child, exitCode, lastLine, timerVars, terminated, flagVars, verdict>>

\* parser.end() consumes the last line, when the timers are cleared already: a
\* result arms the exit timer, a diagnostic the kill timer; a throw only counts.
EndOfOutput ==
  LET completes == lastLine = "result" /\ ~resultCompleted
      diagnosed == lastLine = "diagnostic" /\ ~abortReason
  IN /\ resultCompleted' = (resultCompleted \/ completes)
     /\ abortReason' = (abortReason \/ diagnosed \/ lastLine = "throws")
     /\ resultExitHandle' = IF completes THEN "armed" ELSE Cleared(resultExitHandle)
     /\ killHandle' = IF diagnosed /\ killHandle = "unset" THEN "armed" ELSE Cleared(killHandle)
     /\ terminated' = (terminated \/ diagnosed)

\* Fault: an abort reason is forgotten once the child exited with 0.
JudgeByExit(finalized) ==
  verdict' = IF killedByTimeout THEN "timeout"
             ELSE IF killedByAbortSignal THEN "aborted"
             ELSE IF ~resultCompleted' /\ exitPolicy # "trust-result" /\ exitCode # "zero" THEN "exit"
             ELSE IF finalized THEN "ok" ELSE "failed"

\* The verdict on what is known after parser.end(); finalize has the last word.
Judge(finalized) ==
  verdict' = IF killedByTimeout THEN "timeout"
             ELSE IF killedByAbortSignal THEN "aborted"
             ELSE IF abortReason' THEN "reason"
             ELSE IF ~resultCompleted' /\ exitPolicy # "trust-result" /\ exitCode # "zero" THEN "exit"
             ELSE IF finalized THEN "ok" ELSE "failed"

\* `close`: the child is dead and nobody can write to its pipes any more.
Close ==
  /\ Awaiting /\ child = "dead" /\ pipes = "nobody"
  /\ ClearAll
  /\ EndOfOutput
  /\ \E finalized \in BOOLEAN : Judge(finalized)
  /\ UNCHANGED <<childVars, lastLine, killedByTimeout, killedByAbortSignal>>

-----------------------------------------------------------------------------

Init ==
  /\ exitPolicy \in ExitPolicy
  /\ child = "spawning"
  /\ exitCode = "zero"
  /\ pipes = "child"
  /\ lastLine = "none"
  /\ timeoutHandle = "armed"
  /\ killHandle = "unset"
  /\ resultExitHandle = "unset"
  /\ listening \in BOOLEAN
  /\ terminated = FALSE
  /\ killedByTimeout = FALSE
  /\ killedByAbortSignal = FALSE
  /\ abortReason = FALSE
  /\ resultCompleted = FALSE
  /\ verdict = "pending"

Next ==
  \/ Spawned
  \/ SpawnFails
  \/ TimeoutFires
  \/ ResultExitFires
  \/ KillFires
  \/ Abort
  \/ \E kind \in LineKind : Output(kind) \/ LeaveLine(kind)
  \/ \E code \in {"zero", CodeOfSignal} : ChildExits(code)
  \/ OtherExits
  \/ Close

Spec == Init /\ [][Next]_vars

\* Node fires timers, reports the outcome of the spawn and the end of the pipes.
\* Nothing is assumed of the child, nor of who inherited its pipes.
FairSpec ==
  /\ Spec
  /\ WF_vars(Spawned \/ SpawnFails)
  /\ WF_vars(TimeoutFires) /\ WF_vars(ResultExitFires) /\ WF_vars(KillFires)
  /\ WF_vars(Close)

-----------------------------------------------------------------------------
(* Properties.                                                             *)

\* The state has its shape.
TypeOK ==
  /\ exitPolicy \in ExitPolicy
  /\ child \in {"spawning", "alive", "dead"}
  /\ exitCode \in {"zero", "nonzero"}
  /\ pipes \in {"child", "other", "nobody"}
  /\ lastLine \in LineKind \cup {"none"}
  /\ timeoutHandle \in Timer /\ killHandle \in Timer /\ resultExitHandle \in Timer
  /\ listening \in BOOLEAN /\ terminated \in BOOLEAN /\ resultCompleted \in BOOLEAN
  /\ killedByTimeout \in BOOLEAN /\ killedByAbortSignal \in BOOLEAN /\ abortReason \in BOOLEAN
  /\ verdict \in Verdict

\* Whatever fired, threw or completed before, and in which order, a timer is
\* armed as long as the child lives; and once SIGTERM was sent, it is the one
\* that kills (lines 216-228, 282-294).
AlwaysWatched ==
  child = "alive" =>
    /\ "armed" \in {timeoutHandle, killHandle, resultExitHandle}
    /\ terminated => killHandle = "armed"

\* A run the runner terminated succeeds only on a complete result, and the exit
\* status fails no run that has one (protocol.ts:102-107).
TerminatedRunNeedsResult ==
  /\ verdict = "ok" /\ terminated => resultCompleted
  /\ verdict = "exit" => ~resultCompleted

\* When run() settled, an abort reaches nothing and no timer is left, but for
\* those that the last unterminated line arms in parser.end() (lines 364-391).
OnlyLateTimersRemain ==
  ~Awaiting =>
    /\ ~listening
    /\ timeoutHandle # "armed"
    /\ resultExitHandle = "armed" => lastLine = "result"
    /\ killHandle = "armed" => lastLine \in {"result", "diagnostic"}

\* A run ends, although the child may ignore SIGTERM, hang after its result or
\* never write a word; only who inherited its pipes can hold it back.
RunSettles == <>~Awaiting \/ <>[](child = "dead" /\ pipes = "other")

\* A completed result ends the run: the runner "stops waiting on the process"
\* (protocol.ts:102-107).
CompletedRunSettles == resultCompleted ~> ~Awaiting

=============================================================================
