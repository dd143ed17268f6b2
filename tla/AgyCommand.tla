------------------------------ MODULE AgyCommand ------------------------------
(***************************************************************************)
(* agents/agy-usage.ts: getAgyUsage, the upstream call of the usage proxy  *)
(* for agy.  It spawns the agy CLI, which is a wrapper, and parses what it *)
(* printed; a timer and an abort signal may end the wait before.           *)
(*                                                                         *)
(* The child writes lines; Node reads them later, and in pieces.  A line   *)
(* is noise, a command_result without data, or one with the groups of a    *)
(* reply.                                                                  *)
(***************************************************************************)
EXTENDS AgyQuota

CONSTANT
  Lines   \* bound: for each line that the child may write, what it may be

\* What a reply lists.  The fractions of a whole group are checked (readFraction); any
\* text may be the name of a window.
RawBucket == [window : STRING \ {"none"}, id : SUBSET STRING, name : SUBSET STRING,
              left : 0..Full, reset : Nat \cup {Unknown}]

RawGroup == [form : {"whole", "malformed", "nameless"}, label : STRING, name : SUBSET STRING,
             models : SUBSET SUBSET STRING, buckets : Seq(RawBucket)]

\* A group that is called like a family mentions it.
IsReply(groups) ==
  /\ groups \in Seq(RawGroup)
  /\ \A g \in ToSet(groups) : g.label \in Families => g.label \in g.name

ASSUME LinesAssumption ==
  \A n \in DOMAIN Lines :
    \A line \in Lines[n] :
      /\ line.event \in {"noise", "no_data", "data"}
      /\ line.event = "data" => IsReply(line.groups)

VARIABLES
  child,      \* the process: "spawning", "alive" or "dead"
  exitCode,   \* of a dead child
  pipes,      \* who may still hold its stdout: "child", "other" or "nobody"
  written,    \* the lines that the child has written
  read,       \* how many of them have come as `data`
  timer,      \* of the timeout
  killTimer,  \* of the SIGKILL
  listening,  \* the abort handler is registered, and the signal can still abort
  told,       \* history: the child was told to stop
  verdict,    \* how the promise settled
  usage       \* what it resolved with

processVars == <<child, exitCode, pipes, written>>
timerVars   == <<timer, killTimer, listening, told>>
agyVars     == <<processVars, read, timerVars, verdict, usage>>

Pending == verdict = "pending"

-----------------------------------------------------------------------------
(* parseAgyUsage.                                                          *)

Nothing == [agent |-> "agy", groups |-> <<>>]

\* The first command_result counts, whatever follows.
FirstResult(lines) == SelectInSeq(lines, LAMBDA line : line.event # "noise")

Parses(lines) ==
  LET i == FirstResult(lines) IN i # 0 /\ lines[i].event = "data"

Parse(lines) == [agent |-> "agy", groups |-> NormalizeGroups(lines[FirstResult(lines)].groups)]

-----------------------------------------------------------------------------
(* runAgyUsageCommand.                                                     *)

\* finish(): the first one settles the promise and clears the timeout.
Finish(result) ==
  /\ verdict' = result
  /\ timer' = IF timer = "armed" THEN "off" ELSE timer
  /\ listening' = FALSE

\* Fault: SIGTERM alone.
AskToStop == told' = TRUE /\ UNCHANGED killTimer

\* killChild(): SIGTERM, and a timer for the SIGKILL.
KillChild == told' = TRUE /\ killTimer' = "armed"

\* Fault: the timeout waits for the child to close.
TimeoutKills ==
  /\ timer = "armed" /\ child # "spawning"
  /\ KillChild
  /\ timer' = "off"
  /\ UNCHANGED <<processVars, read, listening, verdict, usage>>

TimeoutFires ==
  /\ timer = "armed" /\ child # "spawning"
  /\ KillChild
  /\ Finish("timeout")
  /\ UNCHANGED <<processVars, read, usage>>

\* A signal that was aborted before the call aborts nothing: its event is over.
Abort ==
  /\ listening /\ child # "spawning"
  /\ KillChild
  /\ Finish("aborted")
  /\ UNCHANGED <<processVars, read, usage>>

\* `data` of stdout.
Read ==
  /\ Pending /\ read < Len(written)
  /\ read' = read + 1
  /\ UNCHANGED <<processVars, timerVars, verdict, usage>>

\* Fault: the exit of the child is taken for the end of its output.
AtEndOrExit == child = "dead"

\* `close`: the child is dead, nobody holds its stdout and all of it was read.
AtEnd == child = "dead" /\ pipes = "nobody" /\ read = Len(written)

Close ==
  /\ Pending /\ AtEnd
  /\ LET lines == SubSeq(written, 1, read)
     IN \/ /\ exitCode # "zero"
           /\ Finish("exit") /\ UNCHANGED usage
        \/ /\ exitCode = "zero" /\ ~Parses(lines)
           /\ Finish("invalid") /\ UNCHANGED usage
        \/ /\ exitCode = "zero" /\ Parses(lines)
           /\ Finish("ok") /\ usage' = Parse(lines)
  /\ UNCHANGED <<processVars, read, killTimer, told>>

-----------------------------------------------------------------------------
(* The child.                                                              *)

\* spawn() reports a failure on the next tick, before any timer or event.
Spawned ==
  /\ child = "spawning" /\ Pending
  /\ child' = "alive"
  /\ UNCHANGED <<exitCode, pipes, written, read, timerVars, verdict, usage>>

SpawnFails ==
  /\ child = "spawning" /\ Pending
  /\ Finish("error")
  /\ UNCHANGED <<processVars, read, killTimer, told, usage>>

Write(line) ==
  /\ Pending /\ child = "alive"
  /\ written' = Append(written, line)
  /\ UNCHANGED <<child, exitCode, pipes, read, timerVars, verdict, usage>>

\* A process that the wrapper started may hold its pipes.
Dies(code) ==
  /\ child' = "dead"
  /\ exitCode' = code
  /\ pipes' \in {"nobody", "other"}

\* By itself, or of the SIGTERM.
ChildExits(code) ==
  /\ child = "alive"
  /\ Dies(code)
  /\ UNCHANGED <<written, read, timerVars, verdict, usage>>

\* SIGKILL, if the child still lives.
KillFires ==
  /\ killTimer = "armed"
  /\ killTimer' = "off"
  /\ IF child = "alive" THEN Dies("nonzero") ELSE UNCHANGED <<child, exitCode, pipes>>
  /\ UNCHANGED <<written, read, timer, listening, told, verdict, usage>>

OtherExits ==
  /\ pipes = "other"
  /\ pipes' = "nobody"
  /\ UNCHANGED <<child, exitCode, written, read, timerVars, verdict, usage>>

-----------------------------------------------------------------------------

AgyInit ==
  /\ child = "spawning"
  /\ exitCode = "zero"
  /\ pipes = "child"
  /\ written = <<>>
  /\ read = 0
  /\ timer = "armed"
  /\ killTimer = "unset"
  /\ listening \in BOOLEAN
  /\ told = FALSE
  /\ verdict = "pending"

AgyNext ==
  \/ Spawned
  \/ SpawnFails
  \/ \E n \in {Len(written) + 1} \cap DOMAIN Lines : \E line \in Lines[n] : Write(line)
  \/ Read
  \/ TimeoutFires
  \/ Abort
  \/ KillFires
  \/ \E code \in {"zero", "nonzero"} : ChildExits(code)
  \/ OtherExits
  \/ Close

AgySpec == AgyInit /\ usage = Nothing /\ [][AgyNext]_agyVars

\* Node reports the outcome of the spawn and fires timers.  Nothing is assumed of
\* the child, nor of who inherited its pipes.
AgyFairness ==
  WF_agyVars(Spawned \/ SpawnFails) /\ WF_agyVars(TimeoutFires) /\ WF_agyVars(KillFires)

-----------------------------------------------------------------------------
(* Properties.                                                             *)

\* "A hung /usage must degrade to the caller's failure policy, never block the
\* poll loop" (lines 181-183): the call ends, whatever the child does and whoever
\* holds its pipes.
AgySettles == <>~Pending

\* A child that was told to stop is gone in the end, though it may ignore SIGTERM
\* and nobody waits for it any more.
ToldChildEnds == told ~> child # "alive"

\* The usage, or the complaint that there is none, is about all that the child
\* wrote, and that only of a child that was let to end well.
AnswerIsWhole ==
  verdict \in {"ok", "invalid"} =>
    /\ exitCode = "zero" /\ ~told
    /\ verdict = "ok" <=> Parses(written)
    /\ verdict = "ok" => usage = Parse(written)

=============================================================================
