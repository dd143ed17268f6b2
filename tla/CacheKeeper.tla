---------------------------- MODULE CacheKeeper -----------------------------
(***************************************************************************)
(* agents/claude-cache-keeper.ts, `watch`: keep the prompt cache of a      *)
(* Claude session warm by typing a keepalive into it before the cache      *)
(* expires.                                                                *)
(*                                                                         *)
(* One session is watched (`--session`); sessions share only the loop over *)
(* them.  The keeper, Claude Code and the operator act on the session in   *)
(* any order: between two zmx calls of the keeper anything may happen to   *)
(* the input box and to the transcript.  The time unit is longer than the  *)
(* second the keeper waits between the text and Enter, so that time passes *)
(* only between two passes.                                                *)
(***************************************************************************)
EXTENDS Naturals, Sequences, InputBox, Transcript

CONSTANTS
  Lead,          \* leadMinutes
  MaxIdle,       \* maxIdleHours
  Interval,      \* interval
  Cooldown,      \* BUMP_COOLDOWN_S
  MinContexts,   \* the values minContext takes as the settings file changes
  RecordDelay,   \* within which Claude Code records a submitted prompt
  ListMayFailSoon, \* whether `zmx list` may fail soon after a bump, too
  MaxTime,       \* bound on the time that passes
  MaxQueue       \* bound on the prompts the operator submits before they are recorded

ASSUME SettingsAssumption ==
  /\ {Lead, MaxIdle, Interval, Cooldown} \subseteq Nat
  /\ 0 < Interval
  /\ MinContexts \subseteq Nat /\ MinContexts # {}
ASSUME ClaudeAssumption == RecordDelay \in Nat /\ RecordDelay < Cooldown
ASSUME BoundAssumption == MaxTime \in Nat \ {0} /\ MaxQueue \in Nat /\ ListMayFailSoon \in BOOLEAN

VARIABLES
  now,          \* nowS()
  transcript,   \* the session's transcript, as parsed from its start
  turn,         \* whether Claude works on a recorded prompt
  box,          \* the input box: what was typed into it, in order
  queue,        \* prompts submitted and not yet in the transcript
  pc,           \* where the keeper is
  wake,         \* when it wakes for the next pass
  minContext,   \* keeper.settings.minContext
  lastBump,     \* keeper.lastBump of the session, 0 when it has none
  last,         \* `last` of the bump being made
  looked,       \* history: what the box held when the keeper looked
  sent,         \* history: the last real prompt, or the keeper's last keepalive
  smooth        \* history: nothing hindered the keeper since the last real prompt

claudeVars  == <<transcript, turn, queue>>
keeperVars  == <<pc, wake, minContext, lastBump, last, looked>>
historyVars == <<sent, smooth>>
vars        == <<now, claudeVars, box, keeperVars, historyVars>>

Time == 0..MaxTime

Keepalives == {<<"keepalive">>, <<"last">>}

\* How applyEntry will classify a submitted text.
TextOf(content) ==
  CASE content = <<"keepalive">>                -> "keepalive"
    [] content = <<"last">>                     -> "last"
    [] Head(content) = "draft"                  -> "prompt"
    [] OTHER                                    -> "keepalive and more"

Prompt == [text : Text, at : Time, by : {"keeper", "operator"}]

TypeOK ==
  /\ now \in Time \ {0}
  /\ transcript \in TranscriptState(Time)
  /\ turn \in BOOLEAN
  /\ box \in Seq({"draft", "keepalive", "last"})
  /\ queue \in Seq(Prompt)
  /\ pc \in {"asleep", "judge", "look", "send", "enter"}
  /\ wake \in Nat
  /\ minContext \in MinContexts
  /\ lastBump \in Time
  /\ last \in BOOLEAN
  /\ looked \in Seq({"draft", "keepalive", "last"})
  /\ sent \in {"nothing", "prompt", "keepalive", "last"}
  /\ smooth \in BOOLEAN

Init ==
  /\ now = 1
  /\ transcript = EmptyTranscript
  /\ turn = FALSE
  /\ box = <<>>
  /\ queue = <<>>
  /\ pc = "asleep"
  /\ wake = 1
  /\ minContext \in MinContexts
  /\ lastBump = 0
  /\ last = FALSE
  /\ looked = <<>>
  /\ sent = "nothing"
  /\ smooth = FALSE

\* What is left of the cache.
Expiry == transcript.reqStart + transcript.ttl

\* Claude Code records what it was given in time, and the keeper wakes in time.
Tick ==
  /\ now < MaxTime
  /\ pc = "asleep" /\ now < wake
  /\ \A i \in 1..Len(queue) : now < queue[i].at + RecordDelay
  /\ now' = now + 1
  /\ UNCHANGED <<claudeVars, box, keeperVars, historyVars>>

-----------------------------------------------------------------------------
(* The operator and Claude Code.                                           *)

\* Enter: what the box holds becomes a prompt.
Submit(by) ==
  /\ box # <<>>
  /\ box' = <<>>
  /\ queue' = Append(queue, [text |-> TextOf(box), at |-> now, by |-> by])
  /\ sent' = IF TextOf(box) = "prompt" \/ (by = "keeper" /\ box \in Keepalives)
               THEN TextOf(box) ELSE sent

OperatorTypes ==
  /\ ~Contains(box, "draft")
  /\ box' = Append(box, "draft")
  /\ smooth' = FALSE
  /\ UNCHANGED <<now, claudeVars, keeperVars, sent>>

\* With a keepalive in it, this takes the bump away from the keeper.
OperatorClears ==
  /\ box # <<>>
  /\ box' = <<>>
  /\ smooth' = (smooth /\ box = <<"draft">>)
  /\ UNCHANGED <<now, claudeVars, keeperVars, sent>>

OperatorSubmits ==
  /\ Len(queue) < MaxQueue
  /\ Submit("operator")
  /\ UNCHANGED <<now, transcript, turn, keeperVars, smooth>>

\* Whether a session that is idle from now on gives the keeper its whole lead,
\* and a reason to use it.
InGoodTime(state) ==
  /\ state.ttl = Ttl
  /\ \A m \in MinContexts : m <= state.context
  /\ now + Lead < state.reqStart + Ttl

Record ==
  /\ queue # <<>>
  /\ queue' = Tail(queue)
  /\ transcript' = ApplyEntry(transcript, UserEntry(now, Head(queue).text))
  /\ turn' = TRUE
  /\ smooth' = CASE Head(queue).text = "prompt"             -> box = <<>>
                 [] Head(queue).text = "keepalive and more" -> FALSE
                 [] OTHER                                   -> smooth
  /\ UNCHANGED <<now, box, keeperVars, sent>>

\* A tool call and its result, in the same turn.
UseTool ==
  /\ turn
  /\ \E context \in Contexts :
       transcript' = ApplyEntry(
                       ApplyEntry(transcript, Reply(now, context, "nothing", "tool_use")),
                       UserEntry(now, "none"))
  /\ smooth' = (smooth /\ sent = "prompt")
  /\ UNCHANGED <<now, turn, queue, box, keeperVars, sent>>

EndTurn ==
  /\ turn
  /\ turn' = FALSE
  /\ \E context \in Contexts, created \in Created :
       transcript' = ApplyEntry(transcript, Reply(now, context, created, "end_turn"))
  /\ smooth' = (smooth /\ InGoodTime(transcript'))
  /\ UNCHANGED <<now, queue, box, keeperVars, sent>>

Interrupt ==
  /\ turn
  /\ turn' = FALSE
  /\ transcript' = ApplyEntry(transcript, UserEntry(now, "interrupted"))
  /\ smooth' = (smooth /\ InGoodTime(transcript'))
  /\ UNCHANGED <<now, queue, box, keeperVars, sent>>

-----------------------------------------------------------------------------
(* The keeper.                                                             *)

EndPass ==
  /\ pc' = "asleep"
  /\ wake' = now + Interval
  /\ last' = FALSE
  /\ looked' = <<>>

CoolingDown == lastBump # 0 /\ now < lastBump + Cooldown

\* The settings are read again, then the sessions are listed.
StartPass ==
  /\ pc = "asleep" /\ wake <= now
  /\ minContext' \in MinContexts
  /\ pc' = "judge"
  /\ UNCHANGED <<now, claudeVars, box, wake, lastBump, last, looked, historyVars>>

\* A failed `zmx list` is an empty one: the session counts as gone.
ListFails ==
  /\ ListMayFailSoon \/ ~CoolingDown
  /\ pc = "asleep" /\ wake <= now
  /\ minContext' \in MinContexts
  /\ EndPass
  /\ lastBump' = 0
  /\ smooth' = FALSE
  /\ UNCHANGED <<now, claudeVars, box, sent>>

\* No session file, no transcript, or the 5h limit is near.
Excused ==
  /\ pc = "judge"
  /\ EndPass
  /\ smooth' = FALSE
  /\ UNCHANGED <<now, claudeVars, box, minContext, lastBump, sent>>

PastMaxIdle == transcript.lastPrompt > 0 /\ transcript.lastPrompt + MaxIdle < now

Due ==
  /\ transcript.reqStart # 0 /\ transcript.ttl # 0
  /\ now < Expiry
  /\ transcript.ttl = Ttl
  /\ minContext <= transcript.context
  /\ ~(transcript.lastPrompt > 0 /\ transcript.lastBumpSent)
  /\ ~PastMaxIdle
  /\ transcript.idle
  /\ Expiry <= now + Lead
  /\ ~CoolingDown

\* Fault: the wait for the next pass is left out.
LastDueNoInterval ==
  /\ transcript.lastPrompt > 0
  /\ transcript.lastPrompt + MaxIdle + Lead < now + transcript.ttl

\* The next bump would come too late.
LastDue ==
  /\ transcript.lastPrompt > 0
  /\ transcript.lastPrompt + MaxIdle + Lead < now + transcript.ttl + Interval

Judge ==
  /\ pc = "judge"
  /\ IF Due
       THEN pc' = "look" /\ last' = LastDue /\ UNCHANGED <<wake, looked>>
       ELSE EndPass
  /\ UNCHANGED <<now, claudeVars, box, minContext, lastBump, historyVars>>

\* Fault: a keepalive in the box does not count as a draft, and is typed again.
LookTypesAgain ==
  /\ pc = "look"
  /\ \E screen \in Screens(box) :
       IF TypedText(screen) \in Keepalives \cup {<<>>}
         THEN pc' = "send" /\ looked' = box /\ UNCHANGED <<wake, last>>
         ELSE EndPass
  /\ UNCHANGED <<now, claudeVars, box, minContext, lastBump, historyVars>>

\* A keepalive that is still in the box only needs the Enter.
Look ==
  /\ pc = "look"
  /\ \E screen \in Screens(box) :
       LET typed == TypedText(screen) IN
       IF typed \in Keepalives \cup {<<>>}
         THEN /\ pc' = IF typed = <<>> THEN "send" ELSE "enter"
              /\ looked' = box
              /\ UNCHANGED <<wake, last>>
         ELSE EndPass
  /\ UNCHANGED <<now, claudeVars, box, minContext, lastBump, historyVars>>

Send ==
  /\ pc = "send"
  /\ box' = Append(box, IF last THEN "last" ELSE "keepalive")
  /\ pc' = "enter"
  /\ UNCHANGED <<now, claudeVars, wake, minContext, lastBump, last, looked, historyVars>>

\* Fault: the bump is not remembered.
EnterUnremembered ==
  /\ pc = "enter"
  /\ EndPass
  /\ \/ Submit("keeper")
     \/ box = <<>> /\ UNCHANGED <<box, queue, sent>>
  /\ UNCHANGED <<now, transcript, turn, minContext, lastBump, smooth>>

\* Fault: the end of the cooldown is remembered as the time of the bump.
EnterRemembersEnd ==
  /\ pc = "enter"
  /\ EndPass
  /\ lastBump' = now + Cooldown
  /\ \/ Submit("keeper")
     \/ box = <<>> /\ UNCHANGED <<box, queue, sent>>
  /\ UNCHANGED <<now, transcript, turn, minContext, smooth>>

\* An empty box ignores the Enter.
Enter ==
  /\ pc = "enter"
  /\ EndPass
  /\ lastBump' = now
  /\ \/ Submit("keeper")
     \/ box = <<>> /\ UNCHANGED <<box, queue, sent>>
  /\ UNCHANGED <<now, transcript, turn, minContext, smooth>>

\* zmx accepts the Enter and Claude Code does not submit the box.
EnterLost ==
  /\ pc = "enter"
  /\ EndPass
  /\ lastBump' = now
  /\ smooth' = FALSE
  /\ UNCHANGED <<now, claudeVars, box, minContext, sent>>

\* The box is hidden, or a zmx call fails: the pass gives up.
GiveUp ==
  /\ pc \in {"look", "send", "enter"}
  /\ EndPass
  /\ smooth' = FALSE
  /\ UNCHANGED <<now, claudeVars, box, minContext, lastBump, sent>>

Next ==
  \/ Tick
  \/ OperatorTypes \/ OperatorClears \/ OperatorSubmits
  \/ Record \/ UseTool \/ EndTurn \/ Interrupt
  \/ StartPass \/ ListFails \/ Excused \/ Judge \/ Look \/ Send
  \/ Enter \/ EnterLost \/ GiveUp

Spec == Init /\ [][Next]_vars

-----------------------------------------------------------------------------
(* Properties.                                                             *)

\* The cache of an idle session that nothing hindered the keeper from bumping
\* does not go cold before --max-idle is over or the last bump was sent.
KeptWarm ==
  ( /\ smooth /\ transcript.idle /\ ~transcript.lastBumpSent
    /\ queue = <<>>
    /\ transcript.lastPrompt > 0 /\ ~PastMaxIdle )
  => now < Expiry

IsBump(prompt) == prompt.by = "keeper" /\ prompt.text \in {"keepalive", "last"}

\* After a bump the keeper gives the transcript the time to record it: it never
\* submits a second keepalive for the same request.
OneBumpPerRequest ==
  \A i, j \in DOMAIN queue : IsBump(queue[i]) /\ IsBump(queue[j]) => i = j

\* The last bump before --max-idle says so: a session the keeper could always reach
\* does not fall silent after a plain keepalive.  The keeper plans the next bump from
\* when it types, and finds it due from when Claude Code records: a keepalive that was
\* recorded more than a unit of time later may turn out to have been the last.
LastIsAnnounced ==
  ( /\ smooth /\ transcript.idle /\ queue = <<>>
    /\ PastMaxIdle /\ sent = "keepalive" )
  => transcript.lastBumpSent \/ lastBump + 1 < transcript.reqStart

\* No bump follows the last one until the next real prompt.
NoBumpAfterLast ==
  [][ (pc = "enter" /\ Len(queue') > Len(queue) /\ queue'[Len(queue')].text \in {"keepalive", "last"})
      => sent # "last" ]_vars

\* A keepalive is typed into a box that was empty when the keeper looked:
\* neither over a draft, nor after a keepalive that only missed its Enter.
TypedIntoEmptyBox ==
  [][Send => looked = <<>>]_vars

\* However its calls fail, the keeper leaves at most one keepalive in the box.
OneKeepaliveInBox ==
  \A i, j \in DOMAIN box : box[i] # "draft" /\ box[j] # "draft" => i = j

=============================================================================
