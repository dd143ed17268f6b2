----------------------------- MODULE Transcript -----------------------------
(***************************************************************************)
(* agents/claude-cache-keeper.ts: what the keeper learns from a transcript *)
(* of Claude Code, one entry after another.  Time 0 stands for "none yet". *)
(***************************************************************************)
EXTENDS Naturals

CONSTANTS
  Ttl,       \* lifetime of a cache on the 1h TTL
  ShortTtl,  \* lifetime of a cache on the 5m TTL
  Contexts   \* context sizes a reply may report

ASSUME TtlAssumption == Ttl \in Nat /\ ShortTtl \in Nat /\ 0 < ShortTtl /\ ShortTtl < Ttl
ASSUME ContextsAssumption == Contexts \subseteq Nat

\* The texts of user entries, as applyEntry tells them apart.  A keepalive the
\* operator added to still starts with "[keepalive]"; "none" is a tool's result.
Text == {"prompt", "keepalive", "last", "keepalive and more", "interrupted", "none"}

\* What a reply wrote to the cache.
Created == {"nothing", "1h", "5m"}

UserEntry(timestamp, text) == [type |-> "user", timestamp |-> timestamp, text |-> text]

Reply(timestamp, context, created, stopReason) ==
  [type |-> "assistant", timestamp |-> timestamp, context |-> context,
   created |-> created, stopReason |-> stopReason]

TranscriptState(Time) ==
  [trigger : Time, reqStart : Time, ttl : {0, ShortTtl, Ttl}, context : Contexts \cup {0},
   idle : BOOLEAN, lastPrompt : Time, lastBumpSent : BOOLEAN]

EmptyTranscript ==
  [trigger |-> 0, reqStart |-> 0, ttl |-> 0, context |-> 0,
   idle |-> FALSE, lastPrompt |-> 0, lastBumpSent |-> FALSE]

\* Fault: the last bump is an ordinary keepalive.
ApplyUserNoLast(state, entry) ==
  [state EXCEPT
    !.trigger      = entry.timestamp,
    !.idle         = (entry.text = "interrupted"),
    !.lastPrompt   = IF entry.text = "prompt" THEN entry.timestamp ELSE @,
    !.lastBumpSent = IF entry.text = "prompt" THEN FALSE ELSE @]

ApplyUser(state, entry) ==
  [state EXCEPT
    !.trigger      = entry.timestamp,
    !.idle         = (entry.text = "interrupted"),
    !.lastPrompt   = IF entry.text = "prompt" THEN entry.timestamp ELSE @,
    !.lastBumpSent = CASE entry.text = "prompt" -> FALSE
                       [] entry.text = "last"   -> TRUE
                       [] OTHER                 -> @]

ApplyReply(state, entry) ==
  [state EXCEPT
    !.reqStart = IF state.trigger # 0 THEN state.trigger ELSE entry.timestamp,
    !.context  = entry.context,
    !.idle     = (entry.stopReason = "end_turn"),
    !.ttl      = CASE entry.created = "nothing" -> @
                   [] entry.created = "1h"      -> Ttl
                   [] entry.created = "5m"      -> ShortTtl]

ApplyEntry(state, entry) ==
  IF entry.type = "user" THEN ApplyUser(state, entry) ELSE ApplyReply(state, entry)

=============================================================================
