----------------------------- MODULE UsageProxy -----------------------------
(***************************************************************************)
(* agents/usage-proxy.ts: the usage proxy of one agent.                    *)
(*                                                                         *)
(* Requests of GET /usage and a background poll share a CachedUsageLoader, *)
(* which has at most one upstream call in flight.  An answer goes to the   *)
(* usage gauges, to the cache and to everyone who waits for it; these are  *)
(* continuations of one promise, so no request or timer falls between.     *)
(*                                                                         *)
(* Upstream answers are numbered; each reports some of the rate-limit      *)
(* windows.                                                                *)
(***************************************************************************)
EXTENDS Naturals, FiniteSets

CONSTANTS
  Requests,     \* HTTP clients; each asks for /usage again and again
  Windows,      \* rate-limit windows an upstream answer may report
  Ttl,          \* cacheTtlMs
  MaxClock,     \* bound on the time that passes
  MaxAnswers,   \* bound on the number of upstream answers
  MaxFailures   \* bound on the failures counted in a row

ASSUME TtlAssumption   == Ttl \in Nat
ASSUME BoundAssumption == MaxClock \in Nat /\ MaxAnswers \in Nat /\ MaxFailures \in Nat \ {0}

VARIABLES
  clock,        \* the time the loader reads
  cache,        \* CachedUsageLoader.cache
  inFlight,     \* whether CachedUsageLoader.inFlight is set
  calls,        \* upstream calls that have not settled
  answers,      \* history: the number of upstream answers so far
  fetchedAt,    \* history: when the newest of them came
  req,          \* what each request waits for
  served,       \* history: the answer each request was last served, 0 for a 502
  gauges,       \* the windows agent_usage_used_percent shows, each with an answer
  previous,     \* `previous` of the usage recorder
  timer,        \* whether UsagePoller.timer is set
  intervals,    \* how many intervals Node fires for the poller
  running,      \* UsagePoller.running
  poll,         \* UsagePoller.state: consecutiveFailures, lastError, reauthRequired
  pollGauges    \* what the poll gauges show of it

loaderVars == <<cache, inFlight, calls, answers, fetchedAt, gauges, previous>>
pollVars   == <<timer, intervals, running, poll, pollGauges>>
vars       == <<clock, loaderVars, req, served, pollVars>>

Answer == 1..MaxAnswers

NoCache == [value |-> 0, expiresAt |-> 0]

Error == {"none", "transient", "permanent"}

PollState == [failures : 0..MaxFailures, lastError : Error, reauthRequired : BOOLEAN]

-----------------------------------------------------------------------------
(* The loader.                                                             *)

\* Fault: an entry never expires.
Cached == cache # NoCache

Fresh == cache # NoCache /\ cache.expiresAt > clock

\* CachedUsageLoader.refresh: start a call, or join the one in flight.
Refresh ==
  /\ inFlight' = TRUE
  /\ calls' = IF inFlight THEN calls ELSE calls + 1
  /\ UNCHANGED <<cache, answers, fetchedAt, gauges, previous>>

\* Fault: windows that are not reported any more stay.
RecordOnly(n, windows) ==
  /\ gauges' = [w \in DOMAIN gauges \cup windows |-> IF w \in windows THEN n ELSE gauges[w]]
  /\ previous' = windows

\* The usage recorder sets the windows of answer n, then removes the series of
\* the windows that answer n does not report any more.
Record(n, windows) ==
  /\ gauges' = [w \in (DOMAIN gauges \cup windows) \ (previous \ windows) |->
                  IF w \in windows THEN n ELSE gauges[w]]
  /\ previous' = windows

\* Fault: a call that failed leaves the requests waiting.
AnswerWaitingOnSuccess(n) ==
  /\ req' = [r \in Requests |-> IF n = 0 THEN req[r] ELSE "idle"]
  /\ served' = [r \in Requests |-> IF req[r] = "waiting" THEN n ELSE served[r]]

\* createUsageHandler answers every request that waits for the upstream call,
\* also when it failed.
AnswerWaiting(n) ==
  /\ req' = [r \in Requests |-> "idle"]
  /\ served' = [r \in Requests |-> IF req[r] = "waiting" THEN n ELSE served[r]]

\* UsagePoller.tick: what it makes of how its call ended.
PollSucceeded == [failures |-> 0, lastError |-> "none", reauthRequired |-> FALSE]

PollFailed(error) ==
  [failures       |-> IF poll.failures < MaxFailures THEN poll.failures + 1 ELSE MaxFailures,
   lastError      |-> error,
   reauthRequired |-> error = "permanent"]

\* Fault: a poll that failed leaves `running` set.
FinishTickOnSuccess(state) ==
  /\ running' = (running /\ state.failures > 0)
  /\ poll' = IF running THEN state ELSE poll
  /\ pollGauges' = IF running
                   THEN [healthy |-> state.failures = 0, reauth |-> state.reauthRequired]
                   ELSE pollGauges
  /\ UNCHANGED <<timer, intervals>>

\* `finally` of a tick: the next one may run, and the gauges follow the state.
FinishTick(state) ==
  /\ running' = FALSE
  /\ poll' = IF running THEN state ELSE poll
  /\ pollGauges' = IF running
                   THEN [healthy |-> state.failures = 0, reauth |-> state.reauthRequired]
                   ELSE pollGauges
  /\ UNCHANGED <<timer, intervals>>

UpstreamAnswers(windows) ==
  /\ calls > 0
  /\ answers < MaxAnswers
  /\ calls' = calls - 1
  /\ inFlight' = FALSE
  /\ answers' = answers + 1
  /\ fetchedAt' = clock
  /\ cache' = [value |-> answers + 1, expiresAt |-> clock + Ttl]
  /\ Record(answers + 1, windows)
  /\ AnswerWaiting(answers + 1)
  /\ FinishTick(PollSucceeded)
  /\ UNCHANGED clock

UpstreamFails(error) ==
  /\ calls > 0
  /\ calls' = calls - 1
  /\ inFlight' = FALSE
  /\ AnswerWaiting(0)
  /\ FinishTick(PollFailed(error))
  /\ UNCHANGED <<clock, cache, answers, fetchedAt, gauges, previous>>

-----------------------------------------------------------------------------
(* The HTTP handler and the poller.                                        *)

\* GET /usage: CachedUsageLoader.load.
Get(r) ==
  /\ req[r] = "idle"
  /\ \/ /\ Fresh
        /\ served' = [served EXCEPT ![r] = cache.value]
        /\ UNCHANGED <<req, loaderVars>>
     \/ /\ ~Fresh
        /\ Refresh
        /\ req' = [req EXCEPT ![r] = "waiting"]
        /\ UNCHANGED served
  /\ UNCHANGED <<clock, pollVars>>

\* UsagePoller.tick, up to its await: a tick in progress makes it return.
Tick ==
  IF running THEN UNCHANGED <<running, loaderVars>>
  ELSE running' = TRUE /\ Refresh

StartPoller ==
  /\ ~timer
  /\ Tick
  /\ timer' = TRUE
  /\ intervals' = intervals + 1
  /\ UNCHANGED <<clock, req, served, poll, pollGauges>>

StopPoller ==
  /\ timer
  /\ timer' = FALSE
  /\ intervals' = intervals - 1
  /\ UNCHANGED <<clock, req, served, loaderVars, running, poll, pollGauges>>

IntervalFires ==
  /\ intervals > 0
  /\ Tick
  /\ UNCHANGED <<clock, req, served, timer, intervals, poll, pollGauges>>

TimePasses ==
  /\ clock < MaxClock
  /\ clock' = clock + 1
  /\ UNCHANGED <<loaderVars, req, served, pollVars>>

-----------------------------------------------------------------------------

Init ==
  /\ clock = 0
  /\ cache = NoCache
  /\ inFlight = FALSE
  /\ calls = 0
  /\ answers = 0
  /\ fetchedAt = 0
  /\ req = [r \in Requests |-> "idle"]
  /\ served = [r \in Requests |-> 0]
  /\ gauges = [w \in {} |-> 0]
  /\ previous = {}
  /\ timer = FALSE
  /\ intervals = 0
  /\ running = FALSE
  /\ poll = PollSucceeded
  /\ pollGauges = [healthy |-> TRUE, reauth |-> FALSE]

Upstream ==
  \/ \E windows \in SUBSET Windows : UpstreamAnswers(windows)
  \/ \E error \in Error \ {"none"} : UpstreamFails(error)

Next ==
  \/ \E r \in Requests : Get(r)
  \/ Upstream
  \/ StartPoller
  \/ StopPoller
  \/ IntervalFires
  \/ TimePasses

Spec == Init /\ [][Next]_vars

\* An upstream call settles and an interval that is set fires.
FairSpec == Spec /\ WF_vars(Upstream) /\ WF_vars(IntervalFires)

-----------------------------------------------------------------------------
(* Properties.                                                             *)

\* The state has its shape.
TypeOK ==
  /\ clock \in 0..MaxClock
  /\ cache \in [value : 0..MaxAnswers, expiresAt : 0..(MaxClock + Ttl)]
  /\ inFlight \in BOOLEAN
  /\ calls \in Nat
  /\ answers \in 0..MaxAnswers
  /\ fetchedAt \in 0..MaxClock
  /\ req \in [Requests -> {"idle", "waiting"}]
  /\ served \in [Requests -> 0..MaxAnswers]
  /\ DOMAIN gauges \subseteq Windows
  /\ previous \subseteq Windows
  /\ timer \in BOOLEAN
  /\ intervals \in Nat
  /\ running \in BOOLEAN
  /\ poll \in PollState
  /\ pollGauges \in [healthy : BOOLEAN, reauth : BOOLEAN]

\* Whoever asks, and whenever, one upstream call is in flight at most, and who
\* waits waits for it.  The poll does so although the cache may be fresh: its
\* call is "what rotates OAuth tokens" (lines 103-107).
OneUpstreamCall ==
  /\ calls = (IF inFlight THEN 1 ELSE 0)
  /\ \A r \in Requests : req[r] = "waiting" => inFlight
  /\ running => inFlight

\* A response, cached or not, is the newest upstream answer there is, and not
\* older than the TTL.
ResponsesAreCurrent ==
  [][\A r \in Requests :
       served'[r] # served[r] /\ served'[r] # 0 =>
         served'[r] = answers' /\ (clock = fetchedAt' \/ clock < fetchedAt' + Ttl)]_vars

\* A scrape sees the windows of the newest answer, with its values, and none of
\* an older one (lines 407-408, 471-474).
GaugesShowNewestAnswer ==
  /\ DOMAIN gauges = previous
  /\ \A w \in DOMAIN gauges : gauges[w] = answers

\* The poller has one interval while it is started and none after stop(),
\* however stops and starts follow a poll that is still running.
OneInterval == intervals = (IF timer THEN 1 ELSE 0)

\* A login is asked for only if the last finished poll failed for good, and the
\* gauges and /healthz agree on it.
ReauthFollowsLastPoll ==
  /\ poll.reauthRequired => poll.lastError = "permanent" /\ poll.failures > 0
  /\ pollGauges = [healthy |-> poll.lastError = "none", reauth |-> poll.reauthRequired]

\* While the poller is started it goes upstream again and again, also after
\* failures.
PollsRecur == <>[]timer => []<>running /\ []<>(~running)

=============================================================================
