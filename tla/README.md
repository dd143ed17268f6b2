# Verification of my-nodejs-libs

TLA+ models of the concurrent parts of this library, the TLC runs that check
them on small instances, and TLAPS proofs of what matters most for every value
of the constants. Line numbers refer to the files under `src/src/`.

The library is a set of TypeScript modules for long-running Node services:
workers (periodic, queued, WebSocket), a runner for agent CLIs, usage polling
with OAuth refresh, a small Prometheus client and an HTTP server. Node runs one
piece of synchronous code at a time, so **an action is what happens between two
awaits**: one event handler, one timer callback, one continuation. Everything
that is hard here comes from the order of these.

## The system's parts

| Part | State | Operations | Interacts with |
| --- | --- | --- | --- |
| `agents/codex-usage.ts` | credential file; `inFlightCredentialRefreshes` | `getCodexUsage`, refresh, write | usage and token endpoints, other processes through the file |
| `agents/claude-usage.ts` | credential file with an expiry time; its own `inFlightCredentialRefreshes` | `getClaudeUsage`, refresh, write | the same |
| `agents/usage-proxy.ts` | cache, in-flight call, poll state, gauges | `GET /usage`, poll ticks, start/stop | a usage call (above), Prometheus registry, HTTP server |
| `agents/cli-runner.ts` | one child process, three timers, flags | `run()` | adapters, abort signal, the child |
| `app/worker.ts` | status, status metric, callback | `updateStatus` | Prometheus registry |
| `app/periodicWorker.ts` | generation, promise, interval, lock | `start`, `stop`, `runCycle` | its subclass' `prepare`/`run` |
| `app/queueWorker.ts` | FIFO, running count, `draining` | `enqueueTask`, `run`, `drain` | `utils/retry.ts`, task handlers |
| `app/websocketWorker.ts` | socket, heartbeat, reconnect timeout, one-message queue | `start`, `stop`, socket events | the peer, its subclass' `process` |
| `agents/claude-cache-keeper.ts` | bump state of each session, transcript offsets | one loop | Claude Code through `zmx`: transcripts, screens, keys |
| `prometheus-client/` | gauges, series limits, registries | set, replace, register, shutdown | every part above |
| `http/server.ts` | listening socket, routes, WebSocket servers | start, stop, `addWsHandler` | usage proxy |
| `agents/*-isolation.ts`, `isolated-skills.ts` | isolated homes on disk | `create...Isolation`, `cleanup` | other calls and processes, the CLI that runs in a home, the shared login |
| `agents/agent-usage-evaluator.ts` | none | `evaluateAgentUsage` (the start gate), `weeklyPace` | usage answers of the proxy, policies of runners |
| `agents/agy-usage.ts` | one child process, two timers | `getAgyUsage`; families and owners of quota groups | the agy CLI, an abort signal, the gauges, the gate |
| adapters, model slugs, logger, sender, wallet, `http/client.ts` | none that lasts | translation | - |

How they fit together: the usage proxy calls `getCodexUsage` (or the Claude or
Agy variant) from HTTP requests and from its poll; a runner reads the proxy's
answer and asks the evaluator whether an agent may start; workers report through
`updateStatus`, and both write gauges of the Prometheus client; the queue worker
is a periodic worker whose cycle drains the queue.

Hard behaviour, and what makes each part correct:

- **Credential refresh.** A refresh token works once, unless the provider answers
  without a successor. Calls of one process must share one refresh; a process can
  die, lose the answer or fail to write after the provider rotated; other
  processes and logins change the file meanwhile. Correct: no token is spent
  twice, the session is not lost to its own refreshes, "permanent" means
  hopeless, every call settles.
- **Periodic worker.** `start` chains callbacks; `stop` and the next `start` fall
  between them. Correct: one interval, which `stop` clears; cycles never overlap;
  a start is shared.
- **Queue worker.** `drain` calls handlers that enqueue and drain again.
  Correct: slots are accounted for, no wake-up is lost, order is kept.
- **WebSocket worker.** Events of a socket, three kinds of timers and `stop` in any
  order. Correct: never stranded, never two connections, silent peers are
  noticed, the newest message wins and is taken.
- **Usage proxy.** Requests and polls around one upstream call. Correct: one call in
  flight, current responses and gauges, a poller that goes on, and a stop that ends,
  after which nothing starts by itself.
- **Usage of agy.** A CLI that may hang, ignore SIGTERM or leave a process with its
  pipes. Correct: the call ends whatever the child does, the child ends when it was
  told to, and the answer is about its whole output.
- **Usage gate.** Which quota group counts for a model, with groups that overlap, name
  nothing or are malformed; limits, reserves and the weekly pace at their boundaries.
  Correct: gate and gauges go by the same windows; spending more, stricter policies and
  malformed data never open the gate; the week is paced day by day.
- **Cache keeper.** The keeper, Claude Code and an operator share an input box, seen
  only as a styled screen; a bump shows in the transcript only later. Correct: the
  cache is bumped in time, a request once, the last bump is announced and is the
  last, and nothing is typed over what a person typed.
- **Prometheus client.** Gauges at their series limit, replacement as a whole, names
  registered twice, a shutdown between. Correct: no slot leaks, nothing is exported
  twice, a call takes effect as a whole or not at all.
- **Isolated homes.** A persistent home is prepared again and again, for different
  requests, by calls that fail or die half way, also while a CLI runs in it. Correct: it
  holds what the last call asked for, nothing left behind stands in the way, the
  linked credentials stay linked.
- **CLI runner.** Timeout, abort, result grace, kill grace, output and exit race.
  Correct: a living child is watched, the verdict fits, the run ends.

## Modules

| Module | Models | Run(s) | Proofs |
| --- | --- | --- | --- |
| `CredentialRefresh` | `codex-usage.ts` and its environment | `credential_refresh`, `credential_race` | `CredentialRefresh_proof` |
| `ClaudeCredentials` | `claude-usage.ts`, over the same environment | with `UsageCredentials` | `CredentialRefresh_proof` |
| `UsageCredentials` | the one of the two that a proxy's agent chooses | `credential_refresh` | `CredentialRefresh_proof` |
| `WorkerLifecycle` | what a periodic worker promises (abstract) | - | used by the refinement |
| `PeriodicWorker` | `periodicWorker.ts`, `updateStatus` of `worker.ts` | with `PeriodicQueue` | `PeriodicWorker_proof` |
| `QueueWorker` | `queueWorker.ts`, `retry.ts` | `queue_worker` | `QueueWorker_proof` |
| `PeriodicQueue` | composes the two: the queue worker under its start, stop and cycles | `periodic_worker` | `PeriodicWorker_proof` |
| `WebSocketWorker` | `websocketWorker.ts` | `websocket_worker` | `WebSocketWorker_proof` |
| `UsageProxy` | `usage-proxy.ts` | with `UsageService` | `UsageProxy_proof` |
| `UsageService` | composes it with the start and stop of `http/server.ts` | `usage_proxy` | `UsageProxy_proof` |
| `AgyCommand` | the process of `agy-usage.ts` and what is parsed of its output | with `AgentUsage` | `AgentReadings_proof` |
| `AgyQuota` | its groups, families and owners, and their samples in `usage-proxy.ts` | with `AgentUsage` | `AgentReadings_proof` |
| `UsageGate` | `agent-usage-evaluator.ts` | with `AgentUsage` | `AgentReadings_proof` |
| `AgentUsage` | composes the three: from the output of agy to its gauges and its gate | `cli_runner` | `AgentReadings_proof` |
| `CliRunner` | `cli-runner.ts` | `cli_runner`, `cli_runner_pipes` | `AgentProcesses_proof` |
| `AgentProcesses` | the two places that spawn a CLI, `CliRunner` and `AgentUsage`, side by side | `cli_runner` | `AgentProcesses_proof` |
| `InputBox` | reading the styled input box of `claude-cache-keeper.ts` | with `CacheKeeper` | `AgentReadings_proof` |
| `Transcript` | `applyEntry` of the same file | with `CacheKeeper` | `AgentReadings_proof` |
| `CacheKeeper` | its watch loop, the bump, and Claude Code around it | `cache_keeper`, `cache_keeper_gone` | `AgentReadings_proof` |
| `BoundedGauges` | what gauges promise (abstract) | - | used by the refinement |
| `PromClient` | `prometheus-client/client.ts`, `getOrCreate` of `metricRegistry.ts` | `prom_client` | `PromClient_proof` |
| `Isolation` | the four `*-isolation.ts` and `isolated-skills.ts` | `isolation` | `AgentProcesses_proof` |

An `MC...` module instantiates each of them for TLC. Definitions marked
`\* Fault:` are plausible bugs of the definition that follows them; each
checked property is confirmed to fail when one of them takes its place.

### CredentialRefresh

Variables are the file (`disk`), the provider (`issued`, `live`), time (`staleUpTo`:
tokens within the refresh window, `deniedUpTo`: tokens answered with 401), and for
each call its place and locals (`cred`, `latest`, `reply`, `force`). `inFlight` is
the map of each process. One action per stretch between awaits: `Load` (106-132),
`UsageAnswer` (139-160), `RefreshDenied` (140-147), `Reread` (343-367, with its
three ways out), `ProviderAnswers`, `ReadAnswer` (396-400), `Write`, `Reload` (414).
Resolving or rejecting a refresh moves the call that performs it and those that
joined in one step, since nothing runs between the continuations that could tell.
The environment: `NetworkFails`, `WriteFails`, `Crash`, `Login`, `Revoke`, `Age`,
`Deny`.

`abandoned` is a history: tokens the provider revoked, and tokens a refresh had
spent when a fault took what it got for them. The code cannot repair these (there
is no write-ahead), so `NeverSpentTwice` and `SessionNotLost` allow them. Both are
properties of one process: two processes can spend the same token, which is the
first finding below. The document is abstracted to its tokens and the login they
belong to; that stands for every field a refresh must not change.

### ClaudeCredentials and UsageCredentials

`getClaudeUsage` keeps the same protocol with other code: expiry is a field of the
document (a document without it never comes within the window), the decision after the
re-read is one condition (`MustRefresh`, 285-297), an answer must carry a lifetime, no
error is permanent. `ClaudeCredentials` has the actions of that code over the variables
and the environment of `CredentialRefresh`. `KeepsProtocol` says that each of its steps is
one that `CredentialRefresh` allows, so what is proved of the one holds of the other;
the liveness is checked of both. A proxy serves one agent, so `UsageCredentials` chooses.

### PeriodicWorker and WorkerLifecycle

`chain[g]` is how far the promise chain of generation `g` has come; `timers` are
the intervals that Node fires, `cycleTimer` the one the worker knows of.
`WorkerLifecycle` has three modes and at most one cycle; the mapping reads the mode
off `cycleTimer` and `startPromise`. Callbacks of abandoned starts are stuttering
steps, which is exactly what the generation check is for.

### QueueWorker

`drain` runs synchronously, but the handler it calls does so too, up to its first
await, and may enqueue. So the loop is modelled by turns (`StartTask`,
`HandlerYields`, `LeaveDrain`), and only `EnqueueTask` may come in a handler's turn.
Retries are those of `retry.ts`: a task keeps its slot while it sleeps.

### PeriodicQueue

Node runs nothing between the turns of `drain`, so callbacks and timers of the
`PeriodicWorker` wait until a drain is over; but the handler that `drain` calls may
start or stop the worker. A cycle is `CycleRuns` (the interval fires, `run()` drains) and
`CycleOver`; between them, and after a stop, tasks go on by themselves. Owner and handlers
act as they like.

### WebSocketWorker

Sockets are numbered as created, so events of an old socket are distinct from those
of the current one. `beats` and `timeouts` are what Node still fires, as opposed to
the handles the worker keeps. Messages are numbered as accepted; `threw` records
that the status callback threw out of a `catch`, after which a waiting message
waits for the next one (294).

### UsageProxy

The loader, the handler, the poller and the recorder of one agent. When an upstream
call settles, the cache, gauges, waiting responses and the poll follow in the
continuations of one promise, hence in one action. `calls` and `intervals` count
what really is in flight or fires, next to the fields that claim to know.

### UsageService

`start()` listens and starts the poller; `stop()` clears its interval and closes the server.
What closing means is Node's, and external (`Connect`, `HangUp`, the body of `CloseServer`):
the handle is gone at once, so nobody connects any more; connections that have been served and
are idle are ended; the others stay, and a `GET /usage` that comes on one of them is served
(`Request` does not ask whether the server listens), and goes upstream when the cache has nothing.
`close` is emitted when the last connection has ended. `open` has the clients that are
connected, `stopping` is where the promise of `stop()` is. It waits for no poll.

A `start()` is possible again as soon as the handle is gone, also while connections of the
time before are open. Then the earlier `stop()` stays pending until the restarted server is
stopped and drained, which is why `StopResolves` says "or listening". A second `stop()` before
`close` has been emitted adds a callback to the same event: its promise rejects
(`ERR_SERVER_NOT_RUNNING`) in the moment the first one resolves, and both count as settled. So
a second SIGTERM makes the command end with exit code 1, and after the connections have ended,
not before. `start()` of a server that listens throws and is no step. With `pollIntervalMs` 0
there is no poller, which leaves fewer steps.

`QuietAfterStop` says what the owner can rely on after `stop()`: no poll, and no upstream call but
for a client that was connected before and asks; once the promise has settled, for nobody.
Nothing in the code bounds how long clients stay: one that keeps asking holds up `stop()` for as
long as it likes. `StopResolves` therefore assumes that a client which is served again and again
hangs up in the end.

### AgyCommand, AgyQuota, UsageGate and AgentUsage

`AgyCommand` is one call of `getAgyUsage`: the child writes lines, Node reads them later,
`close` comes when the child is dead, nobody holds its stdout and all was read. Timeout and
abort settle the promise at once and leave the child to SIGTERM and the kill timer. A line
is noise, a `command_result` without data, or one with groups. The handler of an abort is
registered with a signal that may be aborted before; then it never runs, which
`listening = FALSE` initially stands for.

`AgyQuota` has the data. A text counts by what the code searches it for: the families it
mentions, the words for third parties, whether it is the name of a known model. So
`ResolveFamilies` (334-432), `Owner` (`agyFamilyGroups`, 434-454), `NormalizeGroups` with its
malformed groups (233-274) and `Samples` (`usage-proxy.ts:316-357`) are operators on small sets
of such texts. A quota is in quarters: the code compares them, and adds a reserve.

`UsageGate` is `evaluateAgentUsage`: for each provider the list of reasons to refuse in the
order of the code, the first of which is told. `weeklyPace` counts in half days and in
sevenths of the budget, so that no rounding is needed. Payloads have passed the checks of
their shape (all others are `usage_unavailable`); which texts name one Claude model is
abstract.

`AgentUsage` joins them: `usage` is what a call of `AgyCommand` resolved with, or one of the
usages of Codex and Claude, and its properties quantify over models, policies and known
resets. Known limits of what they say: the comment at
`agy-usage.ts:240-241` promises of a malformed group that "its family closes". It does, but for
one case: the ids of the buckets, which are lost with them, count for the score of a group, and
may be all that ties it to a family; so another group can take the family over and open its gate.
`MalformedNeverOpens` leaves out just that (a family that passes to another group, when buckets
of the malformed one spoke for it; see the end of Findings), and speaks of every other family,
whatever ties it to the group. A policy that names a group goes
by a raw `7d` window, too, which the gauges show under that name; `GateAndGaugesAgree` is
about families. The kill timer is unref'd: a process that exits within its two seconds leaves
a deaf child behind, so `ToldChildEnds` is about a proxy that lives on.

### CliRunner

One `run()`. A line of output is `"result"`, `"throws"` or `"diagnostic"`, after what the
adapter makes of it. `pipes` says who can still write: `close` comes only when nobody
can. `lastLine` is an unterminated line, which `parser.end()` parses after the timers
were cleared. The adapter's exit policy is chosen initially, both are explored.

### InputBox, Transcript and CacheKeeper

The keeper watches one session, the one `--session` names. Time is a counter with a unit long
enough that a pass takes less than one: `Tick` is the clock, which goes on while the keeper
sleeps, and the pass is due when `wake` is reached. A pass is `StartPass` (settings and `zmx
list`) or `ListFails`, `Judge` (the transcript against TTL, lead, cooldown, idle limit),
`Look` (the screen), `Send` and `Enter`, each able to fail, with the operator and Claude Code
between any two of them.

`InputBox` models the screen as cells with their rendition: the prompt, the dim
suggestion Claude Code offers, what was typed, the cursor in inverse video.
`TypedText` is the text the code reads off it, by the same walk over the SGR codes
(`ApplyCode`), so "is this a draft, a suggestion or my own keepalive?" is decided by
what the code computes and not by a flag. `Transcript` is `applyEntry`, entry by entry.

Claude Code, the operator and the clock are external: it submits the box, records
a prompt up to `RecordDelay` later, uses tools, replies, is interrupted. `looked`, `sent` and
`smooth` are histories of what the properties compare: what the box held when the keeper
looked, the last real prompt or keepalive, and whether anything hindered the keeper since.

### PromClient and BoundedGauges

Every call is synchronous and one action. Inputs the client rejects (labels, values,
definitions) change nothing but error counters and are no steps; whether a series
over the limit is dropped or thrown does not matter to the state. An instrument is
known by the name it is emitted under, so that `jobs` as a counter and `jobs_total`
meet. `series` (the slots in use) and `samples` (what a gauge shows) are separate in
the code, and `SlotsAccounted` says that they agree. An observable metric keeps the
kind it was first registered with: registering one name as a gauge and as a counter
would export it twice, which no caller in the repository does.

`BoundedGauges` has one table per gauge and one rule: a call takes effect as a whole,
or not at all if the table would exceed the limit or the gauge is closed. The
mapping shows the samples and opens the gauges that are defined until the shutdown.

### Isolation

A call of `create...Isolation` awaits one operation on the file system after the other, and
any of them may fail, or be the last before the process dies. So a call is the list of
operations it has still to do (`ClaudePlan`, `CodexPlan`, `GeminiPlan`, `AgyPlan`, chosen by
`agent`), and `Perform` does the next one: remove a directory, make it, copy an entry into
it, write or remove a file, look at the shared credentials, look at what is in the place of
the link, read it, unlink, link. What is found there decides what is done next (`ToLink`).
A home is its directories with their entries, its files with the request each was written
for, and its links: none, right, to somewhere else, or a file in their place. `Replace` is the
CLI, or its user, putting something else in place of the link; `SharedChanges` is a login or a
logout of the account that all homes share.

A persistent home belongs to its name, and the code has no lock on it: calls that overlap
can mix their files, or fail because the other has just made or removed the link (`symlink`
finds a file, `copyFile` no directory). The model has these steps. `undisturbed` records
that no other call and no user touched the home since a call began, and the properties hold
of such calls, whatever calls before them left behind. Codex writes its role files side by side
(`codex-isolation.ts:158`): when one fails the call rejects, and the others go on. `late` has
them, and `LateWrite` lets one land, or fail, at any later time; where it lands counts as touched.

The agents differ in what becomes of what is not asked for: Claude removes the prompt of an
earlier request, Gemini and Agy leave it (and settings) as they are, and codex leaves roles.
`AsAsked` states what each promises. Files that codex and Gemini link in parallel are
one link; the MCP configuration goes with the settings.

## Runs

| Run | Instance | Question |
| --- | --- | --- |
| `credential_refresh` | Codex or Claude; 2 callers of 1 process, 3 token pairs, 1 login | token spent twice, session lost, premature "permanent", another protocol, hanging call? |
| `credential_race` | 2 processes, 2 token pairs | finding 1 |
| `periodic_worker` | 5 generations, 2 tasks with 0 and 2 retries, 1 slot | another lifecycle than `WorkerLifecycle`, cycles that stop? |
| `queue_worker` | 4 tasks with 0, 1, 2, 0 retries, 2 slots | idle slot, a task that never settles? |
| `websocket_worker` | 3 sockets, 3 messages | stranded, alive after stop, overtaken or stuck message? |
| `usage_proxy` | 2 clients with their connections, 2 windows, TTL 2, 4 ticks, 3 answers | stale response or gauge, dead poller, calls after stop for those who may not ask, stop that hangs? |
| `cli_runner` | one `run()`, or one agy call of 2 lines with up to 3 groups; 5 policies, 12 known resets | wrong verdict, endless run or call, surviving child, half an answer, wrong owner, gate unlike gauges, gate opened by more use, by a stricter policy or by malformed data, wrong pace? |
| `cli_runner_pipes` | one `run()` | finding 2 |
| `cache_keeper` | one session, one keeper, one operator; the constants in the cfg | cold cache, second bump of a request, unannounced last bump, draft typed over? |
| `cache_keeper_gone` | the same, interval below the cooldown, `zmx list` fails | finding 3 |
| `prom_client` | 2 names, 2 series, limits 1 and 2, 1 observable name | refinement of `BoundedGauges` |
| `isolation` | 2 calls of each agent; a request for everything (with two roles), one for little (with a third role), one for a temporary home | leftovers, failure without a reason, link taken away from a CLI? |

`cli_runner` holds both places that spawn a CLI: they share nothing, and a behaviour of the
instance is one of the first or one of the second.

Why the bounds are enough: two callers are the least that join, and crash or outlive, each
other's refresh; three token pairs allow a refresh, a login and a refresh after it. Five
generations are start, stop, start, stop, start, with all three preparations pending at once;
with them, one task that waits for the slot of another and one that retries are the queue's
share in a cycle. Four tasks fill both slots and leave two waiting, one of which is enqueued
by a handler. Three sockets are two reconnects, so a reconnect after a reconnect; three
messages are one in process, one replaced, one waiting. Three answers are a window reported,
not reported and reported again; four ticks are two lifetimes of an entry. Two lines of agy
are a reply that comes first, second, or not at all; fifteen kinds of groups, taken one and
two at a time, point to one family, to two, to each other's or to none, by their names, models
or buckets, and some are malformed; the known resets lie on and next to the ends of the weeks
around the decision, and the usages on and next to each limit and reserve. For the keeper the
time constants keep the order of the defaults (interval below lead, lead below TTL) at the
smallest distances that keep the cases apart; an interval longer than the lead, or a lead of
0, can miss the window, and a keeper set up so is left out. In `cache_keeper` recordings take
up to two units and the cooldown three, so that the announcement of the last bump meets the
case it leaves out. `MaxTime` covers a bump, the bump after it and the end of the idle limit.
`ListMayFailSoon` says whether `zmx list` may fail within the cooldown of a bump: with it
`OneBumpPerRequest` does not hold (finding 3), so `cache_keeper` leaves it out and
`cache_keeper_gone` shows it. Two gauges with limits 1 and 2 over two series are a gauge that
fills up and one that takes all; their names are those of one counter, so that definitions
collide. Two calls are one that prepares and one that overlaps with it, or comes after it
failed or died, and calls repeat without a bound; the requests differ in every directory and
file. Counters of failures and of the backoff saturate, since nothing tests their size beyond
the bound.

Where a type invariant, or another invariant that a run once confirmed, is a theorem, the run
leaves it to the proof: `NoLeakedTimer`, `StartIsShared`, the queue's `SlotsAccounted` and
`FirstInFirstOut`, `OneConnection`, `OneUpstreamCall`, `ReauthFollowsLastPoll`, `AlwaysWatched`,
`OnlyLateTimersRemain`, the client's `SlotsAccounted` and `ScrapedOnce`.

Deadlock is checked except where the system may really rest: a stopped periodic
worker, a stopped WebSocket worker and a run or call that settled.

Fairness. What Node guarantees: callbacks that are due run, timers fire. What the
code's environment owes: file operations and `fetch` settle (undici gives up on a
silent peer), `prepare`, `run`, `process` and task handlers settle. The queue
needs strong fairness for a task's steps, which are enabled only between drains; a
drain ends, but drains recur. Nothing is assumed of owners (starts, stops, enqueues),
of the periodic `run()` of a queue, of the peers of sockets, nor of a child process or
whoever inherits its pipes, neither under `CliRunner` nor under `AgyCommand`: the calls end by
their timers. Nothing is assumed of when clients connect and ask; only that one which is served
again and again hangs up in the end, for which it must be free between two requests: strong
fairness, and only of `HangUp`. Node emits the `close` of a server without connections. In
`PeriodicQueue` callbacks, timers and ends of cycles are enabled only outside of drains, hence
strong fairness; drains end.

## Findings

1. **`credential_race`** (`agents/codex-usage.ts:351`). Re-reading the file before the POST
   is not atomic with it. Two processes re-read the same token; the one that comes
   second is rejected and fails with `permanent = true`, although the other holds, or
   has just written, a working session. The docs promise that a permanent failure
   means "retrying is pointless until someone logs in again"
   (`usage-proxy.ts:125`); here the next call would read the new token and succeed.
2. **`cli_runner_pipes`** (`agents/cli-runner.ts:363`). `run()` settles on `close`, which
   waits for everyone who holds the child's pipes. After a completed result the
   runner terminates and kills the child, but a process the child left behind keeps
   the run pending with no timer armed. The docs say that "the runner then stops
   waiting on the process" (`protocol.ts:103`).
3. **`cache_keeper_gone`** (`agents/claude-cache-keeper.ts:786`). A pass forgets the bump of
   every session that `zmx list` did not show, and a failed `zmx list` shows none. If
   the next pass comes before the cooldown is over, which an interval shorter than the
   cooldown allows, the request is judged as if it had not been bumped, and a second
   keepalive is submitted before the transcript shows the first. The comment on the cooldown says
   "After a bump, give the transcript time to record it before judging again."
   (`claude-cache-keeper.ts:39`).

Observed, without a run of its own:

- Whether a bump is the last is decided from the time the keeper types it: "the next one is
  due ttl - lead from now" (`claude-cache-keeper.ts:684-685`). The lifetime of the cache
  counts from when Claude Code records the keepalive, which is later. If that recording takes
  longer than a unit of time, the pass that finds the next bump due can come after
  `--max-idle`, where the session is left alone: it falls silent after a plain keepalive,
  against "The last bump before `--max-idle` ends with "This is the last bump.""
  (`README.md:386`). So `LastIsAnnounced` speaks of plain keepalives that were recorded in
  time. Without that, TLC shows it violated with the constants of `cache_keeper`: the prompt
  is recorded at 1, a plain bump is typed at 5 and recorded at 7, and the next would be due at
  11, after 1 + 9. What other recordings took does not matter (`EndIsAnnounced` has no bound
  on them).
- A malformed group may hand a family to another one (above, AgentUsage). With the exception of
  `MalformedNeverOpens` left out, TLC finds: a reply of two groups, `pool`, which matches two
  families by its third-party buckets, and one whose models and bucket id name `gpt`. The second
  owns `gpt`, by its bucket id. When it is malformed, its models alone match `gpt` no better than
  `pool`, which comes first: `pool` owns `gpt`, with quota left, and opens a gate that the
  whole group keeps closed.
- A role file that a failed call of Codex still writes can land in the directory of the next
  call, which then hands over a role it was not asked for. TLC shows `AsAsked` violated when
  `LateWrite` does not count as a disturbance, with the constants of `isolation`.
- For Claude a rejected refresh is an ordinary error (`isReauthRequired` knows
  `CodexTokenRefreshError` only, `usage-proxy.ts:521-523`), so
  `agent_usage_proxy_reauth_required` stays 0 for a Claude login that is beyond refreshing,
  though its help text speaks of "the stored credentials" (`usage-proxy.ts:437-440`) and the
  repository's README of "`1` when credentials need a login" (`README.md:338`).

## Proofs

All proofs are for every value of the constants: any set of callers, processes,
tasks, requests or windows, any bounds. They use only the named assumptions of the
modules (bounds are naturals, "none" values are no members, `Tasks` is finite,
`Concurrency` is positive, what agy sends are lists of groups with fractions of a whole, a
group that is called like a family mentions it, the usages of Codex and Claude have passed the
checks of their shape, what a home is asked to hold are lists of names), and where a theorem
needs more, it says so itself.

Folds over sequences (`FoldLeft`, `MapThenFoldSet`) are recursive, so what they compute is
proved by induction. The induction theorems of the library cannot be instantiated here, but
`SetInduction` of `AgentReadings_proof` states induction on a set of numbers instead of a
predicate, and follows from the well-foundedness of the naturals. `StyleFold`, `LineFold`,
`OwnerFold`, `GroupsFold` and `SetsFold` are the folds of this code step by step.

**CredentialRefresh_proof.** `TypeOK` is inductive; `OneRefreshPerProcess` is inductive
relative to it: the map of a process names the only call that refreshes, so entering
finds the slot free or its holder running. `SpentOnce` and `SessionKept` assume
`OneProcess` (the callers belong to one process; `credential_race` shows it is
needed). Neither is inductive. The invariant is `TokensAccounted`: a refresh never
works with a missing token; what it is about to POST is live or abandoned; what
it was answered leaves the session a token that is live or abandoned; and the
file's token is so too, or was never there, or was spent by the refresh that now
holds its successor. With one process, `OneRefreshPerProcess` makes that refresh the
only one, so the end of a refresh leaves nothing behind but the file.

`HopelessWhenPermanent` is about a step, and needs to know which login a refresh works for.
`LoginsTold` looks at every document that is in the file, in a call or about to be written
(`Around`): an access token belongs to one login, and no token has a number still to be
issued. So a refresh that re-reads the access token it has re-reads its own login, which is what
`LoginSpent` starts from: while the refresh spends, the file keeps the very document that it
re-read or gets a later login, and a token that was rejected does not come to life. A
failure for good is then one of two (`FailedForGood`), and in both nothing recovers the login
(`NothingRecovers`). TLC checked the two invariants on the instance of `credential_refresh`
first.

`Refinement` (`AgentSpec => KeepsProtocol`) goes action by action through the Claude code; the
cases that take thought are the early return of `RereadClaude`, which Codex decides by two
tests and Claude by one, and Claude's own failures: a login without a refresh token maps to
a failed read of the file, an answer that is rejected or lacks a lifetime to a failure of the
network, or to an answer the Codex code would not take either. From it `AgentSessionKept`
carries the two results on tokens over. (`HopelessWhenPermanent` says nothing more of Claude, none
of whose errors is permanent.)

**PeriodicWorker_proof.** `Current` ties each field to the current generation: a pending
chain of the current generation is `startPromise`, has no interval before its last
callback, and `cycleTimer` is of the current generation or none. From it follow
`NoLeakedTimer`, `StartIsShared`, `StopHolds`, `CyclesNeverOverlap` and the refinement:
`SetTimer` and `Finally` of an older generation stutter. `PeriodicInside` and `QueueInside` say
that each step of `PeriodicQueue` is a step (or a stutter) of either part, so neither breaks a
theorem of the other.

**QueueWorker_proof.** The counter argument needs that a shifted task held no slot:
`QueueIsWaiting` (queued tasks are waiting, and distinct). Cardinalities come from
`FiniteSetTheorems`, the order from associativity of concatenation. `AttemptsBounded` is
proved with `AttemptsLeft` and not checked by a run of its own.

**UsageProxy_proof.** `CacheIsNewest` (an entry is the newest answer and expires a TTL
after it) gives the action property `ResponsesAreCurrent`; the other parts are
inductive together with `OneUpstreamCall`. `ServiceImplements` carries them over to the
service. `ServiceInv` has two parts of its own: the server listens exactly while the poller has its
interval (`StartedTogether`), and where a promise of `stop()` is not waiting for connections and
the server does not listen, there are none (`SettledIsDrained`). With `OneCall` they give
`StoppedIsQuiet`: a call that starts needs an interval, which a stopped poller has not, or a
request on a connection, which after the promise has settled nobody has.

**AgentReadings_proof** has what is read off the output of agents.

*The cache keeper.* `TypeCorrect` needs that the style of the screen stays in its type, hence
the fold of `ApplyCode`. `TypedOverNothing` and `OneKeepalive` rest on
`ScreensAreRead`: for every content of the input box and every way Claude Code draws it (marker,
dim suggestion, cursor as an inverse cell on or after the text), the walk of `typedText` returns
the text that is in the box. The lemma is the correctness of the parser: `SgrRead`, `GlyphRead` and
`MarkerRead` say what one token does, `PlainRead`, `CursorOnTextRead` and `SuggestionRead`
what a line comes to. `BoxInv` then says what the box can hold. `OneBump` and `SilentAfterLast`
assume `~ListMayFailSoon` (finding 3 shows that they need it). `BumpInv` ties a bump in the
queue to `lastBump` and its delay to the cooldown, so that a keeper that looks at the box has none
there; `LastInv` says where the memory of the last bump is: in the transcript, or in a queue
with no later prompt, and then its cooldown runs.

`CacheStaysWarm` and `EndIsAnnounced` depend on the settings: both ask for an interval not
longer than the lead, since a longer one can miss it. `CacheStaysWarm` asks besides for
`Cooldown + Interval <= Ttl`, `EndIsAnnounced` for `Cooldown + Lead <= Ttl`, for an idle limit
that leaves room for a bump (`Ttl + Interval <= MaxIdle + Lead`). Of the recordings it assumes
nothing but what the model does: they come within the cooldown. The defaults of the code (lead
5 minutes, interval 60 s, TTL 1 h, idle limit 10 h, cooldown 30 s) satisfy them all. Four
invariants carry them. `TimesInv` orders the times: a sleeping keeper is back within an
interval, a turn in progress is of a request that came after the last bump, and a bump is only
typed once the cache is within the lead of its end (`OnItsWay`). `SmoothInv` says what
"nothing hindered" comes to: the box holds the keeper's own bump or nothing, and an idle
session has the long TTL and context enough. `WarmInv` is then inductive: the keeper of a
guarded session is awake before the cache expires, or will be. A pass that finds the session
not due (`NotDueYet`) is before the lead, hence a whole interval from the end, or in the
cooldown of a bump that was recorded after it was typed. For the end of the idle limit,
`NextFollows` and `BumpLeavesNext` say of every plain keepalive, typed or in the queue, that a
lifetime less the lead and an interval from when it was typed still lie within the limit,
unless the last bump has been sent meanwhile (`EndIsSaid`); and `BackInTime` that the pass in
which the next bump is due comes in time, if the keepalive was recorded within a unit of time:
that much is to spare, since a session with exactly the lead left is due already.

*The usage of agy.* `AnswerWhole` rests on `AnswerInv`: a pending call has told nobody to
stop, a settled one has no timer and no signal left that could, and the lines read at
`close` are the lines written. `OwnerOfFamily` follows from `Best`, what `agyFamilyGroups` knows
after each group (the first of the best so far), and from `GroupsType`, that normalised groups
are a list of groups.

*The gate.* `PaceOfWeek` compares the arithmetic of `weeklyPace` with the
number of days that have begun: `DaysOfWeek` (the clamped division counts them), `CountOfDays`
(their set is `0..k`) and `ResetForetold` (what the code makes of a known reset is the first one
after now).

`CodexOpen`, `ClaudeOpen` and `AgyOpen` say when a gate is open: none of the reasons holds,
whatever their order. `GateMonotone` rests on what they list being monotone, part by part: the
reserve, the pace (`AllowedMonotone`: a stricter policy allows no more on any day), the windows of
Claude (`AllMoreUsed`) and of agy (`Closer`: the same window of the same week, with less left). For
agy it also needs that spending changes no owner: `SameOwner` shows that two lists of groups with
the same families and scores have the same owners, since both folds find the first of the best.

`MalformedClosed` compares two replies instead of two usages: `DamagedReply` is an induction
over both normalisations at once (the same groups, but for one that has lost its buckets).
`DamagedFamilies` and `NamedHasFamilies` say which families a group may lose with its buckets,
and `DamagedGroup` that its score falls only for those: so a family passes to another group
only where `TiedByBuckets` holds, and the property speaks of all that do not pass. If the
gate's window is one of the malformed group it is missing and the gate closed; otherwise the
window is the same (`StandingOpensNone`).

`GaugesAgree` holds because a family counts, for the gauges, for the group that owns it and for no
other (`ScopeIsOwner`, which needs that a group called like a family mentions it), and because the
first bucket of a window that the samples take is the one that the gate looks up
(`GaugeOfFamily`).

**PromClient_proof.** The slots of a gauge agree with its samples because both are empty
when the gauge is defined (`UndefinedIsEmpty`) and every call changes them together.
`CallTakes` says what the four calls have in common: each gives the gauge the table
that `BoundedGauges` computes, slots and all, or changes nothing. The invariant and the
refinement both follow from it; the cardinalities come from `FiniteSetTheorems`.

**AgentProcesses_proof** has what the agents' processes are started by and in.

*The runner.* `RunsOfCli` shows that a run among the two kinds of processes is a run of
`CliRunner`. `TimersExplained` ties each timer to what armed or cleared it: the
timeout is off only when a result armed the grace timer or `terminate()` the kill timer, so a
living child has one of the three. `WhyTerminated` says who called `terminate()`, which the
verdict needs, and `Settled` that only a dead or never spawned child ends a run. All are
inductive together, with the three properties.

*The isolated homes.* None of `AsAsked`, `FailsForAReason` and `LinkKept` is inductive: half way
through a preparation a home holds neither the old nor the new. The invariant is `HomesInv`, for
every set of calls and requests:

- `Planned`: what a call has still to do is in an order in which no operation undoes what one
  before it did (`Fits`); it holds what the request needs and nothing else; operations on a link
  follow at once on the look at it; and agy's look at the shared login, which may end its
  preparation, comes last.
- `Progress`, of an undisturbed call: each directory, file and link is as asked for, or what is
  still to do makes it so. A directory, say, is right already, or holds what was copied while the
  rest is still to be copied, or is yet to be removed and made anew.
- `HeadFits`: when the next operation is one on a link, what was seen there is still true.
- `Alone`: while a call prepares a home, no other call that has it is undisturbed. So a step of
  one call cannot spoil what is claimed of another.
- `NothingUnmade`: a home that does not exist holds no link.

The plans of the four agents satisfy `Planned` (`ClaudePart`, `CodexPart`, `GeminiPart`,
`AgyPart`, put together from their pieces by `Joined`), each operation keeps `Progress`
(`AfterRm`, `AfterCopy`, `AfterFileOp`, ...; `ToLink` for what is decided on the way), and the steps
of other calls and of the surroundings keep it too. The invariant was checked by TLC on the
instance of `isolation` before it was proved.

**WebSocketWorker_proof.** Sockets and messages meet only in `Receive`, so each half has an
invariant of its own. `Numbered` (the sockets created are those up to `this.ws`, hence the
next one is `ws + 1`) and `Begun` (what `start()` and `prepare()` have come to) make
`NeverStranded`, `OneConnection` and `StopHolds` inductive together: an open or close event can
only be of the current socket, so `open` finds no other heartbeat and `close` no
reconnect under way. For the messages: the lock is held by the one message that is
processed, and what waits is the newest accepted.

Only model-checked:

- all liveness, ten properties of six runs (`CallsSettle`, `CyclesRecur`, `TasksSettle`,
  `VanishedPeerReplaced`, `WaitingMessageTaken`, `PollsRecur`, `StopResolves`, `RunSettles`,
  `CallSettles`, `ToldChildEnds`): liveness under fairness and ENABLED are beyond the provers
  at hand.

What the proofs changed in the models: `ApplyCode` chose among overlapping cases, so that a
parameter of an extended colour could also have been taken for a code (the code skips them,
`claude-cache-keeper.ts:565-568`), `TypedText` left out blanks by a filter of its own where
the code skips them in its loop, and `NormalizeGroups` filtered and mapped in two passes. All
three say now what the code does in the order in which it does it.

## Not modelled

Of the cache keeper: the incremental reader of transcripts, the lookup of session files,
settings other than `minContext`, `status` and `--dry-run`; its prediction of the last bump is
modelled in whole units, so the seconds a pass drifts are not. A draft typed between the look
at the box and the Enter is submitted with the keepalive: the model has that step, and no
property forbids what the code cannot prevent. Of the Prometheus client: the text of a scrape,
default labels, error counters. Of the isolated homes: the text of configurations, several
state files linked at once (a failed one rejects the call while the others go on; they link
the same files for every call), and the memory file of older versions that Claude's
preparation removes. Prose of errors, logging, option parsing and the normalisation of
payloads; explicit Codex and Claude tokens, which never refresh; the checks of payload shapes
and the matching of model versions in the evaluator; rounding of floating-point percentages;
the WebSocket kinds of the HTTP server, which nothing in the repository registers; adapters
beyond what the runner relies on; thin wrappers without state (HTTP client, sender, wallet,
coins). `PROJECT.json` lists every component with its status.

Assumed of what is outside: `rename` replaces a file at once; the WebSocket
constructor succeeds; the operating system ends a handshake that nobody answers
eventually or never (`NeverStranded` counts a connecting socket as under way);
retries are whole numbers.

## Plan

1. *(done)* Credential refresh of Codex and of Claude, workers and their composition, usage
   proxy with its server, CLI runner, agy command, usage gate, cache keeper, Prometheus
   client, isolated homes; proofs of all safety properties.
2. `Isolation`, abstractly: an undisturbed call replaces the home at once.
3. `TranscriptReader`: incremental reading against reading the whole file, with files
   that are truncated and grow again, below `Transcript`.
4. The WebSocket kinds of the HTTP server with their heartbeat; `CircularBuffer` refining a
   bounded sequence.
