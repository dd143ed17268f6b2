----------------------------- MODULE UsageService -----------------------------
(***************************************************************************)
(* createAgentUsageProxy (agents/usage-proxy.ts): the usage proxy behind   *)
(* its HTTP server (http/server.ts), with the starts and stops of its      *)
(* owner.                                                                  *)
(*                                                                         *)
(* stop() clears the interval of the poller and closes the server.  Node   *)
(* then accepts no connection any more, ends those that are idle, serves   *)
(* what still comes on the others, and calls back when the last of them    *)
(* has ended.  stop() waits for no poll: one that is under way ends after  *)
(* it, or with the process.                                                *)
(***************************************************************************)
EXTENDS UsageProxy

VARIABLES
  listening,   \* whether the server has its listening handle
  open,        \* the clients whose connection the server has
  stopping     \* the promises of stop(): "settled", "waiting" for the connections,
               \* or "drained", with the close event on its way

serverVars  == <<listening, open, stopping>>
serviceVars == <<serverVars, vars>>

-----------------------------------------------------------------------------
(* The server, as Node has it.                                             *)

\* Node emits `close` in a process.nextTick, before the next input or output.
Connect(r) ==
  /\ listening
  /\ stopping # "drained"
  /\ r \notin open
  /\ open' = open \cup {r}
  /\ UNCHANGED <<listening, stopping, vars>>

\* A client leaves, or its connection is kept alive no longer; what it asked for
\* goes on without it.  A server that listens again has no `close` to emit.
HangUp(r) ==
  /\ r \in open
  /\ open' = open \ {r}
  /\ stopping' = IF stopping = "waiting" /\ ~listening /\ open' = {} THEN "drained" ELSE stopping
  /\ UNCHANGED <<listening, vars>>

\* GET /usage on a connection, be the server closing or not.
Request(r) == r \in open /\ Get(r) /\ UNCHANGED serverVars

\* Server.start: listen() throws unless the handle is gone, which it is as soon as
\* the server closes.
Listen == ~listening /\ listening' = TRUE /\ UNCHANGED <<open, stopping>>

\* Server.stop: close() ends the connections that have been served; one that has
\* not asked yet stays, as does one whose next request is arriving.
CloseServer ==
  /\ listening' = FALSE
  /\ \E idle \in SUBSET {r \in open : req[r] = "idle"} : open' = open \ idle
  /\ stopping' = IF open' = {} THEN "drained" ELSE "waiting"

\* The `close` event: it settles every promise of stop() that there is.
ServerClosed ==
  /\ stopping = "drained"
  /\ stopping' = "settled"
  /\ UNCHANGED <<listening, open, vars>>

-----------------------------------------------------------------------------
(* The service.                                                            *)

StartProxy == Listen /\ StartPoller

\* Fault: the poller goes on.
StopServerOnly == CloseServer /\ UNCHANGED vars

\* A stop() of what is stopped clears nothing; its promise rejects when the others
\* resolve.
StopProxy == CloseServer /\ IF timer THEN StopPoller ELSE UNCHANGED vars

ServiceInit ==
  /\ Init
  /\ listening = FALSE
  /\ open = {}
  /\ stopping = "settled"

ServiceNext ==
  \/ \E r \in Requests : Connect(r) \/ HangUp(r) \/ Request(r)
  \/ StartProxy
  \/ StopProxy
  \/ ServerClosed
  \/ (Upstream \/ IntervalFires \/ TimePasses) /\ UNCHANGED serverVars

ServiceSpec == ServiceInit /\ [][ServiceNext]_serviceVars

\* As in UsageProxy; Node emits what is due; and a client that is served again and
\* again leaves in the end, for no deadline of the server makes it.
ServiceFairSpec ==
  /\ ServiceSpec
  /\ WF_serviceVars(Upstream /\ UNCHANGED serverVars)
  /\ WF_serviceVars(IntervalFires /\ UNCHANGED serverVars)
  /\ WF_serviceVars(ServerClosed)
  /\ \A r \in Requests : SF_serviceVars(req[r] = "idle" /\ HangUp(r))

-----------------------------------------------------------------------------
(* Properties.                                                             *)

\* The server listens exactly while the poller has its interval.
ServerAndPoller == timer <=> listening

\* Once stop() has settled, no connection is left unless the server listens again.
NoneLeft ==
  /\ stopping \in {"settled", "waiting", "drained"}
  /\ stopping # "waiting" /\ ~listening => open = {}

\* A stopped proxy polls no more (lines 200-203, 464-467), and goes upstream only for a
\* client that was connected before and asks; once stop() has settled, for nobody.
QuietAfterStop ==
  [][~listening /\ ~listening' =>
       /\ intervals = 0
       /\ running' => running
       /\ calls' > calls =>
            stopping = "waiting" /\ \E r \in open : req[r] = "idle" /\ req'[r] = "waiting"]_serviceVars

\* The promise of stop() settles, whatever is asked for before and after it and
\* however the upstream call ends, unless the owner starts the proxy again first.
StopResolves == stopping # "settled" ~> stopping = "settled" \/ listening

=============================================================================
