--------------------------- MODULE WebSocketWorker ---------------------------
(***************************************************************************)
(* app/websocketWorker.ts: a client WebSocket that reconnects with backoff *)
(* and a heartbeat, and a queue that keeps the latest message only.        *)
(*                                                                         *)
(* Sockets are numbered in the order the worker creates them.  Each event  *)
(* of a socket, each timer and each continuation of an await is an action. *)
(***************************************************************************)
EXTENDS Naturals, FiniteSets

CONSTANTS
  MaxSockets,   \* bound: how many sockets the worker creates
  MaxMessages   \* bound: how many messages it accepts

ASSUME BoundsAssumption == MaxSockets \in Nat \ {0} /\ MaxMessages \in Nat \ {0}

VARIABLES
  started, stopped,   \* this.started, this.stopped
  preparing,          \* start() awaits prepare()
  ws,                 \* this.ws: the number of a socket, or None
  sock,               \* the state of each socket
  isAlive,            \* socket.isAlive of each socket
  silent,             \* sockets whose peer vanished without closing
  heartbeatInterval,  \* this.heartbeatInterval: the socket it pings, or None
  beats,              \* heartbeats that Node still fires, by socket
  reconnectTimeout,   \* whether this.reconnectTimeout is set
  timeouts,           \* how many reconnect timeouts Node will still fire
  backoff,            \* this.reconnectDelay is 2^backoff seconds
  queue,              \* this.queue: a message or None
  isLocked,           \* this.isLocked
  processing,         \* messages whose process() is pending
  accepted,           \* history: the number of messages accepted so far
  ready,              \* this.status.ready
  threw               \* history: the status callback threw out of a `catch`

lifeVars == <<started, stopped, preparing>>
connVars == <<ws, sock, isAlive, silent, heartbeatInterval, beats,
              reconnectTimeout, timeouts, backoff>>
msgVars  == <<queue, isLocked, processing, accepted, ready, threw>>
vars     == <<lifeVars, connVars, msgVars>>

None == 0

Socket == 1..MaxSockets

Message == 1..MaxMessages

\* "closing": the connection is over and the close event is due.
SocketState == {"none", "connecting", "open", "closing", "closed"}

Connected(s) == sock[s] \in {"connecting", "open"}

-----------------------------------------------------------------------------
(* Starting and connecting.                                                *)

\* connect() creates socket n and forgets the one before.
ConnectAs(n) ==
  /\ ws' = n
  /\ sock' = [sock EXCEPT ![n] = "connecting"]
  /\ isAlive' = [isAlive EXCEPT ![n] = TRUE]

Created == {s \in Socket : sock[s] # "none"}

Start ==
  /\ ~started /\ ~stopped
  /\ started' = TRUE
  /\ preparing' = TRUE
  /\ UNCHANGED <<stopped, connVars, msgVars>>

PrepareFails ==
  /\ preparing
  /\ preparing' = FALSE
  /\ started' = FALSE
  /\ UNCHANGED <<stopped, connVars, msgVars>>

\* Fault: start() connects although stop() came during prepare().
PrepareConnects ==
  /\ preparing
  /\ preparing' = FALSE
  /\ ConnectAs(Cardinality(Created) + 1)
  /\ UNCHANGED <<started, stopped, silent, heartbeatInterval, beats,
                 reconnectTimeout, timeouts, backoff, msgVars>>

PrepareSucceeds ==
  /\ preparing
  /\ preparing' = FALSE
  /\ IF stopped THEN UNCHANGED <<ws, sock, isAlive>>
     ELSE ConnectAs(Cardinality(Created) + 1)
  /\ UNCHANGED <<started, stopped, silent, heartbeatInterval, beats,
                 reconnectTimeout, timeouts, backoff, msgVars>>

\* stopKeepAlive()
StopKeepAlive ==
  /\ heartbeatInterval' = None
  /\ beats' = beats \ {heartbeatInterval}

\* startKeepAlive(s) stops the heartbeat there was.
StartKeepAlive(s) ==
  /\ heartbeatInterval' = s
  /\ beats' = (beats \ {heartbeatInterval}) \cup {s}

\* reconnect() schedules one attempt, if none is scheduled.
Reconnect ==
  IF stopped \/ reconnectTimeout
  THEN UNCHANGED <<reconnectTimeout, timeouts>>
  ELSE reconnectTimeout' = TRUE /\ timeouts' = timeouts + 1

\* Fault: the timeout that fired is not forgotten.
ReconnectFiresOnce ==
  /\ timeouts > 0
  /\ stopped \/ Cardinality(Created) < MaxSockets
  /\ timeouts' = timeouts - 1
  /\ IF stopped THEN UNCHANGED <<ws, sock, isAlive, backoff>>
     ELSE ConnectAs(Cardinality(Created) + 1) /\ backoff' = backoff + 1
  /\ UNCHANGED <<lifeVars, silent, heartbeatInterval, beats, reconnectTimeout, msgVars>>

\* The reconnect timeout fires: connect, then double the delay.
ReconnectFires ==
  /\ timeouts > 0
  /\ stopped \/ Cardinality(Created) < MaxSockets
  /\ timeouts' = timeouts - 1
  /\ reconnectTimeout' = FALSE
  /\ IF stopped THEN UNCHANGED <<ws, sock, isAlive, backoff>>
     ELSE ConnectAs(Cardinality(Created) + 1) /\ backoff' = backoff + 1
  /\ UNCHANGED <<lifeVars, silent, heartbeatInterval, beats, msgVars>>

-----------------------------------------------------------------------------
(* The events of a socket.                                                 *)

\* open
Open(s) ==
  /\ sock[s] = "connecting"
  /\ sock' = [sock EXCEPT ![s] = "open"]
  /\ IF stopped \/ ws # s THEN UNCHANGED <<backoff, heartbeatInterval, beats>>
     ELSE backoff' = 0 /\ StartKeepAlive(s)
  /\ UNCHANGED <<lifeVars, ws, isAlive, silent, reconnectTimeout, timeouts, msgVars>>

\* close
Close(s) ==
  /\ sock[s] = "closing"
  /\ sock' = [sock EXCEPT ![s] = "closed"]
  /\ IF ws # s THEN UNCHANGED <<heartbeatInterval, beats, reconnectTimeout, timeouts>>
     ELSE StopKeepAlive /\ Reconnect
  /\ UNCHANGED <<lifeVars, ws, isAlive, silent, backoff, msgVars>>

\* The connection fails or the peer closes it.  An error event comes before the
\* close event; onError answers it with socket.close().
ConnectionEnds(s) ==
  /\ Connected(s) /\ s \notin silent
  /\ sock' = [sock EXCEPT ![s] = "closing"]
  /\ UNCHANGED <<lifeVars, ws, isAlive, silent, heartbeatInterval, beats,
                 reconnectTimeout, timeouts, backoff, msgVars>>

\* pong
Pong(s) ==
  /\ sock[s] = "open" /\ s \notin silent
  /\ isAlive' = [isAlive EXCEPT ![s] = @ \/ (~stopped /\ ws = s)]
  /\ UNCHANGED <<lifeVars, ws, sock, silent, heartbeatInterval, beats,
                 reconnectTimeout, timeouts, backoff, msgVars>>

\* The peer vanishes: nothing comes from it any more, not even a close.
Vanish(s) ==
  /\ sock[s] = "open"
  /\ silent' = silent \cup {s}
  /\ UNCHANGED <<lifeVars, ws, sock, isAlive, heartbeatInterval, beats,
                 reconnectTimeout, timeouts, backoff, msgVars>>

\* Fault: a ping does not ask for its pong.
HeartbeatForgets(s) ==
  /\ s \in beats
  /\ ~stopped /\ ws = s
  /\ sock' = [sock EXCEPT ![s] = IF ~isAlive[s] /\ Connected(s) THEN "closing" ELSE @]
  /\ UNCHANGED <<lifeVars, ws, isAlive, silent, heartbeatInterval, beats,
                 reconnectTimeout, timeouts, backoff, msgVars>>

\* The heartbeat of socket s fires: ping, or terminate a socket that did not
\* answer the ping before.
Heartbeat(s) ==
  /\ s \in beats
  /\ ~stopped /\ ws = s
  /\ IF isAlive[s]
     THEN isAlive' = [isAlive EXCEPT ![s] = FALSE] /\ UNCHANGED sock
     ELSE sock' = [sock EXCEPT ![s] = IF Connected(s) THEN "closing" ELSE @]
          /\ UNCHANGED isAlive
  /\ UNCHANGED <<lifeVars, ws, silent, heartbeatInterval, beats,
                 reconnectTimeout, timeouts, backoff, msgVars>>

\* stop() terminates the socket; its close event comes later.
Stop ==
  /\ ~stopped
  /\ stopped' = TRUE
  /\ StopKeepAlive
  /\ reconnectTimeout' = FALSE
  /\ timeouts' = IF reconnectTimeout THEN timeouts - 1 ELSE timeouts
  /\ sock' = [s \in Socket |-> IF s = ws /\ Connected(s) THEN "closing" ELSE sock[s]]
  /\ UNCHANGED <<started, preparing, ws, isAlive, silent, backoff, msgVars>>

-----------------------------------------------------------------------------
(* The messages.                                                           *)

\* Fault: the message that waits already is kept.
ReceiveKeepsOld(s) ==
  /\ sock[s] \in {"open", "closing"} /\ s \notin silent
  /\ ~stopped /\ ws = s
  /\ accepted < MaxMessages
  /\ accepted' = accepted + 1
  /\ IF isLocked
     THEN queue' = (IF queue = None THEN accepted + 1 ELSE queue) /\ UNCHANGED <<isLocked, processing>>
     ELSE /\ queue' = None
          /\ isLocked' = TRUE
          /\ processing' = processing \cup {accepted + 1}
  /\ UNCHANGED <<lifeVars, connVars, ready, threw>>

\* A valid message replaces the one that waits; processNext takes it when
\* nothing is being processed.  (An invalid one is logged and changes nothing.)
Receive(s) ==
  /\ sock[s] \in {"open", "closing"} /\ s \notin silent
  /\ ~stopped /\ ws = s
  /\ accepted < MaxMessages
  /\ accepted' = accepted + 1
  /\ IF isLocked
     THEN queue' = accepted + 1 /\ UNCHANGED <<isLocked, processing>>
     ELSE /\ queue' = None
          /\ isLocked' = TRUE
          /\ processing' = processing \cup {accepted + 1}
  /\ UNCHANGED <<lifeVars, connVars, ready, threw>>

\* Fault: processNext takes one message and returns.
ProcessesOne(m, caught, throwsAgain) ==
  /\ m \in processing
  /\ ready' = ~caught
  /\ threw' = (threw \/ (caught /\ throwsAgain))
  /\ isLocked' = FALSE
  /\ processing' = processing \ {m}
  /\ UNCHANGED <<lifeVars, connVars, queue, accepted>>

\* process() settles, or the status callback throws out of the `try`; then the
\* loop of processNext takes the next message.  A callback that throws out of the
\* `catch` leaves the loop.
ProcessSettles(m, caught, throwsAgain) ==
  LET leaves == caught /\ throwsAgain
      goesOn == ~leaves /\ queue # None
  IN /\ m \in processing
     /\ ready' = ~caught
     /\ threw' = (threw \/ leaves)
     /\ isLocked' = goesOn
     /\ processing' = (processing \ {m}) \cup (IF goesOn THEN {queue} ELSE {})
     /\ queue' = IF goesOn THEN None ELSE queue
     /\ UNCHANGED <<lifeVars, connVars, accepted>>

-----------------------------------------------------------------------------

Init ==
  /\ started = FALSE
  /\ stopped = FALSE
  /\ preparing = FALSE
  /\ ws = None
  /\ sock = [s \in Socket |-> "none"]
  /\ isAlive = [s \in Socket |-> FALSE]
  /\ silent = {}
  /\ heartbeatInterval = None
  /\ beats = {}
  /\ reconnectTimeout = FALSE
  /\ timeouts = 0
  /\ backoff = 0
  /\ queue = None
  /\ isLocked = FALSE
  /\ processing = {}
  /\ accepted = 0
  /\ ready = TRUE
  /\ threw = FALSE

EndOfProcess(m) == \E caught, throwsAgain \in BOOLEAN : ProcessSettles(m, caught, throwsAgain)

Next ==
  \/ Start
  \/ PrepareFails
  \/ PrepareSucceeds
  \/ Stop
  \/ ReconnectFires
  \/ \E s \in Socket :
       Open(s) \/ Close(s) \/ ConnectionEnds(s) \/ Pong(s) \/ Vanish(s) \/ Heartbeat(s) \/ Receive(s)
  \/ \E m \in Message : EndOfProcess(m)

Spec == Init /\ [][Next]_vars

\* Node fires the timers that are set, the library delivers the close event of
\* a connection that is over, and process() settles.  Nothing is assumed of the
\* peer: it need not accept, answer or close.
FairSpec ==
  /\ Spec
  /\ WF_vars(ReconnectFires)
  /\ \A s \in Socket : WF_vars(Close(s)) /\ WF_vars(Heartbeat(s))
  /\ \A m \in Message : WF_vars(EndOfProcess(m))

-----------------------------------------------------------------------------
(* Properties.                                                             *)

\* The state has its shape.
TypeOK ==
  /\ started \in BOOLEAN /\ stopped \in BOOLEAN /\ preparing \in BOOLEAN
  /\ ws \in Socket \cup {None}
  /\ sock \in [Socket -> SocketState]
  /\ isAlive \in [Socket -> BOOLEAN]
  /\ silent \subseteq Socket
  /\ heartbeatInterval \in Socket \cup {None}
  /\ beats \subseteq Socket
  /\ reconnectTimeout \in BOOLEAN
  /\ timeouts \in Nat
  /\ backoff \in Nat
  /\ queue \in Message \cup {None}
  /\ isLocked \in BOOLEAN
  /\ processing \subseteq Message
  /\ accepted \in 0..MaxMessages
  /\ ready \in BOOLEAN
  /\ threw \in BOOLEAN

\* A worker that was started and not stopped is never stranded: it is connected
\* or connecting, or the event or the timer that reconnects it is due.
NeverStranded ==
  started /\ ~preparing /\ ~stopped =>
    \/ ws # None /\ sock[ws] \in {"connecting", "open", "closing"}
    \/ reconnectTimeout /\ timeouts > 0

\* The worker never has two connections, and a reconnect is only scheduled when
\* it has none; so no event of an older socket can reach it.  An open connection
\* is watched by exactly one heartbeat, and no heartbeat outlives its connection.
OneConnection ==
  /\ \A s \in Created : s # ws => sock[s] = "closed"
  /\ timeouts > 0 => ws # None /\ sock[ws] = "closed"
  /\ timeouts = (IF reconnectTimeout THEN 1 ELSE 0)
  /\ beats = {heartbeatInterval} \ {None}
  /\ \A s \in Socket : sock[s] = "open" /\ ~stopped => s \in beats
  /\ \A s \in beats : s = ws /\ sock[s] \in {"open", "closing"}

\* After stop(), whatever was pending, no timer is left, no connection is kept
\* and none is made (lines 69, 86, 170, 305-316).
StopHolds ==
  stopped => beats = {} /\ timeouts = 0 /\ \A s \in Socket : ~Connected(s)

\* Messages are processed one at a time, and only the newest is taken, so an
\* older one never follows a newer one.
OnlyTheNewestIsTaken ==
  [][processing' # processing /\ processing' # {} => processing' = {accepted'}]_vars

\* A peer that vanished is noticed by the heartbeat, and its socket closed.
VanishedPeerReplaced ==
  \A s \in Socket : sock[s] = "open" /\ s \in silent ~> sock[s] = "closed"

\* Unless the status callback throws out of a `catch`, a message that waits is
\* processed or gives way to a newer one, also after a stop.
WaitingMessageTaken == \A m \in Message : queue = m ~> queue # m \/ threw

=============================================================================
