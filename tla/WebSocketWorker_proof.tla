------------------------ MODULE WebSocketWorker_proof ------------------------
(***************************************************************************)
(* Proofs about WebSocketWorker, for any number of sockets and messages.   *)
(* Sockets and messages meet in Receive only, so each half of the state    *)
(* has an invariant of its own.                                            *)
(***************************************************************************)
EXTENDS WebSocketWorker, FiniteSetTheorems, TLAPS

-----------------------------------------------------------------------------
(* The connection.                                                         *)

TypeConn ==
  /\ started \in BOOLEAN /\ stopped \in BOOLEAN /\ preparing \in BOOLEAN
  /\ ws \in Socket \cup {None}
  /\ sock \in [Socket -> SocketState]
  /\ isAlive \in [Socket -> BOOLEAN]
  /\ silent \subseteq Socket
  /\ heartbeatInterval \in Socket \cup {None}
  /\ beats \subseteq Socket
  /\ reconnectTimeout \in BOOLEAN
  /\ timeouts \in Nat
  /\ backoff \in Nat

\* The sockets created are those up to this.ws.
Numbered == \A s \in Socket : sock[s] # "none" <=> s <= ws

\* What start() and prepare() have come to.
Begun ==
  /\ preparing => started /\ ws = None
  /\ ~started => ws = None
  /\ started /\ ~preparing /\ ~stopped => ws # None

ConnInv ==
  /\ TypeConn
  /\ Numbered
  /\ Begun
  /\ NeverStranded
  /\ OneConnection
  /\ StopHolds

LEMMA NextSocket ==
  ASSUME TypeConn, Numbered
  PROVE  Cardinality(Created) = ws
<1>1. ws \in Nat /\ ws <= MaxSockets
  BY BoundsAssumption DEF TypeConn, Socket, None
<1>2. Created = 1..ws
  BY <1>1, BoundsAssumption DEF Created, Numbered, Socket
<1>3. Cardinality(1..ws) = IF 1 > ws THEN 0 ELSE ws - 1 + 1
  BY <1>1, FS_Interval
<1> QED
  BY <1>1, <1>2, <1>3

LEMMA ConnInitial == Init => ConnInv
<1> SUFFICES ASSUME Init PROVE ConnInv
  OBVIOUS
<1>1. TypeConn
  BY DEF Init, TypeConn, SocketState
<1>2. Created = {} /\ beats = {} /\ timeouts = 0 /\ \A s \in Socket : sock[s] = "none"
  BY DEF Init, Created
<1>3. Numbered
  BY <1>2, BoundsAssumption DEF Init, Numbered, Socket, None
<1>4. Begun /\ NeverStranded /\ StopHolds
  BY DEF Init, Begun, NeverStranded, StopHolds
<1>5. OneConnection
  BY <1>2 DEF Init, OneConnection
<1> QED
  BY <1>1, <1>3, <1>4, <1>5 DEF ConnInv

\* Every socket but this.ws is closed, or not yet created.
LEMMA OnlyWs ==
  ASSUME ConnInv, NEW s \in Socket, sock[s] \in {"connecting", "open", "closing"}
  PROVE  s = ws
BY DEF ConnInv, OneConnection, Created

LEMMA Connects ==
  ASSUME ConnInv, ~stopped, started, beats = {}, ws + 1 \in Socket,
         ws = None \/ sock[ws] = "closed",
         ConnectAs(ws + 1), UNCHANGED <<started, stopped, silent, heartbeatInterval, beats>>,
         preparing' = FALSE, reconnectTimeout' = FALSE, timeouts' = 0, backoff' \in Nat
  PROVE  ConnInv'
<1> USE DEF ConnInv
<1>1. ws \in Nat
  BY BoundsAssumption DEF TypeConn, Socket, None
<1>2. /\ sock' = [sock EXCEPT ![ws + 1] = "connecting"]
      /\ isAlive' = [isAlive EXCEPT ![ws + 1] = TRUE]
      /\ ws' = ws + 1
  BY DEF ConnectAs
<1>3. TypeConn'
  <2>1. sock' \in [Socket -> SocketState] /\ isAlive' \in [Socket -> BOOLEAN]
    BY <1>2 DEF TypeConn, SocketState
  <2>2. ws' \in Socket
    BY <1>2
  <2> QED
    BY <2>1, <2>2 DEF TypeConn
<1>4. \A s \in Socket : sock'[s] = IF s = ws + 1 THEN "connecting" ELSE sock[s]
  BY <1>2 DEF TypeConn
<1>5. Numbered'
  BY <1>1, <1>2, <1>4 DEF Numbered, Socket
<1>6. ws' # None /\ sock'[ws'] = "connecting"
  BY <1>1, <1>2, <1>4 DEF None
<1>7. Begun' /\ NeverStranded' /\ StopHolds'
  BY <1>6 DEF Begun, NeverStranded, StopHolds
<1>8. OneConnection'
  <2>1. \A s \in Socket : sock'[s] # "none" /\ s # ws' => sock'[s] = "closed"
    BY <1>2, <1>4 DEF OneConnection, Created, None, Socket
  <2> QED
    BY <1>2, <1>4, <2>1 DEF OneConnection, Created
<1> QED
  BY <1>3, <1>5, <1>7, <1>8

LEMMA ConnInductive ==
  ASSUME ConnInv, [Next]_vars
  PROVE  ConnInv'
<1> USE DEF ConnInv
<1>0. CASE UNCHANGED <<lifeVars, connVars>>
  BY <1>0 DEF TypeConn, Numbered, Begun, NeverStranded, OneConnection, StopHolds,
              Created, Connected, lifeVars, connVars
<1>1. CASE Start
  BY <1>1 DEF Start, TypeConn, Numbered, Begun, NeverStranded, OneConnection, StopHolds,
              Created, Connected, connVars
<1>2. CASE PrepareFails
  BY <1>2 DEF PrepareFails, TypeConn, Numbered, Begun, NeverStranded, OneConnection, StopHolds,
              Created, Connected, connVars
<1>3. CASE PrepareSucceeds
  <2>1. CASE stopped
    BY <1>3, <2>1 DEF PrepareSucceeds, TypeConn, Numbered, Begun, NeverStranded, OneConnection,
                      StopHolds, Created, Connected
  <2>2. CASE ~stopped
    <3>1. ws = None /\ started /\ beats = {} /\ timeouts = 0 /\ reconnectTimeout = FALSE
      BY <1>3 DEF PrepareSucceeds, TypeConn, Begun, OneConnection, None, Socket
    <3>2. ConnectAs(ws + 1)
      BY <1>3, <2>2, NextSocket DEF PrepareSucceeds
    <3>3. ws + 1 \in Socket
      BY <3>1, BoundsAssumption DEF None, Socket
    <3> QED
      BY <1>3, <2>2, <3>1, <3>2, <3>3, Connects DEF PrepareSucceeds, TypeConn
  <2> QED
    BY <2>1, <2>2
<1>4. CASE ReconnectFires
  <2>1. ~stopped /\ timeouts = 1 /\ ws # None /\ sock[ws] = "closed"
    BY <1>4 DEF ReconnectFires, OneConnection, StopHolds, TypeConn
  <2>2. beats = {} /\ started /\ ~preparing
    BY <2>1 DEF OneConnection, Begun, TypeConn
  <2>3. Cardinality(Created) = ws
    BY NextSocket
  <2>4. ws + 1 \in Socket /\ ConnectAs(ws + 1) /\ backoff' \in Nat
    BY <1>4, <2>1, <2>3, BoundsAssumption DEF ReconnectFires, Socket, None, TypeConn
  <2>5. /\ UNCHANGED <<started, stopped, silent, heartbeatInterval, beats>>
        /\ preparing' = FALSE /\ reconnectTimeout' = FALSE /\ timeouts' = 0
    BY <1>4, <2>1, <2>2 DEF ReconnectFires, lifeVars, TypeConn
  <2> QED
    BY <2>1, <2>2, <2>4, <2>5, Connects
<1>5. CASE Stop
  <2>1. beats' = {} /\ timeouts' = 0 /\ reconnectTimeout' = FALSE /\ heartbeatInterval' = None
    BY <1>5 DEF Stop, StopKeepAlive, OneConnection, TypeConn
  <2>2. \A s \in Socket : sock'[s] = IF s = ws /\ Connected(s) THEN "closing" ELSE sock[s]
    BY <1>5 DEF Stop
  <2>3. TypeConn'
    <3>1. sock' \in [Socket -> SocketState]
      BY <1>5 DEF Stop, TypeConn, SocketState
    <3>2. /\ stopped' = TRUE /\ beats' = {} /\ heartbeatInterval' = None
          /\ UNCHANGED <<started, preparing, ws, isAlive, silent, backoff>>
      BY <1>5, <2>1 DEF Stop
    <3> QED
      BY <2>1, <3>1, <3>2 DEF TypeConn
  <2>4. Numbered' /\ Begun'
    BY <1>5, <2>2 DEF Stop, Numbered, Begun, Connected
  <2>5. StopHolds'
    BY <1>5, <2>1, <2>2, OnlyWs DEF Stop, StopHolds, Connected
  <2>6. OneConnection' /\ NeverStranded'
    BY <1>5, <2>1, <2>2 DEF Stop, OneConnection, NeverStranded, Created, Connected
  <2> QED
    BY <2>3, <2>4, <2>5, <2>6
<1>6. ASSUME NEW s \in Socket, Open(s) PROVE ConnInv'
  <2>1. s = ws /\ ~stopped /\ sock[s] = "connecting"
    BY <1>6, OnlyWs DEF Open, StopHolds, Connected
  <2>2. beats' = {s} /\ heartbeatInterval' = s /\ backoff' = 0
    BY <1>6, <2>1 DEF Open, StartKeepAlive, OneConnection
  <2>3. \A r \in Socket : sock'[r] = IF r = s THEN "open" ELSE sock[r]
    BY <1>6 DEF Open, TypeConn
  <2>4. TypeConn'
    BY <1>6, <2>2 DEF Open, TypeConn, SocketState, lifeVars
  <2>5. Numbered' /\ Begun' /\ NeverStranded' /\ StopHolds'
    BY <1>6, <2>1, <2>3 DEF Open, Numbered, Begun, NeverStranded, StopHolds, lifeVars
  <2>6. OneConnection'
    BY <1>6, <2>1, <2>2, <2>3, BoundsAssumption DEF Open, OneConnection, Created, None, Socket, lifeVars
  <2> QED
    BY <2>4, <2>5, <2>6
<1>7. ASSUME NEW s \in Socket, Close(s) PROVE ConnInv'
  <2>1. s = ws /\ sock[s] = "closing" /\ ws # None
    BY <1>7, OnlyWs DEF Close, Socket, None
  <2>2. beats' = {} /\ heartbeatInterval' = None
    BY <1>7, <2>1 DEF Close, StopKeepAlive, OneConnection
  <2>3. \A r \in Socket : sock'[r] = IF r = s THEN "closed" ELSE sock[r]
    BY <1>7 DEF Close, TypeConn
  <2>4. timeouts = 0 /\ reconnectTimeout = FALSE
    BY <2>1 DEF OneConnection, TypeConn
  <2>5. IF stopped THEN timeouts' = 0 /\ ~reconnectTimeout' ELSE timeouts' = 1 /\ reconnectTimeout'
    BY <1>7, <2>1, <2>4 DEF Close, Reconnect
  <2>6. TypeConn'
    <3>1. sock' \in [Socket -> SocketState]
      BY <1>7 DEF Close, TypeConn, SocketState
    <3>2. \/ timeouts' = timeouts /\ reconnectTimeout' = reconnectTimeout
          \/ timeouts' = timeouts + 1 /\ reconnectTimeout' = TRUE
      BY <1>7, <2>1 DEF Close, Reconnect
    <3>3. timeouts' \in Nat
      BY <3>2 DEF TypeConn
    <3>4. reconnectTimeout' \in BOOLEAN
      BY <3>2 DEF TypeConn
    <3> QED
      BY <1>7, <2>2, <3>1, <3>3, <3>4 DEF Close, TypeConn, lifeVars
  <2>7. Numbered' /\ Begun' /\ NeverStranded' /\ StopHolds'
    BY <1>7, <2>1, <2>2, <2>3, <2>5 DEF Close, Numbered, Begun, NeverStranded, StopHolds, Connected, lifeVars
  <2>8. OneConnection'
    BY <1>7, <2>1, <2>2, <2>3, <2>5 DEF Close, OneConnection, Created, lifeVars
  <2> QED
    BY <2>6, <2>7, <2>8
<1>8. ASSUME NEW s \in Socket, ConnectionEnds(s) PROVE ConnInv'
  <2>1. s = ws /\ sock[s] \in {"connecting", "open"}
    BY <1>8, OnlyWs DEF ConnectionEnds, Connected
  <2>2. \A r \in Socket : sock'[r] = IF r = s THEN "closing" ELSE sock[r]
    BY <1>8 DEF ConnectionEnds, TypeConn
  <2>3. TypeConn'
    BY <1>8 DEF ConnectionEnds, TypeConn, SocketState, lifeVars
  <2>4. Numbered' /\ Begun' /\ NeverStranded' /\ StopHolds'
    BY <1>8, <2>1, <2>2 DEF ConnectionEnds, Numbered, Begun, NeverStranded, StopHolds, Connected, lifeVars
  <2>5. OneConnection'
    BY <1>8, <2>1, <2>2 DEF ConnectionEnds, OneConnection, Created, lifeVars
  <2> QED
    BY <2>3, <2>4, <2>5
<1>9. ASSUME NEW s \in Socket, Pong(s) \/ Vanish(s) PROVE ConnInv'
  <2>1. TypeConn'
    BY <1>9 DEF Pong, Vanish, TypeConn, lifeVars
  <2>2. Numbered' /\ Begun' /\ NeverStranded' /\ StopHolds' /\ OneConnection'
    BY <1>9 DEF Pong, Vanish, Numbered, Begun, NeverStranded, StopHolds, OneConnection,
                Created, Connected, lifeVars
  <2> QED
    BY <2>1, <2>2
<1>10. ASSUME NEW s \in Socket, Heartbeat(s) PROVE ConnInv'
  <2>1. s = ws /\ sock[s] \in {"open", "closing"} /\ ~stopped
    BY <1>10 DEF Heartbeat, OneConnection
  <2>2. \A r \in Socket : sock'[r] = IF r = s THEN sock'[s] ELSE sock[r]
    <3>1. sock' = sock \/ sock' = [sock EXCEPT ![s] = IF Connected(s) THEN "closing" ELSE @]
      BY <1>10 DEF Heartbeat
    <3> QED
      BY <3>1 DEF TypeConn
  <2>3. sock'[s] = sock[s] \/ sock'[s] = "closing"
    BY <1>10 DEF Heartbeat, TypeConn
  <2>4. TypeConn'
    BY <1>10 DEF Heartbeat, TypeConn, SocketState, lifeVars
  <2>5. Numbered' /\ Begun' /\ NeverStranded' /\ StopHolds'
    BY <1>10, <2>1, <2>2, <2>3 DEF Heartbeat, Numbered, Begun, NeverStranded, StopHolds, Connected, lifeVars
  <2>6. OneConnection'
    BY <1>10, <2>1, <2>2, <2>3 DEF Heartbeat, OneConnection, Created, lifeVars
  <2> QED
    BY <2>4, <2>5, <2>6
<1>11. ASSUME NEW s \in Socket, Receive(s) PROVE ConnInv'
  BY <1>0, <1>11 DEF Receive
<1>12. ASSUME NEW m \in Message, EndOfProcess(m) PROVE ConnInv'
  BY <1>0, <1>12 DEF EndOfProcess, ProcessSettles
<1>13. CASE UNCHANGED vars
  BY <1>0, <1>13 DEF vars
<1> QED
  BY <1>1, <1>2, <1>3, <1>4, <1>5, <1>6, <1>7, <1>8, <1>9, <1>10, <1>11, <1>12, <1>13 DEF Next

LEMMA ConnAlways == Spec => []ConnInv
BY ConnInitial, ConnInductive, PTL DEF Spec

-----------------------------------------------------------------------------
(* The messages.                                                           *)

TypeMsg ==
  /\ queue \in Message \cup {None}
  /\ isLocked \in BOOLEAN
  /\ processing \subseteq Message
  /\ accepted \in 0..MaxMessages
  /\ ready \in BOOLEAN
  /\ threw \in BOOLEAN

\* The lock is held by the one message that is processed, and what waits is the
\* newest there is.
MsgInv ==
  /\ TypeMsg
  /\ queue # None => queue = accepted
  /\ ~isLocked => processing = {}
  /\ \A m, n \in processing : m = n

LEMMA MsgInductive ==
  ASSUME MsgInv, [Next]_vars
  PROVE  /\ MsgInv'
         /\ processing' # processing /\ processing' # {} => processing' = {accepted'}
<1> USE DEF MsgInv
<1>1. CASE UNCHANGED msgVars
  BY <1>1 DEF TypeMsg, msgVars
<1>2. ASSUME NEW s \in Socket, Receive(s)
      PROVE  /\ MsgInv'
             /\ processing' # processing /\ processing' # {} => processing' = {accepted'}
  <2>1. accepted' = accepted + 1 /\ accepted + 1 \in Message /\ accepted' \in 0..MaxMessages
    BY <1>2, BoundsAssumption DEF Receive, TypeMsg, Message
  <2>2. CASE isLocked
    BY <1>2, <2>1, <2>2 DEF Receive, TypeMsg
  <2>3. CASE ~isLocked
    <3>1. processing' = {accepted + 1} /\ isLocked' /\ queue' = None
      BY <1>2, <2>3 DEF Receive
    <3> QED
      BY <1>2, <2>1, <3>1 DEF Receive, TypeMsg
  <2> QED
    BY <2>2, <2>3
<1>3. ASSUME NEW m \in Message, NEW caught \in BOOLEAN, NEW throwsAgain \in BOOLEAN,
             ProcessSettles(m, caught, throwsAgain)
      PROVE  /\ MsgInv'
             /\ processing' # processing /\ processing' # {} => processing' = {accepted'}
  <2>1. processing \ {m} = {} /\ accepted' = accepted
    BY <1>3 DEF ProcessSettles
  <2>2. CASE isLocked'
    <3>1. processing' = {queue} /\ queue' = None /\ queue # None
      BY <1>3, <2>1, <2>2 DEF ProcessSettles
    <3>2. TypeMsg'
      BY <1>3, <2>1, <3>1 DEF ProcessSettles, TypeMsg
    <3> QED
      BY <2>1, <2>2, <3>1, <3>2
  <2>3. CASE ~isLocked'
    <3>1. processing' = {} /\ queue' = queue /\ isLocked' = FALSE
      BY <1>3, <2>1, <2>3 DEF ProcessSettles
    <3>2. TypeMsg'
      BY <1>3, <2>1, <3>1 DEF ProcessSettles, TypeMsg
    <3> QED
      BY <2>1, <3>1, <3>2
  <2> QED
    BY <2>2, <2>3
<1>4. CASE Start \/ PrepareFails \/ PrepareSucceeds \/ Stop \/ ReconnectFires
  BY <1>1, <1>4 DEF Start, PrepareFails, PrepareSucceeds, Stop, ReconnectFires
<1>5. ASSUME NEW s \in Socket,
             Open(s) \/ Close(s) \/ ConnectionEnds(s) \/ Pong(s) \/ Vanish(s) \/ Heartbeat(s)
      PROVE  UNCHANGED msgVars
  BY <1>5 DEF Open, Close, ConnectionEnds, Pong, Vanish, Heartbeat
<1>6. CASE UNCHANGED vars
  BY <1>1, <1>6 DEF vars
<1> QED
  BY <1>1, <1>2, <1>3, <1>4, <1>5, <1>6 DEF Next, EndOfProcess

LEMMA MsgAlways == Spec => []MsgInv
<1>1. Init => MsgInv
  <2>1. 0 \in 0..MaxMessages
    BY BoundsAssumption
  <2> QED
    BY <2>1 DEF Init, MsgInv, TypeMsg
<1> QED
  BY <1>1, MsgInductive, PTL DEF Spec

-----------------------------------------------------------------------------

\* The state of a worker keeps its shape, the numbers of its sockets and
\* messages within their bounds.
THEOREM TypeCorrect == Spec => []TypeOK
<1>1. ConnInv /\ MsgInv => TypeOK
  BY DEF ConnInv, MsgInv, TypeConn, TypeMsg, TypeOK
<1> QED
  BY <1>1, ConnAlways, MsgAlways, PTL

\* A worker that is to run is connected, or about to be.
THEOREM Reconnects == Spec => []NeverStranded
BY ConnAlways, PTL DEF ConnInv

\* There is one connection, watched by one heartbeat, or one reconnect.
THEOREM Single == Spec => []OneConnection
BY ConnAlways, PTL DEF ConnInv

\* Nothing outlives stop().
THEOREM Stopped == Spec => []StopHolds
BY ConnAlways, PTL DEF ConnInv

\* Messages are taken one at a time, the newest only.
THEOREM Newest == Spec => OnlyTheNewestIsTaken
BY MsgAlways, MsgInductive, PTL DEF Spec, OnlyTheNewestIsTaken

=============================================================================
