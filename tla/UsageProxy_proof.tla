-------------------------- MODULE UsageProxy_proof --------------------------
(***************************************************************************)
(* Proofs about UsageProxy, for every set of requests and windows, every   *)
(* TTL and all bounds.                                                     *)
(*                                                                         *)
(* A response is current because the cache, when there is one, holds the   *)
(* newest answer and expires a TTL after it came (CacheIsNewest).  The     *)
(* steps of the service are steps of the proxy or leave it alone, so what  *)
(* holds of UsageProxy holds behind the server too (ServiceImplements).    *)
(***************************************************************************)
EXTENDS UsageService, TLAPS

CacheIsNewest ==
  cache # NoCache => cache.value = answers /\ cache.expiresAt = fetchedAt + Ttl

Inv ==
  /\ TypeOK
  /\ OneUpstreamCall
  /\ OneInterval
  /\ CacheIsNewest
  /\ GaugesShowNewestAnswer
  /\ ReauthFollowsLastPoll

USE DEF Error, PollState

LEMMA InvInitial == Init => Inv
<1> SUFFICES ASSUME Init PROVE Inv
  OBVIOUS
<1> USE TtlAssumption, BoundAssumption
<1>1. cache \in [value : 0..MaxAnswers, expiresAt : 0..(MaxClock + Ttl)]
  BY DEF Init, NoCache
<1>2. /\ clock \in 0..MaxClock /\ calls \in Nat /\ answers \in 0..MaxAnswers
      /\ fetchedAt \in 0..MaxClock /\ intervals \in Nat
  BY DEF Init
<1>3. /\ poll \in PollState
      /\ pollGauges \in [healthy : BOOLEAN, reauth : BOOLEAN]
      /\ served \in [Requests -> 0..MaxAnswers]
  BY DEF Init, PollSucceeded
<1>4. TypeOK
  BY <1>1, <1>2, <1>3 DEF Init, TypeOK
<1>5. ReauthFollowsLastPoll
  BY DEF Init, PollSucceeded, ReauthFollowsLastPoll
<1> QED
  BY <1>4, <1>5 DEF Init, Inv, OneUpstreamCall, OneInterval, CacheIsNewest, GaugesShowNewestAnswer

-----------------------------------------------------------------------------
(* The parts that handlers share.                                          *)

\* A call that is started or joined leaves one in flight.
LEMMA RefreshKeepsOneCall ==
  ASSUME Inv, Refresh
  PROVE  inFlight' = TRUE /\ calls' = 1
BY DEF Inv, TypeOK, OneUpstreamCall, Refresh

\* What a tick makes of how its call ended.
LEMMA FinishTickState ==
  ASSUME Inv, NEW state \in PollState,
         state.lastError = "none" <=> state.failures = 0,
         state.reauthRequired = (state.lastError = "permanent"),
         FinishTick(state)
  PROVE  /\ running' = FALSE
         /\ UNCHANGED <<timer, intervals>>
         /\ poll' \in PollState
         /\ pollGauges' \in [healthy : BOOLEAN, reauth : BOOLEAN]
         /\ ReauthFollowsLastPoll'
<1>1. CASE running
  BY <1>1, BoundAssumption DEF FinishTick, ReauthFollowsLastPoll
<1>2. CASE ~running
  BY <1>2 DEF FinishTick, Inv, TypeOK, ReauthFollowsLastPoll
<1> QED
  BY <1>1, <1>2

\* The continuations of an upstream call: nobody waits any more.
LEMMA CallSettles ==
  ASSUME Inv, calls > 0, calls' = calls - 1, inFlight' = FALSE, running' = FALSE,
         NEW n \in 0..MaxAnswers, AnswerWaiting(n)
  PROVE  /\ OneUpstreamCall' /\ calls' \in Nat
         /\ req' \in [Requests -> {"idle", "waiting"}]
         /\ served' \in [Requests -> 0..MaxAnswers]
<1>1. calls' = 0
  BY DEF Inv, TypeOK, OneUpstreamCall
<1>2. /\ req' \in [Requests -> {"idle", "waiting"}]
      /\ \A r \in Requests : req'[r] = "idle"
      /\ served' \in [Requests -> 0..MaxAnswers]
  BY DEF Inv, TypeOK, AnswerWaiting
<1>3. \A r \in Requests : req'[r] # "waiting"
  BY <1>2
<1>4. OneUpstreamCall'
  BY <1>1, <1>3 DEF OneUpstreamCall
<1> QED
  BY <1>1, <1>2, <1>4

\* What a tick that begins, or finds one in progress, leaves behind.
LEMMA TickBegins ==
  ASSUME Inv, Tick, UNCHANGED req
  PROVE  /\ OneUpstreamCall' /\ calls' \in Nat /\ inFlight' \in BOOLEAN /\ running' \in BOOLEAN
         /\ UNCHANGED <<cache, answers, fetchedAt, gauges, previous>>
<1>1. CASE running
  BY <1>1 DEF Tick, Inv, TypeOK, OneUpstreamCall, loaderVars
<1>2. CASE ~running
  <2>1. running' = TRUE /\ Refresh
    BY <1>2 DEF Tick
  <2> QED
    BY <2>1, RefreshKeepsOneCall DEF Refresh, OneUpstreamCall
<1> QED
  BY <1>1, <1>2

-----------------------------------------------------------------------------

LEMMA InvInductive == Inv /\ [Next]_vars => Inv'
<1> SUFFICES ASSUME Inv, [Next]_vars PROVE Inv'
  OBVIOUS
<1>1. ASSUME NEW windows \in SUBSET Windows, UpstreamAnswers(windows) PROVE Inv'
  <2>1. /\ calls > 0 /\ calls' = calls - 1 /\ inFlight' = FALSE
        /\ answers < MaxAnswers /\ answers' = answers + 1
        /\ fetchedAt' = clock /\ clock' = clock
        /\ cache' = [value |-> answers + 1, expiresAt |-> clock + Ttl]
        /\ Record(answers + 1, windows)
        /\ AnswerWaiting(answers + 1)
        /\ FinishTick(PollSucceeded)
    BY <1>1 DEF UpstreamAnswers
  <2>2. /\ clock \in 0..MaxClock /\ answers \in 0..MaxAnswers
        /\ answers + 1 \in 0..MaxAnswers
        /\ clock + Ttl \in 0..(MaxClock + Ttl)
    BY <2>1, BoundAssumption, TtlAssumption DEF Inv, TypeOK
  <2>3. /\ PollSucceeded \in PollState
        /\ PollSucceeded.lastError = "none" /\ PollSucceeded.failures = 0
        /\ PollSucceeded.reauthRequired = FALSE
    BY BoundAssumption DEF PollSucceeded
  <2>4. /\ running' = FALSE
        /\ UNCHANGED <<timer, intervals>>
        /\ poll' \in PollState
        /\ pollGauges' \in [healthy : BOOLEAN, reauth : BOOLEAN]
        /\ ReauthFollowsLastPoll'
    BY <2>1, <2>3, FinishTickState
  <2>5. /\ OneUpstreamCall' /\ calls' \in Nat
        /\ req' \in [Requests -> {"idle", "waiting"}]
        /\ served' \in [Requests -> 0..MaxAnswers]
    BY <2>1, <2>2, <2>4, CallSettles
  <2>6. DOMAIN gauges' = windows /\ previous' = windows /\ GaugesShowNewestAnswer'
    BY <2>1 DEF Record, Inv, GaugesShowNewestAnswer
  <2>7. CacheIsNewest'
    BY <2>1 DEF CacheIsNewest
  <2>8. cache' \in [value : 0..MaxAnswers, expiresAt : 0..(MaxClock + Ttl)]
    BY <2>1, <2>2
  <2>9. TypeOK'
    BY <2>1, <2>2, <2>4, <2>5, <2>6, <2>8 DEF Inv, TypeOK
  <2> QED
    BY <2>4, <2>5, <2>6, <2>7, <2>9 DEF Inv, OneInterval
<1>2. ASSUME NEW error \in Error \ {"none"}, UpstreamFails(error) PROVE Inv'
  <2>1. /\ calls > 0 /\ calls' = calls - 1 /\ inFlight' = FALSE
        /\ AnswerWaiting(0)
        /\ FinishTick(PollFailed(error))
        /\ UNCHANGED <<clock, cache, answers, fetchedAt, gauges, previous>>
    BY <1>2 DEF UpstreamFails
  <2>2. /\ PollFailed(error) \in PollState
        /\ PollFailed(error).lastError # "none" /\ PollFailed(error).failures # 0
        /\ PollFailed(error).reauthRequired = (PollFailed(error).lastError = "permanent")
    <3>1. poll.failures \in 0..MaxFailures
      BY DEF Inv, TypeOK
    <3> QED
      BY <1>2, <3>1, BoundAssumption DEF PollFailed
  <2>3. /\ running' = FALSE
        /\ UNCHANGED <<timer, intervals>>
        /\ poll' \in PollState
        /\ pollGauges' \in [healthy : BOOLEAN, reauth : BOOLEAN]
        /\ ReauthFollowsLastPoll'
    BY <2>1, <2>2, FinishTickState
  <2>4. /\ OneUpstreamCall' /\ calls' \in Nat
        /\ req' \in [Requests -> {"idle", "waiting"}]
        /\ served' \in [Requests -> 0..MaxAnswers]
    <3>1. 0 \in 0..MaxAnswers
      BY BoundAssumption
    <3> QED
      BY <2>1, <2>3, <3>1, CallSettles
  <2>5. TypeOK'
    <3>1. inFlight' \in BOOLEAN /\ running' \in BOOLEAN /\ UNCHANGED timer /\ UNCHANGED intervals
      BY <2>1, <2>3
    <3> QED
      BY <2>1, <2>3, <2>4, <3>1 DEF Inv, TypeOK
  <2> QED
    BY <2>1, <2>3, <2>4, <2>5 DEF Inv, OneInterval, CacheIsNewest, GaugesShowNewestAnswer
<1>3. ASSUME NEW r \in Requests, Get(r) PROVE Inv'
  <2>1. CASE Fresh /\ served' = [served EXCEPT ![r] = cache.value] /\ UNCHANGED <<req, loaderVars>>
    BY <1>3, <2>1 DEF Get, Inv, TypeOK, OneUpstreamCall, OneInterval, CacheIsNewest,
                      GaugesShowNewestAnswer, ReauthFollowsLastPoll, loaderVars, pollVars
  <2>2. CASE Refresh /\ req' = [req EXCEPT ![r] = "waiting"] /\ UNCHANGED served
    <3>1. OneUpstreamCall' /\ calls' \in Nat /\ inFlight' \in BOOLEAN
      BY <1>3, <2>2, RefreshKeepsOneCall DEF OneUpstreamCall
    <3>2. UNCHANGED <<clock, pollVars, cache, answers, fetchedAt, gauges, previous>>
      BY <1>3, <2>2 DEF Get, Refresh
    <3>3. TypeOK'
      BY <2>2, <3>1, <3>2 DEF Inv, TypeOK, pollVars
    <3> QED
      BY <3>1, <3>2, <3>3 DEF Inv, OneInterval, CacheIsNewest, GaugesShowNewestAnswer,
                              ReauthFollowsLastPoll, pollVars
  <2> QED
    BY <1>3, <2>1, <2>2 DEF Get
<1>4. ASSUME Tick, UNCHANGED <<clock, req, served, poll, pollGauges>>,
             timer' \in BOOLEAN, intervals' \in Nat, OneInterval'
      PROVE  Inv'
  <2>1. /\ OneUpstreamCall' /\ calls' \in Nat /\ inFlight' \in BOOLEAN /\ running' \in BOOLEAN
        /\ UNCHANGED <<cache, answers, fetchedAt, gauges, previous>>
    BY <1>4, TickBegins
  <2>2. TypeOK'
    BY <1>4, <2>1 DEF Inv, TypeOK
  <2> QED
    BY <1>4, <2>1, <2>2 DEF Inv, CacheIsNewest, GaugesShowNewestAnswer, ReauthFollowsLastPoll
<1>5. CASE StartPoller
  <2>1. timer' = TRUE /\ intervals' = 1
    BY <1>5 DEF StartPoller, Inv, TypeOK, OneInterval
  <2> QED
    BY <1>4, <1>5, <2>1 DEF StartPoller, OneInterval
<1>6. CASE StopPoller
  <2>1. timer' = FALSE /\ intervals' = 0
    BY <1>6 DEF StopPoller, Inv, TypeOK, OneInterval
  <2> QED
    <3>1. timer' \in BOOLEAN /\ OneInterval'
      BY <2>1 DEF OneInterval
    <3>2. UNCHANGED <<clock, req, served, running, poll, pollGauges>> /\ UNCHANGED loaderVars
      BY <1>6 DEF StopPoller
    <3>3. TypeOK'
      BY <2>1, <3>1, <3>2 DEF Inv, TypeOK, loaderVars
    <3> QED
      BY <3>1, <3>2, <3>3 DEF Inv, OneUpstreamCall, CacheIsNewest, GaugesShowNewestAnswer,
                              ReauthFollowsLastPoll, loaderVars
<1>7. CASE IntervalFires
  BY <1>4, <1>7 DEF IntervalFires, Inv, TypeOK, OneInterval
<1>8. CASE TimePasses
  <2>1. clock' \in 0..MaxClock
    BY <1>8, BoundAssumption DEF TimePasses, Inv, TypeOK
  <2> QED
    BY <1>8, <2>1 DEF TimePasses, Inv, TypeOK, OneUpstreamCall, OneInterval, CacheIsNewest,
                      GaugesShowNewestAnswer, ReauthFollowsLastPoll, loaderVars, pollVars
<1>9. CASE UNCHANGED vars
  BY <1>9 DEF vars, Inv, TypeOK, OneUpstreamCall, OneInterval, CacheIsNewest,
              GaugesShowNewestAnswer, ReauthFollowsLastPoll, loaderVars, pollVars
<1> QED
  BY <1>1, <1>2, <1>3, <1>5, <1>6, <1>7, <1>8, <1>9 DEF Next, Upstream

LEMMA InvAlways == Spec => []Inv
BY InvInitial, InvInductive, PTL DEF Spec

\* The state keeps its shape.
THEOREM TypeCorrect == Spec => []TypeOK
BY InvAlways, PTL DEF Inv

\* Requests and polls share one upstream call.
THEOREM OneCall == Spec => []OneUpstreamCall
BY InvAlways, PTL DEF Inv

\* Stops and starts of the poller leave one interval, or none.
THEOREM OneTimer == Spec => []OneInterval
BY InvAlways, PTL DEF Inv

\* A scrape sees the newest answer and nothing else.
THEOREM GaugesCurrent == Spec => []GaugesShowNewestAnswer
BY InvAlways, PTL DEF Inv

\* A login is asked for exactly by a poll that failed for good.
THEOREM ReauthSound == Spec => []ReauthFollowsLastPoll
BY InvAlways, PTL DEF Inv

-----------------------------------------------------------------------------

LEMMA ServedIsCurrent ==
  ASSUME Inv, [Next]_vars, NEW r \in Requests, served'[r] # served[r], served'[r] # 0
  PROVE  served'[r] = answers' /\ (clock = fetchedAt' \/ clock < fetchedAt' + Ttl)
<1>1. CASE \E windows \in SUBSET Windows : UpstreamAnswers(windows)
  BY <1>1 DEF UpstreamAnswers, AnswerWaiting
<1>2. CASE \E error \in Error \ {"none"} : UpstreamFails(error)
  BY <1>2 DEF UpstreamFails, AnswerWaiting
<1>3. ASSUME NEW q \in Requests, Get(q)
      PROVE  served'[r] = answers' /\ (clock = fetchedAt' \/ clock < fetchedAt' + Ttl)
  <2>1. Fresh /\ served' = [served EXCEPT ![q] = cache.value] /\ UNCHANGED loaderVars
    BY <1>3 DEF Get
  <2>2. served'[r] = cache.value
    BY <2>1 DEF Inv, TypeOK
  <2> QED
    BY <2>1, <2>2 DEF Inv, CacheIsNewest, Fresh, loaderVars
<1>4. CASE UNCHANGED served
  BY <1>4
<1> QED
  BY <1>1, <1>2, <1>3, <1>4
     DEF Next, Upstream, StartPoller, StopPoller, IntervalFires, TimePasses, vars

\* No request is served an answer that a newer one has replaced, or one that is
\* older than the TTL.
THEOREM ResponsesCurrent == Spec => ResponsesAreCurrent
<1>1. Inv /\ [Next]_vars =>
        [\A r \in Requests :
           served'[r] # served[r] /\ served'[r] # 0 =>
             served'[r] = answers' /\ (clock = fetchedAt' \/ clock < fetchedAt' + Ttl)]_vars
  BY ServedIsCurrent
<1> QED
  BY <1>1, InvAlways, PTL DEF Spec, ResponsesAreCurrent

-----------------------------------------------------------------------------
(* The service.                                                            *)

LEMMA ServiceStep == [ServiceNext]_serviceVars => [Next]_vars
BY DEF ServiceNext, serviceVars, Next, Connect, HangUp, Request, StartProxy, StopProxy,
       ServerClosed

\* Behind its server the proxy does what UsageProxy says, so all of the theorems
\* above hold of createAgentUsageProxy.
THEOREM ServiceImplements == ServiceSpec => Spec
BY ServiceStep, PTL DEF ServiceSpec, ServiceInit, Spec

ServiceInv == ServerAndPoller /\ NoneLeft

LEMMA ServiceInvInductive == ServiceInv /\ [ServiceNext]_serviceVars => ServiceInv'
<1> SUFFICES ASSUME ServiceInv, [ServiceNext]_serviceVars PROVE ServiceInv'
  OBVIOUS
<1> USE DEF ServiceInv, ServerAndPoller, NoneLeft, serverVars, vars, pollVars
<1>1. ASSUME NEW r \in Requests, Connect(r) PROVE ServiceInv'
  BY <1>1 DEF Connect
<1>2. ASSUME NEW r \in Requests, HangUp(r) PROVE ServiceInv'
  <2>1. stopping = "waiting" /\ ~listening /\ open' # {} => stopping' = "waiting"
    BY <1>2 DEF HangUp
  <2>2. stopping # "waiting" /\ ~listening => open' = {}
    BY <1>2 DEF HangUp
  <2> QED
    BY <1>2, <2>1, <2>2 DEF HangUp
<1>3. ASSUME NEW r \in Requests, Request(r) PROVE ServiceInv'
  BY <1>3 DEF Request, Get
<1>4. CASE StartProxy
  BY <1>4 DEF StartProxy, Listen, StartPoller
<1>5. CASE StopProxy
  BY <1>5 DEF StopProxy, CloseServer, StopPoller
<1>6. CASE ServerClosed
  BY <1>6 DEF ServerClosed
<1>7. CASE Upstream /\ UNCHANGED serverVars
  BY <1>7 DEF Upstream, UpstreamAnswers, UpstreamFails, FinishTick
<1>8. CASE (IntervalFires \/ TimePasses) /\ UNCHANGED serverVars
  BY <1>8 DEF IntervalFires, TimePasses
<1>9. CASE UNCHANGED serviceVars
  BY <1>9 DEF serviceVars
<1> QED
  BY <1>1, <1>2, <1>3, <1>4, <1>5, <1>6, <1>7, <1>8, <1>9 DEF ServiceNext

LEMMA ServiceInvAlways == ServiceSpec => []ServiceInv
<1>1. ServiceInit => ServiceInv
  BY DEF ServiceInit, Init, ServiceInv, ServerAndPoller, NoneLeft
<1> QED
  BY <1>1, ServiceInvInductive, PTL DEF ServiceSpec

\* The server listens exactly while the poller is started.
THEOREM StartedTogether == ServiceSpec => []ServerAndPoller
BY ServiceInvAlways, PTL DEF ServiceInv

\* The promise of stop() settles with no connection left behind, or with the server
\* started again; however the clients come, ask and go, and stops follow stops.
THEOREM SettledIsDrained == ServiceSpec => []NoneLeft
BY ServiceInvAlways, PTL DEF ServiceInv

LEMMA QuietStep ==
  ASSUME Inv, ServiceInv, [ServiceNext]_serviceVars, ~listening, ~listening'
  PROVE  /\ intervals = 0
         /\ running' => running
         /\ calls' > calls =>
              stopping = "waiting" /\ \E r \in open : req[r] = "idle" /\ req'[r] = "waiting"
<1>1. intervals = 0 /\ calls \in Nat /\ req \in [Requests -> {"idle", "waiting"}]
  BY DEF Inv, TypeOK, OneInterval, ServiceInv, ServerAndPoller
<1>2. CASE UNCHANGED <<running, calls>>
  BY <1>1, <1>2
<1>3. CASE Upstream
  BY <1>1, <1>3 DEF Upstream, UpstreamAnswers, UpstreamFails, FinishTick
<1>4. ASSUME NEW r \in Requests, Request(r)
      PROVE  /\ running' = running
             /\ calls' > calls =>
                  stopping = "waiting" /\ \E q \in open : req[q] = "idle" /\ req'[q] = "waiting"
  <2>1. r \in open /\ req[r] = "idle" /\ running' = running
    BY <1>4 DEF Request, Get, pollVars
  <2>2. stopping = "waiting"
    BY <2>1 DEF ServiceInv, NoneLeft
  <2>3. CASE Fresh
    BY <1>1, <1>4, <2>1, <2>3 DEF Request, Get, loaderVars
  <2>4. CASE req' = [req EXCEPT ![r] = "waiting"]
    BY <1>1, <2>1, <2>2, <2>4
  <2> QED
    BY <1>4, <2>3, <2>4 DEF Request, Get
<1>5. \/ \E r \in Requests : Request(r)
      \/ Upstream
      \/ UNCHANGED <<running, calls>>
  BY <1>1 DEF ServiceNext, Connect, HangUp, StartProxy, Listen, StopProxy, CloseServer, StopPoller,
              ServerClosed, IntervalFires, TimePasses, serviceVars, vars, loaderVars, pollVars
<1> QED
  BY <1>1, <1>2, <1>3, <1>4, <1>5

\* A stopped proxy polls no more, and goes upstream only for who was connected before;
\* for nobody once stop() has settled.
THEOREM StoppedIsQuiet == ServiceSpec => QuietAfterStop
<1>1. Inv /\ ServiceInv /\ [ServiceNext]_serviceVars =>
        [~listening /\ ~listening' =>
           /\ intervals = 0
           /\ running' => running
           /\ calls' > calls =>
                stopping = "waiting" /\ \E r \in open : req[r] = "idle" /\ req'[r] = "waiting"]_serviceVars
  BY QuietStep
<1>2. ServiceSpec => []Inv
  BY ServiceImplements, InvAlways, PTL
<1> QED
  BY <1>1, <1>2, ServiceInvAlways, PTL DEF ServiceSpec, QuietAfterStop

=============================================================================
