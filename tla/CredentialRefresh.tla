-------------------------- MODULE CredentialRefresh --------------------------
(***************************************************************************)
(* The OAuth credential refresh of getCodexUsage (agents/codex-usage.ts).  *)
(*                                                                         *)
(* Several usage calls run at once, in one process (the poll and the HTTP  *)
(* requests of the usage proxy) or in several (the proxy and the Codex     *)
(* CLI), and share one credential file.  A refresh token may be spent      *)
(* once, unless the provider answers without a successor: then it stays.   *)
(* Within a process the calls share one refresh per file; between          *)
(* processes the file is all they share.                                   *)
(*                                                                         *)
(* Tokens are numbered in the order the provider issues them: pair n is    *)
(* access token n and refresh token n.  Every await of the code is a       *)
(* boundary between two actions.                                           *)
(***************************************************************************)
EXTENDS Naturals

CONSTANTS
  Callers,    \* usage calls; each runs getCodexUsage again and again
  Procs,      \* processes that share the credential file
  ProcOf,     \* the process of each caller
  NoCaller,   \* "no refresh of this file is in flight"
  NoToken,    \* "the document or the answer carries no refresh token"
  MaxToken,   \* bound: how many token pairs the provider issues
  MaxLogins   \* bound: how many times a user logs in anew

ASSUME ProcOfAssumption == ProcOf \in [Callers -> Procs]
ASSUME NoneAssumption   == NoCaller \notin Callers /\ NoToken \notin Nat
ASSUME BoundAssumption  == MaxToken \in Nat \ {0} /\ MaxLogins \in Nat

VARIABLES
  \* The file and the provider.
  disk,       \* the credential document in the file
  issued,     \* the last token pair the provider issued
  live,       \* refresh tokens the provider accepts
  abandoned,  \* history: tokens that are dead and that no refresh will replace
  staleUpTo,  \* access tokens up to this one are inside the refresh window
  deniedUpTo, \* access tokens up to this one get a 401
  logins,     \* how many times a user logged in
  \* The callers.
  inFlight,   \* inFlightCredentialRefreshes of each process: who performs it
  pc,         \* where each call is
  force,      \* the `force` a call asked its refresh with
  cred,       \* `credentials` of each call
  latest,     \* `latest` of each refresh: the document it re-read
  reply,      \* what the token endpoint answered a refresh
  outcome     \* how the last call of each caller ended

envVars  == <<issued, live, abandoned, staleUpTo, deniedUpTo, logins>>
callVars == <<inFlight, pc, force, cred, latest, reply, outcome>>
vars     == <<disk, envVars, callVars>>

-----------------------------------------------------------------------------
(* The documents, and what the code reads off them.                        *)

Token == 0..MaxToken

\* What a refresh does not change of the document is `login`: the account.
Document == [access : Token, refresh : Token \cup {NoToken}, login : 0..MaxLogins]

NoDocument == [access |-> 0, refresh |-> NoToken, login |-> 0]

Reply == [kind : {"none", "tokens", "garbled", "rejected", "unavailable"},
          access : Token, refresh : Token \cup {NoToken}]

Answer(kind) == [kind |-> kind, access |-> 0, refresh |-> NoToken]

NoReply == Answer("none")

\* Tokens reach the refresh window in the order they were issued.
ShouldRefresh(doc) == doc.access <= staleUpTo

\* The awaits of performCodexCredentialRefresh.
Refreshing == {"reread", "posting", "answered", "writing", "reloading"}

Phase == Refreshing \cup {"idle", "requesting", "denied", "joined", "retrying"}

\* The calls that hold the promise of the refresh c performs.
Waiters(c) == {w \in Callers : w = c \/ (pc[w] = "joined" /\ ProcOf[w] = ProcOf[c])}

\* Fault: an answer without a refresh token removes the one there was.
RefreshedAsAnswered(c) ==
  [latest[c] EXCEPT !.access = reply[c].access, !.refresh = reply[c].refresh]

\* The document writeCodexCredentials stores: the one re-read, with new tokens.
Refreshed(c) ==
  [latest[c] EXCEPT !.access  = reply[c].access,
                    !.refresh = IF reply[c].refresh = NoToken THEN @ ELSE reply[c].refresh]

\* c was answered with tokens that are not in the file.
Holds(c) == pc[c] \in {"answered", "writing"} /\ reply[c].kind \in {"tokens", "garbled"}

\* The tokens a refresh spent when what it got for them is dropped.
Dropped(C) == {latest[c].refresh : c \in {d \in C : Holds(d)}} \ live

-----------------------------------------------------------------------------
(* How a call enters, and leaves, a refresh.                               *)

\* Fault: a call never joins the refresh in flight.
EnterRefreshAlone(c, forced) ==
  /\ force' = [force EXCEPT ![c] = forced]
  /\ pc' = [pc EXCEPT ![c] = "reread"]
  /\ inFlight' = [inFlight EXCEPT ![ProcOf[c]] = c]

\* refreshCodexCredentials: join the refresh in flight or start one.
EnterRefresh(c, forced) ==
  /\ force' = [force EXCEPT ![c] = forced]
  /\ \/ /\ inFlight[ProcOf[c]] # NoCaller
        /\ pc' = [pc EXCEPT ![c] = "joined"]
        /\ UNCHANGED inFlight
     \/ /\ inFlight[ProcOf[c]] = NoCaller
        /\ pc' = [pc EXCEPT ![c] = "reread"]
        /\ inFlight' = [inFlight EXCEPT ![ProcOf[c]] = c]

\* The refresh of c ends: `finally` empties the map, and c's state is gone.
LeaveRefresh(c) ==
  /\ inFlight' = [inFlight EXCEPT ![ProcOf[c]] = NoCaller]
  /\ latest' = [latest EXCEPT ![c] = NoDocument]
  /\ reply' = [reply EXCEPT ![c] = NoReply]

\* The calls C are over; the promise of each settled with o.
End(C, o) ==
  /\ pc' = [w \in Callers |-> IF w \in C THEN "idle" ELSE pc[w]]
  /\ cred' = [w \in Callers |-> IF w \in C THEN NoDocument ELSE cred[w]]
  /\ force' = [w \in Callers |-> IF w \in C THEN FALSE ELSE force[w]]
  /\ outcome' = [w \in Callers |-> IF w \in C THEN o ELSE outcome[w]]

\* Every call that waits for c's refresh goes on with doc.
ResolveRefresh(c, doc) ==
  /\ LeaveRefresh(c)
  /\ cred' = [w \in Callers |-> IF w \in Waiters(c) THEN doc ELSE cred[w]]
  /\ pc' = [w \in Callers |->
              IF w \notin Waiters(c) THEN pc[w]
              ELSE IF force[w] THEN "retrying" ELSE "requesting"]
  /\ UNCHANGED <<force, outcome>>

\* Fault: only the call that performs the refresh learns that it failed.
RejectPerformer(c, error) ==
  /\ LeaveRefresh(c)
  /\ End({c}, error)

\* Every call that waits for c's refresh fails with its error.
RejectRefresh(c, error) ==
  /\ LeaveRefresh(c)
  /\ End(Waiters(c), error)

-----------------------------------------------------------------------------
(* The steps of a call.                                                    *)

\* getCodexUsage reads the file, and refreshes when the token is about to expire.
Load(c) ==
  /\ pc[c] = "idle"
  /\ cred' = [cred EXCEPT ![c] = disk]
  /\ outcome' = [outcome EXCEPT ![c] = "none"]
  /\ \/ /\ ShouldRefresh(disk)
        /\ EnterRefresh(c, FALSE)
     \/ /\ ~ShouldRefresh(disk)
        /\ pc' = [pc EXCEPT ![c] = "requesting"]
        /\ UNCHANGED <<inFlight, force>>
  /\ UNCHANGED <<disk, envVars, latest, reply>>

\* readCodexCredentials throws: no file, no JSON, no tokens in it.
ReadFails(c) ==
  /\ \/ /\ pc[c] = "idle"
        /\ End({c}, "failed")
        /\ UNCHANGED <<inFlight, latest, reply>>
     \/ /\ pc[c] \in {"reread", "reloading"}
        /\ RejectRefresh(c, "transient")
  /\ UNCHANGED <<disk, envVars>>

\* The usage endpoint answers: 200, 401, or an error that ends the call.
UsageAnswer(c) ==
  /\ pc[c] \in {"requesting", "retrying"}
  /\ \/ /\ cred[c].access > deniedUpTo
        /\ End({c}, "ok")
     \/ /\ cred[c].access <= deniedUpTo
        /\ pc[c] = "requesting"
        /\ pc' = [pc EXCEPT ![c] = "denied"]
        /\ UNCHANGED <<force, cred, outcome>>
     \/ End({c}, "failed")
  /\ UNCHANGED <<disk, envVars, inFlight, latest, reply>>

\* A 401 forces a refresh, once the body of the answer is cancelled.
RefreshDenied(c) ==
  /\ pc[c] = "denied"
  /\ EnterRefresh(c, TRUE)
  /\ UNCHANGED <<disk, envVars, cred, latest, reply, outcome>>

\* performCodexCredentialRefresh re-reads the file: adopt, give up, or POST.
Reread(c) ==
  /\ pc[c] = "reread"
  /\ LET adopt == \/ disk.access # cred[c].access
                  \/ ~force[c] /\ ~ShouldRefresh(disk)
     IN \/ adopt /\ ResolveRefresh(c, disk)
        \/ ~adopt /\ disk.refresh = NoToken /\ RejectRefresh(c, "permanent")
        \/ /\ ~adopt /\ disk.refresh # NoToken
           /\ latest' = [latest EXCEPT ![c] = disk]
           /\ pc' = [pc EXCEPT ![c] = "posting"]
           /\ UNCHANGED <<inFlight, force, cred, reply, outcome>>
  /\ UNCHANGED <<disk, envVars>>

\* The token endpoint handles the POST, and replaces the refresh token or not.
\* A body the client cannot read is "garbled"; a 5xx or a 429 is "unavailable"
\* and spends nothing.
ProviderAnswers(c) ==
  /\ pc[c] = "posting"
  /\ pc' = [pc EXCEPT ![c] = "answered"]
  /\ \/ /\ latest[c].refresh \in live /\ issued < MaxToken
        /\ issued' = issued + 1
        /\ \E kind \in {"tokens", "garbled"}, next \in {issued + 1, NoToken} :
             /\ reply' = [reply EXCEPT ![c] =
                            [kind |-> kind, access |-> issued + 1, refresh |-> next]]
             /\ live' = IF next = NoToken THEN live
                        ELSE (live \ {latest[c].refresh}) \cup {next}
     \/ /\ latest[c].refresh \notin live
        /\ reply' = [reply EXCEPT ![c] = Answer("rejected")]
        /\ UNCHANGED <<issued, live>>
     \/ /\ reply' = [reply EXCEPT ![c] = Answer("unavailable")]
        /\ UNCHANGED <<issued, live>>
  /\ UNCHANGED <<disk, abandoned, staleUpTo, deniedUpTo, logins,
                 inFlight, force, cred, latest, outcome>>

\* The connection fails before or after the provider handled the POST.
NetworkFails(c) ==
  /\ pc[c] \in {"posting", "answered"}
  /\ abandoned' = abandoned \cup Dropped({c})
  /\ RejectRefresh(c, "transient")
  /\ UNCHANGED <<disk, issued, live, staleUpTo, deniedUpTo, logins>>

\* Fault: a provider that is unavailable counts as one that rejects.
ErrorOfAnyAnswer(kind) == IF kind = "garbled" THEN "transient" ELSE "permanent"

\* buildRefreshRejection and normalizeRefreshResponse classify the answer.
ErrorOf(kind) == IF kind = "rejected" THEN "permanent" ELSE "transient"

ReadAnswer(c) ==
  /\ pc[c] = "answered"
  /\ \/ /\ reply[c].kind = "tokens"
        /\ pc' = [pc EXCEPT ![c] = "writing"]
        /\ UNCHANGED <<abandoned, inFlight, force, cred, latest, reply, outcome>>
     \/ /\ reply[c].kind # "tokens"
        /\ abandoned' = abandoned \cup Dropped({c})
        /\ RejectRefresh(c, ErrorOf(reply[c].kind))
  /\ UNCHANGED <<disk, issued, live, staleUpTo, deniedUpTo, logins>>

\* writeCodexCredentials: the rename replaces the file at once.
Write(c) ==
  /\ pc[c] = "writing"
  /\ disk' = Refreshed(c)
  /\ pc' = [pc EXCEPT ![c] = "reloading"]
  /\ reply' = [reply EXCEPT ![c] = NoReply]
  /\ UNCHANGED <<envVars, inFlight, force, cred, latest, outcome>>

\* The temporary file or the rename fails (a full disk, a read-only mount).
WriteFails(c) ==
  /\ pc[c] = "writing"
  /\ abandoned' = abandoned \cup Dropped({c})
  /\ RejectRefresh(c, "transient")
  /\ UNCHANGED <<disk, issued, live, staleUpTo, deniedUpTo, logins>>

\* The refresh resolves with what the file holds now.
Reload(c) ==
  /\ pc[c] = "reloading"
  /\ ResolveRefresh(c, disk)
  /\ UNCHANGED <<disk, envVars>>

-----------------------------------------------------------------------------
(* The world around the calls.                                             *)

\* A process dies; its calls and its map go with it.
Crash(p) ==
  /\ \E c \in Callers : ProcOf[c] = p /\ pc[c] # "idle"
  /\ LET C == {c \in Callers : ProcOf[c] = p}
     IN /\ abandoned' = abandoned \cup Dropped(C)
        /\ End(C, "none")
        /\ latest' = [c \in Callers |-> IF c \in C THEN NoDocument ELSE latest[c]]
        /\ reply' = [c \in Callers |-> IF c \in C THEN NoReply ELSE reply[c]]
  /\ inFlight' = [inFlight EXCEPT ![p] = NoCaller]
  /\ UNCHANGED <<disk, issued, live, staleUpTo, deniedUpTo, logins>>

\* Time passes: the next access token comes within the refresh window.
Age ==
  /\ staleUpTo < issued
  /\ staleUpTo' = staleUpTo + 1
  /\ UNCHANGED <<disk, issued, live, abandoned, deniedUpTo, logins, callVars>>

\* The provider stops accepting an access token: it expired or was revoked.
Deny ==
  /\ deniedUpTo < issued
  /\ deniedUpTo' = deniedUpTo + 1
  /\ UNCHANGED <<disk, issued, live, abandoned, staleUpTo, logins, callVars>>

\* The provider ends a session: its refresh token is gone.
Revoke(r) ==
  /\ r \in live
  /\ live' = live \ {r}
  /\ abandoned' = abandoned \cup {r}
  /\ UNCHANGED <<disk, issued, staleUpTo, deniedUpTo, logins, callVars>>

\* A user logs in with the CLI, which stores a new document.
Login ==
  /\ logins < MaxLogins /\ issued < MaxToken
  /\ logins' = logins + 1
  /\ issued' = issued + 1
  /\ live' = live \cup {issued + 1}
  /\ disk' = [access |-> issued + 1, refresh |-> issued + 1, login |-> logins + 1]
  /\ UNCHANGED <<abandoned, staleUpTo, deniedUpTo, callVars>>

-----------------------------------------------------------------------------

Init ==
  /\ disk \in {[access |-> 1, refresh |-> r, login |-> 0] : r \in {1, NoToken}}
  /\ issued = 1
  /\ live = {1}
  /\ abandoned = {}
  /\ staleUpTo = 0
  /\ deniedUpTo = 0
  /\ logins = 0
  /\ inFlight = [p \in Procs |-> NoCaller]
  /\ pc = [c \in Callers |-> "idle"]
  /\ force = [c \in Callers |-> FALSE]
  /\ cred = [c \in Callers |-> NoDocument]
  /\ latest = [c \in Callers |-> NoDocument]
  /\ reply = [c \in Callers |-> NoReply]
  /\ outcome = [c \in Callers |-> "none"]

\* The steps a running call takes without anything going wrong around it.
Proceed(c) ==
  \/ UsageAnswer(c)
  \/ RefreshDenied(c)
  \/ Reread(c)
  \/ ProviderAnswers(c)
  \/ ReadAnswer(c)
  \/ Write(c)
  \/ Reload(c)

Next ==
  \/ \E c \in Callers :
       Load(c) \/ Proceed(c) \/ ReadFails(c) \/ NetworkFails(c) \/ WriteFails(c)
  \/ \E p \in Procs : Crash(p)
  \/ \E r \in live : Revoke(r)
  \/ Age
  \/ Deny
  \/ Login

Spec == Init /\ [][Next]_vars

\* Every await settles: file operations end, and fetch gives up on a silent peer.
FairSpec == Spec /\ \A c \in Callers : WF_vars(Proceed(c))

-----------------------------------------------------------------------------
(* Properties.                                                             *)

\* The state has its shape.
TypeOK ==
  /\ disk \in Document
  /\ issued \in 1..MaxToken
  /\ live \subseteq Token
  /\ abandoned \subseteq Token \cup {NoToken}
  /\ staleUpTo \in Token
  /\ deniedUpTo \in Token
  /\ logins \in 0..MaxLogins
  /\ inFlight \in [Procs -> Callers \cup {NoCaller}]
  /\ pc \in [Callers -> Phase]
  /\ force \in [Callers -> BOOLEAN]
  /\ cred \in [Callers -> Document]
  /\ latest \in [Callers -> Document]
  /\ reply \in [Callers -> Reply]
  /\ outcome \in [Callers -> {"none", "ok", "failed", "transient", "permanent"}]

\* A process performs at most one refresh of the file at a time, its map says
\* which, and a call that joined one has one to wait for (lines 329-340).
OneRefreshPerProcess ==
  /\ \A c \in Callers : pc[c] \in Refreshing => inFlight[ProcOf[c]] = c
  /\ \A p \in Procs : \A c \in Callers :
       inFlight[p] = c => ProcOf[c] = p /\ pc[c] \in Refreshing
  /\ \A c \in Callers : pc[c] = "joined" => inFlight[ProcOf[c]] # NoCaller

\* With one process, no refresh token is spent twice: what a refresh is about
\* to POST is a token the provider accepts, or one whose successor was lost to
\* a fault (lines 349-351: "may only be spent once").
NeverSpentTwice ==
  \A c \in Callers : pc[c] = "posting" => latest[c].refresh \in live \cup abandoned

\* A session survives its refreshes: the file holds a refresh token that works,
\* or a refresh is on its way to write one, or a fault lost it, or the file
\* never had one (lines 400-414, 497-516).
SessionNotLost ==
  \/ disk.refresh \in live \cup abandoned
  \/ disk.refresh = NoToken /\ disk.access = 1
  \/ \E c \in Callers : Holds(c)

\* A working refresh token for login l is in the file or about to be.
Recoverable(l) ==
  \/ disk.login = l /\ disk.refresh \in live
  \/ \E c \in Callers : /\ Holds(c) /\ reply[c].kind = "tokens"
                        /\ Refreshed(c).login = l /\ Refreshed(c).refresh \in live

\* A refresh fails for good only when the login it used cannot be refreshed any
\* more: reauth_required "tells a consumer that retrying is pointless until
\* someone logs in again" (usage-proxy.ts:125-126).
PermanentIsHopeless ==
  [][\A c \in Callers :
       /\ pc[c] \in Refreshing /\ outcome[c] # "permanent" /\ outcome'[c] = "permanent"
       => ~Recoverable(cred[c].login)]_vars

\* Every usage call settles, those that joined another's refresh too.
CallsSettle == \A c \in Callers : pc[c] # "idle" ~> pc[c] = "idle"

=============================================================================
