----------------------- MODULE CredentialRefresh_proof -----------------------
(***************************************************************************)
(* Proofs about CredentialRefresh, for every set of callers and processes. *)
(*                                                                         *)
(* TypeOK and OneRefreshPerProcess are inductive as they stand.  When the  *)
(* callers belong to one process, the second says that at most one of them *)
(* refreshes, and what a token is worth follows from TokensAccounted: each *)
(* token a refresh holds, or is about to spend, or finds in the file is    *)
(* accounted for.  What a failure for good means follows from LoginsTold   *)
(* and LoginSpent, which say whose login a token belongs to.  Claude's     *)
(* code takes no step that this protocol does not allow, so all of it      *)
(* holds of Claude's credentials too.                                      *)
(***************************************************************************)
EXTENDS UsageCredentials, TLAPS

-----------------------------------------------------------------------------
(* The state keeps its shape.  How a call enters and leaves a refresh is   *)
(* typed once, in the lemmas below.                                        *)

Outcome == {"none", "ok", "failed", "transient", "permanent"}

LEMMA ConstantTypes ==
  /\ NoDocument \in Document
  /\ NoReply \in Reply
  /\ Answer("rejected") \in Reply /\ Answer("unavailable") \in Reply
BY BoundAssumption DEF NoDocument, Document, NoReply, Reply, Answer, Token

\* What a refresh writes is a document.
LEMMA RefreshedType ==
  ASSUME TypeOK, NEW c \in Callers
  PROVE  Refreshed(c) \in Document
<1>1. latest[c] \in Document /\ reply[c] \in Reply
  BY DEF TypeOK
<1> QED
  BY <1>1 DEF Refreshed, Document, Reply

\* What a refresh drops are tokens it re-read from the file.
LEMMA DroppedType ==
  ASSUME TypeOK, NEW C \in SUBSET Callers
  PROVE  Dropped(C) \subseteq Token \cup {NoToken}
<1>1. \A c \in Callers : latest[c].refresh \in Token \cup {NoToken}
  BY DEF TypeOK, Document
<1> QED
  BY <1>1 DEF Dropped

LEMMA EnterType ==
  ASSUME TypeOK, NEW c \in Callers, NEW forced \in BOOLEAN, EnterRefresh(c, forced)
  PROVE  /\ inFlight' \in [Procs -> Callers \cup {NoCaller}]
         /\ pc' \in [Callers -> Phase]
         /\ force' \in [Callers -> BOOLEAN]
BY DEF TypeOK, EnterRefresh, Phase, Refreshing

LEMMA LeaveType ==
  ASSUME TypeOK, NEW c \in Callers, LeaveRefresh(c)
  PROVE  /\ inFlight' \in [Procs -> Callers \cup {NoCaller}]
         /\ latest' \in [Callers -> Document]
         /\ reply' \in [Callers -> Reply]
BY ConstantTypes DEF TypeOK, LeaveRefresh

LEMMA EndType ==
  ASSUME TypeOK, NEW C \in SUBSET Callers, NEW o \in Outcome, End(C, o)
  PROVE  /\ pc' \in [Callers -> Phase]
         /\ cred' \in [Callers -> Document]
         /\ force' \in [Callers -> BOOLEAN]
         /\ outcome' \in [Callers -> Outcome]
BY ConstantTypes DEF TypeOK, End, Phase, Outcome

LEMMA ResolveType ==
  ASSUME TypeOK, NEW c \in Callers, ResolveRefresh(c, disk), UNCHANGED <<disk, envVars>>
  PROVE  TypeOK'
<1>1. /\ pc' \in [Callers -> Phase]
      /\ cred' \in [Callers -> Document]
  BY DEF TypeOK, ResolveRefresh, Phase
<1> QED
  BY <1>1, LeaveType DEF TypeOK, ResolveRefresh, envVars

LEMMA RejectType ==
  ASSUME TypeOK, NEW c \in Callers, NEW o \in Outcome, RejectRefresh(c, o),
         UNCHANGED <<disk, issued, live, staleUpTo, deniedUpTo, logins>>,
         abandoned' \in {abandoned, abandoned \cup Dropped({c})}
  PROVE  TypeOK'
<1>1. abandoned' \subseteq Token \cup {NoToken}
  BY DroppedType DEF TypeOK
<1>2. Waiters(c) \in SUBSET Callers
  BY DEF Waiters
<1> QED
  BY <1>1, <1>2, LeaveType, EndType DEF TypeOK, RejectRefresh, Outcome

-----------------------------------------------------------------------------

LEMMA TypeInductive == TypeOK /\ [Next]_vars => TypeOK'
<1> SUFFICES ASSUME TypeOK, [Next]_vars PROVE TypeOK'
  OBVIOUS
<1>1. ASSUME NEW c \in Callers, Load(c) PROVE TypeOK'
  <2>1. /\ inFlight' \in [Procs -> Callers \cup {NoCaller}]
        /\ pc' \in [Callers -> Phase]
        /\ force' \in [Callers -> BOOLEAN]
    BY <1>1, EnterType DEF Load, TypeOK, Phase
  <2> QED
    BY <1>1, <2>1 DEF Load, TypeOK, envVars
<1>2. ASSUME NEW c \in Callers, UsageAnswer(c) PROVE TypeOK'
  <2>1. CASE \E o \in {"ok", "failed"} : End({c}, o)
    BY <1>2, <2>1, EndType DEF UsageAnswer, TypeOK, Outcome, envVars
  <2>2. CASE /\ pc' = [pc EXCEPT ![c] = "denied"]
             /\ UNCHANGED <<force, cred, outcome>>
    BY <1>2, <2>2 DEF UsageAnswer, TypeOK, Phase, envVars
  <2> QED
    BY <1>2, <2>1, <2>2 DEF UsageAnswer
<1>3. ASSUME NEW c \in Callers, RefreshDenied(c) PROVE TypeOK'
  BY <1>3, EnterType DEF RefreshDenied, TypeOK, envVars
<1>4. ASSUME NEW c \in Callers, Reread(c) PROVE TypeOK'
  <2>1. CASE ResolveRefresh(c, disk)
    BY <1>4, <2>1, ResolveType DEF Reread
  <2>2. CASE RejectRefresh(c, "permanent")
    BY <1>4, <2>2, RejectType DEF Reread, Outcome, envVars
  <2>3. CASE /\ latest' = [latest EXCEPT ![c] = disk]
             /\ pc' = [pc EXCEPT ![c] = "posting"]
             /\ UNCHANGED <<inFlight, force, cred, reply, outcome>>
    BY <1>4, <2>3 DEF Reread, TypeOK, Phase, Refreshing, envVars
  <2> QED
    BY <1>4, <2>1, <2>2, <2>3 DEF Reread
<1>5. ASSUME NEW c \in Callers, ProviderAnswers(c) PROVE TypeOK'
  <2>1. /\ reply' \in [Callers -> Reply]
        /\ issued' \in 1..MaxToken
        /\ live' \subseteq Token
    <3>1. CASE UNCHANGED <<issued, live>>
      BY <1>5, <3>1, ConstantTypes DEF ProviderAnswers, TypeOK
    <3>2. CASE issued < MaxToken /\ issued' = issued + 1
      <4>1. PICK kind \in {"tokens", "garbled"}, next \in {issued + 1, NoToken} :
              /\ reply' = [reply EXCEPT ![c] =
                             [kind |-> kind, access |-> issued + 1, refresh |-> next]]
              /\ live' = IF next = NoToken THEN live
                         ELSE (live \ {latest[c].refresh}) \cup {next}
        BY <1>5, <3>2, BoundAssumption DEF ProviderAnswers, TypeOK
      <4>2. issued + 1 \in Token /\ issued + 1 \in 1..MaxToken
        BY <3>2, BoundAssumption DEF TypeOK, Token
      <4>3. [kind |-> kind, access |-> issued + 1, refresh |-> next] \in Reply
        BY <4>2 DEF Reply
      <4> QED
        BY <3>2, <4>1, <4>2, <4>3 DEF TypeOK
    <3> QED
      BY <1>5, <3>1, <3>2 DEF ProviderAnswers
  <2> QED
    BY <1>5, <2>1 DEF ProviderAnswers, TypeOK, Phase, Refreshing
<1>6. ASSUME NEW c \in Callers, NetworkFails(c) PROVE TypeOK'
  BY <1>6, RejectType DEF NetworkFails, Outcome
<1>7. ASSUME NEW c \in Callers, ReadAnswer(c) PROVE TypeOK'
  <2>1. CASE pc' = [pc EXCEPT ![c] = "writing"]
             /\ UNCHANGED <<abandoned, inFlight, force, cred, latest, reply, outcome>>
    BY <1>7, <2>1 DEF ReadAnswer, TypeOK, Phase, Refreshing
  <2>2. CASE /\ abandoned' = abandoned \cup Dropped({c})
             /\ RejectRefresh(c, ErrorOf(reply[c].kind))
    <3>1. ErrorOf(reply[c].kind) \in Outcome
      BY DEF ErrorOf, Outcome
    <3> QED
      BY <1>7, <2>2, <3>1, RejectType DEF ReadAnswer
  <2> QED
    BY <1>7, <2>1, <2>2 DEF ReadAnswer
<1>8. ASSUME NEW c \in Callers, Write(c) PROVE TypeOK'
  BY <1>8, RefreshedType, ConstantTypes DEF Write, TypeOK, Phase, Refreshing, envVars
<1>9. ASSUME NEW c \in Callers, WriteFails(c) PROVE TypeOK'
  BY <1>9, RejectType DEF WriteFails, Outcome
<1>10. ASSUME NEW c \in Callers, Reload(c) PROVE TypeOK'
  BY <1>10, ResolveType DEF Reload
<1>11. ASSUME NEW p \in Procs, Crash(p) PROVE TypeOK'
  <2> DEFINE C == {c \in Callers : ProcOf[c] = p}
  <2>1. abandoned' \subseteq Token \cup {NoToken}
    BY <1>11, DroppedType DEF Crash, TypeOK
  <2>2. /\ pc' \in [Callers -> Phase]
        /\ cred' \in [Callers -> Document]
        /\ force' \in [Callers -> BOOLEAN]
        /\ outcome' \in [Callers -> Outcome]
    <3>1. End(C, "none") /\ C \in SUBSET Callers /\ "none" \in Outcome
      BY <1>11 DEF Crash, Outcome
    <3> QED
      BY <3>1, EndType
  <2>3. /\ latest' \in [Callers -> Document]
        /\ reply' \in [Callers -> Reply]
        /\ inFlight' \in [Procs -> Callers \cup {NoCaller}]
    BY <1>11, ConstantTypes DEF Crash, TypeOK
  <2> QED
    BY <1>11, <2>1, <2>2, <2>3 DEF Crash, TypeOK, Outcome
<1>12. ASSUME NEW r \in live, Revoke(r) PROVE TypeOK'
  BY <1>12 DEF Revoke, TypeOK, callVars
<1>13. CASE Age
  BY <1>13, BoundAssumption DEF Age, TypeOK, Token, callVars
<1>14. CASE Deny
  BY <1>14, BoundAssumption DEF Deny, TypeOK, Token, callVars
<1>15. CASE Login
  <2>1. issued + 1 \in 1..MaxToken /\ issued + 1 \in Token /\ logins + 1 \in 0..MaxLogins
    BY <1>15, BoundAssumption DEF Login, TypeOK, Token
  <2>2. disk' \in Document
    BY <1>15, <2>1 DEF Login, Document
  <2> QED
    BY <1>15, <2>1, <2>2 DEF Login, TypeOK, callVars
<1>16. ASSUME NEW c \in Callers, ReadFails(c) PROVE TypeOK'
  <2>1. CASE End({c}, "failed") /\ UNCHANGED <<inFlight, latest, reply>>
    BY <1>16, <2>1, EndType DEF ReadFails, TypeOK, Outcome, envVars
  <2>2. CASE RejectRefresh(c, "transient")
    BY <1>16, <2>2, RejectType DEF ReadFails, Outcome, envVars
  <2> QED
    BY <1>16, <2>1, <2>2 DEF ReadFails
<1>17. CASE UNCHANGED vars
  BY <1>17 DEF vars, envVars, callVars, TypeOK
<1> QED
  BY <1>1, <1>2, <1>3, <1>4, <1>5, <1>6, <1>7, <1>8, <1>9, <1>10, <1>11, <1>12,
     <1>13, <1>14, <1>15, <1>16, <1>17 DEF Next, Proceed

LEMMA TypeInitial == Init => TypeOK
BY BoundAssumption, ConstantTypes DEF Init, TypeOK, Phase, Token, Document

\* The state keeps its shape, whatever the callers, processes and bounds are.
THEOREM TypeCorrect == Spec => []TypeOK
BY TypeInitial, TypeInductive, PTL DEF Spec

-----------------------------------------------------------------------------
(* One refresh per process, for any number of processes.                   *)

\* Once c's refresh is over, nothing of it is left in its process.
LEMMA RefreshOver ==
  ASSUME TypeOK, OneRefreshPerProcess, NEW c \in Callers, pc[c] \in Refreshing,
         inFlight' = [inFlight EXCEPT ![ProcOf[c]] = NoCaller],
         \A w \in Callers : IF w \in Waiters(c)
                            THEN pc'[w] \in Phase \ (Refreshing \cup {"joined"})
                            ELSE pc'[w] = pc[w]
  PROVE  OneRefreshPerProcess'
BY ProcOfAssumption, NoneAssumption DEF TypeOK, OneRefreshPerProcess, Waiters, Phase

LEMMA ResolveOver ==
  ASSUME TypeOK, OneRefreshPerProcess, NEW c \in Callers, pc[c] \in Refreshing,
         ResolveRefresh(c, disk)
  PROVE  OneRefreshPerProcess' /\ \A w \in Waiters(c) : pc'[w] \notin Refreshing
<1>1. \A w \in Callers : IF w \in Waiters(c)
                         THEN pc'[w] \in Phase \ (Refreshing \cup {"joined"})
                         ELSE pc'[w] = pc[w]
  BY DEF ResolveRefresh, Phase, Refreshing, Waiters
<1> QED
  BY <1>1, RefreshOver DEF ResolveRefresh, LeaveRefresh, Waiters

LEMMA RejectOver ==
  ASSUME TypeOK, OneRefreshPerProcess, NEW c \in Callers, pc[c] \in Refreshing,
         NEW o, RejectRefresh(c, o)
  PROVE  OneRefreshPerProcess' /\ \A w \in Waiters(c) : pc'[w] \notin Refreshing
<1>1. \A w \in Callers : IF w \in Waiters(c)
                         THEN pc'[w] \in Phase \ (Refreshing \cup {"joined"})
                         ELSE pc'[w] = pc[w]
  BY DEF RejectRefresh, End, Phase, Refreshing, Waiters
<1> QED
  BY <1>1, RefreshOver DEF RejectRefresh, LeaveRefresh, Waiters

\* Entering a refresh takes the free slot of the process, or joins its holder.
LEMMA EnterOnce ==
  ASSUME TypeOK, OneRefreshPerProcess, NEW c \in Callers,
         pc[c] \notin Refreshing \cup {"joined"}, NEW forced, EnterRefresh(c, forced)
  PROVE  OneRefreshPerProcess'
<1> DEFINE p == ProcOf[c]
<1>1. pc \in [Callers -> Phase] /\ inFlight \in [Procs -> Callers \cup {NoCaller}] /\ p \in Procs
  BY ProcOfAssumption DEF TypeOK
<1>2. CASE /\ inFlight[p] # NoCaller
           /\ pc' = [pc EXCEPT ![c] = "joined"]
           /\ UNCHANGED inFlight
  BY <1>1, <1>2 DEF OneRefreshPerProcess, Refreshing
<1>3. CASE /\ inFlight[p] = NoCaller
           /\ pc' = [pc EXCEPT ![c] = "reread"]
           /\ inFlight' = [inFlight EXCEPT ![p] = c]
  <2>1. \A w \in Callers : pc[w] \in Refreshing \cup {"joined"} => ProcOf[w] # p
    BY <1>3, NoneAssumption DEF OneRefreshPerProcess
  <2>2. \A w \in Callers \ {c} : pc'[w] = pc[w]
    BY <1>1, <1>3
  <2>3. pc'[c] = "reread" /\ inFlight'[p] = c
    BY <1>1, <1>3
  <2>4. \A q \in Procs \ {p} : inFlight'[q] = inFlight[q]
    BY <1>1, <1>3
  <2>5. \A w \in Callers : ProcOf[w] \in Procs
    BY ProcOfAssumption
  <2> QED
    BY <2>1, <2>2, <2>3, <2>4, <2>5, NoneAssumption DEF OneRefreshPerProcess, Refreshing
<1> QED
  BY <1>2, <1>3 DEF EnterRefresh

\* A call that stays in its refresh, or stays out of it, disturbs nothing.
LEMMA SamePlace ==
  ASSUME OneRefreshPerProcess, UNCHANGED inFlight,
         \A w \in Callers : /\ pc'[w] \in Refreshing <=> pc[w] \in Refreshing
                            /\ pc'[w] = "joined" => pc[w] = "joined"
  PROVE  OneRefreshPerProcess'
BY DEF OneRefreshPerProcess

LEMMA OneRefreshInductive ==
  TypeOK /\ OneRefreshPerProcess /\ [Next]_vars => OneRefreshPerProcess'
<1> SUFFICES ASSUME TypeOK, OneRefreshPerProcess, [Next]_vars
             PROVE  OneRefreshPerProcess'
  OBVIOUS
<1>1. ASSUME NEW c \in Callers, Load(c) PROVE OneRefreshPerProcess'
  <2>1. CASE EnterRefresh(c, FALSE)
    BY <1>1, <2>1, EnterOnce DEF Load, Refreshing
  <2>2. CASE pc' = [pc EXCEPT ![c] = "requesting"] /\ UNCHANGED <<inFlight, force>>
    BY <1>1, <2>2, SamePlace DEF Load, TypeOK, Refreshing
  <2> QED
    BY <1>1, <2>1, <2>2 DEF Load
<1>2. ASSUME NEW c \in Callers, UsageAnswer(c) PROVE OneRefreshPerProcess'
  <2>1. /\ \A w \in Callers \ {c} : pc'[w] = pc[w]
        /\ pc'[c] \in {"idle", "denied"}
    BY <1>2 DEF UsageAnswer, End, TypeOK
  <2> QED
    BY <1>2, <2>1, SamePlace DEF UsageAnswer, TypeOK, Refreshing
<1>3. ASSUME NEW c \in Callers, RefreshDenied(c) PROVE OneRefreshPerProcess'
  BY <1>3, EnterOnce DEF RefreshDenied, Refreshing
<1>4. ASSUME NEW c \in Callers, Reread(c) PROVE OneRefreshPerProcess'
  <2>1. CASE ResolveRefresh(c, disk)
    BY <1>4, <2>1, ResolveOver DEF Reread, Refreshing
  <2>2. CASE RejectRefresh(c, "permanent")
    BY <1>4, <2>2, RejectOver DEF Reread, Refreshing
  <2>3. CASE pc' = [pc EXCEPT ![c] = "posting"] /\ UNCHANGED inFlight
    BY <1>4, <2>3, SamePlace DEF Reread, TypeOK, Refreshing
  <2> QED
    BY <1>4, <2>1, <2>2, <2>3 DEF Reread
<1>5. ASSUME NEW c \in Callers, ProviderAnswers(c) PROVE OneRefreshPerProcess'
  BY <1>5, SamePlace DEF ProviderAnswers, TypeOK, Refreshing
<1>6. ASSUME NEW c \in Callers, NetworkFails(c) PROVE OneRefreshPerProcess'
  BY <1>6, RejectOver DEF NetworkFails, Refreshing
<1>7. ASSUME NEW c \in Callers, ReadAnswer(c) PROVE OneRefreshPerProcess'
  <2>1. CASE pc' = [pc EXCEPT ![c] = "writing"] /\ UNCHANGED inFlight
    BY <1>7, <2>1, SamePlace DEF ReadAnswer, TypeOK, Refreshing
  <2>2. CASE RejectRefresh(c, ErrorOf(reply[c].kind))
    BY <1>7, <2>2, RejectOver DEF ReadAnswer, Refreshing
  <2> QED
    BY <1>7, <2>1, <2>2 DEF ReadAnswer
<1>8. ASSUME NEW c \in Callers, Write(c) PROVE OneRefreshPerProcess'
  BY <1>8, SamePlace DEF Write, TypeOK, Refreshing
<1>9. ASSUME NEW c \in Callers, WriteFails(c) PROVE OneRefreshPerProcess'
  BY <1>9, RejectOver DEF WriteFails, Refreshing
<1>10. ASSUME NEW c \in Callers, Reload(c) PROVE OneRefreshPerProcess'
  BY <1>10, ResolveOver DEF Reload, Refreshing
<1>11. ASSUME NEW p \in Procs, Crash(p) PROVE OneRefreshPerProcess'
  <2>1. /\ inFlight' = [inFlight EXCEPT ![p] = NoCaller]
        /\ \A w \in Callers : pc'[w] = IF ProcOf[w] = p THEN "idle" ELSE pc[w]
    BY <1>11 DEF Crash, End
  <2> QED
    BY <2>1, ProcOfAssumption, NoneAssumption DEF TypeOK, OneRefreshPerProcess, Refreshing
<1>12. CASE UNCHANGED <<inFlight, pc>>
  BY <1>12 DEF OneRefreshPerProcess
<1>13. CASE Age \/ Deny \/ Login \/ \E r \in live : Revoke(r)
  BY <1>12, <1>13 DEF Age, Deny, Login, Revoke, callVars
<1>14. ASSUME NEW c \in Callers, ReadFails(c) PROVE OneRefreshPerProcess'
  <2>1. CASE pc[c] = "idle" /\ End({c}, "failed") /\ UNCHANGED inFlight
    <3>1. UNCHANGED pc
      BY <2>1 DEF End, TypeOK
    <3> QED
      BY <1>12, <2>1, <3>1
  <2>2. CASE pc[c] \in {"reread", "reloading"} /\ RejectRefresh(c, "transient")
    BY <2>2, RejectOver DEF Refreshing
  <2> QED
    BY <1>14, <2>1, <2>2 DEF ReadFails
<1> QED
  BY <1>1, <1>2, <1>3, <1>4, <1>5, <1>6, <1>7, <1>8, <1>9, <1>10, <1>11, <1>12, <1>13, <1>14
     DEF Next, Proceed, vars, callVars

LEMMA OneRefreshInitial == Init => OneRefreshPerProcess
BY ProcOfAssumption, NoneAssumption DEF Init, OneRefreshPerProcess, Refreshing

\* Whatever the interleaving of the calls and the crashes, the calls of a
\* process perform one refresh at a time, and a call that joined one waits for
\* one that runs.
THEOREM OneRefresh == Spec => []OneRefreshPerProcess
BY TypeInitial, TypeInductive, OneRefreshInitial, OneRefreshInductive, PTL DEF Spec

-----------------------------------------------------------------------------
(* What the tokens are worth, when the callers belong to one process.      *)

OneProcess == \A c, d \in Callers : ProcOf[c] = ProcOf[d]

Spending == {"posting", "answered", "writing"}

\* The refresh token that c's answer leaves the session with.
Successor(c) ==
  IF reply[c].refresh = NoToken THEN latest[c].refresh ELSE reply[c].refresh

\* The file's token is one to spend, or was never there, or was spent by a
\* refresh that holds its successor.
DiskAccounted ==
  \/ disk.refresh \in live \cup abandoned
  \/ disk.refresh = NoToken /\ disk.access = 1
  \/ \E c \in Callers : Holds(c) /\ latest[c].refresh = disk.refresh

\* The inductive invariant: what a refresh spends, holds or leaves is accounted for.
TokensAccounted ==
  /\ NoToken \notin abandoned
  /\ \A c \in Callers : pc[c] \in Spending => latest[c].refresh # NoToken
  /\ \A c \in Callers : pc[c] = "writing" => reply[c].kind = "tokens"
  /\ NeverSpentTwice
  /\ \A c \in Callers : Holds(c) => Successor(c) \in live \cup abandoned
  /\ DiskAccounted

LEMMA RefreshedIsSuccessor ==
  ASSUME TypeOK, NEW c \in Callers
  PROVE  Refreshed(c).refresh = Successor(c)
<1>1. latest[c] \in Document
  BY DEF TypeOK
<1> QED
  BY <1>1 DEF Refreshed, Successor, Document

\* Only one call refreshes.
LEMMA Alone ==
  ASSUME OneProcess, OneRefreshPerProcess,
         NEW c \in Callers, pc[c] \in Refreshing, NEW d \in Callers, pc[d] \in Refreshing
  PROVE  c = d
BY DEF OneProcess, OneRefreshPerProcess

\* A step that leaves the file, the tokens and the refreshes alone.
LEMMA TokensUntouched ==
  ASSUME TokensAccounted, UNCHANGED <<disk, live, abandoned, latest, reply>>,
         \A w \in Callers : pc'[w] = pc[w] \/ {pc[w], pc'[w]} \cap Spending = {}
  PROVE  TokensAccounted'
<1>1. \A w \in Callers : Holds(w)' <=> Holds(w)
  BY DEF Holds, Spending
<1>2. \A w \in Callers : Successor(w)' = Successor(w)
  BY DEF Successor
<1> QED
  BY <1>1, <1>2 DEF TokensAccounted, NeverSpentTwice, DiskAccounted, Spending

\* A step of the provider or of a user that removes no token without a trace.
LEMMA TokensOfTheWorld ==
  ASSUME TokensAccounted, UNCHANGED <<pc, latest, reply>>, NoToken \notin abandoned',
         live \cup abandoned \subseteq (live \cup abandoned)',
         disk' = disk \/ disk'.refresh \in live'
  PROVE  TokensAccounted'
<1>1. \A w \in Callers : (Holds(w)' <=> Holds(w)) /\ Successor(w)' = Successor(w)
  BY DEF Holds, Successor
<1> QED
  BY <1>1 DEF TokensAccounted, NeverSpentTwice, DiskAccounted, Spending

\* The refreshes end, and what those of C held is dropped.
LEMMA TokensDropped ==
  ASSUME TokensAccounted, NEW C \in SUBSET Callers,
         \A w \in Callers : Holds(w) => w \in C,
         \A w \in Callers : pc'[w] \notin Refreshing,
         UNCHANGED <<disk, live>>, abandoned' = abandoned \cup Dropped(C)
  PROVE  TokensAccounted'
<1>1. NoToken \notin abandoned'
  BY DEF TokensAccounted, Dropped, Holds, Spending
<1>2. DiskAccounted'
  BY DEF TokensAccounted, DiskAccounted, Dropped
<1> QED
  BY <1>1, <1>2 DEF TokensAccounted, NeverSpentTwice, Holds, Refreshing, Spending

\* With one process, the end of a refresh leaves nobody refreshing.
LEMMA LastOne ==
  ASSUME TypeOK, OneProcess, OneRefreshPerProcess, TokensAccounted,
         NEW c \in Callers, pc[c] \in Refreshing,
         \/ ResolveRefresh(c, disk) /\ ~Holds(c) /\ abandoned' = abandoned
         \/ \E o \in Outcome : /\ RejectRefresh(c, o)
                               /\ \/ abandoned' = abandoned \cup Dropped({c})
                                  \/ abandoned' = abandoned /\ ~Holds(c),
         UNCHANGED <<disk, live>>
  PROVE  TokensAccounted'
<1>1. \A w \in Callers \ {c} : pc[w] \notin Refreshing
  BY Alone
<1>2. c \in Waiters(c)
  BY DEF Waiters
<1>3. \A w \in Callers : pc'[w] = pc[w] \/ pc'[w] \notin Refreshing
  BY DEF ResolveRefresh, RejectRefresh, End, Refreshing
<1>4. pc'[c] \notin Refreshing
  BY <1>2 DEF ResolveRefresh, RejectRefresh, End, Refreshing
<1>5. \A w \in Callers : pc'[w] \notin Refreshing
  BY <1>1, <1>3, <1>4
<1>6. \A w \in Callers : Holds(w) => w \in {c}
  BY <1>1 DEF Holds, Refreshing
<1>7. abandoned' = abandoned \cup Dropped({c})
  BY DEF Dropped
<1> QED
  BY <1>5, <1>6, <1>7, TokensDropped

LEMMA TokensInductive ==
  ASSUME OneProcess
  PROVE  TypeOK /\ OneRefreshPerProcess /\ TokensAccounted /\ [Next]_vars => TokensAccounted'
<1> SUFFICES ASSUME TypeOK, OneRefreshPerProcess, TokensAccounted, [Next]_vars
             PROVE  TokensAccounted'
  OBVIOUS
<1>1. ASSUME NEW c \in Callers, Load(c) PROVE TokensAccounted'
  <2>1. \A w \in Callers : pc'[w] = pc[w] \/ {pc[w], pc'[w]} \cap Spending = {}
    BY <1>1 DEF Load, EnterRefresh, TypeOK, Spending
  <2> QED
    BY <1>1, <2>1, TokensUntouched DEF Load, envVars
<1>2. ASSUME NEW c \in Callers, UsageAnswer(c) PROVE TokensAccounted'
  <2>1. \A w \in Callers : pc'[w] = pc[w] \/ {pc[w], pc'[w]} \cap Spending = {}
    BY <1>2 DEF UsageAnswer, End, TypeOK, Spending
  <2> QED
    BY <1>2, <2>1, TokensUntouched DEF UsageAnswer, envVars
<1>3. ASSUME NEW c \in Callers, RefreshDenied(c) PROVE TokensAccounted'
  <2>1. \A w \in Callers : pc'[w] = pc[w] \/ {pc[w], pc'[w]} \cap Spending = {}
    BY <1>3 DEF RefreshDenied, EnterRefresh, TypeOK, Spending
  <2> QED
    BY <1>3, <2>1, TokensUntouched DEF RefreshDenied, envVars
<1>4. ASSUME NEW c \in Callers, Reread(c) PROVE TokensAccounted'
  <2>1. pc[c] \in Refreshing /\ ~Holds(c) /\ UNCHANGED <<disk, live, abandoned>>
    BY <1>4 DEF Reread, Refreshing, Holds, envVars
  <2>2. CASE ResolveRefresh(c, disk)
    BY <2>1, <2>2, LastOne
  <2>3. CASE RejectRefresh(c, "permanent")
    BY <2>1, <2>3, LastOne DEF Outcome
  <2>4. CASE /\ disk.refresh # NoToken
             /\ latest' = [latest EXCEPT ![c] = disk]
             /\ pc' = [pc EXCEPT ![c] = "posting"]
             /\ UNCHANGED reply
    <3>1. \A w \in Callers \ {c} : pc[w] \notin Refreshing
      BY <2>1, Alone
    <3>2. \A w \in Callers : ~Holds(w) /\ ~Holds(w)'
      BY <2>1, <2>4, <3>1 DEF Holds, Refreshing, TypeOK
    <3>3. disk.refresh \in live \cup abandoned
      BY <2>4, <3>2 DEF TokensAccounted, DiskAccounted
    <3>4. /\ latest'[c] = disk
          /\ \A w \in Callers \ {c} : pc'[w] \notin Refreshing
      BY <2>4, <3>1 DEF TypeOK
    <3>5. /\ \A w \in Callers : /\ pc'[w] \in Spending => latest'[w].refresh # NoToken
                                /\ pc'[w] # "writing"
          /\ NeverSpentTwice'
      BY <2>1, <2>4, <3>3, <3>4 DEF NeverSpentTwice, Spending, Refreshing, TypeOK
    <3> QED
      BY <2>1, <3>2, <3>3, <3>5 DEF TokensAccounted, DiskAccounted
  <2> QED
    BY <1>4, <2>2, <2>3, <2>4 DEF Reread
<1>5. ASSUME NEW c \in Callers, ProviderAnswers(c) PROVE TokensAccounted'
  <2>1. /\ pc[c] = "posting" /\ pc[c] \in Refreshing
        /\ pc'[c] = "answered"
        /\ UNCHANGED <<disk, abandoned, latest>>
    BY <1>5 DEF ProviderAnswers, Refreshing, TypeOK
  <2>2. \A w \in Callers \ {c} : pc[w] \notin Refreshing /\ pc'[w] = pc[w]
    BY <1>5, <2>1, Alone DEF ProviderAnswers, TypeOK
  <2>3. \A w \in Callers : ~Holds(w)
    BY <2>1, <2>2 DEF Holds, Refreshing
  <2>4. \A w \in Callers \ {c} : ~Holds(w)'
    BY <2>2 DEF Holds, Refreshing
  <2>5. /\ NoToken \notin abandoned'
        /\ \A w \in Callers : /\ pc'[w] \in Spending => latest'[w].refresh # NoToken
                              /\ pc'[w] # "writing"
        /\ NeverSpentTwice'
    BY <2>1, <2>2 DEF TokensAccounted, NeverSpentTwice, Spending, Refreshing
  <2>6. /\ Holds(c)' => Successor(c)' \in (live \cup abandoned)'
        /\ DiskAccounted'
    <3>1. CASE UNCHANGED live /\ \E kind \in {"rejected", "unavailable"} :
                                    reply' = [reply EXCEPT ![c] = Answer(kind)]
      <4>1. ~Holds(c)'
        BY <3>1 DEF Holds, Answer, TypeOK
      <4> QED
        BY <2>1, <2>3, <3>1, <4>1 DEF TokensAccounted, DiskAccounted
    <3>2. CASE \E kind \in {"tokens", "garbled"}, next \in {issued + 1, NoToken} :
                 /\ latest[c].refresh \in live
                 /\ reply' = [reply EXCEPT ![c] =
                                [kind |-> kind, access |-> issued + 1, refresh |-> next]]
                 /\ live' = IF next = NoToken THEN live
                            ELSE (live \ {latest[c].refresh}) \cup {next}
      <4>1. PICK kind \in {"tokens", "garbled"}, next \in {issued + 1, NoToken} :
                 /\ latest[c].refresh \in live
                 /\ reply' = [reply EXCEPT ![c] =
                                [kind |-> kind, access |-> issued + 1, refresh |-> next]]
                 /\ live' = IF next = NoToken THEN live
                            ELSE (live \ {latest[c].refresh}) \cup {next}
        BY <3>2
      <4>2. reply'[c].kind = kind /\ reply'[c].refresh = next
        BY <4>1 DEF TypeOK
      <4>3. Holds(c)'
        BY <2>1, <4>2 DEF Holds
      <4>4. Successor(c)' \in live'
        BY <2>1, <4>1, <4>2 DEF Successor
      <4>5. DiskAccounted'
        <5>1. CASE disk.refresh = latest[c].refresh
          BY <2>1, <4>3, <5>1 DEF DiskAccounted
        <5>2. CASE disk.refresh # latest[c].refresh
          BY <2>1, <2>3, <4>1, <5>2 DEF TokensAccounted, DiskAccounted
        <5> QED
          BY <5>1, <5>2
      <4> QED
        BY <4>4, <4>5
    <3> QED
      BY <1>5, <3>1, <3>2 DEF ProviderAnswers
  <2> QED
    BY <2>4, <2>5, <2>6 DEF TokensAccounted
<1>6. ASSUME NEW c \in Callers, NetworkFails(c) PROVE TokensAccounted'
  BY <1>6, LastOne DEF NetworkFails, Refreshing, Outcome
<1>7. ASSUME NEW c \in Callers, ReadAnswer(c) PROVE TokensAccounted'
  <2>1. CASE /\ reply[c].kind = "tokens"
             /\ pc' = [pc EXCEPT ![c] = "writing"]
             /\ UNCHANGED <<abandoned, latest, reply>>
    <3>1. \A w \in Callers : /\ Holds(w)' <=> Holds(w)
                             /\ Successor(w)' = Successor(w)
                             /\ pc'[w] \in Spending <=> pc[w] \in Spending
                             /\ pc'[w] = "posting" <=> pc[w] = "posting"
                             /\ pc'[w] = "writing" => w = c \/ pc[w] = "writing"
      BY <1>7, <2>1 DEF ReadAnswer, Holds, Successor, Spending, TypeOK
    <3> QED
      BY <1>7, <2>1, <3>1 DEF ReadAnswer, TokensAccounted, NeverSpentTwice, DiskAccounted
  <2>2. CASE /\ abandoned' = abandoned \cup Dropped({c})
             /\ RejectRefresh(c, ErrorOf(reply[c].kind))
    <3>1. ErrorOf(reply[c].kind) \in Outcome
      BY DEF ErrorOf, Outcome
    <3>2. pc[c] \in Refreshing /\ UNCHANGED <<disk, live>>
      BY <1>7 DEF ReadAnswer, Refreshing
    <3> QED
      BY <2>2, <3>1, <3>2, LastOne
  <2> QED
    BY <1>7, <2>1, <2>2 DEF ReadAnswer
<1>8. ASSUME NEW c \in Callers, Write(c) PROVE TokensAccounted'
  <2>1. pc[c] = "writing" /\ pc[c] \in Refreshing
    BY <1>8 DEF Write, Refreshing
  <2>2. \A w \in Callers : pc'[w] \notin Spending
    BY <1>8, <2>1, Alone DEF Write, TypeOK, Refreshing, Spending
  <2>3. disk'.refresh = Successor(c)
    BY <1>8, RefreshedIsSuccessor DEF Write
  <2>4. UNCHANGED <<live, abandoned>>
    BY <1>8 DEF Write, envVars
  <2>5. disk'.refresh \in (live \cup abandoned)'
    BY <2>1, <2>3, <2>4 DEF TokensAccounted, Holds
  <2> QED
    BY <2>2, <2>4, <2>5 DEF TokensAccounted, NeverSpentTwice, DiskAccounted, Holds, Spending
<1>9. ASSUME NEW c \in Callers, WriteFails(c) PROVE TokensAccounted'
  BY <1>9, LastOne DEF WriteFails, Refreshing, Outcome
<1>10. ASSUME NEW c \in Callers, Reload(c) PROVE TokensAccounted'
  BY <1>10, LastOne DEF Reload, Refreshing, Holds, envVars
<1>11. ASSUME NEW p \in Procs, Crash(p) PROVE TokensAccounted'
  <2> DEFINE C == {d \in Callers : ProcOf[d] = p}
  <2>1. C = Callers
    BY <1>11 DEF Crash, OneProcess
  <2>2. \A w \in Callers : pc'[w] \notin Refreshing
    BY <1>11, <2>1 DEF Crash, End, Refreshing
  <2>3. abandoned' = abandoned \cup Dropped(C) /\ UNCHANGED <<disk, live>>
    BY <1>11 DEF Crash
  <2> QED
    BY <2>1, <2>2, <2>3, TokensDropped
<1>12. ASSUME NEW r \in live, Revoke(r) PROVE TokensAccounted'
  <2>1. r # NoToken
    BY NoneAssumption, BoundAssumption DEF TypeOK, Token
  <2> QED
    BY <1>12, <2>1, TokensOfTheWorld DEF Revoke, callVars, TokensAccounted
<1>13. CASE UNCHANGED <<disk, live, abandoned, latest, reply, pc>>
  BY <1>13, TokensUntouched
<1>14. CASE Age \/ Deny
  BY <1>13, <1>14 DEF Age, Deny, callVars
<1>15. CASE Login
  BY <1>15, TokensOfTheWorld DEF Login, callVars, TokensAccounted
<1>16. ASSUME NEW c \in Callers, ReadFails(c) PROVE TokensAccounted'
  <2>1. CASE pc[c] = "idle" /\ End({c}, "failed") /\ UNCHANGED <<inFlight, latest, reply>>
    <3>1. UNCHANGED pc
      BY <2>1 DEF End, TypeOK
    <3> QED
      BY <1>13, <1>16, <2>1, <3>1 DEF ReadFails, envVars
  <2>2. CASE pc[c] \in {"reread", "reloading"} /\ RejectRefresh(c, "transient")
    BY <1>16, <2>2, LastOne DEF ReadFails, Refreshing, Holds, Outcome, envVars
  <2> QED
    BY <1>16, <2>1, <2>2 DEF ReadFails
<1> QED
  BY <1>1, <1>2, <1>3, <1>4, <1>5, <1>6, <1>7, <1>8, <1>9, <1>10, <1>11, <1>12,
     <1>13, <1>14, <1>15, <1>16 DEF Next, Proceed, vars, envVars, callVars

LEMMA TokensInitial == Init => TokensAccounted
<1> SUFFICES ASSUME Init PROVE TokensAccounted
  OBVIOUS
<1>1. \A c \in Callers : pc[c] = "idle"
  BY DEF Init
<1>2. DiskAccounted
  BY DEF Init, DiskAccounted
<1> QED
  BY <1>1, <1>2 DEF Init, TokensAccounted, NeverSpentTwice, Holds, Spending

LEMMA TokensAlwaysAccounted ==
  ASSUME OneProcess
  PROVE  Spec => []TokensAccounted
BY TypeInitial, TypeInductive, OneRefreshInitial, OneRefreshInductive,
   TokensInitial, TokensInductive, PTL DEF Spec

\* However many calls of one process race for the credential, a refresh token
\* is POSTed once: it is live, or its successor was lost to a fault.
THEOREM SpentOnce ==
  ASSUME OneProcess
  PROVE  Spec => []NeverSpentTwice
<1>1. TokensAccounted => NeverSpentTwice
  BY DEF TokensAccounted
<1> QED
  BY <1>1, TokensAlwaysAccounted, PTL

\* The session of one process is never lost to its own refreshes.
THEOREM SessionKept ==
  ASSUME OneProcess
  PROVE  Spec => []SessionNotLost
<1>1. TokensAccounted => SessionNotLost
  BY DEF TokensAccounted, DiskAccounted, SessionNotLost
<1> QED
  BY <1>1, TokensAlwaysAccounted, PTL

-----------------------------------------------------------------------------
(* Failures for good.                                                      *)

\* The documents that are in the file or that a call works with.
Around ==
  {disk} \cup {cred[c] : c \in {d \in Callers : pc[d] # "idle"}}
         \cup {latest[c] : c \in {d \in Callers : pc[d] \in Spending}}
         \cup {Refreshed(c) : c \in {d \in Callers : Holds(d)}}

\* An access token belongs to one login, and none has a number still to be issued.
LoginsTold ==
  /\ \A x \in Around : /\ x.access <= issued /\ x.login <= logins
                       /\ x.refresh # NoToken => x.refresh <= issued
  /\ \A x, y \in Around : x.access = y.access => x.login = y.login

\* A refresh spends the token of the login of its call.  The file holds that document
\* still, or a later login; and a token that was rejected works no more.
LoginSpent ==
  \A c \in Callers : pc[c] \in Spending =>
    /\ latest[c].login = cred[c].login
    /\ disk = latest[c] \/ disk.login > latest[c].login
    /\ pc[c] = "answered" /\ reply[c].kind = "rejected" => latest[c].refresh \notin live

\* What is around: one by one.
LEMMA AroundIs ==
  /\ disk \in Around
  /\ \A c \in Callers : /\ pc[c] # "idle" => cred[c] \in Around
                        /\ pc[c] \in Spending => latest[c] \in Around
                        /\ Holds(c) => Refreshed(c) \in Around
BY DEF Around

\* A step that brings no document that was not around.
NoNewDocument ==
  /\ disk' \in Around
  /\ \A c \in Callers : /\ pc'[c] # "idle" => cred'[c] \in Around
                        /\ pc'[c] \in Spending => latest'[c] \in Around
                        /\ Holds(c)' => /\ Holds(c)
                                        /\ latest'[c] = latest[c] /\ reply'[c] = reply[c]

LEMMA NothingNew ==
  ASSUME TypeOK, TypeOK', LoginsTold, NoNewDocument, issued <= issued', logins <= logins'
  PROVE  LoginsTold'
<1>1. \A c \in Callers : Holds(c)' => Refreshed(c)' = Refreshed(c) /\ Refreshed(c) \in Around
  BY AroundIs DEF NoNewDocument, Refreshed
<1>2. Around' \subseteq Around
  BY <1>1 DEF Around, NoNewDocument
<1>3. ASSUME NEW x \in Around
      PROVE  /\ x.access <= issued' /\ x.login <= logins'
             /\ x.refresh # NoToken => x.refresh <= issued'
  <2>1. x \in Document
    BY RefreshedType DEF Around, TypeOK
  <2>2. /\ x.access \in Nat /\ x.login \in Nat /\ x.refresh \in Nat \cup {NoToken}
        /\ issued \in Nat /\ issued' \in Nat /\ logins \in Nat /\ logins' \in Nat
    BY <2>1 DEF Document, Token, TypeOK
  <2>3. x.access <= issued /\ x.login <= logins /\ (x.refresh # NoToken => x.refresh <= issued)
    BY DEF LoginsTold
  <2> QED
    BY <2>2, <2>3
<1> QED
  BY <1>2, <1>3 DEF LoginsTold

LEMMA LoginsInitial == Init => LoginsTold
<1> SUFFICES ASSUME Init PROVE LoginsTold
  OBVIOUS
<1>1. Around = {disk}
  BY DEF Init, Around, Holds, Spending
<1>2. /\ disk.access = 1 /\ disk.login = 0 /\ disk.refresh \in {1, NoToken}
      /\ issued = 1 /\ logins = 0
  BY DEF Init
<1> QED
  BY <1>1, <1>2 DEF LoginsTold

\* A call leaves a refresh with the document of the file, or ends.
LEMMA ResolvedNew ==
  ASSUME TypeOK, NEW c \in Callers, ResolveRefresh(c, disk), UNCHANGED disk
  PROVE  NoNewDocument
<1>1. \A w \in Callers : /\ pc'[w] # "idle" => \/ cred'[w] = disk
                                               \/ pc[w] # "idle" /\ cred'[w] = cred[w]
                         /\ pc'[w] \in Spending => w # c /\ pc'[w] = pc[w]
                         /\ w # c => latest'[w] = latest[w] /\ reply'[w] = reply[w]
                         /\ w = c => pc'[w] \notin {"answered", "writing"}
  BY DEF ResolveRefresh, LeaveRefresh, Waiters, Spending, TypeOK
<1> QED
  BY <1>1, AroundIs DEF NoNewDocument, Holds, Spending

LEMMA EndedNew ==
  ASSUME TypeOK, NEW c \in Callers, NEW o, RejectRefresh(c, o), UNCHANGED disk
  PROVE  NoNewDocument
<1>1. \A w \in Callers : /\ pc'[w] # "idle" => pc'[w] = pc[w] /\ cred'[w] = cred[w] /\ w # c
                         /\ w # c => latest'[w] = latest[w] /\ reply'[w] = reply[w]
  BY DEF RejectRefresh, LeaveRefresh, End, Waiters, TypeOK
<1> QED
  BY <1>1, AroundIs DEF NoNewDocument, Holds, Spending

\* A step that brings one new document, with the access token just issued.
LEMMA OneNewDocument ==
  ASSUME TypeOK, TypeOK', LoginsTold, NEW doc \in Document, Around' \subseteq Around \cup {doc},
         issued' = issued + 1, doc.access = issued + 1,
         logins <= logins', doc.login <= logins', doc.refresh # NoToken => doc.refresh <= issued'
  PROVE  LoginsTold'
<1>1. Around \subseteq Document
  BY RefreshedType DEF Around, TypeOK
<1>2. \A x \in Around : /\ x.access \in Nat /\ x.login \in Nat /\ x.refresh \in Nat \cup {NoToken}
  BY <1>1 DEF Document, Token
<1>3. issued \in Nat /\ logins \in Nat /\ logins' \in Nat
  BY DEF TypeOK
<1>4. ASSUME NEW x \in Around
      PROVE  /\ x.access <= issued' /\ x.login <= logins' /\ x.access # doc.access
             /\ x.refresh # NoToken => x.refresh <= issued'
  <2>1. x.access <= issued /\ x.login <= logins /\ (x.refresh # NoToken => x.refresh <= issued)
    BY DEF LoginsTold
  <2> QED
    BY <1>2, <1>3, <2>1
<1>5. doc.access <= issued'
  BY <1>3
<1>6. \A x, y \in Around : x.access = y.access => x.login = y.login
  BY DEF LoginsTold
<1>7. \A x \in Around' : x \in Around \/ x = doc
  OBVIOUS
<1>8. \A x \in Around' : /\ x.access <= issued' /\ x.login <= logins'
                         /\ x.refresh # NoToken => x.refresh <= issued'
  BY <1>4, <1>5, <1>7
<1>9. \A x, y \in Around' : x.access = y.access => x.login = y.login
  BY <1>4, <1>6, <1>7
<1> QED
  BY <1>8, <1>9 DEF LoginsTold

LEMMA LoginsInductive ==
  TypeOK /\ TokensAccounted /\ LoginsTold /\ [Next]_vars => LoginsTold'
<1> SUFFICES ASSUME TypeOK, TokensAccounted, LoginsTold, [Next]_vars
             PROVE  LoginsTold'
  OBVIOUS
<1>0. TypeOK' /\ issued \in Nat /\ logins \in Nat
  BY TypeInductive DEF TypeOK
<1>1. ASSUME NEW c \in Callers, Load(c) PROVE LoginsTold'
  <2>1. /\ cred' = [cred EXCEPT ![c] = disk]
        /\ \A w \in Callers \ {c} : pc'[w] = pc[w]
        /\ pc'[c] \in {"joined", "reread", "requesting"}
        /\ UNCHANGED <<disk, envVars, latest, reply>>
    BY <1>1 DEF Load, EnterRefresh, TypeOK
  <2>2. NoNewDocument
    BY <2>1, AroundIs DEF NoNewDocument, Holds, Spending, TypeOK
  <2> QED
    BY <1>0, <2>1, <2>2, NothingNew DEF envVars
<1>2. ASSUME NEW c \in Callers, UsageAnswer(c) PROVE LoginsTold'
  <2>1. /\ \A w \in Callers : pc'[w] \in {pc[w], "idle", "denied"}
        /\ \A w \in Callers : pc'[w] # "idle" => cred'[w] = cred[w] /\ pc[w] # "idle"
        /\ UNCHANGED <<disk, envVars, latest, reply>>
    BY <1>2 DEF UsageAnswer, End, TypeOK
  <2>2. NoNewDocument
    BY <2>1, AroundIs DEF NoNewDocument, Holds, Spending, TypeOK
  <2> QED
    BY <1>0, <2>1, <2>2, NothingNew DEF envVars
<1>3. ASSUME NEW c \in Callers, RefreshDenied(c) PROVE LoginsTold'
  <2>1. /\ \A w \in Callers : pc'[w] \in {pc[w], "joined", "reread"}
        /\ \A w \in Callers : pc'[w] # "idle" => pc[w] # "idle"
        /\ UNCHANGED <<disk, envVars, cred, latest, reply>>
    BY <1>3 DEF RefreshDenied, EnterRefresh, TypeOK
  <2>2. NoNewDocument
    BY <2>1, AroundIs DEF NoNewDocument, Holds, Spending, TypeOK
  <2> QED
    BY <1>0, <2>1, <2>2, NothingNew DEF envVars
<1>4. ASSUME NEW c \in Callers, Reread(c) PROVE LoginsTold'
  <2>1. UNCHANGED <<disk, issued, logins>>
    BY <1>4 DEF Reread, envVars
  <2>2. CASE ResolveRefresh(c, disk)
    BY <1>0, <2>1, <2>2, ResolvedNew, NothingNew
  <2>3. CASE RejectRefresh(c, "permanent")
    BY <1>0, <2>1, <2>3, EndedNew, NothingNew
  <2>4. CASE /\ latest' = [latest EXCEPT ![c] = disk]
             /\ pc' = [pc EXCEPT ![c] = "posting"]
             /\ UNCHANGED <<inFlight, force, cred, reply, outcome>>
    <3>1. NoNewDocument
      BY <1>4, <2>1, <2>4, AroundIs DEF Reread, NoNewDocument, Holds, Spending, TypeOK
    <3> QED
      BY <1>0, <2>1, <3>1, NothingNew
  <2> QED
    BY <1>4, <2>2, <2>3, <2>4 DEF Reread
<1>5. ASSUME NEW c \in Callers, ProviderAnswers(c) PROVE LoginsTold'
  <2>1. /\ pc[c] = "posting" /\ pc' = [pc EXCEPT ![c] = "answered"]
        /\ UNCHANGED <<disk, logins, cred, latest>>
        /\ latest[c] \in Document /\ latest[c] \in Around
    BY <1>5, AroundIs DEF ProviderAnswers, Spending, TypeOK
  <2>2. CASE /\ \E kind \in {"rejected", "unavailable"} :
                  reply' = [reply EXCEPT ![c] = Answer(kind)]
             /\ UNCHANGED issued
    <3>1. ~Holds(c)'
      BY <2>2 DEF Holds, Answer, TypeOK
    <3>2. NoNewDocument
      BY <2>1, <2>2, <3>1, AroundIs DEF NoNewDocument, Holds, Spending, TypeOK
    <3> QED
      BY <1>0, <2>1, <2>2, <3>2, NothingNew
  <2>3. CASE /\ issued' = issued + 1
             /\ \E kind \in {"tokens", "garbled"}, next \in {issued + 1, NoToken} :
                  reply' = [reply EXCEPT ![c] =
                              [kind |-> kind, access |-> issued + 1, refresh |-> next]]
    <3>1. PICK kind \in {"tokens", "garbled"}, next \in {issued + 1, NoToken} :
                  reply' = [reply EXCEPT ![c] =
                              [kind |-> kind, access |-> issued + 1, refresh |-> next]]
      BY <2>3
    <3>2. reply'[c].access = issued + 1 /\ reply'[c].refresh = next
      BY <3>1 DEF TypeOK
    <3> DEFINE doc == Refreshed(c)'
    <3>3. doc \in Document
      <4>1. latest'[c] \in Document /\ reply'[c] \in Reply
        BY <1>0 DEF TypeOK
      <4> QED
        BY <4>1 DEF Refreshed, Document, Reply
    <3>4. /\ doc.access = issued + 1
          /\ doc.login = latest[c].login
          /\ doc.refresh = IF next = NoToken THEN latest[c].refresh ELSE next
      BY <2>1, <3>2 DEF Refreshed, Document
    <3>5. \A w \in Callers \ {c} : /\ pc'[w] = pc[w]
                                   /\ Holds(w)' => Holds(w) /\ Refreshed(w)' = Refreshed(w)
      BY <2>1, <3>1 DEF Holds, Refreshed, TypeOK
    <3>6. Around' \subseteq Around \cup {doc}
      <4>1. \A w \in Callers : /\ pc'[w] # "idle" => pc[w] # "idle"
                               /\ pc'[w] \in Spending => pc[w] \in Spending
        BY <2>1, <3>5 DEF Spending
      <4>2. \A w \in Callers : Holds(w)' => Refreshed(w)' \in Around \cup {doc}
        BY <3>5, AroundIs
      <4> QED
        BY <2>1, <4>1, <4>2, AroundIs DEF Around
    <3>7. /\ latest[c].login <= logins
          /\ latest[c].refresh # NoToken => latest[c].refresh <= issued
      BY <2>1 DEF LoginsTold
    <3>8. doc.refresh # NoToken => doc.refresh <= issued'
      <4>1. latest[c].refresh \in Nat \cup {NoToken}
        BY <2>1 DEF Document, Token
      <4> QED
        BY <1>0, <2>3, <3>4, <3>7, <4>1
    <3>9. logins <= logins' /\ doc.login <= logins'
      BY <1>0, <2>1, <3>4, <3>7
    <3> HIDE DEF doc
    <3> QED
      BY <1>0, <2>3, <3>3, <3>4, <3>6, <3>8, <3>9, OneNewDocument
  <2> QED
    BY <1>5, <2>2, <2>3 DEF ProviderAnswers
<1>6. ASSUME NEW c \in Callers, NEW o, RejectRefresh(c, o), UNCHANGED <<disk, issued, logins>>
      PROVE  LoginsTold'
  BY <1>0, <1>6, EndedNew, NothingNew
<1>7. ASSUME NEW c \in Callers, NetworkFails(c) \/ WriteFails(c) PROVE LoginsTold'
  BY <1>6, <1>7 DEF NetworkFails, WriteFails
<1>8. ASSUME NEW c \in Callers, ReadAnswer(c) PROVE LoginsTold'
  <2>1. UNCHANGED <<disk, issued, logins>>
    BY <1>8 DEF ReadAnswer
  <2>2. CASE /\ pc' = [pc EXCEPT ![c] = "writing"]
             /\ UNCHANGED <<abandoned, inFlight, force, cred, latest, reply, outcome>>
    <3>1. NoNewDocument
      BY <1>8, <2>1, <2>2, AroundIs DEF ReadAnswer, NoNewDocument, Holds, Spending, TypeOK
    <3> QED
      BY <1>0, <2>1, <3>1, NothingNew
  <2> QED
    BY <1>6, <1>8, <2>1, <2>2 DEF ReadAnswer
<1>9. ASSUME NEW c \in Callers, Write(c) PROVE LoginsTold'
  <2>1. Holds(c) /\ Refreshed(c) \in Around
    BY <1>9, AroundIs DEF Write, TokensAccounted, Holds
  <2>2. /\ disk' \in Around
        /\ pc' = [pc EXCEPT ![c] = "reloading"] /\ reply' = [reply EXCEPT ![c] = NoReply]
        /\ pc[c] = "writing"
        /\ UNCHANGED <<issued, logins, cred, latest>>
    BY <1>9, <2>1 DEF Write, envVars
  <2>3. NoNewDocument
    BY <2>2, AroundIs DEF NoNewDocument, Holds, Spending, TypeOK
  <2> QED
    BY <1>0, <2>2, <2>3, NothingNew
<1>10. ASSUME NEW c \in Callers, Reload(c) PROVE LoginsTold'
  BY <1>0, <1>10, ResolvedNew, NothingNew DEF Reload, envVars
<1>11. ASSUME NEW p \in Procs, Crash(p) PROVE LoginsTold'
  <2>1. /\ \A w \in Callers : IF ProcOf[w] = p THEN pc'[w] = "idle"
                              ELSE /\ pc'[w] = pc[w] /\ cred'[w] = cred[w]
                                   /\ latest'[w] = latest[w] /\ reply'[w] = reply[w]
        /\ UNCHANGED <<disk, issued, logins>>
    BY <1>11 DEF Crash, End
  <2>2. NoNewDocument
    BY <2>1, AroundIs DEF NoNewDocument, Holds, Spending
  <2> QED
    BY <1>0, <2>1, <2>2, NothingNew
<1>12. CASE UNCHANGED <<disk, issued, logins, pc, cred, latest, reply>>
  <2>1. NoNewDocument
    BY <1>12, AroundIs DEF NoNewDocument, Holds
  <2> QED
    BY <1>0, <1>12, <2>1, NothingNew
<1>13. CASE Age \/ Deny \/ \E r \in live : Revoke(r)
  BY <1>12, <1>13 DEF Age, Deny, Revoke, callVars
<1>14. CASE Login
  <2>1. /\ issued' = issued + 1 /\ logins' = logins + 1
        /\ disk'.access = issued + 1 /\ disk'.refresh = issued + 1 /\ disk'.login = logins + 1
        /\ UNCHANGED <<pc, cred, latest, reply>>
    BY <1>14 DEF Login, callVars
  <2>2. \A w \in Callers : Holds(w)' = Holds(w) /\ Refreshed(w)' = Refreshed(w)
    BY <2>1 DEF Holds, Refreshed
  <2> DEFINE doc == disk'
  <2>3. Around' \subseteq Around \cup {doc}
    BY <2>1, <2>2 DEF Around
  <2>4. doc \in Document /\ doc.refresh <= issued' /\ logins <= logins' /\ doc.login <= logins'
    BY <1>0, <2>1 DEF TypeOK
  <2>5. doc.access = issued + 1
    BY <2>1
  <2> HIDE DEF doc
  <2> QED
    BY <1>0, <2>1, <2>3, <2>4, <2>5, OneNewDocument
<1>15. ASSUME NEW c \in Callers, ReadFails(c) PROVE LoginsTold'
  <2>1. UNCHANGED <<disk, issued, logins>>
    BY <1>15 DEF ReadFails, envVars
  <2>2. CASE pc[c] = "idle" /\ End({c}, "failed") /\ UNCHANGED <<inFlight, latest, reply>>
    <3>1. UNCHANGED pc /\ \A w \in Callers : pc[w] # "idle" => cred'[w] = cred[w]
      BY <2>2 DEF End, TypeOK
    <3>2. NoNewDocument
      BY <2>1, <2>2, <3>1, AroundIs DEF NoNewDocument, Holds
    <3> QED
      BY <1>0, <2>1, <3>2, NothingNew
  <2> QED
    BY <1>6, <1>15, <2>1, <2>2 DEF ReadFails
<1> QED
  BY <1>1, <1>2, <1>3, <1>4, <1>5, <1>7, <1>8, <1>9, <1>10, <1>11, <1>12, <1>13, <1>14, <1>15
     DEF Next, Proceed, vars, envVars, callVars

\* A step that leaves the file alone, in which no token comes to life and no
\* refresh begins to spend one, or is answered.
LEMMA NothingSpent ==
  ASSUME LoginSpent, UNCHANGED disk, live' \subseteq live,
         \A w \in Callers : pc'[w] \in Spending =>
           /\ pc[w] \in Spending /\ (pc'[w] = "answered" => pc[w] = "answered")
           /\ cred'[w] = cred[w] /\ latest'[w] = latest[w] /\ reply'[w] = reply[w]
  PROVE  LoginSpent'
BY DEF LoginSpent

\* The end of a refresh is such a step.
LEMMA SpendingOver ==
  ASSUME TypeOK, LoginSpent, NEW c \in Callers, UNCHANGED <<disk, live>>,
         ResolveRefresh(c, disk) \/ \E o \in Outcome : RejectRefresh(c, o)
  PROVE  LoginSpent'
<1>1. \A w \in Callers : pc'[w] \in Spending =>
        /\ pc'[w] = pc[w] /\ w # c
        /\ cred'[w] = cred[w] /\ latest'[w] = latest[w] /\ reply'[w] = reply[w]
  BY DEF ResolveRefresh, RejectRefresh, LeaveRefresh, End, Waiters, Spending, TypeOK
<1> QED
  BY <1>1, NothingSpent

LEMMA LoginSpentInductive ==
  ASSUME OneProcess
  PROVE  TypeOK /\ OneRefreshPerProcess /\ LoginsTold /\ LoginSpent /\ [Next]_vars => LoginSpent'
<1> SUFFICES ASSUME TypeOK, OneRefreshPerProcess, LoginsTold, LoginSpent, [Next]_vars
             PROVE  LoginSpent'
  OBVIOUS
<1>1. ASSUME NEW c \in Callers, Load(c) PROVE LoginSpent'
  <2>1. \A w \in Callers : pc'[w] \in Spending =>
          pc'[w] = pc[w] /\ cred'[w] = cred[w]
    BY <1>1 DEF Load, EnterRefresh, TypeOK, Spending
  <2> QED
    BY <1>1, <2>1, NothingSpent DEF Load, envVars
<1>2. ASSUME NEW c \in Callers, UsageAnswer(c) PROVE LoginSpent'
  <2>1. \A w \in Callers : pc'[w] \in Spending =>
          pc'[w] = pc[w] /\ cred'[w] = cred[w]
    BY <1>2 DEF UsageAnswer, End, TypeOK, Spending
  <2> QED
    BY <1>2, <2>1, NothingSpent DEF UsageAnswer, envVars
<1>3. ASSUME NEW c \in Callers, RefreshDenied(c) PROVE LoginSpent'
  <2>1. \A w \in Callers : pc'[w] \in Spending => pc'[w] = pc[w]
    BY <1>3 DEF RefreshDenied, EnterRefresh, TypeOK, Spending
  <2> QED
    BY <1>3, <2>1, NothingSpent DEF RefreshDenied, envVars
<1>4. ASSUME NEW c \in Callers, Reread(c) PROVE LoginSpent'
  <2>1. CASE ResolveRefresh(c, disk)
    BY <1>4, <2>1, SpendingOver DEF Reread, envVars
  <2>2. CASE RejectRefresh(c, "permanent")
    BY <1>4, <2>2, SpendingOver DEF Reread, Outcome, envVars
  <2>3. CASE /\ disk.access = cred[c].access
             /\ latest' = [latest EXCEPT ![c] = disk]
             /\ pc' = [pc EXCEPT ![c] = "posting"]
             /\ UNCHANGED <<inFlight, force, cred, reply, outcome>>
    <3>1. cred[c].login = disk.login
      BY <1>4, <2>3, AroundIs DEF Reread, LoginsTold
    <3>2. \A w \in Callers \ {c} : pc[w] \notin Refreshing /\ pc'[w] = pc[w]
      BY <1>4, <2>3, Alone DEF Reread, Refreshing, TypeOK
    <3>3. pc'[c] = "posting" /\ latest'[c] = disk /\ UNCHANGED <<disk, cred>>
      BY <1>4, <2>3 DEF Reread, TypeOK
    <3> QED
      BY <3>1, <3>2, <3>3 DEF LoginSpent, Spending, Refreshing
  <2> QED
    BY <1>4, <2>1, <2>2, <2>3 DEF Reread
<1>5. ASSUME NEW c \in Callers, ProviderAnswers(c) PROVE LoginSpent'
  <2>1. /\ pc[c] = "posting" /\ UNCHANGED <<disk, cred, latest>>
        /\ \A w \in Callers \ {c} : pc'[w] = pc[w]
    BY <1>5 DEF ProviderAnswers, TypeOK
  <2>2. \A w \in Callers \ {c} : pc'[w] \notin Spending
    BY <2>1, Alone DEF Refreshing, Spending
  <2>3. latest[c].login = cred[c].login /\ (disk = latest[c] \/ disk.login > latest[c].login)
    BY <2>1 DEF LoginSpent, Spending
  <2>4. reply'[c].kind = "rejected" => latest[c].refresh \notin live'
    BY <1>5 DEF ProviderAnswers, Answer, TypeOK
  <2> QED
    BY <2>1, <2>2, <2>3, <2>4 DEF LoginSpent
<1>6. ASSUME NEW c \in Callers, NetworkFails(c) \/ WriteFails(c) PROVE LoginSpent'
  BY <1>6, SpendingOver DEF NetworkFails, WriteFails, Outcome
<1>7. ASSUME NEW c \in Callers, ReadAnswer(c) PROVE LoginSpent'
  <2>1. CASE pc' = [pc EXCEPT ![c] = "writing"]
             /\ UNCHANGED <<abandoned, inFlight, force, cred, latest, reply, outcome>>
    <3>1. \A w \in Callers : pc'[w] \in Spending =>
            pc[w] \in Spending /\ (pc'[w] = "answered" => pc[w] = "answered")
      BY <1>7, <2>1 DEF ReadAnswer, TypeOK, Spending
    <3> QED
      BY <1>7, <2>1, <3>1, NothingSpent DEF ReadAnswer
  <2>2. CASE RejectRefresh(c, ErrorOf(reply[c].kind))
    <3>1. ErrorOf(reply[c].kind) \in Outcome
      BY DEF ErrorOf, Outcome
    <3> QED
      BY <1>7, <2>2, <3>1, SpendingOver DEF ReadAnswer
  <2> QED
    BY <1>7, <2>1, <2>2 DEF ReadAnswer
<1>8. ASSUME NEW c \in Callers, Write(c) PROVE LoginSpent'
  <2>1. \A w \in Callers : pc'[w] \notin Spending
    BY <1>8, Alone DEF Write, TypeOK, Refreshing, Spending
  <2> QED
    BY <2>1 DEF LoginSpent
<1>9. ASSUME NEW c \in Callers, Reload(c) PROVE LoginSpent'
  BY <1>9, SpendingOver DEF Reload, envVars
<1>10. ASSUME NEW p \in Procs, Crash(p) PROVE LoginSpent'
  <2>1. \A w \in Callers : pc'[w] \in Spending =>
          /\ pc'[w] = pc[w]
          /\ cred'[w] = cred[w] /\ latest'[w] = latest[w] /\ reply'[w] = reply[w]
    BY <1>10 DEF Crash, End, Spending
  <2> QED
    BY <1>10, <2>1, NothingSpent DEF Crash
<1>11. CASE UNCHANGED <<disk, pc, cred, latest, reply>> /\ live' \subseteq live
  BY <1>11, NothingSpent
<1>12. CASE Age \/ Deny \/ \E r \in live : Revoke(r)
  BY <1>11, <1>12 DEF Age, Deny, Revoke, callVars
<1>13. CASE Login
  <2>1. /\ disk'.login = logins + 1 /\ live' = live \cup {issued + 1}
        /\ UNCHANGED <<pc, cred, latest, reply>>
    BY <1>13 DEF Login, callVars
  <2> SUFFICES ASSUME NEW c \in Callers, pc[c] \in Spending
               PROVE  /\ disk'.login > latest[c].login
                      /\ latest[c].refresh # issued + 1
    BY <2>1 DEF LoginSpent
  <2>2. latest[c].login \in Nat /\ latest[c].refresh \in Nat \cup {NoToken}
    BY DEF TypeOK, Document, Token
  <2>3. latest[c].login <= logins /\ (latest[c].refresh # NoToken => latest[c].refresh <= issued)
    BY AroundIs DEF LoginsTold
  <2>4. issued \in Nat /\ logins \in Nat /\ NoToken \notin Nat
    BY NoneAssumption DEF TypeOK
  <2> QED
    BY <2>1, <2>2, <2>3, <2>4
<1>14. ASSUME NEW c \in Callers, ReadFails(c) PROVE LoginSpent'
  <2>1. CASE pc[c] = "idle" /\ End({c}, "failed") /\ UNCHANGED <<inFlight, latest, reply>>
    <3>1. UNCHANGED pc /\ \A w \in Callers : pc[w] \in Spending => cred'[w] = cred[w]
      BY <2>1 DEF End, TypeOK, Spending
    <3> QED
      BY <1>14, <2>1, <3>1, NothingSpent DEF ReadFails, envVars
  <2>2. CASE RejectRefresh(c, "transient")
    BY <1>14, <2>2, SpendingOver DEF ReadFails, Outcome, envVars
  <2> QED
    BY <1>14, <2>1, <2>2 DEF ReadFails
<1> QED
  BY <1>1, <1>2, <1>3, <1>4, <1>5, <1>6, <1>7, <1>8, <1>9, <1>10, <1>11, <1>12, <1>13, <1>14
     DEF Next, Proceed, vars, envVars, callVars

LEMMA LoginSpentInitial == Init => LoginSpent
BY DEF Init, LoginSpent, Spending

-----------------------------------------------------------------------------

\* A call that fails for good performed the refresh, and had no token to spend or
\* one that was rejected.
LEMMA FailedForGood ==
  ASSUME TypeOK, OneProcess, OneRefreshPerProcess, [Next]_vars,
         NEW c \in Callers, pc[c] \in Refreshing,
         outcome[c] # "permanent", outcome'[c] = "permanent"
  PROVE  \/ pc[c] = "reread" /\ disk.refresh = NoToken
         \/ pc[c] = "answered" /\ reply[c].kind = "rejected"
<1>1. ASSUME NEW d \in Callers, Load(d) PROVE FALSE
  BY <1>1 DEF Load, TypeOK
<1>2. ASSUME NEW d \in Callers, UsageAnswer(d) PROVE FALSE
  BY <1>2 DEF UsageAnswer, End, TypeOK
<1>3. ASSUME NEW d \in Callers, NEW o \in Outcome, RejectRefresh(d, o) PROVE o = "permanent"
  BY <1>3 DEF RejectRefresh, End
<1>4. ASSUME NEW d \in Callers, Reread(d)
      PROVE  pc[c] = "reread" /\ disk.refresh = NoToken
  <2>1. pc[d] = "reread" /\ c = d
    BY <1>4, Alone DEF Reread, Refreshing
  <2>2. CASE UNCHANGED outcome
    BY <2>2
  <2> QED
    BY <1>4, <2>1, <2>2 DEF Reread, ResolveRefresh
<1>5. ASSUME NEW d \in Callers, ReadAnswer(d)
      PROVE  pc[c] = "answered" /\ reply[c].kind = "rejected"
  <2>1. pc[d] = "answered" /\ c = d
    BY <1>5, Alone DEF ReadAnswer, Refreshing
  <2>2. RejectRefresh(d, ErrorOf(reply[d].kind))
    BY <1>5 DEF ReadAnswer
  <2>3. ErrorOf(reply[d].kind) \in Outcome
    BY DEF ErrorOf, Outcome
  <2>4. ErrorOf(reply[d].kind) = "permanent"
    BY <1>3, <2>2, <2>3
  <2> QED
    BY <2>1, <2>4 DEF ErrorOf
<1>6. ASSUME NEW d \in Callers, NetworkFails(d) \/ WriteFails(d) PROVE FALSE
  BY <1>3, <1>6 DEF NetworkFails, WriteFails, Outcome
<1>7. ASSUME NEW d \in Callers, ReadFails(d) PROVE FALSE
  <2>1. CASE End({d}, "failed")
    BY <2>1 DEF End
  <2>2. CASE RejectRefresh(d, "transient")
    BY <1>3, <2>2 DEF Outcome
  <2> QED
    BY <1>7, <2>1, <2>2 DEF ReadFails
<1>8. ASSUME NEW p \in Procs, Crash(p) PROVE FALSE
  BY <1>8 DEF Crash, End
<1>9. ~UNCHANGED outcome
  OBVIOUS
<1>10. ASSUME NEW d \in Callers,
              RefreshDenied(d) \/ ProviderAnswers(d) \/ Write(d) \/ Reload(d)
       PROVE  FALSE
  BY <1>9, <1>10 DEF RefreshDenied, ProviderAnswers, Write, Reload, ResolveRefresh
<1>11. CASE Age \/ Deny \/ Login \/ (\E r \in live : Revoke(r)) \/ UNCHANGED vars
  BY <1>9, <1>11 DEF Age, Deny, Login, Revoke, vars, callVars
<1> QED
  BY <1>1, <1>2, <1>4, <1>5, <1>6, <1>7, <1>8, <1>10, <1>11 DEF Next, Proceed

\* With one process, nothing recovers a login whose refresh fails for good.
LEMMA NothingRecovers ==
  ASSUME TypeOK, OneProcess, OneRefreshPerProcess, LoginSpent,
         NEW c \in Callers, pc[c] \in Refreshing,
         \/ pc[c] = "reread" /\ disk.refresh = NoToken
         \/ pc[c] = "answered" /\ reply[c].kind = "rejected"
  PROVE  ~Recoverable(cred[c].login)
<1>1. \A w \in Callers : Holds(w) => reply[w].kind # "tokens"
  <2> SUFFICES ASSUME NEW w \in Callers, Holds(w) PROVE reply[w].kind # "tokens"
    OBVIOUS
  <2>1. w = c
    BY Alone DEF Holds, Refreshing
  <2> QED
    BY <2>1 DEF Holds
<1>2. CASE disk.refresh = NoToken
  <2>1. Token \subseteq Nat /\ live \subseteq Token
    BY DEF TypeOK, Token
  <2>2. disk.refresh \notin live
    BY <1>2, <2>1, NoneAssumption
  <2> QED
    BY <1>1, <2>2 DEF Recoverable
<1>3. CASE pc[c] = "answered" /\ reply[c].kind = "rejected"
  <2>1. /\ latest[c].login = cred[c].login /\ latest[c].refresh \notin live
        /\ disk = latest[c] \/ disk.login > latest[c].login
    BY <1>3 DEF LoginSpent, Spending
  <2>2. disk.login \in Nat /\ latest[c].login \in Nat
    BY DEF TypeOK, Document
  <2>3. ~(disk.login = cred[c].login /\ disk.refresh \in live)
    BY <2>1, <2>2
  <2> QED
    BY <1>1, <2>3 DEF Recoverable
<1> QED
  BY <1>2, <1>3

\* The calls of one process are told to log in anew only when it is true: no working
\* token of the login they used is in the file, or on its way to it.
THEOREM HopelessWhenPermanent ==
  ASSUME OneProcess
  PROVE  Spec => PermanentIsHopeless
<1>1. Init => /\ TypeOK /\ OneRefreshPerProcess /\ TokensAccounted
              /\ LoginsTold /\ LoginSpent
  BY TypeInitial, OneRefreshInitial, TokensInitial, LoginsInitial, LoginSpentInitial
<1>2. TypeOK /\ OneRefreshPerProcess /\ LoginSpent /\ [Next]_vars =>
        [\A c \in Callers :
           /\ pc[c] \in Refreshing /\ outcome[c] # "permanent" /\ outcome'[c] = "permanent"
           => ~Recoverable(cred[c].login)]_vars
  BY FailedForGood, NothingRecovers
<1> QED
  BY <1>1, <1>2, TypeInductive, OneRefreshInductive, TokensInductive, LoginsInductive,
     LoginSpentInductive, PTL DEF Spec, PermanentIsHopeless

-----------------------------------------------------------------------------
(* The agent of the process: Claude's code keeps the protocol.             *)

LEMMA SameDocument ==
  ASSUME NEW c \in Callers
  PROVE  RefreshedClaude(c) = Refreshed(c)
BY DEF RefreshedClaude, Refreshed

LEMMA SameEntry ==
  ASSUME NEW c \in Callers, NEW forced, ShareRefresh(c, forced)
  PROVE  EnterRefresh(c, forced)
BY DEF ShareRefresh, EnterRefresh

\* Each step of Claude's code is a step of Codex' code: its failures are those of
\* a read or of the network there.
LEMMA ClaudeStep == TypeOK /\ [ClaudeNext]_vars => [Next]_vars
<1> SUFFICES ASSUME TypeOK, ClaudeNext PROVE Next
  OBVIOUS
<1>1. ASSUME NEW c \in Callers, LoadClaude(c) PROVE Load(c)
  BY <1>1, SameEntry DEF LoadClaude, Load, ExpiresSoon, ShouldRefresh
<1>2. ASSUME NEW c \in Callers, ClaudeUsageAnswer(c) PROVE UsageAnswer(c)
  BY <1>2 DEF ClaudeUsageAnswer, UsageAnswer
<1>3. ASSUME NEW c \in Callers, ForceRefresh(c) PROVE RefreshDenied(c)
  BY <1>3, SameEntry DEF ForceRefresh, RefreshDenied
<1>4. ASSUME NEW c \in Callers, RereadClaude(c) PROVE Reread(c) \/ ReadFails(c)
  BY <1>4 DEF RereadClaude, Reread, ReadFails, MustRefresh, ExpiresSoon, ShouldRefresh
<1>5. ASSUME NEW c \in Callers, ReadClaudeAnswer(c) PROVE ReadAnswer(c) \/ NetworkFails(c)
  BY <1>5 DEF ReadClaudeAnswer, ReadAnswer, NetworkFails
<1>6. ASSUME NEW c \in Callers, WriteClaude(c) PROVE Write(c) \/ WriteFails(c)
  BY <1>6, SameDocument DEF WriteClaude, Write, WriteFails, envVars
<1>7. ASSUME NEW c \in Callers, ReloadClaude(c) PROVE Reload(c)
  BY <1>7 DEF ReloadClaude, Reload
<1>8. ASSUME NEW c \in Callers, ReadClaudeFails(c) PROVE ReadFails(c)
  BY <1>8 DEF ReadClaudeFails, ReadFails
<1> QED
  BY <1>1, <1>2, <1>3, <1>4, <1>5, <1>6, <1>7, <1>8 DEF ClaudeNext, ProceedClaude, Next, Proceed

LEMMA AgentStep == TypeOK /\ [AgentNext]_agentVars => [Next]_vars
BY ClaudeStep DEF AgentNext, agentVars

\* Whichever agent the process serves, it keeps the protocol.
THEOREM Refinement == AgentSpec => KeepsProtocol
<1>1. AgentInit => Init
  BY DEF AgentInit
<1> QED
  BY <1>1, TypeInitial, TypeInductive, AgentStep, PTL DEF AgentSpec, KeepsProtocol, Spec

\* So Claude's refreshes spend each token once, and do not lose the session, too.
THEOREM AgentSessionKept ==
  ASSUME OneProcess
  PROVE  AgentSpec => [](NeverSpentTwice /\ SessionNotLost)
BY Refinement, SpentOnce, SessionKept, PTL DEF KeepsProtocol

=============================================================================
