-------------------------- MODULE ClaudeCredentials --------------------------
(***************************************************************************)
(* The OAuth credential refresh of getClaudeUsage (agents/claude-usage.ts).*)
(*                                                                         *)
(* The calls, the file, the provider and the environment are those of      *)
(* CredentialRefresh.  The code is another: the expiry is a field of the   *)
(* document, which every refresh sets and a document may lack (then its    *)
(* token never comes within the window), an answer must carry a lifetime,  *)
(* and no error says that a new login is needed, so that every failed      *)
(* refresh counts as one worth repeating.                                  *)
(***************************************************************************)
EXTENDS CredentialRefresh

\* shouldRefreshCredentials: `expiresAt` is there and within the window.
ExpiresSoon(doc) == doc.access <= staleUpTo

\* refreshClaudeCredentials: one promise for each file, whoever asks meanwhile.
ShareRefresh(c, forced) ==
  LET p    == ProcOf[c]
      free == inFlight[p] = NoCaller
  IN /\ force' = [force EXCEPT ![c] = forced]
     /\ inFlight' = IF free THEN [inFlight EXCEPT ![p] = c] ELSE inFlight
     /\ pc' = [pc EXCEPT ![c] = IF free THEN "reread" ELSE "joined"]

\* getClaudeUsage reads the file and refreshes a token that expires soon.
LoadClaude(c) ==
  /\ pc[c] = "idle"
  /\ cred' = [cred EXCEPT ![c] = disk]
  /\ outcome' = [outcome EXCEPT ![c] = "none"]
  /\ IF ExpiresSoon(disk)
       THEN ShareRefresh(c, FALSE)
       ELSE pc' = [pc EXCEPT ![c] = "requesting"] /\ UNCHANGED <<inFlight, force>>
  /\ UNCHANGED <<disk, envVars, latest, reply>>

\* readClaudeCredentials throws: no file, no JSON, no access token in it.
ReadClaudeFails(c) ==
  /\ \/ /\ pc[c] = "idle"
        /\ End({c}, "failed")
        /\ UNCHANGED <<inFlight, latest, reply>>
     \/ /\ pc[c] \in {"reread", "reloading"}
        /\ RejectRefresh(c, "transient")
  /\ UNCHANGED <<disk, envVars>>

\* A 401 is answered by a forced refresh once; then, as any other error and an
\* answer that cannot be normalized, it ends the call.
ClaudeUsageAnswer(c) ==
  /\ pc[c] \in {"requesting", "retrying"}
  /\ \/ cred[c].access > deniedUpTo /\ End({c}, "ok")
     \/ End({c}, "failed")
     \/ /\ pc[c] = "requesting" /\ cred[c].access <= deniedUpTo
        /\ pc' = [pc EXCEPT ![c] = "denied"]
        /\ UNCHANGED <<force, cred, outcome>>
  /\ UNCHANGED <<disk, envVars, inFlight, latest, reply>>

ForceRefresh(c) ==
  /\ pc[c] = "denied"
  /\ ShareRefresh(c, TRUE)
  /\ UNCHANGED <<disk, envVars, cred, latest, reply, outcome>>

\* Fault: a token that another process has refreshed is refreshed again.
MustRefreshAlways(c) == force[c] \/ ExpiresSoon(disk)

\* Whether the document re-read is still the one to refresh.
MustRefresh(c) ==
  /\ disk.access = cred[c].access
  /\ force[c] \/ ExpiresSoon(disk)

\* performClaudeCredentialRefresh, up to its POST.
RereadClaude(c) ==
  /\ pc[c] = "reread"
  /\ \/ ~MustRefresh(c) /\ ResolveRefresh(c, disk)
     \/ MustRefresh(c) /\ disk.refresh = NoToken /\ RejectRefresh(c, "transient")
     \/ /\ MustRefresh(c) /\ disk.refresh # NoToken
        /\ latest' = [latest EXCEPT ![c] = disk]
        /\ pc' = [pc EXCEPT ![c] = "posting"]
        /\ UNCHANGED <<inFlight, force, cred, reply, outcome>>
  /\ UNCHANGED <<disk, envVars>>

\* normalizeRefreshResponse takes what has an access token and a lifetime.
ReadClaudeAnswer(c) ==
  /\ pc[c] = "answered"
  /\ IF reply[c].kind = "tokens"
       THEN /\ pc' = [pc EXCEPT ![c] = "writing"]
            /\ UNCHANGED <<abandoned, inFlight, force, cred, latest, reply, outcome>>
       ELSE /\ abandoned' = abandoned \cup Dropped({c})
            /\ RejectRefresh(c, "transient")
  /\ UNCHANGED <<disk, issued, live, staleUpTo, deniedUpTo, logins>>

\* The document re-read, with the new tokens, and the old refresh token if the
\* answer has none.
RefreshedClaude(c) ==
  LET kept == latest[c].refresh
      next == reply[c].refresh
  IN [latest[c] EXCEPT !.access = reply[c].access,
                       !.refresh = IF next # NoToken THEN next ELSE kept]

\* writeClaudeCredentials renames the temporary file over the other, or fails.
WriteClaude(c) ==
  /\ pc[c] = "writing"
  /\ \/ /\ disk' = RefreshedClaude(c)
        /\ pc' = [pc EXCEPT ![c] = "reloading"]
        /\ reply' = [reply EXCEPT ![c] = NoReply]
        /\ UNCHANGED <<abandoned, inFlight, force, cred, latest, outcome>>
     \/ /\ abandoned' = abandoned \cup Dropped({c})
        /\ RejectRefresh(c, "transient")
        /\ UNCHANGED disk
  /\ UNCHANGED <<issued, live, staleUpTo, deniedUpTo, logins>>

ReloadClaude(c) ==
  /\ pc[c] = "reloading"
  /\ ResolveRefresh(c, disk)
  /\ UNCHANGED <<disk, envVars>>

-----------------------------------------------------------------------------

ProceedClaude(c) ==
  \/ ClaudeUsageAnswer(c)
  \/ ForceRefresh(c)
  \/ RereadClaude(c)
  \/ ProviderAnswers(c)
  \/ ReadClaudeAnswer(c)
  \/ WriteClaude(c)
  \/ ReloadClaude(c)

ClaudeNext ==
  \/ \E c \in Callers : LoadClaude(c) \/ ProceedClaude(c) \/ ReadClaudeFails(c) \/ NetworkFails(c)
  \/ \E p \in Procs : Crash(p)
  \/ \E r \in live : Revoke(r)
  \/ Age
  \/ Deny
  \/ Login

ClaudeSpec == Init /\ [][ClaudeNext]_vars

\* Every await settles, as in CredentialRefresh.
ClaudeFairSpec == ClaudeSpec /\ \A c \in Callers : WF_vars(ProceedClaude(c))

=============================================================================
