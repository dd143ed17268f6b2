--------------------------- MODULE UsageCredentials ---------------------------
(***************************************************************************)
(* The credentials of the agent that a usage proxy serves: USAGE_AGENT     *)
(* chooses getCodexUsage or getClaudeUsage, which keep the same protocol   *)
(* with one token endpoint each.                                           *)
(***************************************************************************)
EXTENDS ClaudeCredentials

VARIABLE agent   \* USAGE_AGENT, fixed when the process starts

agentVars == <<agent, vars>>

\* defaultAgentUsageLoader.
ProceedAs(c) == IF agent = "codex" THEN Proceed(c) ELSE ProceedClaude(c)

AgentInit == agent \in {"codex", "claude"} /\ Init

AgentNext ==
  /\ \/ agent = "codex" /\ Next
     \/ agent = "claude" /\ ClaudeNext
  /\ UNCHANGED agent

AgentSpec == AgentInit /\ [][AgentNext]_agentVars

AgentFairSpec == AgentSpec /\ \A c \in Callers : WF_agentVars(ProceedAs(c) /\ UNCHANGED agent)

\* Claude's code keeps the protocol that Codex' code keeps: every step of it is a
\* step of CredentialRefresh, so what is proved of the one holds of the other.
KeepsProtocol == Spec

=============================================================================
