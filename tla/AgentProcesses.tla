---------------------------- MODULE AgentProcesses ----------------------------
(***************************************************************************)
(* The two places that spawn a CLI of an agent: CliRunner.run() and        *)
(* getAgyUsage(), with the gauges and the gate behind it.  They share      *)
(* nothing, so a behaviour is one of the former or one of the latter.      *)
(***************************************************************************)
EXTENDS AgentUsage

VARIABLES
  spawner,   \* "CliRunner" or "getAgyUsage"
  exitPolicy, cliChild, cliExitCode, cliPipes, lastLine, timeoutHandle, killHandle,
  resultExitHandle, cliListening, terminated, killedByTimeout, killedByAbortSignal,
  abortReason, resultCompleted, cliVerdict

Cli == INSTANCE CliRunner WITH child <- cliChild, exitCode <- cliExitCode, pipes <- cliPipes,
                               listening <- cliListening, verdict <- cliVerdict

cliVars == <<exitPolicy, cliChild, cliExitCode, cliPipes, lastLine, timeoutHandle, killHandle,
             resultExitHandle, cliListening, terminated, killedByTimeout, killedByAbortSignal,
             abortReason, resultCompleted, cliVerdict>>

spawnVars == <<spawner, cliVars, agyVars>>

CliStep(A) == spawner = "CliRunner" /\ A /\ UNCHANGED <<spawner, agyVars>>

AgyStep(A) == spawner = "getAgyUsage" /\ usage.agent = "agy" /\ A /\ UNCHANGED <<spawner, cliVars>>

SpawnInit ==
  \/ spawner = "CliRunner" /\ Cli!Init /\ UsageInit /\ usage = Nothing /\ ~listening
  \/ spawner = "getAgyUsage" /\ UsageInit /\ Cli!Init /\ exitPolicy = "trust-result" /\ ~cliListening

SpawnNext == CliStep(Cli!Next) \/ AgyStep(AgyNext)

\* The fairness of CliRunner and of AgyCommand.
SpawnSpec ==
  /\ SpawnInit /\ [][SpawnNext]_spawnVars
  /\ WF_spawnVars(CliStep(Cli!Spawned \/ Cli!SpawnFails))
  /\ WF_spawnVars(CliStep(Cli!TimeoutFires)) /\ WF_spawnVars(CliStep(Cli!ResultExitFires))
  /\ WF_spawnVars(CliStep(Cli!KillFires)) /\ WF_spawnVars(CliStep(Cli!Close))
  /\ WF_spawnVars(AgyStep(Spawned \/ SpawnFails))
  /\ WF_spawnVars(AgyStep(TimeoutFires)) /\ WF_spawnVars(AgyStep(KillFires))

-----------------------------------------------------------------------------
(* Properties of either.                                                   *)

\* A run the runner terminated succeeds only on a complete result (protocol.ts:102-107).
TerminatedRunNeedsResult == Cli!TerminatedRunNeedsResult

\* A run of the CLI ends, unless who inherited the pipes of its child holds it back.
RunSettles == spawner = "CliRunner" => Cli!RunSettles

\* The usage command ends, whatever its child does (agy-usage.ts:181-183).
CallSettles == spawner = "getAgyUsage" /\ usage.agent = "agy" => AgySettles

=============================================================================
