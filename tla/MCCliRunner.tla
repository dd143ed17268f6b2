----------------------------- MODULE MCCliRunner -----------------------------
(* Instances of CliRunner, which is finite by itself. *)
EXTENDS CliRunner
=============================================================================
