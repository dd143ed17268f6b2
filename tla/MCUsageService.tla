---------------------------- MODULE MCUsageService ----------------------------
(* A small instance of UsageService. *)
EXTENDS UsageService
=============================================================================
