---------------------------- MODULE MCPromClient -----------------------------
(* A small instance of PromClient: "jobs" is "jobs_total" as a counter. *)
EXTENDS PromClient, TLC

Total  == "jobs" :> "jobs_total" @@ "jobs_total" :> "jobs_total"
Limits == "jobs" :> 1 @@ "jobs_total" :> 2

=============================================================================
