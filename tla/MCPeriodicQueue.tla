--------------------------- MODULE MCPeriodicQueue ---------------------------
(* Small instances of PeriodicQueue: which tasks have retries. *)
EXTENDS PeriodicQueue, TLC

CONSTANTS t1, t2

SomeRetries == t1 :> 0 @@ t2 :> 2

=============================================================================
