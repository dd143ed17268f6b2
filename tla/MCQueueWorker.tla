---------------------------- MODULE MCQueueWorker ----------------------------
(* Small instances of QueueWorker: which tasks have retries. *)
EXTENDS QueueWorker, TLC

CONSTANTS t1, t2, t3, t4

SomeRetries == t1 :> 0 @@ t2 :> 1 @@ t3 :> 2 @@ t4 :> 0

=============================================================================
