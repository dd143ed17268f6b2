------------------------- MODULE MCUsageCredentials --------------------------
(* A small instance of UsageCredentials: two calls of one process. *)
EXTENDS UsageCredentials

CONSTANTS c1, c2, p1

OneProcess == [c \in {c1, c2} |-> p1]

=============================================================================
