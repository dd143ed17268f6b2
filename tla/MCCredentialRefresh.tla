------------------------- MODULE MCCredentialRefresh -------------------------
(* Small instances of CredentialRefresh: who calls, and from which process. *)
EXTENDS CredentialRefresh, TLC

CONSTANTS c1, c2, p1, p2

OneProcess == [c \in {c1, c2} |-> p1]

ProcessEach == c1 :> p1 @@ c2 :> p2

=============================================================================
