---------------------------- MODULE MCIsolation ------------------------------
(* A small instance of Isolation: one request for everything, one for little, *)
(* of which a persistent one has a role that the first has not.               *)
EXTENDS Isolation, TLC

All == [id |-> "all", persistent |-> TRUE,
        dirs |-> "skills" :> <<"a">> @@ "agents" :> <<"a">> @@ "roles" :> <<"a", "c">>,
        given |-> {"prompt", "settings"}]

Little == [id |-> "little", persistent |-> TRUE,
           dirs |-> "skills" :> <<"b">> @@ "agents" :> <<>> @@ "roles" :> <<"b">>, given |-> {}]

AskedFor == {All, Little, [Little EXCEPT !.persistent = FALSE, !.dirs["roles"] = <<>>]}

AnyCalls == Permutations(Calls)

=============================================================================
