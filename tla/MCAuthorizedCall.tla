-------------------------- MODULE MCAuthorizedCall ---------------------------
(* Every method called directly, and a unary, a server-streaming and a bidi  *)
(* one through the proxy on two targets.                                    *)
EXTENDS AuthorizedCall

AllCalls ==
    {[m |-> m, proxied |-> FALSE] : m \in Methods} \cup
    {[m |-> m, proxied |-> TRUE] :
        m \in {<<"Exec", "Run">>, <<"LocalFile", "Read">>, <<"LocalFile", "Stat">>}}
=============================================================================
