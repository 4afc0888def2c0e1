---------------------------- MODULE MCProxyServer ----------------------------
(* Instances of ProxyServer for TLC.  Methods are named after what streams. *)
EXTENDS ProxyServer, TLC

CONSTANTS id1, id2, p1, p2, m1

UnaryMethod  == {"unary"}
Bidi         == {"bidi"}
UnaryAndBidi == {"unary", "bidi"}
AllMethods   == {"unary", "upload", "download", "bidi"}
Uploads      == {"upload", "bidi"}
Downloads    == {"download", "bidi"}
None         == {}
OnePermitted == {<<p1, m1>>}
AllPermitted == Pairs \X Msgs
IdSymmetry   == Permutations({id1, id2})
TwoSymmetry  == {f @@ g : f \in Permutations({id1, id2}), g \in Permutations({p1, p2})}
=============================================================================
