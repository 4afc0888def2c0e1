----------------------------- MODULE MCMpaStore ------------------------------
(* Instances of MpaStore for TLC: two requests of alice for one method, and *)
(* one of bob for another; alice, bob, and bob with other groups approve.   *)
EXTENDS MpaStore, TLC

ThreeActions == {"a1", "a2", "b1"}
MCRequestor  == [a \in Actions |-> IF a = "b1" THEN "bob" ELSE "alice"]
MCMethod     == [a \in Actions |-> IF a = "b1" THEN "write" ELSE "read"]
MCSize       == [a \in Actions |-> CASE a = "a1" -> 1 [] a = "a2" -> 2 [] OTHER -> 4]
TwoCallers   == {"alice", "bob"}
Callers      == {"alice", "bob", "bob2"}
MCUserOf     == [p \in Principals |-> IF p = "bob2" THEN "bob" ELSE p]
=============================================================================
