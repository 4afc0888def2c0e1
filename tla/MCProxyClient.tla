---------------------------- MODULE MCProxyClient ----------------------------
(* Instances of ProxyClient for TLC. *)
EXTENDS ProxyClient

CONSTANTS s1, s2, s3
=============================================================================
