--------------------------- MODULE MCClientCommands ---------------------------
(* Instances of ClientCommands for TLC. *)
EXTENDS ClientCommands

AllCommands == DOMAIN Commands
===============================================================================
