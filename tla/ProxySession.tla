---------------------------- MODULE ProxySession -----------------------------
(***************************************************************************)
(* What the proxy promises about each target stream, without goroutines,   *)
(* channels or contexts: the client is told of the stream, may then hand   *)
(* it requests, and the target receives permitted ones in that order until *)
(* the client is told that the stream is closed.  Once the RPC as a whole  *)
(* is torn down the client may miss the announcement.                      *)
(***************************************************************************)
EXTENDS Naturals, Sequences

CONSTANTS Ids, Msgs

VARIABLES allowed,   \* what the policy lets through to the stream's target
          phase,     \* "idle", "open" or "closed", as the client sees it
          accepted,  \* requests the proxy took for the stream
          got,       \* requests its target received
          torn       \* the RPC is being torn down

vars == <<allowed, phase, accepted, got, torn>>

Init ==
    /\ allowed = [id \in Ids |-> {}]
    /\ phase = [id \in Ids |-> "idle"]
    /\ accepted = [id \in Ids |-> <<>>] /\ got = [id \in Ids |-> <<>>]
    /\ torn = FALSE

\* The stream gets its target and method, which fixes what the policy allows.
Register(id, S) ==
    /\ phase[id] = "idle" /\ got[id] = <<>>
    /\ allowed' = [allowed EXCEPT ![id] = S]
    /\ UNCHANGED <<phase, accepted, got, torn>>

Announce(id) ==
    /\ phase[id] = "idle" /\ phase' = [phase EXCEPT ![id] = "open"]
    /\ UNCHANGED <<allowed, accepted, got, torn>>

Accept(id, m) ==
    /\ phase[id] # "idle"
    /\ accepted' = [accepted EXCEPT ![id] = Append(@, m)]
    /\ UNCHANGED <<allowed, phase, got, torn>>

Deliver(id) ==
    /\ phase[id] = "open" /\ Len(got[id]) < Len(accepted[id])
    /\ LET m == accepted[id][Len(got[id]) + 1]
       IN  m \in allowed[id] /\ got' = [got EXCEPT ![id] = Append(@, m)]
    /\ UNCHANGED <<allowed, phase, accepted, torn>>

Close(id) ==
    /\ phase[id] = "open" \/ (torn /\ phase[id] = "idle")
    /\ phase' = [phase EXCEPT ![id] = "closed"]
    /\ UNCHANGED <<allowed, accepted, got, torn>>

Tear == ~torn /\ torn' = TRUE /\ UNCHANGED <<allowed, phase, accepted, got>>

Next ==
    \/ Tear
    \/ \E id \in Ids : \/ Announce(id) \/ Deliver(id) \/ Close(id)
                       \/ \E S \in SUBSET Msgs : Register(id, S)
                       \/ \E m \in Msgs : Accept(id, m)

Spec == Init /\ [][Next]_vars
=============================================================================
