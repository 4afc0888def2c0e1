------------------------------- MODULE RpcAuth -------------------------------
(***************************************************************************)
(* What an authorizer decides about one message: the input made of it, the *)
(* hooks in the order the servers' main functions install them, each of    *)
(* which may change the input or refuse, and the policy.                   *)
(***************************************************************************)
EXTENDS Naturals, Sequences, ServiceDescs

User  == "user"
Proxy == "proxy"
Pass(input)   == [ok |-> TRUE, input |-> input]
Refuse(input) == [ok |-> FALSE, input |-> input]

\* An MPA action; its id is a hash of it, so the action stands for the id.
Action(user, method, just, msg) ==
    [user |-> user, method |-> method, just |-> just, msg |-> msg]
NoId  == Action("no id", <<>>, FALSE, 0)       \* no id in the metadata
Blank == Action("blank", <<>>, FALSE, 0)       \* the empty id

\* md: the metadata of the call.  The peer comes from the connection.
NewRPCAuthInput(method, msg, md, peer) ==
    [method |-> method, msg |-> msg, md |-> md, peer |-> peer, principal |-> "none",
     approvers |-> {}]

PeerPrincipalFromCertHook(input) == Pass([input EXCEPT !.principal = input.peer])

\* Behind HookIf: only where the server was started with a justification required.
JustificationHook(required, input) ==
    IF required /\ ~input.md.just THEN Refuse(input) ELSE Pass(input)

\* proxiedidentity.FromContext, or the principal of the peer.
callerIdentity(input) == IF input.md.proxied # "none" THEN input.md.proxied ELSE input.principal

ActionMatchesInput(action, input) ==
    /\ callerIdentity(input) # "none"
    /\ action = Action(callerIdentity(input), input.method, input.md.just, input.msg)

\* stored: what the target's store holds, a function from actions to approvers.
Approved(stored, input) ==
    IF ActionMatchesInput(input.md.id, input)
    THEN Pass([input EXCEPT !.approvers = @ \cup stored[input.md.id]]) ELSE Refuse(input)
ServerMPAAuthzHook(stored, input) ==
    IF input.md.id = NoId THEN Pass(input)
    ELSE IF input.md.id \notin DOMAIN stored THEN Refuse(input)
    ELSE IF input.md.id.method # input.method THEN Pass(input)
    ELSE Approved(stored, input)
ProxyMPAAuthzHook(stored, input) ==
    IF input.md.id = NoId THEN Pass(input)
    ELSE IF input.md.id \notin DOMAIN stored THEN Refuse(input)
    ELSE Approved(stored, input)

\* The policies of an instance: one that permits everything, and one that asks for an
\* approver except for the calls of the MPA service.
Permits(policy, input) ==
    policy = "open" \/ input.method[1] = "Mpa" \/ input.approvers \ {callerIdentity(input)} # {}

\* Eval: the hooks one after the other, each given the input of the one before it and
\* each able to refuse, and then the policy.  The MPA hook is that of a target or of a proxy.
Known(required, input) == PeerPrincipalFromCertHook(JustificationHook(required, input).input).input
EvalAt(policy, required, input, hooked) ==
    JustificationHook(required, input).ok /\ hooked.ok /\ Permits(policy, hooked.input)
EvalTarget(policy, required, stored, input) ==
    EvalAt(policy, required, input, ServerMPAAuthzHook(stored, Known(required, input)))
EvalProxy(policy, required, stored, input) ==
    EvalAt(policy, required, input, ProxyMPAAuthzHook(stored, Known(required, input)))
=============================================================================
