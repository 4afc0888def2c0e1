--------------------------- MODULE AuthorizedCall ---------------------------
(***************************************************************************)
(* One call of a user, from the interceptors of sanssh to the handler: the *)
(* client's own policy, the multi-party flow (--mpa), which stores the     *)
(* request on every target and waits for an approval before it makes the   *)
(* call, the proxy's check of every message for every target, and the      *)
(* target's check of every message.  Approvers, and a store that forgets,  *)
(* act at any time.                                                        *)
(*                                                                         *)
(* The caller sends message 1, and a client stream may send more; only     *)
(* message 1 is ever put to an approver.                                   *)
(***************************************************************************)
EXTENDS RpcAuth, FiniteSets

CONSTANTS
    Targets,
    Direct,      \* the target of a call that uses no proxy
    Calls,       \* the calls: a method, and whether it goes through the proxy
    MaxMsgs      \* bound: messages of a client stream

ASSUME CallAssumption ==
    /\ Direct \in Targets /\ MaxMsgs \in Nat \ {0}
    /\ \A c \in Calls : c.m \in Methods /\ c.proxied \in BOOLEAN

VARIABLES
    call, cfg,     \* the call; the flags of sanssh, and the policies of the servers
    pc, rcv,       \* the sender, and the receiver of a Chat
    id,            \* the MPA id in the call's metadata
    ready,         \* innerReady of the delayed stream is closed, or there is none
    sent, closed,  \* messages sent; CloseSend was called
    asked, ids, need,    \* targets still to answer, ids given, targets without approval
    passed, got,   \* per target: messages the proxy let through, messages received
    srv,           \* per target: the call is "open" or "ended"
    handled,       \* per target: messages its handler got
    store,         \* per target: its MPA store
    approvals      \* history: targets where the action was approved

userVars == <<call, cfg, pc, rcv, id, ready, sent, closed>>
mpaVars  == <<asked, ids, need>>
srvVars  == <<passed, got, srv, handled>>
hostVars == <<store, approvals>>
vars     == <<userVars, mpaVars, srvVars, hostVars>>

To        == IF call.proxied THEN Targets ELSE {Direct}
Streaming == Stub(call.m) # Invoke
MPA       == cfg.mpa /\ call.m \notin {<<"Mpa", "Store">>, <<"Mpa", "WaitForApproval">>}
Most      == IF Stub(call.m) \in {Upload, Chat} THEN MaxMsgs ELSE 1
Wanted    == Action(User, call.m, cfg.just, 1)
Held(t)   == Wanted \in DOMAIN store[t]
Nothing   == [a \in {} |-> {}]

Flags == [mpa : BOOLEAN, client : BOOLEAN, just : BOOLEAN, required : BOOLEAN,
          target : {"open", "approved"}, proxy : {"open", "approved"}]

\* An earlier run of the command may have left the action in the stores.
Init ==
    /\ call \in Calls /\ cfg \in Flags
    /\ call.proxied => ~cfg.client
    /\ ~call.proxied => cfg.proxy = "open"
    /\ store \in [Targets -> {Nothing, [a \in {Wanted} |-> {}], [a \in {Wanted} |-> {"approver"}]}]
    /\ \A t \in Targets \ To : store[t] = Nothing
    /\ approvals = {t \in Targets : Held(t) /\ store[t][Wanted] # {}}
    /\ pc = "begin" /\ rcv = "off" /\ id = NoId /\ ready = FALSE
    /\ sent = 0 /\ closed = FALSE
    /\ asked = {} /\ ids = {} /\ need = {}
    /\ passed = [t \in Targets |-> 0] /\ got = passed
    /\ srv = [t \in Targets |-> "open"] /\ handled = [t \in Targets |-> {}]

Goes(where) == pc' = where
Fails       == pc' = "failed"

----------------------------------------------------------------------------
(* What a server makes of a message *)

Md(mpaId, proxied) == [just |-> cfg.just, proxied |-> proxied, id |-> mpaId]
\* Run appends the identity of the proxy's peer to the metadata it passes on.
TargetPermits(t, method, k, mpaId) ==
    EvalTarget(cfg.target, cfg.required, store[t],
               IF call.proxied THEN NewRPCAuthInput(method, k, Md(mpaId, User), Proxy)
               ELSE NewRPCAuthInput(method, k, Md(mpaId, "none"), User))
ProxyPermits(t, method, k, mpaId) ==
    call.proxied => EvalProxy(cfg.proxy, cfg.required, store[t],
                              NewRPCAuthInput(method, k, Md(mpaId, "none"), User))
Permitted(t, method) == ProxyPermits(t, method, 0, NoId) /\ TargetPermits(t, method, 0, NoId)

----------------------------------------------------------------------------
(* The interceptors of sanssh, from the outermost *)

\* AuthorizeClient asks the client's policy about a unary call; a stream is opened without
\* being asked about, or put off until its first message (newStreamAfterFirstSend).
Begin ==
    /\ pc = "begin"
    /\ \/ cfg.client /\ ~Streaming /\ Fails
       \/ Goes(IF Streaming THEN "send" ELSE IF MPA THEN "store" ELSE "invoke")
    /\ rcv' = IF Stub(call.m) = Chat THEN "recv" ELSE rcv
    /\ ready' = (Streaming /\ ~MPA)
    /\ UNCHANGED <<call, cfg, id, sent, closed, mpaVars, srvVars, hostVars>>

\* wrappedClientStream.SendMsg takes the stream's Context, which waits for innerReady, and
\* asks the policy; delayedStartStream.SendMsg starts the flow with the first message.
SendMsg ==
    /\ pc = "send" /\ sent < Most
    /\ cfg.client => ready
    /\ \/ ready /\ sent' = sent + 1 /\ UNCHANGED pc
       \/ ~ready /\ Goes("store") /\ UNCHANGED sent
       \/ Fails /\ UNCHANGED sent
    /\ UNCHANGED <<call, cfg, rcv, id, ready, closed, mpaVars, srvVars, hostVars>>

CloseSend ==
    /\ pc = "send" /\ sent > 0 /\ ready
    /\ closed' = TRUE
    /\ Goes(IF Stub(call.m) = Chat THEN "done" ELSE "await")
    /\ UNCHANGED <<call, cfg, rcv, id, ready, sent, mpaVars, srvVars, hostVars>>

\* Chat's receiver waits for innerReady; then for what comes, up to the idle timeout.
RecvMsg ==
    /\ rcv = "recv" /\ ready
    /\ rcv' = "done"
    /\ UNCHANGED <<call, cfg, pc, id, ready, sent, closed, mpaVars, srvVars, hostVars>>

\* The store keeps the approvals of an action it has.
StoresAt(t) ==
    store' = IF Held(t) THEN store ELSE [store EXCEPT ![t] = [a \in {Wanted} |-> {}]]

\* createAndBlockOnSingleTargetMPA
StoreSingle ==
    /\ pc = "store" /\ ~call.proxied
    /\ \/ /\ Permitted(Direct, <<"Mpa", "Store">>) /\ StoresAt(Direct)
          /\ id' = Wanted
          /\ Goes(IF store'[Direct][Wanted] = {} THEN "wait" ELSE "invoke")
       \/ Fails /\ UNCHANGED <<id, store>>
    /\ UNCHANGED <<call, cfg, rcv, ready, sent, closed, mpaVars, srvVars, approvals>>

\* WaitForApproval returns when the action is approved; the timeout interceptor bounds it.
WaitSingle ==
    /\ pc = "wait"
    /\ \/ Held(Direct) /\ store[Direct][Wanted] # {} /\ Goes("invoke")
       \/ Fails
    /\ UNCHANGED <<call, cfg, rcv, id, ready, sent, closed, mpaVars, srvVars, hostVars>>

\* createAndBlockOnProxiedMPA: StoreOneMany
StoreOneMany ==
    /\ pc = "store" /\ call.proxied
    /\ \/ Goes("storing") /\ asked' = To
       \/ Fails /\ UNCHANGED asked
    /\ UNCHANGED <<call, cfg, rcv, id, ready, sent, closed, ids, need, srvVars, hostVars>>

\* A target that fails is told of, and counts as one with a blank id and no approver.
StoreAnswer(t) ==
    /\ pc = "storing" /\ t \in asked
    /\ asked' = asked \ {t}
    /\ \/ /\ Permitted(t, <<"Mpa", "Store">>) /\ StoresAt(t)
          /\ ids' = ids \cup {Wanted}
          /\ need' = IF store'[t][Wanted] = {} THEN need \cup {t} ELSE need
       \/ ids' = ids \cup {Blank} /\ need' = need \cup {t} /\ UNCHANGED store
    /\ UNCHANGED <<userVars, srvVars, approvals>>

\* More than one id ends the command; otherwise WaitForApprovalOneMany, or the call.
Stored ==
    /\ pc = "storing" /\ asked = {}
    /\ IF Cardinality(ids) > 1 THEN Fails /\ UNCHANGED <<id, asked>>
       ELSE /\ id' = CHOOSE i \in ids : TRUE
            /\ IF need = {} THEN Goes("invoke") /\ UNCHANGED asked
               ELSE \/ Goes("waiting") /\ asked' = To
                    \/ Fails /\ UNCHANGED asked
    /\ UNCHANGED <<call, cfg, rcv, ready, sent, closed, ids, need, srvVars, hostVars>>

\* A target approves, or its error is told and the flow goes on all the same.
WaitAnswer(t) ==
    /\ pc = "waiting" /\ t \in asked
    /\ asked' = asked \ {t}
    /\ UNCHANGED <<userVars, ids, need, srvVars, hostVars>>

Waited ==
    /\ pc = "waiting" /\ asked = {}
    /\ Goes("invoke")
    /\ UNCHANGED <<call, cfg, rcv, id, ready, sent, closed, mpaVars, srvVars, hostVars>>

\* The invoker, or the streamer and the first SendMsg on the stream it opened.
OpenedUnready == UNCHANGED ready
Opened == ready' = Streaming
Invoked ==
    /\ pc = "invoke"
    /\ \/ /\ sent' = 1 /\ Opened /\ closed' = ~Streaming
          /\ Goes(IF Streaming THEN "send" ELSE "await")
       \/ Fails /\ UNCHANGED <<sent, ready, closed>>
    /\ UNCHANGED <<call, cfg, rcv, id, mpaVars, srvVars, hostVars>>

\* The answers of the targets are there, or the time is up.
Await ==
    /\ pc = "await"
    /\ \/ (\A t \in To : srv[t] = "ended") /\ Goes("done")
       \/ Fails
    /\ UNCHANGED <<call, cfg, rcv, id, ready, sent, closed, mpaVars, srvVars, hostVars>>

Caller ==
    \/ Begin \/ SendMsg \/ CloseSend \/ StoreSingle \/ WaitSingle \/ StoreOneMany
    \/ (\E t \in Targets : StoreAnswer(t) \/ WaitAnswer(t)) \/ Stored \/ Waited \/ Invoked
    \/ Await

----------------------------------------------------------------------------
(* The proxy and the targets *)

\* TargetStream.Run asks about every message before it passes it on.
ProxyEvals(t) ==
    /\ call.proxied /\ srv[t] = "open" /\ passed[t] < sent
    /\ IF ProxyPermits(t, call.m, passed[t] + 1, id)
       THEN passed' = [passed EXCEPT ![t] = @ + 1] /\ UNCHANGED srv
       ELSE srv' = [srv EXCEPT ![t] = "ended"] /\ UNCHANGED passed
    /\ UNCHANGED <<userVars, mpaVars, got, handled, hostVars>>

Arrived(t) == IF call.proxied THEN passed[t] ELSE sent
Gets(t) == /\ got' = [got EXCEPT ![t] = @ + 1]
           /\ handled' = [handled EXCEPT ![t] = @ \cup {got[t] + 1}]

\* The unary interceptor; the handler's answer ends the call.
Authorize(t) ==
    /\ Handler(call.m) = Intercepted /\ srv[t] = "open" /\ got[t] < Arrived(t)
    /\ srv' = [srv EXCEPT ![t] = "ended"]
    /\ IF TargetPermits(t, call.m, 1, id) THEN Gets(t) ELSE UNCHANGED <<got, handled>>
    /\ UNCHANGED <<userVars, mpaVars, passed, hostVars>>

\* wrappedStream.RecvMsg: a message that is not permitted is an error to the handler.
wrappedStreamPermitsFirst(t, k) == k > 1 \/ TargetPermits(t, call.m, k, id)
wrappedStreamPermits(t, k) == TargetPermits(t, call.m, k, id)
AuthorizeStream(t) ==
    /\ Handler(call.m) # Intercepted /\ srv[t] = "open" /\ got[t] < Arrived(t)
    /\ IF wrappedStreamPermits(t, got[t] + 1) THEN Gets(t) /\ UNCHANGED srv
       ELSE srv' = [srv EXCEPT ![t] = "ended"] /\ UNCHANGED <<got, handled>>
    /\ UNCHANGED <<userVars, mpaVars, passed, hostVars>>

\* A stream's handler returns, or the caller went away.
HandlerEnds(t) ==
    /\ t \in To /\ srv[t] = "open" /\ (got[t] > 0 \/ pc = "failed")
    /\ srv' = [srv EXCEPT ![t] = "ended"]
    /\ UNCHANGED <<userVars, mpaVars, passed, got, handled, hostVars>>

Serve(t) == ProxyEvals(t) \/ Authorize(t) \/ AuthorizeStream(t) \/ HandlerEnds(t)

\* Somebody else approves the action; the store evicts, expires or clears it.
Approve(t) ==
    /\ Held(t) /\ store[t][Wanted] = {}
    /\ store' = [store EXCEPT ![t][Wanted] = {"approver"}]
    /\ approvals' = approvals \cup {t}
    /\ UNCHANGED <<userVars, mpaVars, srvVars>>
Forget(t) ==
    /\ Held(t)
    /\ store' = [store EXCEPT ![t] = Nothing]
    /\ UNCHANGED <<userVars, mpaVars, srvVars, approvals>>

Next == Caller \/ RecvMsg \/ \E t \in Targets : Serve(t) \/ Approve(t) \/ Forget(t)

\* The timeouts end what the servers do not.
Fairness ==
    WF_vars(Caller) /\ WF_vars(RecvMsg) /\ \A t \in Targets : WF_vars(Serve(t))
Spec == Init /\ [][Next]_vars /\ Fairness

----------------------------------------------------------------------------
(* Properties *)

\* What reaches a handler was permitted by everyone on its way: there is a justification
\* if one is required; where the target's or the proxy's policy asks for an approver, it is
\* the message that was put to the approvers, and somebody approved it on this very target;
\* and a call that carries an id brings no other message than the stored one.
PermittedOnly ==
    \A t \in Targets : \A k \in handled[t] :
        /\ cfg.required => cfg.just
        /\ "approved" \in {cfg.target, cfg.proxy} /\ call.m[1] # "Mpa" =>
              k = 1 /\ t \in approvals
        /\ id # NoId => k = 1 /\ id = Wanted

\* The receiver of a Chat waits for innerReady, and the send that would close it failed.
ReceiverStuck == rcv = "recv" /\ ~ready /\ pc = "failed"
\* With a client policy and --mpa the first SendMsg of a stream takes the Context of a
\* stream that only this SendMsg would open.
SenderStuck == pc = "send" /\ ~ready /\ cfg.client /\ MPA
\* A call ends, whether or not an approver comes, the stores keep the action and the servers
\* permit it; except for the two waits on innerReady that nothing ends.
FlowEnds == <>(\/ pc \in {"done", "failed"} /\ rcv # "recv"
               \/ ReceiverStuck \/ SenderStuck)

----------------------------------------------------------------------------
(* The inductive invariant of the proofs *)

Pcs == {"begin", "send", "store", "wait", "storing", "waiting", "invoke", "await", "done",
        "failed"}
Stores == {Nothing, [a \in {Wanted} |-> {}], [a \in {Wanted} |-> {"approver"}]}

TypeOK ==
    /\ call \in Calls /\ cfg \in Flags /\ (~call.proxied => cfg.proxy = "open")
    /\ pc \in Pcs /\ ready \in BOOLEAN /\ sent \in Nat
    /\ id \in {NoId, Wanted, Blank} /\ ids \subseteq {Wanted, Blank}
    /\ asked \subseteq Targets
    /\ passed \in [Targets -> Nat] /\ got \in [Targets -> Nat]
    /\ srv \in [Targets -> {"open", "ended"}] /\ handled \in [Targets -> SUBSET Nat]
    /\ store \in [Targets -> Stores]

\* Nothing is sent before the multi-party flow is over, so the id does not change under
\* messages that are on their way; when every target has answered there is an id.
Unsent ==
    \/ pc \in {"begin", "store", "wait", "storing", "waiting", "invoke"}
    \/ pc = "send" /\ ~ready
FlowInv ==
    /\ Unsent => sent = 0
    /\ pc = "storing" => asked # {} \/ ids # {}

\* What a store says of approvers is in the history.
ApprovalsInv == \A t \in Targets : Held(t) /\ store[t][Wanted] # {} => t \in approvals

\* Nothing arrives that was not sent and, with a proxy, let through; a unary call that is
\* still open has not been handled; what a handler got is among what arrived.
ArrivalInv ==
    \A t \in Targets :
        /\ passed[t] <= sent /\ got[t] <= Arrived(t)
        /\ Handler(call.m) = Intercepted /\ srv[t] = "open" => got[t] = 0
        /\ handled[t] \subseteq 1..got[t]

\* What the proxy let through satisfied its policy, then: the approval may be forgotten by
\* the time the target looks.
PassedInv ==
    \A t \in Targets : \A k \in 1..passed[t] :
        cfg.proxy = "approved" /\ call.m[1] # "Mpa" => k = 1 /\ t \in approvals

IInv == TypeOK /\ FlowInv /\ ApprovalsInv /\ ArrivalInv /\ PassedInv /\ PermittedOnly
=============================================================================
