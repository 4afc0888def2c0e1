----------------------- MODULE AuthorizedCall_proofs -----------------------
(***************************************************************************)
(* Proof that nothing reaches a handler that was not permitted by everyone *)
(* on its way, for any set of targets, any calls and streams of any        *)
(* length.  What one evaluation establishes comes first, then one lemma    *)
(* per group of steps, then the theorem.                                   *)
(***************************************************************************)
EXTENDS AuthorizedCall, TLAPS

---------------------------------------------------------------------------
(* What an evaluation establishes *)

LEMMA IdsDiffer == NoId # Wanted /\ Blank # Wanted /\ NoId # Blank
BY DEF NoId, Blank, Wanted, Action, User

\* A store holds nothing but the action of this call.
LEMMA StoreHolds ==
    ASSUME TypeOK, NEW t \in Targets
    PROVE  DOMAIN store[t] \subseteq {Wanted}
<1>1. store[t] \in Stores
  BY DEF TypeOK
<1> QED BY <1>1 DEF Stores, Nothing

\* The input as the hooks after PeerPrincipalFromCertHook see it.
LEMMA KnownInput ==
    ASSUME NEW method, NEW msg, NEW md, NEW peer, NEW required
    PROVE  LET in == NewRPCAuthInput(method, msg, md, peer)
               kn == Known(required, in)
           IN  /\ in.md = md
               /\ kn = [method |-> method, msg |-> msg, md |-> md, peer |-> peer,
                        principal |-> peer, approvers |-> {}]
BY DEF Known, JustificationHook, PeerPrincipalFromCertHook, Pass, Refuse, NewRPCAuthInput

\* A record of an approver for this very message is the only thing that the hooks add.
LEMMA ApprovedInput ==
    ASSUME NEW stored, NEW input, Approved(stored, input).ok
    PROVE  /\ input.md.id.msg = input.msg
           /\ Approved(stored, input).input =
                 [input EXCEPT !.approvers = @ \cup stored[input.md.id]]
BY DEF Approved, ActionMatchesInput, Action, Pass, Refuse

\* What passes the hooks and the policy, once the id of the call, if any, is known to be
\* the action of this call.
LEMMA Established ==
    ASSUME NEW policy, NEW stored, NEW method, NEW msg, NEW md, NEW peer, NEW hooked,
           NEW kn, kn = [method |-> method, msg |-> msg, md |-> md, peer |-> peer,
                         principal |-> peer, approvers |-> {}],
           \/ md.id = NoId /\ hooked = Pass(kn)
           \/ md.id # NoId /\ hooked = Approved(stored, kn),
           hooked.ok, Permits(policy, hooked.input), policy = "approved", method[1] # "Mpa"
    PROVE  md.id # NoId /\ stored[md.id] # {}
<1>1. CASE md.id = NoId
  <2>1. hooked.input.approvers = {} /\ hooked.input.method = method
    BY <1>1 DEF Pass
  <2> QED BY <2>1 DEF Permits
<1>2. CASE md.id # NoId
  <2>1. hooked.input = [kn EXCEPT !.approvers = @ \cup stored[md.id]]
    BY <1>2, ApprovedInput
  <2>2. hooked.input.approvers = {} \cup stored[md.id] /\ hooked.input.method = method
    BY <2>1
  <2> QED BY <1>2, <2>2 DEF Permits
<1> QED BY <1>1, <1>2

\* Eval of the target, whichever way the call came.
LEMMA TargetChecks ==
    ASSUME TypeOK, NEW t \in Targets, NEW k \in Nat, TargetPermits(t, call.m, k, id)
    PROVE  /\ cfg.required => cfg.just
           /\ cfg.target = "approved" /\ call.m[1] # "Mpa" =>
                 k = 1 /\ Held(t) /\ store[t][Wanted] # {}
           /\ id # NoId => k = 1 /\ id = Wanted
<1>1. PICK md, peer :
         /\ md.just = cfg.just /\ md.id = id
         /\ EvalTarget(cfg.target, cfg.required, store[t], NewRPCAuthInput(call.m, k, md, peer))
  <2>1. CASE call.proxied
    BY <2>1 DEF TargetPermits, Md
  <2>2. CASE ~call.proxied
    BY <2>2 DEF TargetPermits, Md
  <2> QED BY <2>1, <2>2
<1>2. PICK kn : /\ kn = [method |-> call.m, msg |-> k, md |-> md, peer |-> peer,
                         principal |-> peer, approvers |-> {}]
                /\ kn = Known(cfg.required, NewRPCAuthInput(call.m, k, md, peer))
  BY KnownInput
<1>3. PICK hooked : /\ hooked = ServerMPAAuthzHook(store[t], kn)
                    /\ hooked.ok /\ Permits(cfg.target, hooked.input)
  BY <1>1, <1>2 DEF EvalTarget, EvalAt
<1>4. cfg.required => cfg.just
  <2>1. JustificationHook(cfg.required, NewRPCAuthInput(call.m, k, md, peer)).ok
    BY <1>1 DEF EvalTarget, EvalAt
  <2> QED BY <1>1, <2>1 DEF JustificationHook, NewRPCAuthInput, Refuse
<1>5. kn.md = md /\ kn.method = call.m /\ kn.msg = k
  BY <1>2
<1>6. ASSUME id # NoId PROVE id = Wanted /\ Held(t) /\ k = 1 /\ hooked = Approved(store[t], kn)
  <2>1. id \in DOMAIN store[t]
    BY <1>1, <1>3, <1>5, <1>6 DEF ServerMPAAuthzHook, Refuse
  <2>2. id = Wanted /\ Held(t)
    BY <2>1, StoreHolds DEF Held
  <2>3. id.method = call.m /\ id.msg = 1
    BY <2>2 DEF Wanted, Action
  <2>4. hooked = Approved(store[t], kn)
    BY <1>1, <1>3, <1>5, <1>6, <2>1, <2>3 DEF ServerMPAAuthzHook
  <2>5. Approved(store[t], kn).ok
    BY <1>3, <2>4
  <2>6. kn.md.id.msg = kn.msg
    BY <2>5, ApprovedInput
  <2> QED BY <1>1, <1>5, <2>2, <2>3, <2>4, <2>6
<1>7. id = NoId => hooked = Pass(kn)
  BY <1>1, <1>3, <1>5 DEF ServerMPAAuthzHook
<1>8. cfg.target = "approved" /\ call.m[1] # "Mpa" => id # NoId /\ store[t][id] # {}
  BY <1>1, <1>2, <1>3, <1>6, <1>7, Established
<1> QED BY <1>4, <1>6, <1>8

\* Eval of the proxy; a call that does not go through it is not its affair.
LEMMA ProxyChecks ==
    ASSUME TypeOK, NEW t \in Targets, NEW k \in Nat, call.proxied, ProxyPermits(t, call.m, k, id)
    PROVE  /\ cfg.required => cfg.just
           /\ cfg.proxy = "approved" /\ call.m[1] # "Mpa" =>
                 k = 1 /\ Held(t) /\ store[t][Wanted] # {}
           /\ id # NoId => k = 1 /\ id = Wanted
<1>1. PICK md :
         /\ md.just = cfg.just /\ md.id = id
         /\ EvalProxy(cfg.proxy, cfg.required, store[t], NewRPCAuthInput(call.m, k, md, User))
  BY DEF ProxyPermits, Md
<1>2. PICK kn : /\ kn = [method |-> call.m, msg |-> k, md |-> md, peer |-> User,
                         principal |-> User, approvers |-> {}]
                /\ kn = Known(cfg.required, NewRPCAuthInput(call.m, k, md, User))
  BY KnownInput
<1>3. PICK hooked : /\ hooked = ProxyMPAAuthzHook(store[t], kn)
                    /\ hooked.ok /\ Permits(cfg.proxy, hooked.input)
  BY <1>1, <1>2 DEF EvalProxy, EvalAt
<1>4. cfg.required => cfg.just
  <2>1. JustificationHook(cfg.required, NewRPCAuthInput(call.m, k, md, User)).ok
    BY <1>1 DEF EvalProxy, EvalAt
  <2> QED BY <1>1, <2>1 DEF JustificationHook, NewRPCAuthInput, Refuse
<1>5. kn.md = md /\ kn.method = call.m /\ kn.msg = k
  BY <1>2
<1>6. ASSUME id # NoId PROVE id = Wanted /\ Held(t) /\ k = 1 /\ hooked = Approved(store[t], kn)
  <2>1. id \in DOMAIN store[t]
    BY <1>1, <1>3, <1>5, <1>6 DEF ProxyMPAAuthzHook, Refuse
  <2>2. id = Wanted /\ Held(t)
    BY <2>1, StoreHolds DEF Held
  <2>3. id.msg = 1
    BY <2>2 DEF Wanted, Action
  <2>4. hooked = Approved(store[t], kn)
    BY <1>1, <1>3, <1>5, <1>6, <2>1 DEF ProxyMPAAuthzHook
  <2>5. Approved(store[t], kn).ok
    BY <1>3, <2>4
  <2>6. kn.md.id.msg = kn.msg
    BY <2>5, ApprovedInput
  <2> QED BY <1>1, <1>5, <2>2, <2>3, <2>4, <2>6
<1>7. id = NoId => hooked = Pass(kn)
  BY <1>1, <1>3, <1>5 DEF ProxyMPAAuthzHook
<1>8. cfg.proxy = "approved" /\ call.m[1] # "Mpa" => id # NoId /\ store[t][id] # {}
  BY <1>1, <1>2, <1>3, <1>6, <1>7, Established
<1> QED BY <1>4, <1>6, <1>8

---------------------------------------------------------------------------
(* Steps of the caller, of the approvers and of the stores *)

\* A step that leaves the servers alone: it may send, and it may change the id while nothing
\* is on its way.
LEMMA ServersAlone ==
    ASSUME IInv, TypeOK', FlowInv', ApprovalsInv', UNCHANGED <<call, cfg, srvVars>>,
           sent' >= sent, id' = id \/ sent = 0, approvals \subseteq approvals'
    PROVE  IInv'
<1> USE DEF IInv, srvVars
<1>1. ArrivalInv'
  BY DEF ArrivalInv, Arrived, TypeOK
<1>2. PassedInv'
  BY DEF PassedInv
<1>3. ASSUME sent = 0 PROVE \A t \in Targets : handled[t] = {}
  <2> SUFFICES ASSUME NEW t \in Targets PROVE handled[t] = {}
    OBVIOUS
  <2>1. got[t] <= 0 /\ got[t] \in Nat /\ handled[t] \subseteq 1..got[t]
    BY <1>3 DEF ArrivalInv, Arrived, TypeOK
  <2> QED BY <2>1
<1>4. PermittedOnly'
  <2>1. CASE id' = id
    BY <2>1 DEF PermittedOnly, Wanted
  <2>2. CASE sent = 0
    BY <1>3, <2>2 DEF PermittedOnly
  <2> QED BY <2>1, <2>2
<1> QED BY <1>1, <1>2, <1>4

\* The steps that touch neither the stores nor the id.
LEMMA SenderStep ==
    ASSUME IInv, Begin \/ SendMsg \/ CloseSend \/ RecvMsg \/ WaitSingle \/ StoreOneMany
                 \/ Waited \/ Invoked \/ Await \/ \E t \in Targets : WaitAnswer(t)
    PROVE  IInv'
<1> USE CallAssumption DEF IInv, Goes, Fails
<1>1. UNCHANGED <<call, cfg, id, srvVars, hostVars>>
  BY DEF Begin, SendMsg, CloseSend, RecvMsg, WaitSingle, StoreOneMany, Waited, Invoked, Await,
         WaitAnswer, userVars
<1>2. /\ pc' \in Pcs /\ ready' \in BOOLEAN /\ sent' \in Nat /\ sent' >= sent
      /\ asked' \subseteq Targets /\ ids' = ids /\ FlowInv'
  <2> USE DEF TypeOK, FlowInv, Unsent, Pcs
  <2>1. CASE Begin
    BY <2>1 DEF Begin, mpaVars
  <2>2. CASE SendMsg
    BY <2>2 DEF SendMsg, mpaVars
  <2>3. CASE CloseSend \/ RecvMsg
    BY <2>3 DEF CloseSend, RecvMsg, mpaVars
  <2>4. CASE WaitSingle \/ Waited \/ Await
    BY <2>4 DEF WaitSingle, Waited, Await, mpaVars
  <2>5. CASE StoreOneMany
    BY <2>5 DEF StoreOneMany, To
  <2>6. CASE Invoked
    <3>1. Streaming \in BOOLEAN
      BY DEF Streaming
    <3>2. ready' \in BOOLEAN
      BY <2>6, <3>1 DEF Invoked, Opened
    <3>3. pc' = "send" => ready'
      BY <2>6 DEF Invoked, Opened
    <3> QED BY <2>6, <3>2, <3>3 DEF Invoked, mpaVars
  <2>7. ASSUME NEW t \in Targets, WaitAnswer(t)
        PROVE  /\ UNCHANGED <<pc, ready, sent, ids>> /\ asked' \subseteq Targets
               /\ pc = "waiting"
    BY <2>7 DEF WaitAnswer, userVars
  <2> QED BY <2>1, <2>2, <2>3, <2>4, <2>5, <2>6, <2>7
<1>3. Wanted' = Wanted
  BY <1>1 DEF Wanted
<1>4. TypeOK'
  BY <1>1, <1>2, <1>3 DEF TypeOK, srvVars, hostVars, Stores, Nothing
<1>5. ApprovalsInv'
  BY <1>1, <1>3 DEF ApprovalsInv, Held, hostVars
<1> QED BY <1>1, <1>2, <1>4, <1>5, ServersAlone DEF hostVars

\* The store of a target after it was asked to keep the action.
LEMMA StoresStep ==
    ASSUME TypeOK, ApprovalsInv, NEW t \in Targets, StoresAt(t),
           UNCHANGED <<call, cfg, approvals>>
    PROVE  store' \in [Targets -> Stores] /\ ApprovalsInv'
<1>1. Wanted' = Wanted
  BY DEF Wanted
<1>2. CASE Held(t)
  BY <1>1, <1>2 DEF StoresAt, TypeOK, ApprovalsInv, Held
<1>3. CASE ~Held(t)
  <2>1. store' = [store EXCEPT ![t] = [a \in {Wanted} |-> {}]]
    BY <1>3 DEF StoresAt
  <2>2. store' \in [Targets -> Stores]
    BY <2>1 DEF TypeOK, Stores
  <2>3. store'[t][Wanted] = {} /\ \A u \in Targets \ {t} : store'[u] = store[u]
    BY <2>1 DEF TypeOK
  <2> QED BY <1>1, <2>2, <2>3 DEF ApprovalsInv, Held
<1> QED BY <1>2, <1>3

LEMMA StoreSingleStep ==
    ASSUME IInv, StoreSingle
    PROVE  IInv'
<1> USE CallAssumption DEF IInv, Goes, Fails
<1>1. /\ UNCHANGED <<call, cfg, ready, sent, mpaVars, srvVars, approvals>>
      /\ id' \in {id, Wanted} /\ pc' \in {"wait", "invoke", "failed"} /\ sent = 0
  BY DEF StoreSingle, FlowInv, Unsent
<1>2. Wanted' = Wanted
  BY <1>1 DEF Wanted
<1>3. store' \in [Targets -> Stores] /\ ApprovalsInv'
  <2>1. CASE StoresAt(Direct)
    BY <1>1, <2>1, StoresStep
  <2>2. CASE store' = store
    BY <1>1, <1>2, <2>2 DEF TypeOK, ApprovalsInv, Held
  <2> QED BY <2>1, <2>2 DEF StoreSingle
<1>4. TypeOK'
  BY <1>1, <1>2, <1>3 DEF TypeOK, Pcs, Stores, Nothing, srvVars, mpaVars
<1>5. FlowInv'
  BY <1>1 DEF FlowInv, Unsent
<1> QED BY <1>1, <1>3, <1>4, <1>5, ServersAlone DEF TypeOK

LEMMA StoreAnswerStep ==
    ASSUME IInv, NEW t \in Targets, StoreAnswer(t)
    PROVE  IInv'
<1> USE DEF IInv
<1>1. UNCHANGED <<call, cfg, pc, id, ready, sent, srvVars, approvals>>
  BY DEF StoreAnswer, userVars
<1>2. Wanted' = Wanted
  BY <1>1 DEF Wanted
<1>3. store' \in [Targets -> Stores] /\ ApprovalsInv'
  <2>1. CASE StoresAt(t)
    BY <1>1, <2>1, StoresStep
  <2>2. CASE store' = store
    BY <1>1, <1>2, <2>2 DEF TypeOK, ApprovalsInv, Held
  <2> QED BY <2>1, <2>2 DEF StoreAnswer
<1>4. asked' \subseteq Targets /\ ids' \subseteq {Wanted, Blank} /\ ids' # {}
  BY DEF StoreAnswer, TypeOK
<1>5. TypeOK'
  BY <1>1, <1>2, <1>3, <1>4 DEF TypeOK, Stores, Nothing, srvVars
<1>6. FlowInv'
  BY <1>1, <1>4 DEF FlowInv, Unsent
<1> QED BY <1>1, <1>3, <1>5, <1>6, ServersAlone DEF TypeOK

\* The one id that is left when all have answered is the action's or the blank one.
LEMMA StoredStep ==
    ASSUME IInv, Stored
    PROVE  IInv'
<1> USE CallAssumption DEF IInv, Goes, Fails
<1>1. /\ UNCHANGED <<call, cfg, ready, sent, ids, srvVars, hostVars>>
      /\ pc' \in {"failed", "invoke", "waiting"} /\ asked' \in {asked, To} /\ sent = 0
  BY DEF Stored, FlowInv, Unsent
<1>2. Wanted' = Wanted
  BY <1>1 DEF Wanted
<1>3. id' \in {id, Wanted, Blank}
  <2>1. ids # {}
    BY DEF Stored, FlowInv
  <2>2. (CHOOSE i \in ids : TRUE) \in ids
    BY <2>1
  <2> QED BY <2>2 DEF Stored, TypeOK
<1>4. TypeOK'
  BY <1>1, <1>2, <1>3 DEF TypeOK, Pcs, Stores, Nothing, srvVars, hostVars, To
<1>5. FlowInv'
  BY <1>1 DEF FlowInv, Unsent
<1>6. ApprovalsInv'
  BY <1>1, <1>2 DEF ApprovalsInv, Held, hostVars
<1> QED BY <1>1, <1>4, <1>5, <1>6, ServersAlone DEF TypeOK, hostVars

LEMMA ApproverStep ==
    ASSUME IInv, NEW t \in Targets, Approve(t) \/ Forget(t)
    PROVE  IInv'
<1> USE DEF IInv
<1>1. UNCHANGED <<userVars, mpaVars, srvVars>> /\ approvals \subseteq approvals'
  BY DEF Approve, Forget
<1>2. Wanted' = Wanted
  BY <1>1 DEF Wanted, userVars
<1>3. store' \in [Targets -> Stores] /\ ApprovalsInv'
  <2>1. CASE Approve(t)
    <3>1. store[t] \in Stores /\ Wanted \in DOMAIN store[t]
      BY <2>1 DEF Approve, Held, TypeOK
    <3>2. DOMAIN store[t] = {Wanted}
      BY <3>1 DEF Stores, Nothing
    <3>3. [store[t] EXCEPT ![Wanted] = {"approver"}] = [a \in {Wanted} |-> {"approver"}]
      BY <3>2
    <3>4. store' = [store EXCEPT ![t] = [a \in {Wanted} |-> {"approver"}]]
      BY <2>1, <3>3 DEF Approve
    <3>5. store' \in [Targets -> Stores]
      BY <3>4 DEF TypeOK, Stores
    <3>6. t \in approvals' /\ \A u \in Targets \ {t} : store'[u] = store[u]
      BY <2>1, <3>4 DEF Approve, TypeOK
    <3> QED BY <1>1, <1>2, <3>5, <3>6 DEF ApprovalsInv, Held
  <2>2. CASE Forget(t)
    <3>1. store' = [store EXCEPT ![t] = Nothing]
      BY <2>2 DEF Forget
    <3>2. store' \in [Targets -> Stores]
      BY <3>1 DEF TypeOK, Stores
    <3>3. store'[t] = Nothing /\ \A u \in Targets \ {t} : store'[u] = store[u]
      BY <3>1 DEF TypeOK
    <3>4. Wanted \notin DOMAIN store'[t]
      BY <3>3 DEF Nothing
    <3> QED BY <1>1, <1>2, <3>2, <3>3, <3>4 DEF ApprovalsInv, Held
  <2> QED BY <2>1, <2>2
<1>4. TypeOK'
  BY <1>1, <1>2, <1>3 DEF TypeOK, Stores, Nothing, userVars, mpaVars, srvVars
<1>5. FlowInv'
  BY <1>1 DEF FlowInv, Unsent, userVars, mpaVars
<1> QED BY <1>1, <1>3, <1>4, <1>5, ServersAlone DEF TypeOK, userVars

---------------------------------------------------------------------------
(* Steps of the proxy and the targets *)

\* A message that passed both checks is what PermittedOnly says of it.
LEMMA GetsStep ==
    ASSUME IInv, NEW t \in Targets, got[t] < Arrived(t), Gets(t),
           TargetPermits(t, call.m, got[t] + 1, id),
           srv' \in [Targets -> {"open", "ended"}],
           \A u \in Targets \ {t} : srv'[u] = srv[u],
           Handler(call.m) = Intercepted => srv'[t] = "ended",
           UNCHANGED <<userVars, mpaVars, passed, hostVars>>
    PROVE  IInv'
<1> USE DEF IInv
<1> DEFINE k == got[t] + 1
<1>0. k \in Nat /\ Arrived(t) \in Nat /\ k <= Arrived(t)
  BY DEF TypeOK, Arrived
<1>1. /\ Wanted' = Wanted /\ Arrived(t)' = Arrived(t)
      /\ UNCHANGED <<call, cfg, pc, id, ready, sent, asked, ids, passed, store, approvals>>
  BY DEF Wanted, Arrived, userVars, mpaVars, hostVars
<1>2. /\ got' \in [Targets -> Nat] /\ handled' \in [Targets -> SUBSET Nat]
      /\ got'[t] = k /\ handled'[t] = handled[t] \cup {k}
      /\ \A u \in Targets \ {t} : got'[u] = got[u] /\ handled'[u] = handled[u]
  BY <1>0 DEF Gets, TypeOK
<1>3. TypeOK'
  BY <1>1, <1>2 DEF TypeOK, Stores, Nothing
<1>4. FlowInv' /\ ApprovalsInv' /\ PassedInv'
  BY <1>1 DEF FlowInv, Unsent, ApprovalsInv, Held, PassedInv
<1>5. ArrivalInv'
  <2> SUFFICES ASSUME NEW u \in Targets
               PROVE  /\ passed'[u] <= sent' /\ got'[u] <= Arrived(u)'
                      /\ Handler(call.m)' = Intercepted /\ srv'[u] = "open" => got'[u] = 0
                      /\ handled'[u] \subseteq 1..got'[u]
    BY DEF ArrivalInv
  <2>1. CASE u = t
    <3>1. handled[t] \subseteq 1..got[t] /\ got[t] \in Nat
      BY DEF ArrivalInv, TypeOK
    <3>2. handled'[t] \subseteq 1..got'[t]
      BY <1>2, <3>1
    <3> QED BY <1>0, <1>1, <1>2, <2>1, <3>2 DEF ArrivalInv
  <2>2. CASE u # t
    BY <1>1, <1>2, <2>2 DEF ArrivalInv, Arrived
  <2> QED BY <2>1, <2>2
<1>6. PermittedOnly'
  <2>1. /\ cfg.required => cfg.just
        /\ cfg.target = "approved" /\ call.m[1] # "Mpa" =>
              k = 1 /\ Held(t) /\ store[t][Wanted] # {}
        /\ id # NoId => k = 1 /\ id = Wanted
    BY <1>0, TargetChecks
  <2>2. cfg.target = "approved" /\ call.m[1] # "Mpa" => k = 1 /\ t \in approvals
    BY <2>1 DEF ApprovalsInv
  <2>3. cfg.proxy = "approved" /\ call.m[1] # "Mpa" => k = 1 /\ t \in approvals
    <3>1. CASE call.proxied
      <4>1. k \in 1..passed[t]
        BY <1>0, <3>1 DEF Arrived, TypeOK
      <4> QED BY <4>1 DEF PassedInv
    <3>2. CASE ~call.proxied
      BY <3>2 DEF TypeOK
    <3> QED BY <3>1, <3>2
  <2> HIDE DEF k
  <2>4. ASSUME NEW u \in Targets, NEW j \in handled'[u], ~(u = t /\ j = k) PROVE j \in handled[u]
    BY <1>2, <2>4
  <2> QED BY <1>1, <2>1, <2>2, <2>3, <2>4 DEF PermittedOnly
<1> QED BY <1>3, <1>4, <1>5, <1>6

\* A call that ends without its handler getting anything more.
LEMMA EndsStep ==
    ASSUME IInv, NEW t \in Targets, srv' = [srv EXCEPT ![t] = "ended"],
           UNCHANGED <<userVars, mpaVars, passed, got, handled, hostVars>>
    PROVE  IInv'
<1> USE DEF IInv, userVars, mpaVars, hostVars
<1>1. Wanted' = Wanted
  BY DEF Wanted
<1>2. TypeOK'
  BY <1>1 DEF TypeOK, Stores, Nothing
<1>3. FlowInv' /\ ApprovalsInv' /\ PassedInv'
  BY <1>1 DEF FlowInv, Unsent, ApprovalsInv, Held, PassedInv
<1>4. ArrivalInv'
  BY DEF ArrivalInv, Arrived, TypeOK
<1>5. PermittedOnly'
  BY <1>1 DEF PermittedOnly
<1> QED BY <1>2, <1>3, <1>4, <1>5

LEMMA ProxyStep ==
    ASSUME IInv, NEW t \in Targets, ProxyEvals(t)
    PROVE  IInv'
<1> USE DEF IInv
<1> DEFINE k == passed[t] + 1
<1>1. CASE ProxyPermits(t, call.m, k, id)
  <2>1. /\ passed' = [passed EXCEPT ![t] = k] /\ call.proxied /\ k \in Nat /\ k <= sent
        /\ UNCHANGED <<userVars, mpaVars, got, srv, handled, hostVars>>
    BY <1>1 DEF ProxyEvals, TypeOK
  <2>2. passed' \in [Targets -> Nat] /\ passed'[t] = k /\ passed[t] \in Nat
    BY <2>1 DEF TypeOK
  <2>3. \A u \in Targets \ {t} : passed'[u] = passed[u]
    BY <2>1 DEF TypeOK
  <2>4. Wanted' = Wanted
    BY <2>1 DEF Wanted, userVars
  <2>5. TypeOK'
    BY <2>1, <2>2, <2>4 DEF TypeOK, Stores, Nothing, userVars, mpaVars, hostVars
  <2>6. FlowInv' /\ ApprovalsInv' /\ PermittedOnly'
    BY <2>1, <2>4 DEF FlowInv, Unsent, ApprovalsInv, Held, PermittedOnly, userVars, mpaVars,
                      hostVars
  <2>7. ArrivalInv'
    <3> SUFFICES ASSUME NEW u \in Targets
                 PROVE  passed'[u] <= sent' /\ got'[u] <= Arrived(u)'
      BY <2>1 DEF ArrivalInv, userVars
    <3>1. CASE u = t
      BY <2>1, <2>2, <3>1 DEF ArrivalInv, Arrived, TypeOK, userVars
    <3>2. CASE u # t
      BY <2>1, <2>3, <3>2 DEF ArrivalInv, Arrived, userVars
    <3> QED BY <3>1, <3>2
  <2>8. PassedInv'
    <3>1. cfg.proxy = "approved" /\ call.m[1] # "Mpa" =>
             k = 1 /\ Held(t) /\ store[t][Wanted] # {}
      BY <1>1, <2>1, ProxyChecks
    <3>2. cfg.proxy = "approved" /\ call.m[1] # "Mpa" => k = 1 /\ t \in approvals
      BY <3>1 DEF ApprovalsInv
    <3> SUFFICES ASSUME NEW u \in Targets, NEW j \in 1..passed'[u], cfg.proxy = "approved",
                        call.m[1] # "Mpa"
                 PROVE  j = 1 /\ u \in approvals
      BY <2>1 DEF PassedInv, userVars, hostVars
    <3>3. CASE u = t
      BY <2>2, <3>2, <3>3
    <3>4. CASE u # t
      BY <2>3, <3>4 DEF PassedInv
    <3> QED BY <3>3, <3>4
  <2> QED BY <2>5, <2>6, <2>7, <2>8
<1>2. CASE ~ProxyPermits(t, call.m, k, id)
  BY <1>2, EndsStep DEF ProxyEvals
<1> QED BY <1>1, <1>2

LEMMA TargetStep ==
    ASSUME IInv, NEW t \in Targets, Authorize(t) \/ AuthorizeStream(t) \/ HandlerEnds(t)
    PROVE  IInv'
<1>1. CASE Authorize(t)
  <2>1. got[t] + 1 = 1
    BY <1>1 DEF Authorize, IInv, ArrivalInv
  <2>2. CASE TargetPermits(t, call.m, 1, id)
    BY <1>1, <2>1, <2>2, GetsStep DEF Authorize, IInv, TypeOK
  <2>3. CASE ~TargetPermits(t, call.m, 1, id)
    BY <1>1, <2>3, EndsStep DEF Authorize
  <2> QED BY <2>2, <2>3
<1>2. CASE AuthorizeStream(t)
  <2>1. CASE TargetPermits(t, call.m, got[t] + 1, id)
    BY <1>2, <2>1, GetsStep DEF AuthorizeStream, wrappedStreamPermits, IInv, TypeOK
  <2>2. CASE ~TargetPermits(t, call.m, got[t] + 1, id)
    BY <1>2, <2>2, EndsStep DEF AuthorizeStream, wrappedStreamPermits
  <2> QED BY <2>1, <2>2
<1>3. CASE HandlerEnds(t)
  BY <1>3, EndsStep DEF HandlerEnds
<1> QED BY <1>1, <1>2, <1>3

---------------------------------------------------------------------------
(* The theorems *)

\* The inductive invariant holds in every reachable state.
THEOREM Invariance == Spec => []IInv
<1>1. Init => IInv
  <2> SUFFICES ASSUME Init PROVE IInv
    OBVIOUS
  <2> USE CallAssumption DEF Init
  <2>1. TypeOK
    BY DEF TypeOK, Pcs, Stores
  <2>2. FlowInv /\ ApprovalsInv
    BY DEF FlowInv, Unsent, ApprovalsInv
  <2>3. ArrivalInv
    BY DEF ArrivalInv, Arrived
  <2>4. PassedInv /\ PermittedOnly
    BY DEF PassedInv, PermittedOnly
  <2> QED BY <2>1, <2>2, <2>3, <2>4 DEF IInv
<1>2. IInv /\ [Next]_vars => IInv'
  <2> SUFFICES ASSUME IInv, [Next]_vars PROVE IInv'
    OBVIOUS
  <2>1. CASE Caller
    BY <2>1, SenderStep, StoreSingleStep, StoreAnswerStep, StoredStep DEF Caller
  <2>2. CASE RecvMsg
    BY <2>2, SenderStep
  <2>3. ASSUME NEW t \in Targets, Serve(t) PROVE IInv'
    BY <2>3, ProxyStep, TargetStep DEF Serve
  <2>4. ASSUME NEW t \in Targets, Approve(t) \/ Forget(t) PROVE IInv'
    BY <2>4, ApproverStep
  <2>5. CASE UNCHANGED vars
    <3>1. TypeOK' /\ FlowInv' /\ ApprovalsInv'
      BY <2>5 DEF IInv, TypeOK, FlowInv, Unsent, ApprovalsInv, Held, Wanted, Stores, Nothing,
                  vars, userVars, mpaVars, srvVars, hostVars
    <3> QED BY <2>5, <3>1, ServersAlone DEF IInv, TypeOK, vars, userVars, hostVars
  <2> QED BY <2>1, <2>2, <2>3, <2>4, <2>5 DEF Next
<1> QED BY <1>1, <1>2, PTL DEF Spec

\* What reaches a handler was permitted by the proxy and by the target: a required
\* justification is there; where a policy asks for an approver it is the approved message, on
\* a target where it was approved; and an id brings no other message than its own.
THEOREM OnlyPermitted == Spec => []PermittedOnly
<1>1. IInv => PermittedOnly
  BY DEF IInv
<1> QED BY <1>1, Invariance, PTL
=============================================================================
