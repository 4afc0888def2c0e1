----------------------------- MODULE ProxyClient -----------------------------
(***************************************************************************)
(* The client end of one Proxy RPC: proxy/proxy/proxy.go (createStreams,   *)
(* InvokeOneMany, Invoke, and the proxyStream of NewStream).               *)
(*                                                                         *)
(* Processes: the two goroutines of createStreams; then, for a unary call, *)
(* the goroutine that fills retChan and the caller that reads it, or, for  *)
(* a stream, the caller's receiving and sending goroutines.  A Ret is      *)
(* shared by reference: the caller reads its fields after the goroutine    *)
(* has handed it over and may already have changed it.                     *)
(*                                                                         *)
(* The proxy is the environment, with what ProxyServer establishes of it:  *)
(* streams are announced in the order they were asked for; each is         *)
(* announced before its data and closed once; OK closes a unary stream     *)
(* only after its reply and an error only before it, and OK a stream only  *)
(* after a request or the half-close; the RPC ends with OK only when all   *)
(* streams are closed.                                                     *)
(***************************************************************************)
EXTENDS Integers, Sequences, FiniteSets, SequencesExt

CONSTANTS
    MaxTargets,    \* bound: targets of a connection
    Ids,           \* stream ids
    Modes,         \* "unary": InvokeOneMany; "stream": NewStream, for []*Ret;
                   \* "message": NewStream for one target and its messages
    MaxReplies,    \* bound: replies of a streaming target
    MaxSends       \* bound: SendMsg calls of a streaming caller

NoId == ""    \* no stream

ASSUME ClientAssumption ==
    /\ NoId \notin Ids
    /\ MaxTargets \in Nat \ {0} /\ IsFiniteSet(Ids) /\ Cardinality(Ids) >= MaxTargets
    /\ Modes \subseteq {"unary", "stream", "message"}
    /\ MaxReplies \in Nat /\ MaxSends \in Nat

VARIABLES
    N, mode,     \* len(Conn.Targets), and how the connection is used
    nsent,       \* StartStreams sent
    nstart,      \* StartStreams the proxy has answered
    idOf,        \* the stream of a target (NoId before it has one)
    srv,         \* the proxy's view of a target: "none", "open", "ok", "failed"
    nrep,        \* replies of a target
    nreq, half,  \* requests the client has sent; it half-closed
    wire,        \* from the proxy to the client
    ended,       \* how the RPC ended: "no", "eof", "err"
    snd, rcv,    \* createStreams' goroutines: "run", "done"
    replies,     \* StartStreamReplies seen
    sendErr, recvErr,
    ids,         \* proxyStream.ids: the target of each tracked stream, 0 if none
    errors,      \* the Rets of targets that failed during the setup
    sentErrors,
    obj,         \* the Rets: resp, the number of the reply it holds (0 none); err
    pc,          \* "setup", "send", "close", "canned", "recv", "flush", "done", "failed"
    canned,      \* how many of errors went down retChan
    chanErr,
    pend,        \* the Ret that waits for retChan, 0 if none
    hand,        \* the Ret the caller has taken off retChan and not yet read, 0 if none
    seen,        \* what the caller has read of each target
    app,         \* the caller's sender: "off", "send", "iter", "closed"
    nmsg,        \* SendMsg calls
    crashed      \* the Go runtime stopped the process: concurrent map use

proxyVars == <<nstart, idOf, srv, nrep>>
connVars  == <<N, mode>>
netVars   == <<nsent, nreq, half, wire, ended>>
setupVars == <<snd, rcv, replies, sendErr, recvErr>>
retVars   == <<pend, hand, seen>>
appVars   == <<app, nmsg, crashed>>
callVars  == <<ids, errors, sentErrors, obj, pc, canned, chanErr, retVars, appVars>>
vars == <<connVars, proxyVars, netVars, setupVars, callVars>>

Targets == 1..N
Unary   == mode = "unary"
Many    == mode # "message"

Errs == {"nil", "EOF", "fail", "lost"}    \* a Ret's Error; "lost" is a failed RPC
Start(t, id) == [k |-> "start", t |-> t, id |-> id]
StartError(t) == [k |-> "error", t |-> t]
Data(id, n) == [k |-> "data", id |-> id, n |-> n]    \* the target's n-th reply
Close(id, st) == [k |-> "close", id |-> id, st |-> st]

Init ==
    /\ N \in 1..MaxTargets /\ mode \in Modes /\ (~Many => N = 1)
    /\ nsent = 0 /\ nstart = 0 /\ nreq = 0 /\ half = FALSE /\ wire = <<>> /\ ended = "no"
    /\ idOf = [t \in Targets |-> NoId] /\ srv = [t \in Targets |-> "none"]
    /\ nrep = [t \in Targets |-> 0]
    /\ snd = "run" /\ rcv = "run" /\ replies = 0 /\ sendErr = FALSE /\ recvErr = FALSE
    /\ ids = [id \in Ids |-> 0] /\ errors = <<>> /\ sentErrors = FALSE
    /\ obj = [t \in Targets |-> [resp |-> 0, err |-> "nil"]]
    /\ pc = "setup" /\ canned = 0 /\ chanErr = "nil" /\ pend = 0 /\ hand = 0
    /\ seen = [t \in Targets |-> <<>>]
    /\ app = "off" /\ nmsg = 0 /\ crashed = FALSE

Tracked == {id \in Ids : ids[id] # 0}

---------------------------------------------------------------------------
(* The proxy.                                                              *)

ProxyAnnounces(id) ==
    /\ ended = "no" /\ nstart < nsent /\ \A t \in Targets : idOf[t] # id
    /\ LET t == nstart + 1 IN
         /\ nstart' = t /\ idOf' = [idOf EXCEPT ![t] = id]
         /\ srv' = [srv EXCEPT ![t] = "open"] /\ wire' = Append(wire, Start(t, id))
    /\ UNCHANGED <<connVars, nrep, nsent, nreq, half, ended, setupVars, callVars>>

ProxyRefuses ==
    /\ ended = "no" /\ nstart < nsent
    /\ LET t == nstart + 1 IN
         /\ nstart' = t /\ srv' = [srv EXCEPT ![t] = "failed"]
         /\ wire' = Append(wire, StartError(t))
    /\ UNCHANGED <<connVars, idOf, nrep, nsent, nreq, half, ended, setupVars, callVars>>

ProxyReplies(t) ==
    /\ ended = "no" /\ srv[t] = "open" /\ nreq > 0
    /\ nrep[t] < (IF Unary THEN 1 ELSE MaxReplies)
    /\ nrep' = [nrep EXCEPT ![t] = @ + 1] /\ wire' = Append(wire, Data(idOf[t], nrep[t] + 1))
    /\ UNCHANGED <<connVars, nstart, idOf, srv, nsent, nreq, half, ended, setupVars, callVars>>

ProxyCloses(t) ==
    /\ ended = "no" /\ srv[t] = "open"
    /\ \E st \in {"ok", "failed"} :
          /\ IF Unary THEN nrep[t] = (IF st = "ok" THEN 1 ELSE 0)
                      ELSE st = "ok" => nreq > 0 \/ half
          /\ srv' = [srv EXCEPT ![t] = st] /\ wire' = Append(wire, Close(idOf[t], st))
    /\ UNCHANGED <<connVars, nstart, idOf, nrep, nsent, nreq, half, ended, setupVars, callVars>>

\* The RPC fails, at any point and maybe with replies under way.
ProxyFails ==
    /\ ended = "no" /\ ended' = "err" /\ wire' \in {wire, <<>>}
    /\ UNCHANGED <<connVars, proxyVars, nsent, nreq, half, setupVars, callVars>>

ProxyEnds ==
    /\ ended = "no" /\ half /\ nstart = nsent /\ \A t \in Targets : srv[t] # "open"
    /\ ended' = "eof"
    /\ UNCHANGED <<connVars, proxyVars, nsent, nreq, half, wire, setupVars, callVars>>

---------------------------------------------------------------------------
(* createStreams                                                           *)

\* The sending goroutine; an ended RPC makes Send return io.EOF or, sometimes,
\* the actual error.
SetupSend ==
    /\ snd = "run"
    /\ IF ended = "no"
       THEN /\ nsent' = nsent + 1 /\ snd' = (IF nsent + 1 = N THEN "done" ELSE "run")
            /\ UNCHANGED sendErr
       ELSE snd' = "done" /\ sendErr' \in BOOLEAN /\ UNCHANGED nsent
    /\ UNCHANGED <<connVars, proxyVars, nreq, half, wire, ended, rcv, replies, recvErr, callVars>>

\* The receiving goroutine is done: it has all replies, or it gives up.
SetupRecvDone(bad) ==
    recvErr' = bad /\ rcv' = IF bad \/ replies' = N THEN "done" ELSE "run"

SetupAnnounced(m) ==
    /\ m.k = "start" /\ replies' = replies + 1
    /\ IF ids[m.id] # 0 THEN SetupRecvDone(TRUE) /\ UNCHANGED <<ids, errors, obj>>
       ELSE /\ ids' = [ids EXCEPT ![m.id] = m.t] /\ SetupRecvDone(FALSE)
            /\ UNCHANGED <<errors, obj>>

\* Mutant: a refusal does not count as a reply.
SetupRefusedUncounted(m) ==
    /\ m.k = "error" /\ UNCHANGED replies
    /\ obj' = [obj EXCEPT ![m.t].err = "fail"] /\ errors' = Append(errors, m.t)
    /\ SetupRecvDone(FALSE) /\ UNCHANGED ids

SetupRefused(m) ==
    /\ m.k = "error" /\ replies' = replies + 1
    /\ obj' = [obj EXCEPT ![m.t].err = "fail"] /\ errors' = Append(errors, m.t)
    /\ SetupRecvDone(FALSE) /\ UNCHANGED ids

\* Mutant: a stream that was closed stays tracked.
SetupClosedTracked(m) ==
    /\ m.k \notin {"start", "error"} /\ UNCHANGED replies
    /\ IF m.k # "close" \/ m.st = "ok" \/ ids[m.id] = 0
       THEN SetupRecvDone(TRUE) /\ UNCHANGED <<ids, errors, obj>>
       ELSE /\ obj' = [obj EXCEPT ![ids[m.id]].err = "fail"]
            /\ errors' = Append(errors, ids[m.id])
            /\ UNCHANGED ids /\ SetupRecvDone(FALSE)

\* A stream that is closed before any data was sent has failed; nothing but
\* closes may be mixed in with the replies.
SetupClosed(m) ==
    /\ m.k \notin {"start", "error"} /\ UNCHANGED replies
    /\ IF m.k # "close" \/ m.st = "ok" \/ ids[m.id] = 0
       THEN SetupRecvDone(TRUE) /\ UNCHANGED <<ids, errors, obj>>
       ELSE /\ obj' = [obj EXCEPT ![ids[m.id]].err = "fail"]
            /\ errors' = Append(errors, ids[m.id])
            /\ ids' = [ids EXCEPT ![m.id] = 0] /\ SetupRecvDone(FALSE)

SetupRecv ==
    /\ rcv = "run" /\ wire # <<>> /\ wire' = Tail(wire)
    /\ LET m == Head(wire) IN SetupAnnounced(m) \/ SetupRefused(m) \/ SetupClosed(m)
    /\ UNCHANGED <<connVars, proxyVars, nsent, nreq, half, ended, snd, sendErr, sentErrors, pc,
                   canned, chanErr, retVars, appVars>>

SetupRecvEnds ==
    /\ rcv = "run" /\ wire = <<>> /\ ended # "no"
    /\ recvErr' = TRUE /\ rcv' = "done"
    /\ UNCHANGED <<connVars, proxyVars, netVars, snd, replies, sendErr, callVars>>

\* wg.Wait: createStreams returns to invokeOneMany or newStream.
SetupReturns ==
    /\ pc = "setup" /\ snd = "done" /\ rcv = "done"
    /\ IF sendErr \/ recvErr THEN pc' = "failed" /\ UNCHANGED app
       ELSE /\ pc' = IF Unary THEN "send" ELSE "recv"
            /\ app' = IF Unary THEN "off" ELSE "send"
    /\ UNCHANGED <<connVars, proxyVars, netVars, setupVars, ids, errors, sentErrors, obj, canned,
                   chanErr, retVars, nmsg, crashed>>

---------------------------------------------------------------------------
(* invokeOneMany                                                           *)

InvokeSend ==
    /\ pc = "send"
    /\ IF ended = "no" THEN pc' = "close" /\ nreq' = nreq + 1
                       ELSE pc' = "failed" /\ UNCHANGED nreq
    /\ UNCHANGED <<connVars, proxyVars, nsent, half, wire, ended, setupVars, ids, errors, sentErrors,
                   obj, canned, chanErr, retVars, appVars>>

\* closeClients, where io.EOF is no error, and CloseSend; the goroutine starts.
InvokeClose ==
    /\ pc = "close"
    /\ \/ pc' = "canned" /\ half' = TRUE
       \/ ended # "no" /\ pc' = "failed" /\ UNCHANGED half
    /\ UNCHANGED <<connVars, proxyVars, nsent, nreq, wire, ended, setupVars, ids, errors, sentErrors,
                   obj, canned, chanErr, retVars, appVars>>

\* retChan <- e for the targets that failed during the setup.
PushCanned ==
    /\ pc = "canned" /\ pend = 0
    /\ IF canned < Len(errors)
       THEN pend' = errors[canned + 1] /\ canned' = canned + 1 /\ UNCHANGED pc
       ELSE pc' = "recv" /\ UNCHANGED <<pend, canned>>
    /\ UNCHANGED <<connVars, proxyVars, netVars, setupVars, ids, errors, sentErrors, obj, chanErr,
                   hand, seen, appVars>>

\* The rendezvous on retChan, and the caller's look at what it received.
Push ==
    /\ pend # 0 /\ hand = 0 /\ hand' = pend /\ pend' = 0
    /\ UNCHANGED <<connVars, proxyVars, netVars, setupVars, ids, errors, sentErrors, obj, pc, canned,
                   chanErr, seen, appVars>>

Answer(t, o) == [t |-> t, resp |-> o.resp, err |-> o.err]
CallerReads ==
    /\ hand # 0 /\ hand' = 0
    /\ seen' = [seen EXCEPT ![hand] = Append(@, Answer(hand, obj[hand]))]
    /\ UNCHANGED <<connVars, proxyVars, netVars, setupVars, ids, errors, sentErrors, obj, pc, canned,
                   chanErr, pend, appVars>>

\* break: what is still tracked gets chanErr.  Otherwise receive again, unless
\* every stream was closed.
Break(e) == pc' = "flush" /\ chanErr' = e
LoopEnds == IF \A id \in Ids : ids'[id] = 0 THEN Break(chanErr)
                                            ELSE UNCHANGED <<pc, chanErr>>

\* The target a ServerClose is for; 0 for a stream or a reply nobody expects.
ClosedTarget(m) == IF m.k = "close" THEN ids[m.id] ELSE 0

InvokeData(m) ==
    /\ m.k = "data"
    /\ IF ids[m.id] = 0 THEN Break("fail") /\ UNCHANGED <<ids, obj, pend>>
       ELSE /\ obj' = [obj EXCEPT ![ids[m.id]].resp = m.n] /\ pend' = ids[m.id]
            /\ UNCHANGED ids /\ LoopEnds

InvokeClosed(m) ==
    /\ m.k # "data"
    /\ LET t == ClosedTarget(m) IN
       IF t = 0 THEN Break("fail") /\ UNCHANGED <<ids, obj, pend>>
       ELSE /\ ids' = [ids EXCEPT ![m.id] = 0]
            /\ IF m.st = "ok" THEN LoopEnds /\ UNCHANGED <<obj, pend>>
               ELSE IF obj[t].resp # 0 THEN Break("fail") /\ UNCHANGED <<obj, pend>>
               ELSE /\ obj' = [obj EXCEPT ![t].err = "fail"] /\ pend' = t /\ LoopEnds

InvokeRecv ==
    /\ Unary /\ pc = "recv" /\ pend = 0 /\ wire # <<>> /\ wire' = Tail(wire)
    /\ InvokeData(Head(wire)) \/ InvokeClosed(Head(wire))
    /\ UNCHANGED <<connVars, proxyVars, nsent, nreq, half, ended, setupVars, errors, sentErrors,
                   canned, hand, seen, appVars>>

\* Mutant: every end of the RPC is taken for io.EOF.
InvokeRecvEndsWell ==
    /\ Unary /\ pc = "recv" /\ pend = 0 /\ wire = <<>> /\ ended # "no"
    /\ Break("nil")
    /\ UNCHANGED <<connVars, proxyVars, netVars, setupVars, ids, errors, sentErrors, obj, canned,
                   retVars, appVars>>

InvokeRecvEnds ==
    /\ Unary /\ pc = "recv" /\ pend = 0 /\ wire = <<>> /\ ended # "no"
    /\ Break(IF ended = "eof" THEN "nil" ELSE "lost")
    /\ UNCHANGED <<connVars, proxyVars, netVars, setupVars, ids, errors, sentErrors, obj, canned,
                   retVars, appVars>>

\* One leftover stream, in the map's order.  Its Error is set before retChan
\* takes the Ret, which the caller may still be reading.
Flush(id) ==
    /\ pc = "flush" /\ pend = 0 /\ ids[id] # 0
    /\ obj' = [obj EXCEPT ![ids[id]].err = chanErr] /\ pend' = ids[id]
    /\ ids' = [ids EXCEPT ![id] = 0]
    /\ UNCHANGED <<connVars, proxyVars, netVars, setupVars, errors, sentErrors, pc, canned, chanErr,
                   hand, seen, appVars>>

\* close(retChan)
FlushEnds ==
    /\ pc = "flush" /\ pend = 0 /\ Tracked = {} /\ pc' = "done"
    /\ UNCHANGED <<connVars, proxyVars, netVars, setupVars, ids, errors, sentErrors, obj, canned,
                   chanErr, retVars, appVars>>

\* Mutant: the answer's error is not looked at.
InvokeVerdictAnyAnswer == IF Len(seen[1]) = 1 THEN "OK" ELSE "error"

\* What Invoke, the call for one target, makes of the answers.
InvokeVerdict == IF Len(seen[1]) = 1 /\ seen[1][1].err = "nil" THEN "OK" ELSE "error"

---------------------------------------------------------------------------
(* The stream of NewStream: RecvMsg, in a goroutine of the caller that      *)
(* calls it until it returns an error.                                      *)

\* What RecvMsg returns with an answer a of target t: the errors of the setup, of
\* which a target has one, go out with the first.
Returns(t, a) ==
    [u \in Targets |->
        LET before == IF ~sentErrors /\ u \in Range(errors)
                      THEN Append(seen[u], Answer(u, obj[u])) ELSE seen[u]
        IN  IF u = t THEN Append(before, a) ELSE before]

\* Mutant: io.EOF as soon as some stream is closed.
RecvNothingLeftEarly ==
    /\ ~Unary /\ pc = "recv" /\ (Tracked = {} \/ \E t \in Targets : obj[t].err = "EOF")
    /\ pc' = "done"
    /\ UNCHANGED <<connVars, proxyVars, netVars, setupVars, ids, errors, sentErrors, obj, canned,
                   chanErr, retVars, appVars>>

\* Every stream is closed: io.EOF.
RecvNothingLeft ==
    /\ ~Unary /\ pc = "recv" /\ Tracked = {} /\ pc' = "done"
    /\ UNCHANGED <<connVars, proxyVars, netVars, setupVars, ids, errors, sentErrors, obj, canned,
                   chanErr, retVars, appVars>>

\* stream.Recv returns a message.
Receives ==
    /\ ~Unary /\ pc = "recv" /\ Tracked # {}
    /\ wire # <<>> /\ wire' = Tail(wire) /\ sentErrors' = TRUE

RecvData ==
    /\ Receives /\ Head(wire).k = "data"
    /\ LET t == ids[Head(wire).id] IN
       IF t = 0 THEN pc' = "failed" /\ UNCHANGED <<obj, seen>>
       ELSE /\ obj' = [obj EXCEPT ![t] = [resp |-> Head(wire).n, err |-> "nil"]]
            /\ seen' = Returns(t, Answer(t, obj'[t])) /\ UNCHANGED pc
    /\ UNCHANGED <<connVars, proxyVars, nsent, nreq, half, ended, setupVars, ids, errors, canned,
                   chanErr, pend, hand, appVars>>

\* delete(p.ids, id) while SendMsg iterates over the map: the Go runtime may
\* notice, and stop the process.  With one target the id stays and the error
\* is returned.
RecvClosed ==
    /\ Receives /\ Head(wire).k # "data"
    /\ LET t == ClosedTarget(Head(wire))
           e == IF Head(wire).st = "ok" THEN "EOF" ELSE "fail"
       IN  IF t = 0 THEN pc' = "failed" /\ UNCHANGED <<ids, obj, seen, app, crashed>>
           ELSE /\ obj' = [obj EXCEPT ![t] = [resp |-> 0, err |-> e]]
                /\ seen' = Returns(t, Answer(t, obj'[t]))
                /\ IF Many
                   THEN /\ ids' = [ids EXCEPT ![Head(wire).id] = 0]
                        /\ crashed' \in (IF app = "iter" THEN BOOLEAN ELSE {FALSE})
                        /\ pc' = (IF crashed' THEN "failed" ELSE pc)
                        /\ app' = (IF crashed' THEN "closed" ELSE app)
                   ELSE /\ pc' = IF e = "EOF" THEN "done" ELSE "failed"
                        /\ UNCHANGED <<ids, app, crashed>>
    /\ UNCHANGED <<connVars, proxyVars, nsent, nreq, half, ended, setupVars, errors, canned,
                   chanErr, pend, hand, nmsg>>

\* stream.Recv fails, and the batch is dropped with it.
RecvEnds ==
    /\ ~Unary /\ pc = "recv" /\ Tracked # {} /\ wire = <<>> /\ ended # "no"
    /\ sentErrors' = TRUE /\ pc' = IF ended = "eof" THEN "done" ELSE "failed"
    /\ UNCHANGED <<connVars, proxyVars, netVars, setupVars, ids, errors, obj, canned, chanErr,
                   retVars, appVars>>

---------------------------------------------------------------------------
(* The caller's sending goroutine (stat, sum and raw calls have one).       *)

AppSends ==
    /\ app = "send" /\ nmsg < MaxSends /\ app' = "iter" /\ nmsg' = nmsg + 1
    /\ UNCHANGED <<connVars, proxyVars, netVars, setupVars, ids, errors, sentErrors, obj, pc, canned,
                   chanErr, retVars, crashed>>

AppSent ==
    /\ app = "iter"
    /\ IF ended = "no" THEN app' = "send" /\ nreq' = nreq + 1
                       ELSE app' = "closed" /\ UNCHANGED nreq
    /\ UNCHANGED <<connVars, proxyVars, nsent, half, wire, ended, setupVars, ids, errors, sentErrors,
                   obj, pc, canned, chanErr, retVars, nmsg, crashed>>

CloseSend ==
    /\ app = "send" /\ app' = "closed" /\ half' = TRUE
    /\ UNCHANGED <<connVars, proxyVars, nsent, nreq, wire, ended, setupVars, ids, errors, sentErrors,
                   obj, pc, canned, chanErr, retVars, nmsg, crashed>>

---------------------------------------------------------------------------
Proxy ==
    \/ ProxyRefuses \/ ProxyFails \/ ProxyEnds \/ (\E id \in Ids : ProxyAnnounces(id))
    \/ \E t \in Targets : ProxyReplies(t) \/ ProxyCloses(t)
Setup == SetupRecv \/ SetupRecvEnds \/ SetupReturns
Invoke ==
    \/ InvokeSend \/ InvokeClose \/ PushCanned \/ InvokeRecv \/ InvokeRecvEnds
    \/ FlushEnds \/ \E id \in Ids : Flush(id)
Channel == Push \/ CallerReads
RecvMsg == RecvNothingLeft \/ RecvData \/ RecvClosed \/ RecvEnds
SendMsg == AppSends \/ AppSent \/ CloseSend

\* The call is over.
Finished == pc \in {"done", "failed"} /\ pend = 0 /\ hand = 0 /\ UNCHANGED vars

Next ==
    \/ Proxy \/ SetupSend \/ Setup \/ Invoke \/ Channel \/ RecvMsg \/ SendMsg \/ Finished

Spec == Init /\ [][Next]_vars

(***************************************************************************)
(* Fairness: the client's goroutines are scheduled, and the proxy ends an  *)
(* RPC that is half-closed and has no stream left (ProxyServer shows it).  *)
(* The proxy's targets owe nothing.                                        *)
(***************************************************************************)
Fairness ==
    /\ WF_vars(SetupSend) /\ WF_vars(Setup) /\ WF_vars(Invoke) /\ WF_vars(Push)
    /\ WF_vars(CallerReads) /\ WF_vars(RecvMsg) /\ WF_vars(SendMsg) /\ WF_vars(ProxyEnds)
FairSpec == Spec /\ Fairness

---------------------------------------------------------------------------
(* Properties                                                              *)

\* createStreams accounts for every target, whatever closes and refusals are
\* mixed in with the announcements: it is tracked under its stream, or its error
\* is kept, once, and never both (proxy.go:431-435).
SetupAccounts ==
    /\ pc = "send" \/ (pc = "recv" /\ ~Unary /\ \A t \in Targets : seen[t] = <<>>) =>
          \A t \in Targets : (\E id \in Tracked : ids[id] = t) # (t \in Range(errors))
    /\ \A id \in Tracked : idOf[ids[id]] = id
    /\ \A j, k \in 1..Len(errors) : errors[j] = errors[k] => j = k

\* When retChan is closed the caller of InvokeOneMany has heard of every target:
\* of one that answered, its reply without an error, and once; of any other, an
\* error.  A failed RPC may add an error to a reply (proxy.go:636-707).
UnaryAnswers ==
    Unary /\ pc = "done" /\ hand = 0 =>
        \A t \in Targets :
            /\ seen[t] # <<>>
            /\ \A k \in 1..Len(seen[t]) :
                  seen[t][k].err = "nil" => seen[t][k].resp = 1 /\ nrep[t] = 1
            /\ chanErr = "nil" => /\ Len(seen[t]) = 1
                                  /\ (seen[t][1].err = "nil") = (srv[t] = "ok")

\* Invoke, the call for one target, succeeds exactly when its target answered,
\* its stream ended well and the RPC was not lost before that was known
\* (proxy.go:154-176).
InvokeTruthful ==
    Unary /\ N = 1 /\ pc = "done" /\ hand = 0 =>
        (InvokeVerdict = "OK") = (srv[1] = "ok" /\ chanErr = "nil")

\* A streaming caller that reads to io.EOF has received, of every target whose
\* stream was set up, all its replies in their order and then, once, how it ended;
\* and of every other its error, unless no stream was set up at all, when io.EOF is
\* all the caller gets (proxy.go:312, 361-428).
StreamAnswers ==
    ~Unary /\ pc = "done" =>
        /\ \A t \in Targets \ Range(errors) :
              /\ Len(seen[t]) = nrep[t] + 1
              /\ \A k \in 1..nrep[t] : seen[t][k] = Answer(t, [resp |-> k, err |-> "nil"])
              /\ seen[t][nrep[t] + 1].err = (IF srv[t] = "ok" THEN "EOF" ELSE "fail")
        /\ Range(errors) # Targets => \A t \in Range(errors) : seen[t] # <<>>

\* The caller is not left waiting: once every stream is closed or the RPC is
\* over, the setup, retChan and RecvMsg all come to an end.
CallEnds ==
    (ended # "no" \/ \A t \in Targets : srv[t] \in {"ok", "failed"})
        ~> pc \in {"done", "failed"}

---------------------------------------------------------------------------
(* The inductive invariant of the proofs                                   *)

Msgs ==
    [k : {"start"}, t : Nat, id : Ids] \cup [k : {"error"}, t : Nat]
    \cup [k : {"data"}, id : Ids, n : Nat] \cup [k : {"close"}, id : Ids, st : {"ok", "failed"}]
Answers == [t : Nat, resp : Nat, err : Errs]

ProxyType ==
    /\ N \in 1..MaxTargets /\ mode \in {"unary", "stream", "message"} /\ (~Many => N = 1)
    /\ nsent \in 0..N /\ nstart \in 0..nsent
    /\ idOf \in [Targets -> Ids \cup {NoId}]
    /\ srv \in [Targets -> {"none", "open", "ok", "failed"}]
    /\ nrep \in [Targets -> Nat]
NetType ==
    /\ nreq \in Nat /\ half \in BOOLEAN /\ wire \in Seq(Msgs) /\ ended \in {"no", "eof", "err"}
SetupType ==
    /\ snd \in {"run", "done"} /\ rcv \in {"run", "done"} /\ replies \in 0..N
    /\ sendErr \in BOOLEAN /\ recvErr \in BOOLEAN
    /\ ids \in [Ids -> 0..N] /\ errors \in Seq(Nat) /\ sentErrors \in BOOLEAN
    /\ obj \in [Targets -> [resp : Nat, err : Errs]]
CallType ==
    /\ pc \in {"setup", "send", "close", "canned", "recv", "flush", "done", "failed"}
    /\ canned \in Nat /\ chanErr \in Errs /\ pend \in 0..N /\ hand \in 0..N
    /\ seen \in [Targets -> Seq(Answers)]
    /\ app \in {"off", "send", "iter", "closed"} /\ nmsg \in Nat /\ crashed \in BOOLEAN
TypeOK == ProxyType /\ NetType /\ SetupType /\ CallType

\* Where the goroutines are, and what cannot have happened there yet.
PhaseInv ==
    /\ snd = "run" => nsent < N
    /\ rcv = "run" => pc = "setup" /\ ~recvErr /\ replies < N
    /\ rcv = "done" /\ ~recvErr => replies = N
    /\ pc \notin {"setup", "failed"} => rcv = "done" /\ ~recvErr
    /\ pc \in {"send", "close", "canned", "flush"} => Unary
    /\ pc \in {"setup", "send", "close"} =>
          pend = 0 /\ hand = 0 /\ canned = 0 /\ \A t \in Targets : seen[t] = <<>>
    /\ ~Unary => pend = 0 /\ hand = 0
    /\ pc = "setup" => ~sentErrors
    /\ pc \notin {"flush", "done"} => chanErr = "nil"
    /\ pc \in {"done", "failed"} => pend = 0
    /\ canned <= Len(errors) /\ (Unary /\ pc \in {"recv", "flush", "done"} => canned = Len(errors))

\* What the proxy keeps: a stream has one target and its own id.
ProxyInv ==
    /\ \A t \in Targets :
          /\ t <= nstart <=> srv[t] # "none"
          /\ t > nstart => idOf[t] = NoId
          /\ srv[t] \in {"open", "ok"} => idOf[t] # NoId
          /\ idOf[t] = NoId => nrep[t] = 0
          /\ Unary => /\ nrep[t] <= 1
                      /\ srv[t] = "ok" => nrep[t] = 1
                      /\ srv[t] = "failed" => nrep[t] = 0
    /\ \A t, u \in Targets : idOf[t] # NoId /\ idOf[t] = idOf[u] => t = u
    /\ ended = "eof" => \A t \in Targets : srv[t] # "open"

Opens(m) == m.k \in {"start", "error"}

\* On the wire targets are answered in the order they were asked for, and of each
\* stream the announcement comes first, its replies next and its close last.
WireOrder ==
    \A i, j \in 1..Len(wire) : i < j =>
        /\ Opens(wire[i]) /\ Opens(wire[j]) => wire[i].t < wire[j].t
        /\ ~Opens(wire[i]) /\ wire[j].k = "start" => wire[i].id # wire[j].id
        /\ wire[i].k = "close" /\ ~Opens(wire[j]) => wire[i].id # wire[j].id
        /\ wire[i].k = "data" /\ wire[j].k = "data" /\ wire[i].id = wire[j].id =>
              wire[i].n < wire[j].n

\* A message says what happened to its target.
Truthful(m) ==
    /\ Opens(m) => m.t \in 1..nstart
    /\ m.k = "start" => idOf[m.t] = m.id /\ m.id # NoId
    /\ m.k = "error" => idOf[m.t] = NoId /\ srv[m.t] = "failed"
    /\ ~Opens(m) =>
          \E t \in Targets : /\ idOf[t] = m.id /\ m.id # NoId
                             /\ m.k = "data" => m.n \in 1..nrep[t]
                             /\ m.k = "close" => srv[t] = m.st
WireTruthful == \A i \in 1..Len(wire) : Truthful(wire[i])

IsTracked(t) == \E id \in Ids : ids[id] = t
IsError(t)   == \E k \in 1..Len(errors) : errors[k] = t

\* The replies of t the client has read, and whether it still waits for some.
Read(t)    == IF Unary THEN obj[t].resp ELSE Len(seen[t])
Awaited(t) == t > replies \/ IsTracked(t)
Listens    == pc \in {"setup", "send", "close", "canned", "recv"} /\ ~recvErr
OnWire(m)  == \E i \in 1..Len(wire) : wire[i] = m

\* While the client listens, the wire holds nothing it has read already ...
WireAhead ==
    Listens => \A i \in 1..Len(wire) :
        /\ Opens(wire[i]) => wire[i].t > replies
        /\ ~Opens(wire[i]) =>
              \A t \in Targets : idOf[t] = wire[i].id =>
                  Awaited(t) /\ (wire[i].k = "data" => wire[i].n > Read(t))

\* ... and all it has not read yet, unless the RPC failed and the wire was lost.
WireComplete ==
    Listens /\ (ended = "err" => wire # <<>>) => \A t \in 1..nstart :
        /\ t > replies =>
              OnWire(IF idOf[t] = NoId THEN StartError(t) ELSE Start(t, idOf[t]))
        /\ Awaited(t) =>
              /\ \A n \in 1..nrep[t] : n > Read(t) => OnWire(Data(idOf[t], n))
              /\ srv[t] # "open" /\ idOf[t] # NoId => OnWire(Close(idOf[t], srv[t]))

\* What createStreams keeps: of the targets answered so far each is tracked or in
\* errors, and nothing has been read yet.
AccountInv ==
    /\ replies <= nstart
    /\ \A id \in Ids : ids[id] # 0 => ids[id] <= replies /\ idOf[ids[id]] = id
    /\ \A k \in 1..Len(errors) :
          /\ errors[k] \in 1..replies /\ ~IsTracked(errors[k])
          /\ obj[errors[k]] = [resp |-> 0, err |-> "fail"] /\ srv[errors[k]] = "failed"
    /\ \A j, k \in 1..Len(errors) : errors[j] = errors[k] => j = k
    /\ pc \in {"setup", "send", "close", "canned"} /\ ~recvErr =>
          \A t \in Targets : /\ t <= replies => IsTracked(t) \/ IsError(t)
                             /\ ~IsError(t) => obj[t] = [resp |-> 0, err |-> "nil"]

\* InvokeOneMany owes the caller the first canned errors, every reply it has read,
\* and the end of every stream that it does not track any more.
Due(t) ==
    \/ \E k \in 1..canned : errors[k] = t
    \/ ~IsError(t) /\ (~IsTracked(t) \/ obj[t].resp # 0)
\* The Ret of t is on its way, or the last the caller heard of t is what it says now.
Heard(t) ==
    pend = t \/ hand = t \/ (seen[t] # <<>> /\ seen[t][Len(seen[t])] = Answer(t, obj[t]))

\* What InvokeOneMany has done for target t.
Served(t) ==
    /\ Due(t) => Heard(t) /\ (obj[t].err = "nil" => obj[t].resp = 1)
    /\ ~Due(t) => pend # t /\ hand # t /\ seen[t] = <<>>
    /\ obj[t].resp <= nrep[t]
    /\ IsTracked(t) => obj[t].err = "nil"
    /\ \A k \in 1..Len(seen[t]) : seen[t][k].err = "nil" => seen[t][k].resp = 1 /\ nrep[t] = 1
    /\ chanErr = "nil" => /\ pend = t => hand # t /\ seen[t] = <<>>
                          /\ hand = t => seen[t] = <<>>
                          /\ Len(seen[t]) <= 1
                          /\ ~IsTracked(t) => /\ srv[t] \in {"ok", "failed"}
                                              /\ obj[t].err = "nil" <=> srv[t] = "ok"

UnaryInv ==
    Unary /\ pc \in {"canned", "recv", "flush", "done"} =>
        /\ \A t \in Targets : Served(t)
        /\ pc = "recv" => \E t \in Targets : IsTracked(t) \/ IsError(t)
        /\ chanErr # "nil" => \E t \in Targets : IsTracked(t) \/ obj[t].err # "nil"
        /\ pc = "done" \/ (pc = "flush" /\ chanErr = "nil") => \A t \in Targets : ~IsTracked(t)

\* What RecvMsg has returned of a target: its replies so far, or all of them and its end.
RepliesOf(t, n) ==
    \A k \in 1..n : seen[t][k] = Answer(t, [resp |-> k, err |-> "nil"])
Partial(t) == Len(seen[t]) <= nrep[t] /\ RepliesOf(t, Len(seen[t]))
Whole(t) ==
    /\ Len(seen[t]) = nrep[t] + 1 /\ RepliesOf(t, nrep[t])
    /\ srv[t] \in {"ok", "failed"}
    /\ seen[t][nrep[t] + 1].err = (IF srv[t] = "ok" THEN "EOF" ELSE "fail")

StreamInv ==
    ~Unary /\ pc \in {"recv", "done"} => \A t \in Targets :
        /\ IsError(t) => Len(seen[t]) = (IF sentErrors THEN 1 ELSE 0)
        /\ ~IsError(t) =>
              /\ pc = "recv" /\ IsTracked(t) => Partial(t)
              /\ pc = "done" \/ ~IsTracked(t) => Whole(t)
        /\ ~sentErrors /\ ~IsError(t) => pc = "recv" /\ IsTracked(t)

IInv ==
    /\ TypeOK /\ PhaseInv /\ ProxyInv /\ WireOrder /\ WireTruthful /\ WireAhead
    /\ WireComplete /\ AccountInv /\ UnaryInv /\ StreamInv
===========================================================================
