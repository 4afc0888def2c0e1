----------------------------- MODULE ProxyServer -----------------------------
(***************************************************************************)
(* One Proxy RPC of the SansShell proxy server: proxy/server/server.go     *)
(* (Proxy, send, receive, dispatch) and proxy/server/target.go             *)
(* (TargetStream, TargetStreamSet).                                        *)
(*                                                                         *)
(* Every goroutine of the code is a process with its own program counter:  *)
(* `send`, `receive` and its parent, the dispatcher, and, for each target  *)
(* stream, Run and the two goroutines of its errgroup (the writer, which   *)
(* also dials, and the reader).  Unbuffered channels are rendezvous: the   *)
(* sending and the receiving goroutine move in one step.  The client, the  *)
(* target servers and gRPC are the environment.                            *)
(*                                                                         *)
(* Assumed of the environment: stream ids (rand.Uint64) do not collide;    *)
(* stream.Send to a client succeeds until the client is gone; ClientStream *)
(* .CloseSend and ClientConn.Close return no error (gRPC-Go never does).   *)
(* A client may send any request at any time, StreamData on a stream that  *)
(* it has half-closed included: reqChan is closed then, and the send on it *)
(* panics, which ends the process.                                         *)
(***************************************************************************)
EXTENDS Integers, Sequences, FiniteSets

CONSTANTS
    Ids,            \* stream ids NewTargetStream can draw
    Pairs,          \* (target, nonce) pairs the client can name
    Methods,        \* methods of the service map
    ClientStreams,  \* those whose requests are a stream
    ServerStreams,  \* those whose replies are a stream
    Msgs,           \* request payloads
    Permitted,      \* the (pair, payload)s the proxy's policy allows
    DryRuns,        \* values of StartStream.AuthzDryRun the client uses
    ClientOps,      \* what the client does in this instance
    ReqBufferSize,  \* target.go:51
    MaxReqs,        \* bound: requests the client sends
    MaxReplies,     \* bound: replies a streaming target sends
    NoMethod, NoId  \* an unknown method; no stream

ASSUME ConstantsAssumption ==
    /\ ClientStreams \subseteq Methods /\ ServerStreams \subseteq Methods
    /\ Permitted \subseteq Pairs \X Msgs
    /\ DryRuns \subseteq BOOLEAN
    /\ NoMethod \notin Methods /\ NoId \notin Ids

ASSUME BoundsAssumption ==
    /\ ReqBufferSize \in Nat \ {0} /\ MaxReqs \in Nat /\ MaxReplies \in Nat

VARIABLES
    up,        \* the client is still connected
    nreq,      \* requests the client has sent
    usage,     \* history: a stream is "open" for the client's data, "closed" by its
               \* ClientClose, or "misused": data were sent after that
    rcv,       \* receive: "recv", "hold" (a request for dispatch), "ret", "closed"
    rreq,      \* the request receive holds
    rerr,      \* the error receive returned
    par,       \* the goroutine that started receive: "start", "select", "done"
    gerr,      \* first error of Proxy's errgroup
    sender,    \* send: "idle" (ranging over replyChan), "exit"
    dpc,       \* dispatch: "select", "reply", "send", "wait", "exit", "panic"
    cur,       \* the stream Add is announcing (NoId: an error reply)
    todo,      \* the ids Send has still to enqueue to
    smsg,      \* the payload Send is enqueueing (a sequence of at most one)
    reqNil,    \* requestChan = nil
    derr,      \* the error dispatch returned
    dcancel,   \* dispatch's derived context was cancelled
    info,      \* TargetStream: its pair, method and authzDryRun
    streams, closedStreams, noncePairs,     \* TargetStreamSet
    reqBuf,    \* reqChan's buffer
    reqClosed, \* reqChan is closed
    errc,      \* errChan's buffer (capacity 1)
    cancelled, \* cancelFunc was called
    run,       \* Run: "none", "new", "wait", "push", "notify", "gone"
    wr,        \* writer: "off", "dial", "loop", "eval", "send", "exit"
    wmsg,      \* the request the writer holds (a sequence of at most one)
    rd,        \* reader: "off", "recv", "push", "last", "exit"
    serr,      \* first error of Run's errgroup
    final,     \* the status of ServerClose
    rpc,       \* the RPC to the target: "none", "open", or how it ended
    inbound,   \* replies the reader has not read
    nrep,      \* replies the target has sent
    got,       \* requests delivered to the target
    half,      \* the target saw the half-close
    accepted,  \* history: requests Send put on reqChan
    out        \* history: replies the client received, per stream

clientVars == <<up, nreq, usage>>
recvVars   == <<rcv, rreq, rerr, par>>
dispVars   == <<dpc, cur, todo, smsg, reqNil, derr, dcancel>>
setVars    == <<info, streams, closedStreams, noncePairs>>
chanVars   == <<reqBuf, reqClosed, errc, cancelled>>
runVars    == <<run, wr, wmsg, rd, serr, final>>
rpcVars    == <<rpc, inbound, nrep, got, half>>
vars == <<clientVars, recvVars, gerr, sender, dispVars, setVars, chanVars,
          runVars, rpcVars, accepted, out>>

OK == "OK"                                  \* Go's nil error
Errors == {"Canceled", "PermissionDenied", "Internal", "Aborted", "Target",
           "Unreachable", "InvalidArgument", "FailedPrecondition"}
Status == Errors \cup {OK}
Ended == {OK, "NoReply", "Target", "Internal", "Canceled"}

StartReqs == [op : {"start"}, pair : Pairs, method : Methods \cup {NoMethod},
              dry : DryRuns]
DataReqs  == [op : {"data"}, ids : SUBSET Ids, method : Methods, msg : Msgs]
IdReqs    == [op : {"close", "cancel"}, ids : SUBSET Ids]
NoReq     == [op |-> "unknown"]
Requests  == StartReqs \cup DataReqs \cup IdReqs \cup {NoReq}
Infos     == [pair : Pairs, method : Methods, dry : DryRuns]
NoInfo    == [method |-> NoMethod]

First(e, new) == IF e = OK THEN new ELSE e  \* errgroup keeps the first error

---------------------------------------------------------------------------
(* Contexts: each is done once it or a parent was cancelled.              *)

GroupCtxDone      == ~up \/ gerr # OK
DispatchCtxDone   == GroupCtxDone \/ dcancel
StreamCtxDone(id) == DispatchCtxDone \/ cancelled[id]
RunCtxDone(id)    == StreamCtxDone(id) \/ serr[id] # OK
\* gRPC ends a client stream's context when RecvMsg has seen the RPC's end.
GrpcCtxDone(id)   == rpc[id] # "none" /\ (RunCtxDone(id) \/ rd[id] \in {"last", "exit"})

IsClientStream(id) == info[id].method \in ClientStreams
IsServerStream(id) == info[id].method \in ServerStreams
Announced(id) == out[id] # <<>> /\ out[id][1] = "start"
Alive == dpc # "panic"                      \* a panic ends every goroutine
HandlerDone == sender = "exit" /\ par = "done" /\ dpc = "exit"

Init ==
    /\ up = TRUE /\ nreq = 0 /\ usage = [id \in Ids |-> "open"]
    /\ rcv = "recv" /\ rreq = NoReq /\ rerr = OK /\ par = "start"
    /\ gerr = OK /\ sender = "idle"
    /\ dpc = "select" /\ cur = NoId /\ todo = {} /\ smsg = <<>> /\ reqNil = FALSE
    /\ derr = OK /\ dcancel = FALSE
    /\ info = [id \in Ids |-> NoInfo]
    /\ streams = {} /\ closedStreams = {} /\ noncePairs = {}
    /\ reqBuf = [id \in Ids |-> <<>>] /\ reqClosed = [id \in Ids |-> FALSE]
    /\ errc = [id \in Ids |-> OK] /\ cancelled = [id \in Ids |-> FALSE]
    /\ run = [id \in Ids |-> "none"] /\ wr = [id \in Ids |-> "off"]
    /\ wmsg = [id \in Ids |-> <<>>]
    /\ rd = [id \in Ids |-> "off"] /\ serr = [id \in Ids |-> OK]
    /\ final = [id \in Ids |-> OK]
    /\ rpc = [id \in Ids |-> "none"] /\ inbound = [id \in Ids |-> 0]
    /\ nrep = [id \in Ids |-> 0] /\ got = [id \in Ids |-> <<>>]
    /\ half = [id \in Ids |-> FALSE]
    /\ accepted = [id \in Ids |-> <<>>] /\ out = [id \in Ids |-> <<>>]

---------------------------------------------------------------------------
(* The client, and receive with its parent goroutine.                      *)

Nameable == {id \in Ids : Announced(id) \/ ("stray" \in ClientOps /\ info[id] = NoInfo)}

IdsLeft == \E id \in Ids : info[id] = NoInfo   \* bounds the streams of an instance

ClientRequests ==
    {r \in StartReqs : /\ "start" \in ClientOps
                       /\ r.method = NoMethod => "nomethod" \in ClientOps
                       /\ IdsLeft \/ r.pair \in noncePairs}
    \cup {r \in DataReqs : /\ "data" \in ClientOps
                           /\ r.ids # {} /\ r.ids \subseteq Nameable
                           /\ ("badtype" \in ClientOps
                               \/ \A id \in r.ids : info[id].method \in {r.method, NoMethod})}
    \cup {r \in IdReqs : r.op \in ClientOps /\ r.ids # {} /\ r.ids \subseteq Nameable}
    \cup {r \in {NoReq} : r.op \in ClientOps}

\* What the client does to a stream that it names in r.
Used(u, r) ==
    CASE r.op = "close" /\ u = "open" -> "closed"
      [] r.op = "data" /\ u = "closed" -> "misused"
      [] OTHER -> u

\* receive: stream.Recv returns a request, which waits for dispatch.
Recv(r) ==
    /\ rcv = "recv" /\ up /\ nreq < MaxReqs
    /\ rcv' = "hold" /\ rreq' = r /\ nreq' = nreq + 1
    /\ usage' = [id \in Ids |-> IF r.op \in {"close", "data"} /\ id \in r.ids
                                THEN Used(usage[id], r) ELSE usage[id]]
    /\ UNCHANGED <<up, rerr, par, gerr, sender, dispVars, setVars, chanVars,
                   runVars, rpcVars, accepted, out>>

\* receive returns e; its deferred close of requestChan is part of the step.
ReceiveReturns(e) ==
    /\ rcv' = "ret" /\ rreq' = NoReq /\ rerr' = e
    /\ UNCHANGED <<clientVars, par, gerr, sender, dispVars, setVars,
                   chanVars, runVars, rpcVars, accepted, out>>

RecvEOF == rcv = "recv" /\ up /\ "half" \in ClientOps /\ ReceiveReturns(OK)

\* Recv fails: the client is gone.
RecvBroken == rcv = "recv" /\ ~up /\ ReceiveReturns("Canceled")

\* Recv fails on a live connection: the stream's authorizer refused the
\* request, or it cannot be decoded.
RecvRefused ==
    /\ rcv = "recv" /\ up /\ nreq < MaxReqs /\ "refused" \in ClientOps
    /\ ReceiveReturns("PermissionDenied")

ReceiveCtxDone == rcv = "hold" /\ GroupCtxDone /\ ReceiveReturns("Canceled")

\* The inner goroutine offers the error to its parent, and drops it when the
\* parent is not at its select; then it closes errChan.
ReceiveReport ==
    /\ rcv = "ret" /\ rcv' = "closed"
    /\ IF par = "select" THEN par' = "done" /\ gerr' = First(gerr, rerr)
                         ELSE UNCHANGED <<par, gerr>>
    /\ UNCHANGED <<clientVars, rreq, rerr, sender, dispVars, setVars, chanVars,
                   runVars, rpcVars, accepted, out>>

\* The parent reaches its select; a closed errChan yields a nil error.
ParentSelect ==
    /\ par = "start" /\ par' = IF rcv = "closed" THEN "done" ELSE "select"
    /\ UNCHANGED <<clientVars, rcv, rreq, rerr, gerr, sender, dispVars, setVars,
                   chanVars, runVars, rpcVars, accepted, out>>

ParentCtxDone ==
    /\ par = "select" /\ GroupCtxDone
    /\ par' = "done" /\ gerr' = First(gerr, "Canceled")
    /\ UNCHANGED <<clientVars, rcv, rreq, rerr, sender, dispVars, setVars,
                   chanVars, runVars, rpcVars, accepted, out>>

\* The client disconnects or its deadline passes: stream.Context() is done.
ClientBreaks ==
    /\ "break" \in ClientOps /\ up /\ ~HandlerDone /\ up' = FALSE
    /\ UNCHANGED <<nreq, usage, recvVars, gerr, sender, dispVars, setVars, chanVars,
                   runVars, rpcVars, accepted, out>>

---------------------------------------------------------------------------
(* send                                                                    *)

\* send takes one message for stream id off replyChan and writes it to the client.
Relay(id, msg) ==
    /\ sender = "idle"
    /\ IF up
       THEN /\ out' = IF id = NoId THEN out ELSE [out EXCEPT ![id] = Append(@, msg)]
            /\ UNCHANGED <<sender, gerr>>
       ELSE /\ sender' = "exit" /\ gerr' = First(gerr, "Canceled")
            /\ UNCHANGED out

\* replyChan was closed.
SendExit ==
    /\ sender = "idle" /\ dpc = "exit" /\ sender' = "exit"
    /\ UNCHANGED <<clientVars, recvVars, gerr, dispVars, setVars, chanVars,
                   runVars, rpcVars, accepted, out>>

---------------------------------------------------------------------------
(* dispatch and the TargetStreamSet.                                       *)

\* Mutant: an error leaves the streams' context alone.
DispatchReturnsNoCancel(e) ==
    /\ dpc' = "wait" /\ derr' = e /\ dcancel' = dcancel
    /\ UNCHANGED <<cur, todo, smsg, reqNil>>

\* dispatch returns e; on an error its goroutine cancels the derived context.
DispatchReturns(e) ==
    /\ dpc' = "wait" /\ derr' = e /\ dcancel' = (dcancel \/ e # OK)
    /\ UNCHANGED <<cur, todo, smsg, reqNil>>

DispatchCtx ==
    /\ dpc = "select" /\ DispatchCtxDone
    /\ DispatchReturns("Canceled")
    /\ UNCHANGED <<clientVars, recvVars, gerr, sender, setVars, chanVars,
                   runVars, rpcVars, accepted, out>>

\* Mutant: the last stream's report does not end dispatch.
DispatchDoneNoReturn(id) ==
    /\ dpc = "select" /\ run[id] = "notify"
    /\ run' = [run EXCEPT ![id] = "gone"]
    /\ streams' = streams \ {id} /\ closedStreams' = closedStreams \cup {id}
    /\ UNCHANGED <<dispVars, clientVars, recvVars, gerr, sender, info, noncePairs, chanVars,
                   wr, wmsg, rd, serr, final, rpcVars, accepted, out>>

\* A stream reports on doneChan: Remove it, and return when it was the last.
DispatchDone(id) ==
    /\ dpc = "select" /\ run[id] = "notify"
    /\ run' = [run EXCEPT ![id] = "gone"]
    /\ streams' = streams \ {id} /\ closedStreams' = closedStreams \cup {id}
    /\ IF reqNil /\ streams' = {} THEN DispatchReturns(OK) ELSE UNCHANGED dispVars
    /\ UNCHANGED <<clientVars, recvVars, gerr, sender, info, noncePairs, chanVars,
                   wr, wmsg, rd, serr, final, rpcVars, accepted, out>>

\* Mutant: dispatch returns as soon as the client has half-closed.
DispatchClosedReturns ==
    /\ dpc = "select" /\ ~reqNil /\ rcv \in {"ret", "closed"}
    /\ reqClosed' = [id \in Ids |-> reqClosed[id] \/ id \in streams]
    /\ DispatchReturns(OK)
    /\ UNCHANGED <<clientVars, recvVars, gerr, sender, setVars, reqBuf, errc,
                   cancelled, runVars, rpcVars, accepted, out>>

\* requestChan was closed: ClientCloseAll, and return when no stream is left.
DispatchClosed ==
    /\ dpc = "select" /\ ~reqNil /\ rcv \in {"ret", "closed"}
    /\ reqClosed' = [id \in Ids |-> reqClosed[id] \/ id \in streams]
    /\ IF streams = {} THEN DispatchReturns(OK)
                       ELSE reqNil' = TRUE /\ UNCHANGED <<dpc, cur, todo, smsg, derr, dcancel>>
    /\ UNCHANGED <<clientVars, recvVars, gerr, sender, setVars, reqBuf, errc,
                   cancelled, runVars, rpcVars, accepted, out>>

\* dispatch receives from requestChan a request of type op.
Take(op) ==
    /\ dpc = "select" /\ ~reqNil /\ rcv = "hold" /\ rreq.op = op
    /\ rcv' = "recv" /\ rreq' = NoReq

AddReused ==
    /\ Take("start") /\ rreq.pair \in noncePairs
    /\ DispatchReturns("FailedPrecondition")
    /\ UNCHANGED <<clientVars, rerr, par, gerr, sender, setVars, chanVars,
                   runVars, rpcVars, accepted, out>>

AddUnknownMethod ==
    /\ Take("start") /\ rreq.pair \notin noncePairs /\ rreq.method \notin Methods
    /\ dpc' = "reply" /\ cur' = NoId
    /\ UNCHANGED <<clientVars, rerr, par, gerr, sender, todo, smsg, reqNil, derr,
                   dcancel, setVars, chanVars, runVars, rpcVars, accepted, out>>

\* Mutant: the (target, nonce) pair is not recorded.
AddForgetsNonce(id) ==
    /\ Take("start") /\ rreq.pair \notin noncePairs /\ rreq.method \in Methods
    /\ info[id] = NoInfo
    /\ info' = [info EXCEPT ![id] = [pair |-> rreq.pair, method |-> rreq.method,
                                     dry |-> rreq.dry]]
    /\ streams' = streams \cup {id} /\ UNCHANGED noncePairs
    /\ run' = [run EXCEPT ![id] = "new"]
    /\ dpc' = "reply" /\ cur' = id
    /\ UNCHANGED <<clientVars, rerr, par, gerr, sender, todo, smsg, reqNil, derr,
                   dcancel, closedStreams, chanVars, wr, wmsg, rd, serr, final,
                   rpcVars, accepted, out>>

\* Add registers a stream under a fresh id (NewTargetStream) and goes on to
\* announce it.
Add(id) ==
    /\ Take("start") /\ rreq.pair \notin noncePairs /\ rreq.method \in Methods
    /\ info[id] = NoInfo
    /\ info' = [info EXCEPT ![id] = [pair |-> rreq.pair, method |-> rreq.method,
                                     dry |-> rreq.dry]]
    /\ streams' = streams \cup {id} /\ noncePairs' = noncePairs \cup {rreq.pair}
    /\ run' = [run EXCEPT ![id] = "new"]
    /\ dpc' = "reply" /\ cur' = id
    /\ UNCHANGED <<clientVars, rerr, par, gerr, sender, todo, smsg, reqNil, derr,
                   dcancel, closedStreams, chanVars, wr, wmsg, rd, serr, final,
                   rpcVars, accepted, out>>

\* The end of Add: Run starts on a goroutine of its own.
AddEnds ==
    /\ dpc = "reply" /\ dpc' = "select" /\ cur' = NoId
    /\ IF cur = NoId THEN UNCHANGED <<run, wr>>
       ELSE /\ run' = [run EXCEPT ![cur] = "wait"]
            /\ wr' = [wr EXCEPT ![cur] = "dial"]
    /\ UNCHANGED <<clientVars, recvVars, todo, smsg, reqNil, derr, dcancel, setVars,
                   chanVars, wmsg, rd, serr, final, rpcVars, accepted>>

\* sendReply in Add: the reply reaches send, or the context is done.
AddReply   == AddEnds /\ Relay(cur, "start")
AddCtxDone == AddEnds /\ DispatchCtxDone /\ UNCHANGED <<sender, gerr, out>>

\* Send's first loop: closed ids are skipped, an unknown id or a payload of the
\* wrong type fails the whole RPC.
SendIds(r) == r.ids \ (closedStreams \ streams)
SendChecksOut(r) ==
    \A id \in SendIds(r) : id \in streams /\ info[id].method = r.method

SendInvalid ==
    /\ Take("data") /\ ~SendChecksOut(rreq)
    /\ DispatchReturns("InvalidArgument")
    /\ UNCHANGED <<clientVars, rerr, par, gerr, sender, setVars, chanVars,
                   runVars, rpcVars, accepted, out>>

SendBegin ==
    /\ Take("data") /\ SendChecksOut(rreq)
    /\ todo' = SendIds(rreq) /\ smsg' = <<rreq.msg>>
    /\ dpc' = IF SendIds(rreq) = {} THEN "select" ELSE "send"
    /\ UNCHANGED <<clientVars, rerr, par, gerr, sender, cur, reqNil, derr,
                   dcancel, setVars, chanVars, runVars, rpcVars, accepted, out>>

\* Send's second loop: TargetStream.Send puts the request on reqChan, or fails
\* when the stream's context or its gRPC stream's context is done.
SendEnqueue(id) ==
    /\ dpc = "send" /\ id \in todo /\ ~reqClosed[id]
    /\ Len(reqBuf[id]) < ReqBufferSize
    /\ reqBuf' = [reqBuf EXCEPT ![id] = @ \o smsg]
    /\ accepted' = [accepted EXCEPT ![id] = @ \o smsg]
    /\ todo' = todo \ {id} /\ dpc' = IF todo' = {} THEN "select" ELSE "send"
    /\ smsg' = IF todo' = {} THEN <<>> ELSE smsg
    /\ UNCHANGED <<clientVars, recvVars, gerr, sender, cur, reqNil, derr, dcancel,
                   setVars, reqClosed, errc, cancelled, runVars, rpcVars, out>>

SendFails(id) ==
    /\ dpc = "send" /\ id \in todo
    /\ StreamCtxDone(id) \/ GrpcCtxDone(id)
    /\ DispatchReturns("Canceled")
    /\ UNCHANGED <<clientVars, recvVars, gerr, sender, setVars, chanVars, runVars,
                   rpcVars, accepted, out>>

\* The select's case for a closed reqChan panics, and nothing recovers: the process
\* is gone, and with it the client's connection.
SendPanics(id) ==
    /\ dpc = "send" /\ id \in todo /\ reqClosed[id]
    /\ dpc' = "panic" /\ up' = FALSE
    /\ UNCHANGED <<nreq, usage, recvVars, gerr, sender, cur, todo, smsg, reqNil, derr,
                   dcancel, setVars, chanVars, runVars, rpcVars, accepted, out>>

ClientClose ==
    /\ Take("close")
    /\ reqClosed' = [id \in Ids |-> reqClosed[id] \/ id \in rreq.ids \cap streams]
    /\ UNCHANGED <<clientVars, rerr, par, gerr, sender, dispVars, setVars,
                   reqBuf, errc, cancelled, runVars, rpcVars, accepted, out>>

\* Ids are handled in the order of the request, so the streams before an
\* unknown one may have been cancelled when the RPC fails.
ClientCancel ==
    /\ Take("cancel")
    /\ LET known == rreq.ids \cap streams
           bad   == rreq.ids \ (streams \cup closedStreams)
       IN  \E hit \in SUBSET known :
              /\ bad = {} => hit = known
              /\ cancelled' = [id \in Ids |-> cancelled[id] \/ id \in hit]
              /\ IF bad = {} THEN UNCHANGED dispVars
                             ELSE DispatchReturns("InvalidArgument")
    /\ UNCHANGED <<clientVars, rerr, par, gerr, sender, setVars, reqBuf,
                   reqClosed, errc, runVars, rpcVars, accepted, out>>

UnknownRequest ==
    /\ Take("unknown") /\ DispatchReturns("Internal")
    /\ UNCHANGED <<clientVars, rerr, par, gerr, sender, setVars, chanVars,
                   runVars, rpcVars, accepted, out>>

\* Mutant: replyChan is closed without waiting for the streams.
DispatchExitNoWait ==
    /\ dpc = "wait"
    /\ dpc' = "exit" /\ dcancel' = TRUE /\ gerr' = First(gerr, derr)
    /\ UNCHANGED <<clientVars, recvVars, sender, cur, todo, smsg, reqNil, derr,
                   setVars, chanVars, runVars, rpcVars, accepted, out>>

\* streamSet.Wait returns when every stream's goroutine has called wg.Done; the
\* goroutine closes replyChan and hands dispatch's error to the errgroup.
DispatchExit ==
    /\ dpc = "wait" /\ \A id \in Ids : run[id] \in {"none", "gone"}
    /\ dpc' = "exit" /\ dcancel' = TRUE /\ gerr' = First(gerr, derr)
    /\ UNCHANGED <<clientVars, recvVars, sender, cur, todo, smsg, reqNil, derr,
                   setVars, chanVars, runVars, rpcVars, accepted, out>>

---------------------------------------------------------------------------
(* The writer goroutine of a target stream.                                *)

CloseWith(id, e) ==
    IF errc[id] = OK
    THEN /\ errc' = [errc EXCEPT ![id] = e]
         /\ cancelled' = [cancelled EXCEPT ![id] = TRUE]
    ELSE UNCHANGED <<errc, cancelled>>

WriterExits(id, e) ==
    /\ wr' = [wr EXCEPT ![id] = "exit"] /\ wmsg' = [wmsg EXCEPT ![id] = <<>>]
    /\ serr' = [serr EXCEPT ![id] = First(@, e)]

\* What none of a stream's own steps changes.
proxyVars == <<clientVars, recvVars, dispVars, setVars>>

\* Dialling and NewStream succeed: the reader starts, requests can flow.
Connect(id) ==
    /\ wr[id] = "dial"
    /\ wr' = [wr EXCEPT ![id] = "loop"] /\ rd' = [rd EXCEPT ![id] = "recv"]
    /\ rpc' = [rpc EXCEPT ![id] = "open"]
    /\ UNCHANGED <<proxyVars, gerr, sender, chanVars, run, wmsg, serr, final,
                   inbound, nrep, got, half, accepted, out>>

\* Dialling or NewStream fails, or times out, or its context is done.
ConnectFails(id) ==
    /\ wr[id] = "dial"
    /\ cancelled' = [cancelled EXCEPT ![id] = TRUE]
    /\ WriterExits(id, "Unreachable")
    /\ UNCHANGED <<proxyVars, gerr, sender, reqBuf, reqClosed, errc, run, rd,
                   final, rpcVars, accepted, out>>

WriterCtxDone(id) ==
    /\ wr[id] = "loop" /\ RunCtxDone(id)
    /\ WriterExits(id, "Canceled")
    /\ UNCHANGED <<proxyVars, gerr, sender, chanVars, run, rd, final, rpcVars,
                   accepted, out>>

\* Mutant: a closed reqChan is not drained before the half-close.
WriterClosedEarly(id) ==
    /\ wr[id] = "loop" /\ reqClosed[id]
    /\ half' = [half EXCEPT ![id] = IsClientStream(id)]
    /\ WriterExits(id, OK)
    /\ UNCHANGED <<proxyVars, gerr, sender, chanVars, run, rd, final, rpc, inbound,
                   nrep, got, accepted, out>>

\* reqChan is closed and drained: half-close a client stream, and finish.
WriterClosed(id) ==
    /\ wr[id] = "loop" /\ reqClosed[id] /\ reqBuf[id] = <<>>
    /\ half' = [half EXCEPT ![id] = IsClientStream(id)]
    /\ WriterExits(id, OK)
    /\ UNCHANGED <<proxyVars, gerr, sender, chanVars, run, rd, final, rpc, inbound,
                   nrep, got, accepted, out>>

WriterTakes(id) ==
    /\ wr[id] = "loop" /\ reqBuf[id] # <<>>
    /\ wr' = [wr EXCEPT ![id] = "eval"]
    /\ wmsg' = [wmsg EXCEPT ![id] = <<Head(reqBuf[id])>>]
    /\ reqBuf' = [reqBuf EXCEPT ![id] = Tail(@)]
    /\ UNCHANGED <<proxyVars, gerr, sender, reqClosed, errc, cancelled, run, rd,
                   serr, final, rpcVars, accepted, out>>

\* What the authorizer says of the request the writer holds: the policy's
\* verdict, or an error of building its input or of a cancelled context.
EvalErrors(id) ==
    {"Internal"} \cup (IF <<info[id].pair, wmsg[id][1]>> \in Permitted
                       THEN {} ELSE {"PermissionDenied"})
Allows(id) == <<info[id].pair, wmsg[id][1]>> \in Permitted

EvalDenied(id) ==
    /\ wr[id] = "eval"
    /\ \E e \in EvalErrors(id) : CloseWith(id, e) /\ WriterExits(id, e)
    /\ UNCHANGED <<proxyVars, gerr, sender, reqBuf, reqClosed, run, rd, final,
                   rpcVars, accepted, out>>

EvalDryRun(id) ==
    /\ wr[id] = "eval" /\ Allows(id) /\ info[id].dry
    /\ CloseWith(id, "Aborted") /\ WriterExits(id, OK)
    /\ UNCHANGED <<proxyVars, gerr, sender, reqBuf, reqClosed, run, rd, final,
                   rpcVars, accepted, out>>

\* Mutant: a dry run is sent to the target.
EvalAllowsDryRun(id) ==
    /\ wr[id] = "eval" /\ Allows(id)
    /\ wr' = [wr EXCEPT ![id] = "send"]
    /\ UNCHANGED <<proxyVars, gerr, sender, chanVars, run, wmsg, rd, serr, final,
                   rpcVars, accepted, out>>

EvalAllows(id) ==
    /\ wr[id] = "eval" /\ Allows(id) /\ ~info[id].dry
    /\ wr' = [wr EXCEPT ![id] = "send"]
    /\ UNCHANGED <<proxyVars, gerr, sender, chanVars, run, wmsg, rd, serr, final,
                   rpcVars, accepted, out>>

\* Mutant: the writer of a unary stream waits for more requests.
WriterSendsOn(id) ==
    /\ wr[id] = "send" /\ rpc[id] = "open"
    /\ got' = [got EXCEPT ![id] = @ \o wmsg[id]]
    /\ wr' = [wr EXCEPT ![id] = "loop"] /\ wmsg' = [wmsg EXCEPT ![id] = <<>>]
    /\ UNCHANGED serr
    /\ UNCHANGED <<proxyVars, gerr, sender, chanVars, run, rd, final, rpc, inbound,
                   nrep, half, accepted, out>>

\* SendMsg succeeds; without a client stream the writer is finished.
WriterSends(id) ==
    /\ wr[id] = "send" /\ rpc[id] = "open"
    /\ got' = [got EXCEPT ![id] = @ \o wmsg[id]]
    /\ IF IsClientStream(id)
       THEN /\ wr' = [wr EXCEPT ![id] = "loop"] /\ wmsg' = [wmsg EXCEPT ![id] = <<>>]
            /\ UNCHANGED serr
       ELSE WriterExits(id, OK)
    /\ UNCHANGED <<proxyVars, gerr, sender, chanVars, run, rd, final, rpc, inbound,
                   nrep, half, accepted, out>>

\* SendMsg returns io.EOF, since the RPC has ended, or another error.
WriterSendFails(id) ==
    /\ wr[id] = "send"
    /\ cancelled' = [cancelled EXCEPT ![id] = TRUE]
    /\ IF rpc[id] = "open"
       THEN WriterExits(id, "Internal") /\ rpc' = [rpc EXCEPT ![id] = "Internal"]
       ELSE WriterExits(id, OK) /\ UNCHANGED rpc
    /\ UNCHANGED <<proxyVars, gerr, sender, reqBuf, reqClosed, errc, run, rd,
                   final, inbound, nrep, got, half, accepted, out>>

---------------------------------------------------------------------------
(* The reader goroutine of a target stream.                                *)

\* Mutant: a reply is read that was never sent.
ReadDataUnguarded(id) ==
    /\ rd[id] = "recv"
    /\ inbound' = [inbound EXCEPT ![id] = @ - 1]
    /\ rd' = [rd EXCEPT ![id] = IF IsServerStream(id) THEN "push" ELSE "last"]
    /\ UNCHANGED <<proxyVars, gerr, sender, chanVars, run, wr, wmsg, serr, final,
                   rpc, nrep, got, half, accepted, out>>

\* RecvMsg returns a reply; gRPC ends a non-streaming RPC with it, so that the
\* reader's next RecvMsg returns io.EOF: "last" is that reply's push.
ReadData(id) ==
    /\ rd[id] = "recv" /\ inbound[id] > 0
    /\ inbound' = [inbound EXCEPT ![id] = @ - 1]
    /\ rd' = [rd EXCEPT ![id] = IF IsServerStream(id) THEN "push" ELSE "last"]
    /\ UNCHANGED <<proxyVars, gerr, sender, chanVars, run, wr, wmsg, serr, final,
                   rpc, nrep, got, half, accepted, out>>

ReadEOF(id) ==
    /\ rd[id] = "recv" /\ inbound[id] = 0 /\ rpc[id] = OK
    /\ rd' = [rd EXCEPT ![id] = "exit"]
    /\ UNCHANGED <<proxyVars, gerr, sender, chanVars, run, wr, wmsg, serr, final,
                   rpcVars, accepted, out>>

Tolerated(id) == rpc[id] = "NoReply" /\ IsClientStream(id) /\ ~IsServerStream(id)

\* A client-streaming target ended without a reply: an empty one is made up.
ReadTolerated(id) ==
    /\ rd[id] = "recv" /\ inbound[id] = 0 /\ Tolerated(id)
    /\ rd' = [rd EXCEPT ![id] = "last"]
    /\ UNCHANGED <<proxyVars, gerr, sender, chanVars, run, wr, wmsg, serr, final,
                   rpcVars, accepted, out>>

ReadErr(id) ==
    /\ rd[id] = "recv" /\ inbound[id] = 0
    /\ rpc[id] \in Ended \ {OK} /\ ~Tolerated(id)
    /\ LET e == IF rpc[id] = "NoReply" THEN "Internal" ELSE rpc[id]
       IN  CloseWith(id, e) /\ serr' = [serr EXCEPT ![id] = First(@, e)]
    /\ rd' = [rd EXCEPT ![id] = "exit"]
    /\ UNCHANGED <<proxyVars, gerr, sender, reqBuf, reqClosed, run, wr, wmsg, final,
                   rpcVars, accepted, out>>

\* replyChan <- StreamData, with no other way out.
ReaderPush(id) ==
    /\ rd[id] \in {"push", "last"} /\ Relay(id, "data")
    /\ rd' = [rd EXCEPT ![id] = IF @ = "push" THEN "recv" ELSE "exit"]
    /\ UNCHANGED <<proxyVars, chanVars, run, wr, wmsg, serr, final, rpcVars, accepted>>

---------------------------------------------------------------------------
(* Run: the errgroup has ended; then ServerClose, doneChan and wg.Done.    *)

\* Mutant: Run does not wait for the reader.
RunWaitWriterOnly(id) ==
    /\ run[id] = "wait" /\ wr[id] = "exit"
    /\ run' = [run EXCEPT ![id] = "push"]
    /\ final' = [final EXCEPT ![id] = IF errc[id] # OK THEN errc[id] ELSE serr[id]]
    /\ errc' = [errc EXCEPT ![id] = OK]
    /\ UNCHANGED <<proxyVars, gerr, sender, reqBuf, reqClosed, cancelled, wr, wmsg,
                   rd, serr, rpcVars, accepted, out>>

\* Mutant: Run drops the error of its errgroup.
RunWaitErrChanOnly(id) ==
    /\ run[id] = "wait" /\ wr[id] = "exit" /\ rd[id] \in {"off", "exit"}
    /\ run' = [run EXCEPT ![id] = "push"]
    /\ final' = [final EXCEPT ![id] = IF errc[id] # OK THEN errc[id] ELSE OK]
    /\ errc' = [errc EXCEPT ![id] = OK]
    /\ UNCHANGED <<proxyVars, gerr, sender, reqBuf, reqClosed, cancelled, wr, wmsg,
                   rd, serr, rpcVars, accepted, out>>

RunWait(id) ==
    /\ run[id] = "wait" /\ wr[id] = "exit" /\ rd[id] \in {"off", "exit"}
    /\ run' = [run EXCEPT ![id] = "push"]
    /\ final' = [final EXCEPT ![id] = IF errc[id] # OK THEN errc[id] ELSE serr[id]]
    /\ errc' = [errc EXCEPT ![id] = OK]
    /\ UNCHANGED <<proxyVars, gerr, sender, reqBuf, reqClosed, cancelled, wr, wmsg,
                   rd, serr, rpcVars, accepted, out>>

\* Mutant: a stream whose context is done skips ServerClose.
RunPushOrCtx(id) ==
    /\ run[id] = "push"
    /\ \/ Relay(id, "close")
       \/ StreamCtxDone(id) /\ UNCHANGED <<gerr, sender, out>>
    /\ run' = [run EXCEPT ![id] = "notify"]
    /\ UNCHANGED <<proxyVars, chanVars, wr, wmsg, rd, serr, final, rpcVars, accepted>>

\* replyChan <- ServerClose, with no other way out.
RunPush(id) ==
    /\ run[id] = "push" /\ Relay(id, "close")
    /\ run' = [run EXCEPT ![id] = "notify"]
    /\ UNCHANGED <<proxyVars, chanVars, wr, wmsg, rd, serr, final, rpcVars, accepted>>

\* Nobody took the id off doneChan, but dispatch's context is done.
RunCtxGone(id) ==
    /\ run[id] = "notify" /\ DispatchCtxDone
    /\ run' = [run EXCEPT ![id] = "gone"]
    /\ UNCHANGED <<proxyVars, gerr, sender, chanVars, wr, wmsg, rd, serr, final,
                   rpcVars, accepted, out>>

---------------------------------------------------------------------------
(* The target server and the gRPC client stream to it (external).          *)

\* The target has all the input it waits for.
InputComplete(id) == IF IsClientStream(id) THEN half[id] ELSE got[id] # <<>>

TargetReplies(id) ==
    /\ rpc[id] = "open" /\ IsServerStream(id) /\ nrep[id] < MaxReplies
    /\ IsClientStream(id) \/ got[id] # <<>>
    /\ inbound' = [inbound EXCEPT ![id] = @ + 1]
    /\ nrep' = [nrep EXCEPT ![id] = @ + 1]
    /\ UNCHANGED <<proxyVars, gerr, sender, chanVars, runVars, rpc, got, half,
                   accepted, out>>

\* The handler returns nil, having sent its one reply (if it is not streaming).
TargetFinishes(id) ==
    /\ rpc[id] = "open" /\ (IsClientStream(id) \/ got[id] # <<>>)
    /\ rpc' = [rpc EXCEPT ![id] = OK]
    /\ inbound' = [inbound EXCEPT ![id] = IF IsServerStream(id) THEN @ ELSE 1]
    /\ UNCHANGED <<proxyVars, gerr, sender, chanVars, runVars, nrep, got, half,
                   accepted, out>>

\* The handler fails, or ends without the one reply it owes.
TargetFails(id) ==
    /\ rpc[id] = "open"
    /\ \E e \in {"Target"} \cup (IF IsServerStream(id) THEN {} ELSE {"NoReply"}) :
          rpc' = [rpc EXCEPT ![id] = e]
    /\ UNCHANGED <<proxyVars, gerr, sender, chanVars, runVars, inbound, nrep, got,
                   half, accepted, out>>

TargetEnds(id) == InputComplete(id) /\ (TargetFinishes(id) \/ TargetFails(id))

\* gRPC ends the RPC once the context it was made with is done.
RpcCancelled(id) ==
    /\ rpc[id] = "open" /\ RunCtxDone(id)
    /\ rpc' = [rpc EXCEPT ![id] = "Canceled"]
    /\ UNCHANGED <<proxyVars, gerr, sender, chanVars, runVars, inbound, nrep, got,
                   half, accepted, out>>

---------------------------------------------------------------------------
Receive == RecvBroken \/ ReceiveCtxDone \/ ReceiveReport
Parent == ParentSelect \/ ParentCtxDone

DispatchRequest ==
    \/ AddReused \/ AddUnknownMethod \/ (\E id \in Ids : Add(id))
    \/ SendInvalid \/ SendBegin \/ ClientClose \/ ClientCancel \/ UnknownRequest
DispatchIdle ==
    \/ DispatchRequest \/ DispatchCtx \/ DispatchClosed
    \/ \E id \in Ids : DispatchDone(id)
DispatchSend == \E id \in Ids : SendEnqueue(id) \/ SendFails(id) \/ SendPanics(id)
Dispatch == DispatchIdle \/ AddReply \/ AddCtxDone \/ DispatchSend \/ DispatchExit

Writer(id) ==
    \/ Connect(id) \/ ConnectFails(id)
    \/ WriterCtxDone(id) \/ WriterClosed(id) \/ WriterTakes(id)
    \/ EvalDenied(id) \/ EvalDryRun(id) \/ EvalAllows(id)
    \/ WriterSends(id) \/ WriterSendFails(id)
Reader(id) == ReadData(id) \/ ReadEOF(id) \/ ReadTolerated(id) \/ ReadErr(id) \/ ReaderPush(id)
Run(id) == RunWait(id) \/ RunPush(id) \/ RunCtxGone(id)
Target(id) == TargetReplies(id) \/ TargetFinishes(id) \/ TargetFails(id) \/ RpcCancelled(id)

Client ==
    \/ rcv = "recv" /\ up /\ \E r \in ClientRequests : Recv(r)
    \/ RecvEOF \/ RecvRefused \/ ClientBreaks

\* The RPC is over, or nobody waits for it any more.
Returned == (HandlerDone \/ ~up) /\ UNCHANGED vars

Step ==
    \/ Client \/ Receive \/ Parent \/ SendExit \/ Dispatch
    \/ \E id \in Ids : Writer(id) \/ Reader(id) \/ Run(id) \/ Target(id)

Next == (Alive /\ Step) \/ Returned

Spec == Init /\ [][Next]_vars

(***************************************************************************)
(* Fairness: the Go scheduler runs every goroutine that can move, gRPC      *)
(* propagates a cancellation, and a target that has all its input ends.     *)
(* The client owes nothing.                                                 *)
(***************************************************************************)
Fairness ==
    /\ WF_vars(Alive /\ Receive) /\ WF_vars(Alive /\ Parent)
    /\ WF_vars(SendExit) /\ WF_vars(Dispatch)
    /\ \A id \in Ids :
          /\ WF_vars(Alive /\ Writer(id)) /\ WF_vars(Alive /\ Reader(id))
          /\ WF_vars(Alive /\ Run(id))
          /\ WF_vars(Alive /\ TargetEnds(id)) /\ WF_vars(Alive /\ RpcCancelled(id))
FairSpec == Spec /\ Fairness

---------------------------------------------------------------------------
(* Properties.                                                             *)

ReceiveType ==
    /\ up \in BOOLEAN /\ nreq \in 0..MaxReqs
    /\ usage \in [Ids -> {"open", "closed", "misused"}]
    /\ rcv \in {"recv", "hold", "ret", "closed"} /\ rreq \in Requests
    /\ rerr \in Status /\ par \in {"start", "select", "done"}
    /\ gerr \in Status /\ sender \in {"idle", "exit"}
DispatchType ==
    /\ dpc \in {"select", "reply", "send", "wait", "exit", "panic"}
    /\ cur \in Ids \cup {NoId} /\ todo \in SUBSET Ids /\ smsg \in Seq(Msgs)
    /\ reqNil \in BOOLEAN /\ derr \in Status /\ dcancel \in BOOLEAN
SetType ==
    /\ info \in [Ids -> Infos \cup {NoInfo}]
    /\ streams \in SUBSET Ids /\ closedStreams \in SUBSET Ids
    /\ noncePairs \in SUBSET Pairs
ChanType ==
    /\ reqBuf \in [Ids -> Seq(Msgs)] /\ reqClosed \in [Ids -> BOOLEAN]
    /\ errc \in [Ids -> Status] /\ cancelled \in [Ids -> BOOLEAN]
RunType ==
    /\ run \in [Ids -> {"none", "new", "wait", "push", "notify", "gone"}]
    /\ wr \in [Ids -> {"off", "dial", "loop", "eval", "send", "exit"}]
    /\ wmsg \in [Ids -> Seq(Msgs)]
    /\ rd \in [Ids -> {"off", "recv", "push", "last", "exit"}]
    /\ serr \in [Ids -> Status] /\ final \in [Ids -> Status]
RpcType ==
    /\ rpc \in [Ids -> {"none", "open"} \cup Ended]
    /\ inbound \in [Ids -> Nat] /\ nrep \in [Ids -> Nat]
    /\ got \in [Ids -> Seq(Msgs)] /\ half \in [Ids -> BOOLEAN]
HistoryType ==
    /\ accepted \in [Ids -> Seq(Msgs)]
    /\ out \in [Ids -> Seq({"start", "data", "close"})]
TypeOK ==
    /\ ReceiveType /\ DispatchType /\ SetType /\ ChanType /\ RunType /\ RpcType
    /\ HistoryType

Closed(id) == out[id] # <<>> /\ out[id][Len(out[id])] = "close"

\* What a client sees of one stream (target.go Add, reader and Run, all racing
\* for replyChan): its announcement, then data, then one ServerClose and
\* nothing more.  Only a client whose RPC is already failing may miss the
\* announcement.
ReplyOrder ==
    \A id \in Ids : \A i \in 1..Len(out[id]) :
        /\ out[id][i] = "close" => i = Len(out[id])
        /\ out[id][i] = "start" => i = 1
        /\ i = 1 /\ out[id][i] # "start" => DispatchCtxDone

\* No goroutine sends on a closed channel, which would panic: replyChan is
\* closed only when no stream can still push (server.go:173, 189); and Send
\* comes upon a closed reqChan (target.go:182) only for a client that has sent
\* StreamData on that stream after its own ClientClose, which the proxy does
\* not check.  No half-close of the RPC, no close of another stream and no
\* late data make it happen to a client that keeps to the order.
NoSendOnClosedChannel ==
    /\ dpc = "exit" => \A id \in Ids : rd[id] \notin {"push", "last"} /\ run[id] # "push"
    /\ dpc \in {"send", "panic"} =>
          \A id \in todo : reqClosed[id] => usage[id] = "misused"

\* dispatch gives up its select without an error only when no stream can still
\* report on doneChan (server.go:282-285): otherwise Wait never returns.
NoStrandedStream ==
    dpc \in {"wait", "exit"} /\ ~DispatchCtxDone =>
        streams = {} /\ \A id \in Ids : run[id] \in {"none", "gone"}

\* No two streams ever share a (target, nonce), so that a client can tell the
\* StartStreamReplies apart (target.go:478-492).
NonceUnambiguous ==
    \A a, b \in Ids : a # b /\ info[a] # NoInfo /\ info[b] # NoInfo =>
        info[a].pair # info[b].pair

\* The target receives what Send accepted, in that order, without a gap and
\* without a request the policy refuses for it; a dry run sends it nothing;
\* and its half-close comes after everything accepted (target.go:291-372).
DeliveryFaithful ==
    \A id \in Ids :
        /\ Len(got[id]) <= Len(accepted[id])
        /\ got[id] = SubSeq(accepted[id], 1, Len(got[id]))
        /\ \A i \in 1..Len(got[id]) :
              <<info[id].pair, got[id][i]>> \in Permitted /\ ~info[id].dry
        /\ half[id] => got[id] = accepted[id]

\* A ServerClose with status OK means that the target's handler ended OK (or
\* owed a reply that is tolerated), and that every reply it sent was relayed
\* (target.go:376-401).
OkMeansTargetOk ==
    \A id \in Ids : run[id] \in {"push", "notify", "gone"} /\ final[id] = OK =>
        /\ rpc[id] = OK \/ Tolerated(id)
        /\ inbound[id] = 0
        /\ up /\ Announced(id) /\ IsServerStream(id) =>
              Cardinality({i \in 1..Len(out[id]) : out[id][i] = "data"}) = nrep[id]

\* A unary target that answered is closed with OK, never with an error after the
\* answer: InvokeOneMany relies on it (target.go:353-392, proxy.go:674-682).
ReplyMeansOk ==
    \A id \in Ids :
        /\ run[id] \in {"push", "notify", "gone"} /\ info[id] # NoInfo
        /\ ~IsClientStream(id) /\ ~IsServerStream(id)
        /\ \E i \in 1..Len(out[id]) : out[id][i] = "data"
        => final[id] = OK

\* A cancelled stream is closed (TestProxyServerCancel).
CancelCloses == \A id \in Ids : cancelled[id] ~> Closed(id) \/ ~up

\* A stream whose requests are not a stream is closed once its target ended.
UnaryCloses ==
    \A id \in Ids : (rpc[id] \in Ended /\ ~IsClientStream(id)) ~> Closed(id) \/ ~up

\* The RPC ends after the client half-closed, if each stream that waits for one
\* request was sent it (TestProxyEndsAfterClientCloseSend).
EndsAfterHalfClose ==
    (/\ rcv \in {"ret", "closed"} /\ up
     /\ \A id \in streams : IsClientStream(id) \/ accepted[id] # <<>>)
        ~> HandlerDone \/ ~up

\* An error of dispatch or of receive ends the RPC, if the client stays.
ErrorEnds == (derr # OK \/ gerr # OK) ~> HandlerDone \/ ~up

\* The stream protocol of the client's view, the policy and the order of the
\* target's requests, as one abstract machine per stream.
Phase(id) == IF Closed(id) THEN "closed" ELSE IF Announced(id) THEN "open" ELSE "idle"
PolicyOf(id) ==
    {m \in Msgs : info[id] # NoInfo /\ <<info[id].pair, m>> \in Permitted /\ ~info[id].dry}
Session == INSTANCE ProxySession
              WITH phase <- [id \in Ids |-> Phase(id)], torn <- DispatchCtxDone,
                   allowed <- [id \in Ids |-> PolicyOf(id)]
ImplementsSession == Session!Spec

---------------------------------------------------------------------------
(* The inductive invariant of the proofs.                                  *)

\* A pair of a stream is used up.
NonceInv ==
    /\ NonceUnambiguous
    /\ \A id \in Ids : info[id] # NoInfo => info[id].pair \in noncePairs

\* The life of a stream: Add makes it and starts Run, which outlives the writer
\* and the reader, and which dispatch and the stream set know of.
LifeInv ==
    \A id \in Ids :
        /\ info[id] = NoInfo <=> run[id] = "none"
        /\ wr[id] \notin {"off", "exit"} => run[id] = "wait"
        /\ rd[id] \notin {"off", "exit"} => run[id] = "wait"
        /\ run[id] = "new" <=> dpc = "reply" /\ cur = id
        /\ run[id] \notin {"none", "gone"} => id \in streams

\* dispatch is over when no stream is left, or once every context is done.
ExitInv ==
    /\ dpc = "exit" => \A id \in Ids : run[id] \in {"none", "gone"}
    /\ NoStrandedStream

\* Who closed a channel: the client, as long as dispatch still takes requests; so that
\* data for a closed channel were sent after the close.
DataInv ==
    /\ rcv = "hold" /\ rreq.op = "close" => \A id \in rreq.ids : usage[id] # "open"
    /\ rcv = "hold" /\ rreq.op = "data" => \A id \in rreq.ids : usage[id] # "closed"
    /\ ~reqNil /\ dpc \in {"select", "reply", "send"} =>
          \A id \in Ids : reqClosed[id] => usage[id] # "open"
    /\ reqNil => dpc # "send"
    /\ dpc \in {"send", "panic"} =>
          \A id \in todo : reqClosed[id] => usage[id] = "misused"

\* What the client has been sent, against where Run is.
OutInv ==
    /\ ReplyOrder
    /\ \A id \in Ids :
        /\ run[id] \in {"none", "new"} => out[id] = <<>>
        /\ run[id] \in {"wait", "push"} => \A i \in 1..Len(out[id]) : out[id][i] # "close"
        /\ run[id] \notin {"none", "new"} => Announced(id) \/ DispatchCtxDone

IInv == TypeOK /\ NonceInv /\ LifeInv /\ ExitInv /\ DataInv /\ OutInv

---------------------------------------------------------------------------
(* What the proofs about delivery, statuses and the abstract session add.  *)

\* a is the sequence g, w, b, in this order and with nothing lost between them.
\* (g itself, which a writer that has ended leaves in place, is RequestPath's.)
Chain(a, g, w, b) ==
    /\ Len(a) = Len(g) + Len(w) + Len(b)
    /\ \A i \in 1..Len(w) : a[Len(g) + i] = w[i]
    /\ \A i \in 1..Len(b) : a[Len(g) + Len(w) + i] = b[i]

\* What Send accepted is on its way: with the target, in the writer's hand and on reqChan.
Queued(id) == Chain(accepted[id], got[id], wmsg[id], reqBuf[id])

\* The path of requests.  A writer that has ended leaves what it had; a half-close is
\* final, because it was made when reqChan was closed and drained.
RequestPath(id) ==
    /\ wr[id] = "off" <=> run[id] \in {"none", "new"}
    /\ wr[id] \in {"off", "dial"} => rpc[id] = "none" /\ got[id] = <<>> /\ ~half[id]
    /\ IF wr[id] \in {"eval", "send"} THEN Len(wmsg[id]) = 1 ELSE wmsg[id] = <<>>
    /\ wr[id] = "send" => Allows(id) /\ ~info[id].dry
    /\ wr[id] # "exit" => Queued(id)
    /\ Len(got[id]) <= Len(accepted[id])
    /\ \A i \in 1..Len(got[id]) :
          /\ got[id][i] = accepted[id][i]
          /\ <<info[id].pair, got[id][i]>> \in Permitted /\ ~info[id].dry
    /\ half[id] => wr[id] = "exit" /\ reqClosed[id] /\ Len(got[id]) = Len(accepted[id])
    /\ accepted[id] # <<>> => Announced(id)

\* The path of replies: each is with the target, in the reader's hand or with the client;
\* one that is not streamed comes with the end of the RPC.
Relayed(s) == Cardinality({i \in 1..Len(s) : s[i] = "data"})
ReplyPath(id) ==
    /\ wr[id] # "exit" => (rd[id] = "off" <=> wr[id] \in {"off", "dial"})
    /\ rd[id] = "off" => rpc[id] = "none" /\ inbound[id] = 0 /\ nrep[id] = 0
    /\ IF IsServerStream(id)
       THEN /\ rd[id] # "last"
            /\ up => nrep[id] = Relayed(out[id]) + inbound[id]
                                + (IF rd[id] = "push" THEN 1 ELSE 0)
       ELSE rd[id] # "push" /\ inbound[id] \in {0, 1} /\ (inbound[id] = 1 => rpc[id] = OK)
    /\ rd[id] = "last" => (rpc[id] = OK \/ Tolerated(id)) /\ inbound[id] = 0
    /\ rd[id] = "exit" /\ serr[id] = OK => (rpc[id] = OK \/ Tolerated(id)) /\ inbound[id] = 0

\* Errors: nobody reports one before it ends, and the writer's end without a reader is one;
\* what the errgroup saw survives until ServerClose.
ErrorPath(id) ==
    /\ wr[id] # "exit" /\ rd[id] # "exit" => serr[id] = OK /\ errc[id] = OK
    /\ wr[id] = "exit" /\ rd[id] = "off" => serr[id] # OK
    /\ run[id] \in {"push", "notify", "gone"} /\ final[id] = OK =>
          serr[id] = OK /\ rd[id] # "off"

\* A unary stream: the writer is finished with the one request, so that after the answer
\* nobody can report an error.
HasData(id) == \E i \in 1..Len(out[id]) : out[id][i] = "data"
UnaryPath(id) ==
    ~IsClientStream(id) =>
        /\ got[id] # <<>> => wr[id] = "exit" /\ (rd[id] # "exit" => serr[id] = OK /\ errc[id] = OK)
        /\ rpc[id] = OK => got[id] # <<>>
        /\ ~IsServerStream(id) /\ HasData(id) =>
              /\ rd[id] = "exit" /\ wr[id] = "exit" /\ serr[id] = OK
              /\ run[id] = "wait" => errc[id] = OK
              /\ run[id] \in {"push", "notify", "gone"} => final[id] = OK

\* Who is named in a request for data was announced, or is nobody yet.
NamedInv ==
    /\ \A id \in streams : info[id] # NoInfo
    /\ rcv = "hold" /\ rreq.op = "data" =>
          \A id \in rreq.ids : Announced(id) \/ info[id] = NoInfo
    /\ dpc = "send" => Len(smsg) = 1 /\ \A id \in todo : Announced(id)

PathInv ==
    /\ NamedInv
    /\ \A id \in Ids : RequestPath(id) /\ ReplyPath(id) /\ ErrorPath(id) /\ UnaryPath(id)

---------------------------------------------------------------------------
(* What comments, docs and tests say, and the code does not do.            *)

\* proxy/README.md:85: the streams of a client are cancelled automatically when
\* its stream is broken; server.go:188 waits for them to exit.
EndsAfterBreak == ~up ~> HandlerDone
===========================================================================
