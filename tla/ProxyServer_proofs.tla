-------------------------- MODULE ProxyServer_proofs --------------------------
(***************************************************************************)
(* Theorems about ProxyServer, for every set of streams, pairs, methods,   *)
(* payloads and policies, all bounds and all the things a client may do.   *)
(* One lemma per action shows that it preserves the inductive invariant    *)
(* IInv; the theorems follow.                                              *)
(***************************************************************************)
EXTENDS ProxyServer, TLAPS

---------------------------------------------------------------------------
(* Requests, statuses and sequences.                                       *)

LEMMA StartRequest ==
    ASSUME NEW r \in Requests, r.op = "start"
    PROVE  r \in StartReqs
BY DEF Requests, StartReqs, DataReqs, IdReqs, NoReq

LEMMA DataRequest ==
    ASSUME NEW r \in Requests, r.op = "data"
    PROVE  r \in DataReqs
BY DEF Requests, StartReqs, DataReqs, IdReqs, NoReq

LEMMA NoRequest == NoReq \in Requests /\ NoReq.op = "unknown"
BY DEF Requests, NoReq

LEMMA ClientRequest ==
    ASSUME NEW r \in ClientRequests
    PROVE  r \in Requests /\ (r.op \in {"data", "close"} => r.ids \subseteq Ids)
BY DEF ClientRequests, Requests, StartReqs, DataReqs, IdReqs, NoReq

LEMMA Statuses ==
    /\ OK \in Status /\ Errors \subseteq Status /\ OK \notin Errors
    /\ \A e, f \in Status : First(e, f) \in Status
BY DEF Status, Errors, OK, First

LEMMA NoneIsSeq == ASSUME NEW S PROVE <<>> \in Seq(S)
OBVIOUS

LEMMA Concat ==
    ASSUME NEW S, NEW s \in Seq(S), NEW t \in Seq(S)
    PROVE  s \o t \in Seq(S)
OBVIOUS

LEMMA HeadSeq ==
    ASSUME NEW S, NEW s \in Seq(S), s # <<>>
    PROVE  <<Head(s)>> \in Seq(S)
OBVIOUS

\* The writer's part of RunType when it stops.
LEMMA WriterEnds ==
    ASSUME RunType, NEW id \in Ids, NEW e \in Status, WriterExits(id, e),
           UNCHANGED <<run, rd, final>>
    PROVE  RunType'
BY Statuses, NoneIsSeq DEF RunType, WriterExits

LEMMA AppendSeq ==
    ASSUME NEW S, NEW s \in Seq(S), NEW x \in S
    PROVE  /\ Append(s, x) \in Seq(S) /\ Append(s, x) # <<>>
           /\ Len(Append(s, x)) = Len(s) + 1 /\ Len(s) \in Nat
           /\ \A i \in 1..Len(s) : Append(s, x)[i] = s[i]
           /\ Append(s, x)[Len(s) + 1] = x
OBVIOUS

---------------------------------------------------------------------------
(* What the client is sent.                                                *)

\* A step that sends nothing and moves no Run.
LEMMA OutFrame ==
    ASSUME OutInv, run' = run, out' = out, DispatchCtxDone => DispatchCtxDone'
    PROVE  OutInv'
BY DEF OutInv, ReplyOrder, Announced

\* A step that sends nothing and moves a Run that has started.
LEMMA OutMoves ==
    ASSUME OutInv, RunType, out' = out, DispatchCtxDone => DispatchCtxDone',
           NEW id \in Ids, NEW s \in {"push", "notify", "gone"},
           run[id] \in {"wait", "push", "notify"}, s = "push" => run[id] = "wait",
           run' = [run EXCEPT ![id] = s]
    PROVE  OutInv'
BY DEF OutInv, RunType, ReplyOrder, Announced

LEMMA RelayHistory ==
    ASSUME HistoryType, NEW id \in Ids \cup {NoId},
           NEW m \in {"start", "data", "close"}, Relay(id, m), accepted' = accepted
    PROVE  HistoryType'
<1>1. CASE id \in Ids
  <2>1. Append(out[id], m) \in Seq({"start", "data", "close"})
    BY <1>1, AppendSeq DEF HistoryType
  <2> QED BY <1>1, <2>1 DEF HistoryType, Relay
<1>2. CASE id \notin Ids
  BY <1>2 DEF HistoryType, Relay
<1> QED BY <1>1, <1>2

\* A message of a stream that is not closed keeps the order, if the first one
\* announces the stream or comes when dispatch's context is done.
LEMMA RelayOut ==
    ASSUME HistoryType, ReceiveType, ReplyOrder, NEW id \in Ids,
           NEW m \in {"start", "data", "close"}, Relay(id, m), UNCHANGED <<up, dcancel>>,
           \A i \in 1..Len(out[id]) : out[id][i] # "close",
           IF m = "start" THEN out[id] = <<>> ELSE Announced(id) \/ DispatchCtxDone
    PROVE  /\ ReplyOrder' /\ (Announced(id)' \/ DispatchCtxDone')
           /\ DispatchCtxDone => DispatchCtxDone'
           /\ \A j \in Ids \ {id} : out'[j] = out[j]
           /\ m # "close" => \A i \in 1..Len(out'[id]) : out'[id][i] # "close"
<1>1. DispatchCtxDone => DispatchCtxDone'
  BY DEF Relay, DispatchCtxDone, GroupCtxDone, First, OK
<1>2. CASE ~up
  BY <1>1, <1>2 DEF Relay, DispatchCtxDone, GroupCtxDone, ReplyOrder
<1>3. CASE up
  <2> DEFINE s == out[id]
  <2>1. out' = [out EXCEPT ![id] = Append(s, m)] /\ s \in Seq({"start", "data", "close"})
    BY <1>3, ConstantsAssumption DEF Relay, HistoryType
  <2>2. out'[id] = Append(s, m) /\ \A j \in Ids \ {id} : out'[j] = out[j]
    BY <2>1 DEF HistoryType
  <2>3. /\ Len(out'[id]) = Len(s) + 1 /\ Len(s) \in Nat /\ out'[id] # <<>>
        /\ \A i \in 1..Len(s) : out'[id][i] = s[i]
        /\ out'[id][Len(s) + 1] = m
    BY <2>1, <2>2, AppendSeq
  <2>4. s = <<>> <=> Len(s) = 0
    BY <2>1
  <2>5. Announced(id)' \/ DispatchCtxDone'
    BY <1>1, <2>3, <2>4 DEF Announced
  <2>6. ReplyOrder'
    <3> SUFFICES ASSUME NEW j \in Ids, NEW i \in 1..Len(out'[j])
                 PROVE  /\ out'[j][i] = "close" => i = Len(out'[j])
                        /\ out'[j][i] = "start" => i = 1
                        /\ i = 1 /\ out'[j][i] # "start" => DispatchCtxDone'
      BY DEF ReplyOrder
    <3>1. CASE j # id
      BY <1>1, <2>2, <3>1 DEF ReplyOrder
    <3>2. CASE j = id /\ i \in 1..Len(s)
      BY <1>1, <2>3, <2>4, <3>2 DEF ReplyOrder
    <3>3. CASE j = id /\ i = Len(s) + 1
      BY <1>1, <2>3, <2>4, <3>3 DEF Announced
    <3> QED BY <2>3, <3>1, <3>2, <3>3
  <2> QED BY <1>1, <2>2, <2>3, <2>5, <2>6
<1> QED BY <1>2, <1>3

\* A message of one stream, and the move of its Run.
LEMMA OutSends ==
    ASSUME OutInv, RunType, ReplyOrder', DispatchCtxDone => DispatchCtxDone',
           NEW id \in Ids, run'[id] \in {"wait", "notify"},
           \A j \in Ids \ {id} : out'[j] = out[j] /\ run'[j] = run[j],
           Announced(id)' \/ DispatchCtxDone',
           run'[id] = "wait" => \A i \in 1..Len(out'[id]) : out'[id][i] # "close"
    PROVE  OutInv'
<1> SUFFICES ASSUME NEW j \in Ids
             PROVE  /\ run'[j] \in {"none", "new"} => out'[j] = <<>>
                    /\ run'[j] \in {"wait", "push"} =>
                          \A i \in 1..Len(out'[j]) : out'[j][i] # "close"
                    /\ run'[j] \notin {"none", "new"} => Announced(j)' \/ DispatchCtxDone'
  BY DEF OutInv
<1>1. CASE j = id
  BY <1>1
<1>2. CASE j # id
  BY <1>2 DEF OutInv, Announced
<1> QED BY <1>1, <1>2

---------------------------------------------------------------------------
(* One lemma per action.                                                   *)

USE DEF clientVars, recvVars, dispVars, setVars, chanVars, runVars, rpcVars, proxyVars

\* A step that neither announces, starts, ends nor sends anything and leaves
\* the stream set alone.
Quiet ==
    /\ UNCHANGED <<dpc, cur, todo, info, streams, noncePairs, reqClosed, run, out>>
    /\ DispatchCtxDone => DispatchCtxDone'
    /\ DataInv'
    /\ \A id \in Ids : /\ wr'[id] \notin {"off", "exit"} => run[id] = "wait"
                       /\ rd'[id] \notin {"off", "exit"} => run[id] = "wait"

LEMMA QuietStep ==
    ASSUME IInv, TypeOK', Quiet
    PROVE  IInv'
<1>1. NonceInv' /\ DataInv'
  BY DEF Quiet, IInv, NonceInv, NonceUnambiguous
<1>2. LifeInv'
  BY DEF Quiet, IInv, LifeInv
<1>3. ExitInv'
  BY DEF Quiet, IInv, ExitInv, NoStrandedStream
<1>4. OutInv'
  BY OutFrame DEF Quiet, IInv
<1> QED BY <1>1, <1>2, <1>3, <1>4 DEF IInv

\* The client's steps, and those of receive, its parent and send.
LEMMA ReceiveStep ==
    ASSUME IInv, Client \/ Receive \/ Parent \/ SendExit
    PROVE  IInv'
<1> USE ConstantsAssumption, BoundsAssumption, NoRequest
<1>1. UNCHANGED <<dispVars, setVars, chanVars, runVars, rpcVars, accepted, out>>
  BY DEF Client, Receive, Parent, Recv, RecvEOF, RecvBroken, RecvRefused, ReceiveCtxDone,
         ReceiveReturns, ReceiveReport, ParentSelect, ParentCtxDone, ClientBreaks, SendExit
<1>2. ReceiveType'
  <2> USE DEF IInv, TypeOK
  <2>1. ASSUME NEW r \in ClientRequests, Recv(r) PROVE ReceiveType'
    <3>1. \A u \in {"open", "closed", "misused"} : Used(u, r) \in {"open", "closed", "misused"}
      BY DEF Used
    <3>2. usage' \in [Ids -> {"open", "closed", "misused"}]
      BY <2>1, <3>1 DEF Recv, ReceiveType
    <3>3. rreq' \in Requests
      BY <2>1, ClientRequest DEF Recv
    <3> QED BY <2>1, <3>2, <3>3 DEF Recv, ReceiveType
  <2>2. CASE RecvEOF
    BY <2>2 DEF RecvEOF, ReceiveReturns, ReceiveType, Status, Errors, OK, Ended, First
  <2>3. CASE RecvBroken
    BY <2>3 DEF RecvBroken, ReceiveReturns, ReceiveType, Status, Errors, OK, Ended, First
  <2>4. CASE RecvRefused
    BY <2>4 DEF RecvRefused, ReceiveReturns, ReceiveType, Status, Errors, OK, Ended, First
  <2>5. CASE ReceiveCtxDone
    BY <2>5 DEF ReceiveCtxDone, ReceiveReturns, ReceiveType, Status, Errors, OK, Ended, First
  <2>6. CASE ReceiveReport
    BY <2>6 DEF ReceiveReport, ReceiveType, Status, Errors, OK, Ended, First
  <2>7. CASE ParentSelect
    BY <2>7 DEF ParentSelect, ReceiveType, Status, Errors, OK, Ended, First
  <2>8. CASE ParentCtxDone
    BY <2>8 DEF ParentCtxDone, ReceiveType, Status, Errors, OK, Ended, First
  <2>9. CASE ClientBreaks
    BY <2>9 DEF ClientBreaks, ReceiveType, Status, Errors, OK, Ended, First
  <2>10. CASE SendExit
    BY <2>10 DEF SendExit, ReceiveType, Status, Errors, OK, Ended, First
  <2> QED BY <2>1, <2>2, <2>3, <2>4, <2>5, <2>6, <2>7, <2>8, <2>9, <2>10
          DEF Client, Receive, Parent
<1>3. TypeOK'
  BY <1>1, <1>2 DEF IInv, TypeOK, DispatchType, SetType, ChanType, RunType, RpcType, HistoryType
<1>4. DispatchCtxDone => DispatchCtxDone'
  BY DEF Client, Receive, Parent, Recv, RecvEOF, RecvBroken, RecvRefused, ReceiveCtxDone,
         ReceiveReturns, ReceiveReport, ParentSelect, ParentCtxDone, ClientBreaks, SendExit,
         IInv, TypeOK, ReceiveType, DispatchCtxDone, GroupCtxDone, First
<1>5. DataInv'
  <2>1. ASSUME NEW r \in ClientRequests, Recv(r) PROVE DataInv'
    <3>1. /\ rreq' = r /\ UNCHANGED <<dpc, todo, reqNil, reqClosed>>
          /\ r.op \in {"close", "data"} => r.ids \subseteq Ids
      BY <2>1, ClientRequest DEF Recv
    <3>2. usage' = [id \in Ids |-> IF r.op \in {"close", "data"} /\ id \in r.ids
                                   THEN Used(usage[id], r) ELSE usage[id]]
      BY <2>1 DEF Recv
    <3>3. usage \in [Ids -> {"open", "closed", "misused"}] /\ todo \subseteq Ids
      BY DEF IInv, TypeOK, ReceiveType, DispatchType
    <3>4. \A id \in Ids : /\ usage[id] # "open" => usage'[id] # "open"
                          /\ usage[id] = "misused" => usage'[id] = "misused"
                          /\ r.op = "close" /\ id \in r.ids => usage'[id] # "open"
                          /\ r.op = "data" /\ id \in r.ids => usage'[id] # "closed"
      BY <3>2, <3>3 DEF Used
    <3> QED BY <3>1, <3>3, <3>4 DEF IInv, DataInv
  <2>2. CASE (rcv' # "hold" \/ UNCHANGED <<rcv, rreq>>) /\ UNCHANGED usage
    BY <1>1, <2>2 DEF IInv, DataInv
  <2> QED BY <2>1, <2>2
          DEF Client, Receive, Parent, RecvEOF, RecvBroken, RecvRefused, ReceiveCtxDone,
              ReceiveReturns, ReceiveReport, ParentSelect, ParentCtxDone, ClientBreaks, SendExit
<1>6. Quiet
  BY <1>1, <1>4, <1>5 DEF IInv, TypeOK, RunType, LifeInv, Quiet
<1> QED BY <1>3, <1>6, QuietStep

LEMMA DispatchCtxStep ==
    ASSUME IInv, DispatchCtx
    PROVE  IInv'
<1> USE ConstantsAssumption, NoRequest DEF IInv, TypeOK, DispatchCtx, DispatchReturns
<1>1. TypeOK'
  <2>1. DispatchType'
    BY DEF DispatchType, Status, Errors, OK, Ended, First
  <2>2. ReceiveType' /\ SetType' /\ ChanType' /\ RunType' /\ RpcType' /\ HistoryType'
    BY DEF ReceiveType, SetType, ChanType, RunType, RpcType, HistoryType
  <2> QED BY <2>1, <2>2
<1>2. NonceInv' /\ DataInv'
  BY DEF SetType, DispatchType, ChanType, ReceiveType, NonceInv, NonceUnambiguous, DataInv
<1>3. LifeInv'
  BY DEF SetType, DispatchType, RunType, LifeInv
<1>4. ExitInv'
  BY DEF RunType, DispatchType, ReceiveType, ExitInv, LifeInv, NoStrandedStream,
         DispatchCtxDone, GroupCtxDone, First, OK
<1>5. OutInv'
  BY OutFrame DEF ReceiveType, DispatchCtxDone, GroupCtxDone, First
<1> QED BY <1>1, <1>2, <1>3, <1>4, <1>5

LEMMA DispatchDoneStep ==
    ASSUME IInv, NEW id \in Ids, DispatchDone(id)
    PROVE  IInv'
<1> USE ConstantsAssumption, NoRequest DEF IInv, TypeOK, DispatchDone, DispatchReturns
<1>1. TypeOK'
  <2>1. DispatchType'
    BY DEF DispatchType, Status, Errors, OK, Ended, First
  <2>2. SetType'
    BY DEF SetType, Status, Errors, OK, Ended, First
  <2>3. RunType'
    BY DEF RunType, Status, Errors, OK, Ended, First
  <2>4. ReceiveType' /\ ChanType' /\ RpcType' /\ HistoryType'
    BY DEF ReceiveType, ChanType, RpcType, HistoryType
  <2> QED BY <2>1, <2>2, <2>3, <2>4
<1>2. NonceInv' /\ DataInv'
  BY DEF SetType, DispatchType, ChanType, ReceiveType, NonceInv, NonceUnambiguous, DataInv
<1>3. LifeInv'
  BY DEF SetType, DispatchType, RunType, LifeInv
<1>4. ExitInv'
  BY DEF RunType, DispatchType, ReceiveType, ExitInv, LifeInv, NoStrandedStream,
         DispatchCtxDone, GroupCtxDone, First, OK
<1>5. OutInv'
  BY OutMoves DEF RunType, DispatchCtxDone, GroupCtxDone
<1> QED BY <1>1, <1>2, <1>3, <1>4, <1>5

LEMMA DispatchClosedStep ==
    ASSUME IInv, DispatchClosed
    PROVE  IInv'
<1> USE ConstantsAssumption, NoRequest DEF IInv, TypeOK, DispatchClosed, DispatchReturns
<1>1. TypeOK'
  <2>1. DispatchType'
    BY DEF DispatchType, Status, Errors, OK, Ended, First
  <2>2. ChanType'
    BY DEF ChanType, Status, Errors, OK, Ended, First
  <2>3. ReceiveType' /\ SetType' /\ RunType' /\ RpcType' /\ HistoryType'
    BY DEF ReceiveType, SetType, RunType, RpcType, HistoryType
  <2> QED BY <2>1, <2>2, <2>3
<1>2. NonceInv' /\ DataInv'
  BY DEF SetType, DispatchType, ChanType, ReceiveType, NonceInv, NonceUnambiguous, DataInv
<1>3. LifeInv'
  BY DEF SetType, DispatchType, RunType, LifeInv
<1>4. ExitInv'
  BY DEF RunType, DispatchType, ReceiveType, ExitInv, LifeInv, NoStrandedStream,
         DispatchCtxDone, GroupCtxDone, First, OK
<1>5. OutInv'
  BY OutFrame DEF ReceiveType, DispatchCtxDone, GroupCtxDone, First
<1> QED BY <1>1, <1>2, <1>3, <1>4, <1>5

LEMMA AddReusedStep ==
    ASSUME IInv, AddReused
    PROVE  IInv'
<1> USE ConstantsAssumption, NoRequest DEF IInv, TypeOK, AddReused, DispatchReturns, Take
<1>1. TypeOK'
  <2>1. ReceiveType'
    BY DEF ReceiveType, Status, Errors, OK, Ended, First
  <2>2. DispatchType'
    BY DEF DispatchType, Status, Errors, OK, Ended, First
  <2>3. SetType' /\ ChanType' /\ RunType' /\ RpcType' /\ HistoryType'
    BY DEF SetType, ChanType, RunType, RpcType, HistoryType
  <2> QED BY <2>1, <2>2, <2>3
<1>2. NonceInv' /\ DataInv'
  BY DEF SetType, DispatchType, ChanType, ReceiveType, NonceInv, NonceUnambiguous, DataInv
<1>3. LifeInv'
  BY DEF SetType, DispatchType, RunType, LifeInv
<1>4. ExitInv'
  BY DEF RunType, DispatchType, ReceiveType, ExitInv, LifeInv, NoStrandedStream,
         DispatchCtxDone, GroupCtxDone, First, OK
<1>5. OutInv'
  BY OutFrame DEF ReceiveType, DispatchCtxDone, GroupCtxDone, First
<1> QED BY <1>1, <1>2, <1>3, <1>4, <1>5

LEMMA AddUnknownMethodStep ==
    ASSUME IInv, AddUnknownMethod
    PROVE  IInv'
<1> USE ConstantsAssumption, NoRequest DEF IInv, TypeOK, AddUnknownMethod, Take
<1>1. TypeOK'
  <2>1. ReceiveType'
    BY DEF ReceiveType, Status, Errors, OK, Ended, First
  <2>2. DispatchType'
    BY DEF DispatchType, Status, Errors, OK, Ended, First
  <2>3. SetType' /\ ChanType' /\ RunType' /\ RpcType' /\ HistoryType'
    BY DEF SetType, ChanType, RunType, RpcType, HistoryType
  <2> QED BY <2>1, <2>2, <2>3
<1>2. NonceInv' /\ DataInv'
  BY DEF SetType, DispatchType, ChanType, ReceiveType, NonceInv, NonceUnambiguous, DataInv
<1>3. LifeInv'
  BY DEF SetType, DispatchType, RunType, LifeInv
<1>4. ExitInv'
  BY DEF RunType, DispatchType, ReceiveType, ExitInv, LifeInv, NoStrandedStream,
         DispatchCtxDone, GroupCtxDone, First, OK
<1>5. OutInv'
  BY OutFrame DEF ReceiveType, DispatchCtxDone, GroupCtxDone, First
<1> QED BY <1>1, <1>2, <1>3, <1>4, <1>5

LEMMA AddStep ==
    ASSUME IInv, NEW id \in Ids, Add(id)
    PROVE  IInv'
<1> USE ConstantsAssumption, NoRequest DEF IInv, TypeOK, Add, Take
<1>1. TypeOK'
  <2>1. ReceiveType'
    BY DEF ReceiveType, Status, Errors, OK, Ended, First
  <2>2. DispatchType'
    BY DEF DispatchType, Status, Errors, OK, Ended, First
  <2>3. SetType'
    <3>1. [pair |-> rreq.pair, method |-> rreq.method, dry |-> rreq.dry] \in Infos
      BY StartRequest DEF ReceiveType, StartReqs, Infos
    <3> QED BY <3>1, StartRequest DEF SetType, ReceiveType, StartReqs
  <2>4. RunType'
    BY DEF RunType, Status, Errors, OK, Ended, First
  <2>5. ChanType' /\ RpcType' /\ HistoryType'
    BY DEF ChanType, RpcType, HistoryType
  <2> QED BY <2>1, <2>2, <2>3, <2>4, <2>5
<1>2. NonceInv' /\ DataInv'
  BY DEF SetType, DispatchType, ChanType, ReceiveType, NonceInv, NonceUnambiguous, DataInv
<1>3. LifeInv'
  <2>1. info'[id] # NoInfo /\ \A j \in Ids \ {id} : info'[j] = info[j]
    BY DEF SetType, NoInfo
  <2> QED BY <2>1 DEF SetType, DispatchType, RunType, LifeInv
<1>4. ExitInv'
  BY DEF RunType, DispatchType, ReceiveType, ExitInv, LifeInv, NoStrandedStream,
         DispatchCtxDone, GroupCtxDone, First, OK
<1>5. OutInv'
  BY DEF RunType, LifeInv, OutInv, ReplyOrder, Announced, DispatchCtxDone, GroupCtxDone
<1> QED BY <1>1, <1>2, <1>3, <1>4, <1>5

LEMMA AddReplyStep ==
    ASSUME IInv, AddReply
    PROVE  IInv'
<1> USE ConstantsAssumption, NoRequest DEF IInv, TypeOK, AddReply, AddEnds
<1>1. TypeOK'
  <2>1. ReceiveType'
    BY DEF Relay, ReceiveType, Status, Errors, OK, Ended, First
  <2>2. DispatchType'
    BY DEF DispatchType, Status, Errors, OK, Ended, First
  <2>3. RunType'
    BY DEF RunType, Status, Errors, OK, Ended, First
  <2>4. HistoryType'
    BY RelayHistory DEF DispatchType
  <2>5. SetType' /\ ChanType' /\ RpcType'
    BY DEF SetType, ChanType, RpcType
  <2> QED BY <2>1, <2>2, <2>3, <2>4, <2>5
<1>2. NonceInv' /\ DataInv'
  BY DEF SetType, DispatchType, ChanType, ReceiveType, NonceInv, NonceUnambiguous, DataInv
<1>3. LifeInv'
  BY DEF SetType, DispatchType, RunType, LifeInv
<1>4. ExitInv'
  BY DEF RunType, DispatchType, ReceiveType, ExitInv, LifeInv, NoStrandedStream,
         DispatchCtxDone, GroupCtxDone, First, OK, Relay
<1>5. OutInv'
  <2>1. CASE cur = NoId
    <3>1. run' = run /\ out' = out
      BY <2>1 DEF Relay
    <3>2. DispatchCtxDone => DispatchCtxDone'
      BY DEF Relay, DispatchCtxDone, GroupCtxDone, First, OK
    <3> QED BY <3>1, <3>2, OutFrame
  <2>2. CASE cur # NoId
    <3>1. PICK id \in Ids : id = cur
      BY <2>2 DEF DispatchType
    <3>2. run[id] = "new" /\ out[id] = <<>> /\ Len(out[id]) = 0
      BY <3>1 DEF LifeInv, OutInv
    <3>3. /\ ReplyOrder' /\ (Announced(id)' \/ DispatchCtxDone')
          /\ DispatchCtxDone => DispatchCtxDone'
          /\ \A j \in Ids \ {id} : out'[j] = out[j]
          /\ \A i \in 1..Len(out'[id]) : out'[id][i] # "close"
      BY <3>1, <3>2, RelayOut DEF OutInv
    <3>4. run'[id] = "wait" /\ \A j \in Ids \ {id} : run'[j] = run[j]
      BY <2>2, <3>1 DEF RunType
    <3> QED BY <3>3, <3>4, OutSends
  <2> QED BY <2>1, <2>2
<1> QED BY <1>1, <1>2, <1>3, <1>4, <1>5

LEMMA AddCtxDoneStep ==
    ASSUME IInv, AddCtxDone
    PROVE  IInv'
<1> USE ConstantsAssumption, NoRequest DEF IInv, TypeOK, AddCtxDone, AddEnds
<1>1. TypeOK'
  <2>1. DispatchType'
    BY DEF DispatchType, Status, Errors, OK, Ended, First
  <2>2. RunType'
    BY DEF RunType, Status, Errors, OK, Ended, First
  <2>3. ReceiveType' /\ SetType' /\ ChanType' /\ RpcType' /\ HistoryType'
    BY DEF ReceiveType, SetType, ChanType, RpcType, HistoryType
  <2> QED BY <2>1, <2>2, <2>3
<1>2. NonceInv' /\ DataInv'
  BY DEF SetType, DispatchType, ChanType, ReceiveType, NonceInv, NonceUnambiguous, DataInv
<1>3. LifeInv'
  BY DEF SetType, DispatchType, RunType, LifeInv
<1>4. ExitInv'
  BY DEF RunType, DispatchType, ReceiveType, ExitInv, LifeInv, NoStrandedStream,
         DispatchCtxDone, GroupCtxDone, First, OK
<1>5. OutInv'
  <2>1. DispatchCtxDone'
    BY DEF DispatchCtxDone, GroupCtxDone
  <2>2. \A id \in Ids : run[id] = "new" => id = cur
    BY DEF LifeInv
  <2> QED BY <2>1, <2>2 DEF RunType, LifeInv, OutInv, ReplyOrder
<1> QED BY <1>1, <1>2, <1>3, <1>4, <1>5

LEMMA SendInvalidStep ==
    ASSUME IInv, SendInvalid
    PROVE  IInv'
<1> USE ConstantsAssumption, NoRequest DEF IInv, TypeOK, SendInvalid, DispatchReturns, Take
<1>1. TypeOK'
  <2>1. ReceiveType'
    BY DEF ReceiveType, Status, Errors, OK, Ended, First
  <2>2. DispatchType'
    BY DEF DispatchType, Status, Errors, OK, Ended, First
  <2>3. SetType' /\ ChanType' /\ RunType' /\ RpcType' /\ HistoryType'
    BY DEF SetType, ChanType, RunType, RpcType, HistoryType
  <2> QED BY <2>1, <2>2, <2>3
<1>2. NonceInv' /\ DataInv'
  BY DEF SetType, DispatchType, ChanType, ReceiveType, NonceInv, NonceUnambiguous, DataInv
<1>3. LifeInv'
  BY DEF SetType, DispatchType, RunType, LifeInv
<1>4. ExitInv'
  BY DEF RunType, DispatchType, ReceiveType, ExitInv, LifeInv, NoStrandedStream,
         DispatchCtxDone, GroupCtxDone, First, OK
<1>5. OutInv'
  BY OutFrame DEF ReceiveType, DispatchCtxDone, GroupCtxDone, First
<1> QED BY <1>1, <1>2, <1>3, <1>4, <1>5

LEMMA SendBeginStep ==
    ASSUME IInv, SendBegin
    PROVE  IInv'
<1> USE ConstantsAssumption, NoRequest DEF IInv, TypeOK, SendBegin, Take, SendIds
<1>1. TypeOK'
  <2>1. ReceiveType'
    BY DEF ReceiveType, Status, Errors, OK, Ended, First
  <2>2. DispatchType'
    <3>1. rreq.ids \in SUBSET Ids /\ rreq.msg \in Msgs
      BY DataRequest DEF ReceiveType, DataReqs
    <3> QED BY <3>1 DEF DispatchType
  <2>3. SetType' /\ ChanType' /\ RunType' /\ RpcType' /\ HistoryType'
    BY DEF SetType, ChanType, RunType, RpcType, HistoryType
  <2> QED BY <2>1, <2>2, <2>3
<1>2. NonceInv' /\ DataInv'
  <2>1. NonceInv'
    BY DEF NonceInv, NonceUnambiguous
  <2>2. \A id \in todo' : id \in Ids /\ id \in rreq.ids
    BY <1>1 DEF DispatchType
  <2>3. ASSUME NEW id \in todo', reqClosed'[id] PROVE usage'[id] = "misused"
    BY <2>2, <2>3 DEF ReceiveType, DataInv
  <2>4. /\ ~reqNil' /\ rcv' = "recv" /\ dpc' \in {"select", "send"}
        /\ \A id \in Ids : reqClosed'[id] => usage'[id] # "open"
    BY DEF DataInv
  <2> QED BY <2>1, <2>3, <2>4 DEF DataInv
<1>3. LifeInv'
  BY DEF SetType, DispatchType, RunType, LifeInv
<1>4. ExitInv'
  BY DEF RunType, DispatchType, ReceiveType, ExitInv, LifeInv, NoStrandedStream,
         DispatchCtxDone, GroupCtxDone, First, OK
<1>5. OutInv'
  BY OutFrame DEF ReceiveType, DispatchCtxDone, GroupCtxDone, First
<1> QED BY <1>1, <1>2, <1>3, <1>4, <1>5

LEMMA SendEnqueueStep ==
    ASSUME IInv, NEW id \in Ids, SendEnqueue(id)
    PROVE  IInv'
<1> USE ConstantsAssumption, NoRequest DEF IInv, TypeOK, SendEnqueue
<1>1. TypeOK'
  <2>1. DispatchType'
    BY DEF DispatchType, Status, Errors, OK, Ended, First
  <2>2. ChanType'
    BY Concat DEF ChanType, DispatchType
  <2>3. HistoryType'
    BY Concat DEF HistoryType, DispatchType
  <2>4. ReceiveType' /\ SetType' /\ RunType' /\ RpcType'
    BY DEF ReceiveType, SetType, RunType, RpcType
  <2> QED BY <2>1, <2>2, <2>3, <2>4
<1>2. NonceInv' /\ DataInv'
  BY DEF SetType, DispatchType, ChanType, ReceiveType, NonceInv, NonceUnambiguous, DataInv
<1>3. LifeInv'
  BY DEF SetType, DispatchType, RunType, LifeInv
<1>4. ExitInv'
  BY DEF RunType, DispatchType, ReceiveType, ExitInv, LifeInv, NoStrandedStream,
         DispatchCtxDone, GroupCtxDone, First, OK
<1>5. OutInv'
  BY OutFrame DEF ReceiveType, DispatchCtxDone, GroupCtxDone, First
<1> QED BY <1>1, <1>2, <1>3, <1>4, <1>5

LEMMA SendFailsStep ==
    ASSUME IInv, NEW id \in Ids, SendFails(id)
    PROVE  IInv'
<1> USE ConstantsAssumption, NoRequest DEF IInv, TypeOK, SendFails, DispatchReturns
<1>1. TypeOK'
  <2>1. DispatchType'
    BY DEF DispatchType, Status, Errors, OK, Ended, First
  <2>2. ReceiveType' /\ SetType' /\ ChanType' /\ RunType' /\ RpcType' /\ HistoryType'
    BY DEF ReceiveType, SetType, ChanType, RunType, RpcType, HistoryType
  <2> QED BY <2>1, <2>2
<1>2. NonceInv' /\ DataInv'
  BY DEF SetType, DispatchType, ChanType, ReceiveType, NonceInv, NonceUnambiguous, DataInv
<1>3. LifeInv'
  BY DEF SetType, DispatchType, RunType, LifeInv
<1>4. ExitInv'
  BY DEF RunType, DispatchType, ReceiveType, ExitInv, LifeInv, NoStrandedStream,
         DispatchCtxDone, GroupCtxDone, First, OK
<1>5. OutInv'
  BY OutFrame DEF ReceiveType, DispatchCtxDone, GroupCtxDone, First
<1> QED BY <1>1, <1>2, <1>3, <1>4, <1>5

LEMMA SendPanicsStep ==
    ASSUME IInv, NEW id \in Ids, SendPanics(id)
    PROVE  IInv'
<1> USE ConstantsAssumption, NoRequest DEF IInv, TypeOK, SendPanics
<1>1. TypeOK'
  <2>1. DispatchType'
    BY DEF DispatchType, Status, Errors, OK, Ended, First
  <2>2. ReceiveType' /\ SetType' /\ ChanType' /\ RunType' /\ RpcType' /\ HistoryType'
    BY DEF ReceiveType, SetType, ChanType, RunType, RpcType, HistoryType
  <2> QED BY <2>1, <2>2
<1>2. NonceInv' /\ DataInv'
  BY DEF SetType, DispatchType, ChanType, ReceiveType, NonceInv, NonceUnambiguous, DataInv
<1>3. LifeInv'
  BY DEF SetType, DispatchType, RunType, LifeInv
<1>4. ExitInv'
  BY DEF RunType, DispatchType, ReceiveType, ExitInv, LifeInv, NoStrandedStream,
         DispatchCtxDone, GroupCtxDone, First, OK
<1>5. OutInv'
  BY OutFrame DEF ReceiveType, DispatchCtxDone, GroupCtxDone, First
<1> QED BY <1>1, <1>2, <1>3, <1>4, <1>5

LEMMA ClientCloseStep ==
    ASSUME IInv, ClientClose
    PROVE  IInv'
<1> USE ConstantsAssumption, NoRequest DEF IInv, TypeOK, ClientClose, Take
<1>1. TypeOK'
  <2>1. ReceiveType'
    BY DEF ReceiveType, Status, Errors, OK, Ended, First
  <2>2. ChanType'
    BY DEF ChanType, Status, Errors, OK, Ended, First
  <2>3. DispatchType' /\ SetType' /\ RunType' /\ RpcType' /\ HistoryType'
    BY DEF DispatchType, SetType, RunType, RpcType, HistoryType
  <2> QED BY <2>1, <2>2, <2>3
<1>2. NonceInv' /\ DataInv'
  BY DEF SetType, DispatchType, ChanType, ReceiveType, NonceInv, NonceUnambiguous, DataInv
<1>3. LifeInv'
  BY DEF SetType, DispatchType, RunType, LifeInv
<1>4. ExitInv'
  BY DEF RunType, DispatchType, ReceiveType, ExitInv, LifeInv, NoStrandedStream,
         DispatchCtxDone, GroupCtxDone, First, OK
<1>5. OutInv'
  BY OutFrame DEF ReceiveType, DispatchCtxDone, GroupCtxDone, First
<1> QED BY <1>1, <1>2, <1>3, <1>4, <1>5

LEMMA ClientCancelStep ==
    ASSUME IInv, ClientCancel
    PROVE  IInv'
<1> USE ConstantsAssumption, NoRequest DEF IInv, TypeOK, ClientCancel, Take, DispatchReturns
<1>1. TypeOK'
  <2>1. ReceiveType'
    BY DEF ReceiveType, Status, Errors, OK, Ended, First
  <2>2. DispatchType'
    BY DEF DispatchType, Status, Errors, OK, Ended, First
  <2>3. ChanType'
    BY DEF ChanType, Status, Errors, OK, Ended, First
  <2>4. SetType' /\ RunType' /\ RpcType' /\ HistoryType'
    BY DEF SetType, RunType, RpcType, HistoryType
  <2> QED BY <2>1, <2>2, <2>3, <2>4
<1>2. NonceInv' /\ DataInv'
  BY DEF SetType, DispatchType, ChanType, ReceiveType, NonceInv, NonceUnambiguous, DataInv
<1>3. LifeInv'
  BY DEF SetType, DispatchType, RunType, LifeInv
<1>4. ExitInv'
  BY DEF RunType, DispatchType, ReceiveType, ExitInv, LifeInv, NoStrandedStream,
         DispatchCtxDone, GroupCtxDone, First, OK
<1>5. OutInv'
  BY OutFrame DEF ReceiveType, DispatchCtxDone, GroupCtxDone, First
<1> QED BY <1>1, <1>2, <1>3, <1>4, <1>5

LEMMA UnknownRequestStep ==
    ASSUME IInv, UnknownRequest
    PROVE  IInv'
<1> USE ConstantsAssumption, NoRequest DEF IInv, TypeOK, UnknownRequest, Take, DispatchReturns
<1>1. TypeOK'
  <2>1. ReceiveType'
    BY DEF ReceiveType, Status, Errors, OK, Ended, First
  <2>2. DispatchType'
    BY DEF DispatchType, Status, Errors, OK, Ended, First
  <2>3. SetType' /\ ChanType' /\ RunType' /\ RpcType' /\ HistoryType'
    BY DEF SetType, ChanType, RunType, RpcType, HistoryType
  <2> QED BY <2>1, <2>2, <2>3
<1>2. NonceInv' /\ DataInv'
  BY DEF SetType, DispatchType, ChanType, ReceiveType, NonceInv, NonceUnambiguous, DataInv
<1>3. LifeInv'
  BY DEF SetType, DispatchType, RunType, LifeInv
<1>4. ExitInv'
  BY DEF RunType, DispatchType, ReceiveType, ExitInv, LifeInv, NoStrandedStream,
         DispatchCtxDone, GroupCtxDone, First, OK
<1>5. OutInv'
  BY OutFrame DEF ReceiveType, DispatchCtxDone, GroupCtxDone, First
<1> QED BY <1>1, <1>2, <1>3, <1>4, <1>5

LEMMA DispatchExitStep ==
    ASSUME IInv, DispatchExit
    PROVE  IInv'
<1> USE ConstantsAssumption, NoRequest DEF IInv, TypeOK, DispatchExit
<1>1. TypeOK'
  <2>1. ReceiveType'
    BY Statuses DEF ReceiveType, DispatchType
  <2>2. DispatchType'
    BY DEF DispatchType, Status, Errors, OK, Ended, First
  <2>3. SetType' /\ ChanType' /\ RunType' /\ RpcType' /\ HistoryType'
    BY DEF SetType, ChanType, RunType, RpcType, HistoryType
  <2> QED BY <2>1, <2>2, <2>3
<1>2. NonceInv' /\ DataInv'
  BY DEF SetType, DispatchType, ChanType, ReceiveType, NonceInv, NonceUnambiguous, DataInv
<1>3. LifeInv'
  BY DEF SetType, DispatchType, RunType, LifeInv
<1>4. ExitInv'
  BY DEF RunType, DispatchType, ReceiveType, ExitInv, LifeInv, NoStrandedStream,
         DispatchCtxDone, GroupCtxDone, First, OK
<1>5. OutInv'
  BY OutFrame DEF ReceiveType, DispatchCtxDone, GroupCtxDone, First
<1> QED BY <1>1, <1>2, <1>3, <1>4, <1>5

\* The steps of a writer.
LEMMA WriterStep ==
    ASSUME IInv, NEW id \in Ids, Writer(id)
    PROVE  IInv'
<1> USE ConstantsAssumption, BoundsAssumption, NoRequest
<1>1. UNCHANGED <<clientVars, recvVars, gerr, sender, dispVars, setVars, reqClosed,
                  run, final, accepted, out>>
  BY DEF Writer, Connect, ConnectFails, WriterExits, WriterCtxDone, WriterClosed,
         WriterTakes, EvalDenied, EvalErrors, CloseWith, EvalDryRun, EvalAllows,
         WriterSends, WriterSendFails
<1>2. ChanType' /\ RunType' /\ RpcType'
  <2> USE DEF IInv, TypeOK
  <2>1. CASE Connect(id)
    <3> USE <2>1 DEF Connect
    <3>1. RunType'
      BY DEF RunType, Status, Errors, OK, Ended, First
    <3>2. RpcType'
      BY DEF RpcType, Status, Errors, OK, Ended, First
    <3>3. ChanType'
      BY DEF ChanType
    <3> QED BY <3>1, <3>2, <3>3
  <2>2. CASE ConnectFails(id)
    <3> USE <2>2 DEF ConnectFails, WriterExits
    <3>1. ChanType'
      BY DEF ChanType, Status, Errors, OK, Ended, First
    <3>2. RunType'
      BY DEF RunType, Status, Errors, OK, Ended, First
    <3>3. RpcType'
      BY DEF RpcType
    <3> QED BY <3>1, <3>2, <3>3
  <2>3. CASE WriterCtxDone(id)
    <3> USE <2>3 DEF WriterCtxDone, WriterExits
    <3>1. RunType'
      BY DEF RunType, Status, Errors, OK, Ended, First
    <3>2. ChanType' /\ RpcType'
      BY DEF ChanType, RpcType
    <3> QED BY <3>1, <3>2
  <2>4. CASE WriterClosed(id)
    <3> USE <2>4 DEF WriterClosed, WriterExits
    <3>1. RunType'
      BY DEF RunType, Status, Errors, OK, Ended, First
    <3>2. RpcType'
      BY DEF RpcType, IsClientStream
    <3>3. ChanType'
      BY DEF ChanType
    <3> QED BY <3>1, <3>2, <3>3
  <2>5. CASE WriterTakes(id)
    <3> USE <2>5 DEF WriterTakes
    <3>1. ChanType'
      BY DEF ChanType, Status, Errors, OK, Ended, First
    <3>2. RunType'
      BY HeadSeq DEF RunType, ChanType
    <3>3. RpcType'
      BY DEF RpcType
    <3> QED BY <3>1, <3>2, <3>3
  <2>6. CASE EvalDenied(id)
    <3> USE <2>6 DEF EvalDenied, EvalErrors, CloseWith, WriterExits
    <3>1. ChanType'
      BY DEF ChanType, Status, Errors, OK, Ended, First
    <3>2. RunType'
      BY DEF RunType, Status, Errors, OK, Ended, First
    <3>3. RpcType'
      BY DEF RpcType
    <3> QED BY <3>1, <3>2, <3>3
  <2>7. CASE EvalDryRun(id)
    <3> USE <2>7 DEF EvalDryRun, CloseWith, WriterExits
    <3>1. ChanType'
      BY DEF ChanType, Status, Errors, OK, Ended, First
    <3>2. RunType'
      BY DEF RunType, Status, Errors, OK, Ended, First
    <3>3. RpcType'
      BY DEF RpcType
    <3> QED BY <3>1, <3>2, <3>3
  <2>8. CASE EvalAllows(id)
    <3> USE <2>8 DEF EvalAllows
    <3>1. RunType'
      BY DEF RunType, Status, Errors, OK, Ended, First
    <3>2. ChanType' /\ RpcType'
      BY DEF ChanType, RpcType
    <3> QED BY <3>1, <3>2
  <2>9. CASE WriterSends(id)
    <3> USE <2>9 DEF WriterSends
    <3>1. RunType'
      <4>1. CASE IsClientStream(id)
        <5>1. /\ wr' = [wr EXCEPT ![id] = "loop"] /\ wmsg' = [wmsg EXCEPT ![id] = <<>>]
              /\ UNCHANGED <<run, rd, serr, final>>
          BY <4>1
        <5> HIDE DEF WriterSends
        <5> QED BY <5>1, NoneIsSeq DEF RunType
      <4>2. CASE ~IsClientStream(id)
        BY <4>2, WriterEnds, Statuses
      <4> QED BY <4>1, <4>2
    <3>2. RpcType'
      BY Concat DEF RunType, RpcType
    <3>3. ChanType'
      BY DEF ChanType
    <3> QED BY <3>1, <3>2, <3>3
  <2>10. CASE WriterSendFails(id)
    <3> USE <2>10 DEF WriterSendFails, WriterExits
    <3>1. ChanType'
      BY DEF ChanType, Status, Errors, OK, Ended, First
    <3>2. RunType'
      BY WriterEnds DEF RunType, Status, Errors, OK
    <3>3. RpcType'
      BY DEF RpcType, Status, Errors, OK, Ended, First
    <3> QED BY <3>1, <3>2, <3>3
  <2> QED BY <2>1, <2>2, <2>3, <2>4, <2>5, <2>6, <2>7, <2>8, <2>9, <2>10 DEF Writer
<1>3. TypeOK'
  BY <1>1, <1>2 DEF IInv, TypeOK, ReceiveType, DispatchType, SetType, HistoryType
<1>4. /\ wr[id] \notin {"off", "exit"} /\ \A j \in Ids \ {id} : wr'[j] = wr[j] /\ rd'[j] = rd[j]
  BY DEF IInv, TypeOK, RunType,
         Writer, Connect, ConnectFails, WriterExits, WriterCtxDone, WriterClosed,
         WriterTakes, EvalDenied, EvalErrors, CloseWith, EvalDryRun, EvalAllows,
         WriterSends, WriterSendFails
<1>5. Quiet
  BY <1>1, <1>4 DEF IInv, TypeOK, RunType, LifeInv, DataInv, Quiet,
                    DispatchCtxDone, GroupCtxDone
<1> QED BY <1>3, <1>5, QuietStep

\* The steps of a reader that send nothing.
LEMMA ReaderStep ==
    ASSUME IInv, NEW id \in Ids, ReadData(id) \/ ReadEOF(id) \/ ReadTolerated(id) \/ ReadErr(id)
    PROVE  IInv'
<1> USE ConstantsAssumption, BoundsAssumption, NoRequest
<1>1. UNCHANGED <<clientVars, recvVars, gerr, sender, dispVars, setVars, reqClosed,
                  run, wr, final, accepted, out>>
  BY DEF ReadData, ReadEOF, ReadTolerated, ReadErr, CloseWith
<1>2. ChanType' /\ RunType' /\ RpcType'
  <2> USE DEF IInv, TypeOK
  <2>1. CASE ReadData(id)
    <3> USE <2>1 DEF ReadData
    <3>1. RunType'
      BY DEF RunType, Status, Errors, OK, Ended, First
    <3>2. RpcType'
      BY DEF RpcType, Status, Errors, OK, Ended, First
    <3>3. ChanType'
      BY DEF ChanType
    <3> QED BY <3>1, <3>2, <3>3
  <2>2. CASE ReadEOF(id)
    <3> USE <2>2 DEF ReadEOF
    <3>1. RunType'
      BY DEF RunType, Status, Errors, OK, Ended, First
    <3>2. ChanType' /\ RpcType'
      BY DEF ChanType, RpcType
    <3> QED BY <3>1, <3>2
  <2>3. CASE ReadTolerated(id)
    <3> USE <2>3 DEF ReadTolerated
    <3>1. RunType'
      BY DEF RunType, Status, Errors, OK, Ended, First
    <3>2. ChanType' /\ RpcType'
      BY DEF ChanType, RpcType
    <3> QED BY <3>1, <3>2
  <2>4. CASE ReadErr(id)
    <3> USE <2>4 DEF ReadErr, CloseWith
    <3>1. ChanType'
      BY DEF ChanType, Status, Errors, OK, Ended, First
    <3>2. RunType'
      BY DEF RunType, Status, Errors, OK, Ended, First
    <3>3. RpcType'
      BY DEF RpcType
    <3> QED BY <3>1, <3>2, <3>3
  <2> QED BY <2>1, <2>2, <2>3, <2>4
<1>3. TypeOK'
  BY <1>1, <1>2 DEF IInv, TypeOK, ReceiveType, DispatchType, SetType, HistoryType
<1>4. /\ rd[id] \notin {"off", "exit"} /\ \A j \in Ids \ {id} : rd'[j] = rd[j]
  BY DEF IInv, TypeOK, RunType,
         ReadData, ReadEOF, ReadTolerated, ReadErr, CloseWith
<1>5. Quiet
  BY <1>1, <1>4 DEF IInv, TypeOK, RunType, LifeInv, DataInv, Quiet,
                    DispatchCtxDone, GroupCtxDone
<1> QED BY <1>3, <1>5, QuietStep

LEMMA ReaderPushStep ==
    ASSUME IInv, NEW id \in Ids, ReaderPush(id)
    PROVE  IInv'
<1> USE ConstantsAssumption, NoRequest DEF IInv, TypeOK, ReaderPush
<1>1. TypeOK'
  <2>1. ReceiveType'
    BY DEF Relay, ReceiveType, Status, Errors, OK, Ended, First
  <2>2. RunType'
    BY DEF RunType, Status, Errors, OK, Ended, First
  <2>3. HistoryType'
    BY RelayHistory
  <2>4. DispatchType' /\ SetType' /\ ChanType' /\ RpcType'
    BY DEF DispatchType, SetType, ChanType, RpcType
  <2> QED BY <2>1, <2>2, <2>3, <2>4
<1>2. NonceInv' /\ DataInv'
  BY DEF SetType, DispatchType, ChanType, ReceiveType, NonceInv, NonceUnambiguous, DataInv
<1>3. LifeInv'
  BY DEF SetType, DispatchType, RunType, LifeInv
<1>4. ExitInv'
  BY DEF RunType, DispatchType, ReceiveType, ExitInv, LifeInv, NoStrandedStream,
         DispatchCtxDone, GroupCtxDone, First, OK, Relay
<1>5. OutInv'
  <2>1. run[id] = "wait" /\ run' = run
    BY DEF RunType, LifeInv
  <2>2. /\ ReplyOrder' /\ (Announced(id)' \/ DispatchCtxDone')
        /\ DispatchCtxDone => DispatchCtxDone'
        /\ \A j \in Ids \ {id} : out'[j] = out[j]
        /\ \A i \in 1..Len(out'[id]) : out'[id][i] # "close"
    BY <2>1, RelayOut DEF OutInv
  <2> QED BY <2>1, <2>2, OutSends
<1> QED BY <1>1, <1>2, <1>3, <1>4, <1>5

LEMMA RunWaitStep ==
    ASSUME IInv, NEW id \in Ids, RunWait(id)
    PROVE  IInv'
<1> USE ConstantsAssumption, NoRequest DEF IInv, TypeOK, RunWait
<1>1. TypeOK'
  <2>1. ChanType'
    BY DEF ChanType, Status, Errors, OK, Ended, First
  <2>2. RunType'
    BY Statuses DEF RunType, ChanType
  <2>3. ReceiveType' /\ DispatchType' /\ SetType' /\ RpcType' /\ HistoryType'
    BY DEF ReceiveType, DispatchType, SetType, RpcType, HistoryType
  <2> QED BY <2>1, <2>2, <2>3
<1>2. NonceInv' /\ DataInv'
  BY DEF SetType, DispatchType, ChanType, ReceiveType, NonceInv, NonceUnambiguous, DataInv
<1>3. LifeInv'
  BY DEF SetType, DispatchType, RunType, LifeInv
<1>4. ExitInv'
  BY DEF RunType, DispatchType, ReceiveType, ExitInv, LifeInv, NoStrandedStream,
         DispatchCtxDone, GroupCtxDone, First, OK
<1>5. OutInv'
  BY OutMoves DEF RunType, DispatchCtxDone, GroupCtxDone
<1> QED BY <1>1, <1>2, <1>3, <1>4, <1>5

LEMMA RunPushStep ==
    ASSUME IInv, NEW id \in Ids, RunPush(id)
    PROVE  IInv'
<1> USE ConstantsAssumption, NoRequest DEF IInv, TypeOK, RunPush
<1>1. TypeOK'
  <2>1. ReceiveType'
    BY DEF Relay, ReceiveType, Status, Errors, OK, Ended, First
  <2>2. RunType'
    BY DEF RunType, Status, Errors, OK, Ended, First
  <2>3. HistoryType'
    BY RelayHistory
  <2>4. DispatchType' /\ SetType' /\ ChanType' /\ RpcType'
    BY DEF DispatchType, SetType, ChanType, RpcType
  <2> QED BY <2>1, <2>2, <2>3, <2>4
<1>2. NonceInv' /\ DataInv'
  BY DEF SetType, DispatchType, ChanType, ReceiveType, NonceInv, NonceUnambiguous, DataInv
<1>3. LifeInv'
  BY DEF SetType, DispatchType, RunType, LifeInv
<1>4. ExitInv'
  BY DEF RunType, DispatchType, ReceiveType, ExitInv, LifeInv, NoStrandedStream,
         DispatchCtxDone, GroupCtxDone, First, OK, Relay
<1>5. OutInv'
  <2>1. /\ ReplyOrder' /\ (Announced(id)' \/ DispatchCtxDone')
        /\ DispatchCtxDone => DispatchCtxDone'
        /\ \A j \in Ids \ {id} : out'[j] = out[j]
    BY RelayOut DEF OutInv
  <2>2. run'[id] = "notify" /\ \A j \in Ids \ {id} : run'[j] = run[j]
    BY DEF RunType
  <2> QED BY <2>1, <2>2, OutSends
<1> QED BY <1>1, <1>2, <1>3, <1>4, <1>5

LEMMA RunCtxGoneStep ==
    ASSUME IInv, NEW id \in Ids, RunCtxGone(id)
    PROVE  IInv'
<1> USE ConstantsAssumption, NoRequest DEF IInv, TypeOK, RunCtxGone
<1>1. TypeOK'
  <2>1. RunType'
    BY DEF RunType, Status, Errors, OK, Ended, First
  <2>2. ReceiveType' /\ DispatchType' /\ SetType'
    BY DEF ReceiveType, DispatchType, SetType
  <2>3. ChanType' /\ RpcType' /\ HistoryType'
    BY DEF ChanType, RpcType, HistoryType
  <2> QED BY <2>1, <2>2, <2>3
<1>2. NonceInv' /\ DataInv'
  BY DEF SetType, DispatchType, ChanType, ReceiveType, NonceInv, NonceUnambiguous, DataInv
<1>3. LifeInv'
  BY DEF SetType, DispatchType, RunType, LifeInv
<1>4. ExitInv'
  BY DEF RunType, DispatchType, ReceiveType, ExitInv, LifeInv, NoStrandedStream,
         DispatchCtxDone, GroupCtxDone, First, OK
<1>5. OutInv'
  BY OutMoves DEF RunType, DispatchCtxDone, GroupCtxDone
<1> QED BY <1>1, <1>2, <1>3, <1>4, <1>5

\* The steps of a target and of the RPC to it.
LEMMA TargetStep ==
    ASSUME IInv, NEW id \in Ids, Target(id)
    PROVE  IInv'
<1> USE ConstantsAssumption, BoundsAssumption, NoRequest
<1>1. UNCHANGED <<clientVars, recvVars, gerr, sender, dispVars, setVars, chanVars,
                  runVars, accepted, out>>
  BY DEF Target, TargetReplies, TargetFinishes, TargetFails, RpcCancelled
<1>2. RpcType'
  <2> USE DEF IInv, TypeOK
  <2>1. CASE TargetReplies(id)
    BY <2>1 DEF TargetReplies, RpcType, Status, Errors, OK, Ended, First
  <2>2. CASE TargetFinishes(id)
    BY <2>2 DEF TargetFinishes, RpcType, Status, Errors, OK, Ended, First
  <2>3. CASE TargetFails(id)
    BY <2>3 DEF TargetFails, RpcType, Status, Errors, OK, Ended, First
  <2>4. CASE RpcCancelled(id)
    BY <2>4 DEF RpcCancelled, RpcType, Status, Errors, OK, Ended, First
  <2> QED BY <2>1, <2>2, <2>3, <2>4 DEF Target
<1>3. TypeOK'
  BY <1>1, <1>2 DEF IInv, TypeOK, ReceiveType, DispatchType, SetType, ChanType, RunType, HistoryType
<1>4. wr' = wr /\ rd' = rd
  BY DEF Target, TargetReplies, TargetFinishes, TargetFails, RpcCancelled
<1>5. Quiet
  BY <1>1, <1>4 DEF IInv, TypeOK, RunType, LifeInv, DataInv, Quiet,
                    DispatchCtxDone, GroupCtxDone
<1> QED BY <1>3, <1>5, QuietStep

LEMMA StutterStep ==
    ASSUME IInv, UNCHANGED vars
    PROVE  IInv'
<1>1. ReceiveType' /\ DispatchType' /\ SetType'
  BY DEF vars, IInv, TypeOK, ReceiveType, DispatchType, SetType
<1>2. ChanType' /\ RunType' /\ RpcType' /\ HistoryType'
  BY DEF vars, IInv, TypeOK, ChanType, RunType, RpcType, HistoryType
<1>3. Quiet
  BY DEF vars, IInv, LifeInv, DataInv, Quiet, DispatchCtxDone, GroupCtxDone
<1> QED BY <1>1, <1>2, <1>3, QuietStep DEF TypeOK

---------------------------------------------------------------------------
(* The theorems.                                                           *)

\* The inductive invariant holds in every reachable state.
THEOREM Invariance == Spec => []IInv
<1>1. Init => IInv
  <2> SUFFICES ASSUME Init PROVE IInv
    OBVIOUS
  <2> USE ConstantsAssumption, BoundsAssumption, NoRequest, Statuses DEF Init
  <2>1. ReceiveType
    BY DEF ReceiveType
  <2>2. DispatchType
    BY NoneIsSeq DEF DispatchType
  <2>3. SetType /\ ChanType /\ RunType /\ RpcType /\ HistoryType
    BY DEF SetType, ChanType, RunType, RpcType, HistoryType
  <2>4. NonceInv /\ LifeInv /\ ExitInv /\ DataInv
    BY DEF NonceInv, NonceUnambiguous, LifeInv, ExitInv, NoStrandedStream, DataInv
  <2>5. OutInv
    BY DEF OutInv, ReplyOrder
  <2> QED BY <2>1, <2>2, <2>3, <2>4, <2>5 DEF IInv, TypeOK
<1>2. IInv /\ [Next]_vars => IInv'
  <2> SUFFICES ASSUME IInv, [Next]_vars PROVE IInv'
    OBVIOUS
  <2>1. CASE Client \/ Receive \/ Parent \/ SendExit
    BY <2>1, ReceiveStep
  <2>2. CASE Dispatch
    <3>1. CASE DispatchRequest
      BY <3>1, AddReusedStep, AddUnknownMethodStep, AddStep, SendInvalidStep, SendBeginStep,
         ClientCloseStep, ClientCancelStep, UnknownRequestStep DEF DispatchRequest
    <3>2. CASE DispatchIdle
      BY <3>1, <3>2, DispatchCtxStep, DispatchClosedStep, DispatchDoneStep DEF DispatchIdle
    <3>3. CASE DispatchSend
      BY <3>3, SendEnqueueStep, SendFailsStep, SendPanicsStep DEF DispatchSend
    <3> QED BY <2>2, <3>2, <3>3, AddReplyStep, AddCtxDoneStep, DispatchExitStep DEF Dispatch
  <2>3. ASSUME NEW id \in Ids, Writer(id) \/ Target(id) PROVE IInv'
    BY <2>3, WriterStep, TargetStep
  <2>4. ASSUME NEW id \in Ids, Reader(id) PROVE IInv'
    BY <2>4, ReaderStep, ReaderPushStep DEF Reader
  <2>5. ASSUME NEW id \in Ids, Run(id) PROVE IInv'
    BY <2>5, RunWaitStep, RunPushStep, RunCtxGoneStep DEF Run
  <2>6. CASE Returned \/ UNCHANGED vars
    BY <2>6, StutterStep DEF Returned
  <2> QED BY <2>1, <2>2, <2>3, <2>4, <2>5, <2>6 DEF Next, Step
<1> QED BY <1>1, <1>2, PTL DEF Spec

\* Type correctness of every goroutine, channel and history of the RPC.
THEOREM TypeCorrect == Spec => []TypeOK
<1>1. IInv => TypeOK
  BY DEF IInv
<1> QED BY <1>1, Invariance, PTL

\* Whatever Add, the readers and the Runs of all streams race for, the client
\* sees each stream announced, then its data, then one ServerClose.
THEOREM RepliesInOrder == Spec => []ReplyOrder
<1>1. IInv => ReplyOrder
  BY DEF IInv, OutInv
<1> QED BY <1>1, Invariance, PTL

\* replyChan is never sent on after it was closed, whatever the client does; a reqChan is
\* only for a client that has sent StreamData on the stream after its own ClientClose.
THEOREM ChannelsSafe == Spec => []NoSendOnClosedChannel
<1>1. IInv => NoSendOnClosedChannel
  <2> SUFFICES ASSUME IInv PROVE NoSendOnClosedChannel
    OBVIOUS
  <2>1. dpc = "exit" => \A id \in Ids : rd[id] \notin {"push", "last"} /\ run[id] # "push"
    BY DEF IInv, ExitInv, LifeInv
  <2>2. dpc \in {"send", "panic"} => \A id \in todo : reqClosed[id] => usage[id] = "misused"
    BY DEF IInv, DataInv
  <2> QED BY <2>1, <2>2 DEF NoSendOnClosedChannel
<1> QED BY <1>1, Invariance, PTL

\* dispatch leaves no stream behind that still has to report to it.
THEOREM NothingStranded == Spec => []NoStrandedStream
<1>1. IInv => NoStrandedStream
  BY DEF IInv, ExitInv
<1> QED BY <1>1, Invariance, PTL

\* A (target, nonce) pair names at most one stream of the RPC.
THEOREM NoncesUnambiguous == Spec => []NonceUnambiguous
<1>1. IInv => NonceUnambiguous
  BY DEF IInv, NonceInv
<1> QED BY <1>1, Invariance, PTL
=============================================================================
