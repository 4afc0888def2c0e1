--------------------------- MODULE ProxyPaths_proofs ---------------------------
(***************************************************************************)
(* More theorems about ProxyServer: what a target is sent, what a client   *)
(* is told of how its streams ended, and that the proxy implements         *)
(* ProxySession.  PathInv follows requests and replies of one stream at a  *)
(* time through its goroutines; it is inductive together with IInv.        *)
(***************************************************************************)
EXTENDS ProxyServer_proofs, FiniteSetTheorems, SequenceTheorems

USE DEF clientVars, recvVars, dispVars, setVars, chanVars, runVars, rpcVars, proxyVars

Paths(id) == RequestPath(id) /\ ReplyPath(id) /\ ErrorPath(id) /\ UnaryPath(id)

\* What the steps of others leave of a stream; they may close its reqChan, and dispatch
\* may learn that it is done.
SameStream(j) ==
    /\ info'[j] = info[j] /\ reqBuf'[j] = reqBuf[j] /\ (reqClosed[j] => reqClosed'[j])
    /\ run'[j] = run[j] \/ (run[j] = "notify" /\ run'[j] = "gone")
    /\ errc'[j] = errc[j] /\ wr'[j] = wr[j] /\ wmsg'[j] = wmsg[j]
    /\ rd'[j] = rd[j] /\ serr'[j] = serr[j] /\ final'[j] = final[j] /\ rpc'[j] = rpc[j]
    /\ inbound'[j] = inbound[j] /\ nrep'[j] = nrep[j] /\ got'[j] = got[j]
    /\ half'[j] = half[j] /\ accepted'[j] = accepted[j] /\ out'[j] = out[j]

\* The types of what belongs to one stream.
StreamType(id) ==
    /\ reqBuf[id] \in Seq(Msgs) /\ reqClosed[id] \in BOOLEAN /\ errc[id] \in Status
    /\ wmsg[id] \in Seq(Msgs) /\ serr[id] \in Status /\ final[id] \in Status
    /\ wr[id] \in {"off", "dial", "loop", "eval", "send", "exit"}
    /\ rd[id] \in {"off", "recv", "push", "last", "exit"}
    /\ run[id] \in {"none", "new", "wait", "push", "notify", "gone"}
    /\ rpc[id] \in {"none", "open"} \cup Ended
    /\ inbound[id] \in Nat /\ nrep[id] \in Nat /\ got[id] \in Seq(Msgs)
    /\ half[id] \in BOOLEAN /\ accepted[id] \in Seq(Msgs)
    /\ out[id] \in Seq({"start", "data", "close"})

---------------------------------------------------------------------------
(* What the sequences of one stream do.                                    *)

LEMMA ConcatOne ==
    ASSUME NEW s \in Seq(Msgs), NEW x \in Seq(Msgs), Len(x) = 1
    PROVE  /\ s \o x \in Seq(Msgs) /\ Len(s \o x) = Len(s) + 1 /\ Len(s) \in Nat
           /\ x[1] \in Msgs /\ s \o x = Append(s, x[1])
           /\ \A i \in 1..Len(s) : (s \o x)[i] = s[i]
           /\ (s \o x)[Len(s) + 1] = x[1]
<1>1. x = <<x[1]>> /\ x[1] \in Msgs
  OBVIOUS
<1>2. s \o x = Append(s, x[1])
  BY <1>1, AppendIsConcat
<1> QED BY <1>1, <1>2, AppendSeq

LEMMA ChainTake ==
    ASSUME NEW a \in Seq(Msgs), NEW g \in Seq(Msgs), NEW b \in Seq(Msgs), b # <<>>,
           Chain(a, g, <<>>, b)
    PROVE  Chain(a, g, <<Head(b)>>, Tail(b))
<1>1. /\ Len(b) \in Nat \ {0} /\ Len(Tail(b)) = Len(b) - 1 /\ Len(g) \in Nat
      /\ \A i \in 1..(Len(b) - 1) : Tail(b)[i] = b[i + 1]
      /\ Head(b) = b[1]
  OBVIOUS
<1>2. /\ Len(a) = Len(g) + Len(b)
      /\ \A i \in 1..Len(b) : a[Len(g) + i] = b[i]
  BY <1>1 DEF Chain
<1>3. \A i \in 1..Len(Tail(b)) : a[Len(g) + 1 + i] = Tail(b)[i]
  <2> SUFFICES ASSUME NEW i \in 1..(Len(b) - 1)
               PROVE  a[Len(g) + 1 + i] = Tail(b)[i]
    BY <1>1
  <2>1. i + 1 \in 1..Len(b) /\ Len(g) + 1 + i = Len(g) + (i + 1)
    BY <1>1
  <2> QED BY <1>1, <1>2, <2>1
<1>4. a[Len(g) + 1] = Head(b)
  BY <1>1, <1>2
<1> QED BY <1>1, <1>2, <1>3, <1>4 DEF Chain

LEMMA ChainSend ==
    ASSUME NEW a \in Seq(Msgs), NEW g \in Seq(Msgs), NEW w \in Seq(Msgs), NEW b \in Seq(Msgs),
           Len(w) = 1, Chain(a, g, w, b)
    PROVE  Chain(a, g \o w, <<>>, b) /\ a[Len(g) + 1] = w[1]
<1>1. Len(g \o w) = Len(g) + 1 /\ Len(g) \in Nat /\ Len(b) \in Nat
  BY ConcatOne
<1>2. a[Len(g) + 1] = w[1]
  BY DEF Chain
<1>3. Chain(a, g \o w, <<>>, b)
  BY <1>1 DEF Chain
<1> QED BY <1>2, <1>3

LEMMA ChainEnqueue ==
    ASSUME NEW a \in Seq(Msgs), NEW g \in Seq(Msgs), NEW w \in Seq(Msgs), NEW b \in Seq(Msgs),
           NEW x \in Seq(Msgs), Len(x) = 1, Chain(a, g, w, b)
    PROVE  Chain(a \o x, g, w, b \o x)
<1>1. /\ Len(g) \in Nat /\ Len(w) \in Nat /\ Len(b) \in Nat /\ Len(a) \in Nat
      /\ Len(a \o x) = Len(a) + 1 /\ Len(b \o x) = Len(b) + 1
      /\ \A i \in 1..Len(a) : (a \o x)[i] = a[i]
      /\ \A i \in 1..Len(b) : (b \o x)[i] = b[i]
      /\ (a \o x)[Len(a) + 1] = x[1] /\ (b \o x)[Len(b) + 1] = x[1]
  BY ConcatOne
<1>2. /\ Len(a) = Len(g) + Len(w) + Len(b)
      /\ \A i \in 1..Len(w) : a[Len(g) + i] = w[i]
      /\ \A i \in 1..Len(b) : a[Len(g) + Len(w) + i] = b[i]
  BY DEF Chain
<1>3. \A i \in 1..Len(w) : (a \o x)[Len(g) + i] = w[i]
  BY <1>1, <1>2
<1>4. \A i \in 1..Len(b \o x) : (a \o x)[Len(g) + Len(w) + i] = (b \o x)[i]
  <2> SUFFICES ASSUME NEW i \in 1..(Len(b) + 1)
               PROVE  (a \o x)[Len(g) + Len(w) + i] = (b \o x)[i]
    BY <1>1
  <2>1. CASE i \in 1..Len(b)
    <3>1. Len(g) + Len(w) + i \in 1..Len(a)
      BY <1>1, <1>2, <2>1
    <3> QED BY <1>1, <1>2, <2>1, <3>1
  <2>2. CASE i = Len(b) + 1
    BY <1>1, <1>2, <2>2
  <2>3. Len(b) \in Nat
    OBVIOUS
  <2>4. i \in 1..Len(b) \/ i = Len(b) + 1
    BY <2>3
  <2> QED BY <2>1, <2>2, <2>4
<1> QED BY <1>1, <1>2, <1>3, <1>4, SMTT(40) DEF Chain

LEMMA ChainDrained ==
    ASSUME NEW a \in Seq(Msgs), NEW g \in Seq(Msgs), Chain(a, g, <<>>, <<>>)
    PROVE  Len(a) = Len(g)
BY DEF Chain

LEMMA ChainLength ==
    ASSUME NEW a \in Seq(Msgs), NEW g \in Seq(Msgs), NEW w \in Seq(Msgs), NEW b \in Seq(Msgs),
           Chain(a, g, w, b)
    PROVE  Len(g) <= Len(a)
BY DEF Chain

LEMMA SameElements ==
    ASSUME NEW s \in Seq(Msgs), NEW t \in Seq(Msgs), Len(s) = Len(t),
           \A i \in 1..Len(s) : s[i] = t[i]
    PROVE  s = t
OBVIOUS

LEMMA ChainNext ==
    ASSUME NEW a \in Seq(Msgs), NEW g \in Seq(Msgs), NEW w \in Seq(Msgs), NEW b \in Seq(Msgs),
           Len(w) = 1, Chain(a, g, w, b)
    PROVE  Len(g) < Len(a) /\ a # <<>>
<1>1. Len(a) = Len(g) + 1 + Len(b) /\ Len(g) \in Nat /\ Len(b) \in Nat
  BY DEF Chain
<1> QED BY <1>1
---------------------------------------------------------------------------
(* A stream at a time.                                                     *)

LEMMA StreamTypes ==
    ASSUME IInv, NEW id \in Ids
    PROVE  StreamType(id)
BY DEF IInv, TypeOK, ChanType, RunType, RpcType, HistoryType, StreamType

LEMMA PathFrame ==
    ASSUME NEW j \in Ids, Paths(j), SameStream(j), up' => up
    PROVE  Paths(j)'
<1>1. RequestPath(j)'
  BY DEF Paths, SameStream, RequestPath, Queued, Allows, Announced
<1>2. ReplyPath(j)'
  BY DEF Paths, SameStream, ReplyPath, IsServerStream, IsClientStream, Tolerated
<1>3. ErrorPath(j)' /\ UnaryPath(j)'
  BY DEF Paths, SameStream, ErrorPath, UnaryPath, HasData, IsServerStream, IsClientStream
<1> QED BY <1>1, <1>2, <1>3 DEF Paths

\* A step of one stream's own goroutines or of its target.
LEMMA StreamStep ==
    ASSUME IInv, PathInv, NEW id \in Ids, UNCHANGED proxyVars, Paths(id)',
           \A j \in Ids \ {id} : SameStream(j), Announced(id) => Announced(id)'
    PROVE  PathInv'
<1>1. \A j \in Ids : Announced(j) => Announced(j)'
  BY DEF SameStream, Announced
<1>2. NamedInv'
  BY <1>1, DataRequest DEF PathInv, NamedInv, IInv, TypeOK, ReceiveType, DispatchType, DataReqs
<1>3. \A j \in Ids \ {id} : Paths(j)'
  BY PathFrame DEF PathInv, Paths
<1> QED BY <1>2, <1>3 DEF PathInv, Paths

---------------------------------------------------------------------------
(* The writer.                                                             *)

\* Only the writer, and the RPC it works on, move.
WriterFrame(id) ==
    /\ UNCHANGED <<proxyVars, reqClosed, run, final, accepted, out, up>>
    /\ inbound' = inbound /\ nrep' = nrep
    /\ \A j \in Ids \ {id} : SameStream(j)

LEMMA WriterFrames ==
    ASSUME IInv, NEW id \in Ids, Writer(id)
    PROVE  WriterFrame(id)
<1> USE DEF IInv, TypeOK, WriterFrame, SameStream
<1>1. CASE Connect(id)
  BY <1>1 DEF Connect, RunType, RpcType
<1>2. CASE ConnectFails(id)
  BY <1>2 DEF ConnectFails, WriterExits, RunType, ChanType
<1>3. CASE WriterCtxDone(id)
  BY <1>3 DEF WriterCtxDone, WriterExits, RunType
<1>4. CASE WriterClosed(id)
  BY <1>4 DEF WriterClosed, WriterExits, RunType, RpcType
<1>5. CASE WriterTakes(id)
  BY <1>5 DEF WriterTakes, RunType, ChanType
<1>6. CASE EvalDenied(id)
  BY <1>6 DEF EvalDenied, CloseWith, WriterExits, RunType, ChanType
<1>7. CASE EvalDryRun(id)
  BY <1>7 DEF EvalDryRun, CloseWith, WriterExits, RunType, ChanType
<1>8. CASE EvalAllows(id)
  BY <1>8 DEF EvalAllows, RunType
<1>9. CASE WriterSends(id)
  BY <1>9 DEF WriterSends, WriterExits, RunType, RpcType
<1>10. CASE WriterSendFails(id)
  BY <1>10 DEF WriterSendFails, WriterExits, RunType, RpcType, ChanType
<1> QED BY <1>1, <1>2, <1>3, <1>4, <1>5, <1>6, <1>7, <1>8, <1>9, <1>10 DEF Writer

LEMMA WriterPath ==
    ASSUME IInv, PathInv, NEW id \in Ids, Writer(id)
    PROVE  PathInv'
<1> USE ConstantsAssumption
<1>1. StreamType(id) /\ Paths(id) /\ WriterFrame(id)
  BY StreamTypes, WriterFrames DEF PathInv, Paths
<1>2. /\ info' = info /\ up' = up /\ reqClosed'[id] = reqClosed[id] /\ run'[id] = run[id]
      /\ final'[id] = final[id] /\ accepted'[id] = accepted[id] /\ out'[id] = out[id]
      /\ inbound'[id] = inbound[id] /\ nrep'[id] = nrep[id]
  BY <1>1 DEF WriterFrame
<1>3. Announced(id)' = Announced(id)
  BY <1>2 DEF Announced
<1>4. SUFFICES Paths(id)'
  BY <1>1, <1>3, StreamStep DEF WriterFrame
<1> USE DEF Paths, StreamType
<1>a. wr[id] \notin {"off", "exit"} => run[id] = "wait"
  BY DEF IInv, LifeInv
<1>5. CASE Connect(id)
  <2>1. /\ wr[id] = "dial" /\ wr'[id] = "loop" /\ rd'[id] = "recv"
        /\ rpc'[id] = "open" /\ reqBuf'[id] = reqBuf[id] /\ errc'[id] = errc[id]
        /\ wmsg'[id] = wmsg[id] /\ serr'[id] = serr[id] /\ got'[id] = got[id]
        /\ half'[id] = half[id]
    BY <1>5 DEF Connect, IInv, TypeOK, ChanType, RunType, RpcType
  <2>0. Queued(id) => Queued(id)'
    BY <1>2, <2>1 DEF Queued
  <2>2. RequestPath(id)'
    BY <1>1, <1>2, <1>3, <2>1, <2>0 DEF RequestPath, Allows
  <2>3. ReplyPath(id)'
    BY <1>1, <1>2, <2>1 DEF RequestPath, ReplyPath, IsServerStream, IsClientStream, Tolerated,
       OK, Ended, Status, Errors, First
  <2>4. ErrorPath(id)'
    BY <1>1, <1>2, <1>a, <2>1 DEF RequestPath, ReplyPath, ErrorPath, OK, First
  <2>5. UnaryPath(id)'
    <3>1. /\ HasData(id)' = HasData(id) /\ IsClientStream(id)' = IsClientStream(id)
          /\ IsServerStream(id)' = IsServerStream(id) /\ "open" # OK
      BY <1>2 DEF HasData, IsClientStream, IsServerStream, OK
    <3> QED BY <1>1, <2>1, <3>1 DEF UnaryPath
  <2> QED BY <2>2, <2>3, <2>4, <2>5
<1>6. CASE ConnectFails(id)
  <2>1. /\ wr[id] = "dial" /\ wr'[id] = "exit" /\ wmsg'[id] = <<>>
        /\ serr'[id] = First(serr[id], "Unreachable") /\ reqBuf'[id] = reqBuf[id]
        /\ errc'[id] = errc[id] /\ rd'[id] = rd[id] /\ rpc'[id] = rpc[id]
        /\ got'[id] = got[id] /\ half'[id] = half[id]
    BY <1>6 DEF ConnectFails, WriterExits, IInv, TypeOK, ChanType, RunType, RpcType
  <2>2. RequestPath(id)'
    BY <1>1, <1>2, <1>3, <2>1 DEF RequestPath, Queued, Allows
  <2>3. ReplyPath(id)'
    BY <1>1, <1>2, <2>1 DEF RequestPath, ReplyPath, IsServerStream, IsClientStream, Tolerated,
       OK, Ended, Status, Errors, First
  <2>4. ErrorPath(id)'
    BY <1>1, <1>2, <1>a, <2>1 DEF RequestPath, ReplyPath, ErrorPath, OK, First
  <2>5. UnaryPath(id)'
    BY <1>1, <1>2, <2>1 DEF RequestPath, ReplyPath, ErrorPath, UnaryPath, HasData,
       IsServerStream, IsClientStream, OK, First, Ended, Tolerated
  <2> QED BY <2>2, <2>3, <2>4, <2>5
<1>7. CASE WriterCtxDone(id)
  <2>1. /\ wr[id] = "loop" /\ wr'[id] = "exit" /\ wmsg'[id] = <<>>
        /\ serr'[id] = First(serr[id], "Canceled") /\ reqBuf'[id] = reqBuf[id]
        /\ errc'[id] = errc[id] /\ rd'[id] = rd[id] /\ rpc'[id] = rpc[id]
        /\ got'[id] = got[id] /\ half'[id] = half[id]
    BY <1>7 DEF WriterCtxDone, WriterExits, IInv, TypeOK, ChanType, RunType, RpcType
  <2>2. RequestPath(id)'
    BY <1>1, <1>2, <1>3, <2>1 DEF RequestPath, Queued, Allows
  <2>3. ReplyPath(id)'
    BY <1>1, <1>2, <2>1 DEF RequestPath, ReplyPath, IsServerStream, IsClientStream, Tolerated,
       OK, Ended, Status, Errors, First
  <2>4. ErrorPath(id)'
    BY <1>1, <1>2, <1>a, <2>1 DEF RequestPath, ReplyPath, ErrorPath, OK, First
  <2>5. UnaryPath(id)'
    BY <1>1, <1>2, <2>1 DEF RequestPath, ReplyPath, ErrorPath, UnaryPath, HasData,
       IsServerStream, IsClientStream, OK, First, Ended, Tolerated
  <2> QED BY <2>2, <2>3, <2>4, <2>5
<1>8. CASE WriterClosed(id)
  <2>1. /\ wr[id] = "loop" /\ reqClosed[id] /\ reqBuf[id] = <<>> /\ wr'[id] = "exit"
        /\ wmsg'[id] = <<>> /\ serr'[id] = serr[id] /\ half'[id] = IsClientStream(id)
        /\ reqBuf'[id] = reqBuf[id] /\ errc'[id] = errc[id] /\ rd'[id] = rd[id]
        /\ rpc'[id] = rpc[id] /\ got'[id] = got[id]
    BY <1>8 DEF First, WriterClosed, WriterExits, IInv, TypeOK, ChanType, RunType, RpcType
  <2>0. Len(got[id]) = Len(accepted[id])
    BY <1>1, <2>1, ChainDrained DEF Queued, RequestPath
  <2>2. RequestPath(id)'
    <3>1. wr'[id] = "exit" /\ run'[id] \notin {"none", "new"} /\ wmsg'[id] = <<>>
      BY <1>1, <1>2, <2>1 DEF RequestPath
    <3>2. /\ Len(got'[id]) <= Len(accepted'[id]) /\ Len(got'[id]) = Len(accepted'[id])
          /\ \A i \in 1..Len(got'[id]) :
                /\ got'[id][i] = accepted'[id][i]
                /\ <<info'[id].pair, got'[id][i]>> \in Permitted /\ ~info'[id].dry
      BY <1>1, <1>2, <2>1, <2>0 DEF RequestPath
    <3>3. reqClosed'[id] /\ (accepted'[id] # <<>> => Announced(id)')
      BY <1>1, <1>2, <1>3, <2>1 DEF RequestPath
    <3> QED BY <3>1, <3>2, <3>3 DEF RequestPath
  <2>3. ReplyPath(id)'
    BY <1>1, <1>2, <2>1 DEF RequestPath, ReplyPath, IsServerStream, IsClientStream, Tolerated,
       OK, Ended, Status, Errors, First
  <2>4. ErrorPath(id)'
    BY <1>1, <1>2, <1>a, <2>1 DEF RequestPath, ReplyPath, ErrorPath, OK, First
  <2>5. UnaryPath(id)'
    BY <1>1, <1>2, <2>1 DEF RequestPath, ReplyPath, ErrorPath, UnaryPath, HasData,
       IsServerStream, IsClientStream, OK, First, Ended, Tolerated
  <2> QED BY <2>2, <2>3, <2>4, <2>5
<1>9. CASE WriterTakes(id)
  <2>1. /\ wr[id] = "loop" /\ reqBuf[id] # <<>> /\ wr'[id] = "eval"
        /\ wmsg'[id] = <<Head(reqBuf[id])>> /\ reqBuf'[id] = Tail(reqBuf[id])
        /\ errc'[id] = errc[id] /\ rd'[id] = rd[id] /\ serr'[id] = serr[id]
        /\ rpc'[id] = rpc[id] /\ got'[id] = got[id] /\ half'[id] = half[id]
    BY <1>9 DEF WriterTakes, IInv, TypeOK, ChanType, RunType, RpcType
  <2>0. Queued(id)'
    <3>1. Chain(accepted[id], got[id], <<>>, reqBuf[id])
      BY <1>1, <2>1 DEF Queued, RequestPath
    <3> QED BY <1>1, <1>2, <2>1, <3>1, ChainTake DEF Queued
  <2>2. RequestPath(id)'
    BY <1>1, <1>2, <1>3, <2>1, <2>0 DEF RequestPath
  <2>3. ReplyPath(id)'
    BY <1>1, <1>2, <2>1 DEF RequestPath, ReplyPath, IsServerStream, IsClientStream, Tolerated,
       OK, Ended, Status, Errors, First
  <2>4. ErrorPath(id)'
    BY <1>1, <1>2, <1>a, <2>1 DEF RequestPath, ReplyPath, ErrorPath, OK, First
  <2>5. UnaryPath(id)'
    BY <1>1, <1>2, <2>1, SMTT(40) DEF RequestPath, ReplyPath, ErrorPath, UnaryPath, HasData,
       IsServerStream, IsClientStream, OK, First, Ended, Tolerated
  <2> QED BY <2>2, <2>3, <2>4, <2>5
<1>10. CASE EvalDenied(id)
  <2>1. /\ wr[id] = "eval" /\ wr'[id] = "exit" /\ wmsg'[id] = <<>>
        /\ reqBuf'[id] = reqBuf[id] /\ rd'[id] = rd[id] /\ rpc'[id] = rpc[id]
        /\ got'[id] = got[id] /\ half'[id] = half[id]
        /\ serr'[id] # OK /\ errc'[id] # OK
    BY <1>10, <1>1 DEF EvalErrors, First, OK,  EvalDenied, CloseWith, WriterExits, IInv,
       TypeOK, ChanType, RunType, RpcType
  <2>2. RequestPath(id)'
    BY <1>1, <1>2, <1>3, <2>1 DEF RequestPath, Queued, Allows
  <2>3. ReplyPath(id)'
    BY <1>1, <1>2, <2>1 DEF RequestPath, ReplyPath, IsServerStream, IsClientStream, Tolerated,
       OK, Ended, Status, Errors, First
  <2>4. ErrorPath(id)'
    BY <1>1, <1>2, <1>a, <2>1 DEF RequestPath, ReplyPath, ErrorPath, OK, First
  <2>5. UnaryPath(id)'
    BY <1>1, <1>2, <2>1 DEF RequestPath, ReplyPath, ErrorPath, UnaryPath, HasData,
       IsServerStream, IsClientStream, OK, First, Ended, Tolerated
  <2> QED BY <2>2, <2>3, <2>4, <2>5
<1>11. CASE EvalDryRun(id)
  <2>1. /\ wr[id] = "eval" /\ wr'[id] = "exit" /\ wmsg'[id] = <<>>
        /\ serr'[id] = serr[id] /\ reqBuf'[id] = reqBuf[id] /\ rd'[id] = rd[id]
        /\ rpc'[id] = rpc[id] /\ got'[id] = got[id] /\ half'[id] = half[id]
        /\ errc'[id] # OK
    BY <1>11, <1>1 DEF First, OK,  EvalDryRun, CloseWith, WriterExits, IInv, TypeOK, ChanType,
       RunType, RpcType
  <2>2. RequestPath(id)'
    BY <1>1, <1>2, <1>3, <2>1 DEF RequestPath, Queued, Allows
  <2>3. ReplyPath(id)'
    BY <1>1, <1>2, <2>1 DEF RequestPath, ReplyPath, IsServerStream, IsClientStream, Tolerated,
       OK, Ended, Status, Errors, First
  <2>4. ErrorPath(id)'
    BY <1>1, <1>2, <1>a, <2>1 DEF RequestPath, ReplyPath, ErrorPath, OK, First
  <2>5. UnaryPath(id)'
    BY <1>1, <1>2, <2>1 DEF RequestPath, ReplyPath, ErrorPath, UnaryPath, HasData,
       IsServerStream, IsClientStream, OK, First, Ended, Tolerated
  <2> QED BY <2>2, <2>3, <2>4, <2>5
<1>12. CASE EvalAllows(id)
  <2>1. /\ wr[id] = "eval" /\ Allows(id) /\ ~info[id].dry /\ wr'[id] = "send"
        /\ reqBuf'[id] = reqBuf[id] /\ errc'[id] = errc[id] /\ wmsg'[id] = wmsg[id]
        /\ rd'[id] = rd[id] /\ serr'[id] = serr[id] /\ rpc'[id] = rpc[id]
        /\ got'[id] = got[id] /\ half'[id] = half[id]
    BY <1>12 DEF EvalAllows, IInv, TypeOK, ChanType, RunType, RpcType
  <2>0. Queued(id) => Queued(id)'
    BY <1>2, <2>1 DEF Queued
  <2>2. RequestPath(id)'
    BY <1>1, <1>2, <1>3, <2>1, <2>0 DEF RequestPath, Allows
  <2>3. ReplyPath(id)'
    BY <1>1, <1>2, <2>1 DEF RequestPath, ReplyPath, IsServerStream, IsClientStream, Tolerated,
       OK, Ended, Status, Errors, First
  <2>4. ErrorPath(id)'
    BY <1>1, <1>2, <1>a, <2>1 DEF RequestPath, ReplyPath, ErrorPath, OK, First
  <2>5. UnaryPath(id)'
    BY <1>1, <1>2, <2>1 DEF RequestPath, ReplyPath, ErrorPath, UnaryPath, HasData,
       IsServerStream, IsClientStream, OK, First, Ended, Tolerated
  <2> QED BY <2>2, <2>3, <2>4, <2>5
<1>13. CASE WriterSends(id)
  <2>1. /\ wr[id] = "send" /\ rpc[id] = "open"
        /\ wr'[id] = (IF IsClientStream(id) THEN "loop" ELSE "exit")
        /\ wmsg'[id] = <<>> /\ got'[id] = got[id] \o wmsg[id]
        /\ reqBuf'[id] = reqBuf[id] /\ errc'[id] = errc[id] /\ rd'[id] = rd[id]
        /\ serr'[id] = serr[id] /\ rpc'[id] = rpc[id] /\ half'[id] = half[id]
    BY <1>13 DEF First, WriterSends, WriterExits, IInv, TypeOK, ChanType, RunType, RpcType
  <2>a. Len(wmsg[id]) = 1 /\ Queued(id) /\ Allows(id) /\ ~info[id].dry
    BY <1>1, <2>1 DEF RequestPath
  <2>f. /\ Chain(accepted[id], got[id] \o wmsg[id], <<>>, reqBuf[id])
        /\ accepted[id][Len(got[id]) + 1] = wmsg[id][1]
    <3>1. /\ accepted[id] \in Seq(Msgs) /\ got[id] \in Seq(Msgs) /\ wmsg[id] \in Seq(Msgs)
          /\ reqBuf[id] \in Seq(Msgs)
          /\ Len(wmsg[id]) = 1 /\ Chain(accepted[id], got[id], wmsg[id], reqBuf[id])
      BY <1>1, <2>a DEF Queued
    <3> QED BY <3>1, ChainSend
  <2>b. /\ Chain(accepted[id], got'[id], <<>>, reqBuf[id])
        /\ accepted[id][Len(got[id]) + 1] = wmsg[id][1]
        /\ Len(got'[id]) = Len(got[id]) + 1 /\ Len(got[id]) \in Nat
        /\ \A i \in 1..Len(got[id]) : got'[id][i] = got[id][i]
        /\ got'[id][Len(got[id]) + 1] = wmsg[id][1]
        /\ got'[id] \in Seq(Msgs)
    <3>1. got[id] \in Seq(Msgs) /\ wmsg[id] \in Seq(Msgs) /\ Len(wmsg[id]) = 1
      BY <1>1, <2>a
    <3>2. /\ got[id] \o wmsg[id] \in Seq(Msgs) /\ Len(got[id]) \in Nat
          /\ Len(got[id] \o wmsg[id]) = Len(got[id]) + 1
          /\ \A i \in 1..Len(got[id]) : (got[id] \o wmsg[id])[i] = got[id][i]
          /\ (got[id] \o wmsg[id])[Len(got[id]) + 1] = wmsg[id][1]
      BY <3>1, ConcatOne
    <3> QED BY <2>1, <2>f, <3>2
  <2>0. Queued(id)'
    BY <1>2, <2>1, <2>b DEF Queued
  <2>d. Len(got'[id]) <= Len(accepted'[id])
    BY <1>1, <1>2, <2>1, <2>b, ChainLength, NoneIsSeq
  <2>e. \A i \in 1..Len(got'[id]) :
           /\ got'[id][i] = accepted'[id][i]
           /\ <<info'[id].pair, got'[id][i]>> \in Permitted /\ ~info'[id].dry
    <3>1. \A i \in 1..Len(got'[id]) : i \in 1..Len(got[id]) \/ i = Len(got[id]) + 1
      BY <2>b
    <3>2. \A i \in 1..Len(got[id]) :
             got[id][i] = accepted[id][i] /\ <<info[id].pair, got[id][i]>> \in Permitted
      BY <1>1 DEF RequestPath
    <3> QED BY <1>2, <2>a, <2>b, <3>1, <3>2 DEF Allows
  <2>2. RequestPath(id)'
    BY <1>1, <1>2, <1>3, <2>1, <2>0, <2>d, <2>e DEF RequestPath
  <2>3. ReplyPath(id)'
    BY <1>1, <1>2, <2>1 DEF RequestPath, ReplyPath, IsServerStream, IsClientStream, Tolerated,
       OK, Ended, Status, Errors, First
  <2>4. ErrorPath(id)'
    BY <1>1, <1>2, <1>a, <2>1 DEF RequestPath, ReplyPath, ErrorPath, OK, First
  <2>5. UnaryPath(id)'
    BY <1>1, <1>2, <2>1 DEF RequestPath, ReplyPath, ErrorPath, UnaryPath, HasData,
       IsServerStream, IsClientStream, OK, First, Ended, Tolerated
  <2> QED BY <2>2, <2>3, <2>4, <2>5
<1>14. CASE WriterSendFails(id)
  <2>1. /\ wr[id] = "send" /\ wr'[id] = "exit" /\ wmsg'[id] = <<>>
        /\ reqBuf'[id] = reqBuf[id] /\ errc'[id] = errc[id] /\ rd'[id] = rd[id]
        /\ got'[id] = got[id] /\ half'[id] = half[id]
        /\ \/ /\ rpc[id] = "open" /\ rpc'[id] = "Internal" /\ serr'[id] = First(serr[id], "Internal")
           \/ rpc[id] # "open" /\ rpc'[id] = rpc[id] /\ serr'[id] = serr[id]
    BY <1>14 DEF First,  WriterSendFails, WriterExits, IInv, TypeOK, ChanType, RunType, RpcType
  <2>2. RequestPath(id)'
    BY <1>1, <1>2, <1>3, <2>1 DEF RequestPath, Queued, Allows
  <2>3. ReplyPath(id)'
    BY <1>1, <1>2, <2>1 DEF RequestPath, ReplyPath, IsServerStream, IsClientStream, Tolerated,
       OK, Ended, Status, Errors, First
  <2>4. ErrorPath(id)'
    BY <1>1, <1>2, <1>a, <2>1 DEF RequestPath, ReplyPath, ErrorPath, OK, First
  <2>5. UnaryPath(id)'
    BY <1>1, <1>2, <2>1 DEF RequestPath, ReplyPath, ErrorPath, UnaryPath, HasData,
       IsServerStream, IsClientStream, OK, First, Ended, Tolerated
  <2> QED BY <2>2, <2>3, <2>4, <2>5
<1> QED BY <1>5, <1>6, <1>7, <1>8, <1>9, <1>10, <1>11, <1>12, <1>13, <1>14 DEF Writer

---------------------------------------------------------------------------
(* What the client is sent.                                                *)

LEMMA ReplyAppended ==
    ASSUME NEW s \in Seq({"start", "data", "close"}), NEW m \in {"start", "data", "close"}
    PROVE  /\ Len(s) \in Nat /\ Len(Append(s, m)) = Len(s) + 1 /\ Append(s, m) # <<>>
           /\ \A i \in 1..Len(s) : Append(s, m)[i] = s[i]
           /\ Append(s, m)[Len(s) + 1] = m
BY AppendSeq

LEMMA RelayedCounts ==
    ASSUME NEW s \in Seq({"start", "data", "close"}), NEW m \in {"start", "data", "close"}
    PROVE  /\ Relayed(s) \in Nat /\ Relayed(<<>>) = 0
           /\ Relayed(Append(s, m)) = Relayed(s) + (IF m = "data" THEN 1 ELSE 0)
<1> DEFINE D(t) == {i \in 1..Len(t) : t[i] = "data"}
<1>1. /\ Len(s) \in Nat /\ Len(Append(s, m)) = Len(s) + 1
      /\ \A i \in 1..Len(s) : Append(s, m)[i] = s[i]
      /\ Append(s, m)[Len(s) + 1] = m
  BY AppendSeq
<1>2. IsFiniteSet(D(s))
  <2>1. IsFiniteSet(1..Len(s)) /\ D(s) \subseteq 1..Len(s)
    BY <1>1, FS_Interval
  <2> QED BY <2>1, FS_Subset
<1>3. Relayed(s) \in Nat
  BY <1>2, FS_CardinalityType DEF Relayed
<1>4. Relayed(<<>>) = 0
  <2>1. D(<<>>) = {}
    OBVIOUS
  <2> QED BY <2>1, FS_EmptySet DEF Relayed
<1>5. Len(s) + 1 \notin D(s)
  BY <1>1
<1>6. D(Append(s, m)) = IF m = "data" THEN D(s) \cup {Len(s) + 1} ELSE D(s)
  BY <1>1
<1>7. Cardinality(D(s) \cup {Len(s) + 1}) = Cardinality(D(s)) + 1
  BY <1>2, <1>5, FS_AddElement
<1>8. Relayed(s) = Cardinality(D(s)) /\ Relayed(Append(s, m)) = Cardinality(D(Append(s, m)))
  BY DEF Relayed
<1> HIDE DEF D
<1>9. CASE m = "data"
  BY <1>3, <1>4, <1>6, <1>7, <1>8, <1>9
<1>10. CASE m # "data"
  BY <1>3, <1>4, <1>6, <1>8, <1>10
<1> QED BY <1>9, <1>10

LEMMA RelayEffect ==
    ASSUME IInv, NEW id \in Ids, NEW m \in {"start", "data", "close"}, Relay(id, m)
    PROVE  /\ \A j \in Ids \ {id} : out'[j] = out[j]
           /\ Announced(id) => Announced(id)'
           /\ Relayed(out[id]) \in Nat
           /\ Relayed(out'[id]) = Relayed(out[id]) + (IF up /\ m = "data" THEN 1 ELSE 0)
           /\ HasData(id)' => HasData(id) \/ m = "data"
           /\ up /\ m = "start" /\ out[id] = <<>> => Announced(id)'
<1>1. out[id] \in Seq({"start", "data", "close"}) /\ out \in [Ids -> Seq({"start", "data", "close"})]
  BY DEF IInv, TypeOK, HistoryType
<1>2. Relayed(out[id]) \in Nat
  BY <1>1, RelayedCounts
<1>3. CASE ~up
  <2>1. out' = out
    BY <1>3 DEF Relay
  <2> QED BY <1>2, <1>3, <2>1 DEF Announced, HasData
<1>4. CASE up
  <2>1. id # NoId
    BY ConstantsAssumption
  <2>2. out' = [out EXCEPT ![id] = Append(@, m)]
    BY <1>4, <2>1 DEF Relay
  <2>3. out'[id] = Append(out[id], m) /\ \A j \in Ids \ {id} : out'[j] = out[j]
    BY <1>1, <2>2
  <2>4. Relayed(out'[id]) = Relayed(out[id]) + (IF up /\ m = "data" THEN 1 ELSE 0)
    BY <1>1, <1>4, <2>3, RelayedCounts
  <2>5. /\ Len(out[id]) \in Nat /\ Len(out'[id]) = Len(out[id]) + 1 /\ out'[id] # <<>>
        /\ \A i \in 1..Len(out[id]) : out'[id][i] = out[id][i]
        /\ out'[id][Len(out[id]) + 1] = m
    <3>1. out[id] \in Seq({"start", "data", "close"})
      BY <1>1
    <3> QED BY <2>3, <3>1, ReplyAppended
  <2>9. (out[id] # <<>> => Len(out[id]) > 0) /\ (out[id] = <<>> => Len(out[id]) = 0)
    BY <1>1
  <2>6. Announced(id) => Announced(id)'
    BY <2>5, <2>9 DEF Announced
  <2>7. HasData(id)' => HasData(id) \/ m = "data"
    <3>1. \A i \in 1..Len(out'[id]) : i \in 1..Len(out[id]) \/ i = Len(out[id]) + 1
      BY <2>5
    <3> QED BY <2>5, <3>1 DEF HasData
  <2>8. m = "start" /\ out[id] = <<>> => Announced(id)'
    BY <2>5, <2>9 DEF Announced
  <2> QED BY <1>2, <2>3, <2>4, <2>6, <2>7, <2>8
<1> QED BY <1>3, <1>4

---------------------------------------------------------------------------
(* The reader.                                                             *)

\* Only the reader moves, and what it reads and sends.
ReaderFrame(id) ==
    /\ UNCHANGED <<proxyVars, reqBuf, reqClosed, run, wr, wmsg, final, rpc, nrep, got, half,
                   accepted>>
    /\ \A j \in Ids \ {id} : SameStream(j)

LEMMA ReaderFrames ==
    ASSUME IInv, NEW id \in Ids, Reader(id)
    PROVE  ReaderFrame(id)
<1> USE DEF IInv, TypeOK, ReaderFrame, SameStream
<1>1. CASE ReadData(id)
  BY <1>1 DEF ReadData, RunType, RpcType
<1>2. CASE ReadEOF(id)
  BY <1>2 DEF ReadEOF, RunType
<1>3. CASE ReadTolerated(id)
  BY <1>3 DEF ReadTolerated, RunType
<1>4. CASE ReadErr(id)
  BY <1>4 DEF ReadErr, CloseWith, RunType, ChanType
<1>5. CASE ReaderPush(id)
  <2>1. \A j \in Ids \ {id} : out'[j] = out[j]
    BY <1>5, RelayEffect DEF ReaderPush
  <2> QED BY <1>5, <2>1 DEF ReaderPush, RunType
<1> QED BY <1>1, <1>2, <1>3, <1>4, <1>5 DEF Reader

LEMMA ReaderPath ==
    ASSUME IInv, PathInv, NEW id \in Ids, Reader(id)
    PROVE  PathInv'
<1> USE ConstantsAssumption
<1>1. StreamType(id) /\ Paths(id) /\ ReaderFrame(id)
  BY StreamTypes, ReaderFrames DEF PathInv, Paths
<1>2. /\ info' = info /\ up' = up /\ reqBuf'[id] = reqBuf[id] /\ reqClosed'[id] = reqClosed[id]
      /\ run'[id] = run[id] /\ wr'[id] = wr[id] /\ wmsg'[id] = wmsg[id]
      /\ final'[id] = final[id] /\ rpc'[id] = rpc[id] /\ nrep'[id] = nrep[id]
      /\ got'[id] = got[id] /\ half'[id] = half[id] /\ accepted'[id] = accepted[id]
  BY <1>1 DEF ReaderFrame
<1>3. rd[id] \notin {"off", "exit"} => run[id] = "wait"
  BY DEF IInv, LifeInv
<1>4. (Queued(id) => Queued(id)') /\ (Allows(id) => Allows(id)')
  BY <1>2 DEF Queued, Allows
<1> USE DEF Paths, StreamType
<1>r. Relayed(out[id]) \in Nat
  BY <1>1, RelayedCounts
<1>5. (Announced(id) => Announced(id)') => RequestPath(id)'
  BY <1>1, <1>2, <1>4 DEF RequestPath
<1>6. SUFFICES (Announced(id) => Announced(id)') /\ ReplyPath(id)' /\ ErrorPath(id)' /\ UnaryPath(id)'
  BY <1>1, <1>5, StreamStep DEF ReaderFrame
<1>7. CASE ReadData(id)
  <2>1. /\ rd[id] = "recv" /\ inbound[id] > 0 /\ inbound'[id] = inbound[id] - 1
        /\ rd'[id] = (IF IsServerStream(id) THEN "push" ELSE "last")
        /\ serr'[id] = serr[id] /\ errc'[id] = errc[id] /\ out'[id] = out[id]
    BY <1>7 DEF ReadData, IInv, TypeOK, ChanType, RunType, RpcType
  <2>2. Announced(id) => Announced(id)'
    BY <2>1 DEF Announced
  <2>3. ReplyPath(id)'
    BY <1>1, <1>2, <1>r, <2>1 DEF RequestPath, ReplyPath, IsServerStream, IsClientStream,
       Tolerated, OK, Ended, First
  <2>4. ErrorPath(id)'
    BY <1>1, <1>2, <1>3, <2>1 DEF RequestPath, ReplyPath, IsServerStream, IsClientStream,
       Tolerated, OK, Ended, First, ErrorPath
  <2>5. UnaryPath(id)'
    BY <1>1, <1>2, <1>3, <2>1 DEF RequestPath, ReplyPath, IsServerStream, IsClientStream,
       Tolerated, OK, Ended, First, ErrorPath, UnaryPath, HasData
  <2> QED BY <2>2, <2>3, <2>4, <2>5
<1>8. CASE ReadEOF(id)
  <2>1. /\ rd[id] = "recv" /\ inbound[id] = 0 /\ rpc[id] = OK /\ rd'[id] = "exit"
        /\ inbound'[id] = inbound[id] /\ serr'[id] = serr[id] /\ errc'[id] = errc[id]
        /\ out'[id] = out[id]
    BY <1>8 DEF ReadEOF, IInv, TypeOK, ChanType, RunType, RpcType
  <2>2. Announced(id) => Announced(id)'
    BY <2>1 DEF Announced
  <2>3. ReplyPath(id)'
    BY <1>1, <1>2, <1>r, <2>1 DEF RequestPath, ReplyPath, IsServerStream, IsClientStream,
       Tolerated, OK, Ended, First
  <2>4. ErrorPath(id)'
    BY <1>1, <1>2, <1>3, <2>1 DEF RequestPath, ReplyPath, IsServerStream, IsClientStream,
       Tolerated, OK, Ended, First, ErrorPath
  <2>5. UnaryPath(id)'
    BY <1>1, <1>2, <1>3, <2>1 DEF RequestPath, ReplyPath, IsServerStream, IsClientStream,
       Tolerated, OK, Ended, First, ErrorPath, UnaryPath, HasData
  <2> QED BY <2>2, <2>3, <2>4, <2>5
<1>9. CASE ReadTolerated(id)
  <2>1. /\ rd[id] = "recv" /\ inbound[id] = 0 /\ Tolerated(id) /\ rd'[id] = "last"
        /\ inbound'[id] = inbound[id] /\ serr'[id] = serr[id] /\ errc'[id] = errc[id]
        /\ out'[id] = out[id]
    BY <1>9 DEF ReadTolerated, IInv, TypeOK, ChanType, RunType, RpcType
  <2>2. Announced(id) => Announced(id)'
    BY <2>1 DEF Announced
  <2>3. ReplyPath(id)'
    BY <1>1, <1>2, <1>r, <2>1 DEF RequestPath, ReplyPath, IsServerStream, IsClientStream,
       Tolerated, OK, Ended, First
  <2>4. ErrorPath(id)'
    BY <1>1, <1>2, <1>3, <2>1 DEF RequestPath, ReplyPath, IsServerStream, IsClientStream,
       Tolerated, OK, Ended, First, ErrorPath
  <2>5. UnaryPath(id)'
    BY <1>1, <1>2, <1>3, <2>1 DEF RequestPath, ReplyPath, IsServerStream, IsClientStream,
       Tolerated, OK, Ended, First, ErrorPath, UnaryPath, HasData
  <2> QED BY <2>2, <2>3, <2>4, <2>5
<1>10. CASE ReadErr(id)
  <2>1. /\ rd[id] = "recv" /\ inbound[id] = 0 /\ rd'[id] = "exit"
        /\ inbound'[id] = inbound[id] /\ serr'[id] # OK /\ errc'[id] # OK
        /\ out'[id] = out[id]
    BY <1>10 DEF ReadErr, CloseWith, First, OK, Ended, IInv, TypeOK, ChanType, RunType, RpcType
  <2>2. Announced(id) => Announced(id)'
    BY <2>1 DEF Announced
  <2>3. ReplyPath(id)'
    BY <1>1, <1>2, <1>r, <2>1 DEF RequestPath, ReplyPath, IsServerStream, IsClientStream,
       Tolerated, OK, Ended, First
  <2>4. ErrorPath(id)'
    BY <1>1, <1>2, <1>3, <2>1 DEF RequestPath, ReplyPath, IsServerStream, IsClientStream,
       Tolerated, OK, Ended, First, ErrorPath
  <2>5. UnaryPath(id)'
    BY <1>1, <1>2, <1>3, <2>1 DEF RequestPath, ReplyPath, IsServerStream, IsClientStream,
       Tolerated, OK, Ended, First, ErrorPath, UnaryPath, HasData
  <2> QED BY <2>2, <2>3, <2>4, <2>5
<1>11. CASE ReaderPush(id)
  <2>1. /\ rd[id] \in {"push", "last"} /\ rd'[id] = (IF rd[id] = "push" THEN "recv" ELSE "exit")
        /\ inbound'[id] = inbound[id] /\ serr'[id] = serr[id] /\ errc'[id] = errc[id]
    BY <1>11 DEF ReaderPush, IInv, TypeOK, RunType
  <2>2. /\ Announced(id) => Announced(id)'
        /\ Relayed(out[id]) \in Nat
        /\ Relayed(out'[id]) = Relayed(out[id]) + (IF up THEN 1 ELSE 0)
    BY <1>11, RelayEffect DEF ReaderPush
  <2>3. ReplyPath(id)'
    <3>1. CASE IsServerStream(id)
      <4>1. rd[id] = "push" /\ rd'[id] = "recv"
        BY <1>1, <2>1, <3>1 DEF ReplyPath
      <4>2. up => nrep[id] = Relayed(out[id]) + inbound[id] + 1
        BY <1>1, <3>1, <4>1 DEF ReplyPath
      <4>3. up => nrep'[id] = Relayed(out'[id]) + inbound'[id]
        BY <1>1, <1>2, <2>1, <2>2, <4>2
      <4> QED BY <1>1, <1>2, <2>1, <3>1, <4>1, <4>3 DEF ReplyPath, IsServerStream
    <3>2. CASE ~IsServerStream(id)
      BY <1>1, <1>2, <2>1, <3>2 DEF ReplyPath, IsServerStream, IsClientStream, Tolerated
    <3> QED BY <3>1, <3>2
  <2>4. ErrorPath(id)'
    BY <1>1, <1>2, <1>3, <2>1 DEF ReplyPath, ErrorPath
  <2>5. ASSUME ~IsClientStream(id), ~IsServerStream(id)
        PROVE  rd[id] = "last" /\ wr[id] = "exit" /\ serr[id] = OK /\ errc[id] = OK
    <3>1. rd[id] = "last" /\ rpc[id] = OK
      BY <1>1, <2>1, <2>5 DEF ReplyPath, Tolerated
    <3> QED BY <1>1, <2>5, <3>1 DEF UnaryPath
  <2>6. UnaryPath(id)'
    BY <1>1, <1>2, <1>3, <2>1, <2>5 DEF UnaryPath, IsServerStream, IsClientStream
  <2> QED BY <2>2, <2>3, <2>4, <2>6
<1> QED BY <1>7, <1>8, <1>9, <1>10, <1>11 DEF Reader

---------------------------------------------------------------------------
(* Run, and the target.                                                    *)

\* Only Run moves, and what it tells.
RunFrame(id) ==
    /\ UNCHANGED <<proxyVars, reqBuf, reqClosed, wr, wmsg, rd, serr, rpcVars, accepted>>
    /\ \A j \in Ids \ {id} : SameStream(j)

LEMMA RunFrames ==
    ASSUME IInv, NEW id \in Ids, Run(id)
    PROVE  RunFrame(id)
<1> USE DEF IInv, TypeOK, RunFrame, SameStream
<1>1. CASE RunWait(id)
  BY <1>1 DEF RunWait, RunType, ChanType
<1>2. CASE RunPush(id)
  <2>1. \A j \in Ids \ {id} : out'[j] = out[j]
    BY <1>2, RelayEffect DEF RunPush
  <2> QED BY <1>2, <2>1 DEF RunPush, RunType
<1>3. CASE RunCtxGone(id)
  BY <1>3 DEF RunCtxGone, RunType
<1> QED BY <1>1, <1>2, <1>3 DEF Run

LEMMA RunPath ==
    ASSUME IInv, PathInv, NEW id \in Ids, Run(id)
    PROVE  PathInv'
<1> USE ConstantsAssumption
<1>1. StreamType(id) /\ Paths(id) /\ RunFrame(id)
  BY StreamTypes, RunFrames DEF PathInv, Paths
<1>2. /\ info' = info /\ up' = up /\ reqBuf'[id] = reqBuf[id] /\ reqClosed'[id] = reqClosed[id]
      /\ wr'[id] = wr[id] /\ wmsg'[id] = wmsg[id] /\ rd'[id] = rd[id] /\ serr'[id] = serr[id]
      /\ rpc'[id] = rpc[id] /\ inbound'[id] = inbound[id] /\ nrep'[id] = nrep[id]
      /\ got'[id] = got[id] /\ half'[id] = half[id] /\ accepted'[id] = accepted[id]
  BY <1>1 DEF RunFrame
<1>3. (Queued(id) => Queued(id)') /\ (Allows(id) => Allows(id)')
  BY <1>2 DEF Queued, Allows
<1>4. \/ /\ run[id] = "wait" /\ run'[id] = "push" /\ wr[id] = "exit" /\ rd[id] \in {"off", "exit"}
         /\ final'[id] = (IF errc[id] # OK THEN errc[id] ELSE serr[id]) /\ errc'[id] = OK
         /\ out'[id] = out[id]
      \/ /\ run[id] = "push" /\ run'[id] = "notify" /\ Relay(id, "close")
         /\ final'[id] = final[id] /\ errc'[id] = errc[id]
      \/ /\ run[id] = "notify" /\ run'[id] = "gone"
         /\ final'[id] = final[id] /\ errc'[id] = errc[id] /\ out'[id] = out[id]
  <2> USE DEF IInv, TypeOK, RunType, ChanType
  <2>1. CASE RunWait(id)
    BY <2>1 DEF RunWait
  <2>2. CASE RunPush(id)
    BY <2>2 DEF RunPush
  <2>3. CASE RunCtxGone(id)
    BY <2>3 DEF RunCtxGone
  <2> QED BY <2>1, <2>2, <2>3 DEF Run
<1>5. /\ Announced(id) => Announced(id)'
      /\ Relayed(out'[id]) = Relayed(out[id]) /\ (HasData(id)' => HasData(id))
  <2>1. CASE out'[id] = out[id]
    BY <2>1 DEF Announced, HasData
  <2>2. CASE Relay(id, "close")
    <3>1. Relayed(out[id]) \in Nat /\ Relayed(out'[id]) = Relayed(out[id]) + 0
      BY <2>2, RelayEffect
    <3>2. (Announced(id) => Announced(id)') /\ (HasData(id)' => HasData(id))
      BY <2>2, RelayEffect
    <3> QED BY <3>1, <3>2
  <2> QED BY <1>4, <2>1, <2>2
<1> USE DEF Paths, StreamType
<1>6. RequestPath(id)'
  BY <1>1, <1>2, <1>3, <1>4, <1>5 DEF RequestPath
<1>7. ReplyPath(id)'
  BY <1>1, <1>2, <1>5 DEF ReplyPath, IsServerStream, IsClientStream, Tolerated
<1>8. ErrorPath(id)'
  BY <1>1, <1>2, <1>4 DEF ErrorPath
<1>9. UnaryPath(id)'
  BY <1>1, <1>2, <1>4, <1>5 DEF UnaryPath, IsServerStream, IsClientStream
<1> QED BY <1>1, <1>5, <1>6, <1>7, <1>8, <1>9, StreamStep DEF RunFrame

LEMMA TargetPath ==
    ASSUME IInv, PathInv, NEW id \in Ids, Target(id)
    PROVE  PathInv'
<1> USE ConstantsAssumption
<1>1. StreamType(id) /\ Paths(id)
  BY StreamTypes DEF PathInv, Paths
<1>2. UNCHANGED <<proxyVars, gerr, sender, chanVars, runVars, got, half, accepted, out>>
  BY DEF Target, TargetReplies, TargetFinishes, TargetFails, RpcCancelled
<1>3. \A j \in Ids \ {id} : SameStream(j)
  <2> USE DEF IInv, TypeOK, RpcType, SameStream
  <2>1. CASE TargetReplies(id)
    BY <1>2, <2>1 DEF TargetReplies
  <2>2. CASE TargetFinishes(id)
    BY <1>2, <2>2 DEF TargetFinishes
  <2>3. CASE TargetFails(id)
    BY <1>2, <2>3 DEF TargetFails
  <2>4. CASE RpcCancelled(id)
    BY <1>2, <2>4 DEF RpcCancelled
  <2> QED BY <2>1, <2>2, <2>3, <2>4 DEF Target
<1>4. /\ info' = info /\ up' = up /\ reqBuf'[id] = reqBuf[id] /\ reqClosed'[id] = reqClosed[id]
      /\ wr'[id] = wr[id] /\ wmsg'[id] = wmsg[id] /\ rd'[id] = rd[id] /\ serr'[id] = serr[id]
      /\ got'[id] = got[id] /\ half'[id] = half[id] /\ accepted'[id] = accepted[id]
      /\ run'[id] = run[id] /\ final'[id] = final[id] /\ errc'[id] = errc[id]
      /\ out'[id] = out[id]
  BY <1>2
<1>5. (Announced(id) <=> Announced(id)') /\ (Queued(id) => Queued(id)') /\ (Allows(id) => Allows(id)')
  BY <1>4 DEF Announced, Queued, Allows
<1>6. /\ rpc[id] = "open"
      /\ \/ /\ IsServerStream(id) /\ rpc'[id] = "open"
            /\ inbound'[id] = inbound[id] + 1 /\ nrep'[id] = nrep[id] + 1
         \/ /\ rpc'[id] = OK /\ nrep'[id] = nrep[id] /\ (IsClientStream(id) \/ got[id] # <<>>)
            /\ inbound'[id] = (IF IsServerStream(id) THEN inbound[id] ELSE 1)
         \/ /\ rpc'[id] \in {"Target", "NoReply", "Canceled"}
            /\ inbound'[id] = inbound[id] /\ nrep'[id] = nrep[id]
  <2> USE DEF IInv, TypeOK, RpcType
  <2>1. CASE TargetReplies(id)
    BY <2>1 DEF TargetReplies
  <2>2. CASE TargetFinishes(id)
    BY <2>2 DEF TargetFinishes
  <2>3. CASE TargetFails(id)
    BY <2>3 DEF TargetFails
  <2>4. CASE RpcCancelled(id)
    BY <2>4 DEF RpcCancelled
  <2> QED BY <2>1, <2>2, <2>3, <2>4 DEF Target
<1> USE DEF Paths, StreamType, OK
<1>7. RequestPath(id)'
  BY <1>1, <1>4, <1>5, <1>6 DEF RequestPath
<1>8. ReplyPath(id)'
  <2>1. Relayed(out[id]) \in Nat
    BY <1>1, RelayedCounts
  <2>2. rd[id] \notin {"off", "last"} /\ ~Tolerated(id)
    BY <1>1, <1>6 DEF ReplyPath, Tolerated
  <2>3. ~(rd[id] = "exit" /\ serr[id] = OK)
    BY <1>1, <1>6, <2>2 DEF ReplyPath
  <2>4. CASE IsServerStream(id)
    <3>1. IsServerStream(id)'
      BY <1>4, <2>4 DEF IsServerStream
    <3>2. up => nrep'[id] = Relayed(out'[id]) + inbound'[id] + (IF rd'[id] = "push" THEN 1 ELSE 0)
      BY <1>1, <1>4, <1>6, <2>1, <2>4 DEF ReplyPath
    <3> QED BY <1>1, <1>4, <2>2, <2>3, <3>1, <3>2 DEF ReplyPath
  <2>5. CASE ~IsServerStream(id)
    <3>1. ~IsServerStream(id)'
      BY <1>4, <2>5 DEF IsServerStream
    <3>2. inbound[id] = 0
      BY <1>1, <1>6, <2>5 DEF ReplyPath
    <3> QED BY <1>1, <1>4, <1>6, <2>2, <2>3, <2>5, <3>1, <3>2 DEF ReplyPath
  <2> QED BY <2>4, <2>5
<1>9. ErrorPath(id)'
  BY <1>1, <1>4 DEF ErrorPath
<1>10. UnaryPath(id)'
  BY <1>1, <1>4, <1>6 DEF UnaryPath, IsServerStream, IsClientStream, HasData
<1> QED BY <1>2, <1>3, <1>5, <1>7, <1>8, <1>9, <1>10, StreamStep

---------------------------------------------------------------------------
(* The client, receive and dispatch.                                       *)

\* Steps that leave the streams alone.
LEMMA QuietPath ==
    ASSUME PathInv, NamedInv', up' => up, \A j \in Ids : SameStream(j)
    PROVE  PathInv'
<1>1. \A j \in Ids : Paths(j)'
  BY PathFrame DEF PathInv, Paths
<1> QED BY <1>1 DEF PathInv, Paths

LEMMA ReceivePath ==
    ASSUME IInv, PathInv, Client \/ Receive \/ Parent \/ SendExit
    PROVE  PathInv'
<1>1. UNCHANGED <<dispVars, setVars, chanVars, runVars, rpcVars, accepted, out>> /\ (up' => up)
  BY DEF Client, Receive, Parent, Recv, RecvEOF, RecvBroken, RecvRefused, ReceiveCtxDone,
         ReceiveReturns, ReceiveReport, ParentSelect, ParentCtxDone, ClientBreaks, SendExit
<1>2. \A j \in Ids : SameStream(j)
  BY <1>1 DEF SameStream
<1>3. \/ rcv' # "hold"
      \/ rcv' = rcv /\ rreq' = rreq
      \/ \E r \in ClientRequests : rreq' = r
  BY DEF Client, Receive, Parent, Recv, RecvEOF, RecvBroken, RecvRefused, ReceiveCtxDone,
         ReceiveReturns, ReceiveReport, ParentSelect, ParentCtxDone, ClientBreaks, SendExit
<1>4. \A r \in ClientRequests : r.op = "data" => \A id \in r.ids : Announced(id) \/ info[id] = NoInfo
  BY DEF ClientRequests, Nameable, StartReqs, DataReqs, IdReqs, NoReq
<1>5. \A id : Announced(id)' <=> Announced(id)
  BY <1>1 DEF Announced
<1>6. NamedInv'
  BY <1>1, <1>3, <1>4, <1>5 DEF PathInv, NamedInv
<1> QED BY <1>1, <1>2, <1>6, QuietPath

\* Steps of dispatch that make no stream and send nothing.
DispatchQuiet ==
    \/ DispatchCtx \/ DispatchClosed \/ (\E id \in Ids : DispatchDone(id) \/ SendFails(id) \/ SendPanics(id))
    \/ AddReused \/ AddUnknownMethod \/ SendInvalid \/ SendBegin \/ ClientClose \/ ClientCancel
    \/ UnknownRequest \/ DispatchExit

\* What they may change.
DispatchFrame ==
    /\ streams' \subseteq streams
    /\ \A j \in Ids : reqClosed[j] => reqClosed'[j]
    /\ \A j \in Ids : run'[j] = run[j] \/ (run[j] = "notify" /\ run'[j] = "gone")
    /\ rcv' # "hold" \/ UNCHANGED <<rcv, rreq>>
    /\ dpc' # "send" \/ SendBegin \/ UNCHANGED <<dpc, todo, smsg>>

LEMMA DispatchQuietPath ==
    ASSUME IInv, PathInv, DispatchQuiet
    PROVE  PathInv'
<1> USE DEF DispatchReturns, Take
<1>1. UNCHANGED <<info, reqBuf, errc, wr, wmsg, rd, serr, final, rpcVars, accepted, out>> /\ (up' => up)
  BY DEF DispatchQuiet, DispatchCtx, DispatchClosed, DispatchDone, SendFails, SendPanics, AddReused,
         AddUnknownMethod, SendInvalid, SendBegin, ClientClose, ClientCancel, UnknownRequest,
         DispatchExit
<1>2. DispatchFrame
  <2> USE DEF IInv, TypeOK, RunType, ChanType, DispatchFrame
  <2>1. CASE DispatchCtx
    BY <2>1 DEF DispatchCtx
  <2>2. CASE DispatchClosed
    BY <2>2 DEF DispatchClosed
  <2>3. ASSUME NEW id \in Ids, DispatchDone(id) PROVE DispatchFrame
    BY <2>3 DEF DispatchDone
  <2>4. ASSUME NEW id \in Ids, SendFails(id) \/ SendPanics(id) PROVE DispatchFrame
    BY <2>4 DEF SendFails, SendPanics
  <2>5. CASE AddReused \/ AddUnknownMethod \/ SendInvalid \/ SendBegin \/ UnknownRequest
    BY <2>5 DEF AddReused, AddUnknownMethod, SendInvalid, SendBegin, UnknownRequest
  <2>6. CASE ClientClose
    BY <2>6 DEF ClientClose
  <2>7. CASE ClientCancel
    BY <2>7 DEF ClientCancel
  <2>8. CASE DispatchExit
    BY <2>8 DEF DispatchExit
  <2> QED BY <2>1, <2>2, <2>3, <2>4, <2>5, <2>6, <2>7, <2>8 DEF DispatchQuiet
<1>3. \A j \in Ids : SameStream(j)
  BY <1>1, <1>2 DEF SameStream, DispatchFrame
<1>4. \A id : Announced(id)' <=> Announced(id)
  BY <1>1 DEF Announced
<1>5. SendBegin => Len(smsg') = 1 /\ \A id \in todo' : Announced(id)
  <2> SUFFICES ASSUME SendBegin PROVE Len(smsg') = 1 /\ \A id \in todo' : Announced(id)
    OBVIOUS
  <2>1. \A id \in SendIds(rreq) : id \in rreq.ids /\ id \in streams
    BY DEF SendBegin, SendChecksOut, SendIds
  <2>2. \A id \in SendIds(rreq) : Announced(id)
    BY <2>1 DEF SendBegin, PathInv, NamedInv
  <2> QED BY <2>2 DEF SendBegin
<1>6. NamedInv'
  BY <1>1, <1>2, <1>4, <1>5 DEF PathInv, NamedInv, DispatchFrame
<1> QED BY <1>1, <1>3, <1>6, QuietPath

\* A stream nobody has drawn the id of yet.
LEMMA AddPath ==
    ASSUME IInv, PathInv, NEW id \in Ids, Add(id)
    PROVE  PathInv'
<1> USE ConstantsAssumption
<1>1. StreamType(id) /\ Paths(id)
  BY StreamTypes DEF PathInv, Paths
<1>2. /\ UNCHANGED <<up, reqBuf, reqClosed, errc, wr, wmsg, rd, serr, final, rpcVars, accepted, out>>
      /\ rcv' = "recv" /\ dpc' = "reply" /\ streams' = streams \cup {id}
  BY DEF Add, Take
<1>3. /\ info[id] = NoInfo /\ run'[id] = "new"
      /\ \A j \in Ids \ {id} : info'[j] = info[j] /\ run'[j] = run[j]
  BY DEF Add, IInv, TypeOK, SetType, RunType
<1>4. info'[id] # NoInfo
  <2>1. info'[id].method = rreq.method /\ rreq.method \in Methods
    BY DEF Add, Take, IInv, TypeOK, SetType
  <2> QED BY <2>1 DEF NoInfo
<1>5. run[id] = "none" /\ out[id] = <<>>
  BY <1>3 DEF IInv, LifeInv, OutInv
<1>6. /\ wr[id] = "off" /\ rd[id] = "off" /\ rpc[id] = "none" /\ got[id] = <<>> /\ ~half[id]
      /\ wmsg[id] = <<>> /\ inbound[id] = 0 /\ nrep[id] = 0 /\ serr[id] = OK /\ errc[id] = OK
      /\ accepted[id] = <<>> /\ Queued(id)
  BY <1>1, <1>5 DEF Paths, RequestPath, ReplyPath, ErrorPath, Announced
<1>7. Queued(id)'
  BY <1>2, <1>6 DEF Queued
<1>8. RequestPath(id)'
  BY <1>2, <1>3, <1>6, <1>7 DEF RequestPath
<1>9. ReplyPath(id)'
  <2>1. Relayed(out'[id]) = 0
    BY <1>1, <1>2, <1>5, RelayedCounts DEF StreamType
  <2> QED BY <1>2, <1>6, <2>1 DEF ReplyPath, OK
<1>10. ErrorPath(id)' /\ UnaryPath(id)'
  BY <1>2, <1>3, <1>5, <1>6 DEF ErrorPath, UnaryPath, HasData, OK
<1>11. \A j \in Ids \ {id} : Paths(j)'
  <2>1. \A j \in Ids \ {id} : SameStream(j)
    BY <1>2, <1>3 DEF SameStream
  <2> QED BY <1>2, <2>1, PathFrame DEF PathInv, Paths
<1>12. NamedInv'
  <2>1. streams \subseteq Ids
    BY DEF IInv, TypeOK, SetType
  <2> QED BY <1>2, <1>3, <1>4, <2>1 DEF PathInv, NamedInv
<1> QED BY <1>8, <1>9, <1>10, <1>11, <1>12 DEF PathInv, Paths

\* The end of Add: the stream's goroutines start.
LEMMA AddEndsPath ==
    ASSUME IInv, PathInv, AddReply \/ AddCtxDone
    PROVE  PathInv'
<1> USE ConstantsAssumption
<1>1. AddEnds /\ (Relay(cur, "start") \/ UNCHANGED out)
  BY DEF AddReply, AddCtxDone
<1>2. /\ UNCHANGED <<clientVars, recvVars, todo, smsg, setVars, chanVars, wmsg, rd, serr, final,
                     rpcVars, accepted>>
      /\ dpc' = "select" /\ dpc = "reply"
  BY <1>1 DEF AddEnds
<1>3. CASE cur = NoId
  <2>1. UNCHANGED <<run, wr, out>>
    BY <1>1, <1>3 DEF AddEnds, Relay
  <2>2. \A j \in Ids : SameStream(j)
    BY <1>2, <2>1 DEF SameStream
  <2>3. NamedInv'
    BY <1>2, <2>1 DEF PathInv, NamedInv, Announced
  <2> QED BY <1>2, <2>2, <2>3, QuietPath
<1>4. CASE cur \in Ids
  <2>0. PICK id \in Ids : id = cur
    BY <1>4
  <2>1. StreamType(id) /\ Paths(id)
    BY StreamTypes DEF PathInv, Paths
  <2>2. run[id] = "new" /\ out[id] = <<>>
    BY <1>2, <2>0 DEF IInv, LifeInv, OutInv
  <2>3. /\ run'[id] = "wait" /\ wr'[id] = "dial"
        /\ \A j \in Ids \ {id} : run'[j] = run[j] /\ wr'[j] = wr[j]
    BY <1>1, <2>0 DEF AddEnds, IInv, TypeOK, RunType
  <2>4. /\ \A j \in Ids \ {id} : out'[j] = out[j]
        /\ Relayed(out'[id]) = 0 /\ ~HasData(id)'
    <3>1. Relayed(out[id]) = 0 /\ ~HasData(id)
      <4>1. Relayed(<<>>) = 0
        BY NoneIsSeq, RelayedCounts
      <4> QED BY <2>2, <4>1 DEF HasData
    <3>2. CASE UNCHANGED out
      BY <3>1, <3>2 DEF HasData
    <3>3. CASE Relay(id, "start")
      BY <3>1, <3>3, RelayEffect
    <3> QED BY <1>1, <2>0, <3>2, <3>3
  <2>5. /\ wr[id] = "off" /\ rd[id] = "off" /\ rpc[id] = "none" /\ got[id] = <<>> /\ ~half[id]
        /\ wmsg[id] = <<>> /\ inbound[id] = 0 /\ nrep[id] = 0 /\ serr[id] = OK /\ errc[id] = OK
        /\ accepted[id] = <<>> /\ Queued(id)
    BY <2>1, <2>2 DEF Paths, RequestPath, ReplyPath, ErrorPath, Announced
  <2>6. Queued(id)'
    BY <1>2, <2>5 DEF Queued
  <2>7. RequestPath(id)'
    BY <1>2, <2>3, <2>5, <2>6 DEF RequestPath
  <2>8. ReplyPath(id)'
    BY <1>2, <2>3, <2>4, <2>5 DEF ReplyPath, OK
  <2>9. ErrorPath(id)' /\ UnaryPath(id)'
    BY <1>2, <2>3, <2>4, <2>5 DEF ErrorPath, UnaryPath, OK
  <2>10. \A j \in Ids \ {id} : SameStream(j)
    BY <1>2, <2>3, <2>4 DEF SameStream
  <2>11. \A j \in Ids \ {id} : Paths(j)'
    BY <1>2, <2>10, PathFrame DEF PathInv, Paths
  <2>12. \A j \in Ids : Announced(j) => Announced(j)'
    BY <2>2, <2>4 DEF Announced
  <2>13. NamedInv'
    <3>1. rcv' = "hold" /\ rreq'.op = "data" => \A j \in rreq'.ids : j \in Ids
      BY <1>2, DataRequest DEF IInv, TypeOK, ReceiveType, DataReqs
    <3> QED BY <1>2, <2>12, <3>1 DEF PathInv, NamedInv
  <2> QED BY <2>7, <2>8, <2>9, <2>11, <2>13 DEF PathInv, Paths
<1> QED BY <1>3, <1>4 DEF IInv, TypeOK, DispatchType

LEMMA SendEnqueuePath ==
    ASSUME IInv, PathInv, NEW id \in Ids, SendEnqueue(id)
    PROVE  PathInv'
<1> USE ConstantsAssumption
<1>1. StreamType(id) /\ Paths(id)
  BY StreamTypes DEF PathInv, Paths
<1>2. /\ UNCHANGED <<clientVars, recvVars, setVars, reqClosed, errc, runVars, rpcVars, out>>
      /\ dpc' \in {"select", "send"} /\ todo' = todo \ {id} /\ dpc = "send" /\ id \in todo
      /\ dpc' = "send" => smsg' = smsg
  BY DEF SendEnqueue
<1>3. /\ reqBuf'[id] = reqBuf[id] \o smsg /\ accepted'[id] = accepted[id] \o smsg
      /\ \A j \in Ids \ {id} : reqBuf'[j] = reqBuf[j] /\ accepted'[j] = accepted[j]
  BY DEF SendEnqueue, IInv, TypeOK, ChanType, HistoryType
<1>4. smsg \in Seq(Msgs) /\ Len(smsg) = 1 /\ Announced(id) /\ ~reqClosed[id]
  BY <1>2 DEF SendEnqueue, PathInv, NamedInv, IInv, TypeOK, DispatchType
<1>5. \A j \in Ids \ {id} : SameStream(j)
  BY <1>2, <1>3 DEF SameStream
<1>6. /\ wr'[id] = wr[id] /\ rd'[id] = rd[id] /\ rpc'[id] = rpc[id] /\ got'[id] = got[id]
      /\ half'[id] = half[id] /\ wmsg'[id] = wmsg[id] /\ inbound'[id] = inbound[id]
      /\ nrep'[id] = nrep[id] /\ serr'[id] = serr[id] /\ errc'[id] = errc[id]
      /\ run'[id] = run[id] /\ final'[id] = final[id] /\ info' = info /\ up' = up /\ out' = out
  BY <1>2
<1> USE DEF Paths, StreamType
<1>7. Queued(id) => Queued(id)'
  <2>1. /\ accepted[id] \in Seq(Msgs) /\ got[id] \in Seq(Msgs) /\ wmsg[id] \in Seq(Msgs)
        /\ reqBuf[id] \in Seq(Msgs)
    BY <1>1
  <2> QED BY <1>3, <1>4, <1>6, <2>1, ChainEnqueue DEF Queued
<1>8. /\ Len(got[id]) <= Len(accepted'[id])
      /\ \A i \in 1..Len(got[id]) : got[id][i] = accepted'[id][i]
  <2>1. /\ Len(accepted[id]) \in Nat /\ Len(accepted[id] \o smsg) = Len(accepted[id]) + 1
        /\ \A i \in 1..Len(accepted[id]) : (accepted[id] \o smsg)[i] = accepted[id][i]
    <3>1. accepted[id] \in Seq(Msgs)
      BY <1>1
    <3> QED BY <1>4, <3>1, ConcatOne
  <2>2. Len(got[id]) \in Nat /\ Len(got[id]) <= Len(accepted[id])
    BY <1>1 DEF RequestPath
  <2>3. \A i \in 1..Len(got[id]) : got[id][i] = accepted[id][i]
    BY <1>1 DEF RequestPath
  <2> QED BY <1>3, <2>1, <2>2, <2>3
<1>9. RequestPath(id)'
  <2>1. Announced(id)' /\ (Allows(id) => Allows(id)')
    BY <1>4, <1>6 DEF Announced, Allows
  <2>2. ~half[id]
    BY <1>1, <1>4 DEF RequestPath
  <2> QED BY <1>1, <1>6, <1>7, <1>8, <2>1, <2>2 DEF RequestPath
<1>10. ReplyPath(id)'
  BY <1>1, <1>6 DEF ReplyPath, IsServerStream, IsClientStream, Tolerated
<1>11. ErrorPath(id)' /\ UnaryPath(id)'
  BY <1>1, <1>6 DEF ErrorPath, UnaryPath, IsServerStream, IsClientStream, HasData
<1>12. \A j \in Ids \ {id} : Paths(j)'
  BY <1>2, <1>5, PathFrame DEF PathInv
<1>13. NamedInv'
  BY <1>2 DEF PathInv, NamedInv, Announced
<1> QED BY <1>9, <1>10, <1>11, <1>12, <1>13 DEF PathInv

---------------------------------------------------------------------------
(* Theorems.                                                               *)

\* What is on its way in each stream, and what its goroutines may still report,
\* for any number of streams, methods and requests: an invariant together with IInv.
THEOREM PathInvariance == Spec => []PathInv
<1>1. Init => PathInv
  <2> SUFFICES ASSUME Init PROVE PathInv
    OBVIOUS
  <2>1. NamedInv
    BY DEF Init, NamedInv
  <2>2. ASSUME NEW id \in Ids
        PROVE  Paths(id)
    <3>1. /\ wr[id] = "off" /\ rd[id] = "off" /\ rpc[id] = "none" /\ got[id] = <<>> /\ ~half[id]
          /\ wmsg[id] = <<>> /\ inbound[id] = 0 /\ nrep[id] = 0 /\ serr[id] = OK /\ errc[id] = OK
          /\ accepted[id] = <<>> /\ reqBuf[id] = <<>> /\ out[id] = <<>> /\ run[id] = "none"
      BY DEF Init
    <3>2. RequestPath(id)
      BY <3>1 DEF RequestPath, Queued, Chain
    <3>3. ReplyPath(id)
      <4>1. Relayed(out[id]) = 0
        BY <3>1, NoneIsSeq, RelayedCounts
      <4> QED BY <3>1, <4>1 DEF ReplyPath, OK
    <3>4. ErrorPath(id) /\ UnaryPath(id)
      BY <3>1 DEF ErrorPath, UnaryPath, HasData, OK
    <3> QED BY <3>2, <3>3, <3>4 DEF Paths
  <2> QED BY <2>1, <2>2 DEF PathInv, Paths
<1>2. IInv /\ PathInv /\ [Next]_vars => PathInv'
  <2> SUFFICES ASSUME IInv, PathInv, [Next]_vars PROVE PathInv'
    OBVIOUS
  <2>1. CASE Client \/ Receive \/ Parent \/ SendExit
    BY <2>1, ReceivePath
  <2>2. CASE Dispatch
    <3>1. DispatchQuiet \/ (\E id \in Ids : Add(id) \/ SendEnqueue(id)) \/ AddReply \/ AddCtxDone
      BY <2>2 DEF Dispatch, DispatchIdle, DispatchRequest, DispatchSend, DispatchQuiet
    <3> QED BY <3>1, DispatchQuietPath, AddPath, AddEndsPath, SendEnqueuePath
  <2>3. CASE \E id \in Ids : Writer(id) \/ Reader(id) \/ Run(id) \/ Target(id)
    BY <2>3, WriterPath, ReaderPath, RunPath, TargetPath
  <2>4. CASE UNCHANGED vars
    <3>1. \A j \in Ids : SameStream(j)
      BY <2>4 DEF vars, SameStream
    <3>2. NamedInv'
      BY <2>4 DEF vars, PathInv, NamedInv, Announced
    <3> QED BY <2>4, <3>1, <3>2, QuietPath DEF vars
  <2> QED BY <2>1, <2>2, <2>3, <2>4 DEF Next, Step, Returned
<1> QED BY <1>1, <1>2, Invariance, PTL DEF Spec

\* Whatever the writer, the policy, a cancellation and a half-close race for, a target is
\* sent a prefix of what Send accepted for its stream, each request permitted for it and
\* none in a dry run, and its half-close only after all of it.
THEOREM DeliveryIsFaithful == Spec => []DeliveryFaithful
<1>1. IInv /\ PathInv => DeliveryFaithful
  <2> SUFFICES ASSUME IInv, PathInv, NEW id \in Ids
               PROVE  /\ Len(got[id]) <= Len(accepted[id])
                      /\ got[id] = SubSeq(accepted[id], 1, Len(got[id]))
                      /\ \A i \in 1..Len(got[id]) :
                            <<info[id].pair, got[id][i]>> \in Permitted /\ ~info[id].dry
                      /\ half[id] => got[id] = accepted[id]
    BY DEF DeliveryFaithful
  <2>1. got[id] \in Seq(Msgs) /\ accepted[id] \in Seq(Msgs)
    BY StreamTypes DEF StreamType
  <2>2. /\ Len(got[id]) <= Len(accepted[id])
        /\ \A i \in 1..Len(got[id]) :
              /\ got[id][i] = accepted[id][i]
              /\ <<info[id].pair, got[id][i]>> \in Permitted /\ ~info[id].dry
        /\ half[id] => Len(got[id]) = Len(accepted[id])
    BY DEF PathInv, RequestPath
  <2>3. got[id] = SubSeq(accepted[id], 1, Len(got[id]))
    <3> DEFINE s == SubSeq(accepted[id], 1, Len(got[id]))
    <3>1. s \in Seq(Msgs) /\ Len(s) = Len(got[id]) /\ \A i \in 1..Len(s) : s[i] = accepted[id][i]
      BY <2>1, <2>2
    <3>2. Len(got[id]) = Len(s) /\ \A i \in 1..Len(got[id]) : got[id][i] = s[i]
      BY <2>2, <3>1
    <3> HIDE DEF s
    <3>3. got[id] = s
      BY <2>1, <3>1, <3>2, SameElements
    <3> QED BY <3>3 DEF s
  <2>4. half[id] => got[id] = accepted[id]
    BY <2>1, <2>2, SameElements
  <2> QED BY <2>2, <2>3, <2>4
<1> QED BY <1>1, Invariance, PathInvariance, PTL

\* A ServerClose with status OK: the target's handler ended OK, or owed a reply that is
\* tolerated, nothing it sent is unread, and the client was sent every reply of a stream.
THEOREM OkIsTheTargets == Spec => []OkMeansTargetOk
<1>1. IInv /\ PathInv => OkMeansTargetOk
  <2> SUFFICES ASSUME IInv, PathInv, NEW id \in Ids, run[id] \in {"push", "notify", "gone"},
                      final[id] = OK
               PROVE  /\ rpc[id] = OK \/ Tolerated(id)
                      /\ inbound[id] = 0
                      /\ up /\ IsServerStream(id) => Relayed(out[id]) = nrep[id]
    BY DEF OkMeansTargetOk, Relayed
  <2>1. StreamType(id) /\ Paths(id) /\ Relayed(out[id]) \in Nat
    BY StreamTypes, RelayedCounts DEF PathInv, Paths, StreamType
  <2>2. rd[id] = "exit" /\ serr[id] = OK
    <3>1. rd[id] \in {"off", "exit"}
      BY <2>1 DEF IInv, LifeInv
    <3> QED BY <2>1, <3>1 DEF Paths, ErrorPath
  <2> QED BY <2>1, <2>2 DEF Paths, ReplyPath, StreamType
<1> QED BY <1>1, Invariance, PathInvariance, PTL

\* A unary stream whose client was sent the answer is closed with OK: the writer and the
\* reader are through, and no cancellation can become its status any more.
THEOREM RepliesMeanOk == Spec => []ReplyMeansOk
<1>1. PathInv => ReplyMeansOk
  BY DEF PathInv, UnaryPath, HasData, ReplyMeansOk
<1> QED BY <1>1, PathInvariance, PTL

---------------------------------------------------------------------------
(* The proxy implements ProxySession.                                      *)

LEMMA ContextsStayDone ==
    ASSUME IInv, [Next]_vars
    PROVE  DispatchCtxDone => DispatchCtxDone'
<1> USE DEF First
<1>1. CASE Client \/ Receive \/ Parent \/ SendExit
  BY <1>1 DEF Client, Receive, Parent, Recv, RecvEOF, RecvBroken, RecvRefused, ReceiveCtxDone,
         ReceiveReturns, ReceiveReport, ParentSelect, ParentCtxDone, ClientBreaks, SendExit,
         DispatchCtxDone, GroupCtxDone
<1>2. CASE Dispatch
  BY <1>2 DEF Dispatch, DispatchIdle, DispatchRequest, DispatchSend, DispatchCtx,
     DispatchClosed,
         DispatchDone, SendFails, SendPanics, AddReused, AddUnknownMethod, SendInvalid, SendBegin, ClientClose,
         ClientCancel, UnknownRequest, DispatchExit, Add, AddReply, AddCtxDone, AddEnds, Relay,
         SendEnqueue, DispatchReturns, Take, DispatchCtxDone, GroupCtxDone
<1>3. CASE \E id \in Ids : Writer(id) \/ Target(id)
  <2>1. PICK id \in Ids : Writer(id) \/ Target(id)
    BY <1>3
  <2>2. CASE Writer(id)
    <3>1. UNCHANGED <<up, gerr, dcancel>>
      BY <2>2 DEF Writer, Connect, ConnectFails, WriterExits, WriterCtxDone, WriterClosed,
             WriterTakes, EvalDenied, EvalErrors, CloseWith, EvalDryRun, EvalAllows, WriterSends,
             WriterSendFails
    <3> QED BY <3>1 DEF DispatchCtxDone, GroupCtxDone
  <2>3. CASE Target(id)
    <3>1. UNCHANGED <<up, gerr, dcancel>>
      BY <2>3 DEF Target, TargetReplies, TargetFinishes, TargetFails, RpcCancelled
    <3> QED BY <3>1 DEF DispatchCtxDone, GroupCtxDone
  <2> QED BY <2>1, <2>2, <2>3
<1>4. CASE \E id \in Ids : Reader(id) \/ Run(id)
  BY <1>4 DEF Reader, ReadData, ReadEOF, ReadTolerated, ReadErr, ReaderPush, Run, RunWait,
     RunPush,
         RunCtxGone, Relay, DispatchCtxDone, GroupCtxDone
<1>5. CASE UNCHANGED vars
  BY <1>5 DEF vars, DispatchCtxDone, GroupCtxDone
<1> QED BY <1>1, <1>2, <1>3, <1>4, <1>5 DEF Next, Step, Returned

\* A step the session sees at most a teardown of.
LEMMA SessionTears ==
    ASSUME UNCHANGED <<info, accepted, got>>, DispatchCtxDone => DispatchCtxDone',
           \A id \in Ids : Phase(id)' = Phase(id)
    PROVE  [Session!Next]_(Session!vars)
<1>1. [id \in Ids |-> Phase(id)]' = [id \in Ids |-> Phase(id)]
  OBVIOUS
<1>2. [id \in Ids |-> PolicyOf(id)]' = [id \in Ids |-> PolicyOf(id)]
  BY DEF PolicyOf
<1>3. CASE DispatchCtxDone' = DispatchCtxDone
  BY <1>1, <1>2, <1>3 DEF Session!vars
<1>4. CASE ~DispatchCtxDone /\ DispatchCtxDone'
  <2>1. Session!Tear
    BY <1>1, <1>2, <1>4 DEF Session!Tear
  <2> QED BY <2>1 DEF Session!Next
<1>5. DispatchCtxDone' = DispatchCtxDone \/ (~DispatchCtxDone /\ DispatchCtxDone')
  BY DEF DispatchCtxDone, GroupCtxDone
<1> QED BY <1>3, <1>4, <1>5

\* A step that neither makes a stream nor moves a request, and sends the client nothing.
LEMMA SessionQuiet ==
    ASSUME UNCHANGED <<info, accepted, got, out>>, DispatchCtxDone => DispatchCtxDone'
    PROVE  [Session!Next]_(Session!vars)
<1>1. \A id \in Ids : Phase(id)' = Phase(id)
  BY DEF Phase, Closed, Announced
<1> QED BY <1>1, SessionTears

\* The phase of a stream after a message to the client.
LEMMA PhaseMoves ==
    ASSUME IInv, NEW id \in Ids, NEW m \in {"start", "data", "close"}, Relay(id, m),
           UNCHANGED <<up, dcancel>>, m = "start" => out[id] = <<>>,
           \A i \in 1..Len(out[id]) : out[id][i] # "close"
    PROVE  /\ \A j \in Ids \ {id} : Phase(j)' = Phase(j)
           /\ Phase(id) # "closed" /\ (Phase(id) = "open" <=> Announced(id))
           /\ Phase(id)' = (IF ~up THEN Phase(id)
                            ELSE IF m = "start" THEN "open"
                            ELSE IF m = "close" THEN "closed" ELSE Phase(id))
           /\ up => DispatchCtxDone' = DispatchCtxDone
<1>1. out[id] \in Seq({"start", "data", "close"}) /\ out \in [Ids -> Seq({"start", "data", "close"})]
  BY DEF IInv, TypeOK, HistoryType
<1>2. \A j \in Ids \ {id} : Phase(j)' = Phase(j)
  BY RelayEffect DEF Phase, Closed, Announced
<1>3. ~Closed(id)
  BY <1>1 DEF Closed
<1>4. Phase(id) # "closed" /\ (Phase(id) = "open" <=> Announced(id))
  BY <1>3 DEF Phase
<1>5. CASE ~up
  <2>1. out' = out
    BY <1>5 DEF Relay
  <2>2. Phase(id)' = Phase(id)
    BY <2>1 DEF Phase, Closed, Announced
  <2> QED BY <1>2, <1>4, <1>5, <2>2
<1>6. CASE up
  <2>1. out'[id] = Append(out[id], m) /\ gerr' = gerr
    BY <1>1, <1>6, ConstantsAssumption DEF Relay
  <2>2. /\ Len(out[id]) \in Nat /\ Len(out'[id]) = Len(out[id]) + 1 /\ out'[id] # <<>>
        /\ \A i \in 1..Len(out[id]) : out'[id][i] = out[id][i]
        /\ out'[id][Len(out[id]) + 1] = m
    <3>1. out[id] \in Seq({"start", "data", "close"})
      BY <1>1
    <3> QED BY <2>1, <3>1, ReplyAppended
  <2>3. (out[id] # <<>> => Len(out[id]) > 0) /\ (out[id] = <<>> => Len(out[id]) = 0)
    BY <1>1
  <2>4. Closed(id)' <=> m = "close"
    BY <2>2 DEF Closed
  <2>5. m = "data" => (Announced(id)' <=> Announced(id))
    BY <2>2, <2>3 DEF Announced
  <2>6. m = "start" => Announced(id)'
    BY <2>2, <2>3 DEF Announced
  <2>7. Phase(id)' = (IF m = "start" THEN "open" ELSE IF m = "close" THEN "closed" ELSE Phase(id))
    BY <1>3, <2>4, <2>5, <2>6 DEF Phase
  <2>8. DispatchCtxDone' = DispatchCtxDone
    BY <2>1 DEF DispatchCtxDone, GroupCtxDone
  <2> QED BY <1>2, <1>4, <1>6, <2>7, <2>8
<1> QED BY <1>5, <1>6

\* The steps the session sees: Add and its announcement, a request accepted or delivered,
\* and ServerClose.
LEMMA SessionAdds ==
    ASSUME IInv, PathInv, NEW id \in Ids, Add(id)
    PROVE  Session!Next
<1> USE ConstantsAssumption
<1>1. /\ UNCHANGED <<up, gerr, dcancel, accepted, got, out>>
      /\ info' = [info EXCEPT ![id] = info'[id]] /\ info[id] = NoInfo
  BY DEF Add, IInv, TypeOK, SetType
<1>2. out[id] = <<>> /\ got[id] = <<>>
  <2>1. run[id] = "none"
    BY <1>1 DEF IInv, LifeInv
  <2> QED BY <2>1 DEF IInv, OutInv, PathInv, RequestPath
<1>3. DispatchCtxDone' = DispatchCtxDone
  BY <1>1 DEF DispatchCtxDone, GroupCtxDone
<1>4. [j \in Ids |-> Phase(j)]' = [j \in Ids |-> Phase(j)] /\ Phase(id) = "idle"
  BY <1>1, <1>2 DEF Phase, Closed, Announced
<1>5. [j \in Ids |-> PolicyOf(j)]' = [[j \in Ids |-> PolicyOf(j)] EXCEPT ![id] = PolicyOf(id)']
  <2>1. \A j \in Ids \ {id} : info'[j] = info[j]
    BY <1>1 DEF IInv, TypeOK, SetType
  <2>2. \A j \in Ids \ {id} : PolicyOf(j)' = PolicyOf(j)
    BY <2>1 DEF PolicyOf
  <2> QED BY <2>2
<1>6. Session!Register(id, PolicyOf(id)')
  BY <1>1, <1>2, <1>3, <1>4, <1>5 DEF Session!Register
<1>7. PolicyOf(id)' \in SUBSET Msgs
  BY DEF PolicyOf
<1> QED BY <1>6, <1>7 DEF Session!Next

LEMMA SessionAccepts ==
    ASSUME IInv, PathInv, NEW id \in Ids, SendEnqueue(id)
    PROVE  Session!Next
<1>1. /\ UNCHANGED <<up, gerr, dcancel, got, out, info>> /\ dpc = "send" /\ id \in todo
      /\ accepted' = [accepted EXCEPT ![id] = @ \o smsg]
  BY DEF SendEnqueue
<1>2. smsg \in Seq(Msgs) /\ Len(smsg) = 1 /\ Announced(id) /\ accepted[id] \in Seq(Msgs)
  BY <1>1 DEF PathInv, NamedInv, IInv, TypeOK, DispatchType, HistoryType
<1>3. smsg[1] \in Msgs /\ accepted[id] \o smsg = Append(accepted[id], smsg[1])
  BY <1>2, ConcatOne
<1>4. accepted' = [accepted EXCEPT ![id] = Append(@, smsg[1])]
  BY <1>1, <1>3
<1>5. DispatchCtxDone' = DispatchCtxDone
  BY <1>1 DEF DispatchCtxDone, GroupCtxDone
<1>6. [j \in Ids |-> Phase(j)]' = [j \in Ids |-> Phase(j)] /\ Phase(id) # "idle"
  BY <1>1, <1>2 DEF Phase, Closed, Announced
<1>7. [j \in Ids |-> PolicyOf(j)]' = [j \in Ids |-> PolicyOf(j)]
  BY <1>1 DEF PolicyOf
<1>8. Session!Accept(id, smsg[1])
  BY <1>1, <1>4, <1>5, <1>6, <1>7 DEF Session!Accept
<1> QED BY <1>3, <1>8 DEF Session!Next

LEMMA SessionDelivers ==
    ASSUME IInv, PathInv, NEW id \in Ids, WriterSends(id)
    PROVE  Session!Next
<1>1. /\ UNCHANGED <<up, gerr, dcancel, accepted, out, info>> /\ wr[id] = "send"
      /\ got' = [got EXCEPT ![id] = @ \o wmsg[id]]
  BY DEF WriterSends
<1>2. /\ StreamType(id) /\ RequestPath(id) /\ run[id] = "wait" /\ info[id] # NoInfo
      /\ \A i \in 1..Len(out[id]) : out[id][i] # "close"
  BY <1>1, StreamTypes DEF PathInv, IInv, LifeInv, OutInv
<1>3. /\ wmsg[id] \in Seq(Msgs) /\ got[id] \in Seq(Msgs) /\ accepted[id] \in Seq(Msgs)
      /\ reqBuf[id] \in Seq(Msgs) /\ Len(wmsg[id]) = 1
      /\ Chain(accepted[id], got[id], wmsg[id], reqBuf[id]) /\ Allows(id) /\ ~info[id].dry
  BY <1>1, <1>2 DEF StreamType, RequestPath, Queued
<1>4. wmsg[id][1] \in Msgs /\ got[id] \o wmsg[id] = Append(got[id], wmsg[id][1])
  BY <1>3, ConcatOne
<1>5. accepted[id][Len(got[id]) + 1] = wmsg[id][1]
  BY <1>3, ChainSend
<1>6. Len(got[id]) < Len(accepted[id]) /\ accepted[id] # <<>>
  BY <1>3, ChainNext
<1>7. Phase(id) = "open"
  <2>1. Announced(id)
    BY <1>2, <1>6 DEF RequestPath
  <2>2. ~Closed(id)
    BY <1>2 DEF Closed, StreamType
  <2> QED BY <2>1, <2>2 DEF Phase
<1>8. accepted[id][Len(got[id]) + 1] \in PolicyOf(id)
  BY <1>2, <1>3, <1>4, <1>5 DEF PolicyOf, Allows
<1>9. got' = [got EXCEPT ![id] = Append(@, accepted[id][Len(got[id]) + 1])]
  BY <1>1, <1>4, <1>5
<1>10. DispatchCtxDone' = DispatchCtxDone
  BY <1>1 DEF DispatchCtxDone, GroupCtxDone
<1>11. [j \in Ids |-> Phase(j)]' = [j \in Ids |-> Phase(j)]
  BY <1>1 DEF Phase, Closed, Announced
<1>12. [j \in Ids |-> PolicyOf(j)]' = [j \in Ids |-> PolicyOf(j)]
  BY <1>1 DEF PolicyOf
<1>13. Session!Deliver(id)
  BY <1>1, <1>6, <1>7, <1>8, <1>9, <1>10, <1>11, <1>12 DEF Session!Deliver
<1> QED BY <1>13 DEF Session!Next

LEMMA SessionTold ==
    ASSUME IInv, NEW id \in Ids, NEW m \in {"start", "data", "close"}, Relay(id, m),
           UNCHANGED <<up, dcancel, info, accepted, got>>, m = "start" => out[id] = <<>>,
           \A i \in 1..Len(out[id]) : out[id][i] # "close",
           m = "close" => Announced(id) \/ DispatchCtxDone,
           DispatchCtxDone => DispatchCtxDone'
    PROVE  [Session!Next]_(Session!vars)
<1>1. /\ \A j \in Ids \ {id} : Phase(j)' = Phase(j)
      /\ Phase(id) # "closed" /\ (Phase(id) = "open" <=> Announced(id))
      /\ Phase(id)' = (IF ~up THEN Phase(id)
                       ELSE IF m = "start" THEN "open"
                       ELSE IF m = "close" THEN "closed" ELSE Phase(id))
      /\ up => DispatchCtxDone' = DispatchCtxDone
  BY PhaseMoves
<1>2. [j \in Ids |-> PolicyOf(j)]' = [j \in Ids |-> PolicyOf(j)]
  BY DEF PolicyOf
<1>3. [j \in Ids |-> Phase(j)]' = [[j \in Ids |-> Phase(j)] EXCEPT ![id] = Phase(id)']
  BY <1>1
<1>4. CASE ~up \/ m = "data"
  <2>1. \A j \in Ids : Phase(j)' = Phase(j)
    BY <1>1, <1>4
  <2> QED BY <2>1, SessionTears
<1>5. CASE up /\ m = "start"
  <2>1. Phase(id) = "idle" /\ Phase(id)' = "open"
    BY <1>1, <1>5 DEF Phase, Announced
  <2>2. Session!Announce(id)
    BY <1>1, <1>2, <1>3, <1>5, <2>1 DEF Session!Announce
  <2> QED BY <2>2 DEF Session!Next
<1>6. CASE up /\ m = "close"
  <2>1. Phase(id) = "open" \/ (DispatchCtxDone /\ Phase(id) = "idle")
    BY <1>1, <1>6 DEF Phase
  <2>2. Session!Close(id)
    BY <1>1, <1>2, <1>3, <1>6, <2>1 DEF Session!Close
  <2> QED BY <2>2 DEF Session!Next
<1> QED BY <1>4, <1>5, <1>6

\* The proxy, with all its goroutines, channels and contexts, implements the session of
\* each stream: every one of its steps is a step of ProxySession or changes nothing there.
THEOREM ImplementsProxySession == Spec => ImplementsSession
<1>1. Init => Session!Init
  <2> SUFFICES ASSUME Init PROVE Session!Init
    OBVIOUS
  <2>1. \A id \in Ids : Phase(id) = "idle" /\ PolicyOf(id) = {}
    BY DEF Init, Phase, Closed, Announced, PolicyOf
  <2>2. DispatchCtxDone = FALSE
    BY DEF Init, DispatchCtxDone, GroupCtxDone
  <2> QED BY <2>1, <2>2 DEF Init, Session!Init
<1>2. IInv /\ PathInv /\ [Next]_vars => [Session!Next]_(Session!vars)
  <2> SUFFICES ASSUME IInv, PathInv, [Next]_vars PROVE [Session!Next]_(Session!vars)
    OBVIOUS
  <2>0. DispatchCtxDone => DispatchCtxDone'
    BY ContextsStayDone
  <2>1. CASE Client \/ Receive \/ Parent \/ SendExit
    <3>1. UNCHANGED <<info, accepted, got, out>>
      BY <2>1 DEF Client, Receive, Parent, Recv, RecvEOF, RecvBroken, RecvRefused,
         ReceiveCtxDone,
         ReceiveReturns, ReceiveReport, ParentSelect, ParentCtxDone, ClientBreaks, SendExit
    <3> QED BY <2>0, <3>1, SessionQuiet
  <2>2. CASE DispatchQuiet
    <3>1. UNCHANGED <<info, accepted, got, out>>
      BY <2>2 DEF DispatchQuiet, DispatchCtx, DispatchClosed, DispatchDone, SendFails, SendPanics,
         AddReused,
         AddUnknownMethod, SendInvalid, SendBegin, ClientClose, ClientCancel, UnknownRequest,
         DispatchExit
    <3> QED BY <2>0, <3>1, SessionQuiet
  <2>3. CASE \E id \in Ids : Add(id) \/ SendEnqueue(id)
    BY <2>3, SessionAdds, SessionAccepts
  <2>4. CASE AddReply \/ AddCtxDone
    <3>1. /\ UNCHANGED <<up, dcancel, info, accepted, got>> /\ dpc = "reply"
          /\ Relay(cur, "start") \/ UNCHANGED out
      BY <2>4 DEF AddReply, AddCtxDone, AddEnds
    <3>2. CASE UNCHANGED out
      BY <2>0, <3>1, <3>2, SessionQuiet
    <3>3. CASE Relay(cur, "start") /\ cur = NoId
      <4>1. UNCHANGED out
        BY <3>3 DEF Relay
      <4> QED BY <2>0, <3>1, <4>1, SessionQuiet
    <3>4. CASE Relay(cur, "start") /\ cur \in Ids
      <4>1. out[cur] = <<>>
        BY <3>1, <3>4 DEF IInv, LifeInv, OutInv
      <4> QED BY <2>0, <3>1, <3>4, <4>1, SessionTold
    <3> QED BY <3>1, <3>2, <3>3, <3>4 DEF IInv, TypeOK, DispatchType
  <2>5. ASSUME NEW id \in Ids, Writer(id)
        PROVE  [Session!Next]_(Session!vars)
    <3>1. CASE WriterSends(id)
      BY <3>1, SessionDelivers
    <3>2. CASE ~WriterSends(id)
      <4>1. UNCHANGED <<info, accepted, got, out>>
        BY <2>5, <3>2 DEF Writer, Connect, ConnectFails, WriterExits, WriterCtxDone,
           WriterClosed,
             WriterTakes, EvalDenied, EvalErrors, CloseWith, EvalDryRun, EvalAllows, WriterSendFails
      <4> QED BY <2>0, <4>1, SessionQuiet
    <3> QED BY <3>1, <3>2
  <2>6. ASSUME NEW id \in Ids, Reader(id)
        PROVE  [Session!Next]_(Session!vars)
    <3>1. CASE ReaderPush(id)
      <4>1. UNCHANGED <<up, dcancel, info, accepted, got>> /\ Relay(id, "data") /\ rd[id] \in {"push", "last"}
        BY <3>1 DEF ReaderPush
      <4>2. \A i \in 1..Len(out[id]) : out[id][i] # "close"
        BY <4>1 DEF IInv, LifeInv, OutInv
      <4> QED BY <2>0, <4>1, <4>2, SessionTold
    <3>2. CASE ~ReaderPush(id)
      <4>1. UNCHANGED <<info, accepted, got, out>>
        BY <2>6, <3>2 DEF Reader, ReadData, ReadEOF, ReadTolerated, ReadErr
      <4> QED BY <2>0, <4>1, SessionQuiet
    <3> QED BY <3>1, <3>2
  <2>7. ASSUME NEW id \in Ids, Run(id)
        PROVE  [Session!Next]_(Session!vars)
    <3>1. CASE RunPush(id)
      <4>1. UNCHANGED <<up, dcancel, info, accepted, got>> /\ Relay(id, "close") /\ run[id] = "push"
        BY <3>1 DEF RunPush
      <4>2. /\ \A i \in 1..Len(out[id]) : out[id][i] # "close"
            /\ Announced(id) \/ DispatchCtxDone
        BY <4>1 DEF IInv, OutInv
      <4> QED BY <2>0, <4>1, <4>2, SessionTold
    <3>2. CASE ~RunPush(id)
      <4>1. UNCHANGED <<info, accepted, got, out>>
        BY <2>7, <3>2 DEF Run, RunWait, RunCtxGone
      <4> QED BY <2>0, <4>1, SessionQuiet
    <3> QED BY <3>1, <3>2
  <2>8. ASSUME NEW id \in Ids, Target(id)
        PROVE  [Session!Next]_(Session!vars)
    <3>1. UNCHANGED <<info, accepted, got, out>>
      BY <2>8 DEF Target, TargetReplies, TargetFinishes, TargetFails, RpcCancelled
    <3> QED BY <2>0, <3>1, SessionQuiet
  <2>9. CASE UNCHANGED vars
    <3>1. UNCHANGED <<info, accepted, got, out>>
      BY <2>9 DEF vars
    <3> QED BY <2>0, <3>1, SessionQuiet
  <2>10. Dispatch => DispatchQuiet \/ (\E id \in Ids : Add(id) \/ SendEnqueue(id)) \/ AddReply \/ AddCtxDone
    BY DEF Dispatch, DispatchIdle, DispatchRequest, DispatchSend, DispatchQuiet
  <2> QED BY <2>1, <2>2, <2>3, <2>4, <2>5, <2>6, <2>7, <2>8, <2>9, <2>10 DEF Next, Step, Returned
<1> QED BY <1>1, <1>2, Invariance, PathInvariance, PTL DEF Spec, ImplementsSession, Session!Spec
================================================================================
