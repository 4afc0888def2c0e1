-------------------------- MODULE ProxyClient_proofs --------------------------
(***************************************************************************)
(* Proofs about ProxyClient, for every number of targets, replies and      *)
(* requests: its inductive invariant IInv, and the four safety properties  *)
(* of the calls (SetupAccounts, UnaryAnswers, InvokeTruthful and           *)
(* StreamAnswers).                                                         *)
(***************************************************************************)
EXTENDS ProxyClient, TLAPS

(***************************************************************************)
(* Sequences and messages.                                                 *)
(***************************************************************************)
LEMMA AppendMsg ==
    ASSUME NEW s \in Seq(Msgs), NEW m \in Msgs
    PROVE  /\ Append(s, m) \in Seq(Msgs) /\ Len(Append(s, m)) = Len(s) + 1 /\ Len(s) \in Nat
           /\ \A i \in 1..Len(s) : Append(s, m)[i] = s[i]
           /\ Append(s, m)[Len(s) + 1] = m
OBVIOUS

LEMMA TailMsg ==
    ASSUME NEW s \in Seq(Msgs), s # <<>>
    PROVE  /\ Tail(s) \in Seq(Msgs) /\ Len(Tail(s)) = Len(s) - 1 /\ Len(s) \in Nat \ {0}
           /\ \A i \in 1..Len(s) - 1 : Tail(s)[i] = s[i + 1]
           /\ Head(s) = s[1] /\ s[1] \in Msgs
OBVIOUS

LEMMA AppendAnswer ==
    ASSUME NEW s \in Seq(Answers), NEW a \in Answers
    PROVE  /\ Append(s, a) \in Seq(Answers) /\ Len(Append(s, a)) = Len(s) + 1 /\ Len(s) \in Nat
           /\ \A i \in 1..Len(s) : Append(s, a)[i] = s[i]
           /\ Append(s, a)[Len(s) + 1] = a /\ Append(s, a) # <<>>
OBVIOUS

LEMMA MsgShapes ==
    /\ \A t \in Nat, id \in Ids : /\ Start(t, id) \in Msgs /\ Opens(Start(t, id))
                                  /\ Start(t, id).k = "start" /\ Start(t, id).t = t
                                  /\ Start(t, id).id = id
    /\ \A t \in Nat : /\ StartError(t) \in Msgs /\ Opens(StartError(t))
                      /\ StartError(t).k = "error" /\ StartError(t).t = t
    /\ \A id \in Ids, n \in Nat : /\ Data(id, n) \in Msgs /\ ~Opens(Data(id, n))
                                  /\ Data(id, n).k = "data" /\ Data(id, n).id = id
                                  /\ Data(id, n).n = n
    /\ \A id \in Ids, st \in {"ok", "failed"} :
          /\ Close(id, st) \in Msgs /\ ~Opens(Close(id, st)) /\ Close(id, st).k = "close"
          /\ Close(id, st).id = id /\ Close(id, st).st = st
BY DEF Msgs, Start, StartError, Data, Close, Opens

LEMMA MsgKinds ==
    ASSUME NEW m \in Msgs
    PROVE  /\ m.k \in {"start", "error", "data", "close"}
           /\ Opens(m) => m.t \in Nat
           /\ m.k = "start" => m.id \in Ids /\ m = Start(m.t, m.id)
           /\ m.k = "error" => m = StartError(m.t)
           /\ m.k = "data" => m.id \in Ids /\ m.n \in Nat /\ m = Data(m.id, m.n)
           /\ m.k = "close" => m.id \in Ids /\ m.st \in {"ok", "failed"} /\ m = Close(m.id, m.st)
           /\ ~Opens(m) => m.id \in Ids
BY DEF Msgs, Start, StartError, Data, Close, Opens

LEMMA AnswerShape ==
    ASSUME NEW t \in Nat, NEW o \in [resp : Nat, err : Errs]
    PROVE  /\ Answer(t, o) \in Answers /\ Answer(t, o).t = t
           /\ Answer(t, o).resp = o.resp /\ Answer(t, o).err = o.err
BY DEF Answer, Answers

(***************************************************************************)
(* What the types say.                                                     *)
(***************************************************************************)
LEMMA Numbers ==
    ASSUME TypeOK
    PROVE  /\ N \in Nat \ {0} /\ Targets = 1..N /\ nsent \in Nat /\ nsent <= N
           /\ nstart \in Nat /\ nstart <= nsent /\ nstart <= N
           /\ replies \in Nat /\ replies <= N /\ pend \in Nat /\ hand \in Nat
           /\ pend <= N /\ hand <= N /\ canned \in Nat
           /\ \A t \in Targets : t \in Nat \ {0} /\ t <= N
BY ClientAssumption DEF TypeOK, ProxyType, NetType, SetupType, CallType, Targets

LEMMA Functions ==
    ASSUME TypeOK
    PROVE  /\ \A t \in Targets : /\ idOf[t] \in Ids \cup {NoId} /\ nrep[t] \in Nat
                                  /\ srv[t] \in {"none", "open", "ok", "failed"}
                                  /\ obj[t] \in [resp : Nat, err : Errs] /\ obj[t].resp \in Nat
                                  /\ obj[t].err \in Errs /\ seen[t] \in Seq(Answers)
                                  /\ Len(seen[t]) \in Nat
           /\ \A id \in Ids : ids[id] \in 0..N
           /\ wire \in Seq(Msgs) /\ Len(wire) \in Nat /\ errors \in Seq(Nat) /\ Len(errors) \in Nat
           /\ \A k \in 1..Len(errors) : errors[k] \in Nat
BY DEF TypeOK, ProxyType, NetType, SetupType, CallType

(***************************************************************************)
(* The head of the wire, while the client listens: the announcement of the *)
(* next target, the next reply of a tracked one, or its close behind its   *)
(* last reply.                                                             *)
(***************************************************************************)
WireInv == WireOrder /\ WireTruthful /\ WireAhead /\ WireComplete

LEMMA TrackedIds ==
    ASSUME TypeOK, ProxyInv, AccountInv, NEW t \in Targets, IsTracked(t)
    PROVE  idOf[t] \in Ids /\ ids[idOf[t]] = t /\ t <= replies /\ t <= nstart
<1>1. PICK id \in Ids : ids[id] = t
  BY DEF IsTracked
<1>2. ids[id] # 0
  BY <1>1, Numbers
<1>3. t <= replies /\ idOf[t] = id
  BY <1>1, <1>2 DEF AccountInv
<1> QED BY <1>1, <1>3, Numbers DEF AccountInv

LEMMA ReadNat ==
    ASSUME TypeOK, NEW t \in Targets
    PROVE  Read(t) \in Nat
BY DEF TypeOK, ProxyType, NetType, SetupType, CallType, Read, Targets

LEMMA HeadOpens ==
    ASSUME TypeOK, ProxyInv, WireInv, Listens, wire # <<>>, Opens(wire[1])
    PROVE  wire[1].t = replies + 1 /\ wire[1].t \in 1..nstart /\ wire[1].t \in Targets
<1>1. wire[1] \in Msgs /\ Len(wire) \in Nat \ {0}
  BY TailMsg DEF TypeOK, ProxyType, NetType, SetupType, CallType
<1>2. /\ wire[1].t \in 1..nstart /\ wire[1].t > replies /\ replies \in Nat /\ nstart \in Nat
      /\ nstart <= N /\ N \in Nat
  BY <1>1 DEF WireInv, WireTruthful, WireAhead, Truthful, TypeOK, ProxyType, NetType,
     SetupType, CallType
<1> DEFINE u == replies + 1
<1>3. u \in 1..nstart /\ u > replies /\ u \in Targets /\ u \in Nat
  BY <1>2 DEF Targets
<1>4. OnWire(IF idOf[u] = NoId THEN StartError(u) ELSE Start(u, idOf[u]))
  BY <1>3 DEF WireInv, WireComplete
<1>5. idOf[u] = NoId \/ idOf[u] \in Ids
  BY <1>3 DEF TypeOK, ProxyType, NetType, SetupType, CallType
<1>6. PICK j \in 1..Len(wire) : Opens(wire[j]) /\ wire[j].t = u
  BY <1>3, <1>4, <1>5, MsgShapes DEF OnWire
<1>7. CASE j = 1
  BY <1>2, <1>3, <1>6, <1>7 DEF Targets
<1>8. CASE j # 1
  <2>1. 1 < j /\ 1 \in 1..Len(wire)
    BY <1>1, <1>8
  <2>2. wire[1].t < wire[j].t
    BY <1>6, <2>1 DEF WireInv, WireOrder
  <2> QED BY <1>2, <1>6, <2>2
<1> QED BY <1>7, <1>8

LEMMA HeadTarget ==
    ASSUME TypeOK, ProxyInv, WireInv, AccountInv, Listens, wire # <<>>, ~Opens(wire[1])
    PROVE  \E t \in Targets :
              /\ idOf[t] = wire[1].id /\ wire[1].id # NoId /\ wire[1].id \in Ids
              /\ IsTracked(t) /\ ids[wire[1].id] = t /\ t \in 1..nstart /\ t <= replies
              /\ wire[1].k = "data" => wire[1].n = Read(t) + 1 /\ wire[1].n <= nrep[t]
              /\ wire[1].k = "close" => srv[t] = wire[1].st /\ Read(t) >= nrep[t]
<1>1. wire[1] \in Msgs /\ Len(wire) \in Nat \ {0} /\ 1 \in 1..Len(wire)
  BY TailMsg DEF TypeOK, ProxyType, NetType, SetupType, CallType
<1>2. PICK t \in Targets : /\ idOf[t] = wire[1].id /\ wire[1].id # NoId
                           /\ wire[1].k = "data" => wire[1].n \in 1..nrep[t]
                           /\ wire[1].k = "close" => srv[t] = wire[1].st
  BY <1>1 DEF WireInv, WireTruthful, Truthful
<1>3. Awaited(t) /\ (wire[1].k = "data" => wire[1].n > Read(t))
  BY <1>1, <1>2 DEF WireInv, WireAhead
<1>4. wire[1].id \in Ids /\ wire[1].k \in {"data", "close"} /\ t \in 1..nstart /\ t \in Nat
  BY <1>1, <1>2, MsgKinds DEF Opens, ProxyInv, Targets, TypeOK, ProxyType, NetType, SetupType,
     CallType
<1>5. IsTracked(t)
  <2>1. SUFFICES ASSUME t > replies PROVE FALSE
    BY <1>3 DEF Awaited
  <2>2. OnWire(Start(t, idOf[t]))
    BY <1>1, <1>2, <1>4, <2>1 DEF WireInv, WireComplete
  <2>3. PICK j \in 1..Len(wire) : wire[j].k = "start" /\ wire[j].id = wire[1].id
    BY <1>2, <1>4, <2>2, MsgShapes DEF OnWire
  <2>4. 1 < j
    BY <1>1, <2>3 DEF Opens
  <2> QED BY <1>1, <2>3, <2>4 DEF WireInv, WireOrder
<1>6. ids[wire[1].id] = t /\ t <= replies
  BY <1>2, <1>5, TrackedIds
<1>7. Read(t) \in Nat /\ nrep[t] \in Nat
  BY ReadNat DEF TypeOK, ProxyType, NetType, SetupType, CallType
<1>8. ASSUME NEW n \in 1..nrep[t], n > Read(t)
      PROVE  wire[1].k = "data" /\ wire[1].n <= n
  <2>1. OnWire(Data(idOf[t], n)) /\ n \in Nat
    BY <1>1, <1>3, <1>4, <1>7, <1>8 DEF WireInv, WireComplete
  <2>2. PICK j \in 1..Len(wire) : wire[j].k = "data" /\ wire[j].id = wire[1].id /\ wire[j].n = n
    BY <1>2, <1>4, <2>1, MsgShapes DEF OnWire
  <2>3. j = 1 \/ 1 < j
    BY <2>2
  <2>4. ASSUME 1 < j PROVE wire[1].k = "data" /\ wire[1].n < n
    BY <1>1, <1>4, <2>2, <2>4 DEF WireInv, WireOrder, Opens
  <2>5. wire[1].k = "data" => wire[1].n \in Nat
    BY <1>1, MsgKinds
  <2> QED BY <2>2, <2>3, <2>4, <2>5, <1>7
<1>9. wire[1].k = "data" => wire[1].n = Read(t) + 1 /\ wire[1].n <= nrep[t]
  <2>1. SUFFICES ASSUME wire[1].k = "data" PROVE wire[1].n = Read(t) + 1 /\ wire[1].n <= nrep[t]
    OBVIOUS
  <2>2. wire[1].n \in 1..nrep[t] /\ wire[1].n > Read(t)
    BY <1>2, <1>3, <2>1
  <2>3. Read(t) + 1 \in 1..nrep[t] /\ Read(t) + 1 > Read(t)
    BY <1>7, <2>2
  <2>4. wire[1].n <= Read(t) + 1
    BY <1>8, <2>3
  <2> QED BY <1>7, <2>2, <2>4
<1>10. wire[1].k = "close" => srv[t] = wire[1].st /\ Read(t) >= nrep[t]
  <2>1. SUFFICES ASSUME wire[1].k = "close", Read(t) < nrep[t] PROVE FALSE
    BY <1>2, <1>7
  <2>2. Read(t) + 1 \in 1..nrep[t] /\ Read(t) + 1 > Read(t)
    BY <1>7, <2>1
  <2> QED BY <1>8, <2>1, <2>2
<1> QED BY <1>2, <1>4, <1>5, <1>6, <1>9, <1>10

(***************************************************************************)
(* The wire, when the client does something else, when the proxy writes    *)
(* and when the client reads.                                              *)
(***************************************************************************)
LEMMA WireSame ==
    ASSUME TypeOK, WireInv, wire' = wire, N' = N, nstart' = nstart, idOf' = idOf, srv' = srv,
           nrep' = nrep, replies' = replies, ended = "err" => ended' = "err",
           Listens' => /\ Listens
                       /\ \A t \in Targets : (IsTracked(t)' <=> IsTracked(t)) /\ Read(t)' = Read(t)
    PROVE  WireInv'
<1>1. WireOrder' /\ WireTruthful'
  BY DEF WireInv, WireOrder, WireTruthful, Truthful, Targets
<1>2. Targets' = Targets /\ 1..nstart \subseteq Targets
  BY Numbers DEF Targets
<1>3. Listens' => \A t \in Targets : (Awaited(t)' <=> Awaited(t)) /\ Read(t)' = Read(t)
  BY DEF Awaited
<1>4. WireAhead'
  BY <1>2, <1>3 DEF WireInv, WireAhead
<1>5. \A m : OnWire(m)' <=> OnWire(m)
  BY DEF OnWire
<1>6. WireComplete'
  <2>1. SUFFICES ASSUME Listens', ended' = "err" => wire # <<>>, NEW t \in 1..nstart
                 PROVE  /\ t > replies =>
                              OnWire(IF idOf[t] = NoId THEN StartError(t) ELSE Start(t, idOf[t]))'
                        /\ Awaited(t)' =>
                              /\ \A n \in 1..nrep[t] : n > Read(t)' => OnWire(Data(idOf[t], n))'
                              /\ srv[t] # "open" /\ idOf[t] # NoId => OnWire(Close(idOf[t], srv[t]))'
    BY DEF WireComplete
  <2>2. t \in Targets /\ Listens
    BY <1>2, <2>1
  <2> QED BY <1>3, <1>5, <2>1, <2>2 DEF WireInv, WireComplete
<1> QED BY <1>1, <1>4, <1>6 DEF WireInv

OnNext(m) == \E i \in 1..Len(wire') : wire'[i] = m

\* The wire grows by m.
Grows(m) == m \in Msgs /\ wire' = Append(wire, m)

LEMMA Grown ==
    ASSUME TypeOK, NEW m, Grows(m)
    PROVE  /\ wire' \in Seq(Msgs) /\ Len(wire') = Len(wire) + 1 /\ Len(wire) \in Nat
           /\ \A i \in 1..Len(wire) : wire'[i] = wire[i] /\ wire[i] \in Msgs
           /\ wire'[Len(wire) + 1] = m /\ wire' # <<>>
           /\ \A x : OnWire(x) \/ x = m => OnNext(x)
<1>1. /\ wire' \in Seq(Msgs) /\ Len(wire') = Len(wire) + 1 /\ Len(wire) \in Nat
      /\ \A i \in 1..Len(wire) : wire'[i] = wire[i] /\ wire[i] \in Msgs
      /\ wire'[Len(wire) + 1] = m
  BY AppendMsg, Functions DEF Grows
<1>2. wire' # <<>>
  BY <1>1
<1>3. \A x : OnWire(x) \/ x = m => OnNext(x)
  BY <1>1 DEF OnWire, OnNext
<1> QED BY <1>1, <1>2, <1>3

LEMMA OrderGrows ==
    ASSUME TypeOK, WireOrder, NEW m, Grows(m),
           \A i \in 1..Len(wire) :
               /\ Opens(wire[i]) /\ Opens(m) => wire[i].t < m.t
               /\ ~Opens(wire[i]) /\ m.k = "start" => wire[i].id # m.id
               /\ wire[i].k = "close" /\ ~Opens(m) => wire[i].id # m.id
               /\ wire[i].k = "data" /\ m.k = "data" /\ wire[i].id = m.id => wire[i].n < m.n
    PROVE  WireOrder'
<1>1. SUFFICES ASSUME NEW i \in 1..Len(wire'), NEW j \in 1..Len(wire'), i < j
               PROVE  /\ Opens(wire'[i]) /\ Opens(wire'[j]) => wire'[i].t < wire'[j].t
                      /\ ~Opens(wire'[i]) /\ wire'[j].k = "start" => wire'[i].id # wire'[j].id
                      /\ wire'[i].k = "close" /\ ~Opens(wire'[j]) => wire'[i].id # wire'[j].id
                      /\ wire'[i].k = "data" /\ wire'[j].k = "data" /\ wire'[i].id = wire'[j].id =>
                            wire'[i].n < wire'[j].n
  BY DEF WireOrder, Opens
<1>2. i \in 1..Len(wire) /\ wire'[i] = wire[i]
  BY <1>1, Grown
<1>3. CASE j \in 1..Len(wire)
  BY <1>1, <1>2, <1>3, Grown DEF WireOrder
<1>4. CASE j = Len(wire) + 1
  BY <1>2, <1>4, Grown
<1> QED BY <1>1, <1>3, <1>4, Grown

\* The wire shrinks by its head.
Shrinks == wire # <<>> /\ wire' = Tail(wire)

LEMMA Shrunk ==
    ASSUME TypeOK, Shrinks
    PROVE  /\ wire' \in Seq(Msgs) /\ Len(wire') \in Nat /\ Len(wire) = Len(wire') + 1
           /\ \A i \in 1..Len(wire') : wire'[i] = wire[i + 1] /\ i + 1 \in 1..Len(wire) /\ 1 < i + 1
           /\ Head(wire) = wire[1] /\ wire[1] \in Msgs /\ 1 \in 1..Len(wire)
           /\ \A x : OnWire(x) /\ x # wire[1] => OnNext(x)
<1>1. /\ wire' \in Seq(Msgs) /\ Len(wire') \in Nat /\ Len(wire) = Len(wire') + 1
      /\ \A i \in 1..Len(wire') : wire'[i] = wire[i + 1] /\ i + 1 \in 1..Len(wire) /\ 1 < i + 1
      /\ Head(wire) = wire[1] /\ wire[1] \in Msgs /\ 1 \in 1..Len(wire)
  BY TailMsg, Functions DEF Shrinks
<1>2. ASSUME NEW x, OnWire(x), x # wire[1] PROVE OnNext(x)
  <2>1. PICK j \in 1..Len(wire) : wire[j] = x
    BY <1>2 DEF OnWire
  <2>2. j - 1 \in 1..Len(wire') /\ wire'[j - 1] = x
    BY <1>1, <1>2, <2>1
  <2> QED BY <2>2 DEF OnNext
<1> QED BY <1>1, <1>2

LEMMA OrderShrinks ==
    ASSUME TypeOK, WireOrder, WireTruthful, Shrinks,
           N' = N, nstart' = nstart, idOf' = idOf, srv' = srv, nrep' = nrep
    PROVE  WireOrder' /\ WireTruthful'
<1>1. WireOrder'
  <2>1. SUFFICES ASSUME NEW i \in 1..Len(wire'), NEW j \in 1..Len(wire'), i < j
                 PROVE  /\ Opens(wire'[i]) /\ Opens(wire'[j]) => wire'[i].t < wire'[j].t
                        /\ ~Opens(wire'[i]) /\ wire'[j].k = "start" => wire'[i].id # wire'[j].id
                        /\ wire'[i].k = "close" /\ ~Opens(wire'[j]) => wire'[i].id # wire'[j].id
                        /\ wire'[i].k = "data" /\ wire'[j].k = "data" /\ wire'[i].id = wire'[j].id =>
                              wire'[i].n < wire'[j].n
    BY DEF WireOrder, Opens
  <2>2. /\ wire'[i] = wire[i + 1] /\ wire'[j] = wire[j + 1] /\ i + 1 < j + 1
        /\ i + 1 \in 1..Len(wire) /\ j + 1 \in 1..Len(wire)
    BY <2>1, Shrunk
  <2> QED BY <2>2 DEF WireOrder
<1>2. \A m : Truthful(m)' <=> Truthful(m)
  BY DEF Truthful, Opens, Targets
<1>3. WireTruthful'
  BY <1>2, Shrunk DEF WireTruthful
<1> QED BY <1>1, <1>3

\* The proxy does not move.
ProxyRests ==
    N' = N /\ nstart' = nstart /\ idOf' = idOf /\ srv' = srv /\ nrep' = nrep /\ ended' = ended

LEMMA ReadsOpening ==
    ASSUME TypeOK, ProxyInv, WireInv, Listens, Shrinks, Opens(wire[1]), ProxyRests,
           replies' = replies + 1,
           \A u \in Targets :
               /\ IsTracked(u)' <=> IsTracked(u) \/ (wire[1].k = "start" /\ u = wire[1].t)
               /\ Read(u)' = Read(u)
    PROVE  WireInv'
<1>1. wire # <<>> /\ Targets' = Targets /\ 1..nstart \subseteq Targets
  BY Numbers DEF Shrinks, ProxyRests, Targets
<1>2. wire[1].t = replies + 1 /\ wire[1].t \in 1..nstart /\ wire[1].t \in Targets
  BY <1>1, HeadOpens
<1>3. \A u \in Targets : Awaited(u)' => Awaited(u)
  BY <1>2, Numbers DEF Awaited
<1>4. ASSUME NEW i \in 1..Len(wire')
      PROVE  /\ Opens(wire'[i]) => wire'[i].t > replies + 1
             /\ ~Opens(wire'[i]) => \A u \in Targets : idOf[u] = wire'[i].id =>
                   Awaited(u)' /\ (wire'[i].k = "data" => wire'[i].n > Read(u)')
  <2>1. wire'[i] = wire[i + 1] /\ i + 1 \in 1..Len(wire) /\ 1 < i + 1 /\ 1 \in 1..Len(wire)
    BY <1>4, Shrunk
  <2>2. ASSUME Opens(wire'[i]) PROVE wire'[i].t > replies + 1
    <3>1. wire[1].t < wire'[i].t
      BY <2>1, <2>2 DEF WireInv, WireOrder
    <3> QED BY <1>2, <3>1
  <2>3. ASSUME ~Opens(wire'[i]), NEW u \in Targets, idOf[u] = wire'[i].id
        PROVE  Awaited(u)' /\ (wire'[i].k = "data" => wire'[i].n > Read(u)')
    <3>1. Awaited(u) /\ (wire'[i].k = "data" => wire'[i].n > Read(u)) /\ wire'[i].id # NoId
      BY <2>1, <2>3 DEF WireInv, WireAhead, WireTruthful, Truthful
    <3>2. u = wire[1].t => wire[1].k = "start"
      BY <2>1, <2>3, <3>1 DEF WireInv, WireTruthful, Truthful, Opens
    <3>3. u > replies + 1 \/ u = wire[1].t \/ IsTracked(u)
      BY <1>2, <3>1, Numbers DEF Awaited
    <3> QED BY <1>2, <3>1, <3>2, <3>3 DEF Awaited
  <2> QED BY <2>2, <2>3
<1>5. WireAhead'
  BY <1>1, <1>4 DEF WireAhead, ProxyRests
<1>6. ASSUME NEW u \in 1..nstart
      PROVE  /\ u > replies + 1 =>
                   OnNext(IF idOf[u] = NoId THEN StartError(u) ELSE Start(u, idOf[u]))
             /\ Awaited(u)' =>
                   /\ \A n \in 1..nrep[u] : n > Read(u) => OnNext(Data(idOf[u], n))
                   /\ srv[u] # "open" /\ idOf[u] # NoId => OnNext(Close(idOf[u], srv[u]))
  <2>1. u \in Targets /\ u \in Nat /\ idOf[u] \in Ids \cup {NoId} /\ replies \in Nat
    BY <1>1, <1>6, Functions, Numbers
  <2>2. ASSUME u > replies + 1
        PROVE  OnNext(IF idOf[u] = NoId THEN StartError(u) ELSE Start(u, idOf[u]))
    <3> DEFINE x == IF idOf[u] = NoId THEN StartError(u) ELSE Start(u, idOf[u])
    <3>1. OnWire(x)
      BY <1>1, <2>1, <2>2 DEF WireInv, WireComplete
    <3>2. x.t = u
      BY <2>1, MsgShapes
    <3>3. x # wire[1]
      BY <1>2, <2>1, <2>2, <3>2
    <3> QED BY <3>1, <3>3, Shrunk
  <2>3. ASSUME Awaited(u)', NEW n \in 1..nrep[u], n > Read(u) PROVE OnNext(Data(idOf[u], n))
    <3>1. OnWire(Data(idOf[u], n))
      BY <1>1, <1>3, <2>1, <2>3 DEF WireInv, WireComplete
    <3>2. Data(idOf[u], n) # wire[1]
      BY DEF Data, Opens
    <3> QED BY <3>1, <3>2, Shrunk
  <2>4. ASSUME Awaited(u)', srv[u] # "open", idOf[u] # NoId PROVE OnNext(Close(idOf[u], srv[u]))
    <3>1. OnWire(Close(idOf[u], srv[u]))
      BY <1>1, <1>3, <2>1, <2>4 DEF WireInv, WireComplete
    <3>2. Close(idOf[u], srv[u]) # wire[1]
      BY DEF Close, Opens
    <3> QED BY <3>1, <3>2, Shrunk
  <2> QED BY <2>2, <2>3, <2>4
<1>7. WireComplete'
  BY <1>1, <1>6 DEF WireComplete, ProxyRests, OnWire, OnNext
<1>8. WireOrder' /\ WireTruthful'
  BY OrderShrinks DEF WireInv, ProxyRests
<1> QED BY <1>5, <1>7, <1>8 DEF WireInv

LEMMA ReadsData ==
    ASSUME TypeOK, ProxyInv, AccountInv, WireInv, Listens, Shrinks, wire[1].k = "data", ProxyRests,
           replies' = replies,
           \A u \in Targets :
               /\ IsTracked(u)' <=> IsTracked(u)
               /\ Awaited(u) => Read(u)' = IF idOf[u] = wire[1].id THEN Read(u) + 1 ELSE Read(u)
    PROVE  WireInv'
<1>1. wire # <<>> /\ Targets' = Targets /\ 1..nstart \subseteq Targets /\ ~Opens(wire[1])
  BY Numbers DEF Shrinks, ProxyRests, Targets, Opens
<1>2. PICK t \in Targets : idOf[t] = wire[1].id /\ wire[1].id # NoId /\ wire[1].n = Read(t) + 1
  BY <1>1, HeadTarget
<1>3. \A u \in Targets : idOf[u] = wire[1].id => u = t
  BY <1>2 DEF ProxyInv
<1>4. \A u \in Targets : Awaited(u)' <=> Awaited(u)
  BY DEF Awaited
<1>5. /\ \A u \in Targets : Read(u) \in Nat
      /\ \A u \in Targets : Awaited(u) => Read(u)' \in Nat /\ Read(u)' >= Read(u)
  BY ReadNat
<1>6. ASSUME NEW i \in 1..Len(wire')
      PROVE  /\ Opens(wire'[i]) => wire'[i].t > replies
             /\ ~Opens(wire'[i]) => \A u \in Targets : idOf[u] = wire'[i].id =>
                   Awaited(u)' /\ (wire'[i].k = "data" => wire'[i].n > Read(u)')
  <2>1. wire'[i] = wire[i + 1] /\ i + 1 \in 1..Len(wire) /\ 1 < i + 1 /\ 1 \in 1..Len(wire)
    BY <1>6, Shrunk
  <2>2. Opens(wire'[i]) => wire'[i].t > replies
    BY <2>1 DEF WireInv, WireAhead
  <2>3. ASSUME ~Opens(wire'[i]), NEW u \in Targets, idOf[u] = wire'[i].id
        PROVE  Awaited(u)' /\ (wire'[i].k = "data" => wire'[i].n > Read(u)')
    <3>1. Awaited(u) /\ (wire'[i].k = "data" => wire'[i].n > Read(u))
      BY <2>1, <2>3 DEF WireInv, WireAhead
    <3>2. ASSUME wire'[i].k = "data", u = t PROVE wire'[i].n > Read(u) + 1
      BY <1>2, <2>1, <2>3, <3>2 DEF WireInv, WireOrder
    <3> QED BY <1>2, <1>3, <1>4, <3>1, <3>2
  <2> QED BY <2>2, <2>3
<1>7. WireAhead'
  BY <1>1, <1>6 DEF WireAhead, ProxyRests
<1>8. ASSUME NEW u \in 1..nstart
      PROVE  /\ u > replies =>
                   OnNext(IF idOf[u] = NoId THEN StartError(u) ELSE Start(u, idOf[u]))
             /\ Awaited(u)' =>
                   /\ \A n \in 1..nrep[u] : n > Read(u)' => OnNext(Data(idOf[u], n))
                   /\ srv[u] # "open" /\ idOf[u] # NoId => OnNext(Close(idOf[u], srv[u]))
  <2>1. u \in Targets /\ u \in Nat /\ idOf[u] \in Ids \cup {NoId} /\ nrep[u] \in Nat
    BY <1>1, <1>8, Functions, Numbers
  <2>2. ASSUME u > replies
        PROVE  OnNext(IF idOf[u] = NoId THEN StartError(u) ELSE Start(u, idOf[u]))
    <3> DEFINE x == IF idOf[u] = NoId THEN StartError(u) ELSE Start(u, idOf[u])
    <3>1. OnWire(x)
      BY <1>1, <2>1, <2>2 DEF WireInv, WireComplete
    <3>2. x # wire[1]
      BY <1>1, <2>1, MsgShapes
    <3> QED BY <3>1, <3>2, Shrunk
  <2>3. ASSUME Awaited(u)', NEW n \in 1..nrep[u], n > Read(u)' PROVE OnNext(Data(idOf[u], n))
    <3>1. n > Read(u) /\ n \in Nat
      BY <1>4, <1>5, <2>1, <2>3
    <3>2. OnWire(Data(idOf[u], n))
      BY <1>1, <1>4, <2>1, <2>3, <3>1 DEF WireInv, WireComplete
    <3>3. idOf[u] \in Ids
      BY <2>1, <2>3 DEF ProxyInv
    <3>4. Data(idOf[u], n).id = idOf[u] /\ Data(idOf[u], n).n = n
      BY <3>1, <3>3, MsgShapes
    <3>5. Data(idOf[u], n) # wire[1]
      BY <1>2, <1>3, <1>4, <1>5, <2>1, <2>3, <3>4
    <3> QED BY <3>2, <3>5, Shrunk
  <2>4. ASSUME Awaited(u)', srv[u] # "open", idOf[u] # NoId PROVE OnNext(Close(idOf[u], srv[u]))
    <3>1. OnWire(Close(idOf[u], srv[u]))
      BY <1>1, <1>4, <2>1, <2>4 DEF WireInv, WireComplete
    <3>2. Close(idOf[u], srv[u]) # wire[1]
      BY DEF Close
    <3> QED BY <3>1, <3>2, Shrunk
  <2> QED BY <2>2, <2>3, <2>4
<1>9. WireComplete'
  BY <1>1, <1>8 DEF WireComplete, ProxyRests, OnWire, OnNext
<1>10. WireOrder' /\ WireTruthful'
  BY OrderShrinks DEF WireInv, ProxyRests
<1> QED BY <1>7, <1>9, <1>10 DEF WireInv

LEMMA ReadsClose ==
    ASSUME TypeOK, ProxyInv, AccountInv, WireInv, Listens, Shrinks, wire[1].k = "close", ProxyRests,
           replies' = replies,
           \A u \in Targets :
               /\ IsTracked(u)' <=> IsTracked(u) /\ idOf[u] # wire[1].id
               /\ Awaited(u) /\ idOf[u] # wire[1].id => Read(u)' = Read(u)
    PROVE  WireInv'
<1>1. wire # <<>> /\ Targets' = Targets /\ 1..nstart \subseteq Targets /\ ~Opens(wire[1])
  BY Numbers DEF Shrinks, ProxyRests, Targets, Opens
<1>2. PICK t \in Targets : idOf[t] = wire[1].id /\ wire[1].id # NoId /\ t <= replies
  BY <1>1, HeadTarget
<1>3. \A u \in Targets : idOf[u] = wire[1].id => u = t
  BY <1>2 DEF ProxyInv
<1>4. \A u \in Targets : Awaited(u)' => Awaited(u) /\ idOf[u] # wire[1].id
  BY <1>2, <1>3, Numbers DEF Awaited
<1>5. \A u \in Targets : Awaited(u) /\ idOf[u] # wire[1].id => Awaited(u)' /\ Read(u)' = Read(u)
  BY DEF Awaited
<1>6. ASSUME NEW i \in 1..Len(wire')
      PROVE  /\ Opens(wire'[i]) => wire'[i].t > replies
             /\ ~Opens(wire'[i]) => \A u \in Targets : idOf[u] = wire'[i].id =>
                   Awaited(u)' /\ (wire'[i].k = "data" => wire'[i].n > Read(u)')
  <2>1. wire'[i] = wire[i + 1] /\ i + 1 \in 1..Len(wire) /\ 1 < i + 1 /\ 1 \in 1..Len(wire)
    BY <1>6, Shrunk
  <2>2. Opens(wire'[i]) => wire'[i].t > replies
    BY <2>1 DEF WireInv, WireAhead
  <2>3. ASSUME ~Opens(wire'[i]), NEW u \in Targets, idOf[u] = wire'[i].id
        PROVE  Awaited(u)' /\ (wire'[i].k = "data" => wire'[i].n > Read(u)')
    <3>1. Awaited(u) /\ (wire'[i].k = "data" => wire'[i].n > Read(u))
      BY <2>1, <2>3 DEF WireInv, WireAhead
    <3>2. wire'[i].id # wire[1].id
      BY <2>1, <2>3 DEF WireInv, WireOrder
    <3> QED BY <1>5, <2>3, <3>1, <3>2
  <2> QED BY <2>2, <2>3
<1>7. WireAhead'
  BY <1>1, <1>6 DEF WireAhead, ProxyRests
<1>8. ASSUME NEW u \in 1..nstart
      PROVE  /\ u > replies =>
                   OnNext(IF idOf[u] = NoId THEN StartError(u) ELSE Start(u, idOf[u]))
             /\ Awaited(u)' =>
                   /\ \A n \in 1..nrep[u] : n > Read(u)' => OnNext(Data(idOf[u], n))
                   /\ srv[u] # "open" /\ idOf[u] # NoId => OnNext(Close(idOf[u], srv[u]))
  <2>1. /\ u \in Targets /\ u \in Nat /\ idOf[u] \in Ids \cup {NoId} /\ nrep[u] \in Nat
        /\ srv[u] \in {"open", "ok", "failed"}
    <3>1. u \in Targets /\ u \in Nat /\ u <= nstart
      BY <1>1, <1>8, Numbers
    <3>2. srv[u] # "none"
      BY <3>1 DEF ProxyInv
    <3> QED BY <3>1, <3>2, Functions
  <2>2. ASSUME u > replies
        PROVE  OnNext(IF idOf[u] = NoId THEN StartError(u) ELSE Start(u, idOf[u]))
    <3> DEFINE x == IF idOf[u] = NoId THEN StartError(u) ELSE Start(u, idOf[u])
    <3>1. OnWire(x)
      BY <1>1, <2>1, <2>2 DEF WireInv, WireComplete
    <3>2. x # wire[1]
      BY <1>1, <2>1, MsgShapes
    <3> QED BY <3>1, <3>2, Shrunk
  <2>3. ASSUME Awaited(u)', NEW n \in 1..nrep[u], n > Read(u)' PROVE OnNext(Data(idOf[u], n))
    <3>1. n > Read(u)
      BY <1>4, <1>5, <2>1, <2>3
    <3>2. OnWire(Data(idOf[u], n))
      BY <1>1, <1>4, <2>1, <2>3, <3>1 DEF WireInv, WireComplete
    <3>3. Data(idOf[u], n) # wire[1]
      BY DEF Data
    <3> QED BY <3>2, <3>3, Shrunk
  <2>4. ASSUME Awaited(u)', srv[u] # "open", idOf[u] # NoId PROVE OnNext(Close(idOf[u], srv[u]))
    <3>1. OnWire(Close(idOf[u], srv[u]))
      BY <1>1, <1>4, <2>1, <2>4 DEF WireInv, WireComplete
    <3>2. Close(idOf[u], srv[u]) # wire[1]
      BY <1>4, <2>1, <2>4, MsgShapes
    <3> QED BY <3>1, <3>2, Shrunk
  <2> QED BY <2>2, <2>3, <2>4
<1>9. WireComplete'
  BY <1>1, <1>8 DEF WireComplete, ProxyRests, OnWire, OnNext
<1>10. WireOrder' /\ WireTruthful'
  BY OrderShrinks DEF WireInv, ProxyRests
<1> QED BY <1>7, <1>9, <1>10 DEF WireInv

(***************************************************************************)
(* The proxy's steps.                                                      *)
(***************************************************************************)
ProxyMoves ==
    /\ UNCHANGED <<connVars, setupVars, callVars, nsent>> /\ nstart' \in Nat /\ nstart' >= nstart
    /\ \A t \in Targets :
          /\ t <= nstart => idOf'[t] = idOf[t]
          /\ srv[t] \in {"ok", "failed"} => srv'[t] = srv[t] /\ nrep'[t] = nrep[t]
          /\ nrep'[t] \in Nat /\ nrep'[t] >= nrep[t] /\ (Unary => nrep'[t] <= 1)

LEMMA ClientRests ==
    ASSUME IInv, ProxyMoves
    PROVE  PhaseInv' /\ AccountInv' /\ UnaryInv' /\ StreamInv'
<1>1. /\ N' = N /\ mode' = mode /\ snd' = snd /\ rcv' = rcv /\ replies' = replies
      /\ recvErr' = recvErr /\ ids' = ids /\ errors' = errors /\ sentErrors' = sentErrors
      /\ obj' = obj /\ pc' = pc /\ canned' = canned /\ chanErr' = chanErr /\ pend' = pend
      /\ hand' = hand /\ seen' = seen /\ nsent' = nsent
  BY DEF ProxyMoves, connVars, setupVars, callVars, retVars
<1>2. TypeOK /\ PhaseInv /\ AccountInv /\ UnaryInv /\ StreamInv /\ ProxyInv
  BY DEF IInv
<1>3. PhaseInv'
  BY <1>1, <1>2 DEF PhaseInv, Targets, Unary
<1>4. /\ Targets' = Targets /\ (Unary' <=> Unary)
      /\ \A t : (IsTracked(t)' <=> IsTracked(t)) /\ (IsError(t)' <=> IsError(t))
      /\ \A t : (Due(t)' <=> Due(t)) /\ (Heard(t)' <=> Heard(t))
  BY <1>1 DEF Targets, Unary, IsTracked, IsError, Due, Heard
<1>5. AccountInv'
  <2>1. replies <= nstart' /\ \A t \in 1..replies : t \in Targets /\ t <= nstart
    BY <1>2, Numbers DEF AccountInv, ProxyMoves
  <2>2. \A id \in Ids : ids[id] # 0 => ids[id] <= replies /\ idOf'[ids[id]] = id
    <3> SUFFICES ASSUME NEW id \in Ids, ids[id] # 0
                 PROVE  ids[id] <= replies /\ idOf'[ids[id]] = id
      OBVIOUS
    <3>1. ids[id] \in 1..replies /\ idOf[ids[id]] = id
      BY <1>2, Functions, Numbers DEF AccountInv
    <3> QED BY <2>1, <3>1, Numbers DEF ProxyMoves
  <2>3. \A k \in 1..Len(errors) : srv'[errors[k]] = "failed"
    BY <1>2, <2>1 DEF AccountInv, ProxyMoves
  <2> QED BY <1>1, <1>2, <1>4, <2>1, <2>2, <2>3 DEF AccountInv
<1>6. UnaryInv'
  <2>1. SUFFICES ASSUME Unary, pc \in {"canned", "recv", "flush", "done"}
                 PROVE  UnaryInv'
    BY <1>1, <1>4 DEF UnaryInv
  <2>2. \A t \in Targets :
          /\ obj[t].resp <= nrep'[t]
          /\ \A k \in 1..Len(seen[t]) :
                seen[t][k].err = "nil" => seen[t][k].resp = 1 /\ nrep'[t] = 1
    BY <1>2, <2>1, Functions DEF UnaryInv, Served, ProxyMoves
  <2>3. \A t \in Targets : chanErr = "nil" /\ ~IsTracked(t) =>
          srv'[t] \in {"ok", "failed"} /\ (obj[t].err = "nil" <=> srv'[t] = "ok")
    BY <1>2, <2>1 DEF UnaryInv, Served, ProxyMoves
  <2> QED BY <1>1, <1>2, <1>4, <2>1, <2>2, <2>3 DEF UnaryInv, Served
<1>7. StreamInv'
  <2>1. SUFFICES ASSUME ~Unary, pc \in {"recv", "done"}
                 PROVE  StreamInv'
    BY <1>1, <1>4 DEF StreamInv
  <2>2. \A t \in Targets : Partial(t) => Partial(t)'
    BY <1>1, <1>2, Functions DEF Partial, RepliesOf, ProxyMoves
  <2>3. \A t \in Targets : Whole(t) => Whole(t)'
    BY <1>1, <1>2 DEF Whole, RepliesOf, ProxyMoves
  <2> QED BY <1>1, <1>2, <1>4, <2>1, <2>2, <2>3 DEF StreamInv
<1> QED BY <1>3, <1>5, <1>6, <1>7

\* What a message m owes to the wire: m is about something the client has not read, and
\* everything that is new about a target is m.
News(m) ==
    /\ Truthful(m)'
    /\ Listens => /\ Opens(m) => m.t > replies
                  /\ ~Opens(m) => \A u \in Targets : idOf'[u] = m.id =>
                        Awaited(u) /\ (m.k = "data" => m.n > Read(u))
    /\ \A u \in Targets : u > nstart /\ u <= nstart' =>
          /\ m = IF idOf'[u] = NoId THEN StartError(u) ELSE Start(u, idOf'[u])
          /\ nrep'[u] = 0 /\ (srv'[u] = "open" \/ idOf'[u] = NoId)
    /\ \A u \in Targets : u <= nstart =>
          /\ \A n \in 1..nrep'[u] : n <= nrep[u] \/ m = Data(idOf[u], n)
          /\ srv'[u] = "open" \/ srv'[u] = srv[u] \/ m = Close(idOf[u], srv'[u])

LEMMA WireGrows ==
    ASSUME TypeOK, ProxyInv, WireInv, ProxyMoves, ProxyInv', TypeOK',
           NEW m, Grows(m), ended = "no", ended' = "no", WireOrder', News(m)
    PROVE  WireInv'
<1>1. /\ Targets' = Targets /\ N' = N /\ (Listens' <=> Listens) /\ replies' = replies
      /\ \A u : (IsTracked(u)' <=> IsTracked(u)) /\ (Awaited(u)' <=> Awaited(u))
      /\ \A u : Read(u)' = Read(u)
  BY DEF ProxyMoves, connVars, setupVars, callVars, retVars, Targets, Listens, IsTracked,
     Awaited,
         Read, Unary
<1>2. /\ nstart \in Nat /\ nstart' \in Nat /\ nstart' <= N /\ nstart <= nstart'
      /\ N \in Nat /\ Targets = 1..N /\ replies \in Nat /\ Len(wire) \in Nat
      /\ \A u \in Targets : u \in Nat \ {0}
  <2>1. nstart' \in 0..nsent' /\ nsent' \in 0..N' /\ nstart' \in Nat /\ nstart <= nstart'
    BY DEF ProxyMoves, TypeOK, ProxyType, NetType, SetupType, CallType
  <2> QED BY <1>1, <2>1, Numbers, Functions
<1>3. \A i \in 1..Len(wire') : (i \in 1..Len(wire) /\ wire'[i] = wire[i]) \/ wire'[i] = m
  BY Grown
<1>4. ASSUME NEW i \in 1..Len(wire), ~Opens(wire[i])
      PROVE  \E t \in Targets :
                /\ t <= nstart /\ idOf[t] = wire[i].id /\ idOf'[t] = wire[i].id /\ wire[i].id # NoId
                /\ wire[i].k = "data" => wire[i].n \in 1..nrep'[t]
                /\ wire[i].k = "close" => srv'[t] = wire[i].st
                /\ \A u \in Targets : idOf'[u] = wire[i].id => u = t
  <2>1. PICK t \in Targets : /\ idOf[t] = wire[i].id /\ wire[i].id # NoId
                             /\ wire[i].k = "data" => wire[i].n \in 1..nrep[t]
                             /\ wire[i].k = "close" => srv[t] = wire[i].st
    BY <1>4 DEF WireInv, WireTruthful, Truthful
  <2>2. t <= nstart /\ nrep[t] \in Nat
    BY <1>2, <2>1, Functions DEF ProxyInv
  <2>3. wire[i].k = "close" => srv[t] \in {"ok", "failed"}
    BY <1>4, <2>1, Grown, MsgKinds
  <2>4. idOf'[t] = wire[i].id /\ (wire[i].k = "close" => srv'[t] = wire[i].st)
    BY <2>1, <2>2, <2>3 DEF ProxyMoves
  <2>5. wire[i].k = "data" => wire[i].n \in 1..nrep'[t]
    BY <2>1, <2>2 DEF ProxyMoves
  <2>6. \A u \in Targets : idOf'[u] = wire[i].id => u = t
    BY <1>1, <2>1, <2>4 DEF ProxyInv
  <2> QED BY <2>1, <2>2, <2>4, <2>5, <2>6
<1>5. ASSUME NEW i \in 1..Len(wire), NEW x, x = wire[i] PROVE Truthful(x)'
  <2>1. CASE Opens(x)
    <3>1. x.t \in 1..nstart /\ x.t \in Targets
      BY <1>2, <1>5, <2>1 DEF WireInv, WireTruthful, Truthful
    <3>2. idOf'[x.t] = idOf[x.t] /\ x.t \in 1..nstart'
      BY <1>2, <3>1 DEF ProxyMoves
    <3>3. x.k = "start" => idOf[x.t] = x.id /\ x.id # NoId
      BY <1>5 DEF WireInv, WireTruthful, Truthful
    <3>4. x.k = "error" => idOf[x.t] = NoId /\ srv'[x.t] = "failed"
      BY <1>5, <3>1 DEF WireInv, WireTruthful, Truthful, ProxyMoves
    <3> QED BY <2>1, <3>2, <3>3, <3>4 DEF Truthful
  <2>2. CASE ~Opens(x)
    <3>1. PICK t \in Targets : /\ idOf'[t] = x.id /\ x.id # NoId
                               /\ x.k = "data" => x.n \in 1..nrep'[t]
                               /\ x.k = "close" => srv'[t] = x.st
      BY <1>4, <1>5, <2>2
    <3> QED BY <1>1, <2>2, <3>1 DEF Truthful, Opens
  <2> QED BY <2>1, <2>2
<1>6. WireTruthful'
  <2>1. SUFFICES ASSUME NEW i \in 1..Len(wire'), NEW x, x = wire'[i] PROVE Truthful(x)'
    BY DEF WireTruthful, Truthful
  <2> QED BY <1>3, <1>5, <2>1 DEF News
<1>7. WireAhead'
  <2>1. SUFFICES ASSUME Listens, NEW i \in 1..Len(wire')
                 PROVE  /\ Opens(wire'[i]) => wire'[i].t > replies
                        /\ ~Opens(wire'[i]) => \A u \in Targets : idOf'[u] = wire'[i].id =>
                              Awaited(u) /\ (wire'[i].k = "data" => wire'[i].n > Read(u))
    BY <1>1 DEF WireAhead, Opens
  <2>2. CASE i \in 1..Len(wire) /\ wire'[i] = wire[i]
    BY <1>4, <2>1, <2>2 DEF WireInv, WireAhead
  <2>3. CASE wire'[i] = m
    BY <2>1, <2>3 DEF News
  <2> QED BY <1>3, <2>1, <2>2, <2>3
<1>8. ASSUME Listens, NEW u \in 1..nstart'
      PROVE  /\ u > replies =>
                   OnNext(IF idOf'[u] = NoId THEN StartError(u) ELSE Start(u, idOf'[u]))
             /\ Awaited(u) =>
                   /\ \A n \in 1..nrep'[u] : n > Read(u) => OnNext(Data(idOf'[u], n))
                   /\ srv'[u] # "open" /\ idOf'[u] # NoId => OnNext(Close(idOf'[u], srv'[u]))
  <2>1. u \in Targets /\ u \in Nat
    BY <1>2, <1>8
  <2>2. CASE u > nstart
    <3>1. /\ m = IF idOf'[u] = NoId THEN StartError(u) ELSE Start(u, idOf'[u])
          /\ nrep'[u] = 0 /\ (srv'[u] = "open" \/ idOf'[u] = NoId)
      BY <1>2, <1>8, <2>1, <2>2 DEF News
    <3>2. OnNext(m)
      BY Grown
    <3>3. 1..nrep'[u] = {}
      BY <3>1
    <3> QED BY <3>1, <3>2, <3>3
  <2>3. CASE u <= nstart
    <3>1. u \in 1..nstart /\ idOf'[u] = idOf[u]
      BY <1>2, <2>1, <2>3 DEF ProxyMoves
    <3>2. u > replies => OnNext(IF idOf'[u] = NoId THEN StartError(u) ELSE Start(u, idOf'[u]))
      BY <1>8, <3>1, Grown DEF WireInv, WireComplete
    <3>3. ASSUME Awaited(u), NEW n \in 1..nrep'[u], n > Read(u) PROVE OnNext(Data(idOf'[u], n))
      <4>1. CASE n <= nrep[u]
        <5>1. n \in 1..nrep[u]
          BY <2>1, <3>3, <4>1, Functions
        <5>2. OnWire(Data(idOf[u], n))
          BY <1>8, <3>1, <3>3, <5>1 DEF WireInv, WireComplete
        <5> QED BY <3>1, <5>2, Grown
      <4>2. CASE m = Data(idOf[u], n)
        BY <3>1, <4>2, Grown
      <4> QED BY <2>1, <2>3, <3>3, <4>1, <4>2 DEF News
    <3>4. ASSUME Awaited(u), srv'[u] # "open", idOf'[u] # NoId
          PROVE  OnNext(Close(idOf'[u], srv'[u]))
      <4>1. CASE srv'[u] = srv[u]
        <5>1. OnWire(Close(idOf[u], srv[u]))
          BY <1>8, <3>1, <3>4, <4>1 DEF WireInv, WireComplete
        <5> QED BY <3>1, <4>1, <5>1, Grown
      <4>2. CASE m = Close(idOf[u], srv'[u])
        BY <3>1, <4>2, Grown
      <4> QED BY <2>1, <2>3, <3>4, <4>1, <4>2 DEF News
    <3> QED BY <3>2, <3>3, <3>4
  <2> QED BY <1>2, <2>1, <2>2, <2>3
<1>9. WireComplete'
  <2>1. \A x : OnWire(x)' <=> OnNext(x)
    BY DEF OnWire, OnNext
  <2> QED BY <1>1, <1>8 DEF WireComplete, OnWire, OnNext
<1> QED BY <1>6, <1>7, <1>9 DEF WireInv

LEMMA AnnouncesStep ==
    ASSUME IInv, NEW id \in Ids, ProxyAnnounces(id)
    PROVE  IInv'
<1>1. TypeOK /\ ProxyInv /\ WireInv /\ AccountInv /\ PhaseInv
  BY DEF IInv, WireInv
<1>2. PICK t \in Nat : t = nstart + 1
  BY <1>1, Numbers
<1>3. PICK m : m = Start(t, id)
  OBVIOUS
<1>4. /\ ended = "no" /\ ended' = "no" /\ t <= nsent /\ \A u \in Targets : idOf[u] # id
      /\ nstart' = t /\ idOf' = [idOf EXCEPT ![t] = id] /\ srv' = [srv EXCEPT ![t] = "open"]
      /\ wire' = Append(wire, m) /\ nrep' = nrep /\ nsent' = nsent
      /\ UNCHANGED <<connVars, nreq, half, setupVars, callVars>>
  BY <1>1, <1>2, <1>3, Numbers DEF ProxyAnnounces
<1>5. /\ t \in Targets /\ idOf[t] = NoId /\ id # NoId /\ srv[t] = "none" /\ nrep[t] = 0
      /\ t > nstart /\ t > replies
  <2>1. t \in Targets /\ t > nstart /\ t > replies /\ ~(t <= nstart)
    BY <1>1, <1>2, <1>4, Numbers DEF AccountInv
  <2> QED BY <1>1, <1>4, <2>1 DEF ProxyInv
<1>6. \A u \in Targets : /\ u # t => idOf'[u] = idOf[u] /\ srv'[u] = srv[u]
                         /\ idOf'[t] = id /\ srv'[t] = "open"
                         /\ u <= nstart => u # t /\ u <= t
                         /\ u <= t => u <= nstart \/ u = t
                         /\ u > t => u > nstart
                         /\ u > nstart <=> ~(u <= nstart)
  BY <1>1, <1>2, <1>4, <1>5, Numbers DEF TypeOK, ProxyType, NetType, SetupType, CallType
<1>7. /\ Grows(m) /\ m \in Msgs /\ Opens(m) /\ m.k = "start" /\ m.t = t /\ m.id = id
  BY <1>3, <1>4, MsgShapes DEF Grows
<1>8. TypeOK'
  <2>1. wire' \in Seq(Msgs) /\ nstart' \in 0..nsent
    BY <1>1, <1>2, <1>4, <1>7, Grown, Numbers
  <2>2. ProxyType'
    BY <1>1, <1>4, <2>1 DEF TypeOK, ProxyType, connVars, Targets, Many
  <2>3. NetType'
    BY <1>1, <1>4, <2>1 DEF TypeOK, NetType
  <2>4. SetupType' /\ CallType'
    BY <1>1, <1>4
       DEF TypeOK, SetupType, CallType, connVars, setupVars, callVars, retVars, appVars, Targets
  <2> QED BY <2>2, <2>3, <2>4 DEF TypeOK
<1>9. ProxyMoves
  <2>1. UNCHANGED <<connVars, setupVars, callVars, nsent>> /\ nstart' \in Nat /\ nstart' >= nstart
    BY <1>1, <1>2, <1>4, Numbers
  <2>2. ASSUME NEW u \in Targets
        PROVE  /\ u <= nstart => idOf'[u] = idOf[u]
               /\ srv[u] \in {"ok", "failed"} => srv'[u] = srv[u] /\ nrep'[u] = nrep[u]
               /\ nrep'[u] \in Nat /\ nrep'[u] >= nrep[u] /\ (Unary => nrep'[u] <= 1)
    <3>1. u <= nstart \/ srv[u] \in {"ok", "failed"} => u # t
      BY <1>5, <1>6
    <3>2. nrep[u] \in Nat /\ (Unary => nrep[u] <= 1)
      BY <1>1, Functions DEF ProxyInv
    <3> QED BY <1>4, <1>6, <3>1, <3>2
  <2> QED BY <2>1, <2>2 DEF ProxyMoves
<1>10. Targets' = Targets /\ (Unary' <=> Unary)
  BY <1>4 DEF connVars, Targets, Unary
<1>11. ProxyInv'
  BY <1>1, <1>4, <1>5, <1>6, <1>10 DEF ProxyInv
<1>12. WireOrder'
  <2>1. ASSUME NEW i \in 1..Len(wire) PROVE /\ Opens(wire[i]) => wire[i].t < m.t
                                            /\ ~Opens(wire[i]) => wire[i].id # m.id
    <3>1. Truthful(wire[i])
      BY <1>1, <2>1 DEF WireInv, WireTruthful
    <3>2. Opens(wire[i]) => wire[i].t < m.t
      BY <1>1, <1>2, <1>4, <1>7, <3>1, Numbers DEF Truthful
    <3>3. ~Opens(wire[i]) => wire[i].id # m.id
      BY <1>4, <1>7, <3>1 DEF Truthful
    <3> QED BY <3>2, <3>3
  <2> QED BY <1>1, <1>7, <2>1, OrderGrows DEF WireInv
<1>13. News(m)
  <2>1. Truthful(m)'
    BY <1>4, <1>5, <1>6, <1>7 DEF Truthful
  <2>2. \A u \in Targets : u > nstart /\ u <= nstart' => u = t
    BY <1>2, <1>4, <1>6
  <2>3. \A u \in Targets : u <= nstart =>
          /\ \A n \in 1..nrep'[u] : n <= nrep[u]
          /\ srv'[u] = srv[u]
    BY <1>1, <1>4, <1>5, <1>6, Functions
  <2> QED BY <1>3, <1>4, <1>5, <1>6, <1>7, <2>1, <2>2, <2>3 DEF News
<1>14. WireInv'
  BY <1>1, <1>4, <1>7, <1>8, <1>9, <1>11, <1>12, <1>13, WireGrows
<1> QED BY <1>8, <1>9, <1>11, <1>14, ClientRests DEF IInv, WireInv

LEMMA RefusesStep ==
    ASSUME IInv, ProxyRefuses
    PROVE  IInv'
<1>1. TypeOK /\ ProxyInv /\ WireInv /\ AccountInv /\ PhaseInv
  BY DEF IInv, WireInv
<1>2. PICK t \in Nat : t = nstart + 1
  BY <1>1, Numbers
<1>3. PICK m : m = StartError(t)
  OBVIOUS
<1>4. /\ ended = "no" /\ ended' = "no" /\ t <= nsent
      /\ nstart' = t /\ idOf' = idOf /\ srv' = [srv EXCEPT ![t] = "failed"]
      /\ wire' = Append(wire, m) /\ nrep' = nrep /\ nsent' = nsent
      /\ UNCHANGED <<connVars, nreq, half, setupVars, callVars>>
  BY <1>1, <1>2, <1>3, Numbers DEF ProxyRefuses
<1>5. /\ t \in Targets /\ idOf[t] = NoId /\ srv[t] = "none" /\ nrep[t] = 0
      /\ t > nstart /\ t > replies
  <2>1. t \in Targets /\ t > nstart /\ t > replies /\ ~(t <= nstart)
    BY <1>1, <1>2, <1>4, Numbers DEF AccountInv
  <2> QED BY <1>1, <2>1 DEF ProxyInv
<1>6. \A u \in Targets : /\ u # t => srv'[u] = srv[u]
                         /\ srv'[t] = "failed"
                         /\ u <= nstart => u # t /\ u <= t
                         /\ u <= t => u <= nstart \/ u = t
                         /\ u > t => u > nstart
                         /\ u > nstart <=> ~(u <= nstart)
  BY <1>1, <1>2, <1>4, <1>5, Numbers DEF TypeOK, ProxyType, NetType, SetupType, CallType
<1>7. /\ Grows(m) /\ m \in Msgs /\ Opens(m) /\ m.k = "error" /\ m.t = t
  BY <1>3, <1>4, MsgShapes DEF Grows
<1>8. TypeOK'
  <2>1. wire' \in Seq(Msgs) /\ nstart' \in 0..nsent
    BY <1>1, <1>2, <1>4, <1>7, Grown, Numbers
  <2>2. ProxyType'
    BY <1>1, <1>4, <2>1 DEF TypeOK, ProxyType, connVars, Targets, Many
  <2>3. NetType'
    BY <1>1, <1>4, <2>1 DEF TypeOK, NetType
  <2>4. SetupType' /\ CallType'
    BY <1>1, <1>4
       DEF TypeOK, SetupType, CallType, connVars, setupVars, callVars, retVars, appVars, Targets
  <2> QED BY <2>2, <2>3, <2>4 DEF TypeOK
<1>9. ProxyMoves
  <2>1. UNCHANGED <<connVars, setupVars, callVars, nsent>> /\ nstart' \in Nat /\ nstart' >= nstart
    BY <1>1, <1>2, <1>4, Numbers
  <2>2. ASSUME NEW u \in Targets
        PROVE  /\ u <= nstart => idOf'[u] = idOf[u]
               /\ srv[u] \in {"ok", "failed"} => srv'[u] = srv[u] /\ nrep'[u] = nrep[u]
               /\ nrep'[u] \in Nat /\ nrep'[u] >= nrep[u] /\ (Unary => nrep'[u] <= 1)
    <3>1. u <= nstart \/ srv[u] \in {"ok", "failed"} => u # t
      BY <1>5, <1>6
    <3>2. nrep[u] \in Nat /\ (Unary => nrep[u] <= 1)
      BY <1>1, Functions DEF ProxyInv
    <3> QED BY <1>4, <1>6, <3>1, <3>2
  <2> QED BY <2>1, <2>2 DEF ProxyMoves
<1>10. Targets' = Targets /\ (Unary' <=> Unary)
  BY <1>4 DEF connVars, Targets, Unary
<1>11. ProxyInv'
  BY <1>1, <1>4, <1>5, <1>6, <1>10 DEF ProxyInv
<1>12. WireOrder'
  <2>1. ASSUME NEW i \in 1..Len(wire) PROVE Opens(wire[i]) => wire[i].t < m.t
    <3>1. Truthful(wire[i])
      BY <1>1, <2>1 DEF WireInv, WireTruthful
    <3> QED BY <1>1, <1>2, <1>4, <1>7, <3>1, Numbers DEF Truthful
  <2> QED BY <1>1, <1>7, <2>1, OrderGrows DEF WireInv
<1>13. News(m)
  <2>1. Truthful(m)'
    <3>1. t \in 1..nstart' /\ idOf'[t] = NoId /\ srv'[t] = "failed" /\ m.k # "start"
      BY <1>1, <1>2, <1>4, <1>5, <1>6, <1>7, Numbers
    <3> QED BY <1>7, <3>1 DEF Truthful
  <2>2. \A u \in Targets : u > nstart /\ u <= nstart' => u = t
    BY <1>2, <1>4, <1>6
  <2>3. \A u \in Targets : u <= nstart =>
          /\ \A n \in 1..nrep'[u] : n <= nrep[u]
          /\ srv'[u] = srv[u]
    BY <1>1, <1>4, <1>5, <1>6, Functions
  <2> QED BY <1>3, <1>4, <1>5, <1>6, <1>7, <2>1, <2>2, <2>3 DEF News
<1>14. WireInv'
  BY <1>1, <1>4, <1>7, <1>8, <1>9, <1>11, <1>12, <1>13, WireGrows
<1> QED BY <1>8, <1>9, <1>11, <1>14, ClientRests DEF IInv, WireInv

\* A stream that is open was announced, and while the client listens it waits for it.
LEMMA OpenStream ==
    ASSUME IInv, NEW t \in Targets, srv[t] = "open"
    PROVE  /\ idOf[t] \in Ids /\ idOf[t] # NoId /\ t <= nstart
           /\ \A u \in Targets : idOf[u] = idOf[t] => u = t
           /\ \A i \in 1..Len(wire) : ~Opens(wire[i]) /\ wire[i].id = idOf[t] =>
                 wire[i].k = "data" /\ wire[i].n \in 1..nrep[t]
           /\ Listens => Awaited(t) /\ Read(t) <= nrep[t]
<1>0. TypeOK /\ ProxyInv /\ WireTruthful /\ AccountInv /\ PhaseInv /\ UnaryInv /\ StreamInv
  BY DEF IInv
<1>1. idOf[t] \in Ids /\ idOf[t] # NoId /\ t <= nstart
  BY <1>0, Functions DEF ProxyInv
<1>2. \A u \in Targets : idOf[u] = idOf[t] => u = t
  BY <1>0, <1>1 DEF ProxyInv
<1>3. ASSUME NEW i \in 1..Len(wire), ~Opens(wire[i]), wire[i].id = idOf[t]
      PROVE  wire[i].k = "data" /\ wire[i].n \in 1..nrep[t]
  <2>1. wire[i] \in Msgs
    BY <1>0, Functions
  <2>2. wire[i].k \in {"data", "close"} /\ (wire[i].k = "close" => wire[i].st \in {"ok", "failed"})
    BY <1>3, <2>1, MsgKinds DEF Opens
  <2> QED BY <1>0, <1>2, <1>3, <2>2 DEF WireTruthful, Truthful
<1>4. ~IsError(t)
  BY <1>0 DEF IsError, AccountInv
<1>5. ASSUME Listens PROVE Awaited(t) /\ Read(t) <= nrep[t]
  <2>1. pc \in {"setup", "send", "close", "canned", "recv"} /\ ~recvErr /\ chanErr = "nil"
    BY <1>0, <1>5 DEF Listens, PhaseInv
  <2>2. nrep[t] \in Nat /\ t \in Nat /\ replies \in Nat /\ seen[t] \in Seq(Answers)
    BY <1>0, Functions, Numbers
  <2>3. CASE pc \in {"setup", "send", "close", "canned"}
    <3>1. t > replies \/ IsTracked(t)
      BY <1>0, <1>4, <2>1, <2>2, <2>3 DEF AccountInv
    <3>2. obj[t].resp = 0
      BY <1>0, <1>4, <2>1, <2>3 DEF AccountInv
    <3>3. ~Unary => seen[t] = <<>>
      BY <1>0, <2>3 DEF PhaseInv
    <3> QED BY <2>2, <3>1, <3>2, <3>3 DEF Awaited, Read
  <2>4. CASE pc = "recv" /\ Unary
    BY <1>0, <2>1, <2>4 DEF Awaited, Read, UnaryInv, Served
  <2>5. CASE pc = "recv" /\ ~Unary
    BY <1>0, <1>4, <2>5 DEF Awaited, Read, StreamInv, Partial, Whole
  <2> QED BY <2>1, <2>3, <2>4, <2>5
<1> QED BY <1>1, <1>2, <1>3, <1>5

LEMMA RepliesStep ==
    ASSUME IInv, NEW t \in Targets, ProxyReplies(t)
    PROVE  IInv'
<1>1. TypeOK /\ ProxyInv /\ WireInv /\ AccountInv /\ PhaseInv
  BY DEF IInv, WireInv
<1>2. PICK n \in Nat : n = nrep[t] + 1
  BY <1>1, Functions
<1>3. PICK m : m = Data(idOf[t], n)
  OBVIOUS
<1>4. /\ ended = "no" /\ ended' = "no" /\ srv[t] = "open" /\ (Unary => n <= 1)
      /\ nstart' = nstart /\ idOf' = idOf /\ srv' = srv /\ nrep' = [nrep EXCEPT ![t] = n]
      /\ wire' = Append(wire, m) /\ nsent' = nsent
      /\ UNCHANGED <<connVars, nreq, half, setupVars, callVars>>
  <2>1. /\ ended = "no" /\ ended' = "no" /\ srv[t] = "open"
        /\ nrep[t] < (IF Unary THEN 1 ELSE MaxReplies)
        /\ nstart' = nstart /\ idOf' = idOf /\ srv' = srv /\ nrep' = [nrep EXCEPT ![t] = nrep[t] + 1]
        /\ wire' = Append(wire, Data(idOf[t], nrep[t] + 1)) /\ nsent' = nsent
        /\ UNCHANGED <<connVars, nreq, half, setupVars, callVars>>
    BY DEF ProxyReplies
  <2> QED BY <1>1, <1>2, <1>3, <2>1, Functions
<1>5. /\ idOf[t] \in Ids /\ idOf[t] # NoId /\ t <= nstart
      /\ \A u \in Targets : idOf[u] = idOf[t] => u = t
      /\ \A i \in 1..Len(wire) : ~Opens(wire[i]) /\ wire[i].id = idOf[t] =>
            wire[i].k = "data" /\ wire[i].n \in 1..nrep[t]
      /\ Listens => Awaited(t) /\ Read(t) <= nrep[t]
  BY <1>4, OpenStream
<1>6. nrep'[t] = n /\ nrep[t] \in Nat /\ \A u \in Targets : u # t => nrep'[u] = nrep[u]
  BY <1>1, <1>4, Functions DEF TypeOK, ProxyType
<1>7. /\ Grows(m) /\ m \in Msgs /\ ~Opens(m) /\ m.k = "data" /\ m.id = idOf[t] /\ m.n = n
  BY <1>3, <1>4, <1>5, MsgShapes DEF Grows
<1>8. TypeOK'
  <2>1. wire' \in Seq(Msgs)
    BY <1>1, <1>4, <1>7, Grown
  <2>2. ProxyType'
    BY <1>1, <1>4 DEF TypeOK, ProxyType, connVars, Targets, Many
  <2>3. NetType'
    BY <1>1, <1>4, <2>1 DEF TypeOK, NetType
  <2>4. SetupType' /\ CallType'
    BY <1>1, <1>4
       DEF TypeOK, SetupType, CallType, connVars, setupVars, callVars, retVars, appVars, Targets
  <2> QED BY <2>2, <2>3, <2>4 DEF TypeOK
<1>9. ProxyMoves
  <2>1. nstart' \in Nat /\ nstart' >= nstart
    BY <1>1, <1>4, Numbers
  <2>2. ASSUME NEW u \in Targets
        PROVE  /\ srv[u] \in {"ok", "failed"} => srv'[u] = srv[u] /\ nrep'[u] = nrep[u]
               /\ nrep'[u] \in Nat /\ nrep'[u] >= nrep[u] /\ (Unary => nrep'[u] <= 1)
    <3>1. nrep[u] \in Nat
      BY <1>1, Functions
    <3> QED BY <1>1, <1>2, <1>4, <1>6, <3>1 DEF ProxyInv
  <2> QED BY <1>4, <2>1, <2>2 DEF ProxyMoves
<1>10. Targets' = Targets /\ (Unary' <=> Unary)
  BY <1>4 DEF connVars, Targets, Unary
<1>11. ProxyInv'
  BY <1>1, <1>2, <1>4, <1>5, <1>6, <1>10 DEF ProxyInv
<1>12. WireOrder'
  <2>1. ASSUME NEW i \in 1..Len(wire), ~Opens(wire[i]), wire[i].id = m.id
        PROVE  wire[i].k # "close" /\ wire[i].n < m.n
    BY <1>2, <1>5, <1>6, <1>7, <2>1
  <2> QED BY <1>1, <1>7, <2>1, OrderGrows DEF WireInv, Opens
<1>13. News(m)
  <2>1. Truthful(m)'
    <3>1. m.n \in 1..nrep'[t] /\ idOf'[t] = m.id /\ m.id # NoId
      BY <1>2, <1>4, <1>5, <1>6, <1>7
    <3> QED BY <1>7, <1>10, <3>1 DEF Truthful, Opens
  <2>2. \A u \in Targets : ~(u > nstart /\ u <= nstart')
    BY <1>1, <1>4, Numbers
  <2>3. ASSUME NEW u \in Targets, NEW k \in 1..nrep'[u]
        PROVE  k <= nrep[u] \/ m = Data(idOf[u], k)
    BY <1>2, <1>3, <1>6, <2>3
  <2>4. Listens => \A u \in Targets : idOf'[u] = m.id => Awaited(u) /\ m.n > Read(u)
    BY <1>1, <1>2, <1>4, <1>5, <1>6, <1>7, ReadNat
  <2> QED BY <1>4, <1>7, <2>1, <2>2, <2>3, <2>4 DEF News
<1>14. WireInv'
  BY <1>1, <1>4, <1>7, <1>8, <1>9, <1>11, <1>12, <1>13, WireGrows
<1> QED BY <1>8, <1>9, <1>11, <1>14, ClientRests DEF IInv, WireInv

LEMMA ClosesStep ==
    ASSUME IInv, NEW t \in Targets, ProxyCloses(t)
    PROVE  IInv'
<1>1. TypeOK /\ ProxyInv /\ WireInv /\ AccountInv /\ PhaseInv
  BY DEF IInv, WireInv
<1>2. PICK st \in {"ok", "failed"} :
          /\ IF Unary THEN nrep[t] = (IF st = "ok" THEN 1 ELSE 0)
                      ELSE st = "ok" => nreq > 0 \/ half
          /\ srv' = [srv EXCEPT ![t] = st] /\ wire' = Append(wire, Close(idOf[t], st))
  BY DEF ProxyCloses
<1>3. PICK m : m = Close(idOf[t], st)
  OBVIOUS
<1>4. /\ ended = "no" /\ ended' = "no" /\ srv[t] = "open"
      /\ nstart' = nstart /\ idOf' = idOf /\ nrep' = nrep
      /\ wire' = Append(wire, m) /\ nsent' = nsent
      /\ UNCHANGED <<connVars, nreq, half, setupVars, callVars>>
  BY <1>2, <1>3 DEF ProxyCloses
<1>5. /\ idOf[t] \in Ids /\ idOf[t] # NoId /\ t <= nstart
      /\ \A u \in Targets : idOf[u] = idOf[t] => u = t
      /\ \A i \in 1..Len(wire) : ~Opens(wire[i]) /\ wire[i].id = idOf[t] =>
            wire[i].k = "data" /\ wire[i].n \in 1..nrep[t]
      /\ Listens => Awaited(t) /\ Read(t) <= nrep[t]
  BY <1>4, OpenStream
<1>6. srv'[t] = st /\ \A u \in Targets : u # t => srv'[u] = srv[u]
  BY <1>1, <1>2 DEF TypeOK, ProxyType
<1>7. /\ Grows(m) /\ m \in Msgs /\ ~Opens(m) /\ m.k = "close" /\ m.id = idOf[t] /\ m.st = st
  BY <1>2, <1>3, <1>4, <1>5, MsgShapes DEF Grows
<1>8. TypeOK'
  <2>1. wire' \in Seq(Msgs)
    BY <1>1, <1>4, <1>7, Grown
  <2>2. ProxyType'
    BY <1>1, <1>2, <1>4 DEF TypeOK, ProxyType, connVars, Targets, Many
  <2>3. NetType'
    BY <1>1, <1>4, <2>1 DEF TypeOK, NetType
  <2>4. SetupType' /\ CallType'
    BY <1>1, <1>4
       DEF TypeOK, SetupType, CallType, connVars, setupVars, callVars, retVars, appVars, Targets
  <2> QED BY <2>2, <2>3, <2>4 DEF TypeOK
<1>9. ProxyMoves
  <2>1. nstart' \in Nat /\ nstart' >= nstart
    BY <1>1, <1>4, Numbers
  <2>2. ASSUME NEW u \in Targets
        PROVE  /\ srv[u] \in {"ok", "failed"} => srv'[u] = srv[u] /\ nrep'[u] = nrep[u]
               /\ nrep'[u] \in Nat /\ nrep'[u] >= nrep[u] /\ (Unary => nrep'[u] <= 1)
    <3>1. nrep[u] \in Nat
      BY <1>1, Functions
    <3> QED BY <1>1, <1>4, <1>6, <3>1 DEF ProxyInv
  <2> QED BY <1>4, <2>1, <2>2 DEF ProxyMoves
<1>10. Targets' = Targets /\ (Unary' <=> Unary)
  BY <1>4 DEF connVars, Targets, Unary
<1>11. ProxyInv'
  BY <1>1, <1>2, <1>4, <1>5, <1>6, <1>10 DEF ProxyInv
<1>12. WireOrder'
  <2>1. ASSUME NEW i \in 1..Len(wire), wire[i].k = "close" PROVE wire[i].id # m.id
    BY <1>5, <1>7, <2>1 DEF Opens
  <2> QED BY <1>1, <1>7, <2>1, OrderGrows DEF WireInv, Opens
<1>13. News(m)
  <2>1. Truthful(m)'
    BY <1>4, <1>5, <1>6, <1>7, <1>10 DEF Truthful, Opens
  <2>2. \A u \in Targets : ~(u > nstart /\ u <= nstart')
    BY <1>1, <1>4, Numbers
  <2>3. ASSUME NEW u \in Targets
        PROVE  /\ \A k \in 1..nrep'[u] : k <= nrep[u]
               /\ srv'[u] = srv[u] \/ m = Close(idOf[u], srv'[u])
    BY <1>3, <1>4, <1>6
  <2>4. Listens => \A u \in Targets : idOf'[u] = m.id => Awaited(u)
    BY <1>4, <1>5, <1>7
  <2> QED BY <1>4, <1>7, <2>1, <2>2, <2>3, <2>4 DEF News
<1>14. WireInv'
  BY <1>1, <1>4, <1>7, <1>8, <1>9, <1>11, <1>12, <1>13, WireGrows
<1> QED BY <1>8, <1>9, <1>11, <1>14, ClientRests DEF IInv, WireInv

LEMMA FailsStep ==
    ASSUME IInv, ProxyFails
    PROVE  IInv'
<1>1. TypeOK /\ ProxyInv /\ WireInv
  BY DEF IInv, WireInv
<1>2. /\ ended = "no" /\ ended' = "err" /\ wire' \in {wire, <<>>}
      /\ nstart' = nstart /\ idOf' = idOf /\ srv' = srv /\ nrep' = nrep /\ nsent' = nsent
      /\ UNCHANGED <<connVars, nreq, half, setupVars, callVars>>
  BY DEF ProxyFails, proxyVars
<1>3. TypeOK'
  <2>1. wire' \in Seq(Msgs)
    <3>1. wire \in Seq(Msgs) /\ <<>> \in Seq(Msgs)
      BY <1>1, Functions
    <3> QED BY <1>2, <3>1
  <2>2. ProxyType'
    BY <1>1, <1>2 DEF TypeOK, ProxyType, connVars, Targets, Many
  <2>3. NetType'
    BY <1>1, <1>2, <2>1 DEF TypeOK, NetType
  <2>4. SetupType' /\ CallType'
    BY <1>1, <1>2
       DEF TypeOK, SetupType, CallType, connVars, setupVars, callVars, retVars, appVars, Targets
  <2> QED BY <2>2, <2>3, <2>4 DEF TypeOK
<1>4. ProxyMoves
  <2>1. nstart' \in Nat /\ nstart' >= nstart
    BY <1>1, <1>2, Numbers
  <2>2. ASSUME NEW u \in Targets
        PROVE  nrep'[u] \in Nat /\ nrep'[u] >= nrep[u] /\ (Unary => nrep'[u] <= 1)
    BY <1>1, <1>2, Functions DEF ProxyInv
  <2> QED BY <1>2, <2>1, <2>2 DEF ProxyMoves
<1>5. ProxyInv'
  BY <1>1, <1>2 DEF ProxyInv, connVars, Targets, Unary
<1>6. WireInv'
  <2>1. CASE wire' = wire /\ wire # <<>>
    <3>1. /\ N' = N /\ replies' = replies /\ (Listens' <=> Listens)
          /\ \A t \in Targets : (IsTracked(t)' <=> IsTracked(t)) /\ Read(t)' = Read(t)
      BY <1>2 DEF connVars, setupVars, callVars, retVars, Listens, IsTracked, Read, Unary
    <3> QED BY <1>1, <1>2, <2>1, <3>1, WireSame
  <2>2. CASE wire' = <<>>
    BY <1>2, <2>2 DEF WireInv, WireOrder, WireTruthful, WireAhead, WireComplete
  <2> QED BY <1>2, <2>1, <2>2
<1> QED BY <1>3, <1>4, <1>5, <1>6, ClientRests DEF IInv, WireInv

LEMMA EndsStep ==
    ASSUME IInv, ProxyEnds
    PROVE  IInv'
<1>1. TypeOK /\ ProxyInv /\ WireInv
  BY DEF IInv, WireInv
<1>2. /\ ended = "no" /\ ended' = "eof" /\ wire' = wire /\ \A t \in Targets : srv[t] # "open"
      /\ nstart' = nstart /\ idOf' = idOf /\ srv' = srv /\ nrep' = nrep /\ nsent' = nsent
      /\ UNCHANGED <<connVars, nreq, half, setupVars, callVars>>
  BY DEF ProxyEnds, proxyVars
<1>3. TypeOK'
  <2>1. ProxyType' /\ NetType'
    BY <1>1, <1>2 DEF TypeOK, ProxyType, NetType, connVars, Targets, Many
  <2>2. SetupType' /\ CallType'
    BY <1>1, <1>2
       DEF TypeOK, SetupType, CallType, connVars, setupVars, callVars, retVars, appVars, Targets
  <2> QED BY <2>1, <2>2 DEF TypeOK
<1>4. ProxyMoves
  <2>1. nstart' \in Nat /\ nstart' >= nstart
    BY <1>1, <1>2, Numbers
  <2>2. ASSUME NEW u \in Targets
        PROVE  nrep'[u] \in Nat /\ nrep'[u] >= nrep[u] /\ (Unary => nrep'[u] <= 1)
    BY <1>1, <1>2, Functions DEF ProxyInv
  <2> QED BY <1>2, <2>1, <2>2 DEF ProxyMoves
<1>5. ProxyInv'
  BY <1>1, <1>2 DEF ProxyInv, connVars, Targets, Unary
<1>6. WireInv'
  <2>1. /\ N' = N /\ replies' = replies /\ (Listens' <=> Listens)
        /\ \A t \in Targets : (IsTracked(t)' <=> IsTracked(t)) /\ Read(t)' = Read(t)
    BY <1>2 DEF connVars, setupVars, callVars, retVars, Listens, IsTracked, Read, Unary
  <2> QED BY <1>1, <1>2, <2>1, WireSame
<1> QED BY <1>3, <1>4, <1>5, <1>6, ClientRests DEF IInv, WireInv

(***************************************************************************)
(* Steps that only concern the requests.                                   *)
(***************************************************************************)
LEMMA Unaffected ==
    ASSUME IInv, TypeOK',
           UNCHANGED <<connVars, proxyVars, wire, ended, rcv, replies, recvErr, ids, errors,
                       sentErrors, obj, pc, canned, chanErr, retVars>>,
           snd' = "run" => nsent' < N
    PROVE  IInv'
<1>1. TypeOK /\ PhaseInv /\ ProxyInv /\ WireInv /\ AccountInv /\ UnaryInv /\ StreamInv
  BY DEF IInv, WireInv
<1>2. /\ N' = N /\ mode' = mode /\ nstart' = nstart /\ idOf' = idOf /\ srv' = srv /\ nrep' = nrep
      /\ wire' = wire /\ ended' = ended /\ rcv' = rcv /\ replies' = replies /\ recvErr' = recvErr
      /\ ids' = ids /\ errors' = errors /\ sentErrors' = sentErrors /\ obj' = obj /\ pc' = pc
      /\ canned' = canned /\ chanErr' = chanErr /\ pend' = pend /\ hand' = hand /\ seen' = seen
  BY DEF connVars, proxyVars, retVars
<1>3. /\ Targets' = Targets /\ (Unary' <=> Unary) /\ (Listens' <=> Listens)
      /\ \A t : (IsTracked(t)' <=> IsTracked(t)) /\ (IsError(t)' <=> IsError(t)) /\ Read(t)' = Read(t)
      /\ \A t : (Due(t)' <=> Due(t)) /\ (Heard(t)' <=> Heard(t))
      /\ \A t : (Partial(t)' <=> Partial(t)) /\ (Whole(t)' <=> Whole(t))
  BY <1>2 DEF Targets, Unary, Listens, IsTracked, IsError, Read, Due, Heard, Partial, Whole,
     RepliesOf
<1>4. PhaseInv'
  BY <1>1, <1>2, <1>3 DEF PhaseInv
<1>5. ProxyInv'
  BY <1>1, <1>2, <1>3 DEF ProxyInv
<1>6. WireInv'
  BY <1>1, <1>2, <1>3, WireSame
<1>7. AccountInv'
  BY <1>1, <1>2, <1>3 DEF AccountInv
<1>8. UnaryInv'
  BY <1>1, <1>2, <1>3 DEF UnaryInv, Served
<1>9. StreamInv'
  BY <1>1, <1>2, <1>3 DEF StreamInv
<1> QED BY <1>4, <1>5, <1>6, <1>7, <1>8, <1>9 DEF IInv, WireInv

LEMMA StutterStep ==
    ASSUME IInv, UNCHANGED vars
    PROVE  IInv'
<1>1. /\ UNCHANGED <<connVars, proxyVars, netVars, setupVars, callVars>>
      /\ N' = N /\ mode' = mode /\ nsent' = nsent /\ snd' = snd
  BY DEF vars, connVars, netVars, setupVars
<1>2. TypeOK'
  BY <1>1 DEF IInv, TypeOK, ProxyType, NetType, SetupType, CallType, proxyVars, netVars,
     setupVars,
              callVars, retVars, appVars, Targets, Many
<1> QED
  BY <1>1, <1>2, Unaffected DEF IInv, PhaseInv, netVars, setupVars, callVars

LEMMA SetupSendStep ==
    ASSUME IInv, SetupSend
    PROVE  IInv'
<1>1. /\ snd = "run" /\ nsent' \in Nat /\ nsent' >= nsent /\ nsent' <= N
      /\ snd' \in {"run", "done"} /\ sendErr' \in BOOLEAN /\ (snd' = "run" => nsent' < N)
  BY Numbers DEF IInv, PhaseInv, SetupSend, TypeOK, SetupType
<1>2. TypeOK'
  <2>1. UNCHANGED <<connVars, proxyVars, nreq, half, wire, ended, rcv, replies, recvErr, callVars>>
    BY DEF SetupSend
  <2>2. ProxyType'
    <3>1. nsent' \in 0..N' /\ nstart' \in 0..nsent'
      BY <1>1, <2>1, Numbers DEF IInv, connVars, proxyVars
    <3> QED BY <2>1, <3>1 DEF IInv, TypeOK, ProxyType, connVars, proxyVars, Targets, Many
  <2>3. NetType' /\ CallType'
    BY <2>1 DEF IInv, TypeOK, NetType, CallType, connVars, callVars, retVars, appVars, Targets
  <2>4. SetupType'
    BY <1>1, <2>1 DEF IInv, TypeOK, SetupType, connVars, callVars, Targets
  <2> QED BY <2>2, <2>3, <2>4 DEF TypeOK
<1> QED BY <1>1, <1>2, Unaffected DEF SetupSend, callVars

LEMMA SendMsgStep ==
    ASSUME IInv, SendMsg
    PROVE  IInv'
<1>1. /\ UNCHANGED <<connVars, proxyVars, nsent, wire, ended, setupVars, ids, errors, sentErrors,
                     obj, pc, canned, chanErr, retVars, crashed>>
      /\ app' \in {"send", "iter", "closed"} /\ nmsg' \in Nat /\ nreq' \in Nat /\ half' \in BOOLEAN
  <2>1. /\ nmsg \in Nat /\ nreq \in Nat /\ half \in BOOLEAN
    BY DEF IInv, TypeOK, NetType, CallType
  <2>2. CASE AppSends
    BY <2>1, <2>2 DEF AppSends, netVars
  <2>3. CASE AppSent
    BY <2>1, <2>3 DEF AppSent
  <2>4. CASE CloseSend
    BY <2>1, <2>4 DEF CloseSend
  <2> QED BY <2>2, <2>3, <2>4 DEF SendMsg
<1>2. TypeOK'
  <2>1. ProxyType' /\ NetType'
    BY <1>1 DEF IInv, TypeOK, ProxyType, NetType, connVars, proxyVars, Targets, Many
  <2>2. SetupType' /\ CallType'
    BY <1>1 DEF IInv, TypeOK, SetupType, CallType, connVars, setupVars, retVars, Targets
  <2> QED BY <2>1, <2>2 DEF TypeOK
<1> QED BY <1>1, <1>2, Unaffected DEF setupVars, connVars, IInv, PhaseInv

(***************************************************************************)
(* createStreams.                                                          *)
(***************************************************************************)
LEMMA ProxySame ==
    ASSUME ProxyInv, N' = N, mode' = mode, ProxyRests
    PROVE  ProxyInv'
BY DEF ProxyInv, ProxyRests, Targets, Unary

LEMMA AppendNat ==
    ASSUME NEW s \in Seq(Nat), NEW n \in Nat
    PROVE  /\ Append(s, n) \in Seq(Nat) /\ Len(Append(s, n)) = Len(s) + 1 /\ Len(s) \in Nat
           /\ \A i \in 1..Len(s) : Append(s, n)[i] = s[i]
           /\ Append(s, n)[Len(s) + 1] = n
OBVIOUS

LEMMA SetupRecvEndsStep ==
    ASSUME IInv, SetupRecvEnds
    PROVE  IInv'
<1>1. TypeOK /\ PhaseInv /\ ProxyInv /\ WireInv /\ AccountInv
  BY DEF IInv, WireInv
<1>2. /\ rcv = "run" /\ recvErr' = TRUE /\ rcv' = "done"
      /\ UNCHANGED <<connVars, proxyVars, netVars, snd, replies, sendErr, callVars>>
  BY DEF SetupRecvEnds
<1>3. pc = "setup" /\ pc' = "setup"
  BY <1>1, <1>2 DEF PhaseInv, callVars
<1>4. TypeOK'
  <2>1. ProxyType' /\ NetType'
    BY <1>1, <1>2 DEF TypeOK, ProxyType, NetType, connVars, proxyVars, netVars, Targets, Many
  <2>2. SetupType' /\ CallType'
    BY <1>1, <1>2
       DEF TypeOK, SetupType, CallType, connVars, callVars, retVars, appVars, Targets
  <2> QED BY <2>1, <2>2 DEF TypeOK
<1>5. PhaseInv'
  BY <1>1, <1>2 DEF PhaseInv, connVars, netVars, callVars, retVars, Targets, Unary
<1>6. ProxyInv'
  BY <1>1, <1>2 DEF ProxyInv, connVars, proxyVars, netVars, Targets, Unary
<1>7. WireInv'
  BY <1>1, <1>2, WireSame DEF connVars, proxyVars, netVars, Listens
<1>8. AccountInv'
  BY <1>1, <1>2 DEF AccountInv, IsTracked, IsError, connVars, proxyVars, callVars, Targets
<1>9. UnaryInv' /\ StreamInv'
  BY <1>3 DEF UnaryInv, StreamInv
<1> QED BY <1>4, <1>5, <1>6, <1>7, <1>8, <1>9 DEF IInv, WireInv


\* The error of target t is kept; the others are as they were.
LEMMA KeepsError ==
    ASSUME TypeOK, AccountInv, pc = "setup", ~recvErr, NEW t \in Targets, srv[t] = "failed",
           ProxyRests, obj' = [obj EXCEPT ![t].err = "fail"], errors' = Append(errors, t),
           ~IsError(t), replies' \in Nat, t <= replies', replies <= replies', replies' <= nstart,
           \A u \in Targets : IsTracked(u)' <=> IsTracked(u) /\ u # t,
           \A u \in Targets : u <= replies' => u = t \/ u <= replies,
           \A id \in Ids : ids'[id] # 0 => ids'[id] = ids[id]
    PROVE  AccountInv'
<1>1. /\ \A k \in 1..Len(errors) : errors'[k] = errors[k] /\ k \in 1..Len(errors')
      /\ errors'[Len(errors) + 1] = t /\ Len(errors') = Len(errors) + 1 /\ Len(errors) \in Nat
      /\ t \in Nat \ {0}
  BY Functions, Numbers, AppendNat
<1>2. \A k \in 1..Len(errors') : k \in 1..Len(errors) \/ (k = Len(errors) + 1 /\ errors'[k] = t)
  BY <1>1
<1>3. \A u : IsError(u)' <=> IsError(u) \/ u = t
  BY <1>1, <1>2 DEF IsError
<1>4. obj[t] = [resp |-> 0, err |-> "nil"]
  BY DEF AccountInv
<1>5. obj'[t] = [resp |-> 0, err |-> "fail"] /\ \A u \in Targets : u # t => obj'[u] = obj[u]
  BY <1>4 DEF TypeOK, SetupType
<1>6. Targets' = Targets /\ 1..replies \subseteq Targets /\ 1..replies \subseteq 1..replies'
  BY Numbers DEF Targets, ProxyRests
<1>7. replies' <= nstart' /\ \A id \in Ids : ids'[id] # 0 => ids'[id] <= replies' /\ idOf'[ids'[id]] = id
  <2> SUFFICES ASSUME NEW id \in Ids, ids'[id] # 0
               PROVE  ids'[id] <= replies' /\ idOf[ids'[id]] = id
    BY DEF ProxyRests
  <2>1. ids[id] <= replies /\ idOf[ids[id]] = id /\ ids'[id] = ids[id] /\ ids[id] \in Nat
    BY Functions, Numbers DEF AccountInv
  <2> QED BY <2>1, Numbers
<1>8. ASSUME NEW k \in 1..Len(errors')
      PROVE  /\ errors'[k] \in 1..replies' /\ ~(\E id \in Ids : ids'[id] = errors'[k])
             /\ obj'[errors'[k]] = [resp |-> 0, err |-> "fail"] /\ srv[errors'[k]] = "failed"
  <2>1. CASE k \in 1..Len(errors)
    <3>1. PICK u \in 1..replies : u = errors[k]
      BY <2>1 DEF AccountInv
    <3>2. /\ ~IsTracked(u) /\ obj[u] = [resp |-> 0, err |-> "fail"] /\ srv[u] = "failed"
          /\ u # t /\ u \in Targets /\ u \in 1..replies' /\ errors'[k] = u
      BY <1>1, <1>6, <2>1, <3>1 DEF AccountInv, IsError
    <3>3. ~IsTracked(u)'
      BY <3>2
    <3> QED BY <1>5, <3>2, <3>3 DEF IsTracked
  <2>2. CASE k = Len(errors) + 1
    <3>1. errors'[k] = t /\ t \in 1..replies' /\ ~IsTracked(t)'
      BY <1>1, <2>2
    <3> QED BY <1>5, <3>1 DEF IsTracked
  <2> QED BY <1>2, <2>1, <2>2
<1>9. \A j, k \in 1..Len(errors') : errors'[j] = errors'[k] => j = k
  <2> SUFFICES ASSUME NEW j \in 1..Len(errors'), NEW k \in 1..Len(errors'), errors'[j] = errors'[k]
               PROVE  j = k
    OBVIOUS
  <2>1. \A i \in 1..Len(errors) : errors[i] # t
    BY DEF IsError
  <2> QED BY <1>1, <1>2, <2>1 DEF AccountInv
<1>10. \A u \in Targets : /\ u <= replies' => IsTracked(u)' \/ IsError(u)'
                          /\ ~IsError(u)' => obj'[u] = [resp |-> 0, err |-> "nil"]
  BY <1>3, <1>5 DEF AccountInv
<1> QED
  <2>1. \A k \in 1..Len(errors') :
           /\ errors'[k] \in 1..replies' /\ ~(\E id \in Ids : ids'[id] = errors'[k])
           /\ obj'[errors'[k]] = [resp |-> 0, err |-> "fail"] /\ srv'[errors'[k]] = "failed"
    BY <1>8 DEF ProxyRests
  <2> QED BY <1>6, <1>7, <1>9, <1>10, <2>1 DEF AccountInv, IsTracked

LEMMA FailType ==
    ASSUME obj \in [Targets -> [resp : Nat, err : Errs]], NEW t \in Targets
    PROVE  [obj EXCEPT ![t].err = "fail"] \in [Targets -> [resp : Nat, err : Errs]]
<1>1. "fail" \in Errs
  BY DEF Errs
<1> QED BY <1>1

LEMMA SetupRecvStep ==
    ASSUME IInv, SetupRecv
    PROVE  IInv'
<1>1. TypeOK /\ PhaseInv /\ ProxyInv /\ WireInv /\ AccountInv
  BY DEF IInv, WireInv
<1>2. /\ rcv = "run" /\ Shrinks
      /\ UNCHANGED <<connVars, proxyVars, nsent, nreq, half, ended, snd, sendErr, sentErrors, pc,
                     canned, chanErr, retVars, appVars>>
      /\ SetupAnnounced(wire[1]) \/ SetupRefused(wire[1]) \/ SetupClosed(wire[1])
  <2>1. wire # <<>> => Head(wire) = wire[1]
    BY <1>1, Functions, TailMsg
  <2> QED BY <2>1 DEF SetupRecv, Shrinks
<1>3. /\ pc = "setup" /\ pc' = "setup" /\ ~recvErr /\ replies < N /\ Listens /\ wire # <<>>
      /\ pend = 0 /\ hand = 0 /\ canned = 0 /\ chanErr = "nil" /\ \A u \in Targets : seen[u] = <<>>
  BY <1>1, <1>2 DEF PhaseInv, Listens, Shrinks
<1>4. ProxyRests /\ N' = N /\ mode' = mode /\ Targets' = Targets /\ (Unary' <=> Unary)
  BY <1>2 DEF connVars, proxyVars, ProxyRests, Targets, Unary
<1>5. /\ wire[1] \in Msgs /\ wire' \in Seq(Msgs) /\ WireOrder' /\ WireTruthful' /\ Truthful(wire[1])
  <2>1. wire[1] \in Msgs /\ wire' \in Seq(Msgs) /\ 1 \in 1..Len(wire)
    BY <1>1, <1>2, Shrunk
  <2> QED BY <1>1, <1>2, <1>4, <2>1, OrderShrinks DEF WireInv, WireTruthful, ProxyRests
<1>6. UnaryInv' /\ StreamInv'
  BY <1>3 DEF UnaryInv, StreamInv
<1>7. ProxyInv'
  BY <1>1, <1>4, ProxySame
<1>8. SUFFICES /\ recvErr' \in BOOLEAN /\ rcv' = (IF recvErr' \/ replies' = N THEN "done" ELSE "run")
               /\ replies' \in 0..N /\ ids' \in [Ids -> 0..N] /\ errors' \in Seq(Nat)
               /\ obj' \in [Targets -> [resp : Nat, err : Errs]]
               /\ AccountInv' /\ (~recvErr' => WireInv')
  <2>1. ASSUME recvErr' \in BOOLEAN, rcv' = (IF recvErr' \/ replies' = N THEN "done" ELSE "run"),
               replies' \in 0..N, ids' \in [Ids -> 0..N], errors' \in Seq(Nat),
               obj' \in [Targets -> [resp : Nat, err : Errs]], AccountInv', ~recvErr' => WireInv'
        PROVE  IInv'
    <3>1. ProxyType' /\ NetType'
      BY <1>1, <1>2, <1>4, <1>5
         DEF TypeOK, ProxyType, NetType, connVars, proxyVars, Targets, Many
    <3>2. SetupType'
      BY <1>1, <1>2, <1>4, <2>1 DEF TypeOK, SetupType
    <3>3. CallType'
      BY <1>1, <1>2, <1>4 DEF TypeOK, CallType, retVars, appVars
    <3>4. PhaseInv'
      <4>1. replies' < N \/ replies' = N
        BY <1>1, <2>1, Numbers
      <4>2. 0 <= Len(errors')
        BY <2>1
      <4> QED BY <1>1, <1>2, <1>3, <1>4, <2>1, <4>1, <4>2 DEF PhaseInv, retVars
    <3>5. WireInv'
      <4>1. recvErr' => WireAhead' /\ WireComplete'
        BY DEF WireAhead, WireComplete, Listens
      <4> QED BY <1>5, <2>1, <4>1 DEF WireInv
    <3> QED BY <1>6, <1>7, <2>1, <3>1, <3>2, <3>3, <3>4, <3>5 DEF IInv, TypeOK, WireInv
  <2> QED BY <2>1
<1>9. CASE SetupAnnounced(wire[1])
  <2>1. wire[1].k = "start" /\ replies' = replies + 1 /\ errors' = errors /\ obj' = obj
    BY <1>9 DEF SetupAnnounced
  <2>2. /\ wire[1].t = replies + 1 /\ wire[1].t \in 1..nstart /\ wire[1].t \in Targets
        /\ idOf[wire[1].t] = wire[1].id /\ wire[1].id \in Ids
    BY <1>1, <1>3, <1>5, <2>1, HeadOpens, MsgKinds DEF Opens, Truthful
  <2>3. replies' \in 0..N /\ replies' <= nstart /\ replies' \in Nat /\ replies <= replies'
    BY <1>1, <1>3, <2>1, <2>2, Numbers
  <2>4. /\ errors \in Seq(Nat) /\ obj \in [Targets -> [resp : Nat, err : Errs]]
        /\ ids \in [Ids -> 0..N]
    BY <1>1 DEF TypeOK, SetupType
  <2>5. CASE ids[wire[1].id] # 0
    <3>1. recvErr' = TRUE /\ rcv' = "done" /\ ids' = ids
      BY <1>9, <2>5 DEF SetupAnnounced, SetupRecvDone
    <3>2. AccountInv'
      <4>1. replies' <= nstart'
        BY <1>4, <2>3 DEF ProxyRests
      <4>2. \A id \in Ids : ids'[id] # 0 => ids'[id] <= replies' /\ idOf'[ids'[id]] = id
        BY <1>1, <1>4, <2>3, <3>1, Functions, Numbers DEF AccountInv, ProxyRests
      <4>3. \A n \in 1..replies : n \in 1..replies'
        BY <1>1, <2>3, Numbers
      <4> QED BY <1>1, <1>4, <2>1, <3>1, <4>1, <4>2, <4>3 DEF AccountInv, ProxyRests, IsTracked
    <3> QED BY <2>1, <2>3, <2>4, <3>1, <3>2
  <2>6. CASE ids[wire[1].id] = 0
    <3>1. PICK t \in Targets : t = wire[1].t
      BY <2>2
    <3>2. PICK x \in Ids : x = wire[1].id
      BY <2>2
    <3>3. /\ recvErr' = FALSE /\ rcv' = (IF replies' = N THEN "done" ELSE "run")
          /\ ids' = [ids EXCEPT ![x] = t] /\ ids[x] = 0
      BY <1>9, <2>6, <3>1, <3>2 DEF SetupAnnounced, SetupRecvDone
    <3>4. t \in 0..N /\ t \in Nat \ {0} /\ t = replies + 1 /\ idOf[t] = x
      BY <1>1, <2>2, <3>1, <3>2, Numbers
    <3>5. ids' \in [Ids -> 0..N] /\ ids'[x] = t /\ \A id \in Ids : id # x => ids'[id] = ids[id]
      BY <2>4, <3>3, <3>4
    <3>6. \A u \in Targets : IsTracked(u)' <=> IsTracked(u) \/ u = t
      BY <1>1, <3>3, <3>5, Numbers DEF IsTracked
    <3>7. WireInv'
      <4>1. \A u \in Targets : Read(u)' = Read(u)
        BY <1>2, <1>4, <2>1 DEF Read, retVars
      <4> QED BY <1>1, <1>2, <1>3, <1>4, <2>1, <3>1, <3>6, <4>1, ReadsOpening DEF Opens
    <3>8. AccountInv'
      <4>1. \A id \in Ids : ids'[id] # 0 => ids'[id] <= replies' /\ idOf'[ids'[id]] = id
        <5> SUFFICES ASSUME NEW id \in Ids, ids'[id] # 0
                     PROVE  ids'[id] <= replies' /\ idOf[ids'[id]] = id
          BY <1>4 DEF ProxyRests
        <5>1. CASE id = x
          BY <1>1, <2>1, <3>4, <3>5, <5>1, Numbers
        <5>2. CASE id # x
          <6>1. ids'[id] = ids[id] /\ ids[id] \in Nat /\ ids[id] <= replies /\ idOf[ids[id]] = id
            BY <1>1, <3>5, <5>2, Functions, Numbers DEF AccountInv
          <6> QED BY <1>1, <2>3, <6>1, Numbers
        <5> QED BY <5>1, <5>2
      <4>2. ASSUME NEW k \in 1..Len(errors) PROVE errors[k] \in 1..replies' /\ ~IsTracked(errors[k])'
        <5>1. PICK u \in Targets : u = errors[k]
          BY <1>1, Numbers DEF AccountInv
        <5>2. ~IsTracked(u) /\ u # t /\ u \in 1..replies'
          BY <1>1, <2>3, <3>4, <5>1, Numbers DEF AccountInv
        <5>3. ~IsTracked(u)'
          BY <3>6, <5>2
        <5> QED BY <2>1, <5>1, <5>2, <5>3 DEF IsTracked
      <4>3. \A u \in Targets : u <= replies' => IsTracked(u)' \/ IsError(u)
        BY <1>1, <1>3, <2>1, <3>4, <3>6, Numbers DEF AccountInv
      <4>4. replies' <= nstart'
        BY <1>4, <2>3 DEF ProxyRests
      <4>5. \A u : IsError(u)' <=> IsError(u)
        BY <2>1 DEF IsError
      <4> QED BY <1>1, <1>3, <1>4, <2>1, <4>1, <4>2, <4>3, <4>4, <4>5
              DEF AccountInv, ProxyRests, IsTracked
    <3> QED BY <2>1, <2>3, <2>4, <3>3, <3>5, <3>7, <3>8
  <2> QED BY <2>5, <2>6
<1>10. CASE SetupRefused(wire[1])
  <2>1. PICK t \in Targets : t = wire[1].t
    BY <1>1, <1>3, <1>5, <1>10, HeadOpens DEF SetupRefused, Opens
  <2>2. /\ wire[1].k = "error" /\ replies' = replies + 1 /\ ids' = ids
        /\ obj' = [obj EXCEPT ![t].err = "fail"] /\ errors' = Append(errors, t)
        /\ recvErr' = FALSE /\ rcv' = (IF replies' = N THEN "done" ELSE "run")
    BY <1>10, <2>1 DEF SetupRefused, SetupRecvDone
  <2>3. t = replies + 1 /\ t \in 1..nstart /\ srv[t] = "failed" /\ t \in Nat
    BY <1>1, <1>3, <1>5, <2>1, <2>2, HeadOpens, Numbers DEF Opens, Truthful
  <2>4. replies' \in 0..N /\ replies' <= nstart /\ replies' \in Nat /\ replies <= replies' /\ t <= replies'
    BY <1>1, <1>3, <2>2, <2>3, Numbers
  <2>5. ids' \in [Ids -> 0..N] /\ obj' \in [Targets -> [resp : Nat, err : Errs]] /\ errors' \in Seq(Nat)
    <3>1. /\ errors \in Seq(Nat) /\ obj \in [Targets -> [resp : Nat, err : Errs]]
          /\ ids \in [Ids -> 0..N]
      BY <1>1 DEF TypeOK, SetupType
    <3> QED BY <2>2, <2>3, <3>1, AppendNat, FailType
  <2>6. ~IsError(t) /\ ~IsTracked(t)
    BY <1>1, <2>3, Numbers DEF AccountInv, IsError, IsTracked
  <2>7. \A u \in Targets : IsTracked(u)' <=> IsTracked(u) /\ u # t
    BY <2>2, <2>6 DEF IsTracked
  <2>8. \A u \in Targets : u <= replies' => u = t \/ u <= replies
    BY <1>1, <2>2, <2>3, Numbers
  <2>9. AccountInv'
    BY <1>1, <1>3, <1>4, <2>2, <2>3, <2>4, <2>6, <2>7, <2>8, KeepsError
  <2>10. WireInv'
    <3>1. \A u \in Targets : Read(u)' = Read(u)
      BY <1>1, <1>2, <1>4, <2>2 DEF Read, retVars, TypeOK, SetupType
    <3>2. \A u \in Targets : IsTracked(u)' <=> IsTracked(u) \/ (wire[1].k = "start" /\ u = wire[1].t)
      BY <2>2 DEF IsTracked
    <3> QED BY <1>1, <1>2, <1>3, <1>4, <2>2, <3>1, <3>2, ReadsOpening DEF Opens
  <2> QED BY <2>2, <2>4, <2>5, <2>9, <2>10
<1>11. CASE SetupClosed(wire[1])
  <2>1. ~Opens(wire[1]) /\ replies' = replies
    BY <1>11 DEF SetupClosed, Opens
  <2>2. PICK t \in Targets :
              /\ idOf[t] = wire[1].id /\ wire[1].id # NoId /\ wire[1].id \in Ids
              /\ IsTracked(t) /\ ids[wire[1].id] = t /\ t \in 1..nstart /\ t <= replies
              /\ wire[1].k = "close" => srv[t] = wire[1].st
    BY <1>1, <1>3, <2>1, HeadTarget
  <2>3. /\ errors \in Seq(Nat) /\ obj \in [Targets -> [resp : Nat, err : Errs]]
        /\ ids \in [Ids -> 0..N] /\ replies \in 0..N /\ t \in Nat \ {0} /\ 0 \in 0..N
    BY <1>1, Numbers DEF TypeOK, SetupType
  <2>4. CASE wire[1].k # "close" \/ wire[1].st = "ok"
    <3>1. recvErr' = TRUE /\ rcv' = "done" /\ ids' = ids /\ errors' = errors /\ obj' = obj
      BY <1>11, <2>4 DEF SetupClosed, SetupRecvDone
    <3>2. AccountInv'
      BY <1>1, <1>4, <2>1, <3>1 DEF AccountInv, ProxyRests, IsTracked
    <3> QED BY <2>1, <2>3, <3>1, <3>2
  <2>5. CASE wire[1].k = "close" /\ wire[1].st # "ok"
    <3>1. PICK x \in Ids : x = wire[1].id
      BY <2>2
    <3>2. /\ obj' = [obj EXCEPT ![t].err = "fail"] /\ errors' = Append(errors, t)
          /\ ids' = [ids EXCEPT ![x] = 0]
          /\ recvErr' = FALSE /\ rcv' = (IF replies' = N THEN "done" ELSE "run")
      BY <1>11, <2>2, <2>3, <2>5, <3>1 DEF SetupClosed, SetupRecvDone
    <3>3. srv[t] = "failed" /\ ids[x] = t /\ idOf[t] = x
      BY <1>5, <2>2, <2>5, <3>1, MsgKinds
    <3>4. ids' \in [Ids -> 0..N] /\ obj' \in [Targets -> [resp : Nat, err : Errs]] /\ errors' \in Seq(Nat)
      <4>1. ids' \in [Ids -> 0..N]
        BY <2>3, <3>2
      <4> QED BY <2>3, <3>2, <4>1, AppendNat, FailType
    <3>5. ids'[x] = 0 /\ \A id \in Ids : id # x => ids'[id] = ids[id]
      BY <2>3, <3>2
    <3>6. \A u \in Targets : IsTracked(u)' <=> IsTracked(u) /\ u # t
      <4>1. \A id \in Ids : ids[id] = t => id = x
        BY <1>1, <2>3, <3>3 DEF AccountInv
      <4> QED BY <1>1, <3>3, <3>5, <4>1, Numbers DEF IsTracked
    <3>7. ~IsError(t)
      BY <1>1, <2>2 DEF AccountInv, IsError
    <3>8. replies' \in Nat /\ t <= replies' /\ replies <= replies' /\ replies' <= nstart
      BY <1>1, <2>1, <2>2, Numbers DEF AccountInv
    <3>9. AccountInv'
      BY <1>1, <1>3, <1>4, <2>1, <3>2, <3>3, <3>5, <3>6, <3>7, <3>8, KeepsError
    <3>10. WireInv'
      <4>1. \A u \in Targets : Read(u)' = Read(u)
        BY <1>2, <1>4, <2>3, <3>2 DEF Read, retVars
      <4>2. \A u \in Targets : idOf[u] = wire[1].id <=> u = t
        BY <1>1, <2>2 DEF ProxyInv
      <4> QED BY <1>1, <1>2, <1>3, <1>4, <2>1, <2>5, <3>6, <4>1, <4>2, ReadsClose
    <3> QED BY <2>1, <2>3, <3>2, <3>4, <3>9, <3>10
  <2> QED BY <2>4, <2>5
<1> QED BY <1>2, <1>9, <1>10, <1>11

(***************************************************************************)
(* The steps of a call that is set up.                                     *)
(***************************************************************************)
CallStep == UNCHANGED <<connVars, proxyVars, nsent, ended, setupVars, errors>>

LEMMA CallFrame ==
    ASSUME IInv, CallStep
    PROVE  /\ N' = N /\ mode' = mode /\ Targets' = Targets /\ (Unary' <=> Unary) /\ ProxyRests
           /\ nsent' = nsent /\ snd' = snd /\ sendErr' = sendErr
           /\ rcv' = rcv /\ replies' = replies /\ recvErr' = recvErr /\ errors' = errors
           /\ \A t : IsError(t)' <=> IsError(t)
           /\ ProxyInv' /\ ProxyType'
<1>1. /\ N' = N /\ mode' = mode /\ Targets' = Targets /\ (Unary' <=> Unary) /\ ProxyRests
      /\ nsent' = nsent /\ snd' = snd /\ sendErr' = sendErr
      /\ rcv' = rcv /\ replies' = replies /\ recvErr' = recvErr /\ errors' = errors
  BY DEF CallStep, connVars, proxyVars, setupVars, Targets, Unary, ProxyRests
<1>2. \A t : IsError(t)' <=> IsError(t)
  BY <1>1 DEF IsError
<1>3. ProxyInv'
  BY <1>1, ProxySame DEF IInv
<1>4. ProxyType'
  BY <1>1 DEF IInv, TypeOK, ProxyType, ProxyRests, Many
<1> QED BY <1>1, <1>2, <1>3, <1>4

Before == {"setup", "send", "close", "canned"}

LEMMA AccountKept ==
    ASSUME IInv, CallStep, \A id \in Ids : ids'[id] \in {0, ids[id]},
           \A t \in Targets : IsError(t) => obj'[t] = obj[t],
           pc' \in Before => pc \in Before /\ ids' = ids /\ obj' = obj
    PROVE  AccountInv'
<1>1. TypeOK /\ AccountInv
  BY DEF IInv
<1>2. ASSUME NEW k \in 1..Len(errors)
      PROVE  /\ errors[k] \in 1..replies /\ ~(\E id \in Ids : ids'[id] = errors[k])
             /\ obj'[errors[k]] = [resp |-> 0, err |-> "fail"] /\ srv[errors[k]] = "failed"
  <2>1. PICK t \in 1..replies : t = errors[k]
    BY <1>1 DEF AccountInv
  <2>2. t \in Targets /\ t # 0 /\ IsError(t)
    BY <1>1, <2>1, Numbers DEF IsError
  <2>3. ~IsTracked(t) /\ obj[t] = [resp |-> 0, err |-> "fail"] /\ srv[t] = "failed"
    BY <1>1, <2>1 DEF AccountInv
  <2>4. ~(\E id \in Ids : ids'[id] = t)
    BY <2>2, <2>3 DEF IsTracked
  <2> QED BY <2>1, <2>2, <2>3, <2>4
<1>3. \A id \in Ids : ids'[id] # 0 => ids'[id] <= replies /\ idOf[ids'[id]] = id
  BY <1>1 DEF AccountInv
<1>4. \A u : ids' = ids => (IsTracked(u)' <=> IsTracked(u))
  BY DEF IsTracked
<1>5. pc' \in Before /\ ~recvErr =>
          \A t \in Targets : /\ t <= replies => IsTracked(t)' \/ IsError(t)
                             /\ ~IsError(t) => obj'[t] = [resp |-> 0, err |-> "nil"]
  BY <1>1, <1>4 DEF AccountInv, Before
<1> QED
  <2>1. replies <= nstart /\ \A j, k \in 1..Len(errors) : errors[j] = errors[k] => j = k
    BY <1>1 DEF AccountInv
  <2> QED BY <1>2, <1>3, <1>5, <2>1, CallFrame DEF AccountInv, IsTracked, ProxyRests, Before

LEMMA AllAccounted ==
    ASSUME IInv, pc \in {"send", "close", "canned"}, NEW t \in Targets
    PROVE  /\ IsTracked(t) <=> ~IsError(t)
           /\ IsTracked(t) => obj[t] = [resp |-> 0, err |-> "nil"]
           /\ IsError(t) => obj[t] = [resp |-> 0, err |-> "fail"] /\ srv[t] = "failed"
<1>1. TypeOK /\ AccountInv /\ PhaseInv
  BY DEF IInv
<1>2. replies = N /\ ~recvErr /\ t <= replies
  BY <1>1, Numbers DEF PhaseInv
<1>3. IsTracked(t) \/ IsError(t)
  BY <1>1, <1>2 DEF AccountInv
<1>4. IsError(t) => /\ obj[t] = [resp |-> 0, err |-> "fail"] /\ srv[t] = "failed"
                    /\ ~IsTracked(t)
  BY <1>1 DEF AccountInv, IsError
<1>5. ~IsError(t) => obj[t] = [resp |-> 0, err |-> "nil"]
  BY <1>1, <1>2 DEF AccountInv
<1> QED BY <1>3, <1>4, <1>5

\* A tracked target is not one of the errors.
LEMMA TrackedNoError ==
    ASSUME AccountInv, NEW t, IsTracked(t)
    PROVE  ~IsError(t)
BY DEF AccountInv, IsError

LEMMA SetupReturnsStep ==
    ASSUME IInv, SetupReturns
    PROVE  IInv'
<1>1. TypeOK /\ PhaseInv /\ ProxyInv /\ WireInv /\ AccountInv
  BY DEF IInv, WireInv
<1>2. /\ pc = "setup" /\ rcv = "done" /\ pc' \in {"failed", "send", "recv"}
      /\ pc' # "failed" => ~recvErr /\ (pc' = "send" <=> Unary)
      /\ app' \in {"off", "send", app} /\ nreq' = nreq /\ half' = half /\ wire' = wire
      /\ ids' = ids /\ sentErrors' = sentErrors /\ obj' = obj /\ canned' = canned
      /\ chanErr' = chanErr /\ pend' = pend /\ hand' = hand /\ seen' = seen
      /\ nmsg' = nmsg /\ crashed' = crashed
  BY DEF SetupReturns, retVars, netVars
<1>3. CallStep
  BY DEF SetupReturns, netVars, CallStep
<1>4. TypeOK'
  <2>1. app' \in {"off", "send", "iter", "closed"}
    BY <1>1, <1>2 DEF TypeOK, CallType
  <2>2. NetType' /\ SetupType'
    BY <1>1, <1>2, <1>3, CallFrame DEF TypeOK, NetType, SetupType, ProxyRests
  <2>3. CallType'
    BY <1>1, <1>2, <1>3, <2>1, CallFrame DEF TypeOK, CallType
  <2> QED BY <1>3, <2>2, <2>3, CallFrame DEF TypeOK
<1>5. PhaseInv'
  BY <1>1, <1>2, <1>3, CallFrame DEF PhaseInv
<1>6. \A t : (IsTracked(t)' <=> IsTracked(t)) /\ Read(t)' = Read(t)
  BY <1>2, <1>3, CallFrame DEF IsTracked, Read
<1>7. WireInv'
  <2>1. Listens' => Listens
    BY <1>2, <1>3, CallFrame DEF Listens
  <2> QED BY <1>1, <1>2, <1>3, <1>6, <2>1, CallFrame, WireSame DEF ProxyRests
<1>8. AccountInv'
  BY <1>2, <1>3, AccountKept DEF Before
<1>9. UnaryInv'
  BY <1>2, <1>3, CallFrame DEF UnaryInv
<1>10. StreamInv'
  <2>1. SUFFICES ASSUME pc' = "recv", ~Unary, NEW t \in Targets
                 PROVE  /\ IsError(t)' => Len(seen'[t]) = (IF sentErrors' THEN 1 ELSE 0)
                        /\ ~IsError(t)' => IsTracked(t)' /\ Partial(t)'
    BY <1>2, <1>3, CallFrame DEF StreamInv
  <2>2. replies = N /\ ~recvErr /\ ~sentErrors /\ seen[t] = <<>> /\ t <= replies
    BY <1>1, <1>2, <2>1, Numbers DEF PhaseInv
  <2>3. IsTracked(t) \/ IsError(t)
    BY <1>1, <1>2, <2>2 DEF AccountInv
  <2>4. Partial(t)'
    <3>1. seen'[t] = <<>> /\ nrep'[t] \in Nat
      BY <1>1, <1>2, <1>3, <2>2, CallFrame, Functions DEF ProxyRests
    <3> QED BY <3>1 DEF Partial, RepliesOf
  <2>5. Len(seen'[t]) = 0
    BY <1>2, <2>2
  <2> QED BY <1>2, <1>3, <1>6, <2>2, <2>3, <2>4, <2>5, CallFrame
<1> QED BY <1>3, <1>4, <1>5, <1>7, <1>8, <1>9, <1>10, CallFrame DEF IInv, WireInv

(***************************************************************************)
(* invokeOneMany.                                                          *)
(***************************************************************************)

\* The app variables of a stream, and what only SendMsg changes.
Aside == UNCHANGED <<sentErrors, appVars>>

LEMMA QuietStep ==
    ASSUME IInv, CallStep, Unary, Aside, wire' = wire, ids' = ids, obj' = obj,
           nreq' \in Nat, half' \in BOOLEAN,
           pc' \in {"setup", "send", "close", "canned", "recv", "flush", "done", "failed"},
           canned' \in Nat, chanErr' \in Errs, pend' \in 0..N, hand' \in 0..N,
           seen' \in [Targets -> Seq(Answers)],
           pc' \in Before => pc \in Before, pc' = "recv" => pc \in {"canned", "recv"},
           PhaseInv', UnaryInv'
    PROVE  IInv'
<1>1. TypeOK /\ WireInv
  BY DEF IInv, WireInv
<1>2. TypeOK'
  <2>1. NetType' /\ SetupType'
    BY <1>1, CallFrame DEF TypeOK, NetType, SetupType, ProxyRests, Aside
  <2>2. CallType'
    BY <1>1, CallFrame DEF TypeOK, CallType, Aside, appVars
  <2> QED BY <2>1, <2>2, CallFrame DEF TypeOK
<1>3. WireInv'
  <2>1. \A t : (IsTracked(t)' <=> IsTracked(t)) /\ Read(t)' = Read(t)
    BY CallFrame DEF IsTracked, Read
  <2>2. Listens' => Listens
    BY CallFrame DEF Listens, Before
  <2> QED BY <1>1, <2>1, <2>2, CallFrame, WireSame DEF ProxyRests
<1>4. AccountInv'
  BY AccountKept
<1>5. StreamInv'
  BY CallFrame DEF StreamInv
<1> QED BY <1>2, <1>3, <1>4, <1>5, CallFrame DEF IInv, WireInv

\* A target whose Ret is neither changed nor moved is served as it was.
LEMMA OtherServed ==
    ASSUME IInv, CallStep, NEW u \in Targets, Served(u), obj'[u] = obj[u], seen'[u] = seen[u],
           IsTracked(u)' <=> IsTracked(u), Due(u)' <=> Due(u),
           pend' = u <=> pend = u, hand' = u <=> hand = u, chanErr' = "nil" => chanErr = "nil"
    PROVE  Served(u)'
<1>1. nrep' = nrep /\ srv' = srv
  BY CallFrame DEF ProxyRests
<1>2. Heard(u)' <=> Heard(u)
  BY DEF Heard
<1> QED BY <1>1, <1>2 DEF Served

LEMMA InvokeSendStep ==
    ASSUME IInv, InvokeSend
    PROVE  IInv'
<1>1. TypeOK /\ PhaseInv
  BY DEF IInv
<1>2. /\ pc = "send" /\ pc' \in {"close", "failed"} /\ nreq' \in {nreq, nreq + 1} /\ half' = half
      /\ wire' = wire /\ ids' = ids /\ obj' = obj /\ canned' = canned /\ chanErr' = chanErr
      /\ pend' = pend /\ hand' = hand /\ seen' = seen
  BY DEF InvokeSend, retVars
<1>3. CallStep /\ Aside
  BY DEF InvokeSend, CallStep, Aside
<1>4. Unary /\ nreq' \in Nat /\ half' \in BOOLEAN
  BY <1>1, <1>2 DEF PhaseInv, TypeOK, NetType
<1>5. PhaseInv'
  BY <1>1, <1>2, <1>3, CallFrame DEF PhaseInv
<1>6. UnaryInv'
  BY <1>2 DEF UnaryInv
<1>7. /\ canned' \in Nat /\ chanErr' \in Errs /\ pend' \in 0..N /\ hand' \in 0..N
      /\ seen' \in [Targets -> Seq(Answers)]
  BY <1>1, <1>2 DEF TypeOK, CallType
<1> QED BY <1>2, <1>3, <1>4, <1>5, <1>6, <1>7, QuietStep DEF Before

LEMMA InvokeCloseStep ==
    ASSUME IInv, InvokeClose
    PROVE  IInv'
<1>1. TypeOK /\ PhaseInv /\ AccountInv
  BY DEF IInv
<1>2. /\ pc = "close" /\ pc' \in {"canned", "failed"} /\ nreq' = nreq /\ half' \in {half, TRUE}
      /\ wire' = wire /\ ids' = ids /\ obj' = obj /\ canned' = canned /\ chanErr' = chanErr
      /\ pend' = pend /\ hand' = hand /\ seen' = seen
  BY DEF InvokeClose, retVars
<1>3. CallStep /\ Aside
  BY DEF InvokeClose, CallStep, Aside
<1>4. Unary /\ nreq' \in Nat /\ half' \in BOOLEAN
  BY <1>1, <1>2 DEF PhaseInv, TypeOK, NetType
<1>5. PhaseInv'
  BY <1>1, <1>2, <1>3, CallFrame DEF PhaseInv
<1>6. UnaryInv'
  <2>1. ASSUME NEW t \in Targets PROVE Served(t)'
    <3>1. /\ pend' = 0 /\ hand' = 0 /\ seen'[t] = <<>> /\ canned' = 0 /\ chanErr' = "nil"
          /\ obj'[t] = obj[t] /\ t # 0 /\ srv' = srv /\ nrep' = nrep /\ nrep[t] \in Nat
      BY <1>1, <1>2, <1>3, <2>1, CallFrame, Numbers, Functions DEF PhaseInv, ProxyRests
    <3>2. (IsTracked(t)' <=> IsTracked(t)) /\ (IsError(t)' <=> IsError(t))
      BY <1>2, <1>3, CallFrame DEF IsTracked
    <3>3. /\ IsTracked(t) <=> ~IsError(t)
          /\ IsTracked(t) => obj[t] = [resp |-> 0, err |-> "nil"]
          /\ IsError(t) => obj[t] = [resp |-> 0, err |-> "fail"] /\ srv[t] = "failed"
      BY <1>2, AllAccounted
    <3>4. obj[t].resp = 0 /\ (IsTracked(t) => obj[t].err = "nil")
          /\ (IsError(t) => obj[t].err # "nil" /\ srv[t] = "failed")
      BY <3>3
    <3>5. ~Due(t)'
      BY <3>1, <3>2, <3>3, <3>4 DEF Due
    <3> QED BY <3>1, <3>2, <3>3, <3>4, <3>5 DEF Served
  <2>2. chanErr' = "nil"
    BY <1>1, <1>2 DEF PhaseInv
  <2> QED BY <1>2, <1>3, <2>1, <2>2, CallFrame DEF UnaryInv
<1>7. /\ canned' \in Nat /\ chanErr' \in Errs /\ pend' \in 0..N /\ hand' \in 0..N
      /\ seen' \in [Targets -> Seq(Answers)]
  BY <1>1, <1>2 DEF TypeOK, CallType
<1> QED BY <1>2, <1>3, <1>4, <1>5, <1>6, <1>7, QuietStep DEF Before

LEMMA PushCannedStep ==
    ASSUME IInv, PushCanned
    PROVE  IInv'
<1>1. TypeOK /\ PhaseInv /\ AccountInv /\ UnaryInv
  BY DEF IInv
<1>2. /\ pc = "canned" /\ pend = 0 /\ nreq' = nreq /\ half' = half
      /\ wire' = wire /\ ids' = ids /\ obj' = obj /\ chanErr' = chanErr
      /\ hand' = hand /\ seen' = seen
  BY DEF PushCanned, netVars
<1>3. CallStep /\ Aside
  BY DEF PushCanned, CallStep, Aside, netVars
<1>4. /\ Unary /\ nreq' \in Nat /\ half' \in BOOLEAN /\ chanErr = "nil" /\ rcv = "done" /\ ~recvErr
      /\ \A t \in Targets : Served(t)
  BY <1>1, <1>2 DEF PhaseInv, UnaryInv, TypeOK, NetType
<1>5. \A t : (IsTracked(t)' <=> IsTracked(t)) /\ (IsError(t)' <=> IsError(t))
  BY <1>2, <1>3, CallFrame DEF IsTracked
<1>6. chanErr' \in Errs /\ hand' \in 0..N /\ seen' \in [Targets -> Seq(Answers)]
  BY <1>1, <1>2 DEF TypeOK, CallType
<1>7. CASE canned < Len(errors)
  <2>1. /\ pend' = errors[canned + 1] /\ canned' = canned + 1 /\ pc' = "canned"
        /\ canned \in Nat /\ canned + 1 \in 1..Len(errors)
    BY <1>1, <1>2, <1>7, Numbers, Functions DEF PushCanned
  <2>2. PICK t \in Targets : t = errors[canned + 1]
    BY <1>1, <2>1, Numbers DEF AccountInv
  <2>3. /\ pend' = t /\ IsError(t) /\ t # 0 /\ t \in 0..N
        /\ obj[t].err # "nil" /\ obj[t].resp = 0 /\ ~IsTracked(t)
    BY <1>1, <2>1, <2>2, Numbers DEF AccountInv, IsError
  <2>4. \A k \in 1..canned : k \in 1..Len(errors) /\ k # canned + 1
    BY <1>1, <2>1, Functions DEF PhaseInv
  <2>5. ~Due(t)
    BY <1>1, <2>1, <2>2, <2>3, <2>4 DEF Due, AccountInv
  <2>6. Due(t)'
    <3>1. canned + 1 \in 1..canned' /\ errors' = errors
      BY <1>3, <2>1, CallFrame
    <3> QED BY <2>2, <3>1 DEF Due
  <2>7. \A u \in Targets : u # t => (Due(u)' <=> Due(u))
    <3>1. errors' = errors /\ \A k \in 1..canned' : k \in 1..canned \/ k = canned + 1
      BY <1>3, <2>1, CallFrame
    <3>2. 1..canned \subseteq 1..canned'
      BY <2>1
    <3> QED BY <1>2, <1>5, <2>2, <3>1, <3>2 DEF Due
  <2>8. ASSUME NEW u \in Targets PROVE Served(u)'
    <3>1. CASE u = t
      <4>1. hand # t /\ seen[t] = <<>>
        BY <1>4, <2>5 DEF Served
      <4>2. Served(t)
        BY <1>4
      <4>3. nrep' = nrep /\ srv' = srv
        BY <1>3, CallFrame DEF ProxyRests
      <4> QED BY <1>2, <1>5, <2>3, <2>6, <3>1, <4>1, <4>2, <4>3 DEF Served, Heard
    <3>2. CASE u # t
      <4>1. pend' # u /\ pend # u
        BY <1>1, <1>2, <2>3, <3>2, Numbers
      <4> QED BY <1>2, <1>3, <1>4, <1>5, <2>7, <3>2, <4>1, OtherServed
    <3> QED BY <3>1, <3>2
  <2>9. UnaryInv'
    BY <1>2, <1>3, <1>4, <2>1, <2>8, CallFrame DEF UnaryInv
  <2>10. PhaseInv'
    BY <1>1, <1>2, <1>3, <1>4, <2>1, CallFrame DEF PhaseInv
  <2> QED BY <1>2, <1>3, <1>4, <1>6, <2>1, <2>3, <2>9, <2>10, QuietStep DEF Before
<1>8. CASE ~(canned < Len(errors))
  <2>1. pc' = "recv" /\ pend' = pend /\ canned' = canned /\ canned = Len(errors) /\ canned \in Nat
    BY <1>1, <1>2, <1>8, Numbers, Functions DEF PushCanned, PhaseInv
  <2>2. ASSUME NEW u \in Targets PROVE Served(u)'
    <3>1. Due(u)' <=> Due(u)
      BY <1>2, <1>3, <1>5, <2>1, CallFrame DEF Due
    <3> QED BY <1>2, <1>3, <1>4, <1>5, <2>1, <3>1, OtherServed
  <2>3. \E t \in Targets : IsTracked(t)' \/ IsError(t)'
    <3>1. 1 \in Targets
      BY <1>1, Numbers
    <3> QED BY <1>2, <1>5, <3>1, AllAccounted
  <2>4. UnaryInv'
    <3>1. chanErr' = "nil"
      BY <1>2, <1>4
    <3> QED BY <1>3, <2>1, <2>2, <2>3, <3>1, CallFrame DEF UnaryInv
  <2>5. PhaseInv'
    BY <1>1, <1>2, <1>3, <1>4, <2>1, CallFrame DEF PhaseInv
  <2>6. pend' \in 0..N
    BY <1>1, <2>1 DEF TypeOK, CallType
  <2> QED BY <1>2, <1>3, <1>4, <1>6, <2>1, <2>4, <2>5, <2>6, QuietStep DEF Before
<1> QED BY <1>7, <1>8

LEMMA PushStep ==
    ASSUME IInv, Push
    PROVE  IInv'
<1>1. TypeOK /\ PhaseInv /\ UnaryInv
  BY DEF IInv
<1>2. /\ pend # 0 /\ hand = 0 /\ hand' = pend /\ pend' = 0 /\ nreq' = nreq /\ half' = half
      /\ wire' = wire /\ ids' = ids /\ obj' = obj /\ chanErr' = chanErr /\ pc' = pc
      /\ canned' = canned /\ seen' = seen
  BY DEF Push, netVars
<1>3. CallStep /\ Aside
  BY DEF Push, CallStep, Aside, netVars
<1>4. Unary /\ pc \in {"canned", "recv", "flush"} /\ nreq' \in Nat /\ half' \in BOOLEAN
  BY <1>1, <1>2 DEF PhaseInv, TypeOK, NetType, CallType
<1>5. \A t : (IsTracked(t)' <=> IsTracked(t)) /\ (IsError(t)' <=> IsError(t))
  BY <1>2, <1>3, CallFrame DEF IsTracked
<1>6. \A t : Due(t)' <=> Due(t)
  BY <1>2, <1>3, <1>5, CallFrame DEF Due
<1>7. ASSUME NEW u \in Targets PROVE Served(u)'
  <2>1. Served(u) /\ nrep' = nrep /\ srv' = srv /\ u # 0
    BY <1>1, <1>3, <1>4, <1>7, CallFrame, Numbers DEF UnaryInv, ProxyRests
  <2>2. Heard(u) => Heard(u)'
    BY <1>2, <2>1 DEF Heard
  <2> QED BY <1>2, <1>5, <1>6, <2>1, <2>2 DEF Served
<1>8. UnaryInv'
  BY <1>1, <1>2, <1>3, <1>4, <1>5, <1>7, CallFrame DEF UnaryInv
<1>9. PhaseInv'
  BY <1>1, <1>2, <1>3, <1>4, CallFrame DEF PhaseInv
<1>10. /\ canned' \in Nat /\ chanErr' \in Errs /\ pend' \in 0..N /\ hand' \in 0..N
       /\ seen' \in [Targets -> Seq(Answers)]
  BY <1>1, <1>2 DEF TypeOK, CallType
<1> QED BY <1>2, <1>3, <1>4, <1>8, <1>9, <1>10, QuietStep DEF Before

LEMMA CallerReadsStep ==
    ASSUME IInv, CallerReads
    PROVE  IInv'
<1>1. TypeOK /\ PhaseInv /\ UnaryInv /\ ProxyInv
  BY DEF IInv
<1>2. PICK t \in Targets : t = hand
  BY <1>1, Numbers DEF CallerReads
<1>3. PICK a : a = Answer(t, obj[t])
  OBVIOUS
<1>4. /\ hand = t /\ hand' = 0 /\ nreq' = nreq /\ half' = half
      /\ wire' = wire /\ ids' = ids /\ obj' = obj /\ chanErr' = chanErr /\ pc' = pc
      /\ canned' = canned /\ pend' = pend /\ seen' = [seen EXCEPT ![t] = Append(@, a)]
  BY <1>2, <1>3 DEF CallerReads, netVars
<1>5. CallStep /\ Aside
  BY DEF CallerReads, CallStep, Aside, netVars
<1>6. t # 0 /\ t \in Nat /\ Unary /\ pc \in {"canned", "recv", "flush", "done", "failed"}
      /\ nreq' \in Nat /\ half' \in BOOLEAN
  BY <1>1, <1>4, Numbers DEF PhaseInv, TypeOK, NetType, CallType
<1>7. a \in Answers /\ a.resp = obj[t].resp /\ a.err = obj[t].err
  BY <1>1, <1>3, <1>6, AnswerShape, Functions
<1>8. /\ seen' \in [Targets -> Seq(Answers)] /\ seen'[t] = Append(seen[t], a)
      /\ \A u \in Targets : u # t => seen'[u] = seen[u]
  <2>1. seen \in [Targets -> Seq(Answers)]
    BY <1>1 DEF TypeOK, CallType
  <2>2. Append(seen[t], a) \in Seq(Answers)
    BY <1>7, <2>1, AppendAnswer
  <2> QED BY <1>4, <2>1, <2>2
<1>9. \A u : (IsTracked(u)' <=> IsTracked(u)) /\ (IsError(u)' <=> IsError(u))
  BY <1>4, <1>5, CallFrame DEF IsTracked
<1>10. \A u : Due(u)' <=> Due(u)
  BY <1>4, <1>5, <1>9, CallFrame DEF Due
<1>11. UnaryInv'
  <2>1. SUFFICES ASSUME pc # "failed" PROVE UnaryInv'
    BY <1>4 DEF UnaryInv
  <2>2. Served(t) /\ nrep' = nrep /\ srv' = srv /\ seen[t] \in Seq(Answers) /\ nrep[t] \in Nat
        /\ obj[t].resp \in Nat /\ Len(seen[t]) \in Nat
    BY <1>1, <1>5, <1>6, <2>1, CallFrame, Functions DEF UnaryInv, ProxyRests
  <2>3. Due(t) /\ (obj[t].err = "nil" => obj[t].resp = 1)
    BY <1>4, <2>2 DEF Served
  <2>4. obj[t].err = "nil" => obj[t].resp = 1 /\ nrep[t] = 1
    BY <1>1, <1>6, <2>2, <2>3 DEF Served, ProxyInv
  <2>5. /\ Len(seen'[t]) = Len(seen[t]) + 1 /\ seen'[t][Len(seen[t]) + 1] = a /\ seen'[t] # <<>>
        /\ \A k \in 1..Len(seen[t]) : seen'[t][k] = seen[t][k]
    BY <1>7, <1>8, <2>2, AppendAnswer
  <2>6. \A k \in 1..Len(seen'[t]) : seen'[t][k].err = "nil" => seen'[t][k].resp = 1 /\ nrep[t] = 1
    <3> SUFFICES ASSUME NEW k \in 1..Len(seen'[t]), seen'[t][k].err = "nil"
                 PROVE  seen'[t][k].resp = 1 /\ nrep[t] = 1
      OBVIOUS
    <3>1. CASE k \in 1..Len(seen[t])
      BY <2>2, <2>5, <3>1 DEF Served
    <3>2. CASE k = Len(seen[t]) + 1
      BY <1>7, <2>4, <2>5, <3>2
    <3> QED BY <2>2, <2>5, <3>1, <3>2
  <2>7. Heard(t)'
    BY <1>3, <1>4, <2>5 DEF Heard
  <2>8. chanErr = "nil" => Len(seen'[t]) <= 1 /\ pend # t
    BY <1>4, <2>2, <2>5 DEF Served
  <2>9. Served(t)'
    BY <1>4, <1>6, <1>9, <1>10, <2>2, <2>3, <2>6, <2>7, <2>8 DEF Served
  <2>10. ASSUME NEW u \in Targets, u # t PROVE Served(u)'
    <3>1. Served(u) /\ u # 0
      BY <1>1, <1>6, <2>1, <2>10, Numbers DEF UnaryInv
    <3> QED BY <1>4, <1>5, <1>8, <1>9, <1>10, <2>10, <3>1, OtherServed
  <2> QED BY <1>1, <1>4, <1>5, <1>6, <1>9, <2>1, <2>9, <2>10, CallFrame DEF UnaryInv
<1>12. PhaseInv'
  BY <1>1, <1>4, <1>5, <1>6, CallFrame DEF PhaseInv
<1>13. canned' \in Nat /\ chanErr' \in Errs /\ pend' \in 0..N /\ hand' \in 0..N
  BY <1>1, <1>4, Numbers DEF TypeOK, CallType
<1> QED BY <1>4, <1>5, <1>6, <1>8, <1>11, <1>12, <1>13, QuietStep DEF Before

\* When an RPC has ended well there is nothing left to read, and no stream is tracked.
LEMMA EndMeansAllClosed ==
    ASSUME IInv, Listens, ended = "eof", wire = <<>>, NEW t \in Targets
    PROVE  ~IsTracked(t)
<1>1. TypeOK /\ ProxyInv /\ AccountInv /\ WireComplete
  BY DEF IInv
<1>2. SUFFICES ASSUME IsTracked(t) PROVE FALSE
  OBVIOUS
<1>3. idOf[t] \in Ids /\ t <= nstart /\ t \in 1..nstart /\ srv[t] # "open"
  BY <1>1, <1>2, TrackedIds, Numbers DEF ProxyInv
<1>4. idOf[t] # NoId
  BY <1>3, ClientAssumption
<1>5. OnWire(Close(idOf[t], srv[t]))
  BY <1>1, <1>2, <1>3, <1>4 DEF WireComplete, Awaited
<1> QED BY <1>5 DEF OnWire

LEMMA InvokeRecvEndsStep ==
    ASSUME IInv, InvokeRecvEnds
    PROVE  IInv'
<1>1. TypeOK /\ PhaseInv /\ UnaryInv /\ AccountInv
  BY DEF IInv
<1>2. /\ Unary /\ pc = "recv" /\ wire = <<>> /\ pc' = "flush" /\ nreq' = nreq /\ half' = half
      /\ chanErr' = (IF ended = "eof" THEN "nil" ELSE "lost")
      /\ wire' = wire /\ ids' = ids /\ obj' = obj /\ canned' = canned
      /\ pend' = pend /\ hand' = hand /\ seen' = seen
  BY DEF InvokeRecvEnds, Break, netVars, retVars
<1>3. CallStep /\ Aside
  BY DEF InvokeRecvEnds, CallStep, Aside, netVars
<1>4. /\ chanErr = "nil" /\ rcv = "done" /\ ~recvErr /\ canned = Len(errors) /\ Listens
      /\ nreq' \in Nat /\ half' \in BOOLEAN
  BY <1>1, <1>2 DEF PhaseInv, Listens, TypeOK, NetType
<1>5. \A t : (IsTracked(t)' <=> IsTracked(t)) /\ (IsError(t)' <=> IsError(t))
  BY <1>2, <1>3, CallFrame DEF IsTracked
<1>6. \A t : Due(t)' <=> Due(t)
  BY <1>2, <1>3, <1>5, CallFrame DEF Due
<1>7. ASSUME NEW u \in Targets PROVE Served(u)'
  <2>1. Served(u)
    BY <1>1, <1>2 DEF UnaryInv
  <2> QED BY <1>2, <1>3, <1>4, <1>5, <1>6, <2>1, OtherServed
<1>8. PICK t \in Targets : IsTracked(t) \/ IsError(t)
  BY <1>1, <1>2 DEF UnaryInv
<1>9. IsTracked(t)' \/ obj'[t].err # "nil"
  <2>1. IsError(t) => obj[t] = [resp |-> 0, err |-> "fail"]
    BY <1>1 DEF AccountInv, IsError
  <2> QED BY <1>2, <1>5, <1>8, <2>1
<1>10. chanErr' = "nil" => \A u \in Targets : ~IsTracked(u)'
  BY <1>2, <1>4, <1>5, EndMeansAllClosed
<1>11. UnaryInv'
  BY <1>2, <1>3, <1>7, <1>9, <1>10, CallFrame DEF UnaryInv
<1>12. PhaseInv'
  BY <1>1, <1>2, <1>3, <1>4, CallFrame DEF PhaseInv
<1>13. chanErr' \in Errs
  BY <1>2 DEF Errs
<1>14. canned' \in Nat /\ pend' \in 0..N /\ hand' \in 0..N /\ seen' \in [Targets -> Seq(Answers)]
  BY <1>1, <1>2 DEF TypeOK, CallType
<1> QED BY <1>2, <1>3, <1>4, <1>11, <1>12, <1>13, <1>14, QuietStep DEF Before

LEMMA FlushEndsStep ==
    ASSUME IInv, FlushEnds
    PROVE  IInv'
<1>1. TypeOK /\ PhaseInv /\ UnaryInv
  BY DEF IInv
<1>2. /\ pc = "flush" /\ pc' = "done" /\ pend = 0 /\ nreq' = nreq /\ half' = half
      /\ wire' = wire /\ ids' = ids /\ obj' = obj /\ canned' = canned /\ chanErr' = chanErr
      /\ pend' = pend /\ hand' = hand /\ seen' = seen /\ \A id \in Ids : ids[id] = 0
  BY DEF FlushEnds, Tracked, netVars, retVars
<1>3. CallStep /\ Aside
  BY DEF FlushEnds, CallStep, Aside, netVars
<1>4. Unary /\ nreq' \in Nat /\ half' \in BOOLEAN /\ rcv = "done" /\ ~recvErr /\ canned = Len(errors)
  BY <1>1, <1>2 DEF PhaseInv, TypeOK, NetType
<1>5. \A t : (IsTracked(t)' <=> IsTracked(t)) /\ (IsError(t)' <=> IsError(t))
  BY <1>2, <1>3, CallFrame DEF IsTracked
<1>6. \A t : Due(t)' <=> Due(t)
  BY <1>2, <1>3, <1>5, CallFrame DEF Due
<1>7. ASSUME NEW u \in Targets PROVE Served(u)'
  <2>1. Served(u)
    BY <1>1, <1>2, <1>4 DEF UnaryInv
  <2> QED BY <1>2, <1>3, <1>5, <1>6, <2>1, OtherServed
<1>8. \A t \in Targets : ~IsTracked(t)
  BY <1>1, <1>2, Numbers DEF IsTracked
<1>9. UnaryInv'
  BY <1>1, <1>2, <1>3, <1>4, <1>5, <1>7, <1>8, CallFrame DEF UnaryInv
<1>10. PhaseInv'
  BY <1>1, <1>2, <1>3, <1>4, CallFrame DEF PhaseInv
<1>11. /\ canned' \in Nat /\ chanErr' \in Errs /\ pend' \in 0..N /\ hand' \in 0..N
       /\ seen' \in [Targets -> Seq(Answers)]
  BY <1>1, <1>2 DEF TypeOK, CallType
<1> QED BY <1>2, <1>3, <1>4, <1>9, <1>10, <1>11, QuietStep DEF Before

\* The steps of invokeOneMany that change a Ret or the streams it tracks.
LEMMA ServingStep ==
    ASSUME IInv, CallStep, Unary, Aside, pc \in {"recv", "flush"}, pc' \in {"recv", "flush"},
           NEW t \in Targets, IsTracked(t), hand' = hand, seen' = seen, canned' = canned,
           nreq' = nreq, half' = half, wire' \in Seq(Msgs),
           ids' \in [Ids -> 0..N], \A id \in Ids : ids'[id] \in {0, ids[id]},
           obj' \in [Targets -> [resp : Nat, err : Errs]],
           \A u \in Targets : u # t => obj'[u] = obj[u] /\ (IsTracked(u)' <=> IsTracked(u)),
           pend = 0, pend' \in {0, t}, chanErr' = chanErr, pc' = "recv" => pc = "recv",
           Served(t)', WireInv',
           pc' = "recv" => \E u \in Targets : IsTracked(u)',
           chanErr # "nil" => obj'[t].err # "nil",
           pc' = "flush" /\ chanErr = "nil" => \A u \in Targets : ~IsTracked(u)'
    PROVE  IInv'
<1>1. TypeOK /\ PhaseInv /\ UnaryInv /\ AccountInv
  BY DEF IInv
<1>2. ~IsError(t)
  BY <1>1, TrackedNoError
<1>3. TypeOK'
  <2>1. NetType' /\ SetupType'
    BY <1>1, CallFrame DEF TypeOK, NetType, SetupType, ProxyRests, Aside
  <2>2. pend' \in 0..N
    BY <1>1, Numbers
  <2>3. CallType'
    BY <1>1, <2>2, CallFrame DEF TypeOK, CallType, Aside, appVars
  <2> QED BY <2>1, <2>3, CallFrame DEF TypeOK
<1>4. PhaseInv'
  BY <1>1, CallFrame DEF PhaseInv
<1>5. AccountInv'
  <2>1. \A u \in Targets : IsError(u) => obj'[u] = obj[u]
    BY <1>2
  <2>2. pc' \notin Before
    BY DEF Before
  <2> QED BY <2>1, <2>2, AccountKept
<1>6. ASSUME NEW u \in Targets, u # t PROVE Served(u)'
  <2>1. Served(u) /\ u # 0
    BY <1>1, <1>6, Numbers DEF UnaryInv
  <2>2. Due(u)' <=> Due(u)
    BY <1>6, CallFrame DEF Due
  <2> QED BY <1>6, <2>1, <2>2, OtherServed
<1>7. UnaryInv'
  BY <1>6, CallFrame DEF UnaryInv
<1>8. StreamInv'
  BY CallFrame DEF StreamInv
<1> QED BY <1>3, <1>4, <1>5, <1>7, <1>8, CallFrame DEF IInv, WireInv

LEMMA FlushStep ==
    ASSUME IInv, NEW id \in Ids, Flush(id)
    PROVE  IInv'
<1>1. TypeOK /\ PhaseInv /\ UnaryInv /\ AccountInv /\ WireInv
  BY DEF IInv, WireInv
<1>2. PICK t \in Targets : t = ids[id]
  BY <1>1, Functions, Numbers DEF Flush
<1>3. /\ pc = "flush" /\ pc' = "flush" /\ pend = 0 /\ pend' = t /\ hand' = hand /\ seen' = seen
      /\ nreq' = nreq /\ half' = half /\ wire' = wire /\ canned' = canned /\ chanErr' = chanErr
      /\ obj' = [obj EXCEPT ![t].err = chanErr] /\ ids' = [ids EXCEPT ![id] = 0]
  BY <1>2 DEF Flush, netVars
<1>4. CallStep /\ Aside
  BY DEF Flush, CallStep, Aside, netVars
<1>5. IsTracked(t) /\ t # 0
  BY <1>1, <1>2, Numbers DEF IsTracked
<1>6. Unary /\ chanErr # "nil" /\ chanErr \in Errs /\ Served(t)
  BY <1>1, <1>3, <1>5 DEF PhaseInv, UnaryInv, TypeOK, CallType
<1>7. /\ ids \in [Ids -> 0..N] /\ obj \in [Targets -> [resp : Nat, err : Errs]]
      /\ 0 \in 0..N /\ wire' \in Seq(Msgs)
  BY <1>1, <1>3, Numbers, Functions DEF TypeOK, SetupType
<1>8. /\ ids' \in [Ids -> 0..N] /\ ids'[id] = 0 /\ \A x \in Ids : x # id => ids'[x] = ids[x]
  BY <1>3, <1>7
<1>9. /\ obj' \in [Targets -> [resp : Nat, err : Errs]] /\ obj'[t].err = chanErr
      /\ obj'[t].resp = obj[t].resp /\ \A u \in Targets : u # t => obj'[u] = obj[u]
  BY <1>3, <1>6, <1>7
<1>10. \A u \in Targets : IsTracked(u)' <=> IsTracked(u) /\ u # t
  <2>1. \A x \in Ids : ids[x] = t => x = id
    BY <1>1, <1>2, <1>5 DEF AccountInv
  <2> QED BY <1>1, <1>2, <1>8, <2>1, Numbers DEF IsTracked
<1>11. ~IsError(t) /\ ~IsError(t)'
  BY <1>1, <1>4, <1>5, TrackedNoError, CallFrame
<1>12. Due(t)' /\ Heard(t)'
  BY <1>3, <1>10, <1>11 DEF Due, Heard
<1>13. Served(t)'
  <2>1. nrep' = nrep
    BY <1>4, CallFrame DEF ProxyRests
  <2> QED BY <1>3, <1>6, <1>9, <1>10, <1>12, <2>1 DEF Served
<1>14. WireInv'
  <2>1. ~Listens'
    BY <1>3 DEF Listens
  <2> QED BY <1>1, <1>3, <1>4, <2>1, CallFrame, WireSame DEF ProxyRests
<1> QED BY <1>3, <1>4, <1>5, <1>6, <1>7, <1>8, <1>9, <1>10, <1>13, <1>14, ServingStep

\* While invokeOneMany receives, the head of the wire is a reply or the close of a stream
\* it tracks.
LEMMA ReceivedHead ==
    ASSUME IInv, pc = "recv", Shrinks
    PROVE  /\ Listens /\ wire[1] \in Msgs /\ wire' \in Seq(Msgs) /\ Head(wire) = wire[1]
           /\ wire[1].k \in {"data", "close"} /\ wire[1].id \in Ids
           /\ \E t \in Targets :
                 /\ idOf[t] = wire[1].id /\ IsTracked(t) /\ ids[wire[1].id] = t /\ ~IsError(t)
                 /\ \A u \in Targets : idOf[u] = wire[1].id <=> u = t
                 /\ \A x \in Ids : ids[x] = t <=> x = wire[1].id
                 /\ wire[1].k = "data" => wire[1].n = Read(t) + 1 /\ wire[1].n <= nrep[t]
                 /\ wire[1].k = "close" => /\ srv[t] = wire[1].st /\ Read(t) >= nrep[t]
                                           /\ wire[1].st \in {"ok", "failed"}
<1>1. TypeOK /\ PhaseInv /\ ProxyInv /\ AccountInv /\ WireInv
  BY DEF IInv, WireInv
<1>2. wire # <<>> /\ Listens /\ replies = N
  BY <1>1 DEF PhaseInv, Listens, Shrinks
<1>3. wire[1] \in Msgs /\ wire' \in Seq(Msgs) /\ Head(wire) = wire[1]
  BY <1>1, Shrunk
<1>4. ~Opens(wire[1])
  <2>1. SUFFICES ASSUME Opens(wire[1]) PROVE FALSE
    OBVIOUS
  <2>2. wire[1].t = replies + 1 /\ wire[1].t \in Targets
    BY <1>1, <1>2, <2>1, HeadOpens
  <2> QED BY <1>1, <1>2, <2>2, Numbers
<1>5. wire[1].k \in {"data", "close"} /\ wire[1].id \in Ids
      /\ (wire[1].k = "close" => wire[1].st \in {"ok", "failed"})
  BY <1>3, <1>4, MsgKinds DEF Opens
<1>6. PICK t \in Targets :
        /\ idOf[t] = wire[1].id /\ wire[1].id # NoId
        /\ IsTracked(t) /\ ids[wire[1].id] = t
        /\ wire[1].k = "data" => wire[1].n = Read(t) + 1 /\ wire[1].n <= nrep[t]
        /\ wire[1].k = "close" => srv[t] = wire[1].st /\ Read(t) >= nrep[t]
  BY <1>1, <1>2, <1>4, HeadTarget
<1>7. \A u \in Targets : idOf[u] = wire[1].id <=> u = t
  BY <1>1, <1>6 DEF ProxyInv
<1>8. \A x \in Ids : ids[x] = t <=> x = wire[1].id
  <2>1. t # 0
    BY <1>1, Numbers
  <2> QED BY <1>1, <1>5, <1>6, <2>1 DEF AccountInv
<1>9. ~IsError(t)
  BY <1>1, <1>6, TrackedNoError
<1> QED BY <1>2, <1>3, <1>5, <1>6, <1>7, <1>8, <1>9

LEMMA LoopEndsLemma ==
    ASSUME IInv, LoopEnds, pc = "recv", CallStep, ids' \in [Ids -> 0..N]
    PROVE  /\ pc' \in {"recv", "flush"} /\ chanErr' = chanErr
           /\ pc' = "recv" => \E u \in Targets : IsTracked(u)'
           /\ pc' = "flush" => \A u \in Targets : ~IsTracked(u)'
<1>1. TypeOK
  BY DEF IInv
<1>2. CASE \A id \in Ids : ids'[id] = 0
  BY <1>1, <1>2, Numbers DEF LoopEnds, Break, IsTracked
<1>3. CASE ~(\A id \in Ids : ids'[id] = 0)
  <2>1. PICK id \in Ids : ids'[id] # 0
    BY <1>3
  <2>2. ids'[id] \in Targets
    BY <1>1, <2>1, Numbers
  <2> QED BY <1>3, <2>1, <2>2 DEF LoopEnds, IsTracked
<1> QED BY <1>2, <1>3

LEMMA InvokeRecvStep ==
    ASSUME IInv, InvokeRecv
    PROVE  IInv'
<1>1. TypeOK /\ PhaseInv /\ UnaryInv /\ ProxyInv /\ AccountInv /\ WireInv
  BY DEF IInv, WireInv
<1>2. /\ Unary /\ pc = "recv" /\ pend = 0 /\ Shrinks /\ hand' = hand /\ seen' = seen
      /\ canned' = canned /\ nreq' = nreq /\ half' = half
      /\ InvokeData(Head(wire)) \/ InvokeClosed(Head(wire))
  BY DEF InvokeRecv, Shrinks
<1>3. CallStep /\ Aside
  BY DEF InvokeRecv, CallStep, Aside
<1>4. chanErr = "nil" /\ Listens /\ (InvokeData(wire[1]) \/ InvokeClosed(wire[1]))
      /\ wire' \in Seq(Msgs) /\ wire[1].id \in Ids
  BY <1>1, <1>2, ReceivedHead DEF PhaseInv
<1>5. PICK x \in Ids : x = wire[1].id
  BY <1>4
<1>6. PICK t \in Targets :
        /\ idOf[t] = x /\ IsTracked(t) /\ ids[x] = t /\ ~IsError(t)
        /\ \A u \in Targets : idOf[u] = wire[1].id <=> u = t
        /\ \A id \in Ids : ids[id] = t <=> id = x
        /\ wire[1].k \in {"data", "close"}
        /\ wire[1].k = "data" => wire[1].n = Read(t) + 1 /\ wire[1].n <= nrep[t]
        /\ wire[1].k = "close" => /\ srv[t] = wire[1].st /\ Read(t) >= nrep[t]
                                  /\ wire[1].st \in {"ok", "failed"}
  BY <1>2, <1>5, ReceivedHead
<1>7. /\ t # 0 /\ Read(t) = obj[t].resp /\ Served(t) /\ nrep[t] \in Nat /\ nrep[t] <= 1
      /\ obj[t].resp \in Nat /\ obj[t].err = "nil" /\ obj[t].resp <= nrep[t]
  BY <1>1, <1>2, <1>6, Numbers, Functions DEF Read, UnaryInv, ProxyInv, Served
<1>8. ids \in [Ids -> 0..N] /\ obj \in [Targets -> [resp : Nat, err : Errs]] /\ 0 \in 0..N
  BY <1>1, Numbers DEF TypeOK, SetupType
<1>9. nrep' = nrep /\ srv' = srv /\ ~IsError(t)' /\ errors' = errors
  BY <1>3, <1>6, CallFrame DEF ProxyRests
<1>10. CASE InvokeData(wire[1])
  <2>1. wire[1].k = "data" /\ wire[1].n = 1 /\ obj[t].resp = 0 /\ nrep[t] = 1
    BY <1>6, <1>7, <1>10 DEF InvokeData
  <2>2. /\ obj' = [obj EXCEPT ![t].resp = 1] /\ pend' = t /\ ids' = ids /\ LoopEnds
    BY <1>5, <1>6, <1>7, <1>10, <2>1 DEF InvokeData
  <2>3. /\ obj' \in [Targets -> [resp : Nat, err : Errs]] /\ obj'[t].resp = 1
        /\ obj'[t].err = "nil" /\ \A u \in Targets : u # t => obj'[u] = obj[u]
    BY <1>7, <1>8, <2>2
  <2>4. \A u : IsTracked(u)' <=> IsTracked(u)
    BY <2>2 DEF IsTracked
  <2>5. /\ pc' \in {"recv", "flush"} /\ chanErr' = chanErr
        /\ pc' = "recv" => \E u \in Targets : IsTracked(u)'
        /\ pc' = "flush" => \A u \in Targets : ~IsTracked(u)'
    BY <1>2, <1>3, <1>8, <2>2, LoopEndsLemma
  <2>6. ~Due(t)
    <3>1. \A k \in 1..canned : k \in 1..Len(errors)
      BY <1>1, Numbers, Functions DEF PhaseInv
    <3> QED BY <1>6, <2>1, <3>1 DEF Due, IsError
  <2>7. hand # t /\ seen[t] = <<>>
    BY <1>7, <2>6 DEF Served
  <2>8. Due(t)' /\ Heard(t)'
    BY <1>9, <2>2, <2>3 DEF Due, Heard
  <2>9. Served(t)'
    BY <1>2, <1>4, <1>6, <1>9, <2>1, <2>2, <2>3, <2>4, <2>7, <2>8 DEF Served
  <2>10. WireInv'
    <3>1. \A u \in Targets : Read(u)' = IF idOf[u] = wire[1].id THEN Read(u) + 1 ELSE Read(u)
      BY <1>2, <1>3, <1>6, <1>7, <2>1, <2>3, CallFrame DEF Read
    <3> QED BY <1>1, <1>2, <1>3, <1>4, <2>1, <2>4, <3>1, CallFrame, ReadsData
  <2>11. \A id \in Ids : ids'[id] \in {0, ids[id]}
    BY <2>2
  <2> QED BY <1>2, <1>3, <1>4, <1>6, <1>8, <2>2, <2>3, <2>4, <2>5, <2>9, <2>10, <2>11,
             ServingStep
<1>11. CASE InvokeClosed(wire[1])
  <2>1. /\ wire[1].k = "close" /\ ids' = [ids EXCEPT ![x] = 0] /\ ClosedTarget(wire[1]) = t
    BY <1>5, <1>6, <1>7, <1>11 DEF InvokeClosed, ClosedTarget
  <2>2. /\ srv[t] \in {"ok", "failed"} /\ obj[t].resp = nrep[t]
        /\ srv[t] = "ok" <=> nrep[t] = 1
        /\ wire[1].st = "ok" <=> srv[t] = "ok"
    <3>1. Unary => /\ srv[t] = "ok" => nrep[t] = 1
                   /\ srv[t] = "failed" => nrep[t] = 0
      BY <1>1 DEF ProxyInv
    <3> QED BY <1>2, <1>6, <1>7, <2>1, <3>1
  <2>3. /\ obj' = [obj EXCEPT ![t].err = IF srv[t] = "ok" THEN "nil" ELSE "fail"] /\ LoopEnds
        /\ pend' = IF srv[t] = "ok" THEN 0 ELSE t
    BY <1>2, <1>5, <1>6, <1>7, <1>8, <1>11, <2>1, <2>2 DEF InvokeClosed
  <2>4. /\ ids' \in [Ids -> 0..N] /\ ids'[x] = 0 /\ \A id \in Ids : id # x => ids'[id] = ids[id]
    BY <1>8, <2>1
  <2>5. \A u \in Targets : IsTracked(u)' <=> IsTracked(u) /\ u # t
    BY <1>1, <1>6, <2>4, Numbers DEF IsTracked
  <2>6. /\ obj' \in [Targets -> [resp : Nat, err : Errs]] /\ obj'[t].resp = obj[t].resp
        /\ obj'[t].err = "nil" <=> srv[t] = "ok"
        /\ \A u \in Targets : u # t => obj'[u] = obj[u]
    <3>1. (IF srv[t] = "ok" THEN "nil" ELSE "fail") \in Errs
      BY DEF Errs
    <3> QED BY <1>8, <2>3, <3>1
  <2>7. /\ pc' \in {"recv", "flush"} /\ chanErr' = chanErr
        /\ pc' = "recv" => \E u \in Targets : IsTracked(u)'
        /\ pc' = "flush" => \A u \in Targets : ~IsTracked(u)'
    BY <1>2, <1>3, <2>3, <2>4, LoopEndsLemma
  <2>8. Due(t)'
    BY <1>9, <2>5 DEF Due
  <2>9. Served(t)'
    <3>1. CASE srv[t] = "ok"
      <4>1. Due(t) /\ Heard(t)
        BY <1>6, <1>7, <2>2, <3>1 DEF Due, Served
      <4>2. obj'[t] = obj[t] /\ pend' = pend
        BY <1>2, <1>7, <1>8, <2>3, <3>1
      <4>3. Heard(t)'
        BY <1>2, <4>1, <4>2 DEF Heard
      <4> QED BY <1>2, <1>4, <1>7, <1>9, <2>2, <2>5, <2>6, <2>7, <2>8, <3>1, <4>1, <4>2,
                 <4>3 DEF Served
    <3>2. CASE srv[t] # "ok"
      <4>1. ~Due(t)
        <5>1. \A k \in 1..canned : k \in 1..Len(errors)
          BY <1>1, Numbers, Functions DEF PhaseInv
        <5> QED BY <1>6, <1>7, <2>2, <3>2, <5>1 DEF Due, IsError
      <4>2. hand # t /\ seen[t] = <<>>
        BY <1>7, <4>1 DEF Served
      <4>3. Heard(t)'
        BY <2>3, <3>2 DEF Heard
      <4> QED BY <1>2, <1>7, <1>9, <2>2, <2>5, <2>6, <2>8, <3>2, <4>2, <4>3 DEF Served
    <3> QED BY <3>1, <3>2
  <2>10. WireInv'
    <3>1. \A u \in Targets : Read(u)' = Read(u)
      BY <1>2, <1>3, <2>6, CallFrame DEF Read
    <3>2. \A u \in Targets : IsTracked(u)' <=> IsTracked(u) /\ idOf[u] # wire[1].id
      BY <1>6, <2>5
    <3> QED BY <1>1, <1>2, <1>3, <1>4, <2>1, <3>1, <3>2, CallFrame, ReadsClose
  <2>11. /\ \A id \in Ids : ids'[id] \in {0, ids[id]}
         /\ \A u \in Targets : u # t => obj'[u] = obj[u] /\ (IsTracked(u)' <=> IsTracked(u))
         /\ pend' \in {0, t}
    BY <2>3, <2>4, <2>5, <2>6
  <2> QED BY <1>2, <1>3, <1>4, <1>6, <2>4, <2>6, <2>7, <2>9, <2>10, <2>11, ServingStep
<1> QED BY <1>4, <1>10, <1>11

(***************************************************************************)
(* RecvMsg.                                                                *)
(***************************************************************************)
LEMMA RecvOver ==
    ASSUME IInv, CallStep, ~Unary, pc = "recv", pc' \in {"done", "failed"}, wire' \in Seq(Msgs),
           WireOrder', WireTruthful', nreq' = nreq, half' = half, ids' = ids,
           sentErrors' \in BOOLEAN, obj' \in [Targets -> [resp : Nat, err : Errs]],
           \A u \in Targets : IsError(u) => obj'[u] = obj[u],
           canned' = canned, chanErr' = chanErr, pend' = pend, hand' = hand,
           seen' \in [Targets -> Seq(Answers)], UNCHANGED appVars,
           pc' = "done" => StreamInv'
    PROVE  IInv'
<1>1. TypeOK /\ PhaseInv
  BY DEF IInv
<1>2. TypeOK'
  <2>1. NetType' /\ SetupType'
    BY <1>1, CallFrame DEF TypeOK, NetType, SetupType, ProxyRests
  <2>2. CallType'
    BY <1>1, CallFrame DEF TypeOK, CallType, appVars
  <2> QED BY <2>1, <2>2, CallFrame DEF TypeOK
<1>3. PhaseInv'
  BY <1>1, CallFrame DEF PhaseInv
<1>4. AccountInv'
  BY AccountKept DEF Before
<1>5. WireAhead' /\ WireComplete'
  BY DEF WireAhead, WireComplete, Listens
<1>6. UnaryInv'
  BY CallFrame DEF UnaryInv
<1>7. StreamInv'
  BY DEF StreamInv
<1> QED BY <1>2, <1>3, <1>4, <1>5, <1>6, <1>7, CallFrame DEF IInv

LEMMA RecvNothingLeftStep ==
    ASSUME IInv, RecvNothingLeft
    PROVE  IInv'
<1>1. TypeOK /\ StreamInv /\ WireOrder /\ WireTruthful
  BY DEF IInv
<1>2. /\ ~Unary /\ pc = "recv" /\ pc' = "done" /\ nreq' = nreq /\ half' = half
      /\ wire' = wire /\ ids' = ids /\ obj' = obj /\ canned' = canned /\ chanErr' = chanErr
      /\ pend' = pend /\ hand' = hand /\ seen' = seen /\ \A id \in Ids : ids[id] = 0
      /\ sentErrors' = sentErrors /\ UNCHANGED appVars
  BY DEF RecvNothingLeft, Tracked, netVars, retVars
<1>3. CallStep
  BY DEF RecvNothingLeft, CallStep, netVars
<1>4. \A t \in Targets : ~IsTracked(t) /\ ~IsTracked(t)'
  BY <1>1, <1>2, Numbers DEF IsTracked
<1>5. \A t : Whole(t)' <=> Whole(t)
  BY <1>2, <1>3, CallFrame DEF Whole, RepliesOf, ProxyRests
<1>6. StreamInv'
  BY <1>1, <1>2, <1>3, <1>4, <1>5, CallFrame DEF StreamInv
<1>7. WireOrder' /\ WireTruthful'
  BY <1>1, <1>2, <1>3, CallFrame DEF WireOrder, WireTruthful, Truthful, Opens, ProxyRests
<1>8. /\ wire' \in Seq(Msgs) /\ sentErrors' \in BOOLEAN /\ seen' \in [Targets -> Seq(Answers)]
      /\ obj' \in [Targets -> [resp : Nat, err : Errs]]
  BY <1>1, <1>2 DEF TypeOK, NetType, SetupType, CallType
<1> QED BY <1>2, <1>3, <1>6, <1>7, <1>8, RecvOver

LEMMA RecvEndsStep ==
    ASSUME IInv, RecvEnds
    PROVE  IInv'
<1>1. TypeOK /\ PhaseInv /\ WireOrder /\ WireTruthful
  BY DEF IInv
<1>2. /\ ~Unary /\ pc = "recv" /\ pc' = (IF ended = "eof" THEN "done" ELSE "failed")
      /\ nreq' = nreq /\ half' = half /\ wire = <<>>
      /\ wire' = wire /\ ids' = ids /\ obj' = obj /\ canned' = canned /\ chanErr' = chanErr
      /\ pend' = pend /\ hand' = hand /\ seen' = seen /\ \E id \in Ids : ids[id] # 0
      /\ sentErrors' = TRUE /\ UNCHANGED appVars
  BY DEF RecvEnds, Tracked, netVars, retVars
<1>3. CallStep
  BY DEF RecvEnds, CallStep, netVars
<1>4. ended # "eof"
  <2>1. SUFFICES ASSUME ended = "eof" PROVE FALSE
    OBVIOUS
  <2>2. PICK id \in Ids : ids[id] # 0
    BY <1>2
  <2>3. PICK t \in Targets : t = ids[id]
    BY <1>1, <2>2, Functions, Numbers
  <2>4. IsTracked(t) /\ Listens
    BY <1>1, <1>2, <2>3 DEF IsTracked, Listens, PhaseInv
  <2> QED BY <1>2, <2>1, <2>4, EndMeansAllClosed
<1>5. WireOrder' /\ WireTruthful'
  BY <1>1, <1>2, <1>3, CallFrame DEF WireOrder, WireTruthful, Truthful, Opens, ProxyRests
<1>6. /\ wire' \in Seq(Msgs) /\ sentErrors' \in BOOLEAN /\ seen' \in [Targets -> Seq(Answers)]
      /\ obj' \in [Targets -> [resp : Nat, err : Errs]]
  BY <1>1, <1>2 DEF TypeOK, NetType, SetupType, CallType
<1> QED BY <1>2, <1>3, <1>4, <1>5, <1>6, RecvOver

LEMMA ErrorsRange ==
    ASSUME TypeOK, NEW u
    PROVE  u \in Range(errors) <=> IsError(u)
<1>1. DOMAIN errors = 1..Len(errors)
  BY Functions
<1> QED BY <1>1 DEF Range, IsError

\* What RecvMsg returns with an answer of a tracked target t.
LEMMA Returned ==
    ASSUME TypeOK, NEW t \in Targets, ~IsError(t), NEW a \in Answers, seen' = Returns(t, a)
    PROVE  /\ seen' \in [Targets -> Seq(Answers)] /\ seen'[t] = Append(seen[t], a)
           /\ \A u \in Targets : u # t /\ (~IsError(u) \/ sentErrors) => seen'[u] = seen[u]
           /\ \A u \in Targets : IsError(u) /\ ~sentErrors => Len(seen'[u]) = Len(seen[u]) + 1
<1> DEFINE Late(u) == ~sentErrors /\ IsError(u)
           First(u) == IF Late(u) THEN Append(seen[u], Answer(u, obj[u])) ELSE seen[u]
<1>1. seen' = [u \in Targets |-> IF u = t THEN Append(First(u), a) ELSE First(u)]
  BY ErrorsRange DEF Returns
<1>2. ASSUME NEW u \in Targets
      PROVE  /\ seen[u] \in Seq(Answers)
             /\ First(u) \in Seq(Answers) /\ Append(First(u), a) \in Seq(Answers)
             /\ Late(u) => Len(First(u)) = Len(seen[u]) + 1
  <2>1. seen[u] \in Seq(Answers) /\ Answer(u, obj[u]) \in Answers
    BY <1>2, Functions, Numbers, AnswerShape
  <2>2. /\ Append(seen[u], Answer(u, obj[u])) \in Seq(Answers)
        /\ Len(Append(seen[u], Answer(u, obj[u]))) = Len(seen[u]) + 1
    BY <2>1, AppendAnswer
  <2>3. First(u) \in Seq(Answers)
    BY <2>1, <2>2
  <2>4. Append(First(u), a) \in Seq(Answers)
    BY <2>3, AppendAnswer
  <2> QED BY <2>1, <2>2, <2>3, <2>4
<1>3. First(t) = seen[t]
  OBVIOUS
<1>4. \A u \in Targets : seen'[u] = IF u = t THEN Append(First(u), a) ELSE First(u)
  BY <1>1
<1>5. seen' \in [Targets -> Seq(Answers)]
  <2> HIDE DEF First, Late
  <2> QED BY <1>1, <1>2
<1>6. seen'[t] = Append(seen[t], a)
  BY <1>3, <1>4
<1>7. \A u \in Targets : u # t /\ (~IsError(u) \/ sentErrors) => seen'[u] = seen[u]
  BY <1>4
<1>8. \A u \in Targets : IsError(u) /\ ~sentErrors => Len(seen'[u]) = Len(seen[u]) + 1
  <2> SUFFICES ASSUME NEW u \in Targets, IsError(u), ~sentErrors
               PROVE  Len(seen'[u]) = Len(seen[u]) + 1
    OBVIOUS
  <2>1. Late(u) /\ u # t
    OBVIOUS
  <2>2. seen'[u] = First(u)
    BY <1>4, <2>1
  <2> QED BY <1>2, <2>1, <2>2
<1> QED BY <1>5, <1>6, <1>7, <1>8

\* The other targets, when RecvMsg returns an answer of t.
LEMMA OthersReturned ==
    ASSUME IInv, CallStep, ~Unary, pc = "recv", NEW t \in Targets, ~IsError(t), NEW a \in Answers,
           seen' = Returns(t, a), sentErrors' = TRUE, NEW u \in Targets, u # t,
           IsTracked(u)' <=> IsTracked(u)
    PROVE  /\ IsError(u)' => Len(seen'[u]) = 1
           /\ ~IsError(u)' => /\ IsTracked(u)' => Partial(u)'
                              /\ ~IsTracked(u)' => Whole(u)'
<1>1. TypeOK /\ StreamInv
  BY DEF IInv
<1>2. /\ ~IsError(u) \/ sentErrors => seen'[u] = seen[u]
      /\ IsError(u) /\ ~sentErrors => Len(seen'[u]) = Len(seen[u]) + 1
  BY <1>1, Returned
<1>3. /\ IsError(u) => Len(seen[u]) = (IF sentErrors THEN 1 ELSE 0)
      /\ ~IsError(u) => /\ IsTracked(u) => Partial(u)
                        /\ ~IsTracked(u) => Whole(u)
  BY <1>1 DEF StreamInv
<1>4. nrep' = nrep /\ srv' = srv /\ (IsError(u)' <=> IsError(u))
  BY CallFrame DEF ProxyRests
<1>5. seen'[u] = seen[u] => (Partial(u)' <=> Partial(u)) /\ (Whole(u)' <=> Whole(u))
  BY <1>4 DEF Partial, Whole, RepliesOf
<1>6. ASSUME IsError(u) PROVE Len(seen'[u]) = 1
  <2>1. CASE sentErrors
    BY <1>2, <1>3, <1>6, <2>1
  <2>2. CASE ~sentErrors
    <3>1. Len(seen[u]) = 0
      BY <1>3, <1>6, <2>2
    <3>2. Len(seen'[u]) = Len(seen[u]) + 1
      BY <1>2, <1>6, <2>2
    <3> QED BY <3>1, <3>2
  <2> QED BY <2>1, <2>2
<1> QED BY <1>2, <1>3, <1>4, <1>5, <1>6

\* The replies of t that were returned, and one more answer.
LEMMA OneMore ==
    ASSUME TypeOK, NEW t \in Targets, Partial(t), NEW a \in Answers,
           seen'[t] = Append(seen[t], a)
    PROVE  /\ Len(seen'[t]) = Len(seen[t]) + 1 /\ seen'[t][Len(seen[t]) + 1] = a
           /\ \A k \in 1..Len(seen[t]) : seen'[t][k] = Answer(t, [resp |-> k, err |-> "nil"])
<1>1. seen[t] \in Seq(Answers)
  BY Functions
<1> QED BY <1>1, AppendAnswer DEF Partial, RepliesOf

LEMMA RecvDataStep ==
    ASSUME IInv, RecvData
    PROVE  IInv'
<1>1. TypeOK /\ PhaseInv /\ StreamInv /\ ProxyInv /\ AccountInv /\ WireInv
  BY DEF IInv, WireInv
<1>2. /\ ~Unary /\ pc = "recv" /\ Shrinks /\ sentErrors' = TRUE /\ Head(wire).k = "data"
      /\ canned' = canned /\ nreq' = nreq /\ half' = half /\ chanErr' = chanErr /\ ids' = ids
      /\ pend' = pend /\ hand' = hand /\ UNCHANGED appVars
  BY DEF RecvData, Receives, Shrinks
<1>3. CallStep
  BY DEF RecvData, CallStep
<1>4. Listens /\ wire' \in Seq(Msgs) /\ wire[1].id \in Ids /\ Head(wire) = wire[1] /\ wire[1].k = "data"
  BY <1>2, ReceivedHead
<1>5. PICK t \in Targets :
        /\ IsTracked(t) /\ ids[wire[1].id] = t /\ ~IsError(t)
        /\ \A u \in Targets : idOf[u] = wire[1].id <=> u = t
        /\ wire[1].n = Read(t) + 1 /\ wire[1].n <= nrep[t]
  BY <1>2, <1>4, ReceivedHead
<1>6. PICK n \in Nat : n = wire[1].n
  BY <1>1, <1>5, ReadNat
<1>7. PICK o : o = [resp |-> n, err |-> "nil"]
  OBVIOUS
<1>8. o \in [resp : Nat, err : Errs] /\ o.resp = n
  BY <1>7 DEF Errs
<1>9. PICK a : a = Answer(t, o)
  OBVIOUS
<1>10. a \in Answers /\ t # 0
  BY <1>1, <1>8, <1>9, AnswerShape, Numbers
<1>11. /\ obj' = [obj EXCEPT ![t] = o] /\ seen' = Returns(t, Answer(t, obj'[t])) /\ pc' = pc
  BY <1>4, <1>5, <1>6, <1>7, <1>10 DEF RecvData
<1>12. /\ obj' \in [Targets -> [resp : Nat, err : Errs]] /\ obj'[t] = o
       /\ \A u \in Targets : u # t => obj'[u] = obj[u]
  <2>1. obj \in [Targets -> [resp : Nat, err : Errs]]
    BY <1>1 DEF TypeOK, SetupType
  <2> QED BY <1>8, <1>11, <2>1
<1>13. seen' = Returns(t, a)
  BY <1>9, <1>11, <1>12
<1>14. /\ seen' \in [Targets -> Seq(Answers)] /\ seen'[t] = Append(seen[t], a)
       /\ \A u \in Targets : u # t /\ ~IsError(u) => seen'[u] = seen[u]
  BY <1>1, <1>5, <1>10, <1>13, Returned
<1>15. \A u : IsTracked(u)' <=> IsTracked(u)
  BY <1>2 DEF IsTracked
<1>16. Partial(t) /\ n = Len(seen[t]) + 1 /\ n <= nrep[t] /\ Len(seen[t]) \in Nat /\ nrep[t] \in Nat
  BY <1>1, <1>2, <1>5, <1>6, Functions DEF StreamInv, Read
<1>17. Partial(t)' /\ Len(seen'[t]) = Len(seen[t]) + 1
  <2>1. /\ Len(seen'[t]) = n /\ seen'[t][n] = Answer(t, [resp |-> n, err |-> "nil"])
        /\ \A k \in 1..Len(seen[t]) : seen'[t][k] = Answer(t, [resp |-> k, err |-> "nil"])
    BY <1>1, <1>7, <1>9, <1>10, <1>14, <1>16, OneMore
  <2>2. \A k \in 1..n : k \in 1..Len(seen[t]) \/ k = n
    BY <1>16
  <2>3. \A k \in 1..n : seen'[t][k] = Answer(t, [resp |-> k, err |-> "nil"])
    BY <2>1, <2>2
  <2>4. nrep' = nrep
    BY <1>3, CallFrame DEF ProxyRests
  <2> QED BY <1>16, <2>1, <2>3, <2>4 DEF Partial, RepliesOf
<1>18. TypeOK'
  <2>1. NetType' /\ SetupType'
    BY <1>1, <1>2, <1>3, <1>4, <1>12, CallFrame DEF TypeOK, NetType, SetupType, ProxyRests
  <2>2. CallType'
    BY <1>1, <1>2, <1>3, <1>11, <1>14, CallFrame DEF TypeOK, CallType, appVars
  <2> QED BY <1>3, <2>1, <2>2, CallFrame DEF TypeOK
<1>19. PhaseInv'
  BY <1>1, <1>2, <1>3, <1>11, CallFrame DEF PhaseInv
<1>20. AccountInv'
  <2>1. \A id \in Ids : ids'[id] \in {0, ids[id]}
    BY <1>2
  <2>2. \A u \in Targets : IsError(u) => obj'[u] = obj[u]
    BY <1>5, <1>12
  <2> QED BY <1>2, <1>3, <1>11, <2>1, <2>2, AccountKept DEF Before
<1>21. WireInv'
  <2>1. \A u \in Targets : Awaited(u) => ~IsError(u)
    <3>1. replies = N
      BY <1>1, <1>2 DEF PhaseInv
    <3> QED BY <1>1, <3>1, TrackedNoError, Numbers DEF Awaited
  <2>2. \A u \in Targets : Read(u) = Len(seen[u]) /\ Read(u)' = Len(seen'[u])
    BY <1>2, <1>3, CallFrame DEF Read
  <2>3. \A u \in Targets : Awaited(u) =>
            Read(u)' = IF idOf[u] = wire[1].id THEN Read(u) + 1 ELSE Read(u)
    BY <1>5, <1>14, <1>17, <2>1, <2>2
  <2> QED BY <1>1, <1>2, <1>3, <1>4, <1>15, <2>3, CallFrame, ReadsData
<1>22. UnaryInv'
  BY <1>2, <1>3, CallFrame DEF UnaryInv
<1>23. StreamInv'
  <2>1. ASSUME NEW u \in Targets, u # t
        PROVE  /\ IsError(u)' => Len(seen'[u]) = 1
               /\ ~IsError(u)' => /\ IsTracked(u)' => Partial(u)'
                                  /\ ~IsTracked(u)' => Whole(u)'
    BY <1>2, <1>3, <1>5, <1>10, <1>13, <1>15, <2>1, OthersReturned
  <2>2. ~IsError(t)' /\ IsTracked(t)' /\ Partial(t)'
    BY <1>3, <1>5, <1>15, <1>17, CallFrame
  <2> QED BY <1>2, <1>3, <1>11, <2>1, <2>2, CallFrame DEF StreamInv
<1> QED BY <1>3, <1>18, <1>19, <1>20, <1>21, <1>22, <1>23, CallFrame DEF IInv, WireInv

LEMMA RecvClosedStep ==
    ASSUME IInv, RecvClosed
    PROVE  IInv'
<1>1. TypeOK /\ PhaseInv /\ StreamInv /\ ProxyInv /\ AccountInv /\ WireInv
  BY DEF IInv, WireInv
<1>2. /\ ~Unary /\ pc = "recv" /\ Shrinks /\ sentErrors' = TRUE /\ Head(wire).k # "data"
      /\ canned' = canned /\ nreq' = nreq /\ half' = half /\ chanErr' = chanErr
      /\ pend' = pend /\ hand' = hand /\ nmsg' = nmsg
  BY DEF RecvClosed, Receives, Shrinks
<1>3. CallStep
  BY DEF RecvClosed, CallStep
<1>4. /\ Listens /\ wire' \in Seq(Msgs) /\ wire[1].id \in Ids /\ Head(wire) = wire[1]
      /\ wire[1].k = "close"
  BY <1>2, ReceivedHead
<1>5. PICK t \in Targets :
        /\ IsTracked(t) /\ ids[wire[1].id] = t /\ ~IsError(t)
        /\ \A u \in Targets : idOf[u] = wire[1].id <=> u = t
        /\ \A id \in Ids : ids[id] = t <=> id = wire[1].id
        /\ srv[t] = wire[1].st /\ Read(t) >= nrep[t] /\ wire[1].st \in {"ok", "failed"}
  BY <1>2, <1>4, ReceivedHead
<1>6. PICK x \in Ids : x = wire[1].id
  BY <1>4
<1>7. PICK e : e = IF wire[1].st = "ok" THEN "EOF" ELSE "fail"
  OBVIOUS
<1>8. PICK o : o = [resp |-> 0, err |-> e]
  OBVIOUS
<1>9. o \in [resp : Nat, err : Errs] /\ o.err = e
  <2>1. e \in Errs
    BY <1>7 DEF Errs
  <2> QED BY <1>8, <2>1
<1>10. PICK a : a = Answer(t, o)
  OBVIOUS
<1>11. a \in Answers /\ a.err = e /\ t # 0 /\ ClosedTarget(wire[1]) = t
  BY <1>1, <1>4, <1>5, <1>9, <1>10, AnswerShape, Numbers DEF ClosedTarget
<1>12. /\ obj' = [obj EXCEPT ![t] = o] /\ seen' = Returns(t, Answer(t, obj'[t]))
       /\ IF Many
          THEN /\ ids' = [ids EXCEPT ![x] = 0]
               /\ crashed' \in (IF app = "iter" THEN BOOLEAN ELSE {FALSE})
               /\ pc' = (IF crashed' THEN "failed" ELSE pc)
               /\ app' = (IF crashed' THEN "closed" ELSE app)
          ELSE /\ pc' = IF e = "EOF" THEN "done" ELSE "failed"
               /\ UNCHANGED <<ids, app, crashed>>
  BY <1>4, <1>6, <1>7, <1>8, <1>11 DEF RecvClosed
<1>13. /\ obj' \in [Targets -> [resp : Nat, err : Errs]] /\ obj'[t] = o
       /\ \A u \in Targets : u # t => obj'[u] = obj[u]
  <2>1. obj \in [Targets -> [resp : Nat, err : Errs]]
    BY <1>1 DEF TypeOK, SetupType
  <2> QED BY <1>9, <1>12, <2>1
<1>14. seen' = Returns(t, a)
  BY <1>10, <1>12, <1>13
<1>15. /\ seen' \in [Targets -> Seq(Answers)] /\ seen'[t] = Append(seen[t], a)
       /\ \A u \in Targets : u # t /\ ~IsError(u) => seen'[u] = seen[u]
  BY <1>1, <1>5, <1>11, <1>14, Returned
<1>16. Partial(t) /\ Len(seen[t]) = nrep[t] /\ nrep[t] \in Nat
  BY <1>1, <1>2, <1>5, Functions DEF StreamInv, Read, Partial
<1>17. Whole(t)'
  <2>1. /\ Len(seen'[t]) = nrep[t] + 1 /\ seen'[t][nrep[t] + 1] = a
        /\ \A k \in 1..nrep[t] : seen'[t][k] = Answer(t, [resp |-> k, err |-> "nil"])
    <3>1. /\ Len(seen'[t]) = Len(seen[t]) + 1 /\ seen'[t][Len(seen[t]) + 1] = a
          /\ \A k \in 1..Len(seen[t]) : seen'[t][k] = Answer(t, [resp |-> k, err |-> "nil"])
      BY <1>1, <1>11, <1>15, <1>16, OneMore
    <3> QED BY <1>16, <3>1
  <2>2. nrep' = nrep /\ srv' = srv
    BY <1>3, CallFrame DEF ProxyRests
  <2>3. a.err = (IF srv[t] = "ok" THEN "EOF" ELSE "fail") /\ srv[t] \in {"ok", "failed"}
    BY <1>5, <1>7, <1>11
  <2> QED BY <2>1, <2>2, <2>3 DEF Whole, RepliesOf
<1>18. WireOrder' /\ WireTruthful'
  BY <1>1, <1>2, <1>3, CallFrame, OrderShrinks DEF WireInv, ProxyRests
<1>19. \A u \in Targets : IsError(u) => obj'[u] = obj[u]
  BY <1>5, <1>13
<1>20. CASE ~Many
  <2>1. pc' \in {"done", "failed"} /\ ids' = ids /\ UNCHANGED appVars
    BY <1>2, <1>12, <1>20 DEF appVars
  <2>2. ASSUME pc' = "done" PROVE StreamInv'
    <3>1. Targets = {t}
      BY <1>1, <1>20, Numbers DEF TypeOK, ProxyType
    <3>2. ~IsError(t)'
      BY <1>3, <1>5, CallFrame
    <3> QED BY <1>2, <1>3, <1>17, <2>2, <3>1, <3>2, CallFrame DEF StreamInv
  <2>3. sentErrors' \in BOOLEAN
    BY <1>2
  <2> QED BY <1>2, <1>3, <1>4, <1>13, <1>15, <1>18, <1>19, <2>1, <2>2, <2>3, RecvOver
<1>21. CASE Many
  <2>1. /\ ids' = [ids EXCEPT ![x] = 0] /\ crashed' \in BOOLEAN
        /\ pc' = (IF crashed' THEN "failed" ELSE "recv")
        /\ app' = (IF crashed' THEN "closed" ELSE app)
    BY <1>2, <1>12, <1>21
  <2>2. /\ ids' \in [Ids -> 0..N] /\ ids'[x] = 0 /\ \A id \in Ids : id # x => ids'[id] = ids[id]
    BY <1>1, <2>1, Numbers DEF TypeOK, SetupType
  <2>3. \A u \in Targets : IsTracked(u)' <=> IsTracked(u) /\ u # t
    BY <1>1, <1>5, <1>6, <2>2, Numbers DEF IsTracked
  <2>4. TypeOK'
    <3>1. NetType' /\ SetupType'
      BY <1>1, <1>2, <1>3, <1>4, <1>13, <2>2, CallFrame DEF TypeOK, NetType, SetupType,
         ProxyRests
    <3>2. CallType'
      BY <1>1, <1>2, <1>3, <1>15, <2>1, CallFrame DEF TypeOK, CallType
    <3> QED BY <1>3, <3>1, <3>2, CallFrame DEF TypeOK
  <2>5. PhaseInv'
    BY <1>1, <1>2, <1>3, <2>1, CallFrame DEF PhaseInv
  <2>6. AccountInv'
    <3>1. \A id \in Ids : ids'[id] \in {0, ids[id]}
      BY <2>2
    <3>2. pc' \notin Before
      BY <2>1 DEF Before
    <3> QED BY <1>3, <1>19, <3>1, <3>2, AccountKept
  <2>7. WireInv'
    <3>1. CASE crashed'
      <4>1. ~Listens'
        BY <2>1, <3>1 DEF Listens
      <4> QED BY <1>18, <4>1 DEF WireInv, WireAhead, WireComplete
    <3>2. \A u \in Targets : Awaited(u) => ~IsError(u)
      <4>1. replies = N
        BY <1>1, <1>2 DEF PhaseInv
      <4> QED BY <1>1, <4>1, TrackedNoError, Numbers DEF Awaited
    <3>3. \A u \in Targets : Read(u) = Len(seen[u]) /\ Read(u)' = Len(seen'[u])
      BY <1>2, <1>3, CallFrame DEF Read
    <3>4. \A u \in Targets : Awaited(u) /\ idOf[u] # wire[1].id => Read(u)' = Read(u)
      BY <1>5, <1>15, <3>2, <3>3
    <3>5. \A u \in Targets : IsTracked(u)' <=> IsTracked(u) /\ idOf[u] # wire[1].id
      BY <1>5, <2>3
    <3>6. CASE ~crashed'
      BY <1>1, <1>2, <1>3, <1>4, <3>4, <3>5, CallFrame, ReadsClose
    <3> QED BY <3>1, <3>6
  <2>8. UnaryInv'
    BY <1>2, <1>3, CallFrame DEF UnaryInv
  <2>9. StreamInv'
    <3>1. ASSUME NEW u \in Targets, u # t
          PROVE  /\ IsError(u)' => Len(seen'[u]) = 1
                 /\ ~IsError(u)' => /\ IsTracked(u)' => Partial(u)'
                                    /\ ~IsTracked(u)' => Whole(u)'
      BY <1>2, <1>3, <1>5, <1>11, <1>14, <2>3, <3>1, OthersReturned
    <3>2. ~IsError(t)' /\ ~IsTracked(t)' /\ Whole(t)'
      BY <1>3, <1>5, <1>17, <2>3, CallFrame
    <3> QED BY <1>2, <1>3, <2>1, <3>1, <3>2, CallFrame DEF StreamInv
  <2> QED BY <1>3, <2>4, <2>5, <2>6, <2>7, <2>8, <2>9, CallFrame DEF IInv, WireInv
<1> QED BY <1>20, <1>21

(***************************************************************************)
(* The theorems.                                                           *)
(***************************************************************************)
LEMMA InitLemma ==
    ASSUME Init
    PROVE  IInv
<1>1. /\ N \in 1..MaxTargets /\ mode \in {"unary", "stream", "message"} /\ (~Many => N = 1)
      /\ N \in Nat \ {0} /\ Targets = 1..N
  BY ClientAssumption DEF Init, Targets
<1>2. TypeOK
  <2>1. ProxyType
    <3>1. nsent = 0 /\ nstart = 0 /\ 0 \in 0..N /\ 0 \in 0..0
      BY <1>1 DEF Init
    <3>2. /\ idOf \in [Targets -> Ids \cup {NoId}] /\ nrep \in [Targets -> Nat]
          /\ srv \in [Targets -> {"none", "open", "ok", "failed"}]
      BY DEF Init
    <3> QED BY <1>1, <3>1, <3>2 DEF ProxyType
  <2>2. "nil" \in Errs /\ <<>> \in Seq(Msgs) /\ <<>> \in Seq(Nat) /\ <<>> \in Seq(Answers)
    BY DEF Errs
  <2>3. NetType
    BY <2>2 DEF Init, NetType
  <2>4. SetupType
    <3>1. ids \in [Ids -> 0..N] /\ obj \in [Targets -> [resp : Nat, err : Errs]]
      BY <1>1, <2>2 DEF Init
    <3>2. replies \in 0..N
      BY <1>1 DEF Init
    <3>3. sendErr \in BOOLEAN /\ recvErr \in BOOLEAN /\ sentErrors \in BOOLEAN
      BY DEF Init
    <3> QED BY <2>2, <3>1, <3>2, <3>3 DEF Init, SetupType
  <2>5. CallType
    <3>1. seen \in [Targets -> Seq(Answers)]
      BY <2>2 DEF Init
    <3>2. canned \in Nat /\ pend \in 0..N /\ hand \in 0..N /\ nmsg \in Nat
      BY <1>1 DEF Init
    <3>3. crashed \in BOOLEAN
      BY DEF Init
    <3> QED BY <2>2, <3>1, <3>2, <3>3 DEF Init, CallType
  <2> QED BY <2>1, <2>3, <2>4, <2>5 DEF TypeOK
<1>3. PhaseInv
  BY <1>1 DEF Init, PhaseInv
<1>4. ProxyInv
  BY <1>1 DEF Init, ProxyInv
<1>5. WireOrder /\ WireTruthful /\ WireAhead /\ WireComplete
  BY <1>1 DEF Init, WireOrder, WireTruthful, WireAhead, WireComplete
<1>6. AccountInv
  BY <1>1 DEF Init, AccountInv
<1>7. UnaryInv /\ StreamInv
  BY DEF Init, UnaryInv, StreamInv
<1> QED BY <1>2, <1>3, <1>4, <1>5, <1>6, <1>7 DEF IInv

LEMMA NextLemma ==
    ASSUME IInv, [Next]_vars
    PROVE  IInv'
<1>1. CASE Proxy
  BY <1>1, AnnouncesStep, RefusesStep, RepliesStep, ClosesStep, FailsStep, EndsStep DEF Proxy
<1>2. CASE SetupSend
  BY <1>2, SetupSendStep
<1>3. CASE Setup
  BY <1>3, SetupRecvStep, SetupRecvEndsStep, SetupReturnsStep DEF Setup
<1>4. CASE Invoke
  BY <1>4, InvokeSendStep, InvokeCloseStep, PushCannedStep, InvokeRecvStep, InvokeRecvEndsStep,
     FlushEndsStep, FlushStep DEF Invoke
<1>5. CASE Channel
  BY <1>5, PushStep, CallerReadsStep DEF Channel
<1>6. CASE RecvMsg
  BY <1>6, RecvNothingLeftStep, RecvDataStep, RecvClosedStep, RecvEndsStep DEF RecvMsg
<1>7. CASE SendMsg
  BY <1>7, SendMsgStep
<1>8. CASE Finished \/ UNCHANGED vars
  BY <1>8, StutterStep DEF Finished
<1> QED BY <1>1, <1>2, <1>3, <1>4, <1>5, <1>6, <1>7, <1>8 DEF Next

\* The wire, the accounts of createStreams and what the caller was told agree at
\* every step of a call, for every number of targets and replies.
THEOREM Invariance == Spec => []IInv
BY InitLemma, NextLemma, PTL DEF Spec

\* createStreams accounts for every target: tracked under its own stream, or its
\* error kept once, and never both (proxy.go:431-580).
THEOREM SetupHolds == Spec => []SetupAccounts
<1>1. ASSUME IInv PROVE SetupAccounts
  <2>1. TypeOK /\ PhaseInv /\ AccountInv /\ StreamInv
    BY <1>1 DEF IInv
  <2>2. \A t \in Targets : t \in Range(errors) <=> IsError(t)
    BY <2>1, ErrorsRange
  <2>3. \A t \in Targets : (\E id \in Tracked : ids[id] = t) <=> IsTracked(t)
    BY <2>1, Numbers DEF Tracked, IsTracked
  <2>4. ASSUME pc = "send" \/ (pc = "recv" /\ ~Unary /\ \A t \in Targets : seen[t] = <<>>),
               NEW t \in Targets
        PROVE  IsTracked(t) <=> ~IsError(t)
    <3>1. CASE pc = "send"
      BY <1>1, <3>1, AllAccounted
    <3>2. CASE pc = "recv" /\ ~Unary /\ seen[t] = <<>>
      <4>1. ~IsError(t) => IsTracked(t)
        <5>1. SUFFICES ASSUME ~IsError(t), ~IsTracked(t) PROVE FALSE
          OBVIOUS
        <5>2. Len(seen[t]) = nrep[t] + 1 /\ nrep[t] \in Nat
          BY <2>1, <3>2, <5>1, Functions DEF StreamInv, Whole
        <5> QED BY <3>2, <5>2
      <4> QED BY <2>1, <4>1, TrackedNoError
    <3> QED BY <2>4, <3>1, <3>2
  <2>5. \A id \in Tracked : idOf[ids[id]] = id
    BY <2>1 DEF Tracked, AccountInv
  <2>6. \A j, k \in 1..Len(errors) : errors[j] = errors[k] => j = k
    BY <2>1 DEF AccountInv
  <2> QED BY <2>2, <2>3, <2>4, <2>5, <2>6 DEF SetupAccounts
<1> QED BY <1>1, Invariance, PTL

\* When retChan is closed the caller of InvokeOneMany has heard of every target:
\* its reply, without an error and once, or an error (proxy.go:583-707).
THEOREM UnaryHolds == Spec => []UnaryAnswers
<1>1. ASSUME IInv PROVE UnaryAnswers
  <2>1. SUFFICES ASSUME Unary, pc = "done", hand = 0, NEW t \in Targets
        PROVE  /\ seen[t] # <<>>
               /\ \A k \in 1..Len(seen[t]) :
                     seen[t][k].err = "nil" => seen[t][k].resp = 1 /\ nrep[t] = 1
               /\ chanErr = "nil" => /\ Len(seen[t]) = 1
                                     /\ seen[t][1].err = "nil" <=> srv[t] = "ok"
    BY DEF UnaryAnswers
  <2>2. TypeOK /\ PhaseInv /\ AccountInv /\ UnaryInv
    BY <1>1 DEF IInv
  <2>3. Served(t) /\ ~IsTracked(t) /\ pend = 0 /\ t # 0 /\ canned = Len(errors)
    BY <2>1, <2>2, Numbers DEF UnaryInv, PhaseInv
  <2>4. Due(t)
    BY <2>3 DEF Due, IsError
  <2>5. seen[t] # <<>> /\ seen[t][Len(seen[t])] = Answer(t, obj[t])
    BY <2>1, <2>3, <2>4 DEF Served, Heard
  <2>6. seen[t] \in Seq(Answers) /\ Len(seen[t]) \in Nat /\ Answer(t, obj[t]).err = obj[t].err
    BY <2>2, Functions, Numbers, AnswerShape
  <2>7. ASSUME chanErr = "nil" PROVE Len(seen[t]) = 1
    <3>1. Len(seen[t]) # 0
      BY <2>5, <2>6
    <3>2. Len(seen[t]) <= 1
      BY <2>3, <2>7 DEF Served
    <3>3. \A n \in Nat : n # 0 /\ n <= 1 => n = 1
      OBVIOUS
    <3>4. Len(seen[t]) \in Nat
      BY <2>6
    <3> QED BY <3>1, <3>2, <3>3, <3>4
  <2> QED BY <2>3, <2>5, <2>6, <2>7 DEF Served
<1> QED BY <1>1, Invariance, PTL

\* Invoke succeeds exactly when its target answered, its stream ended well and the
\* RPC was not lost before that was known (proxy.go:154-176).
THEOREM InvokeHolds == Spec => []InvokeTruthful
<1>1. ASSUME IInv, UnaryAnswers PROVE InvokeTruthful
  <2>1. SUFFICES ASSUME Unary, N = 1, pc = "done", hand = 0
                 PROVE  InvokeVerdict = "OK" <=> srv[1] = "ok" /\ chanErr = "nil"
    BY DEF InvokeTruthful
  <2>2. TypeOK /\ PhaseInv /\ AccountInv /\ UnaryInv
    BY <1>1 DEF IInv
  <2>3. 1 \in Targets /\ \A u \in Targets : u = 1
    BY <2>1, <2>2, Numbers
  <2>4. CASE chanErr = "nil"
    BY <1>1, <2>1, <2>3, <2>4 DEF UnaryAnswers, InvokeVerdict
  <2>5. CASE chanErr # "nil"
    <3>1. Served(1) /\ ~IsTracked(1) /\ pend = 0 /\ canned = Len(errors)
      BY <2>1, <2>2, <2>3 DEF UnaryInv, PhaseInv
    <3>2. obj[1].err # "nil"
      BY <2>1, <2>2, <2>3, <2>5 DEF UnaryInv
    <3>3. Due(1)
      BY <3>1 DEF Due, IsError
    <3>4. seen[1] # <<>> /\ seen[1][Len(seen[1])] = Answer(1, obj[1])
      BY <2>1, <3>1, <3>3 DEF Served, Heard
    <3>5. Answer(1, obj[1]).err = obj[1].err
      BY <2>2, <2>3, Functions, Numbers, AnswerShape
    <3>6. Len(seen[1]) = 1 => seen[1][1].err # "nil"
      BY <3>2, <3>4, <3>5
    <3> QED BY <2>5, <3>6 DEF InvokeVerdict
  <2> QED BY <2>4, <2>5
<1> QED BY <1>1, Invariance, UnaryHolds, PTL

\* A streaming caller that reads to io.EOF has every reply of every target that was
\* set up, in order, and its end; and the errors of the others, unless there is no
\* stream at all (proxy.go:312, 361-428).
THEOREM StreamHolds == Spec => []StreamAnswers
<1>1. ASSUME IInv PROVE StreamAnswers
  <2>1. SUFFICES ASSUME ~Unary, pc = "done" PROVE StreamAnswers
    BY DEF StreamAnswers
  <2>2. TypeOK /\ StreamInv /\ AccountInv
    BY <1>1 DEF IInv
  <2>3. \A t \in Targets : t \in Range(errors) <=> IsError(t)
    BY <2>2, ErrorsRange
  <2>4. \A t \in Targets : ~IsError(t) => Whole(t)
    BY <2>1, <2>2 DEF StreamInv
  <2>5. Range(errors) \subseteq Targets
    <3>1. \A k \in 1..Len(errors) : errors[k] \in Targets
      BY <2>2, Numbers DEF AccountInv
    <3>2. DOMAIN errors = 1..Len(errors)
      BY <2>2, Functions
    <3> QED BY <3>1, <3>2 DEF Range
  <2>6. ASSUME Range(errors) # Targets, NEW t \in Range(errors) PROVE seen[t] # <<>>
    <3>1. PICK u \in Targets : ~IsError(u)
      BY <2>3, <2>5, <2>6
    <3>2. sentErrors
      BY <2>1, <2>2, <2>4, <3>1 DEF StreamInv
    <3>3. t \in Targets /\ IsError(t)
      BY <2>3, <2>5, <2>6
    <3>4. Len(seen[t]) = 1
      BY <2>1, <2>2, <3>2, <3>3 DEF StreamInv
    <3> QED BY <3>4
  <2> QED BY <2>3, <2>4, <2>6 DEF StreamAnswers, Whole, RepliesOf
<1> QED BY <1>1, Invariance, PTL
===============================================================================
