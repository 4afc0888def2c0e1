--------------------------- MODULE MpaStore_proofs ---------------------------
(***************************************************************************)
(* Theorems about MpaStore, for every set of actions, principals, waiters  *)
(* and calls and for all limits.  One lemma per action shows that it       *)
(* preserves the inductive invariant IInv; the theorems follow.            *)
(***************************************************************************)
EXTENDS MpaStore, FiniteSetTheorems, TLAPS

USE DEF Addrs

LEMMA TickStep ==
    ASSUME IInv, Tick
    PROVE  IInv'
<1> USE ActionsAssumption, LimitsAssumption DEF IInv, Tick, storeVars, waiterVars, callVars
<1>1. TypeOK'
  BY DEF TypeOK
<1>2. ObjectsInv'
  BY DEF TypeOK, ObjectsInv, StoringInv
<1>3. StoringInv'
  BY DEF TypeOK, StoringInv
<1>4. WaitersInv'
  BY DEF TypeOK, ObjectsInv, WaitersInv
<1>5. CallsInv'
  BY DEF TypeOK, CallsInv
<1>6. HookApproversGenuine'
  BY DEF TypeOK, ObjectsInv, CallsInv, HookApproversGenuine
<1> QED BY <1>1, <1>2, <1>3, <1>4, <1>5, <1>6

LEMMA StoreBeginStep ==
    ASSUME IInv, NEW a \in Actions, StoreBegin(a)
    PROVE  IInv'
<1> USE ActionsAssumption, LimitsAssumption DEF IInv, StoreBegin, Free, storeVars, waiterVars, callVars
<1>1. TypeOK'
  BY DEF TypeOK
<1>2. ObjectsInv'
  BY DEF TypeOK, ObjectsInv, StoringInv
<1>3. StoringInv'
  BY DEF TypeOK, StoringInv
<1>4. WaitersInv'
  BY DEF TypeOK, ObjectsInv, WaitersInv
<1>5. CallsInv'
  BY DEF TypeOK, CallsInv
<1>6. HookApproversGenuine'
  BY DEF TypeOK, ObjectsInv, CallsInv, HookApproversGenuine
<1> QED BY <1>1, <1>2, <1>3, <1>4, <1>5, <1>6

LEMMA StoreEvictStep ==
    ASSUME IInv, NEW a \in Actions, StoreEvict(a)
    PROVE  IInv'
<1> USE ActionsAssumption, LimitsAssumption DEF IInv, StoreEvict, deleteActionLocked, Free, Stored, storeVars, waiterVars, callVars
<1>1. TypeOK'
  BY SMTT(30) DEF TypeOK
<1>2. ObjectsInv'
  BY DEF TypeOK, ObjectsInv, StoringInv
<1>3. StoringInv'
  BY DEF TypeOK, StoringInv
<1>4. WaitersInv'
  BY DEF TypeOK, ObjectsInv, WaitersInv
<1>5. CallsInv'
  BY DEF TypeOK, CallsInv
<1>6. HookApproversGenuine'
  BY DEF TypeOK, ObjectsInv, CallsInv, HookApproversGenuine
<1> QED BY <1>1, <1>2, <1>3, <1>4, <1>5, <1>6

LEMMA StoreInsertStep ==
    ASSUME IInv, StoreInsert
    PROVE  IInv'
<1> USE ActionsAssumption, LimitsAssumption DEF IInv, StoreInsert, Free, storeVars, waiterVars, callVars
<1>1. TypeOK'
  BY SMTT(30) DEF TypeOK, StoringInv
<1>2. ObjectsInv'
  BY DEF TypeOK, ObjectsInv, StoringInv
<1>3. StoringInv'
  BY DEF TypeOK, StoringInv
<1>4. WaitersInv'
  BY DEF TypeOK, ObjectsInv, WaitersInv
<1>5. CallsInv'
  <2> SUFFICES ASSUME NEW c \in Calls, NEW a \in Actions, cpc[c] = "get", actions'[a] # 0
               PROVE  lastModified'[actions'[a]] >= ctime[c] - maxMPAApprovedAge
    BY DEF TypeOK, CallsInv
  <2>1. CASE a = storing
    BY <2>1 DEF TypeOK, StoringInv, CallsInv
  <2>2. CASE a # storing
    <3>1. actions'[a] = actions[a] /\ actions[a] \in 1..nobj
      BY <2>2 DEF TypeOK, StoringInv
    <3>2. lastModified'[actions[a]] = lastModified[actions[a]]
      BY <3>1 DEF TypeOK, StoringInv
    <3> QED BY <3>1, <3>2 DEF CallsInv
  <2> QED BY <2>1, <2>2
<1>6. HookApproversGenuine'
  BY SMTT(30) DEF TypeOK, ObjectsInv, CallsInv, HookApproversGenuine
<1> QED BY <1>1, <1>2, <1>3, <1>4, <1>5, <1>6

LEMMA ApproveStep ==
    ASSUME IInv, NEW a \in Actions, NEW p \in Principals, Approve(a, p)
    PROVE  IInv'
<1> USE ActionsAssumption, LimitsAssumption DEF IInv, Approve, Free, storeVars, waiterVars, callVars
<1>1. TypeOK'
  BY SMTT(30) DEF TypeOK
<1>2. ObjectsInv'
  BY DEF TypeOK, ObjectsInv, StoringInv
<1>3. StoringInv'
  BY DEF TypeOK, StoringInv
<1>4. WaitersInv'
  BY DEF TypeOK, ObjectsInv, WaitersInv
<1>5. CallsInv'
  BY DEF TypeOK, CallsInv
<1>6. HookApproversGenuine'
  <2> SUFFICES ASSUME NEW c \in Calls, cpc[c] = "eval", capp[c] # {}
               PROVE  /\ action[cact[c]] = cin[c] /\ capp[c] \subseteq approvers'[cact[c]]
                      /\ \A q \in capp[c] : UserOf[q] # Requestor[cin[c]]
                      /\ lastModified'[cact[c]] >= ctime[c] - maxMPAApprovedAge
    BY DEF HookApproversGenuine
  <2>1. cact[c] \in Addrs /\ actions[a] \in Addrs /\ ctime[c] <= now
    BY DEF TypeOK, CallsInv
  <2>2. /\ action[cact[c]] = cin[c] /\ capp[c] \subseteq approvers[cact[c]]
        /\ \A q \in capp[c] : UserOf[q] # Requestor[cin[c]]
        /\ lastModified[cact[c]] >= ctime[c] - maxMPAApprovedAge
    BY DEF HookApproversGenuine
  <2>3. approvers[cact[c]] \subseteq approvers'[cact[c]]
    BY <2>1 DEF TypeOK
  <2>4. lastModified'[cact[c]] \in {now, lastModified[cact[c]]}
    BY <2>1 DEF TypeOK
  <2>5. now >= ctime[c] - maxMPAApprovedAge
    BY <2>1 DEF TypeOK
  <2> QED BY <2>2, <2>3, <2>4, <2>5
<1> QED BY <1>1, <1>2, <1>3, <1>4, <1>5, <1>6

LEMMA ClearStep ==
    ASSUME IInv, NEW a \in Actions, Clear(a)
    PROVE  IInv'
<1> USE ActionsAssumption, LimitsAssumption DEF IInv, Clear, deleteActionLocked, Free, storeVars, waiterVars, callVars
<1>1. TypeOK'
  BY DEF TypeOK
<1>2. ObjectsInv'
  BY DEF TypeOK, ObjectsInv, StoringInv
<1>3. StoringInv'
  BY DEF TypeOK, StoringInv
<1>4. WaitersInv'
  BY DEF TypeOK, ObjectsInv, WaitersInv
<1>5. CallsInv'
  BY DEF TypeOK, CallsInv
<1>6. HookApproversGenuine'
  BY DEF TypeOK, ObjectsInv, CallsInv, HookApproversGenuine
<1> QED BY <1>1, <1>2, <1>3, <1>4, <1>5, <1>6

LEMMA RestartStep ==
    ASSUME IInv, Restart
    PROVE  IInv'
<1> USE ActionsAssumption, LimitsAssumption DEF IInv, Restart, storeVars, waiterVars, callVars
<1>1. TypeOK'
  BY DEF TypeOK
<1>2. ObjectsInv'
  BY DEF TypeOK, ObjectsInv, StoringInv
<1>3. StoringInv'
  BY DEF TypeOK, StoringInv
<1>4. WaitersInv'
  BY DEF TypeOK, ObjectsInv, WaitersInv
<1>5. CallsInv'
  BY DEF TypeOK, CallsInv
<1>6. HookApproversGenuine'
  BY DEF TypeOK, ObjectsInv, CallsInv, HookApproversGenuine
<1> QED BY <1>1, <1>2, <1>3, <1>4, <1>5, <1>6

LEMMA ListStep ==
    ASSUME IInv, List
    PROVE  IInv'
<1> USE ActionsAssumption, LimitsAssumption DEF IInv, List, clearOutdatedApprovals, Outdated, Free, storeVars, waiterVars, callVars
<1>1. TypeOK'
  BY DEF TypeOK
<1>2. ObjectsInv'
  BY DEF TypeOK, ObjectsInv, StoringInv
<1>3. StoringInv'
  BY DEF TypeOK, StoringInv
<1>4. WaitersInv'
  BY DEF TypeOK, ObjectsInv, WaitersInv
<1>5. CallsInv'
  BY DEF TypeOK, CallsInv
<1>6. HookApproversGenuine'
  BY DEF TypeOK, ObjectsInv, CallsInv, HookApproversGenuine
<1> QED BY <1>1, <1>2, <1>3, <1>4, <1>5, <1>6

LEMMA WaitBeginStep ==
    ASSUME IInv, NEW w \in Waiters, NEW a \in Actions, WaitBegin(w, a)
    PROVE  IInv'
<1> USE ActionsAssumption, LimitsAssumption DEF IInv, WaitBegin, storeVars, waiterVars, callVars
<1>1. TypeOK'
  BY DEF TypeOK
<1>2. ObjectsInv'
  BY DEF TypeOK, ObjectsInv, StoringInv
<1>3. StoringInv'
  BY DEF TypeOK, StoringInv
<1>4. WaitersInv'
  BY DEF TypeOK, ObjectsInv, WaitersInv
<1>5. CallsInv'
  BY DEF TypeOK, CallsInv
<1>6. HookApproversGenuine'
  BY DEF TypeOK, ObjectsInv, CallsInv, HookApproversGenuine
<1> QED BY <1>1, <1>2, <1>3, <1>4, <1>5, <1>6

LEMMA WaitLookupStep ==
    ASSUME IInv, NEW w \in Waiters, WaitLookup(w)
    PROVE  IInv'
<1> USE ActionsAssumption, LimitsAssumption DEF IInv, WaitLookup, Free, storeVars, waiterVars, callVars
<1>1. TypeOK'
  BY DEF TypeOK, WaitersInv
<1>2. ObjectsInv'
  BY DEF TypeOK, ObjectsInv, StoringInv
<1>3. StoringInv'
  BY DEF TypeOK, StoringInv
<1>4. WaitersInv'
  BY DEF TypeOK, ObjectsInv, WaitersInv
<1>5. CallsInv'
  BY DEF TypeOK, CallsInv
<1>6. HookApproversGenuine'
  BY DEF TypeOK, ObjectsInv, CallsInv, HookApproversGenuine
<1> QED BY <1>1, <1>2, <1>3, <1>4, <1>5, <1>6

LEMMA WaitApprovedStep ==
    ASSUME IInv, NEW w \in Waiters, WaitApproved(w)
    PROVE  IInv'
<1> USE ActionsAssumption, LimitsAssumption DEF IInv, WaitApproved, storeVars, waiterVars, callVars
<1>1. TypeOK'
  BY DEF TypeOK
<1>2. ObjectsInv'
  BY DEF TypeOK, ObjectsInv, StoringInv
<1>3. StoringInv'
  BY DEF TypeOK, StoringInv
<1>4. WaitersInv'
  BY DEF TypeOK, ObjectsInv, WaitersInv
<1>5. CallsInv'
  BY DEF TypeOK, CallsInv
<1>6. HookApproversGenuine'
  BY DEF TypeOK, ObjectsInv, CallsInv, HookApproversGenuine
<1> QED BY <1>1, <1>2, <1>3, <1>4, <1>5, <1>6

LEMMA WaitTimeoutStep ==
    ASSUME IInv, NEW w \in Waiters, WaitTimeout(w)
    PROVE  IInv'
<1> USE ActionsAssumption, LimitsAssumption DEF IInv, WaitTimeout, storeVars, waiterVars, callVars
<1>1. TypeOK'
  BY DEF TypeOK
<1>2. ObjectsInv'
  BY DEF TypeOK, ObjectsInv, StoringInv
<1>3. StoringInv'
  BY DEF TypeOK, StoringInv
<1>4. WaitersInv'
  BY DEF TypeOK, ObjectsInv, WaitersInv
<1>5. CallsInv'
  BY DEF TypeOK, CallsInv
<1>6. HookApproversGenuine'
  BY DEF TypeOK, ObjectsInv, CallsInv, HookApproversGenuine
<1> QED BY <1>1, <1>2, <1>3, <1>4, <1>5, <1>6

LEMMA WaitCancelledStep ==
    ASSUME IInv, NEW w \in Waiters, WaitCancelled(w)
    PROVE  IInv'
<1> USE ActionsAssumption, LimitsAssumption DEF IInv, WaitCancelled, storeVars, waiterVars, callVars
<1>1. TypeOK'
  BY DEF TypeOK
<1>2. ObjectsInv'
  BY DEF TypeOK, ObjectsInv, StoringInv
<1>3. StoringInv'
  BY DEF TypeOK, StoringInv
<1>4. WaitersInv'
  BY DEF TypeOK, ObjectsInv, WaitersInv
<1>5. CallsInv'
  BY DEF TypeOK, CallsInv
<1>6. HookApproversGenuine'
  BY DEF TypeOK, ObjectsInv, CallsInv, HookApproversGenuine
<1> QED BY <1>1, <1>2, <1>3, <1>4, <1>5, <1>6

LEMMA CallBeginStep ==
    ASSUME IInv, NEW c \in Calls, NEW a \in Actions, NEW b \in Actions, CallBegin(c, a, b)
    PROVE  IInv'
<1> USE ActionsAssumption, LimitsAssumption DEF IInv, CallBegin, storeVars, waiterVars, callVars
<1>1. TypeOK'
  BY DEF TypeOK
<1>2. ObjectsInv'
  BY DEF TypeOK, ObjectsInv, StoringInv
<1>3. StoringInv'
  BY DEF TypeOK, StoringInv
<1>4. WaitersInv'
  BY DEF TypeOK, ObjectsInv, WaitersInv
<1>5. CallsInv'
  BY DEF TypeOK, CallsInv
<1>6. HookApproversGenuine'
  <2>1. \A d \in Calls : cpc'[d] = "eval" => cpc[d] = "eval" /\ d # c
    BY DEF TypeOK
  <2>2. \A d \in Calls : d # c => cid'[d] = cid[d] /\ cin'[d] = cin[d]
    BY DEF TypeOK
  <2> QED BY <2>1, <2>2 DEF HookApproversGenuine
<1> QED BY <1>1, <1>2, <1>3, <1>4, <1>5, <1>6

LEMMA HookClearStep ==
    ASSUME IInv, NEW c \in Calls, HookClear(c)
    PROVE  IInv'
<1> USE ActionsAssumption, LimitsAssumption DEF IInv, HookClear, clearOutdatedApprovals, Outdated, Free, storeVars, waiterVars, callVars
<1>1. TypeOK'
  BY SMTT(30) DEF TypeOK
<1>2. ObjectsInv'
  BY DEF TypeOK, ObjectsInv, StoringInv
<1>3. StoringInv'
  BY DEF TypeOK, StoringInv
<1>4. WaitersInv'
  BY DEF TypeOK, ObjectsInv, WaitersInv
<1>5. CallsInv'
  <2>1. ASSUME NEW d \in Calls, NEW a \in Actions, cpc'[d] = "get", actions'[a] # 0
        PROVE  lastModified[actions'[a]] >= ctime'[d] - maxMPAApprovedAge
    <3>1. actions'[a] = actions[a] /\ actions[a] # 0 /\ ~Outdated(a)
      BY <2>1 DEF TypeOK
    <3>2. CASE d = c
      BY <3>1, <3>2 DEF TypeOK
    <3>3. CASE d # c
      BY <2>1, <3>1, <3>3 DEF TypeOK, CallsInv
    <3> QED BY <3>2, <3>3
  <2>2. \A d \in Calls : ctime'[d] <= now
    BY DEF TypeOK, CallsInv
  <2>3. \A d \in Calls : /\ cpc'[d] # "idle" => cid[d] \in Actions /\ cin[d] \in Actions
                        /\ capp[d] # {} => cact[d] # 0
    BY DEF TypeOK, CallsInv
  <2> QED BY <2>1, <2>2, <2>3 DEF CallsInv
<1>6. HookApproversGenuine'
  BY DEF TypeOK, ObjectsInv, CallsInv, HookApproversGenuine
<1> QED BY <1>1, <1>2, <1>3, <1>4, <1>5, <1>6

LEMMA HookGetStep ==
    ASSUME IInv, NEW c \in Calls, HookGet(c)
    PROVE  IInv'
<1> USE ActionsAssumption, LimitsAssumption DEF IInv, HookGet, Get, Free, ActionMatchesInput, storeVars, waiterVars, callVars
<1>1. TypeOK'
  <2>1. cid[c] \in Actions /\ actions[cid[c]] \in 0..nobj
    BY DEF TypeOK, CallsInv
  <2>2. cact' \in [Calls -> 0..nobj]
    BY <2>1 DEF TypeOK
  <2>3. approvers[actions[cid[c]]] \in SUBSET Principals \/ actions[cid[c]] = 0
    BY <2>1 DEF TypeOK, Addrs
  <2>4. capp' \in [Calls -> SUBSET Principals]
    BY <2>3 DEF TypeOK
  <2>5. cpc' \in [Calls -> {"idle", "clear", "get", "eval", "refused"}]
    BY DEF TypeOK
  <2> QED BY <2>2, <2>4, <2>5 DEF TypeOK
<1>2. ObjectsInv'
  BY DEF TypeOK, ObjectsInv, StoringInv
<1>3. StoringInv'
  BY DEF TypeOK, StoringInv
<1>4. WaitersInv'
  BY DEF TypeOK, ObjectsInv, WaitersInv
<1>5. CallsInv'
  BY DEF TypeOK, CallsInv
<1>6. HookApproversGenuine'
  <2> SUFFICES ASSUME NEW d \in Calls, cpc'[d] = "eval", capp'[d] # {}
               PROVE  /\ action[cact'[d]] = cin[d] /\ capp'[d] \subseteq approvers[cact'[d]]
                      /\ \A q \in capp'[d] : UserOf[q] # Requestor[cin[d]]
                      /\ lastModified[cact'[d]] >= ctime[d] - maxMPAApprovedAge
    BY DEF HookApproversGenuine
  <2>1. CASE d # c
    BY <2>1 DEF TypeOK, HookApproversGenuine
  <2>2. CASE d = c
    <3> DEFINE i == actions[cid[c]]
    <3>1. cid[c] \in Actions /\ cin[c] = cid[c] /\ i # 0
      BY <2>2 DEF TypeOK, CallsInv
    <3>2. i \in Addrs /\ action[i] = cid[c] /\ cact'[c] = i /\ capp'[c] = approvers[i]
      BY <2>2, <3>1 DEF TypeOK, ObjectsInv
    <3>3. lastModified[i] >= ctime[c] - maxMPAApprovedAge
      BY <3>1 DEF CallsInv
    <3>4. \A q \in approvers[i] : UserOf[q] # Requestor[cin[c]]
      BY <3>1, <3>2 DEF ObjectsInv
    <3> HIDE DEF i
    <3> QED BY <2>2, <3>1, <3>2, <3>3, <3>4
  <2> QED BY <2>1, <2>2
<1> QED BY <1>1, <1>2, <1>3, <1>4, <1>5, <1>6

LEMMA StutterStep ==
    ASSUME IInv, UNCHANGED vars
    PROVE  IInv'
BY DEF IInv, vars, storeVars, waiterVars, callVars, TypeOK, ObjectsInv, StoringInv,
       WaitersInv, CallsInv, HookApproversGenuine

\* The inductive invariant holds in every reachable state.
THEOREM Invariance == Spec => []IInv
<1>1. Init => IInv
  BY ActionsAssumption, LimitsAssumption
     DEF Init, IInv, TypeOK, ObjectsInv, StoringInv, WaitersInv, CallsInv, HookApproversGenuine
<1>2. IInv /\ [Next]_vars => IInv'
  <2> SUFFICES ASSUME IInv, [Next]_vars PROVE IInv'
    OBVIOUS
  <2>1. CASE Tick
    BY <2>1, TickStep
  <2>2. CASE Store
    BY <2>2, StoreEvictStep, StoreInsertStep DEF Store
  <2>3. CASE List
    BY <2>3, ListStep
  <2>4. CASE Restart
    BY <2>4, RestartStep
  <2>5. ASSUME NEW a \in Actions, StoreBegin(a) \/ Clear(a) \/ \E p \in Principals : Approve(a, p)
        PROVE  IInv'
    BY <2>5, StoreBeginStep, ClearStep, ApproveStep
  <2>6. ASSUME NEW w \in Waiters,
               \/ \E a \in Actions : WaitBegin(w, a)
               \/ WaitLookup(w) \/ WaitApproved(w) \/ WaitTimeout(w) \/ WaitCancelled(w)
        PROVE  IInv'
    BY <2>6, WaitBeginStep, WaitLookupStep, WaitApprovedStep, WaitTimeoutStep, WaitCancelledStep
  <2>7. ASSUME NEW c \in Calls,
               (\E a, b \in Actions : CallBegin(c, a, b)) \/ HookClear(c) \/ HookGet(c)
        PROVE  IInv'
    BY <2>7, CallBeginStep, HookClearStep, HookGetStep
  <2>8. CASE UNCHANGED vars
    BY <2>8, StutterStep
  <2> QED BY <2>1, <2>2, <2>3, <2>4, <2>5, <2>6, <2>7, <2>8 DEF Next
<1> QED BY <1>1, <1>2, PTL DEF Spec

\* Type correctness.
THEOREM TypeCorrect == Spec => []TypeOK
<1>1. IInv => TypeOK
  BY DEF IInv
<1> QED BY <1>1, Invariance, PTL

\* A WaitForApproval that returns successfully was waiting for a request that
\* somebody other than its requestor approved.
THEOREM WaitersSound == Spec => []WaitMeansApproved
<1>1. IInv => WaitMeansApproved
  <2> SUFFICES ASSUME IInv, NEW w \in Waiters, wpc[w] = "ok"
               PROVE  /\ action[wact[w]] = wid[w]
                      /\ \E p \in approvers[wact[w]] : UserOf[p] # Requestor[wid[w]]
    BY DEF WaitMeansApproved
  <2>1. wact[w] \in Addrs /\ action[wact[w]] = wid[w] /\ approved[wact[w]]
    BY LimitsAssumption DEF IInv, TypeOK, WaitersInv
  <2>2. PICK p \in approvers[wact[w]] : TRUE
    BY <2>1 DEF IInv, ObjectsInv
  <2> QED BY <2>1, <2>2 DEF IInv, ObjectsInv
<1> QED BY <1>1, Invariance, PTL

\* The approvers the server's hook hands to the policy approved exactly this
\* call, are not its requestor, and were not outdated.
THEOREM HooksSound == Spec => []HookApproversGenuine
<1>1. IInv => HookApproversGenuine
  BY DEF IInv
<1> QED BY <1>1, Invariance, PTL

\* A stored request keeps its object and its approvers for as long as it is
\* stored, whatever is stored, approved, cleared or evicted around it.
THEOREM ApprovalsAreKept == Spec => ApprovalsKept
<1> DEFINE Kept == \A a \in Actions : actions[a] # 0 /\ actions'[a] # 0 =>
                      /\ actions'[a] = actions[a]
                      /\ approvers[actions[a]] \subseteq approvers'[actions[a]]
<1>1. IInv /\ [Next]_vars => Kept
  <2> SUFFICES ASSUME IInv, [Next]_vars PROVE Kept
    OBVIOUS
  <2> USE LimitsAssumption, ActionsAssumption DEF IInv, TypeOK
  <2>1. CASE StoreInsert
    BY <2>1 DEF StoreInsert, StoringInv, Free
  <2>2. ASSUME NEW a \in Actions, NEW p \in Principals, Approve(a, p) PROVE Kept
    BY <2>2 DEF Approve
  <2>3. ASSUME NEW a \in Actions, StoreEvict(a) \/ Clear(a) PROVE Kept
    BY <2>3 DEF StoreEvict, Clear, deleteActionLocked
  <2>4. CASE Restart
    BY <2>4 DEF Restart
  <2>5. CASE List \/ \E c \in Calls : HookClear(c)
    <3>1. /\ actions' = [a \in Actions |-> IF Outdated(a) THEN 0 ELSE actions[a]]
          /\ approvers' = approvers
      BY <2>5, Zenon DEF List, HookClear, clearOutdatedApprovals
    <3> QED BY <3>1
  <2>6. CASE UNCHANGED <<actions, approvers>>
    BY <2>6
  <2>7. CASE Tick \/ \E a \in Actions : StoreBegin(a)
    BY <2>6, <2>7 DEF Tick, StoreBegin, storeVars
  <2>8. ASSUME NEW w \in Waiters,
               \/ \E a \in Actions : WaitBegin(w, a)
               \/ WaitLookup(w) \/ WaitApproved(w) \/ WaitTimeout(w) \/ WaitCancelled(w)
        PROVE  Kept
    BY <2>6, <2>8 DEF WaitBegin, WaitLookup, WaitApproved, WaitTimeout, WaitCancelled, storeVars
  <2>9. ASSUME NEW c \in Calls, (\E a, b \in Actions : CallBegin(c, a, b)) \/ HookGet(c)
        PROVE  Kept
    BY <2>6, <2>9 DEF CallBegin, HookGet, storeVars
  <2>10. CASE UNCHANGED vars
    BY <2>6, <2>10 DEF vars, storeVars
  <2> HIDE DEF Kept
  <2> QED BY <2>1, <2>2, <2>3, <2>4, <2>5, <2>7, <2>8, <2>9, <2>10 DEF Next, Store
<1>2. IInv /\ [Next]_vars => [Kept]_vars
  BY <1>1
<1> QED BY <1>2, Invariance, PTL DEF Spec, ApprovalsKept

---------------------------------------------------------------------------
(***************************************************************************)
(* The byte counter and the limits.  Sizes are counted, not added up:      *)
(* TotalSize(S) is the number of bytes of the actions of S, so that the    *)
(* theorems on cardinalities say how it changes.                           *)
(***************************************************************************)

\* An action has Size many bytes.
LEMMA SizeOfOne ==
    ASSUME NEW a \in Actions
    PROVE  IsFiniteSet(BytesOf({a})) /\ TotalSize({a}) = Size[a]
<1>1. BytesOf({a}) = {a} \X (1..Size[a])
  BY DEF BytesOf
<1>2. Size[a] \in Nat
  BY ActionsAssumption
<1>3. IsFiniteSet({a}) /\ Cardinality({a}) = 1
  BY FS_Singleton
<1>4. IsFiniteSet(1..Size[a]) /\ Cardinality(1..Size[a]) = Size[a]
  BY <1>2, FS_Interval
<1>5. /\ IsFiniteSet({a} \X (1..Size[a]))
      /\ Cardinality({a} \X (1..Size[a])) = Cardinality({a}) * Cardinality(1..Size[a])
  BY <1>3, <1>4, FS_Product
<1>6. Cardinality({a} \X (1..Size[a])) = Size[a]
  <2> DEFINE n == Size[a]
  <2>1. n \in Nat /\ 1 * n = n
    BY <1>2
  <2> QED BY <2>1, <1>3, <1>4, <1>5
<1> QED BY <1>1, <1>5, <1>6 DEF TotalSize

\* No two actions share a byte: taking actions away takes their bytes away.
LEMMA BytesDifference ==
    ASSUME NEW S \in SUBSET Actions, NEW T \in SUBSET S
    PROVE  /\ BytesOf(S \ T) = BytesOf(S) \ BytesOf(T)
           /\ BytesOf(T) \subseteq BytesOf(S)
<1>1. BytesOf(T) \subseteq BytesOf(S)
  BY DEF BytesOf
<1>2. ASSUME NEW x PROVE x \in BytesOf(S \ T) <=> x \in BytesOf(S) /\ x \notin BytesOf(T)
  <2>1. ASSUME NEW U \in SUBSET Actions
        PROVE  x \in BytesOf(U) <=> \E a \in U : x \in {a} \X (1..Size[a])
    BY DEF BytesOf
  <2>2. \A a, b \in Actions : x \in {a} \X (1..Size[a]) /\ x \in {b} \X (1..Size[b]) => a = b
    OBVIOUS
  <2> QED BY <2>1, <2>2
<1> QED BY <1>1, <1>2

\* Adding an action that is not there adds its size.
LEMMA SizeAfterAdding ==
    ASSUME NEW S \in SUBSET Actions, NEW a \in Actions \ S, IsFiniteSet(BytesOf(S))
    PROVE  /\ IsFiniteSet(BytesOf(S \cup {a}))
           /\ TotalSize(S \cup {a}) = TotalSize(S) + Size[a]
<1>1. BytesOf(S \cup {a}) = BytesOf(S) \cup BytesOf({a})
  BY DEF BytesOf
<1>2. BytesOf(S) \cap BytesOf({a}) = {}
  BY DEF BytesOf
<1>3. IsFiniteSet(BytesOf({a})) /\ Cardinality(BytesOf({a})) = Size[a] /\ Size[a] \in Nat
  BY SizeOfOne, ActionsAssumption DEF TotalSize
<1>4. /\ IsFiniteSet(BytesOf(S) \cup BytesOf({a}))
      /\ Cardinality(BytesOf(S) \cup BytesOf({a})) =
            Cardinality(BytesOf(S)) + Cardinality(BytesOf({a}))
               - Cardinality(BytesOf(S) \cap BytesOf({a}))
  BY <1>3, FS_Union
<1>5. Cardinality(BytesOf(S)) \in Nat
  BY FS_CardinalityType
<1>6. Cardinality(BytesOf(S) \cap BytesOf({a})) = 0
  BY <1>2, FS_EmptySet
<1>7. Cardinality(BytesOf(S \cup {a})) = Cardinality(BytesOf(S)) + Size[a]
  <2> DEFINE n == Cardinality(BytesOf(S))
             m == Size[a]
  <2>1. Cardinality(BytesOf(S) \cup BytesOf({a})) = n + m - 0
    BY <1>3, <1>4, <1>6
  <2>2. n + m - 0 = n + m
    BY <1>3, <1>5
  <2> QED BY <1>1, <2>1, <2>2
<1> QED BY <1>1, <1>4, <1>7 DEF TotalSize

\* Removing some of the actions takes their sizes off the sum.
LEMMA SizeAfterRemoving ==
    ASSUME NEW S \in SUBSET Actions, NEW T \in SUBSET S, IsFiniteSet(BytesOf(S))
    PROVE  /\ IsFiniteSet(BytesOf(S \ T)) /\ TotalSize(T) \in Nat /\ TotalSize(S) \in Nat
           /\ TotalSize(S \ T) = TotalSize(S) - TotalSize(T)
<1>1. BytesOf(S \ T) = BytesOf(S) \ BytesOf(T) /\ BytesOf(S) \cap BytesOf(T) = BytesOf(T)
  BY BytesDifference
<1>2. IsFiniteSet(BytesOf(T))
  BY BytesDifference, FS_Subset
<1>3. Cardinality(BytesOf(S)) \in Nat /\ Cardinality(BytesOf(T)) \in Nat
  BY <1>2, FS_CardinalityType
<1>4. /\ IsFiniteSet(BytesOf(S) \ BytesOf(T))
      /\ Cardinality(BytesOf(S) \ BytesOf(T)) =
            Cardinality(BytesOf(S)) - Cardinality(BytesOf(S) \cap BytesOf(T))
  BY FS_Difference
<1> QED BY <1>1, <1>3, <1>4 DEF TotalSize

\* The bytes of no action.
LEMMA SizeOfNone == BytesOf({}) = {} /\ TotalSize({}) = 0
<1>1. BytesOf({}) = {}
  BY DEF BytesOf
<1> QED BY <1>1, FS_EmptySet DEF TotalSize

\* However many requests one step removes, the counter and the limits stay right:
\* the last request to go takes the last byte with it.
LEMMA RemovalStep ==
    ASSUME BytesInv, NEW D \in SUBSET Stored,
           Stored' = Stored \ D, curBytes' = curBytes - TotalSize(D)
    PROVE  BytesInv'
<1>1. Stored \in SUBSET Actions /\ D \in SUBSET Actions
  BY DEF Stored
<1>2. IsFiniteSet(Stored) /\ IsFiniteSet(BytesOf(Stored)) /\ curBytes = TotalSize(Stored)
  BY DEF BytesInv, Accounting
<1>3. /\ IsFiniteSet(BytesOf(Stored \ D)) /\ TotalSize(D) \in Nat /\ TotalSize(Stored) \in Nat
      /\ TotalSize(Stored \ D) = TotalSize(Stored) - TotalSize(D)
  BY <1>1, <1>2, SizeAfterRemoving
<1>4. /\ IsFiniteSet(Stored \ D) /\ Cardinality(Stored \ D) <= Cardinality(Stored)
      /\ Cardinality(Stored) = Cardinality(Stored \ D) => Stored \ D = Stored
  BY <1>2, FS_Subset
<1>5. Cardinality(Stored) \in Nat /\ Cardinality(Stored \ D) \in Nat
  BY <1>2, <1>4, FS_CardinalityType
<1>6. Cardinality(Stored \ D) = 0 => TotalSize(Stored \ D) = 0
  BY <1>4, FS_EmptySet, SizeOfNone
<1>7. Accounting'
  BY <1>2, <1>3 DEF Accounting, TotalSize, BytesOf
<1>8. Bounded'
  <2>1. Cardinality(Stored) <= maxMPAApprovals
    BY DEF BytesInv, Bounded
  <2>2. Cardinality(Stored') <= maxMPAApprovals
    BY <2>1, <1>4, <1>5, LimitsAssumption
  <2>3. ASSUME MaxTotalBytes > 0 PROVE curBytes' <= MaxTotalBytes \/ Cardinality(Stored') = 1
    <3>1. curBytes <= MaxTotalBytes \/ Cardinality(Stored) = 1
      BY <2>3 DEF BytesInv, Bounded
    <3>2. CASE curBytes <= MaxTotalBytes
      BY <3>2, <1>2, <1>3, LimitsAssumption
    <3>3. CASE Cardinality(Stored) = 1
      BY <3>3, <2>3, <1>2, <1>3, <1>4, <1>5, <1>6, LimitsAssumption
    <3> QED BY <3>1, <3>2, <3>3
  <2> QED BY <2>2, <2>3 DEF Bounded
<1> QED BY <1>3, <1>4, <1>7, <1>8 DEF BytesInv, BytesOf

\* Store's insertion: the eviction loops have made room for the request, or there
\* is nothing left to evict.
LEMMA InsertionStep ==
    ASSUME IInv, BytesInv, StoreInsert
    PROVE  BytesInv'
<1>1. storing \in Actions \ Stored /\ Stored \in SUBSET Actions
  BY DEF IInv, TypeOK, StoringInv, StoreInsert, Free, Stored
<1>2. Stored' = Stored \cup {storing}
  <2>1. actions' = [actions EXCEPT ![storing] = nobj + 1] /\ nobj + 1 # 0
    BY LimitsAssumption DEF StoreInsert, IInv, TypeOK
  <2>2. actions \in [Actions -> 0..nobj]
    BY DEF IInv, TypeOK
  <2> QED BY <1>1, <2>1, <2>2 DEF Stored
<1>3. curBytes' = curBytes + Size[storing] /\ ~TooMany /\ ~TooLarge(storing)
  BY DEF StoreInsert
<1>4. IsFiniteSet(Stored) /\ IsFiniteSet(BytesOf(Stored)) /\ curBytes = TotalSize(Stored)
  BY DEF BytesInv, Accounting
<1>5. /\ IsFiniteSet(BytesOf(Stored \cup {storing}))
      /\ TotalSize(Stored \cup {storing}) = TotalSize(Stored) + Size[storing]
  BY <1>1, <1>4, SizeAfterAdding
<1>6. /\ IsFiniteSet(Stored \cup {storing})
      /\ Cardinality(Stored \cup {storing}) = Cardinality(Stored) + 1
  BY <1>1, <1>4, FS_AddElement
<1>7. Cardinality(Stored) \in Nat /\ (Stored = {} => Cardinality(Stored) = 0)
  BY <1>4, FS_CardinalityType, FS_EmptySet
<1>8. TotalSize(Stored) \in Nat /\ Size[storing] \in Nat
  BY <1>1, <1>4, FS_CardinalityType, ActionsAssumption DEF TotalSize
<1>9. Accounting'
  BY <1>2, <1>3, <1>4, <1>5 DEF Accounting, TotalSize, BytesOf
<1>10. Bounded'
  <2>1. Cardinality(Stored') <= maxMPAApprovals
    BY <1>2, <1>3, <1>6, <1>7, LimitsAssumption DEF TooMany
  <2>2. ASSUME MaxTotalBytes > 0 PROVE curBytes' <= MaxTotalBytes \/ Cardinality(Stored') = 1
    BY <2>2, <1>2, <1>3, <1>4, <1>6, <1>7, <1>8, LimitsAssumption DEF TooLarge
  <2> QED BY <2>1, <2>2 DEF Bounded
<1> QED BY <1>2, <1>5, <1>6, <1>9, <1>10 DEF BytesInv, BytesOf

\* clearOutdatedApprovals removes what is outdated and its bytes.
LEMMA SweepStep ==
    ASSUME TypeOK, BytesInv, clearOutdatedApprovals
    PROVE  BytesInv'
<1> DEFINE D == {a \in Actions : Outdated(a)}
<1>1. D \in SUBSET Stored
  BY DEF Stored, Outdated
<1>2. Stored' = Stored \ D
  BY DEF clearOutdatedApprovals, Stored, TypeOK
<1>3. curBytes' = curBytes - TotalSize(D)
  BY DEF clearOutdatedApprovals
<1> HIDE DEF D
<1> QED BY <1>1, <1>2, <1>3, RemovalStep

\* deleteActionLocked removes one request and its size, or nothing.
LEMMA DeleteStep ==
    ASSUME TypeOK, BytesInv, NEW a \in Actions, deleteActionLocked(a)
    PROVE  BytesInv'
<1>1. CASE actions[a] = 0
  <2>1. Stored' = Stored \ {} /\ {} \in SUBSET Stored
    BY <1>1 DEF deleteActionLocked, Stored, TypeOK
  <2>2. curBytes \in Nat
    BY FS_CardinalityType DEF BytesInv, Accounting, TotalSize
  <2>3. curBytes' = curBytes - TotalSize({})
    BY <1>1, <2>2, SizeOfNone DEF deleteActionLocked
  <2> QED BY <2>1, <2>3, RemovalStep
<1>2. CASE actions[a] # 0
  <2>1. Stored' = Stored \ {a} /\ {a} \in SUBSET Stored
    BY <1>2 DEF deleteActionLocked, Stored, TypeOK
  <2>2. curBytes' = curBytes - TotalSize({a})
    BY <1>2, SizeOfOne DEF deleteActionLocked
  <2> QED BY <2>1, <2>2, RemovalStep
<1> QED BY <1>1, <1>2

\* A restart empties the store.
LEMMA RestartBytes ==
    ASSUME BytesInv, Restart
    PROVE  BytesInv'
<1>1. Stored' = Stored \ Stored /\ Stored \in SUBSET Stored
  BY DEF Restart, Stored
<1>2. curBytes' = curBytes - TotalSize(Stored)
  <2>1. curBytes = TotalSize(Stored) /\ curBytes \in Nat
    BY FS_CardinalityType DEF BytesInv, Accounting, TotalSize
  <2> QED BY <2>1 DEF Restart
<1> QED BY <1>1, <1>2, RemovalStep

\* What touches neither the map nor the counter changes nothing here.
LEMMA BytesUnchanged ==
    ASSUME BytesInv, UNCHANGED <<actions, curBytes>>
    PROVE  BytesInv'
<1>1. Stored' = Stored
  BY DEF Stored
<1> QED BY <1>1 DEF BytesInv, Accounting, Bounded, TotalSize, BytesOf

\* The counter and the limits, by induction along every step.
THEOREM BytesInvariance == Spec => []BytesInv
<1>1. Init => BytesInv
  <2> SUFFICES ASSUME Init PROVE BytesInv
    OBVIOUS
  <2>1. Stored = {} /\ curBytes = 0
    BY DEF Init, Stored
  <2> QED BY <2>1, FS_EmptySet, SizeOfNone, LimitsAssumption DEF BytesInv, Accounting, Bounded
<1>2. IInv /\ BytesInv /\ [Next]_vars => BytesInv'
  <2> SUFFICES ASSUME IInv, BytesInv, [Next]_vars PROVE BytesInv'
    OBVIOUS
  <2>0. TypeOK
    BY DEF IInv
  <2>1. CASE StoreInsert
    BY <2>1, InsertionStep
  <2>2. ASSUME NEW a \in Actions, StoreEvict(a) \/ Clear(a) PROVE BytesInv'
    BY <2>0, <2>2, DeleteStep DEF StoreEvict, Clear
  <2>3. CASE Restart
    BY <2>3, RestartBytes
  <2>4. CASE List \/ \E c \in Calls : HookClear(c)
    BY <2>0, <2>4, SweepStep DEF List, HookClear
  <2>5. CASE UNCHANGED <<actions, curBytes>>
    BY <2>5, BytesUnchanged
  <2>6. ASSUME Tick \/ \E a \in Actions : StoreBegin(a) \/ \E p \in Principals : Approve(a, p)
        PROVE  BytesInv'
    BY <2>5, <2>6 DEF Tick, StoreBegin, Approve, storeVars
  <2>7. ASSUME NEW w \in Waiters,
               \/ \E a \in Actions : WaitBegin(w, a)
               \/ WaitLookup(w) \/ WaitApproved(w) \/ WaitTimeout(w) \/ WaitCancelled(w)
        PROVE  BytesInv'
    BY <2>5, <2>7 DEF WaitBegin, WaitLookup, WaitApproved, WaitTimeout, WaitCancelled, storeVars
  <2>8. ASSUME NEW c \in Calls, (\E a, b \in Actions : CallBegin(c, a, b)) \/ HookGet(c)
        PROVE  BytesInv'
    BY <2>5, <2>8 DEF CallBegin, HookGet, storeVars
  <2>9. CASE UNCHANGED vars
    BY <2>5, <2>9 DEF vars, storeVars
  <2> QED BY <2>1, <2>2, <2>3, <2>4, <2>6, <2>7, <2>8, <2>9 DEF Next, Store
<1> QED BY <1>1, <1>2, Invariance, PTL DEF Spec

\* The byte counter equals the sizes of what is stored, after any sequence of
\* stores, evictions, expiries, clears and restarts.
THEOREM CounterExact == Spec => []Accounting
<1>1. BytesInv => Accounting
  BY DEF BytesInv
<1> QED BY <1>1, BytesInvariance, PTL

\* The store keeps its two limits: the number of requests, and the bytes unless
\* a single request is larger than the limit by itself.
THEOREM LimitsKept == Spec => []Bounded
<1>1. BytesInv => Bounded
  BY DEF BytesInv
<1> QED BY <1>1, BytesInvariance, PTL
=============================================================================
