------------------------------ MODULE MpaStore -------------------------------
(***************************************************************************)
(* The multi-party authorization store of a sansshell-server:              *)
(* services/mpa/server/server.go (Store, Approve, WaitForApproval, Get,    *)
(* List, Clear and ServerMPAAuthzHook), with ActionMatchesInput of         *)
(* services/mpa/mpahooks/mpahooks.go.                                      *)
(*                                                                         *)
(* An action's id is the hash of its contents, so the model uses the       *)
(* action itself.  Each storedAction is an object of its own, with an      *)
(* address: a WaitForApproval holds the pointer it looked up while the map *)
(* moves on.  Store keeps the mutex over its eviction loops; every other   *)
(* critical section is one step.                                           *)
(***************************************************************************)
EXTENDS Integers, FiniteSets

CONSTANTS
    Actions,           \* what users ask to run: user, justification, method, message
    Requestor,         \* Action.User of each
    Method,            \* Action.Method of each
    Size,              \* proto.Size of each
    Principals,        \* callers, with their groups
    UserOf,            \* the ID of each
    Waiters,           \* WaitForApproval calls
    Calls,             \* RPCs that carry an MPA id
    maxMPAApprovals, MaxMessageBytes, MaxTotalBytes,    \* server.go:43-61
    maxMPAApprovedAge,
    MaxStores,         \* bound: storedActions ever made
    MaxTime,           \* bound: the clock
    Nobody             \* no action

Addrs == 1..MaxStores

ASSUME ActionsAssumption ==
    /\ Size \in [Actions -> Nat] /\ Nobody \notin Actions
    /\ DOMAIN Requestor = Actions /\ DOMAIN Method = Actions
    /\ DOMAIN UserOf = Principals

ASSUME LimitsAssumption ==
    /\ maxMPAApprovals \in Nat \ {0} /\ MaxStores \in Nat /\ MaxTime \in Nat
    /\ MaxMessageBytes \in Int /\ MaxTotalBytes \in Int /\ maxMPAApprovedAge \in Nat

VARIABLES
    now,           \* time.Now()
    actions,       \* server.actions: the address of each action's storedAction, 0 if none
    curBytes,      \* server.curBytes
    storing,       \* the action a Store holds the mutex for
    nobj,          \* storedActions made
    action, lastModified, approvers, approved,    \* the storedActions, by address
    wpc, wid, wact,   \* a waiter: "idle", "lookup", "select", "ok", "gone"; its id; its pointer
    cpc, cid, cin,    \* a call: "idle", "clear", "get", "eval", "refused"; its id; its input
    ctime,            \* when its hook dropped the outdated actions
    cact, capp        \* what its hook read, and the approvers it gave the policy

storeVars  == <<actions, curBytes, storing, nobj, action, lastModified, approvers, approved>>
waiterVars == <<wpc, wid, wact>>
callVars   == <<cpc, cid, cin, ctime, cact, capp>>
vars == <<now, storeVars, waiterVars, callVars>>

Stored == {a \in Actions : actions[a] # 0}
Free   == storing = Nobody            \* nobody holds s.mu

Init ==
    /\ now = 0
    /\ actions = [a \in Actions |-> 0] /\ curBytes = 0 /\ storing = Nobody
    /\ nobj = 0 /\ action = [i \in Addrs |-> Nobody]
    /\ lastModified = [i \in Addrs |-> 0] /\ approvers = [i \in Addrs |-> {}]
    /\ approved = [i \in Addrs |-> FALSE]
    /\ wpc = [w \in Waiters |-> "idle"] /\ wid = [w \in Waiters |-> Nobody]
    /\ wact = [w \in Waiters |-> 0]
    /\ cpc = [c \in Calls |-> "idle"] /\ cid = [c \in Calls |-> Nobody]
    /\ cin = [c \in Calls |-> Nobody] /\ capp = [c \in Calls |-> {}]
    /\ ctime = [c \in Calls |-> 0] /\ cact = [c \in Calls |-> 0]

Tick == now < MaxTime /\ now' = now + 1 /\ UNCHANGED <<storeVars, waiterVars, callVars>>

---------------------------------------------------------------------------
(* Store                                                                   *)

\* Mutant: an action that is already stored is stored anew.
StoreBeginAgain(a) ==
    /\ Free /\ nobj < MaxStores
    /\ MaxMessageBytes > 0 => Size[a] <= MaxMessageBytes
    /\ storing' = a
    /\ UNCHANGED <<now, actions, curBytes, nobj, action, lastModified, approvers,
                   approved, waiterVars, callVars>>

\* The request is small enough; Store takes the mutex.  An action that is
\* already stored is returned as it is.
StoreBegin(a) ==
    /\ Free /\ nobj < MaxStores
    /\ MaxMessageBytes > 0 => Size[a] <= MaxMessageBytes
    /\ actions[a] = 0
    /\ storing' = a
    /\ UNCHANGED <<now, actions, curBytes, nobj, action, lastModified, approvers,
                   approved, waiterVars, callVars>>

\* The two eviction loops: too many actions, or too many bytes.
\* TooLarge's mutant leaves the new request out of the sum.
TooMany == Cardinality(Stored) >= maxMPAApprovals
TooLargeBefore(a) == MaxTotalBytes > 0 /\ curBytes > MaxTotalBytes /\ Stored # {}
TooLarge(a) == MaxTotalBytes > 0 /\ curBytes + Size[a] > MaxTotalBytes /\ Stored # {}

\* Mutant: the size is subtracted even if the action is not stored.
deleteActionUnchecked(a) ==
    /\ actions' = [actions EXCEPT ![a] = 0]
    /\ curBytes' = curBytes - Size[a]

deleteActionLocked(a) ==
    /\ actions' = [actions EXCEPT ![a] = 0]
    /\ curBytes' = curBytes - IF actions[a] = 0 THEN 0 ELSE Size[a]

\* evictOldestLocked; among equals the map's order decides.
Oldest(a) == \A b \in Stored : lastModified[actions[a]] <= lastModified[actions[b]]
StoreEvict(a) ==
    /\ ~Free /\ (TooMany \/ TooLarge(storing))
    /\ a \in Stored /\ Oldest(a)
    /\ deleteActionLocked(a)
    /\ UNCHANGED <<now, storing, nobj, action, lastModified, approvers, approved,
                   waiterVars, callVars>>

\* Mutant: a request is stored as if it were about to expire.
StoreInsertBackdated ==
    /\ ~Free /\ ~TooMany /\ ~TooLarge(storing)
    /\ LET i == nobj + 1 IN
         /\ nobj' = i
         /\ action' = [action EXCEPT ![i] = storing]
         /\ lastModified' = [lastModified EXCEPT ![i] = now - maxMPAApprovedAge]
         /\ approvers' = [approvers EXCEPT ![i] = {}]
         /\ approved' = [approved EXCEPT ![i] = FALSE]
         /\ actions' = [actions EXCEPT ![storing] = i]
    /\ curBytes' = curBytes + Size[storing]
    /\ storing' = Nobody
    /\ UNCHANGED <<now, waiterVars, callVars>>

StoreInsert ==
    /\ ~Free /\ ~TooMany /\ ~TooLarge(storing)
    /\ LET i == nobj + 1 IN
         /\ nobj' = i
         /\ action' = [action EXCEPT ![i] = storing]
         /\ lastModified' = [lastModified EXCEPT ![i] = now]
         /\ approvers' = [approvers EXCEPT ![i] = {}]
         /\ approved' = [approved EXCEPT ![i] = FALSE]
         /\ actions' = [actions EXCEPT ![storing] = i]
    /\ curBytes' = curBytes + Size[storing]
    /\ storing' = Nobody
    /\ UNCHANGED <<now, waiterVars, callVars>>

---------------------------------------------------------------------------
(* Approve, Clear, restart                                                 *)

\* Mutant: requestors may approve their own requests.
ApproveOwn(a, p) ==
    /\ Free /\ actions[a] # 0
    /\ LET i == actions[a] IN
         /\ lastModified' = [lastModified EXCEPT ![i] = now]
         /\ approvers' = [approvers EXCEPT ![i] = @ \cup {p}]
         /\ approved' = [approved EXCEPT ![i] =
               @ \/ (p \notin approvers[i] /\ Cardinality(approvers[i] \cup {p}) = 1)]
    /\ UNCHANGED <<now, actions, curBytes, storing, nobj, action, waiterVars, callVars>>

\* approvers is a set: containsPrincipal keeps the list free of repetitions.
\* The first approval closes the channel the waiters select on.
Approve(a, p) ==
    /\ Free /\ actions[a] # 0 /\ Requestor[a] # UserOf[p]
    /\ LET i == actions[a] IN
         /\ lastModified' = [lastModified EXCEPT ![i] = now]
         /\ approvers' = [approvers EXCEPT ![i] = @ \cup {p}]
         /\ approved' = [approved EXCEPT ![i] =
               @ \/ (p \notin approvers[i] /\ Cardinality(approvers[i] \cup {p}) = 1)]
    /\ UNCHANGED <<now, actions, curBytes, storing, nobj, action, waiterVars, callVars>>

Clear(a) ==
    /\ Free /\ deleteActionLocked(a)
    /\ UNCHANGED <<now, storing, nobj, action, lastModified, approvers, approved,
                   waiterVars, callVars>>

\* The store is in memory only: a restart forgets it and drops the RPCs.
Restart ==
    /\ actions' = [a \in Actions |-> 0] /\ curBytes' = 0 /\ storing' = Nobody
    /\ wpc' = [w \in Waiters |-> IF wpc[w] = "idle" THEN "idle" ELSE "gone"]
    /\ cpc' = [c \in Calls |-> IF cpc[c] \in {"clear", "get"} THEN "refused" ELSE cpc[c]]
    /\ UNCHANGED <<now, nobj, action, lastModified, approvers, approved, wid, wact,
                   cid, cin, ctime, cact, capp>>

\* The sum of the actions' sizes: a set with one element for each byte, counted.
BytesOf(S)   == UNION {{a} \X (1..Size[a]) : a \in S}
TotalSize(S) == Cardinality(BytesOf(S))

\* clearOutdatedApprovals, which Get and List run first, under a lock of its own.
Outdated(a) == actions[a] # 0 /\ lastModified[actions[a]] < now - maxMPAApprovedAge
clearOutdatedApprovals ==
    /\ actions' = [a \in Actions |-> IF Outdated(a) THEN 0 ELSE actions[a]]
    /\ curBytes' = curBytes - TotalSize({a \in Actions : Outdated(a)})

List ==
    /\ Free /\ clearOutdatedApprovals
    /\ UNCHANGED <<now, storing, nobj, action, lastModified, approvers, approved,
                   waiterVars, callVars>>

---------------------------------------------------------------------------
(* WaitForApproval: look the action up, then select without the mutex.     *)

WaitBegin(w, a) ==
    /\ wpc[w] = "idle"
    /\ wpc' = [wpc EXCEPT ![w] = "lookup"] /\ wid' = [wid EXCEPT ![w] = a]
    /\ UNCHANGED <<now, storeVars, wact, callVars>>

WaitLookup(w) ==
    /\ Free /\ wpc[w] = "lookup"
    /\ wact' = [wact EXCEPT ![w] = actions[wid[w]]]
    /\ wpc' = [wpc EXCEPT ![w] = IF actions[wid[w]] = 0 THEN "gone" ELSE "select"]
    /\ UNCHANGED <<now, storeVars, wid, callVars>>

WaitApproved(w) ==
    /\ wpc[w] = "select" /\ approved[wact[w]]
    /\ wpc' = [wpc EXCEPT ![w] = "ok"]
    /\ UNCHANGED <<now, storeVars, wid, wact, callVars>>

\* Mutant: the timer does not lead to another look at the map.
WaitTimeoutStays(w) ==
    /\ wpc[w] = "select"
    /\ UNCHANGED vars

\* time.After(time.Minute): loop to see whether the request still exists.
WaitTimeout(w) ==
    /\ wpc[w] = "select"
    /\ wpc' = [wpc EXCEPT ![w] = "lookup"]
    /\ UNCHANGED <<now, storeVars, wid, wact, callVars>>

\* The caller gave up: ctx.Done().
WaitCancelled(w) ==
    /\ wpc[w] = "select"
    /\ wpc' = [wpc EXCEPT ![w] = "gone"]
    /\ UNCHANGED <<now, storeVars, wid, wact, callVars>>

---------------------------------------------------------------------------
(* ServerMPAAuthzHook on a call of cin that names the MPA request cid.     *)

CallBegin(c, a, b) ==
    /\ cpc[c] = "idle"
    /\ cpc' = [cpc EXCEPT ![c] = "clear"]
    /\ cid' = [cid EXCEPT ![c] = a] /\ cin' = [cin EXCEPT ![c] = b]
    /\ UNCHANGED <<now, storeVars, waiterVars, ctime, cact, capp>>

\* Get, first critical section.
HookClear(c) ==
    /\ Free /\ cpc[c] = "clear" /\ clearOutdatedApprovals
    /\ cpc' = [cpc EXCEPT ![c] = "get"] /\ ctime' = [ctime EXCEPT ![c] = now]
    /\ UNCHANGED <<now, storing, nobj, action, lastModified, approvers, approved,
                   waiterVars, cid, cin, cact, capp>>

ActionMatchesInput(a, b) == a = b

\* Get, second critical section: the address of a's storedAction, 0 if none.
Get(a) == actions[a]

\* Mutant: the request's contents are not compared with the call's.
HookGetAnyInput(c) ==
    /\ Free /\ cpc[c] = "get"
    /\ LET i     == Get(cid[c])
           other == Method[cid[c]] # Method[cin[c]]
           match == TRUE
       IN  /\ cpc' = [cpc EXCEPT ![c] = IF i # 0 /\ (other \/ match) THEN "eval" ELSE "refused"]
           /\ cact' = [cact EXCEPT ![c] = i]
           /\ capp' = [capp EXCEPT ![c] = IF i # 0 /\ ~other /\ match THEN approvers[i] ELSE {}]
    /\ UNCHANGED <<now, storeVars, waiterVars, cid, cin, ctime>>

\* The hook's use of Get's answer: a request
\* for another method is ignored, one that differs otherwise is refused.
HookGet(c) ==
    /\ Free /\ cpc[c] = "get"
    /\ LET i     == Get(cid[c])
           other == Method[cid[c]] # Method[cin[c]]
           match == ActionMatchesInput(cid[c], cin[c])
       IN  /\ cpc' = [cpc EXCEPT ![c] = IF i # 0 /\ (other \/ match) THEN "eval" ELSE "refused"]
           /\ cact' = [cact EXCEPT ![c] = i]
           /\ capp' = [capp EXCEPT ![c] = IF i # 0 /\ ~other /\ match THEN approvers[i] ELSE {}]
    /\ UNCHANGED <<now, storeVars, waiterVars, cid, cin, ctime>>

---------------------------------------------------------------------------
Store == (\E a \in Actions : StoreEvict(a)) \/ StoreInsert

Next ==
    \/ Tick \/ Store \/ List \/ Restart
    \/ \E a \in Actions :
          \/ StoreBegin(a) \/ Clear(a)
          \/ \E p \in Principals : Approve(a, p)
    \/ \E w \in Waiters :
          \/ \E a \in Actions : WaitBegin(w, a)
          \/ WaitLookup(w) \/ WaitApproved(w) \/ WaitTimeout(w) \/ WaitCancelled(w)
    \/ \E c \in Calls :
          \/ \E a, b \in Actions : CallBegin(c, a, b)
          \/ HookClear(c) \/ HookGet(c)

Spec == Init /\ [][Next]_vars

(***************************************************************************)
(* Fairness: a Store that has the mutex finishes, a waiter is scheduled,   *)
(* its one-minute timer fires, and Go's select does not pass over a ready  *)
(* case for ever.  Nobody has to approve or to clear.                      *)
(***************************************************************************)
Fairness ==
    /\ WF_vars(Store)
    /\ \A w \in Waiters : WF_vars(WaitLookup(w)) /\ WF_vars(WaitTimeout(w)) /\ SF_vars(WaitApproved(w))
FairSpec == Spec /\ Fairness

---------------------------------------------------------------------------
(* Properties                                                              *)

\* curBytes is pinned by Accounting.
TypeOK ==
    /\ now \in Nat /\ nobj \in 0..MaxStores
    /\ actions \in [Actions -> 0..nobj]
    /\ storing \in Actions \cup {Nobody}
    /\ action \in [Addrs -> Actions \cup {Nobody}]
    /\ lastModified \in [Addrs -> Nat]
    /\ approvers \in [Addrs -> SUBSET Principals] /\ approved \in [Addrs -> BOOLEAN]
    /\ wpc \in [Waiters -> {"idle", "lookup", "select", "ok", "gone"}]
    /\ wid \in [Waiters -> Actions \cup {Nobody}] /\ wact \in [Waiters -> 0..nobj]
    /\ cpc \in [Calls -> {"idle", "clear", "get", "eval", "refused"}]
    /\ cid \in [Calls -> Actions \cup {Nobody}] /\ cin \in [Calls -> Actions \cup {Nobody}]
    /\ ctime \in [Calls -> Nat] /\ cact \in [Calls -> 0..nobj]
    /\ capp \in [Calls -> SUBSET Principals]

\* The byte counter that eviction relies on equals what is stored, through
\* evictions, expiry, clears and idempotent stores (server.go:130-131).
Accounting == curBytes = TotalSize(Stored)

\* The store stays within its limits whenever the mutex is free: a larger total
\* is possible only for one request that is larger by itself (server.go:233-240).
Bounded ==
    /\ Cardinality(Stored) <= maxMPAApprovals
    /\ MaxTotalBytes > 0 => curBytes <= MaxTotalBytes \/ Cardinality(Stored) = 1

\* A waiter that returned was waiting for a request that somebody other than
\* its requestor approved, even if the map has moved on (server.go:298-315).
WaitMeansApproved ==
    \A w \in Waiters : wpc[w] = "ok" =>
        /\ action[wact[w]] = wid[w]
        /\ \E p \in approvers[wact[w]] : UserOf[p] # Requestor[wid[w]]

\* The approvers a call's policy check sees approved exactly this call, are not
\* its requestor, and did so in a request that was not outdated when the hook
\* looked (server.go:64-94, 176-188, 333-345).
HookApproversGenuine ==
    \A c \in Calls : cpc[c] = "eval" /\ capp[c] # {} =>
        /\ action[cact[c]] = cin[c] /\ capp[c] \subseteq approvers[cact[c]]
        /\ \A p \in capp[c] : UserOf[p] # Requestor[cin[c]]
        /\ lastModified[cact[c]] >= ctime[c] - maxMPAApprovedAge

\* The inductive invariant behind these: what the map, the objects, the waiters
\* and the hooks know of each other.
ObjectsInv ==
    /\ \A a \in Actions : actions[a] # 0 => action[actions[a]] = a
    /\ \A i \in Addrs : \A p \in approvers[i] :
          action[i] \in Actions /\ UserOf[p] # Requestor[action[i]]
    /\ \A i \in Addrs : approved[i] => approvers[i] # {}
StoringInv == storing # Nobody => nobj < MaxStores /\ actions[storing] = 0
WaitersInv ==
    \A w \in Waiters :
        /\ wpc[w] # "idle" => wid[w] \in Actions
        /\ wpc[w] \in {"select", "ok"} => wact[w] # 0 /\ action[wact[w]] = wid[w]
        /\ wpc[w] = "ok" => approved[wact[w]]
CallsInv ==
    \A c \in Calls :
        /\ cpc[c] # "idle" => cid[c] \in Actions /\ cin[c] \in Actions
        /\ ctime[c] <= now
        /\ cpc[c] = "get" => \A a \in Actions : actions[a] # 0 =>
              lastModified[actions[a]] >= ctime[c] - maxMPAApprovedAge
        /\ capp[c] # {} => cact[c] # 0
IInv == TypeOK /\ ObjectsInv /\ StoringInv /\ WaitersInv /\ CallsInv /\ HookApproversGenuine

\* What Bounded and Accounting need of each other: an eviction that empties the
\* store leaves no bytes behind.
BytesInv == IsFiniteSet(Stored) /\ IsFiniteSet(BytesOf(Stored)) /\ Accounting /\ Bounded

\* Storing is idempotent (server.go:223-231): while a request stays stored it is
\* the same object, and it never loses an approver.
ApprovalsKept ==
    [][\A a \in Actions : actions[a] # 0 /\ actions'[a] # 0 =>
          /\ actions'[a] = actions[a]
          /\ approvers[actions[a]] \subseteq approvers'[actions[a]]]_vars

\* A waiter does not hang on a request that is approved or no longer stored,
\* even when it holds a storedAction the map has replaced.
WaiterWakes ==
    \A w \in Waiters : \A a \in Actions :
        (wid[w] = a /\ wpc[w] \in {"lookup", "select"})
            ~> (wpc[w] \in {"ok", "gone"} \/ (actions[a] # 0 /\ ~approved[actions[a]]))
===========================================================================
