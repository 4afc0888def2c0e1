---------------------------- MODULE Credentials ----------------------------
(***************************************************************************)
(* The certificates of a server, which it reloads when their source has    *)
(* changed.  A certificate is the number of the change that brought it.    *)
(* The source (CredentialsLoader) is outside the program: it tells whether *)
(* it has something newer than what it last gave.                          *)
(***************************************************************************)
EXTENDS Handlers

CONSTANT MaxGen      \* bound: the changes of the source

ASSUME CredsAssumption == MaxGen \in Nat

VARIABLES
    gen, seen,       \* what the source has, and what it last gave
    creds,           \* w.creds
    loaded,          \* per handler: newCreds, loaded and not yet stored, or None
    readers,         \* who holds w.mu for reading
    used, began,     \* per handler: what it used; what the source had at its check
    kept,            \* those whose reload failed and that went on
    overlapped       \* history: a check or reload was made during another's reload

certVars == <<gen, seen, creds, loaded, readers, used, began, kept, overlapped>>

None == MaxGen + 1
CertUsers == {"ServerHandshake", "ForceRefresh", "InfoOrClone", "MultiHandshake"}

CertInit ==
    /\ gen = 0 /\ seen = 0 /\ creds = 0
    /\ loaded = [r \in DOMAIN h |-> None] /\ readers = {}
    /\ used = [r \in DOMAIN h |-> None] /\ began = [r \in DOMAIN h |-> None]
    /\ kept = {} /\ overlapped = FALSE

\* The source has new certificates.
Rotates ==
    /\ \E r \in Rpcs : h[r] \in CertUsers /\ res[r] = "run"
    /\ gen < MaxGen /\ gen' = gen + 1
    /\ UNCHANGED <<hdVars, seen, creds, loaded, readers, used, began, kept, overlapped>>

CertsRefreshed == seen < gen
Reloading(r) == \E o \in Rpcs \ {r} : loaded[o] # None

\* checkRefresh: without news the reload is left out.
ChecksCerts(r) ==
    /\ At(r, "check")
    /\ began' = [began EXCEPT ![r] = gen] /\ overlapped' = (overlapped \/ Reloading(r))
    /\ at' = [at EXCEPT ![r] = IF CertsRefreshed THEN @ + 1 ELSE @ + 3]
    /\ UNCHANGED <<rpcVars, res, temp, guard, blob, lock, saidVars, fileVars, credVars,
                   gen, seen, creds, loaded, readers, used, kept>>

\* The loader is called without the lock.
LoadsCerts(r) ==
    /\ At(r, "load") \/ At(r, "tryLoad")
    /\ overlapped' = (overlapped \/ Reloading(r))
    /\ \/ /\ loaded' = [loaded EXCEPT ![r] = gen] /\ seen' = gen
          /\ Continue(r) /\ UNCHANGED kept
       \/ /\ At(r, "load") /\ Return(r, "failed") /\ UNCHANGED <<loaded, seen, kept>>
       \/ /\ At(r, "tryLoad") /\ kept' = kept \cup {r} /\ at' = [at EXCEPT ![r] = @ + 2]
          /\ UNCHANGED <<res, temp, guard, blob, lock, loaded, seen>>
    /\ UNCHANGED <<rpcVars, saidVars, fileVars, credVars, gen, creds, readers, used, began>>

NewCredsDropped(r) == creds
NewCreds(r) == loaded[r]
\* w.mu.Lock waits for the handshakes that hold it for reading.
StoresCerts(r) ==
    /\ At(r, "store") /\ readers = {}
    /\ creds' = NewCreds(r) /\ loaded' = [loaded EXCEPT ![r] = None]
    /\ Continue(r)
    /\ UNCHANGED <<rpcVars, saidVars, fileVars, credVars, gen, seen, readers, used, began,
                   kept, overlapped>>

\* The lock is held for reading until the handshake is over.
Shakes(r) ==
    /\ At(r, "shake")
    /\ readers' = readers \cup {r} /\ used' = [used EXCEPT ![r] = creds]
    /\ Continue(r)
    /\ UNCHANGED <<rpcVars, saidVars, fileVars, credVars, gen, seen, creds, loaded, began, kept,
                   overlapped>>
Shaken(r) ==
    /\ At(r, "shaken")
    /\ readers' = readers \ {r}
    /\ Continue(r) \/ Return(r, "failed")
    /\ UNCHANGED <<rpcVars, saidVars, fileVars, credVars, gen, seen, creds, loaded, used, began,
                   kept, overlapped>>

\* creds is read under the lock and used without it; Clone's lock is exclusive.
TakesCerts(r) ==
    /\ At(r, "pick") \/ (At(r, "clone") /\ readers = {})
    /\ used' = [used EXCEPT ![r] = creds]
    /\ Continue(r)
    /\ UNCHANGED <<rpcVars, saidVars, fileVars, credVars, gen, seen, creds, loaded, readers,
                   began, kept, overlapped>>

CertStep(r) == ChecksCerts(r) \/ LoadsCerts(r) \/ StoresCerts(r) \/ Shakes(r) \/ Shaken(r)
               \/ TakesCerts(r)
=============================================================================
