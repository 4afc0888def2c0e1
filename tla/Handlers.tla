------------------------------ MODULE Handlers ------------------------------
(***************************************************************************)
(* A target serving RPCs: one or two handlers at work, each going through  *)
(* its script of HandlerScripts, on one host.                              *)
(*                                                                         *)
(* The handlers that work on a file with keys (DataGet, DataSet, the fdb   *)
(* Conf service, and Write and Copy, which replace it) share one path.  A  *)
(* file is the set of RPCs whose edit it holds; a handler has it open as   *)
(* an inode: 0 is the file that was there, r the one RPC r made.           *)
(***************************************************************************)
EXTENDS HandlerScripts, Parsers, Integers

CONSTANTS
    Loads,       \* the sequences of handlers that are at work together
    MaxLines     \* bound: lines of a command's output

ASSUME LoadsAssumption == Loads \subseteq Seq(DOMAIN Scripts)

VARIABLES
    h, at, res,  \* per RPC: handler, position in its script, "run" or how it returned
    temp, guard, \* what it made and has not removed; when it is to be removed
    ran,         \* history: the commands it ran, with their outcome
    changed,     \* history: the changes it made to the host
    told,        \* the exit status, or the need of a reboot, its answer tells
    output, recs,  \* the output in hand, and the records made of it
    blob,        \* the object in the bucket: "none", "open", "partial", "whole"
    over,        \* Write, Copy: the request lets an existing file be replaced
    path,        \* the inode at the path, or NoFile
    file,        \* what every inode holds
    fd, buf,     \* per RPC: the inode it has open, the edits it read
    lock,        \* per inode: the RPC that has it locked
    missed,      \* history, per RPC: those that saved after it read the file and before it did
    cached,      \* server.fdbCLIUid is the configured one
    cred         \* per RPC: c.uid is the configured one

rpcVars  == <<h, over>>
ctlVars  == <<at, res, temp, guard, blob, lock>>
saidVars == <<ran, changed, told, output, recs>>
fileVars == <<path, file, fd, buf, missed>>
credVars == <<cached, cred>>
hdVars   == <<rpcVars, ctlVars, saidVars, fileVars, credVars>>

Rpcs   == DOMAIN h
NoFile == -1
Nobody == 0
Script(r) == Scripts[h[r]]
Active(r) == res[r] = "run" /\ at[r] <= Len(Script(r))
At(r, what) == Active(r) /\ Script(r)[at[r]].do = what
Cur(r) == Script(r)[at[r]]

Replacers == {"Write", "Copy"}
ConfEdits == {"ConfWrite", "ConfDelete"}
DataSets  == {"DataSetYml", "DataSetDotenv"}
Nothing   == [edits |-> {}, torn |-> FALSE, tail |-> FALSE]

HdInit ==
    /\ h \in Loads
    /\ over \in [DOMAIN h -> BOOLEAN] /\ \A r \in DOMAIN h : h[r] \notin Replacers => ~over[r]
    /\ path \in {0} \cup {NoFile : r \in {x \in DOMAIN h : h[x] \in Replacers}}
    /\ at = [r \in DOMAIN h |-> 1] /\ res = [r \in DOMAIN h |-> "run"]
    /\ temp = [r \in DOMAIN h |-> FALSE] /\ guard = [r \in DOMAIN h |-> "none"]
    /\ ran = [r \in DOMAIN h |-> <<>>] /\ changed = [r \in DOMAIN h |-> 0]
    /\ told = [r \in DOMAIN h |-> "nothing"] /\ output = [r \in DOMAIN h |-> <<>>]
    /\ recs = [r \in DOMAIN h |-> Unparsable] /\ blob = [r \in DOMAIN h |-> "none"]
    /\ file = [i \in 0..Len(h) |-> Nothing]
    /\ fd = [r \in DOMAIN h |-> NoFile] /\ buf = [r \in DOMAIN h |-> {}]
    /\ lock = [i \in 0..Len(h) |-> Nobody] /\ missed = [r \in DOMAIN h |-> {}]
    /\ cached = FALSE /\ cred = [r \in DOMAIN h |-> FALSE]

Continue(r) ==
    /\ at' = [at EXCEPT ![r] = @ + 1]
    /\ UNCHANGED <<res, temp, guard, blob, lock>>

\* The deferred calls: temp is removed, the bucket's writer closed, the file unlocked.
UnlockedKeeps(r) == lock
Unlocked(r) == [i \in DOMAIN lock |-> IF lock[i] = r THEN Nobody ELSE lock[i]]
Return(r, result) ==
    /\ res' = [res EXCEPT ![r] = result]
    /\ temp' = [temp EXCEPT ![r] =
                    @ /\ ~(guard[r] = "always" \/ (guard[r] = "error" /\ result # "ok"))]
    /\ blob' = [blob EXCEPT ![r] = IF @ = "open" THEN "partial" ELSE @]
    /\ lock' = Unlocked(r)
    /\ UNCHANGED <<at, guard>>

Finish(r) ==
    /\ res[r] = "run" /\ at[r] > Len(Script(r))
    /\ Return(r, "ok")
    /\ UNCHANGED <<rpcVars, saidVars, fileVars, credVars>>

Checks(r) ==
    /\ At(r, "refuse")
    /\ Continue(r) \/ Return(r, "refused")
    /\ UNCHANGED <<rpcVars, saidVars, fileVars, credVars>>

Calls(r) ==
    /\ At(r, "try") \/ At(r, "send")
    /\ Continue(r) \/ Return(r, "failed")
    /\ UNCHANGED <<rpcVars, saidVars, fileVars, credVars>>

Fails(r) ==
    /\ At(r, "fail")
    /\ Return(r, "failed")
    /\ UNCHANGED <<rpcVars, saidVars, fileVars, credVars>>

\* Stat and Sum: a request after another, until the caller closes.
Serves(r) ==
    /\ At(r, "serve")
    /\ Continue(r) \/ Return(r, "refused") \/ Return(r, "failed")
    /\ UNCHANGED <<rpcVars, saidVars, fileVars, credVars>>

Changes(r) ==
    /\ At(r, "change")
    /\ \/ Continue(r) /\ changed' = [changed EXCEPT ![r] = @ + 1]
       \/ Return(r, "failed") /\ UNCHANGED changed
    /\ UNCHANGED <<rpcVars, ran, told, output, recs, fileVars, credVars>>

\* An optional part of the request is absent, or present.
Skips(r) ==
    /\ At(r, "maybe")
    /\ at' = [at EXCEPT ![r] = @ + 1] \/ at' = [at EXCEPT ![r] = @ + 1 + Cur(r).n]
    /\ UNCHANGED <<rpcVars, res, temp, guard, blob, lock, saidVars, fileVars, credVars>>

Makes(r) ==
    /\ At(r, "temp")
    /\ \/ /\ at' = [at EXCEPT ![r] = @ + 1] /\ temp' = [temp EXCEPT ![r] = TRUE]
          /\ UNCHANGED <<res, guard, blob, lock>>
       \/ Return(r, "failed")
    /\ UNCHANGED <<rpcVars, saidVars, fileVars, credVars>>

Defers(r) ==
    /\ At(r, "defer")
    /\ guard' = [guard EXCEPT ![r] = Cur(r).when] /\ at' = [at EXCEPT ![r] = @ + 1]
    /\ UNCHANGED <<rpcVars, res, temp, blob, lock, saidVars, fileVars, credVars>>

----------------------------------------------------------------------------
(* util.RunCommand: a command ends with status "zero", another one, or is    *)
(* "notrun" (run.Error, with exit code -1).                                  *)

Outcomes == {"zero", "nonzero", "notrun"}

\* The handler goes on after a command with this outcome.
RunPassesAnyStatus(rule, out, noise) == out # "notrun" /\ ~(rule = "quiet" /\ noise)
RunPasses(rule, out, noise) ==
    CASE rule = "hint" -> TRUE
      [] rule = "code" -> out # "notrun"
      [] rule = "strict" -> out = "zero"
      [] rule = "quiet" -> out = "zero" /\ ~noise

\* What the answer tells of it: an exit status, or whether a reboot is needed.
Tells(rule, out, was) ==
    CASE rule = "code" -> out
      [] rule = "hint" -> IF out = "nonzero" THEN "reboot" ELSE "noReboot"
      [] OTHER -> was

Runs(r) ==
    /\ At(r, "run")
    /\ \E out \in Outcomes, noise \in BOOLEAN :
          /\ noise => Cur(r).rule = "quiet"
          /\ ran' = [ran EXCEPT ![r] = Append(@, [rule |-> Cur(r).rule, acts |-> Cur(r).acts,
                                                  out |-> out, noise |-> noise])]
          /\ told' = [told EXCEPT ![r] = Tells(Cur(r).rule, out, @)]
          /\ IF RunPasses(Cur(r).rule, out, noise) THEN Continue(r) ELSE Return(r, "failed")
    /\ UNCHANGED <<rpcVars, changed, output, recs, fileVars, credVars>>

\* The parsers, on any output of at most max lines.
Outputs(kind, max) ==
    CASE kind \in {"records", "stacks"} ->
             UNION {[1..n -> {"head", "body", "long"}] : n \in 0..max}
      [] kind = "fields" ->
             LET line == [n : 0..4, is : {"text"}] \cup [n : 2..4, is : {"header"}]
                         \cup [n : {0}, is : {"long"}]
             IN UNION {[1..n -> line] : n \in 0..max}
      [] OTHER -> UNION {[1..n -> {"line", "bad"}] : n \in 0..max}
Lines(kind) == Outputs(kind, MaxLines)
Parsed(kind, ls) ==
    CASE kind = "records" -> parseYumRepoListOutput(ls)
      [] kind = "stacks" -> SplitStacks(ls)
      [] kind = "fields" -> parseYumListInstallOutput(ls)
      [] OTHER -> IF "bad" \in {ls[i] : i \in DOMAIN ls} THEN Unparsable
                ELSE Good(<<Len(ls)>>)

\* What a line says may be refused too: the head of a stack, the version of a package.
Rejects(kind, ls) ==
    \/ ~Parsed(kind, ls).ok
    \/ kind = "stacks" /\ Heads(Scanned(ls)) # {}
    \/ kind = "fields" /\ Packages(ls).pkgs > 0
\* A package without a period in its name (extractNA), a line of a repository without a value.
ParsePanics(kind, ls) ==
    \/ kind = "fields" /\ Packages(ls).pkgs > 0
    \/ kind = "records" /\ Scanned(ls) # <<>>
Parses(r) ==
    /\ At(r, "parse")
    /\ \E ls \in Lines(Cur(r).kind) :
          /\ output' = [output EXCEPT ![r] = ls]
          /\ recs' = [recs EXCEPT ![r] = Parsed(Cur(r).kind, ls)]
          /\ \/ Parsed(Cur(r).kind, ls).ok /\ Continue(r)
             \/ Rejects(Cur(r).kind, ls) /\ Return(r, "failed")
             \/ ParsePanics(Cur(r).kind, ls) /\ Return(r, "panic")
    /\ UNCHANGED <<rpcVars, ran, changed, told, fileVars, credVars>>

\* openBlobForWriting; its writer is closed on return.
OpensBucket(r) ==
    /\ At(r, "bucket")
    /\ \/ /\ at' = [at EXCEPT ![r] = @ + 1] /\ blob' = [blob EXCEPT ![r] = "open"]
          /\ UNCHANGED <<res, temp, guard, lock>>
       \/ Return(r, "refused")
    /\ UNCHANGED <<rpcVars, saidVars, fileVars, credVars>>

\* The copy, the check of its size, and Close.
Uploads(r) ==
    /\ At(r, "upload")
    /\ \/ /\ at' = [at EXCEPT ![r] = @ + 1] /\ blob' = [blob EXCEPT ![r] = "whole"]
          /\ UNCHANGED <<res, temp, guard, lock>>
       \/ Return(r, "failed")
    /\ UNCHANGED <<rpcVars, saidVars, fileVars, credVars>>

\* <-resultChan: systemd tells how the job ended, or that it was cancelled.
Awaits(r) ==
    /\ At(r, "await")
    /\ Continue(r) \/ Return(r, "failed")
    /\ UNCHANGED <<rpcVars, saidVars, fileVars, credVars>>

\* getKernelMessages: the parser's channel is closed, which adds a record without a
\* message, or the time is up or the call cancelled.
Kernel(r) ==
    /\ At(r, "kmsg")
    /\ \E n \in 0..MaxLines, ended \in BOOLEAN :
          /\ output' = [output EXCEPT ![r] = [i \in 1..n |-> "line"]]
          /\ recs' = [recs EXCEPT ![r] = Good(<<IF ended THEN n + 1 ELSE n>>)]
    /\ Continue(r)
    /\ UNCHANGED <<rpcVars, ran, changed, told, fileVars, credVars>>

\* regexp.MustCompile of a bad pattern panics, and nothing recovers.
Compiles(r) ==
    /\ At(r, "compile")
    /\ Continue(r) \/ Return(r, "panic")
    /\ UNCHANGED <<rpcVars, saidVars, fileVars, credVars>>

\* Write's contents: more of them, or a second description or none, or an error.
Receives(r) ==
    /\ At(r, "contents")
    /\ Continue(r) \/ Return(r, "refused") \/ Return(r, "failed")
    /\ UNCHANGED <<rpcVars, saidVars, fileVars, credVars>>

\* Copy's deferred Close of the reader and of the bucket: its error becomes Copy's.
Closes(r) ==
    /\ At(r, "close")
    /\ Continue(r) \/ Return(r, "failed")
    /\ UNCHANGED <<rpcVars, saidVars, fileVars, credVars>>

----------------------------------------------------------------------------
(* The shared file *)

Exists(r) ==
    /\ At(r, "exists")
    /\ IF path # NoFile /\ ~over[r] THEN Return(r, "failed") ELSE Continue(r)
    /\ UNCHANGED <<rpcVars, saidVars, fileVars, credVars>>

\* Those that have read the file and not saved it yet miss what r saves; Write and Copy
\* read nothing of what they replace.
Misses(r) == [o \in Rpcs |->
                 IF /\ o # r /\ res[o] = "run" /\ changed[o] = 0
                    /\ fd[o] # NoFile \/ h[o] \in Replacers
                 THEN missed[o] \cup {r} ELSE missed[o]]

\* The temporary file is renamed to the path (or is the directory made).
Commits(r) ==
    /\ At(r, "commit")
    /\ temp' = [temp EXCEPT ![r] = FALSE] /\ changed' = [changed EXCEPT ![r] = @ + 1]
    /\ IF h[r] \in Replacers THEN path' = r /\ missed' = Misses(r)
                              ELSE UNCHANGED <<path, missed>>
    /\ at' = [at EXCEPT ![r] = @ + 1]
    /\ UNCHANGED <<rpcVars, res, guard, blob, lock, ran, told, output, recs, file, fd, buf,
                   credVars>>

\* ini.LoadSources, and the edit.
LoadsConf(r) ==
    /\ At(r, "loadConf")
    /\ \/ /\ path # NoFile /\ Continue(r)
          /\ fd' = [fd EXCEPT ![r] = path] /\ buf' = [buf EXCEPT ![r] = file[path].edits]
       \/ Return(r, "failed") /\ UNCHANGED <<fd, buf>>
    /\ UNCHANGED <<rpcVars, saidVars, path, file, missed, credVars>>

\* os.Rename of atomicSaveTo
ReplacesConf(r) ==
    /\ At(r, "replace")
    /\ \/ /\ at' = [at EXCEPT ![r] = @ + 1] /\ temp' = [temp EXCEPT ![r] = FALSE]
          /\ changed' = [changed EXCEPT ![r] = @ + 1]
          /\ path' = r /\ file' = [file EXCEPT ![r] = [Nothing EXCEPT !.edits = buf[r] \cup {r}]]
          /\ missed' = Misses(r)
          /\ UNCHANGED <<res, guard, blob, lock>>
       \/ Return(r, "failed") /\ UNCHANGED <<changed, path, file, missed>>
    /\ UNCHANGED <<rpcVars, ran, told, output, recs, fd, buf, credVars>>

\* A file being rewritten has no value to give.
Looks(r) ==
    /\ At(r, "look")
    /\ \/ path # NoFile /\ ~file[path].torn /\ Continue(r)
       \/ Return(r, "failed")
    /\ UNCHANGED <<rpcVars, saidVars, fileVars, credVars>>

OpensFile(r) ==
    /\ At(r, "open")
    /\ \/ path # NoFile /\ Continue(r) /\ fd' = [fd EXCEPT ![r] = path]
       \/ Return(r, "failed") /\ UNCHANGED fd
    /\ UNCHANGED <<rpcVars, saidVars, path, file, buf, missed, credVars>>

\* flock(LOCK_EX) waits.
Locks(r) ==
    /\ At(r, "lock") /\ lock[fd[r]] = Nobody
    /\ lock' = [lock EXCEPT ![fd[r]] = r] /\ at' = [at EXCEPT ![r] = @ + 1]
    /\ UNCHANGED <<rpcVars, res, temp, guard, blob, saidVars, fileVars, credVars>>

ReadsIn(r) ==
    /\ At(r, "readIn")
    /\ \/ Continue(r) /\ buf' = [buf EXCEPT ![r] = file[fd[r]].edits]
       \/ Return(r, "failed") /\ UNCHANGED buf
    /\ UNCHANGED <<rpcVars, saidVars, path, file, fd, missed, credVars>>

Truncates(r) ==
    /\ At(r, "truncate")
    /\ \/ Continue(r) /\ file' = [file EXCEPT ![fd[r]] = [Nothing EXCEPT !.torn = TRUE]]
       \/ Return(r, "failed") /\ UNCHANGED file
    /\ UNCHANGED <<rpcVars, saidVars, path, fd, buf, missed, credVars>>

\* The new content is written over the file from its start; without a truncate the end
\* of a longer old content stays.
Writes(r) ==
    /\ At(r, "write")
    /\ \/ \E shorter \in BOOLEAN :
             /\ shorter => h[r] = "DataSetDotenv"
             /\ file' = [file EXCEPT ![fd[r]] =
                             [edits |-> buf[r] \cup {r}, torn |-> FALSE,
                              tail |-> shorter \/ @.tail]]
             /\ changed' = [changed EXCEPT ![r] = @ + 1] /\ missed' = Misses(r)
             /\ Continue(r)
       \/ Return(r, "failed") /\ UNCHANGED <<file, changed, missed>>
    /\ UNCHANGED <<rpcVars, ran, told, output, recs, path, fd, buf, credVars>>

----------------------------------------------------------------------------
(* processCreds *)

CopiesCreds(r) ==
    /\ At(r, "copyCreds")
    /\ cred' = [cred EXCEPT ![r] = cached] /\ Continue(r)
    /\ UNCHANGED <<rpcVars, saidVars, fileVars, cached>>

\* Under the mutex: the user is looked up unless the cache has it.
FillsCreds(r) ==
    /\ At(r, "fillCreds")
    /\ IF cached THEN Continue(r) /\ UNCHANGED credVars
       ELSE \/ Continue(r) /\ cached' = TRUE /\ cred' = [cred EXCEPT ![r] = TRUE]
            \/ Return(r, "refused") /\ UNCHANGED credVars
    /\ UNCHANGED <<rpcVars, saidVars, fileVars>>

ScriptStep(r) ==
    \/ Finish(r) \/ Checks(r) \/ Calls(r) \/ Fails(r) \/ Serves(r) \/ Changes(r) \/ Skips(r)
    \/ Makes(r) \/ Defers(r) \/ Runs(r) \/ Parses(r) \/ OpensBucket(r) \/ Uploads(r)
    \/ Awaits(r) \/ Kernel(r) \/ Compiles(r) \/ Receives(r) \/ Closes(r) \/ Exists(r)
    \/ Commits(r) \/ LoadsConf(r) \/ ReplacesConf(r) \/ Looks(r) \/ OpensFile(r) \/ Locks(r)
    \/ ReadsIn(r) \/ Truncates(r) \/ Writes(r) \/ CopiesCreds(r) \/ FillsCreds(r)
=============================================================================
