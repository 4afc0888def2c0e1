---------------------------- MODULE TargetServer ----------------------------
(***************************************************************************)
(* The handlers of a target, with the goroutines two of them start.        *)
(*                                                                         *)
(* LocalFile.Read starts one that lists a directory into fileChan and two  *)
(* that take names from it, read the file and send it under server.mu, and *)
(* returns when all three have ended.  Exec.StreamingRun starts one that   *)
(* sends the command's stderr, and does not wait for it.                   *)
(***************************************************************************)
EXTENDS Credentials

CONSTANTS
    FileChanCap,   \* capacity of fileChan
    MaxFiles,      \* bound: files of the directories that are read
    MaxErrs        \* bound: pieces of stderr

ASSUME TargetAssumption == FileChanCap \in Nat \ {0} /\ MaxFiles \in Nat /\ MaxErrs \in Nat

VARIABLES
    names,       \* per Read: the files of the directory not yet put in fileChan
    lister,      \* the goroutine that lists: "off", "on", "ok", "failed"
    fileChan,    \* names in fileChan
    reader,      \* its two readers: "off", "take", "read", "sending", "ok", "failed"
    delivered,   \* history: files sent
    mu,          \* server.mu: the Read and reader that hold it
    errs,        \* StreamingRun's goroutine: "off", "on", "sending", "over"
    stderr,      \* pieces of stderr in the pipe
    pipe         \* the pipe is open

readVars == <<names, lister, fileChan, reader, delivered, mu>>
execVars == <<errs, stderr, pipe>>
tsVars   == <<hdVars, readVars, execVars, certVars>>

parallelism == 1..2
Free == <<0, 0>>
Of(name) == {r \in Rpcs : h[r] = name}

TsInit ==
    /\ HdInit /\ CertInit
    /\ names \in [DOMAIN h -> 0..MaxFiles] /\ Total(names, Len(h)) <= MaxFiles
    /\ \A r \in DOMAIN h : h[r] # "Read" => names[r] = 0
    /\ lister = [r \in DOMAIN h |-> "off"] /\ fileChan = [r \in DOMAIN h |-> 0]
    /\ reader = [r \in DOMAIN h |-> [i \in parallelism |-> "off"]]
    /\ delivered = [r \in DOMAIN h |-> 0] /\ mu = Free
    /\ errs = [r \in DOMAIN h |-> "off"] /\ pipe = errs
    /\ stderr = [r \in DOMAIN h |-> 0]

----------------------------------------------------------------------------
(* LocalFile.Read *)

StartsRead(r) ==
    /\ At(r, "read") /\ lister[r] = "off"
    /\ lister' = [lister EXCEPT ![r] = "on"]
    /\ reader' = [reader EXCEPT ![r] = [i \in parallelism |-> "take"]]
    /\ UNCHANGED <<certVars, hdVars, names, fileChan, delivered, mu, execVars>>

\* listFor's consumer: fileChan <- item.Filename, which watches no context.
Lists(r) ==
    /\ r \in Of("Read") /\ lister[r] = "on" /\ names[r] > 0 /\ fileChan[r] < FileChanCap
    /\ names' = [names EXCEPT ![r] = @ - 1] /\ fileChan' = [fileChan EXCEPT ![r] = @ + 1]
    /\ UNCHANGED <<certVars, hdVars, lister, reader, delivered, mu, execVars>>

\* The listing ends, or fails before a file (its stat); fileChan is closed.
ListingEnds(r) ==
    /\ r \in Of("Read") /\ lister[r] = "on"
    /\ \/ names[r] = 0 /\ lister' = [lister EXCEPT ![r] = "ok"]
       \/ /\ names[r] = 0 \/ fileChan[r] < FileChanCap
          /\ lister' = [lister EXCEPT ![r] = "failed"]
    /\ UNCHANGED <<certVars, hdVars, names, fileChan, reader, delivered, mu, execVars>>

Becomes(r, i, what) == reader' = [reader EXCEPT ![r][i] = what]

Takes(r, i) ==
    /\ r \in Of("Read") /\ reader[r][i] = "take"
    /\ \/ /\ fileChan[r] > 0 /\ fileChan' = [fileChan EXCEPT ![r] = @ - 1]
          /\ Becomes(r, i, "read")
       \/ /\ fileChan[r] = 0 /\ lister[r] \in {"ok", "failed"}
          /\ Becomes(r, i, "ok") /\ UNCHANGED fileChan
    /\ UNCHANGED <<certVars, hdVars, names, lister, delivered, mu, execVars>>

\* open, seek, dataPrep, read; a piece is ready for Send, or one of them failed.
ReadsFile(r, i) ==
    /\ r \in Of("Read") /\ reader[r][i] = "read"
    /\ \/ mu = Free /\ mu' = <<r, i>> /\ Becomes(r, i, "sending")
       \/ Becomes(r, i, "failed") /\ UNCHANGED mu
    /\ UNCHANGED <<certVars, hdVars, names, lister, fileChan, delivered, execVars>>

\* Send returns, and the mutex is free; the file is at its end.
SendsFile(r, i) ==
    /\ r \in Of("Read") /\ reader[r][i] = "sending"
    /\ mu' = Free
    /\ \/ Becomes(r, i, "take") /\ delivered' = [delivered EXCEPT ![r] = @ + 1]
       \/ Becomes(r, i, "failed") /\ UNCHANGED delivered
    /\ UNCHANGED <<certVars, hdVars, names, lister, fileChan, execVars>>

\* errs.Wait(): the first error, when all have ended.
EndsRead(r) ==
    /\ At(r, "read") /\ lister[r] \in {"ok", "failed"}
    /\ \A i \in parallelism : reader[r][i] \in {"ok", "failed"}
    /\ IF lister[r] = "ok" /\ \A i \in parallelism : reader[r][i] = "ok"
       THEN Continue(r) ELSE Return(r, "failed")
    /\ UNCHANGED <<certVars, rpcVars, saidVars, fileVars, credVars, readVars, execVars>>

----------------------------------------------------------------------------
(* Exec.StreamingRun *)

StartsErrs(r) ==
    /\ At(r, "spawn")
    /\ errs' = [errs EXCEPT ![r] = "on"] /\ pipe' = [pipe EXCEPT ![r] = "on"]
    /\ stderr' \in {[stderr EXCEPT ![r] = n] : n \in 0..MaxErrs}
    /\ Continue(r)
    /\ UNCHANGED <<certVars, rpcVars, saidVars, fileVars, credVars, readVars>>

\* stdout is sent until it ends; an error returns at once, and the process is left to the
\* caller's context.
SendsStdout(r) ==
    /\ At(r, "stdout")
    /\ Continue(r) \/ Return(r, "failed")
    /\ UNCHANGED <<certVars, rpcVars, saidVars, fileVars, credVars, readVars, execVars>>

\* cmd.Wait closes the pipes; an exit status is sent.
Waits(r) ==
    /\ At(r, "wait")
    /\ pipe' = [pipe EXCEPT ![r] = "off"]
    /\ \E out \in Outcomes :
          /\ ran' = [ran EXCEPT ![r] = <<[rule |-> "code", acts |-> TRUE, out |-> out,
                                          noise |-> FALSE]>>]
          /\ \/ /\ out # "notrun" /\ Continue(r)
                /\ told' = [told EXCEPT ![r] = out]
             \/ out # "zero" /\ Return(r, "failed") /\ UNCHANGED told
    /\ UNCHANGED <<certVars, rpcVars, changed, output, recs, fileVars, credVars, readVars, errs, stderr>>

\* The goroutine: Read of the pipe, then Send.
ErrsReads(r) ==
    /\ errs[r] = "on"
    /\ \/ /\ stderr[r] > 0 /\ pipe[r] = "on"
          /\ stderr' = [stderr EXCEPT ![r] = @ - 1] /\ errs' = [errs EXCEPT ![r] = "sending"]
       \/ /\ stderr[r] = 0 \/ pipe[r] = "off"
          /\ errs' = [errs EXCEPT ![r] = "over"] /\ UNCHANGED stderr
    /\ UNCHANGED <<certVars, hdVars, readVars, pipe>>

ErrsSends(r) ==
    /\ errs[r] = "sending"
    /\ \E next \in {"on", "over"} : errs' = [errs EXCEPT ![r] = next]
    /\ UNCHANGED <<certVars, hdVars, readVars, stderr, pipe>>

----------------------------------------------------------------------------

Up == \A r \in Rpcs : res[r] # "panic"      \* a panic ends the server
Handle(r) ==
    Up /\ \/ ScriptStep(r) /\ UNCHANGED <<readVars, execVars, certVars>>
          \/ CertStep(r) /\ UNCHANGED <<readVars, execVars>>
          \/ StartsRead(r) \/ EndsRead(r) \/ StartsErrs(r) \/ SendsStdout(r) \/ Waits(r)
Threads(r) ==
    Up /\ \/ Lists(r) \/ ListingEnds(r) \/ ErrsReads(r) \/ ErrsSends(r)
          \/ \E i \in parallelism : Takes(r, i) \/ ReadsFile(r, i) \/ SendsFile(r, i)
TsNext == \/ \E r \in Rpcs : Handle(r) \/ Threads(r)
          \/ Rotates /\ UNCHANGED <<readVars, execVars>>

\* Commands, systemd and the callers are not stuck for ever; every goroutine is scheduled.
TsFairness ==
    /\ \A r \in 1..2 : WF_tsVars(r \in Rpcs /\ Handle(r))
    /\ \A r \in 1..2 : WF_tsVars(r \in Rpcs /\ (Lists(r) \/ ListingEnds(r)))
    /\ \A r \in 1..2 : WF_tsVars(r \in Rpcs /\ (ErrsReads(r) \/ ErrsSends(r)))
    /\ \A r \in 1..2, i \in parallelism : SF_tsVars(r \in Rpcs /\ ReadsFile(r, i))
    /\ \A r \in 1..2, i \in parallelism :
          WF_tsVars(r \in Rpcs /\ (Takes(r, i) \/ SendsFile(r, i)))
TsSpec == TsInit /\ [][TsNext]_tsVars /\ TsFairness

----------------------------------------------------------------------------
(* Properties *)

Done(r) == res[r] # "run"

\* The commands a handler depends on have ended with status zero, and without a word on
\* stderr where that is asked; the status it tells is the command's.
CommandsPassed(r) ==
    \A i \in DOMAIN ran[r] :
        /\ ran[r][i].rule \in {"strict", "quiet"} => ran[r][i].out = "zero"
        /\ ran[r][i].rule = "quiet" => ~ran[r][i].noise
        /\ ran[r][i].rule = "code" => told[r] = ran[r][i].out
\* What it lists are the records of the output, one for every head there is.  Exceptions:
\* what follows a line too long for the scanner is missing from the stacks; output without
\* a head is one empty record; a list of packages without its header is no package at all.
ListsTheRecords(r) ==
    /\ h[r] = "RepoList" /\ Heads(output[r]) # {} => recs[r] = RecordsOf(output[r])
    /\ h[r] \in {"GetStacks", "GetJavaStacks"} /\ Heads(Scanned(output[r])) # {} =>
          recs[r] = RecordsOf(Scanned(output[r]))
    /\ h[r] = "ListInstalled" /\ Headers(output[r]) # {} =>
          recs[r] = PackagesOf(output[r]) /\ recs[r].ok
\* The object in the bucket is whole, and a directory was read to its last file.
NothingMissing(r) ==
    /\ blob[r] \in {"none", "whole"}
    /\ h[r] = "Read" => names[r] = 0 /\ fileChan[r] = 0

\* A handler that answers without an error has had every command it depends on succeed,
\* lists what the command put out, and has left nothing out of an upload or a directory.
\* Not claimed, as the code does not give it: GetStacks and GetJavaStacks never ask for
\* scanner.Err and answer OK with the stacks before an over-long line; ListInstalled answers
\* OK with no package when "Installed Packages" is missing; RepoList, GetStacks and
\* GetJavaStacks answer output without a head by one record.
OkEarned ==
    \A r \in Rpcs : res[r] = "ok" => CommandsPassed(r) /\ ListsTheRecords(r) /\ NothingMissing(r)

\* A handler that has returned has removed what it made on the way, by whichever path it
\* returned; the exceptions are an fdbcli command that made a log directory and failed
\* before its defer, Copy when the attributes are refused, and the connection of
\* GetTLSCertificate.
NothingLeft ==
    \A r \in Rpcs : Done(r) /\ temp[r] =>
        \/ h[r] \in {"FDBCLI", "Copy"} /\ res[r] # "ok" /\ guard[r] = "none"
        \/ h[r] = "GetTLSCertificate"

\* A request that is refused as invalid has changed nothing: no command that changes the
\* host was run for it, and no file written.
RefusedUntouched ==
    \A r \in Rpcs : res[r] = "refused" =>
        changed[r] = 0 /\ \A i \in DOMAIN ran[r] : ~ran[r][i].acts

Before(r, what) == \E i \in DOMAIN Script(r) : i < at[r] /\ Script(r)[i].do = what
Edits == DataSets \cup ConfEdits
Renamers == ConfEdits \cup Replacers        \* their file takes the place of the one there

\* o has saved over the file without the edit of r, which came after o had read it.
SavedWithout(o, r) == h[o] \in Renamers /\ changed[o] > 0 /\ r \in missed[o]
\* o has replaced the file that r had open, so that r wrote to one no longer there.
ReplacedUnder(o, r) == h[o] \in Renamers /\ h[r] \in DataSets /\ o \in missed[r]
\* o has emptied the file, which had the edit of r, and is about to write it or has failed to.
Emptied(o, r) ==
    /\ r \in buf[o] /\ Before(o, "truncate") /\ ~Before(o, "write")
    /\ Done(o) \/ fd[o] = path
\* c has saved the file while o was rewriting it, or o has rewritten it while c worked.
Crossed(c, o, r) ==
    /\ r \in buf[o] /\ Before(o, "truncate") /\ h[c] \in ConfEdits /\ changed[c] > 0
    /\ o \in missed[c] \/ c \in missed[o]

\* An edit that was answered without an error is in the file, whatever other handlers did
\* meanwhile, in any number; except when a handler that takes no lock got in between (a Write,
\* a Copy or a Conf handler that saved what it had read before, or put another file in the
\* place of the one being edited, or read it while it was being rewritten), and while a
\* rewrite has the file empty or when it failed at that point.  Edits that are all made
\* through DataSet are lost in the last way only.
KeysKept ==
    \A r \in Rpcs : res[r] = "ok" /\ h[r] \in Edits =>
        \/ r \in file[path].edits
        \/ \E o \in Rpcs \ {r} : \/ SavedWithout(o, r) \/ ReplacedUnder(o, r) \/ Emptied(o, r)
                                 \/ \E c \in Rpcs : Crossed(c, o, r)

\* A handshake uses certificates that are as new as those the source had when it looked;
\* except when another reload was under way meanwhile (its certificates were loaded and not
\* yet stored, so the source has nothing new to tell, or an older reload is stored last), and
\* where a reload that failed is passed over on purpose.
HandshakeFresh ==
    \A r \in Rpcs : used[r] # None /\ used[r] < began[r] => overlapped \/ r \in kept

\* A Read whose readers have both failed, with more files to list than fileChan holds: its
\* lister waits for ever, and so does the handler.
ReadStuck(r) ==
    /\ h[r] = "Read" /\ lister[r] = "on" /\ names[r] > 0 /\ fileChan[r] = FileChanCap
    /\ \A i \in parallelism : reader[r][i] = "failed"

Ended(r) == r \in Rpcs => \/ Done(r) /\ errs[r] \in {"off", "over"}
                          \/ ReadStuck(r) \/ ~Up
\* Every handler returns, and the goroutine it leaves behind ends, provided commands end,
\* systemd answers and callers read or go away; except for a stuck Read, and when the
\* server goes down.
HandlersEnd == \A r \in 1..2 : <>Ended(r)

\* fdbcli.go, processCreds: "does a cached load of the uid/gid and is thread safe": every
\* fdbcli command is run as the configured user.
RunsAsConfigured ==
    \A r \in Rpcs : h[r] = "FDBCLI" /\ ran[r] # <<>> => cred[r]

----------------------------------------------------------------------------
(***************************************************************************)
(* The inductive invariant behind OkEarned, NothingLeft, RefusedUntouched  *)
(* and HandshakeFresh.  It says what a handler has done by its position in *)
(* its script; what the scripts must be like for the four to follow is     *)
(* Orderly, and what OkEarned asks of the parsers is ParsersRight.         *)
(***************************************************************************)

Refusing(e) == e.do \in {"refuse", "serve", "bucket", "contents", "fillCreds"}
Acting(e) == \/ e.do \in {"change", "commit", "replace", "write", "wait"}
             \/ e.do = "run" /\ e.acts = TRUE
Telling(e) == e.do = "wait" \/ (e.do = "run" /\ e.rule = "code")
CertSteps == {"check", "load", "tryLoad", "store", "shake", "clone", "pick"}
Careless  == {"FDBCLI", "Copy", "GetTLSCertificate"}

\* Requests are checked before anything is changed.
ChecksFirst(s) == \A i, j \in DOMAIN s : i <= j /\ Acting(s[i]) => ~Refusing(s[j])

\* Of the steps that may be skipped none is one that the others rely on.
SkipsSafely(s) ==
    \A i \in DOMAIN s : s[i].do = "maybe" =>
        /\ s[i].n \in Nat
        /\ \A j \in DOMAIN s : s[j].do \notin CertSteps
        /\ \A j \in DOMAIN s : i < j /\ j <= i + s[i].n =>
              s[j].do \notin {"commit", "defer", "upload"}

\* What is made is under a defer at once, and what is kept on success is committed.
TempsGuarded(name, s) ==
    /\ \A i \in DOMAIN s : s[i].do = "temp" =>
          /\ \A j \in DOMAIN s : j < i => s[j].do # "commit"
          /\ \/ name \in Careless
             \/ \E j \in DOMAIN s : j <= i + 1 /\ s[j].do = "defer"
    /\ \A i \in DOMAIN s : s[i].do = "defer" =>
          /\ s[i].when \in {"always", "error"}
          /\ s[i].when = "error" => \E j \in DOMAIN s : s[j].do = "commit"
    /\ name \in {"FDBCLI", "Copy"} => \E j \in DOMAIN s : s[j].do = "defer"

UploadsEnd(s) ==
    \A i \in DOMAIN s : s[i].do = "bucket" =>
        /\ \E j \in DOMAIN s : s[j].do = "upload"
        /\ \A j \in DOMAIN s : j < i => s[j].do # "upload"

\* No command is run after the one whose status is told.
TellsLast(s) ==
    /\ \A i, j \in DOMAIN s : i < j /\ Telling(s[i]) => s[j].do \notin {"run", "wait"}
    /\ \A i \in DOMAIN s : s[i].do = "run" =>
          s[i].rule \in {"strict", "quiet", "hint", "code"} /\ s[i].acts \in BOOLEAN

\* A check comes first, what is loaded is stored at once, and only then used.
ReloadsInOrder(s) ==
    \A i \in DOMAIN s :
        /\ s[i].do = "check" => i = 1 /\ 4 \in DOMAIN s /\ s[4].do \in {"shake", "clone", "pick"}
        /\ s[i].do \in {"load", "tryLoad"} => i + 1 \in DOMAIN s /\ s[i + 1].do = "store"
        /\ s[i].do = "tryLoad" => i + 2 \in DOMAIN s /\ s[i + 2].do \in {"clone", "pick"}
        /\ s[i].do = "store" => i > 1 /\ s[i - 1].do \in {"load", "tryLoad"}
        /\ s[i].do \in {"shake", "clone", "pick"} =>
              i > 1 /\ s[i - 1].do = "store" /\ s[1].do = "check"

Orderly(name, s) ==
    /\ Len(s) \in Nat /\ DOMAIN s = 1..Len(s)
    /\ ChecksFirst(s) /\ SkipsSafely(s) /\ TempsGuarded(name, s) /\ UploadsEnd(s)
    /\ TellsLast(s) /\ ReloadsInOrder(s)

ControlOK ==
    /\ h \in Seq(DOMAIN Scripts)
    /\ at \in [Rpcs -> Nat \ {0}]
    /\ res \in [Rpcs -> {"run", "ok", "failed", "refused", "panic"}]
    /\ temp \in [Rpcs -> BOOLEAN] /\ guard \in [Rpcs -> {"none", "always", "error"}]
    /\ blob \in [Rpcs -> {"none", "open", "partial", "whole"}]
    /\ changed \in [Rpcs -> Nat] /\ DOMAIN told = Rpcs
    /\ ran \in [Rpcs -> Seq([rule : {"strict", "quiet", "hint", "code"}, acts : BOOLEAN,
                             out : Outcomes, noise : BOOLEAN])]

\* Where a handler returns.
ReturnInv ==
    \A r \in Rpcs :
        /\ res[r] = "ok" => at[r] > Len(Script(r))
        /\ res[r] = "refused" => at[r] \in DOMAIN Script(r) /\ Refusing(Cur(r))
        /\ Done(r) /\ at[r] \in DOMAIN Script(r) => Cur(r).do # "defer"

CleanInv ==
    \A r \in Rpcs :
        /\ temp[r] => Before(r, "temp") /\ ~Before(r, "commit")
        /\ guard[r] = "none" => ~Before(r, "defer")
        /\ guard[r] # "none" =>
              \E i \in DOMAIN Script(r) : Script(r)[i].do = "defer" /\ Script(r)[i].when = guard[r]
        /\ Done(r) /\ temp[r] => guard[r] # "always" /\ (guard[r] = "error" => res[r] = "ok")

UploadInv ==
    \A r \in Rpcs : blob[r] \in {"open", "partial"} => Before(r, "bucket") /\ ~Before(r, "upload")

\* Whoever has changed the host is at or past a step that does.
ActsInv ==
    \A r \in Rpcs :
        changed[r] # 0 \/ (\E i \in DOMAIN ran[r] : ran[r][i].acts) =>
            \E i \in DOMAIN Script(r) : i <= at[r] /\ Acting(Script(r)[i])

StatusInv ==
    \A r \in Rpcs : res[r] \in {"run", "ok"} =>
        /\ CommandsPassed(r)
        /\ (\E i \in DOMAIN ran[r] : ran[r][i].rule = "code") =>
              \E i \in DOMAIN Script(r) : i < at[r] /\ Telling(Script(r)[i])

ReadInv ==
    /\ DOMAIN lister = Rpcs /\ fileChan \in [Rpcs -> Nat] /\ DOMAIN names = Rpcs
    /\ DOMAIN reader = Rpcs
    /\ \A r \in Rpcs :
          /\ DOMAIN reader[r] = parallelism
          /\ lister[r] = "ok" => names[r] = 0
          /\ \A i \in parallelism : reader[r][i] = "ok" =>
                fileChan[r] = 0 /\ lister[r] \in {"ok", "failed"}
          /\ h[r] = "Read" /\ at[r] > 2 =>
                lister[r] = "ok" /\ \A i \in parallelism : reader[r][i] = "ok"

\* What is listed is what the parser made of the output, all of which it could parse.
Listers == {"RepoList", "GetStacks", "GetJavaStacks", "ListInstalled"}
KindOf(name) == CASE name = "ListInstalled" -> "fields"
                  [] name = "RepoList" -> "records"
                  [] OTHER -> "stacks"
ListInv ==
    /\ DOMAIN output = Rpcs /\ DOMAIN recs = Rpcs
    /\ \A r \in Rpcs : h[r] \in Listers /\ at[r] > 3 =>
          /\ output[r] \in Lines(KindOf(h[r]))
          /\ recs[r] = Parsed(KindOf(h[r]), output[r]) /\ recs[r].ok

\* On output that it accepts, with a head or the header, a parser gives the records there
\* are; for stacks those of the lines the scanner gave.
ParsersRightUpTo(max) ==
    /\ \A ls \in Outputs("records", max) : Heads(ls) # {} /\ parseYumRepoListOutput(ls).ok =>
          parseYumRepoListOutput(ls) = RecordsOf(ls)
    /\ \A ls \in Outputs("stacks", max) : Heads(Scanned(ls)) # {} =>
          SplitStacks(ls) = RecordsOf(Scanned(ls))
    /\ \A ls \in Outputs("fields", max) : Headers(ls) # {} /\ parseYumListInstallOutput(ls).ok =>
          parseYumListInstallOutput(ls) = PackagesOf(ls)
ParsersRight == ParsersRightUpTo(MaxLines)

CertsOK ==
    /\ gen \in 0..MaxGen /\ seen \in 0..gen /\ creds \in 0..seen /\ overlapped \in BOOLEAN
    /\ loaded \in [Rpcs -> 0..seen \cup {None}] /\ used \in [Rpcs -> 0..seen \cup {None}]
    /\ began \in [Rpcs -> 0..gen \cup {None}]

\* A reload that is alone: what it loaded is the newest there is, and once it is stored the
\* certificates in use are.
ReloadInv ==
    /\ \A r \in Rpcs : loaded[r] # None <=> At(r, "store")
    /\ ~overlapped =>
          /\ \A r, o \in Rpcs : loaded[r] # None /\ loaded[o] # None => r = o
          /\ \A r \in Rpcs : loaded[r] # None => loaded[r] = seen
          /\ (\A r \in Rpcs : loaded[r] = None) => creds = seen

Fresh(r) ==
    /\ used[r] # None => at[r] > 1 /\ began[r] # None
    /\ at[r] > 1 /\ Script(r)[1].do = "check" => began[r] # None
    /\ ~overlapped /\ r \notin kept /\ began[r] # None =>
          /\ loaded[r] # None => loaded[r] >= began[r]
          /\ At(r, "shake") \/ At(r, "clone") \/ At(r, "pick") => creds >= began[r]
          /\ used[r] # None => used[r] >= began[r]
FreshInv == \A r \in Rpcs : Fresh(r)

IInv ==
    /\ ControlOK /\ ReturnInv /\ CleanInv /\ UploadInv /\ ActsInv /\ StatusInv /\ ReadInv
    /\ ListInv /\ CertsOK /\ ReloadInv /\ FreshInv

----------------------------------------------------------------------------
(***************************************************************************)
(* The inductive invariant behind KeysKept, on top of IInv.  Whoever has   *)
(* the lock of a file has in hand what the file holds, until it has saved  *)
(* that with its own edit; whoever is to replace the file without the lock *)
(* has in hand, or has missed, every edit that was saved; and an edit that *)
(* was saved is in the file at the path, in the hands of the one rewriting *)
(* it, or lost in one of the ways KeysKept names.                          *)
(***************************************************************************)

Inodes == 0..Len(h)

FilesOK ==
    /\ path \in Inodes \cup {NoFile}
    /\ file \in [Inodes -> [edits : SUBSET Rpcs, torn : BOOLEAN, tail : BOOLEAN]]
    /\ fd \in [Rpcs -> Inodes \cup {NoFile}] /\ buf \in [Rpcs -> SUBSET Rpcs]
    /\ missed \in [Rpcs -> SUBSET Rpcs] /\ lock \in [Inodes -> Rpcs \cup {Nobody}]

\* What a handler has of the file, and whether it has saved it, by its position.  The inode
\* it makes is nobody's before.
HandInv ==
    \A r \in Rpcs :
        /\ changed[r] = 0 => path # r /\ \A o \in Rpcs : fd[o] # r
        /\ fd[r] # NoFile <=> Before(r, "open") \/ Before(r, "loadConf")
        /\ fd[r] # NoFile => path # NoFile
        /\ buf[r] # {} => Before(r, "readIn") \/ Before(r, "loadConf")
        /\ h[r] \in Edits => (changed[r] > 0 <=> Before(r, "write") \/ Before(r, "replace"))
        /\ h[r] \in Replacers /\ changed[r] > 0 => Before(r, "commit")

\* A handler that has yet to save the file.
Editing(r) == ~Done(r) /\ changed[r] = 0
Saved(r) == h[r] \in Edits /\ changed[r] > 0

LockInv ==
    \A r \in Rpcs : ~Done(r) =>
        /\ Before(r, "lock") => lock[fd[r]] = r
        /\ Before(r, "readIn") /\ changed[r] = 0 =>
              file[fd[r]].edits = IF Before(r, "truncate") THEN {} ELSE buf[r]

Lost(r) ==
    \E o \in Rpcs \ {r} : \/ SavedWithout(o, r) \/ ReplacedUnder(o, r)
                          \/ Emptied(o, r) /\ Done(o)
                          \/ \E c \in Rpcs : Crossed(c, o, r)

\* The file a DataSet works on is the one at the path, or was replaced under it.
FollowInv ==
    \A r \in Rpcs : h[r] \in DataSets /\ fd[r] # NoFile /\ Editing(r) =>
        fd[r] = path \/ \E o \in Rpcs \ {r} : ReplacedUnder(o, r)

\* o has or had the edit of r in hand, the file being empty, while c worked.
Holds(o, c, r) ==
    r \in buf[o] /\ Before(o, "truncate") /\ (o \in missed[c] \/ Editing(o))

\* What c is going to replace: no edit is gone without a trace.
TraceInv ==
    \A c, r \in Rpcs : c # r /\ Editing(c) /\ Saved(r) =>
        /\ h[c] \in Replacers => r \in missed[c]
        /\ h[c] \in ConfEdits /\ fd[c] # NoFile =>
              \/ r \in buf[c] \/ r \in missed[c] \/ Lost(r)
              \/ \E o \in Rpcs \ {r} : Holds(o, c, r)

EditInv ==
    \A r \in Rpcs : Saved(r) =>
        r \in file[path].edits \/ Lost(r) \/ \E o \in Rpcs \ {r} : Emptied(o, r)

FileInv == FilesOK /\ HandInv /\ LockInv /\ FollowInv /\ TraceInv /\ EditInv
=============================================================================
