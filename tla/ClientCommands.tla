---------------------------- MODULE ClientCommands ----------------------------
(***************************************************************************)
(* The sanssh process: Run of cmd/sanssh/client splits the targets into    *)
(* batches and executes the subcommand once for each, and the Execute of   *)
(* every subcommand makes a OneMany call and turns its answers into        *)
(* output, error lines and an exit status.                                 *)
(*                                                                         *)
(* The commands differ in what they call and in what they do about a       *)
(* failure; a command is a record of that, read off its Execute.  Replies  *)
(* are numbered, output is the sequence of replies written, and a target   *)
(* "was told" when a line about the failure went to its own error file.    *)
(*                                                                         *)
(* stat, sum and raw calls of streaming methods have a second process, the *)
(* goroutine that sends.                                                   *)
(*                                                                         *)
(* The helpers that the services' client/utils.go offer to other programs  *)
(* make the same calls on a connection they are given: one batch, and the  *)
(* error they return, or nil, is the status; "stderr" is its text.         *)
(***************************************************************************)
EXTENDS OneMany

CONSTANTS
    Cmds,          \* the commands of this instance
    MaxTargets     \* bound: targets of a run

ASSUME CommandsAssumption == MaxTargets \in Nat \ {0}

VARIABLES
    cmd, ntgt, size, direct,  \* the command line: --targets, --batch-size, no --proxy
    parse,       \* how the arguments parse: "ok", or the status that refuses them
    full,        \* targets whose output cannot be written
    at,          \* first target of the batch
    pc, stage,   \* the goroutine of Execute; "lookup" or "main" call
    todo,        \* the answers in hand
    snd, sres,   \* the sending goroutine, and the status it reports
    file,        \* the argument an ls is at
    got,         \* mpa: targets whose lookup gave the action
    done,        \* targetsDone
    ret,         \* the status to be returned
    logAt,       \* fdbcli: the target whose log file is open under the log's name
    out,         \* per target, in the call: replies written to it
    told,        \* per target, in the call: the failures its error file tells
    stderr,      \* failures told on the process's stderr
    exit,        \* "running", or the status of the process
    code,        \* the status so far
    hurt, silent, unheard,  \* history: <<target, argument>> of the calls that failed at the
                            \* target, that failed without a line of its own, and that no
                            \* target of the call started
    mishap       \* history: targets whose reply or output was at fault

lineVars == <<cmd, ntgt, size, direct, parse, full>>
flowVars == <<at, pc, stage, todo, snd, sres, file, got, ret>>
textVars == <<done, logAt, out, told, stderr>>
runVars  == <<exit, code, hurt, silent, unheard, mishap>>
ccVars   == <<lineVars, flowVars, textVars, runVars, omVars>>

Ok == "success"
Failed == "failure"
Usage == "usage"

(***************************************************************************)
(* The commands.                                                           *)
(*   via     the OneMany method                                            *)
(*   refuse  statuses returned for its arguments before any call           *)
(*   many    the status that refuses more than one target ("success" none) *)
(*   proxy   the call goes to the proxy itself, not to the targets         *)
(*   call    who is told that the call failed                              *)
(*   marks   an error of a target makes the status a failure               *)
(*   tells   where an error of a target goes: "err", "out", "stderr"       *)
(*   lost    a stream's Recv error goes to the targets "undone", to        *)
(*           "stderr", or "again": to the first target, and Recv is called *)
(*           again                                                         *)
(*   sets    an error of a target sets targetsDone                         *)
(*   stops   returns at the first error of a target                        *)
(*   bad     a reply that reports a failure: "none" there is no such;      *)
(*           "marks" the status; is "told" to the target; "both"           *)
(*   write   a failing write of output: "ignore", "mark" (told, and        *)
(*           nothing more is written), "stop" (told, and return); a helper *)
(*           may "cut" what it gathers at a limit, or keep the "last" only *)
(*   prints  what is written: "replies", "all" answers, "none"             *)
(*   index   the output is that of the "target", or of the "position" of   *)
(*           the answer among those received together                      *)
(*   files   how many arguments are each a call of their own               *)
(*   lookup  the action is looked up first                                 *)
(*   asks    the user confirms                                             *)
(*   join    how the sender's status joins: "wins", "either", or "none"    *)
(*   logs    replies may be pieces of a log file                           *)
(*   helper  a helper, not a command                                       *)
(*   reads   "all" answers, "one", or "none": the channel is dropped       *)
(***************************************************************************)
Plain(via) ==
    [via |-> via, refuse |-> {}, many |-> Ok, proxy |-> FALSE, call |-> "all",
     marks |-> TRUE, tells |-> "err", lost |-> "undone", sets |-> TRUE, stops |-> FALSE,
     bad |-> "none", write |-> "ignore", prints |-> "replies", index |-> "target",
     files |-> 1, lookup |-> FALSE, asks |-> FALSE, join |-> "none", logs |-> FALSE,
     helper |-> FALSE, reads |-> "all"]
Checked(via, statuses) == [Plain(via) EXCEPT !.refuse = statuses]
Quiet(via, statuses)   == [Checked(via, statuses) EXCEPT !.prints = "none"]
Lenient(via, statuses) == [Checked(via, statuses) EXCEPT !.marks = FALSE]

playbookCmd   == [Checked(Playbook_Run, {Failed}) EXCEPT !.bad = "marks", !.prints = "all"]
lookupCmd     == Lenient(Lookup_Lookup, {Usage})
validateCmd   == Plain(HealthCheck_Ok)
runCmd        == [Checked(Exec_Run, {Usage}) EXCEPT !.bad = "marks"]
runStreamCmd  == [Checked(Exec_StreamingRun, {Usage}) EXCEPT
                      !.bad = "marks", !.lost = "stderr", !.sets = FALSE]
readFileRetries == [Checked(LocalFile_Read, {Usage}) EXCEPT !.write = "mark", !.lost = "again"]
readFile      == [Checked(LocalFile_Read, {Usage}) EXCEPT !.write = "mark"]
readlinkCmd   == Checked(LocalFile_Readlink, {Usage})
symlinkCmd    == Quiet(LocalFile_Symlink, {Usage})
statCmd       == [Checked(LocalFile_Stat, {Usage}) EXCEPT !.join = "wins"]
sumCmd        == [Checked(LocalFile_Sum, {Usage}) EXCEPT !.join = "wins"]
chownCmd      == Quiet(LocalFile_SetFileAttributes, {Usage, Failed})
chgrpCmd      == Quiet(LocalFile_SetFileAttributes, {Usage, Failed})
chmodCmd      == Quiet(LocalFile_SetFileAttributes, {Usage, Failed})
immutableCmd  == Quiet(LocalFile_SetFileAttributes, {Usage})
lsCmd         == [Checked(LocalFile_List, {Usage}) EXCEPT !.files = 2]
cpBucketCmd   == Quiet(LocalFile_Copy, {Usage, Failed})
cpCmd         == Quiet(LocalFile_Write, {Usage, Failed})
rmCmd         == Quiet(LocalFile_Rm, {Usage})
rmdirCmd      == Quiet(LocalFile_Rmdir, {Usage})
mvCmd         == Quiet(LocalFile_Rename, {Usage})
mkdirCmd      == Quiet(LocalFile_Mkdir, {Usage, Failed})
shredCmd      == Quiet(LocalFile_Shred, {Usage})
dataGetCmd    == [Lenient(LocalFile_DataGet, {Usage}) EXCEPT !.call = "stderr"]
dataSetCmd    == [Lenient(LocalFile_DataSet, {Usage}) EXCEPT !.call = "stderr", !.tells = "out"]
tcpCheckCmd   == [Lenient(Network_TCPCheck, {Usage}) EXCEPT !.call = "stderr", !.tells = "out"]
approveCmd    == [Lenient(Mpa_Approve, {Usage}) EXCEPT !.lookup = TRUE, !.asks = TRUE]
clearCmd      == [Lenient(Mpa_Clear, {Usage}) EXCEPT !.lookup = TRUE]
listCmd       == Lenient(Mpa_List, {Usage})
getCmd        == [Lenient(Mpa_Get, {Usage}) EXCEPT !.bad = "told"]
installCmd    == Checked(Packages_Install, {Usage, Failed})
removeCmd     == Checked(Packages_Remove, {Usage, Failed})
updateCmd     == Checked(Packages_Update, {Usage, Failed})
listPkgCmd    == Checked(Packages_ListInstalled, {Usage, Failed})
searchCmd     == Checked(Packages_Search, {Usage, Failed})
repoListCmd   == Checked(Packages_RepoList, {Usage, Failed})
cleanupCmd    == Checked(Packages_Cleanup, {Usage, Failed})
rebootCmd     == [Checked(Power_Reboot, {Failed}) EXCEPT !.prints = "all"]
psCmd         == Lenient(Process_List, {})
killCmd       == [Lenient(Process_Kill, {}) EXCEPT !.prints = "none"]
pstackCmd     == Checked(Process_GetStacks, {Failed})
jstackCmd     == Checked(Process_GetJavaStacks, {Failed})
dumpCmd       == [Checked(Process_GetMemoryDump, {Failed}) EXCEPT !.sets = FALSE, !.write = "stop"]
setVerbosityCmd == Checked(Logging_SetVerbosity, {Failed})
getVerbosityCmd == Plain(Logging_GetVerbosity)
versionCmd      == Plain(State_Version)
setProxyVerbosityCmd == [Checked(Logging_SetVerbosity, {Failed}) EXCEPT !.proxy = TRUE, !.many = Failed]
getProxyVerbosityCmd == [Plain(Logging_GetVerbosity) EXCEPT !.proxy = TRUE]
proxyVersionCmd      == [Plain(State_Version) EXCEPT !.proxy = TRUE, !.many = Failed]
actionCmd     == [Checked(Service_Action, {Usage}) EXCEPT !.write = "mark"]
statusCmd     == [Checked(Service_Status, {Usage}) EXCEPT !.write = "mark"]
listSvcCmd    == [Checked(Service_List, {Usage}) EXCEPT !.write = "mark"]
uptimeCmd     == Plain(SysInfo_Uptime)
dmesgCmd      == [Checked(SysInfo_Dmesg, {Usage}) EXCEPT !.index = "position"]
journalCmd    == [Checked(SysInfo_Journal, {Usage}) EXCEPT !.bad = "both"]
getCertsCmd   == [Checked(TLSInfo_GetTLSCertificate, {Usage}) EXCEPT !.call = "first", !.bad = "told"]
handleHost    == Checked(HTTPOverRPC_Host, {Usage})
handleStream  == [Checked(HTTPOverRPC_StreamHost, {Usage}) EXCEPT
                      !.many = Usage, !.call = "silent", !.lost = "again", !.stops = TRUE]
rawUnary      == [Lenient(Unary, {Usage, Failed}) EXCEPT !.call = "stderr"]
rawServer     == [Lenient(ServerStream, {Usage, Failed}) EXCEPT !.call = "stderr", !.lost = "stderr"]
rawBidi       == [Lenient(Bidi, {Usage, Failed}) EXCEPT
                      !.call = "stderr", !.lost = "stderr", !.join = "either"]
fdbCLICmd     == [Checked(CLI_FDBCLI, {Usage, Failed}) EXCEPT !.bad = "marks", !.logs = TRUE]
confReadCmd   == [Checked(Conf_Read, {Failed}) EXCEPT !.prints = "all"]
confWriteCmd  == Quiet(Conf_Write, {Failed})
confDeleteCmd == Quiet(Conf_Delete, {Failed})
fdbVersionCmd == Plain(Server_FDBServer)

\* A helper tells what failed in the error it returns.
Helper(via, statuses) ==
    [Checked(via, statuses) EXCEPT
         !.helper = TRUE, !.call = "stderr", !.tells = "stderr", !.lost = "stderr"]
Doer(via, statuses)  == [Helper(via, statuses) EXCEPT !.prints = "none"]
ToOne(helper)        == [helper EXCEPT !.many = Failed]

ReadRemoteFileMany == [Helper(LocalFile_Read, {}) EXCEPT !.stops = TRUE]
ReadRemoteFile     == ToOne(ReadRemoteFileMany)
WriteRemoteFile    == [Doer(LocalFile_Write, {}) EXCEPT !.stops = TRUE]
RemoveRemoteFile   == Doer(LocalFile_Rm, {})
CopyRemoteFile     == Doer(LocalFile_Copy, {})
MakeRemoteDir      == Doer(LocalFile_Mkdir, {Failed})
ChangeRemoteFileOwnership  == Doer(LocalFile_SetFileAttributes, {Failed})
ChangeRemoteFileGroup      == Doer(LocalFile_SetFileAttributes, {Failed})
ChangeRemoteFilePermission == Doer(LocalFile_SetFileAttributes, {})
SymlinkRemote      == Doer(LocalFile_Symlink, {})
ListRemote         == [Helper(LocalFile_List, {}) EXCEPT !.stops = TRUE, !.write = "cut"]
ExecRemoteCommandManyWithOpts ==
    [Helper(Exec_Run, {}) EXCEPT !.marks = FALSE, !.tells = "out", !.write = "last"]
ExecRemoteCommandWithOpts == ToOne(Helper(Exec_Run, {}))
ListRemoteServices   == ToOne(Helper(Service_List, {}))
StatusRemoteService  == ToOne(Helper(Service_Status, {}))
StartRemoteService   == ToOne(Doer(Service_Action, {}))
StopRemoteService    == ToOne(Doer(Service_Action, {}))
RestartRemoteService == ToOne(Doer(Service_Action, {}))
EnableRemoteService  == ToOne(Doer(Service_Action, {}))
DisableRemoteService == ToOne(Doer(Service_Action, {}))
ReloadRemoteService  == [Doer(Service_Action, {}) EXCEPT !.reads = "none"]
RoundTrip            == [Helper(HTTPOverRPC_Host, {Failed}) EXCEPT !.reads = "one"]

Commands ==
    [playbookCmd |-> playbookCmd,
     lookupCmd |-> lookupCmd,
     validateCmd |-> validateCmd,
     runCmd |-> runCmd,
     runStreamCmd |-> runStreamCmd,
     readFile |-> readFile,
     readlinkCmd |-> readlinkCmd,
     symlinkCmd |-> symlinkCmd,
     statCmd |-> statCmd,
     sumCmd |-> sumCmd,
     chownCmd |-> chownCmd,
     chgrpCmd |-> chgrpCmd,
     chmodCmd |-> chmodCmd,
     immutableCmd |-> immutableCmd,
     lsCmd |-> lsCmd,
     cpBucketCmd |-> cpBucketCmd,
     cpCmd |-> cpCmd,
     rmCmd |-> rmCmd,
     rmdirCmd |-> rmdirCmd,
     mvCmd |-> mvCmd,
     mkdirCmd |-> mkdirCmd,
     shredCmd |-> shredCmd,
     dataGetCmd |-> dataGetCmd,
     dataSetCmd |-> dataSetCmd,
     tcpCheckCmd |-> tcpCheckCmd,
     approveCmd |-> approveCmd,
     clearCmd |-> clearCmd,
     listCmd |-> listCmd,
     getCmd |-> getCmd,
     installCmd |-> installCmd,
     removeCmd |-> removeCmd,
     updateCmd |-> updateCmd,
     listPkgCmd |-> listPkgCmd,
     searchCmd |-> searchCmd,
     repoListCmd |-> repoListCmd,
     cleanupCmd |-> cleanupCmd,
     rebootCmd |-> rebootCmd,
     psCmd |-> psCmd,
     killCmd |-> killCmd,
     pstackCmd |-> pstackCmd,
     jstackCmd |-> jstackCmd,
     dumpCmd |-> dumpCmd,
     setVerbosityCmd |-> setVerbosityCmd,
     getVerbosityCmd |-> getVerbosityCmd,
     versionCmd |-> versionCmd,
     setProxyVerbosityCmd |-> setProxyVerbosityCmd,
     getProxyVerbosityCmd |-> getProxyVerbosityCmd,
     proxyVersionCmd |-> proxyVersionCmd,
     actionCmd |-> actionCmd,
     statusCmd |-> statusCmd,
     listSvcCmd |-> listSvcCmd,
     uptimeCmd |-> uptimeCmd,
     dmesgCmd |-> dmesgCmd,
     journalCmd |-> journalCmd,
     getCertsCmd |-> getCertsCmd,
     handleHost |-> handleHost,
     handleStream |-> handleStream,
     rawUnary |-> rawUnary,
     rawServer |-> rawServer,
     rawBidi |-> rawBidi,
     fdbCLICmd |-> fdbCLICmd,
     confReadCmd |-> confReadCmd,
     confWriteCmd |-> confWriteCmd,
     confDeleteCmd |-> confDeleteCmd,
     fdbVersionCmd |-> fdbVersionCmd,
     ReadRemoteFileMany |-> ReadRemoteFileMany,
     ReadRemoteFile |-> ReadRemoteFile,
     WriteRemoteFile |-> WriteRemoteFile,
     RemoveRemoteFile |-> RemoveRemoteFile,
     CopyRemoteFile |-> CopyRemoteFile,
     MakeRemoteDir |-> MakeRemoteDir,
     ChangeRemoteFileOwnership |-> ChangeRemoteFileOwnership,
     ChangeRemoteFileGroup |-> ChangeRemoteFileGroup,
     ChangeRemoteFilePermission |-> ChangeRemoteFilePermission,
     SymlinkRemote |-> SymlinkRemote,
     ListRemote |-> ListRemote,
     ExecRemoteCommandManyWithOpts |-> ExecRemoteCommandManyWithOpts,
     ExecRemoteCommandWithOpts |-> ExecRemoteCommandWithOpts,
     ListRemoteServices |-> ListRemoteServices,
     StatusRemoteService |-> StatusRemoteService,
     StartRemoteService |-> StartRemoteService,
     StopRemoteService |-> StopRemoteService,
     RestartRemoteService |-> RestartRemoteService,
     EnableRemoteService |-> EnableRemoteService,
     DisableRemoteService |-> DisableRemoteService,
     ReloadRemoteService |-> ReloadRemoteService,
     RoundTrip |-> RoundTrip]

ASSUME CmdsAssumption == Cmds \subseteq DOMAIN Commands

C        == Commands[cmd]
Kind     == IF stage = "lookup" THEN Mpa_Get ELSE C.via
Lowest(a, b) == IF a < b THEN a ELSE b
Batch    == at..Lowest(at + size - 1, ntgt)
Asked    == IF C.proxy THEN {at} ELSE Batch      \* those the call is made to

CmdsInit ==
    /\ cmd \in Cmds /\ ntgt \in 1..MaxTargets
    /\ size \in (IF C.helper THEN {ntgt} ELSE 1..ntgt)
    /\ direct \in {FALSE, ntgt = 1}
    /\ parse \in {Ok} \cup C.refuse
    /\ full \in (IF C.write \in {"mark", "stop"} THEN SUBSET (1..ntgt) ELSE {{}})
    /\ at = 1 /\ pc = (IF C.helper THEN "parse" ELSE "dial") /\ stage = "main" /\ todo = <<>> /\ snd = "off" /\ sres = Ok
    /\ file = 1 /\ got = {} /\ done = {} /\ ret = Ok /\ logAt = 0
    /\ out = [t \in 1..ntgt |-> <<>>] /\ told = [t \in 1..ntgt |-> {}]
    /\ stderr = {} /\ exit = "running" /\ code = Ok
    /\ hurt = {} /\ silent = {} /\ unheard = {} /\ mishap = {}
    /\ link = [t \in 1..ntgt |-> "idle"] /\ nrep = [t \in 1..ntgt |-> 0]
    /\ owed = {} /\ gone = FALSE

\* Lines for the error files of targets T.
Tell(T, what) == [t \in DOMAIN told |-> IF t \in T THEN told[t] \cup {what} ELSE told[t]]

\* The slices of Out and Err a batch is given, and the index of an answer in it.
Index(t) == t - at + 1
SlotUnsliced(i) == i
Slot(i)  == at + i - 1

\* proxy.DialContext; a batch that cannot be connected ends the process.
Dial ==
    /\ pc = "dial"
    /\ \/ pc' = "parse" /\ UNCHANGED <<exit, stderr>>
       \/ pc' = "exited" /\ exit' = Failed /\ stderr' = stderr \cup {"dial"}
    /\ UNCHANGED <<lineVars, at, stage, todo, snd, sres, file, got, ret, done, logAt, out,
                    told, code, hurt, silent, unheard, mishap, omVars>>

\* The checks of the arguments, and Execute's variables.
Parse ==
    /\ pc = "parse"
    /\ LET refused == IF parse # Ok THEN parse
                      ELSE IF Cardinality(Batch) > 1 THEN C.many ELSE Ok
       IN  /\ ret' = refused
           /\ pc' = IF refused = Ok THEN "call" ELSE "return"
           /\ stderr' = IF refused = Ok THEN stderr ELSE stderr \cup {"usage"}
    /\ stage' = IF C.lookup THEN "lookup" ELSE "main"
    /\ done' = {} /\ got' = {} /\ file' = 1 /\ logAt' = 0
    /\ UNCHANGED <<lineVars, at, todo, snd, sres, out, told, runVars, omVars>>

\* The OneMany call fails: told, and Execute returns (ls goes on to the next argument).
CallTold ==
    IF C.call = "all" \/ stage = "lookup" THEN Tell(Batch, "call")
    ELSE IF C.call = "first" THEN Tell({at}, "call")
    ELSE told
CallRefused ==
    /\ pc = "call" /\ CallFails(Kind, Asked)
    /\ told' = CallTold
    /\ stderr' = IF C.call = "stderr" THEN stderr \cup {"call"} ELSE stderr
    /\ ret' = Failed /\ pc' = "end"
    /\ UNCHANGED <<lineVars, at, stage, todo, snd, sres, file, got, done, logAt, out,
                   runVars>>

CallStarts ==
    /\ pc = "call" /\ CallMade(Kind, Asked, direct)
    /\ pc' = IF C.reads = "none" THEN "end"
             ELSE IF Kind = ClientStream THEN "upload"
             ELSE "recv"
    /\ snd' = IF Kind = Bidi THEN "send" ELSE "off"
    /\ sres' = Ok
    /\ out' = [t \in DOMAIN out |-> IF t \in Batch THEN <<>> ELSE out[t]]
    /\ UNCHANGED <<lineVars, at, stage, todo, file, got, ret, done, logAt, told, stderr,
                   runVars>>

\* An upload broke: for every target, or in the error returned.
UploadFails(what) ==
    /\ told' = IF C.helper THEN told ELSE Tell(Batch, what)
    /\ stderr' = IF C.helper THEN stderr \cup {what} ELSE stderr
    /\ ret' = Failed /\ pc' = "end"

\* cp sends the description and then the file; a Send may fail at either.
Upload ==
    /\ pc = "upload"
    /\ \/ pc' = "collect" /\ UNCHANGED <<ret, told, stderr>>
       \/ SendFails(direct) /\ UploadFails("send")
    /\ UNCHANGED <<lineVars, at, stage, todo, snd, sres, file, got, done, logAt, out,
                   runVars, omVars>>

\* CloseAndRecv: answers are collected until every target has given one.
Answered == {todo[i].t : i \in DOMAIN todo}
Collect ==
    /\ pc = "collect"
    /\ \/ /\ Answered # Asked
          /\ \E t \in Asked, k \in {"reply", "eof", "error"} :
                /\ k = "eof" => nrep[t] = 1
                /\ k = "reply" => nrep[t] = 0
                /\ RecvAnswers(Asked, t, k)
                /\ todo' = todo \o Received(t, k)
          /\ UNCHANGED <<pc, ret, told, stderr>>
       \/ /\ Answered = Asked \/ RecvEOF(Asked)
          /\ pc' = "range"
          /\ todo' = IF Answered = Asked THEN todo ELSE <<>>
          /\ UNCHANGED <<ret, told, stderr, omVars>>
       \/ /\ Answered # Asked /\ RecvFails(Asked)
          /\ UploadFails("lost") /\ todo' = <<>>
          /\ UNCHANGED omVars
    /\ UNCHANGED <<lineVars, at, stage, snd, sres, file, got, done, logAt, out, runVars>>

\* The library hands the goroutine of Execute its next answers.
Recv ==
    /\ pc = "recv"
    /\ IF Kind = Unary
       THEN \E t \in Asked, k \in {"reply", "error"} :
                UnaryAnswer(Asked, Answer(t, k)) /\ todo' = <<Answer(t, k)>>
       ELSE \E t \in Asked, k \in {"reply", "eof", "error"} :
                /\ k = "eof" /\ Kind = Bidi => snd = "closed" /\ sres = Ok
                /\ RecvAnswers(Asked, t, k) /\ todo' = Received(t, k)
    /\ pc' = "range"
    /\ UNCHANGED <<lineVars, at, stage, snd, sres, file, got, ret, textVars, runVars>>

\* The channel is closed, or Recv returned io.EOF.
RecvEnds ==
    /\ pc = "recv"
    /\ IF Kind = Unary THEN ChannelClosed(Asked) ELSE RecvEOF(Asked)
    /\ pc' = IF C.join # "none" /\ Kind = Bidi THEN "join" ELSE "end"
    /\ UNCHANGED <<lineVars, at, stage, todo, snd, sres, file, got, ret, textVars, runVars,
                   omVars>>

\* Recv returned an error of the stream.
LostTellsDone == Tell(IF C.lost = "undone" THEN done ELSE {at}, "lost")
LostTold ==
    CASE C.lost = "undone" -> Tell(Batch \ done, "lost")
      [] C.lost = "again" -> Tell({at}, "lost")
      [] OTHER -> told
RecvLost ==
    /\ pc = "recv" /\ Kind # Unary /\ RecvFails(Asked)
    /\ ret' = Failed
    /\ told' = LostTold
    /\ stderr' = IF C.lost = "stderr" THEN stderr \cup {"lost"} ELSE stderr
    /\ pc' = IF C.lost = "again" THEN "recv"
             ELSE IF C.join # "none" THEN "join"
             ELSE "end"
    /\ UNCHANGED <<lineVars, at, stage, todo, snd, sres, file, got, done, logAt, out,
                   runVars, omVars>>

Library ==
    /\ pc \in {"recv", "collect", "upload", "range"}
    /\ RPCLost(Kind, Asked, direct) \/ (Kind = Unary /\ UnaryClosed(Asked))
    /\ UNCHANGED <<lineVars, flowVars, textVars, runVars>>

----------------------------------------------------------------------------
(* for _, r := range resp: the answers in hand, one at a time *)

Advance ==
    pc' = CASE C.reads = "one" -> "end"
            [] C.reads # "one" /\ Len(todo) = 1 /\ Kind # ClientStream -> "recv"
            [] OTHER -> "range"
Written(t, r) == IF C.write = "last" THEN <<r>> ELSE Append(out[t], r)

HandleError ==
    /\ pc = "range" /\ todo # <<>> /\ Head(todo).k = "error"
    /\ LET t == Slot(Index(Head(todo).t)) IN
       /\ told' = IF C.tells = "err" \/ stage = "lookup" THEN Tell({t}, "target") ELSE told
       /\ out' = IF stage = "main" /\ (C.prints = "all" \/ C.tells = "out")
                 THEN [out EXCEPT ![t] = Written(t, [t |-> t, n |-> 0])] ELSE out
       /\ stderr' = IF C.tells = "stderr" THEN stderr \cup {"target"} ELSE stderr
       /\ done' = IF C.sets THEN done \cup {t} ELSE done
       /\ ret' = IF C.marks /\ stage = "main" THEN Failed ELSE ret
       /\ IF C.stops THEN pc' = "end" /\ todo' = <<>>
          ELSE Advance /\ todo' = Tail(todo)
    /\ UNCHANGED <<lineVars, at, stage, snd, sres, file, got, logAt, runVars, omVars>>

HandleEOF ==
    /\ pc = "range" /\ todo # <<>> /\ Head(todo).k = "eof"
    /\ done' = done \cup {Slot(Index(Head(todo).t))}
    /\ Advance /\ todo' = Tail(todo)
    /\ UNCHANGED <<lineVars, at, stage, snd, sres, file, got, ret, logAt, out, told,
                   stderr, runVars, omVars>>

\* A reply is written to the target's output; with that ListRemote may have as
\* many entries of the target as it wants.
HandleReply ==
    /\ pc = "range" /\ todo # <<>> /\ Head(todo).k = "reply" /\ stage = "main"
    /\ LET a == Head(todo)
           t == Slot(Index(a.t))
           o == IF C.index = "position" THEN Slot(a.i) ELSE t
       IN \E bad \in IF C.bad = "none" THEN {FALSE} ELSE BOOLEAN :
          /\ C.write \in {"mark", "stop", "cut"} => t \notin full \cup done
          /\ out' = IF C.prints = "none" \/ (bad /\ C.bad \in {"told", "both"}) THEN out
                    ELSE [out EXCEPT ![o] = Written(o, [t |-> t, n |-> a.n])]
          /\ told' = IF bad /\ C.bad \in {"told", "both"} THEN Tell({t}, "reply") ELSE told
          /\ ret' = IF bad /\ C.bad \in {"marks", "both"} THEN Failed ELSE ret
          /\ mishap' = IF bad THEN mishap \cup {t} ELSE mishap
          /\ done' \in {done} \cup (IF C.write = "cut" THEN {done \cup {t}} ELSE {})
    /\ Advance /\ todo' = Tail(todo)
    /\ UNCHANGED <<lineVars, at, stage, snd, sres, file, got, logAt, stderr, exit, code,
                   hurt, silent, unheard, omVars>>

\* The output cannot be written, or could not be before.
WriteFails ==
    /\ pc = "range" /\ todo # <<>> /\ Head(todo).k = "reply"
    /\ C.write \in {"mark", "stop", "cut"}
    /\ LET t == Slot(Index(Head(todo).t)) IN
       \/ /\ t \in done /\ Advance /\ todo' = Tail(todo)
          /\ UNCHANGED <<told, ret, done, mishap>>
       \/ /\ t \in full \ done
          /\ told' = Tell({t}, "write") /\ ret' = Failed /\ mishap' = mishap \cup {t}
          /\ IF C.write = "stop"
             THEN pc' = "end" /\ todo' = <<>> /\ UNCHANGED done
             ELSE Advance /\ todo' = Tail(todo) /\ done' = done \cup {t}
    /\ UNCHANGED <<lineVars, at, stage, snd, sres, file, got, logAt, out, stderr, exit,
                   code, hurt, silent, unheard, omVars>>

\* processLog: the first piece of a log opens a file named after the target it
\* came from, and openFiles remembers it under the log's own name.
HandleLog ==
    /\ pc = "range" /\ todo # <<>> /\ Head(todo).k = "reply" /\ C.logs
    /\ LET a == Head(todo)
           t == Slot(Index(a.t))
           w == IF logAt = 0 THEN t ELSE logAt
       IN  \/ /\ ret' = Ok /\ logAt' = w
              /\ UNCHANGED <<told, mishap>>
           \/ /\ logAt = 0
              /\ ret' = Failed /\ told' = Tell({t}, "write") /\ mishap' = mishap \cup {t}
              /\ UNCHANGED logAt
    /\ Advance /\ todo' = Tail(todo)
    /\ UNCHANGED <<lineVars, at, stage, snd, sres, file, got, done, out, stderr, exit, code,
                   hurt, silent, unheard, omVars>>

\* getAction: a looked up action, or none in the reply.
HandleAction ==
    /\ pc = "range" /\ todo # <<>> /\ Head(todo).k = "reply" /\ stage = "lookup"
    /\ LET t == Slot(Index(Head(todo).t)) IN
       \/ got' = got \cup {t} /\ UNCHANGED told
       \/ told' = Tell({t}, "reply") /\ UNCHANGED got
    /\ Advance /\ todo' = Tail(todo)
    /\ UNCHANGED <<lineVars, at, stage, snd, sres, file, ret, done, logAt, out, stderr,
                   runVars, omVars>>

\* cp has gone through the answers CloseAndRecv returned.
UploadEnds ==
    /\ pc = "range" /\ todo = <<>> /\ pc' = "end"
    /\ UNCHANGED <<lineVars, at, stage, todo, snd, sres, file, got, ret, textVars, runVars,
                   omVars>>

----------------------------------------------------------------------------
(* The sending goroutine of stat and sum, and of a raw call. *)

\* A raw call stops at its first failure, a message it cannot parse included,
\* and then does not close the stream.
SenderFails ==
    /\ snd = "send" /\ (SendFails(direct) \/ C.join = "either")
    /\ sres' = Failed
    /\ IF C.join = "either" THEN snd' = "done" /\ UNCHANGED told
       ELSE snd' = "close" /\ told' = Tell(Batch, "send")
    /\ UNCHANGED <<lineVars, at, pc, stage, todo, file, got, ret, done, logAt, out,
                   stderr, runVars, omVars>>

SenderCloses ==
    /\ \/ snd = "send" /\ snd' = "close" /\ UNCHANGED <<sres, told>>
       \/ snd = "close" /\ snd' = "closed" /\ UNCHANGED <<sres, told>>
       \/ /\ snd = "close" /\ gone /\ snd' = "done" /\ sres' = Failed
          /\ told' = IF C.join = "either" THEN told ELSE Tell(Batch, "send")
    /\ UNCHANGED <<lineVars, at, pc, stage, todo, file, got, ret, done, logAt, out,
                   stderr, runVars, omVars>>

\* for e := range waitc { retCode = e }; or g.Wait() for either goroutine's error.
Join ==
    /\ pc = "join" /\ snd \in {"closed", "done"}
    /\ ret' = IF C.join = "wins" THEN sres ELSE IF sres = Failed THEN Failed ELSE ret
    /\ stderr' = IF C.join = "either" /\ ret' = Failed THEN stderr \cup {"call"} ELSE stderr
    /\ pc' = "end"
    /\ UNCHANGED <<lineVars, at, stage, todo, snd, sres, file, got, done, logAt, out,
                   told, runVars, omVars>>

----------------------------------------------------------------------------

\* A target's part of the call failed: a refusal during the setup, an error, or the
\* loss of the RPC under it.
Fell(t) ==
    \/ link[t] = "failed"
    \/ link[t] = "open" /\ gone /\ ~(Kind = ClientStream /\ nrep[t] = 1)

\* Every target of the stream was refused during its setup.  Recv gives io.EOF at once,
\* and the library never hands the refusals over.
Unstarted == owed = Asked

\* The call is over; what became of it is noted.
EndCall ==
    /\ pc = "end"
    /\ hurt' = hurt \cup ({t \in Asked : Fell(t)} \X {file})
    /\ silent' = silent \cup ({t \in Asked : Fell(t) /\ told[t] = {}} \X {file})
    /\ unheard' = IF Unstarted THEN unheard \cup (Asked \X {file}) ELSE unheard
    /\ \/ /\ stage = "lookup" /\ ret = Ok /\ got # {}
          /\ stage' = "main" /\ pc' = IF C.asks THEN "confirm" ELSE "call"
          /\ UNCHANGED <<ret, file>>
       \/ /\ stage = "lookup"       \* nothing found, or not the same action
          /\ ret = Failed \/ got = {} \/ Cardinality(got) > 1
          /\ pc' = "return" /\ ret' = Failed
          /\ UNCHANGED <<stage, file>>
       \/ /\ stage = "main"
          /\ IF file < C.files THEN file' = file + 1 /\ pc' = "call"
             ELSE pc' = "return" /\ UNCHANGED file
          /\ UNCHANGED <<stage, ret>>
    /\ told' = [t \in DOMAIN told |-> {}]
    /\ UNCHANGED <<lineVars, at, todo, snd, sres, got, done, logAt, out, stderr, exit,
                   code, mishap, omVars>>

\* The user answers yes, or something else; an input that cannot be read is asked
\* for again.
Confirm ==
    /\ pc = "confirm"
    /\ \E yes \in BOOLEAN : pc' = IF yes THEN "call" ELSE "return"
    /\ UNCHANGED <<lineVars, at, stage, todo, snd, sres, file, got, ret, textVars, runVars,
                   omVars>>
ConfirmAgain == pc = "confirm" /\ UNCHANGED ccVars

\* The next batch, or os.Exit.
MoreBatches == at + size <= ntgt
CodeOfLast(c, r) == IF r = Ok THEN Ok ELSE Failed
CodeAfter(c, r)  == IF r = Ok THEN c ELSE Failed
Return ==
    /\ pc = "return"
    /\ code' = CodeAfter(code, ret)
    /\ IF MoreBatches
       THEN at' = at + size /\ pc' = "dial" /\ UNCHANGED exit
       ELSE pc' = "exited" /\ exit' = code' /\ UNCHANGED at
    /\ UNCHANGED <<lineVars, stage, todo, snd, sres, file, got, ret, textVars, hurt,
                   silent, unheard, mishap, omVars>>

Exited == pc = "exited" /\ UNCHANGED ccVars

CmdsStep ==
    \/ Dial \/ Parse \/ CallRefused \/ CallStarts \/ Upload \/ Collect
    \/ Recv \/ RecvEnds \/ RecvLost \/ Library
    \/ HandleError \/ HandleEOF \/ HandleReply \/ WriteFails \/ HandleLog
    \/ HandleAction \/ UploadEnds
    \/ SenderFails \/ SenderCloses \/ Join \/ EndCall \/ Return
CmdsNext == CmdsStep \/ Confirm \/ ConfirmAgain \/ Exited

\* Every goroutine gets to run, and the idle timeout of the interceptors makes a
\* call that hears nothing fail: RPCLost, or an error of the target.
CmdsSpec == CmdsInit /\ [][CmdsNext]_ccVars /\ WF_ccVars(CmdsStep)

----------------------------------------------------------------------------
(* Properties *)

\* Those that by their source always succeed once the call is made; the last
\* returns the errors of the targets as its result.
AlwaysOk == {"lookupCmd", "dataGetCmd", "dataSetCmd", "tcpCheckCmd", "approveCmd", "clearCmd",
             "listCmd", "getCmd", "psCmd", "killCmd", "rawUnary", "rawServer", "rawBidi",
             "ExecRemoteCommandManyWithOpts"}
\* Commands that may lose a failure they have seen: the sender's status replaces
\* it, a log's does, or the certificate that cannot be shown does not count.
Overwritten == {"statCmd", "sumCmd", "fdbCLICmd", "getCertsCmd"}

\* Those that tell of a target's failure elsewhere, or not: get-data and its kind
\* use the output, get-certs tells the first target only, a streamed get tells
\* nobody of a failed call, and ls keeps the targets done from one argument to
\* the next.
Elsewhere == {"dataSetCmd", "tcpCheckCmd", "getCertsCmd", "handleStream", "lsCmd",
              "ExecRemoteCommandManyWithOpts"}
\* RoundTrip reads one answer and ReloadRemoteService none.
AllRead == C.reads = "all" \/ ntgt = 1

\* "Final return code though should indicate something failed": when sanssh exits
\* with success no target of any batch has failed, no reply reported a failure
\* and no output was lost; and a helper that returns nil has the same to say.
\* The exception is the code's: of a stream that every target of the call refuses
\* during its setup the command sees io.EOF and nothing else (proxy.go:312), and exits
\* with success although all of them failed.
ExitTellsFailure ==
    exit = Ok /\ cmd \notin AlwaysOk \cup Overwritten /\ AllRead
        => hurt \subseteq unheard /\ mishap = {}

\* A target that failed has a line about that call in its own error file, or
\* stderr has one, also when its answer came in a batch with others, or the
\* stream broke while others had ended.  dump gives up on every target when the
\* output of one cannot be written.  A stream that every target of the call refuses
\* during its setup is excepted: then nobody is told.
FailureNamed ==
    exit # "running" /\ cmd \notin Elsewhere /\ ~(cmd = "dumpCmd" /\ mishap # {}) /\ AllRead
        => silent \subseteq unheard \/ stderr # {}

\* Replies 1 to n of the target are in its output.
Holds(t, n) == \A k \in 1..n : \E i \in DOMAIN out[t] : out[t][i].n = k
\* No reply is there twice, or before an earlier one.
Rising(t) ==
    \A i, j \in DOMAIN out[t] : i < j /\ out[t][i].n > 0 /\ out[t][j].n > 0 =>
        out[t][i].n < out[t][j].n

\* What a target's output holds are that target's own replies, in order and none
\* left out, whatever the other targets and batches do; of a call that went
\* through its answers it holds all.  dmesg writes by position, and the pieces
\* of a log are not output.
OutputOwn ==
    cmd # "dmesgCmd" =>
        \A t \in 1..ntgt :
            /\ \A i \in DOMAIN out[t] : out[t][i].t = t /\ out[t][i].n <= nrep[t]
            /\ Rising(t)
            /\ C.bad \notin {"told", "both"} /\ ~C.logs =>
                   /\ \A i \in DOMAIN out[t] : Holds(t, out[t][i].n)
                   /\ pc = "end" /\ stage = "main" /\ t \in Asked \ mishap /\ C.prints # "none"
                      /\ C.write # "cut" /\ link[t] = "ok"
                      => Holds(t, nrep[t])

\* The command ends, or waits for its user, whatever fails: but a streamed get
\* whose stream breaks calls Recv again for ever.
CommandEnds == cmd # "handleStream" => <>(pc = "exited" \/ pc = "confirm")

----------------------------------------------------------------------------
(***************************************************************************)
(* The inductive invariant behind the three.  A target that has failed is  *)
(* accounted for at every moment of the call: its error is still held by   *)
(* the library, is among the answers in hand, or has been dealt with.      *)
(* What the table of the commands must be like for that is WellMade.       *)
(***************************************************************************)

WellMade(name, c) ==
    /\ c.via \in {Unary, ServerStream, ClientStream, Bidi}
    /\ c.refuse \subseteq {Usage, Failed} /\ c.many \in {Ok, Usage, Failed}
    /\ c.via = ClientStream => c.prints = "none"
    /\ c.lookup \/ c.reads # "all" \/ c.write = "last" => c.via = Unary
    /\ c.lookup => c.reads = "all"
    /\ c.write \in {"mark", "stop", "cut"} => c.files = 1 /\ ~c.lookup
    /\ c.prints = "none" => c.tells # "out"
    /\ c.index = "position" => name = "dmesgCmd"
    /\ c.join # "none" => c.via = Bidi
    /\ name \notin AlwaysOk \cup Overwritten =>
          /\ c.marks /\ ~c.logs /\ ~c.lookup /\ c.join = "none"
          /\ c.bad \in {"none", "marks", "both"}
    /\ name \notin Elsewhere =>
          /\ c.tells \in {"err", "stderr"} /\ c.call \in {"all", "stderr"}
          /\ c.lost \in {"undone", "stderr"} /\ c.files = 1
          /\ c.write = "cut" => c.lost = "stderr"
          /\ c.stops => c.tells = "stderr"
          /\ c.write = "stop" => name = "dumpCmd"

Positions == {"dial", "parse", "call", "upload", "collect", "recv", "range", "join", "end",
              "confirm", "return", "exited"}
InCall == pc \in {"upload", "collect", "recv", "range", "join"}
Lines == {"call", "send", "lost", "target", "reply", "write"}
Answers == [t : 1..ntgt, k : {"reply", "eof", "error"}, n : Nat, i : Nat]

CmdsTypeOK ==
    /\ cmd \in DOMAIN Commands /\ ntgt \in Nat \ {0} /\ size \in 1..ntgt /\ at \in 1..ntgt
    /\ pc \in Positions /\ stage \in {"lookup", "main"} /\ file \in Nat \ {0}
    /\ parse \in {Ok, Failed, Usage} /\ ret \in {Ok, Failed, Usage}
    /\ sres \in {Ok, Failed} /\ code \in {Ok, Failed}
    /\ todo \in Seq(Answers) /\ out \in [1..ntgt -> Seq([t : 1..ntgt, n : Nat])]
    /\ told \in [1..ntgt -> SUBSET Lines]
    /\ link \in [1..ntgt -> {"idle", "open", "answered", "ok", "failed"}]
    /\ nrep \in [1..ntgt -> Nat] /\ gone \in BOOLEAN

\* Where the goroutine of Execute may be in a call of which kind.
PlaceInv ==
    /\ stage = "lookup" \/ pc = "confirm" => C.lookup
    /\ pc \in {"upload", "collect"} => Kind = ClientStream
    /\ pc = "recv" => Kind # ClientStream
    /\ pc = "join" => C.join # "none"
    /\ pc = "call" /\ C.files = 1 /\ ~C.lookup => done = {}
    /\ C.files = 1 => file = 1
    /\ InCall => C.reads # "none"

\* What the library knows of the targets of the call.
LinkInv == InCall =>
    /\ owed \subseteq {t \in Asked : link[t] = "failed"}
    /\ owed # {} => \A t \in Asked \ owed : link[t] = "open"
    /\ Kind = Unary => owed = {} /\ (Cardinality(Asked) = 1 => ~gone)
    /\ Kind # Unary /\ gone => Open(Asked) # {}
    /\ \A t \in Asked :
          /\ link[t] # "idle" /\ (link[t] = "answered" => Kind = Unary)
          /\ link[t] = "answered" => Cardinality(Asked) # 1
          /\ Kind = Unary => nrep[t] = IF link[t] = "open" THEN 0
                                       ELSE IF link[t] = "failed" THEN nrep[t] ELSE 1
          /\ Kind = Unary => nrep[t] <= 1

\* The answers in hand: the refusals held back, and then one other.
TodoInv ==
    /\ pc \notin {"collect", "range"} => todo = <<>>
    /\ pc = "range" /\ Kind # ClientStream => todo # <<>> /\ owed = {}
    /\ pc = "range" /\ Kind = Unary => Len(todo) = 1
    /\ \A i \in DOMAIN todo :
          /\ todo[i].t \in Asked
          /\ todo[i].k = "error" => link[todo[i].t] = "failed"
          /\ todo[i].k = "eof" => link[todo[i].t] = "ok" /\ Kind # Unary
          /\ Kind = Unary /\ todo[i].k = "reply" => link[todo[i].t] # "failed"
          /\ Kind # ClientStream =>
                /\ i < Len(todo) => todo[i].k = "error"
                /\ todo[i].k = "reply" => todo[i].n = nrep[todo[i].t] /\ todo[i].n > 0
                /\ todo[i].k = "reply" /\ Kind # Unary => link[todo[i].t] = "open"

\* CloseAndRecv gathers an answer of every target that started.
UploadInv == Kind = ClientStream =>
    /\ pc = "upload" => \A t \in Asked \ owed : link[t] = "open"
    /\ pc = "collect" =>
          /\ owed # {} => todo = <<>>
          /\ \A t \in Asked \ owed : link[t] # "open" => t \in Answered
          /\ \A t \in Answered : link[t] = "open" => nrep[t] = 1
    /\ pc = "range" =>
          /\ owed # {} => Open(Asked) = {}
          /\ \A t \in Open(Asked) : nrep[t] = 1

Strict == cmd \notin AlwaysOk \cup Overwritten /\ AllRead
Naming == cmd \notin Elsewhere /\ AllRead
Named(t) == told[t] # {} \/ stderr # {} \/ (cmd = "dumpCmd" /\ mishap # {})
Pending(t, k) == \E i \in DOMAIN todo : todo[i].t = t /\ todo[i].k = k

Settled(t) == (Strict => ret # Ok) /\ (Naming => Named(t))

FailInv ==
    /\ InCall => \A t \in Asked :
          link[t] = "failed" /\ t \notin owed /\ ~Pending(t, "error") => Settled(t)
    /\ pc \in {"join", "end"} => \A t \in Asked : Fell(t) => Settled(t) \/ Unstarted

\* Who is done has ended, failed or has a line to tell it.
DoneInv == InCall => \A t \in done \cap Asked :
    /\ Naming /\ Kind # Unary => link[t] = "ok" \/ Named(t) \/ C.write = "cut"
    /\ C.write \in {"mark", "stop"} =>
          t \in mishap \/ link[t] = "failed" \/ (Kind # Unary /\ link[t] = "ok")

StatusInv ==
    /\ pc = "exited" <=> exit # "running"
    /\ exit = Ok => code = Ok
    /\ Strict /\ (hurt \ unheard # {} \/ mishap # {}) =>
          code # Ok \/ (pc \notin {"dial", "parse", "exited"} /\ ret # Ok)
    /\ Naming => silent \ unheard = {} \/ stderr # {} \/ (cmd = "dumpCmd" /\ mishap # {})

\* The replies of a target Execute has dealt with.
Handled(t) == IF Pending(t, "reply") THEN nrep[t] - 1 ELSE nrep[t]
Due(t) ==      \* all of them should be in its output
    /\ stage = "main" /\ t \in Asked /\ C.prints # "none"
    /\ t \in mishap \/ C.write = "cut" =>
          C.write \notin {"mark", "stop", "cut"} \/ t \notin done \cup full
    /\ \/ InCall /\ link[t] # "failed"
       \/ pc = "end" /\ link[t] = "ok"
OutInv == cmd # "dmesgCmd" =>
    \A t \in 1..ntgt :
        /\ C.prints = "none" => out[t] = <<>>
        /\ \A i \in DOMAIN out[t] : out[t][i].t = t /\ out[t][i].n <= Handled(t)
        /\ Rising(t)
        /\ C.bad \notin {"told", "both"} /\ ~C.logs =>
              /\ \A i \in DOMAIN out[t] : Holds(t, out[t][i].n)
              /\ Due(t) => Holds(t, Handled(t))

IInv == /\ CmdsTypeOK /\ PlaceInv /\ LinkInv /\ TodoInv /\ UploadInv
        /\ FailInv /\ DoneInv /\ StatusInv /\ OutInv
===============================================================================
