------------------------ MODULE ClientCommands_proofs ------------------------
(***************************************************************************)
(* Proofs about ClientCommands, for every command, number of targets and   *)
(* batches, and number of replies: its inductive invariant IInv, and the   *)
(* three safety properties of the process (ExitTellsFailure, FailureNamed  *)
(* and OutputOwn).                                                         *)
(***************************************************************************)
EXTENDS ClientCommands, FiniteSetTheorems, TLAPS

(***************************************************************************)
(* The table of the commands.                                              *)
(***************************************************************************)
Kinds == {Unary, ServerStream, ClientStream, Bidi}

\* What prints nothing or only the replies, and has nothing else of its own, is well made.
LEMMA FormsWellMade ==
    ASSUME NEW name, NEW via \in Kinds, NEW s \in SUBSET {Usage, Failed}
    PROVE  /\ WellMade(name, Quiet(via, s)) /\ WellMade(name, Doer(via, s))
           /\ WellMade(name, ToOne(Doer(via, s)))
           /\ via # ClientStream => WellMade(name, Checked(via, s))
           /\ via # ClientStream => WellMade(name, Plain(via))
BY DEF Kinds, Quiet, Doer, ToOne, Helper, Checked, Plain, WellMade, Unary, ServerStream,
       ClientStream, Bidi, AlwaysOk, Overwritten, Elsewhere, Usage, Ok, Failed

\* Those that print nothing,
LEMMA SilentCommands ==
    /\ WellMade("symlinkCmd", symlinkCmd) /\ WellMade("chownCmd", chownCmd)
    /\ WellMade("chgrpCmd", chgrpCmd) /\ WellMade("chmodCmd", chmodCmd)
    /\ WellMade("immutableCmd", immutableCmd) /\ WellMade("cpBucketCmd", cpBucketCmd)
    /\ WellMade("cpCmd", cpCmd) /\ WellMade("rmCmd", rmCmd) /\ WellMade("rmdirCmd", rmdirCmd)
    /\ WellMade("mvCmd", mvCmd) /\ WellMade("mkdirCmd", mkdirCmd)
    /\ WellMade("shredCmd", shredCmd) /\ WellMade("confWriteCmd", confWriteCmd)
    /\ WellMade("confDeleteCmd", confDeleteCmd)
    /\ WellMade("RemoveRemoteFile", RemoveRemoteFile)
    /\ WellMade("CopyRemoteFile", CopyRemoteFile) /\ WellMade("MakeRemoteDir", MakeRemoteDir)
    /\ WellMade("ChangeRemoteFileOwnership", ChangeRemoteFileOwnership)
    /\ WellMade("ChangeRemoteFileGroup", ChangeRemoteFileGroup)
    /\ WellMade("ChangeRemoteFilePermission", ChangeRemoteFilePermission)
    /\ WellMade("SymlinkRemote", SymlinkRemote)
    /\ WellMade("StartRemoteService", StartRemoteService)
    /\ WellMade("StopRemoteService", StopRemoteService)
    /\ WellMade("RestartRemoteService", RestartRemoteService)
    /\ WellMade("EnableRemoteService", EnableRemoteService)
    /\ WellMade("DisableRemoteService", DisableRemoteService)
BY FormsWellMade DEF symlinkCmd, chownCmd, chgrpCmd, chmodCmd, immutableCmd, cpBucketCmd,
       cpCmd, rmCmd, rmdirCmd, mvCmd, mkdirCmd, shredCmd, confWriteCmd, confDeleteCmd,
       RemoveRemoteFile, CopyRemoteFile, MakeRemoteDir, ChangeRemoteFileOwnership,
       ChangeRemoteFileGroup, ChangeRemoteFilePermission, SymlinkRemote,
       StartRemoteService, StopRemoteService, RestartRemoteService, EnableRemoteService,
       DisableRemoteService, Conf_Delete, Conf_Write, LocalFile_Copy, LocalFile_Mkdir,
       LocalFile_Rename, LocalFile_Rm, LocalFile_Rmdir, LocalFile_SetFileAttributes,
       LocalFile_Shred, LocalFile_Symlink, LocalFile_Write, Service_Action, Kinds, Unary,
       ServerStream, ClientStream, Bidi

LEMMA SilentEntries ==
    \A name \in
        {"symlinkCmd", "chownCmd", "chgrpCmd", "chmodCmd", "immutableCmd", "cpBucketCmd",
         "cpCmd", "rmCmd", "rmdirCmd", "mvCmd", "mkdirCmd", "shredCmd", "confWriteCmd",
         "confDeleteCmd", "RemoveRemoteFile", "CopyRemoteFile", "MakeRemoteDir",
         "ChangeRemoteFileOwnership", "ChangeRemoteFileGroup",
         "ChangeRemoteFilePermission", "SymlinkRemote", "StartRemoteService",
         "StopRemoteService", "RestartRemoteService", "EnableRemoteService",
         "DisableRemoteService"} :
        WellMade(name, Commands[name])
BY SilentCommands DEF Commands

\* those that print the replies and do nothing else of their own,
LEMMA OrdinaryCommands ==
    /\ WellMade("validateCmd", validateCmd) /\ WellMade("readlinkCmd", readlinkCmd)
    /\ WellMade("installCmd", installCmd) /\ WellMade("removeCmd", removeCmd)
    /\ WellMade("updateCmd", updateCmd) /\ WellMade("listPkgCmd", listPkgCmd)
    /\ WellMade("searchCmd", searchCmd) /\ WellMade("repoListCmd", repoListCmd)
    /\ WellMade("cleanupCmd", cleanupCmd) /\ WellMade("pstackCmd", pstackCmd)
    /\ WellMade("jstackCmd", jstackCmd) /\ WellMade("setVerbosityCmd", setVerbosityCmd)
    /\ WellMade("getVerbosityCmd", getVerbosityCmd) /\ WellMade("versionCmd", versionCmd)
    /\ WellMade("uptimeCmd", uptimeCmd) /\ WellMade("handleHost", handleHost)
    /\ WellMade("fdbVersionCmd", fdbVersionCmd)
BY FormsWellMade DEF validateCmd, readlinkCmd, installCmd, removeCmd, updateCmd,
       listPkgCmd, searchCmd, repoListCmd, cleanupCmd, pstackCmd, jstackCmd,
       setVerbosityCmd, getVerbosityCmd, versionCmd, uptimeCmd, handleHost, fdbVersionCmd,
       HTTPOverRPC_Host, HealthCheck_Ok, LocalFile_Readlink, Logging_GetVerbosity,
       Logging_SetVerbosity, Packages_Cleanup, Packages_Install, Packages_ListInstalled,
       Packages_Remove, Packages_RepoList, Packages_Search, Packages_Update,
       Process_GetJavaStacks, Process_GetStacks, Server_FDBServer, State_Version,
       SysInfo_Uptime, Kinds, Unary, ServerStream, ClientStream, Bidi

\* those that always succeed,
LEMMA LenientCommands ==
    /\ WellMade("lookupCmd", lookupCmd) /\ WellMade("dataGetCmd", dataGetCmd)
    /\ WellMade("dataSetCmd", dataSetCmd) /\ WellMade("tcpCheckCmd", tcpCheckCmd)
    /\ WellMade("approveCmd", approveCmd) /\ WellMade("clearCmd", clearCmd)
    /\ WellMade("listCmd", listCmd) /\ WellMade("getCmd", getCmd) /\ WellMade("psCmd", psCmd)
    /\ WellMade("killCmd", killCmd) /\ WellMade("rawUnary", rawUnary)
    /\ WellMade("rawServer", rawServer) /\ WellMade("rawBidi", rawBidi)
BY DEF lookupCmd, dataGetCmd, dataSetCmd, tcpCheckCmd, approveCmd, clearCmd, listCmd,
       getCmd, psCmd, killCmd, rawUnary, rawServer, rawBidi, LocalFile_DataGet,
       LocalFile_DataSet, Lookup_Lookup, Mpa_Approve, Mpa_Clear, Mpa_Get, Mpa_List,
       Network_TCPCheck, Process_Kill, Process_List, Lenient, Checked, Plain, WellMade,
       Unary, ServerStream, ClientStream, Bidi, AlwaysOk, Overwritten, Elsewhere, Usage,
       Ok, Failed

\* the helpers that return what they gather,
LEMMA HelperCommands ==
    /\ WellMade("ReadRemoteFileMany", ReadRemoteFileMany)
    /\ WellMade("ReadRemoteFile", ReadRemoteFile)
    /\ WellMade("WriteRemoteFile", WriteRemoteFile) /\ WellMade("ListRemote", ListRemote)
    /\ WellMade("ExecRemoteCommandManyWithOpts", ExecRemoteCommandManyWithOpts)
    /\ WellMade("ExecRemoteCommandWithOpts", ExecRemoteCommandWithOpts)
    /\ WellMade("ListRemoteServices", ListRemoteServices)
    /\ WellMade("StatusRemoteService", StatusRemoteService)
    /\ WellMade("ReloadRemoteService", ReloadRemoteService)
    /\ WellMade("RoundTrip", RoundTrip)
BY DEF ReadRemoteFileMany, ReadRemoteFile, WriteRemoteFile, ListRemote,
       ExecRemoteCommandManyWithOpts, ExecRemoteCommandWithOpts, ListRemoteServices,
       StatusRemoteService, ReloadRemoteService, RoundTrip, Exec_Run, HTTPOverRPC_Host,
       LocalFile_List, LocalFile_Read, LocalFile_Write, Service_Action, Service_List,
       Service_Status, Helper, Doer, ToOne, Checked, Plain, WellMade, Unary, ServerStream,
       ClientStream, Bidi, AlwaysOk, Overwritten, Elsewhere, Usage, Ok, Failed

\* and those with a way of their own.
LEMMA OtherCommands ==
    /\ WellMade("playbookCmd", playbookCmd) /\ WellMade("runCmd", runCmd)
    /\ WellMade("runStreamCmd", runStreamCmd) /\ WellMade("readFile", readFile)
    /\ WellMade("statCmd", statCmd) /\ WellMade("sumCmd", sumCmd) /\ WellMade("lsCmd", lsCmd)
    /\ WellMade("rebootCmd", rebootCmd) /\ WellMade("dumpCmd", dumpCmd)
    /\ WellMade("setProxyVerbosityCmd", setProxyVerbosityCmd)
    /\ WellMade("getProxyVerbosityCmd", getProxyVerbosityCmd)
    /\ WellMade("proxyVersionCmd", proxyVersionCmd) /\ WellMade("actionCmd", actionCmd)
    /\ WellMade("statusCmd", statusCmd) /\ WellMade("listSvcCmd", listSvcCmd)
    /\ WellMade("dmesgCmd", dmesgCmd) /\ WellMade("journalCmd", journalCmd)
    /\ WellMade("getCertsCmd", getCertsCmd) /\ WellMade("handleStream", handleStream)
    /\ WellMade("fdbCLICmd", fdbCLICmd) /\ WellMade("confReadCmd", confReadCmd)
BY DEF playbookCmd, runCmd, runStreamCmd, readFile, statCmd, sumCmd, lsCmd, rebootCmd,
       dumpCmd, setProxyVerbosityCmd, getProxyVerbosityCmd, proxyVersionCmd, actionCmd,
       statusCmd, listSvcCmd, dmesgCmd, journalCmd, getCertsCmd, handleStream, fdbCLICmd,
       confReadCmd, CLI_FDBCLI, Conf_Read, Exec_Run, Exec_StreamingRun,
       HTTPOverRPC_StreamHost, LocalFile_List, LocalFile_Read, LocalFile_Stat,
       LocalFile_Sum, Logging_GetVerbosity, Logging_SetVerbosity, Playbook_Run,
       Power_Reboot, Process_GetMemoryDump, Service_Action, Service_List, Service_Status,
       State_Version, SysInfo_Dmesg, SysInfo_Journal, TLSInfo_GetTLSCertificate, Checked,
       Plain, WellMade, Unary, ServerStream, ClientStream, Bidi, AlwaysOk, Overwritten,
       Elsewhere, Usage, Ok, Failed

\* Every command of the table is well made: an error of a target marks the status unless
\* the command always succeeds, is told to it unless the command is known not to, and what
\* a command with a second goroutine or a limit does fits the rest of it.
THEOREM CommandsWellMade ==
    ASSUME NEW name \in DOMAIN Commands
    PROVE  WellMade(name, Commands[name])
<1>1. name \in {"playbookCmd", "lookupCmd", "validateCmd", "runCmd", "runStreamCmd",
        "readFile", "readlinkCmd", "symlinkCmd", "statCmd", "sumCmd", "chownCmd", "chgrpCmd",
        "chmodCmd", "immutableCmd", "lsCmd", "cpBucketCmd", "cpCmd", "rmCmd", "rmdirCmd",
        "mvCmd", "mkdirCmd", "shredCmd", "dataGetCmd", "dataSetCmd", "tcpCheckCmd",
        "approveCmd", "clearCmd", "listCmd", "getCmd", "installCmd", "removeCmd", "updateCmd",
        "listPkgCmd", "searchCmd", "repoListCmd", "cleanupCmd", "rebootCmd", "psCmd",
        "killCmd", "pstackCmd", "jstackCmd", "dumpCmd", "setVerbosityCmd", "getVerbosityCmd",
        "versionCmd", "setProxyVerbosityCmd", "getProxyVerbosityCmd", "proxyVersionCmd",
        "actionCmd", "statusCmd", "listSvcCmd", "uptimeCmd", "dmesgCmd", "journalCmd",
        "getCertsCmd", "handleHost", "handleStream", "rawUnary", "rawServer", "rawBidi",
        "fdbCLICmd", "confReadCmd", "confWriteCmd", "confDeleteCmd", "fdbVersionCmd",
        "ReadRemoteFileMany", "ReadRemoteFile", "WriteRemoteFile", "RemoveRemoteFile",
        "CopyRemoteFile", "MakeRemoteDir", "ChangeRemoteFileOwnership",
        "ChangeRemoteFileGroup", "ChangeRemoteFilePermission", "SymlinkRemote", "ListRemote",
        "ExecRemoteCommandManyWithOpts", "ExecRemoteCommandWithOpts", "ListRemoteServices",
        "StatusRemoteService", "StartRemoteService", "StopRemoteService",
        "RestartRemoteService", "EnableRemoteService", "DisableRemoteService",
        "ReloadRemoteService", "RoundTrip"}
  BY DEF Commands
<1>2. CASE name \in {"symlinkCmd", "chownCmd", "chgrpCmd", "chmodCmd", "immutableCmd",
        "cpBucketCmd", "cpCmd", "rmCmd", "rmdirCmd", "mvCmd", "mkdirCmd", "shredCmd",
        "confWriteCmd", "confDeleteCmd", "RemoveRemoteFile", "CopyRemoteFile",
        "MakeRemoteDir", "ChangeRemoteFileOwnership", "ChangeRemoteFileGroup",
        "ChangeRemoteFilePermission", "SymlinkRemote", "StartRemoteService",
        "StopRemoteService", "RestartRemoteService", "EnableRemoteService",
        "DisableRemoteService"}
  BY <1>2, SilentEntries
<1>3. CASE name \in {"validateCmd", "readlinkCmd", "installCmd", "removeCmd", "updateCmd",
        "listPkgCmd", "searchCmd", "repoListCmd", "cleanupCmd", "pstackCmd", "jstackCmd",
        "setVerbosityCmd", "getVerbosityCmd", "versionCmd", "uptimeCmd", "handleHost",
        "fdbVersionCmd"}
  BY <1>3, OrdinaryCommands DEF Commands
<1>4. CASE name \in {"lookupCmd", "dataGetCmd", "dataSetCmd", "tcpCheckCmd", "approveCmd",
        "clearCmd", "listCmd", "getCmd", "psCmd", "killCmd", "rawUnary", "rawServer",
        "rawBidi"}
  BY <1>4, LenientCommands DEF Commands
<1>5. CASE name \in {"ReadRemoteFileMany", "ReadRemoteFile", "WriteRemoteFile", "ListRemote",
        "ExecRemoteCommandManyWithOpts", "ExecRemoteCommandWithOpts", "ListRemoteServices",
        "StatusRemoteService", "ReloadRemoteService", "RoundTrip"}
  BY <1>5, HelperCommands DEF Commands
<1>6. CASE name \in {"playbookCmd", "runCmd", "runStreamCmd", "readFile", "statCmd", "sumCmd",
        "lsCmd", "rebootCmd", "dumpCmd", "setProxyVerbosityCmd", "getProxyVerbosityCmd",
        "proxyVersionCmd", "actionCmd", "statusCmd", "listSvcCmd", "dmesgCmd", "journalCmd",
        "getCertsCmd", "handleStream", "fdbCLICmd", "confReadCmd"}
  BY <1>6, OtherCommands DEF Commands
<1> QED
  BY <1>1, <1>2, <1>3, <1>4, <1>5, <1>6

(***************************************************************************)
(* The targets of a batch, and their answers.                              *)
(***************************************************************************)
LEMMA BatchFacts ==
    ASSUME CmdsTypeOK
    PROVE  /\ WellMade(cmd, C)
           /\ Batch \subseteq 1..ntgt /\ Asked \subseteq Batch /\ at \in Asked
           /\ IsFiniteSet(Asked) /\ Cardinality(Asked) \in Nat
           /\ ntgt = 1 => Cardinality(Asked) = 1
           /\ \A t \in Asked : t \in 1..ntgt /\ t \in Batch /\ Slot(Index(t)) = t
<1>1. WellMade(cmd, C)
  BY CommandsWellMade DEF CmdsTypeOK, C
<1>2. Batch \subseteq 1..ntgt /\ at \in Batch /\ at \in Nat /\ ntgt \in Nat
  BY DEF CmdsTypeOK, Batch, Lowest
<1>3. Asked \subseteq Batch /\ at \in Asked
  BY <1>2 DEF Asked
<1>4. IsFiniteSet(1..ntgt)
  BY <1>2, FS_Interval
<1>5. IsFiniteSet(Asked) /\ Cardinality(Asked) \in Nat
  BY <1>2, <1>3, <1>4, FS_Subset, FS_CardinalityType
<1>6. ntgt = 1 => Asked = {at}
  <2>1. ntgt = 1 => \A t \in 1..ntgt : t = at
    BY DEF CmdsTypeOK
  <2> QED
    BY <1>2, <1>3, <2>1
<1>7. ntgt = 1 => Cardinality(Asked) = 1
  BY <1>6, FS_Singleton
<1>8. \A t \in Asked : t \in 1..ntgt /\ t \in Batch /\ Slot(Index(t)) = t
  BY <1>2, <1>3 DEF Slot, Index
<1> QED
  BY <1>1, <1>2, <1>3, <1>5, <1>7, <1>8

\* A line to some targets takes none from the others.
LEMMA TellFacts ==
    ASSUME CmdsTypeOK, NEW T, NEW what \in Lines
    PROVE  /\ Tell(T, what) \in [1..ntgt -> SUBSET Lines]
           /\ \A t \in 1..ntgt : told[t] # {} \/ t \in T => Tell(T, what)[t] # {}
BY DEF CmdsTypeOK, Tell, Lines

\* The targets whose errors are among the answers s.
Errors(s) == {s[i].t : i \in {j \in DOMAIN s : s[j].k = "error"}}

\* What Recv returns: the refusals held back, and then the answer of t.
LEMMA ReceivedFacts ==
    ASSUME CmdsTypeOK, owed \subseteq Asked, NEW t \in Asked, NEW k \in {"reply", "eof", "error"},
           NEW s, s = Received(t, k)
    PROVE  /\ s \in Seq(Answers) /\ Len(s) \in Nat \ {0}
           /\ s[Len(s)].t = t /\ s[Len(s)].k = k
           /\ k = "reply" => s[Len(s)].n = nrep[t] + 1
           /\ \A i \in 1..Len(s) : i < Len(s) => s[i].k = "error" /\ s[i].t \in owed
           /\ owed \subseteq Errors(s)
<1> DEFINE E == {Answer(r, "error") : r \in owed}
           q == SetToSeq(E)
           b == q \o <<Answer(t, k)>>
<1>1. /\ Asked \subseteq 1..ntgt /\ owed \subseteq 1..ntgt /\ t \in 1..ntgt /\ nrep[t] \in Nat
      /\ ntgt \in Nat
  BY BatchFacts DEF CmdsTypeOK
<1>2. /\ Answer(t, k) \in Answers /\ Answer(t, k).t = t /\ Answer(t, k).k = k
      /\ k = "reply" => Answer(t, k).n = nrep[t] + 1
  BY <1>1 DEF Answer, Answers
<1>3. E \subseteq Answers /\ \A a \in E : a.k = "error" /\ a.t \in owed
  BY <1>1 DEF Answer, Answers
<1>4. \A r \in owed : Answer(r, "error") \in E /\ Answer(r, "error").t = r
                      /\ Answer(r, "error").k = "error"
  BY DEF Answer
<1>5. IsFiniteSet(E)
  <2>1. IsFiniteSet(owed)
    BY BatchFacts, FS_Subset
  <2> DEFINE f == [r \in owed |-> Answer(r, "error")]
  <2>2. f \in Surjection(owed, E)
    BY DEF Surjection
  <2> QED
    BY <2>1, <2>2, FS_Surjection
<1>6. /\ Cardinality(E) \in Nat
      /\ q \in [1..Cardinality(E) -> E] /\ \A a \in E : \E i \in 1..Cardinality(E) : q[i] = a
  <2>1. Cardinality(E) \in Nat /\ ExistsBijection(1..Cardinality(E), E)
    BY <1>5, FS_CardinalityType
  <2>2. PICK f : f \in Bijection(1..Cardinality(E), E)
    BY <2>1 DEF ExistsBijection
  <2>3. f \in [1..Cardinality(E) -> E] /\ IsInjective(f)
    BY <2>2 DEF Bijection, Injection, IsInjective
  <2>4. q \in [1..Cardinality(E) -> E] /\ IsInjective(q)
    BY <2>3 DEF SetToSeq
  <2>5. q \in Injection(1..Cardinality(E), E)
    BY <2>4 DEF Injection, IsInjective
  <2>6. Cardinality(1..Cardinality(E)) = Cardinality(E)
    BY <2>1, FS_Interval
  <2>7. q \in Surjection(1..Cardinality(E), E)
    BY <2>5, <2>6, <1>5, FS_Injection
  <2> QED
    BY <2>1, <2>4, <2>7 DEF Surjection
<1> HIDE DEF q, E
<1>7. q \in Seq(Answers) /\ Len(q) = Cardinality(E)
  BY <1>3, <1>6
<1>8. /\ b \in Seq(Answers) /\ Len(b) = Len(q) + 1 /\ b[Len(b)] = Answer(t, k)
      /\ \A i \in 1..Len(q) : b[i] = q[i]
  BY <1>2, <1>7
<1>9. s = [i \in DOMAIN b |-> [b[i] EXCEPT !.i = i]]
  BY DEF Received, q, E
<1> HIDE DEF b
<1>10. /\ s \in Seq(Answers) /\ Len(s) = Len(b)
       /\ \A i \in 1..Len(s) : s[i].t = b[i].t /\ s[i].k = b[i].k /\ s[i].n = b[i].n
  <2>1. DOMAIN b = 1..Len(b) /\ Len(b) \in Nat /\ \A i \in 1..Len(b) : b[i] \in Answers
    BY <1>8
  <2>2. \A i \in 1..Len(b) : /\ [b[i] EXCEPT !.i = i] \in Answers
                             /\ [b[i] EXCEPT !.i = i].t = b[i].t
                             /\ [b[i] EXCEPT !.i = i].k = b[i].k
                             /\ [b[i] EXCEPT !.i = i].n = b[i].n
    BY <2>1 DEF Answers
  <2>3. s \in [1..Len(b) -> Answers] /\ \A i \in 1..Len(b) : s[i] = [b[i] EXCEPT !.i = i]
    BY <1>9, <2>1, <2>2
  <2>4. s \in Seq(Answers) /\ Len(s) = Len(b)
    BY <2>1, <2>3
  <2> QED
    BY <2>2, <2>3, <2>4
<1>11. Len(q) \in Nat /\ \A i \in 1..Len(q) : q[i].k = "error" /\ q[i].t \in owed
  BY <1>3, <1>6, <1>7
<1>12. \A r \in owed : \E i \in 1..Len(s) : s[i].t = r /\ s[i].k = "error"
  <2> TAKE r \in owed
  <2>1. PICK i \in 1..Len(q) : q[i] = Answer(r, "error")
    BY <1>4, <1>6, <1>7
  <2> QED
    BY <2>1, <1>4, <1>8, <1>10, <1>11
<1>13. owed \subseteq Errors(s)
  <2>1. DOMAIN s = 1..Len(s)
    BY <1>10
  <2> QED
    BY <1>12, <2>1 DEF Errors
<1> QED
  BY <1>2, <1>8, <1>10, <1>11, <1>13

(***************************************************************************)
(* What a step leaves alone.                                               *)
(***************************************************************************)
LEMMA LineKept ==
    ASSUME [CmdsNext]_ccVars
    PROVE  UNCHANGED <<cmd, ntgt, size, direct, parse, full>> /\ C' = C
<1>1. CASE UNCHANGED ccVars
  BY <1>1 DEF ccVars, lineVars, C
<1>2. CASE CmdsNext
  <2>1. UNCHANGED lineVars
    BY <1>2 DEF CmdsNext, CmdsStep, Confirm, ConfirmAgain, Exited, ccVars, Dial, Parse,
                CallRefused, CallStarts, Upload, Collect, Recv, RecvEnds, RecvLost, Library,
                HandleError, HandleEOF, HandleReply, WriteFails, HandleLog, HandleAction,
                UploadEnds, SenderFails, SenderCloses, Join, EndCall, Return
  <2> QED
    BY <2>1 DEF lineVars, C
<1> QED
  BY <1>1, <1>2

LEMMA CallKept ==
    ASSUME [CmdsNext]_ccVars, at' = at
    PROVE  /\ Batch' = Batch /\ Asked' = Asked
           /\ Strict' = Strict /\ Naming' = Naming
           /\ stage' = stage => Kind' = Kind
BY LineKept DEF Batch, Lowest, Asked, Strict, Naming, AllRead, Kind

(***************************************************************************)
(* Types.                                                                  *)
(***************************************************************************)
LEMMA AnswersKept ==
    ASSUME [CmdsNext]_ccVars
    PROVE  Answers' = Answers
BY LineKept DEF Answers

\* Where the process is, and its statuses.
LEMMA ControlTyped ==
    ASSUME CmdsTypeOK, [CmdsNext]_ccVars
    PROVE  /\ cmd' \in DOMAIN Commands /\ ntgt' \in Nat \ {0} /\ size' \in 1..ntgt'
           /\ at' \in 1..ntgt' /\ pc' \in Positions /\ stage' \in {"lookup", "main"}
           /\ file' \in Nat \ {0} /\ parse' \in {Ok, Failed, Usage}
           /\ ret' \in {Ok, Failed, Usage} /\ sres' \in {Ok, Failed} /\ code' \in {Ok, Failed}
<1>1. C.many \in {Ok, Usage, Failed}
  BY BatchFacts DEF WellMade
<1>2. /\ cmd' \in DOMAIN Commands /\ ntgt' \in Nat \ {0} /\ size' \in 1..ntgt'
      /\ parse' \in {Ok, Failed, Usage}
  BY LineKept DEF CmdsTypeOK
<1>3. at' \in 1..ntgt'
  <2>1. at' = at \/ (at' = at + size /\ at + size <= ntgt)
    BY DEF CmdsNext, CmdsStep, Confirm, ConfirmAgain, Exited, ccVars, flowVars, Dial, Parse,
           CallRefused, CallStarts, Upload, Collect, Recv, RecvEnds, RecvLost, Library,
           HandleError, HandleEOF, HandleReply, WriteFails, HandleLog, HandleAction,
           UploadEnds, SenderFails, SenderCloses, Join, EndCall, Return, MoreBatches
  <2>2. ntgt' = ntgt /\ ntgt \in Nat /\ at \in 1..ntgt /\ size \in 1..ntgt
    BY LineKept DEF CmdsTypeOK
  <2> QED
    BY <2>1, <2>2
<1>4. pc' \in Positions /\ stage' \in {"lookup", "main"}
  BY DEF CmdsTypeOK, Positions, CmdsNext, CmdsStep, Confirm, ConfirmAgain, Exited, ccVars,
         flowVars, Dial, Parse, CallRefused, CallStarts, Upload, UploadFails, Collect, Recv,
         RecvEnds, RecvLost, Library, Advance, HandleError, HandleEOF, HandleReply,
         WriteFails, HandleLog, HandleAction, UploadEnds, SenderFails, SenderCloses, Join,
         EndCall, Return
<1>5. file' \in Nat \ {0}
  <2>1. file' \in {file, 1, file + 1}
    BY DEF CmdsNext, CmdsStep, Confirm, ConfirmAgain, Exited, ccVars, flowVars,
           Dial, Parse, CallRefused, CallStarts, Upload, Collect, Recv, RecvEnds,
           RecvLost, Library, HandleError, HandleEOF, HandleReply, WriteFails, HandleLog,
           HandleAction, UploadEnds, SenderFails, SenderCloses, Join, EndCall, Return
  <2> QED
    BY <2>1 DEF CmdsTypeOK
<1>7. code' \in {Ok, Failed}
  BY DEF CmdsTypeOK, CmdsNext, CmdsStep, Confirm, ConfirmAgain, Exited, ccVars, flowVars,
         Dial, Parse, CallRefused, CallStarts, Upload, Collect, Recv, RecvEnds,
         RecvLost, Library, HandleError, HandleEOF, HandleReply, WriteFails, HandleLog,
         HandleAction, UploadEnds, SenderFails, SenderCloses, Join, EndCall, Return, CodeAfter,
         runVars
<1>8. sres' \in {Ok, Failed}
  BY DEF CmdsTypeOK, CmdsNext, CmdsStep, Confirm, ConfirmAgain, Exited, ccVars, flowVars,
         Dial, Parse, CallRefused, CallStarts, Upload, Collect, Recv, RecvEnds,
         RecvLost, Library, HandleError, HandleEOF, HandleReply, WriteFails, HandleLog,
         HandleAction, UploadEnds, SenderFails, SenderCloses, Join, EndCall, Return
<1>6. ret' \in {Ok, Failed, Usage}
  BY <1>1 DEF CmdsTypeOK, CmdsNext, CmdsStep, Confirm, ConfirmAgain, Exited, ccVars, flowVars,
         Dial, Parse, CallRefused, CallStarts, Upload, UploadFails, Collect, Recv, RecvEnds,
         RecvLost, Library, HandleError, HandleEOF, HandleReply, WriteFails, HandleLog,
         HandleAction, UploadEnds, SenderFails, SenderCloses, Join, EndCall, Return
<1> QED
  BY <1>2, <1>3, <1>4, <1>5, <1>6, <1>7, <1>8

LEMMA SlotFacts ==
    ASSUME CmdsTypeOK, todo # <<>>
    PROVE  /\ Head(todo) \in Answers /\ Head(todo) = todo[1] /\ Tail(todo) \in Seq(Answers)
           /\ Len(todo) \in Nat \ {0} /\ Len(Tail(todo)) = Len(todo) - 1
           /\ \A i \in 1..Len(todo) - 1 : Tail(todo)[i] = todo[i + 1]
           /\ Slot(Index(Head(todo).t)) = Head(todo).t
           /\ Head(todo).t \in 1..ntgt /\ Head(todo).n \in Nat
<1>1. Head(todo) \in Answers /\ Tail(todo) \in Seq(Answers)
  BY DEF CmdsTypeOK
<1>2. Head(todo).t \in Int /\ at \in Int /\ Head(todo).t \in 1..ntgt /\ Head(todo).n \in Nat
  <2>1. ntgt \in Nat /\ at \in 1..ntgt
    BY DEF CmdsTypeOK
  <2>2. Head(todo).t \in 1..ntgt /\ Head(todo).n \in Nat
    BY <1>1 DEF Answers
  <2> QED
    BY <2>1, <2>2
<1>3. Slot(Index(Head(todo).t)) = Head(todo).t
  BY <1>2 DEF Slot, Index
<1>4. /\ Head(todo) = todo[1] /\ Len(todo) \in Nat \ {0} /\ Len(Tail(todo)) = Len(todo) - 1
      /\ \A i \in 1..Len(todo) - 1 : Tail(todo)[i] = todo[i + 1]
  BY DEF CmdsTypeOK
<1> QED
  BY <1>1, <1>2, <1>3, <1>4

\* The answers in hand.
LEMMA TodoTyped ==
    ASSUME IInv, [CmdsNext]_ccVars
    PROVE  todo' \in Seq(Answers)
<1>0. <<>> \in Seq(Answers)
  OBVIOUS
<1>1. CmdsTypeOK /\ todo \in Seq(Answers) /\ <<>> \in Seq(Answers)
  BY <1>0 DEF IInv, CmdsTypeOK
<1>2. pc = "collect" => owed \subseteq Asked
  BY DEF IInv, LinkInv, InCall
<1>3. pc = "recv" => owed \subseteq Asked
  BY DEF IInv, LinkInv, InCall
<1>4. CASE Collect
  <2>1. ASSUME NEW t \in Asked, NEW k \in {"reply", "eof", "error"},
               todo' = todo \o Received(t, k)
        PROVE  todo' \in Seq(Answers)
    <3>1. Received(t, k) \in Seq(Answers)
      BY <1>1, <1>2, <1>4, ReceivedFacts DEF Collect
    <3> QED
      BY <1>1, <2>1, <3>1
  <2> QED
    BY <1>1, <1>4, <2>1 DEF Collect
<1>5. CASE Recv
  <2>1. ASSUME NEW t \in Asked, NEW k \in {"reply", "eof", "error"}
        PROVE  Received(t, k) \in Seq(Answers) /\ <<Answer(t, k)>> \in Seq(Answers)
    <3>1. Received(t, k) \in Seq(Answers)
      BY <1>1, <1>3, <1>5, ReceivedFacts DEF Recv
    <3>2. t \in 1..ntgt /\ nrep[t] \in Nat
      BY <1>1, BatchFacts DEF CmdsTypeOK
    <3>3. Answer(t, k) \in Answers
      BY <3>2 DEF Answer, Answers
    <3> QED
      BY <3>1, <3>3
  <2> QED
    BY <1>5, <2>1 DEF Recv
<1>6. CASE HandleError \/ HandleEOF \/ HandleReply \/ WriteFails \/ HandleLog \/ HandleAction
  <2>1. todo' \in {<<>>, Tail(todo)} /\ todo # <<>>
    BY <1>6 DEF HandleError, HandleEOF, HandleReply, WriteFails, HandleLog, HandleAction
  <2> QED
    BY <1>1, <2>1, SlotFacts
<1>7. CASE UNCHANGED todo
  BY <1>1, <1>7
<1> QED
  BY <1>4, <1>5, <1>6, <1>7
     DEF CmdsNext, CmdsStep, Confirm, ConfirmAgain, Exited, ccVars, flowVars, Dial, Parse,
         CallRefused, CallStarts, Upload, RecvEnds, RecvLost, Library, UploadEnds, SenderFails,
         SenderCloses, Join, EndCall, Return

\* The error files: a line once written stays until the call is over.
LEMMA ToldTyped ==
    ASSUME CmdsTypeOK, [CmdsNext]_ccVars
    PROVE  /\ told' \in [1..ntgt -> SUBSET Lines]
           /\ ~EndCall => \A t \in 1..ntgt : told[t] # {} => told'[t] # {}
<1>1. /\ told \in [1..ntgt -> SUBSET Lines]
      /\ \A T : \A what \in Lines :
            /\ Tell(T, what) \in [1..ntgt -> SUBSET Lines]
            /\ \A t \in 1..ntgt : told[t] # {} => Tell(T, what)[t] # {}
  BY TellFacts DEF CmdsTypeOK
<1>2. {"call", "send", "lost", "target", "reply", "write"} = Lines
  BY DEF Lines
<1>3. EndCall => told' = [t \in 1..ntgt |-> {}]
  BY <1>1 DEF EndCall
<1>4. \/ told' = told
      \/ EndCall
      \/ \E T : \E what \in Lines : told' = Tell(T, what)
  BY <1>2
     DEF CmdsNext, CmdsStep, Confirm, ConfirmAgain, Exited, ccVars, textVars, Dial, Parse,
         CallRefused, CallTold, CallStarts, Upload, UploadFails, Collect, Recv, RecvEnds,
         RecvLost, LostTold, Library, HandleError, HandleEOF, HandleReply, WriteFails,
         HandleLog, HandleAction, UploadEnds, SenderFails, SenderCloses, Join, Return
<1>5. CASE told' = told
  BY <1>1, <1>5
<1>6. CASE EndCall
  <2>1. told' \in [1..ntgt -> SUBSET Lines]
    BY <1>3, <1>6
  <2> QED
    BY <1>6, <2>1
<1>7. CASE \E T : \E what \in Lines : told' = Tell(T, what)
  BY <1>1, <1>7
<1> QED
  BY <1>4, <1>5, <1>6, <1>7

\* The output.
LEMMA OutTyped ==
    ASSUME CmdsTypeOK, [CmdsNext]_ccVars
    PROVE  out' \in [1..ntgt -> Seq([t : 1..ntgt, n : Nat])]
<1> DEFINE Entries == [t : 1..ntgt, n : Nat]
<1>1. out \in [1..ntgt -> Seq(Entries)]
  BY DEF CmdsTypeOK
<1> SUFFICES out' \in [1..ntgt -> Seq(Entries)]
  OBVIOUS
<1> HIDE DEF Entries
<1>0. <<>> \in Seq(Entries)
  OBVIOUS
<1>2. ASSUME NEW o, NEW r \in Entries
      PROVE  [out EXCEPT ![o] = Written(o, r)] \in [1..ntgt -> Seq(Entries)]
  <2>1. <<r>> \in Seq(Entries) /\ \A s \in Seq(Entries) : Append(s, r) \in Seq(Entries)
    BY <1>2
  <2>2. o \in 1..ntgt => Written(o, r) \in Seq(Entries)
    BY <1>1, <2>1 DEF Written
  <2> QED
    BY <1>1, <2>2
<1>3. CASE HandleError
  <2> DEFINE t == Slot(Index(Head(todo).t))
  <2>1. [t |-> t, n |-> 0] \in Entries
    BY <1>3, SlotFacts DEF HandleError, Entries
  <2>2. out' \in {out, [out EXCEPT ![t] = Written(t, [t |-> t, n |-> 0])]}
    BY <1>3 DEF HandleError
  <2> HIDE DEF t
  <2> QED
    BY <1>1, <1>2, <2>1, <2>2
<1>4. CASE HandleReply
  <2> DEFINE t == Slot(Index(Head(todo).t))
             r == [t |-> t, n |-> Head(todo).n]
  <2>1. r \in Entries
    BY <1>4, SlotFacts DEF HandleReply, Entries
  <2>2. out' = out \/ \E o : out' = [out EXCEPT ![o] = Written(o, r)]
    BY <1>4 DEF HandleReply
  <2> HIDE DEF r
  <2> QED
    BY <1>1, <1>2, <2>1, <2>2
<1>5. CASE CallStarts
  BY <1>0, <1>1, <1>5 DEF CallStarts
<1>6. CASE UNCHANGED out
  BY <1>1, <1>6
<1> QED
  BY <1>3, <1>4, <1>5, <1>6
     DEF CmdsNext, CmdsStep, Confirm, ConfirmAgain, Exited, ccVars, textVars, Dial, Parse,
         CallRefused, Upload, Collect, Recv, RecvEnds, RecvLost, Library, HandleEOF,
         WriteFails, HandleLog, HandleAction, UploadEnds, SenderFails, SenderCloses, Join,
         EndCall, Return

LEMMA MovedTyped ==
    ASSUME CmdsTypeOK, NEW T, NEW st \in {"open", "answered", "ok", "failed"}
    PROVE  /\ Moved(T, st) \in [1..ntgt -> {"idle", "open", "answered", "ok", "failed"}]
           /\ \A t \in 1..ntgt : Moved(T, st)[t] = IF t \in T THEN st ELSE link[t]
BY DEF CmdsTypeOK, Moved

\* The library, whose variables only five of the actions change.
LEMMA LibraryKept ==
    ASSUME [CmdsNext]_ccVars, ~CallRefused, ~CallStarts, ~Collect, ~Recv, ~Library
    PROVE  UNCHANGED <<link, nrep, owed, gone>>
BY DEF CmdsNext, CmdsStep, Confirm, ConfirmAgain, Exited, ccVars, omVars, Dial, Parse, Upload,
       RecvEnds, RecvLost, HandleError, HandleEOF, HandleReply, WriteFails, HandleLog,
       HandleAction, UploadEnds, SenderFails, SenderCloses, Join, EndCall, Return

LEMMA LibraryTyped ==
    ASSUME CmdsTypeOK, [CmdsNext]_ccVars
    PROVE  /\ link' \in [1..ntgt -> {"idle", "open", "answered", "ok", "failed"}]
           /\ nrep' \in [1..ntgt -> Nat] /\ gone' \in BOOLEAN
<1>1. /\ link \in [1..ntgt -> {"idle", "open", "answered", "ok", "failed"}]
      /\ nrep \in [1..ntgt -> Nat] /\ gone \in BOOLEAN
  BY DEF CmdsTypeOK
<1>2. CASE CallRefused
  BY <1>1, <1>2, MovedTyped DEF CallRefused, CallFails
<1>3. CASE CallStarts
  <2>1. PICK R \in SUBSET Asked :
            /\ link' = [t \in DOMAIN link |-> IF t \in R THEN "failed"
                                              ELSE IF t \in Asked THEN "open" ELSE link[t]]
            /\ gone' = FALSE
            /\ nrep' = [t \in DOMAIN nrep |-> IF t \in Asked THEN 0 ELSE nrep[t]]
    BY <1>3 DEF CallStarts, CallMade
  <2> QED
    BY <1>1, <2>1
<1>4. ASSUME NEW T, NEW t, NEW k, RecvAnswers(T, t, k)
      PROVE  /\ link' \in [1..ntgt -> {"idle", "open", "answered", "ok", "failed"}]
             /\ nrep' \in [1..ntgt -> Nat] /\ gone' \in BOOLEAN
  BY <1>1, <1>4, MovedTyped DEF RecvAnswers
<1>5. ASSUME NEW T, NEW a, UnaryAnswer(T, a)
      PROVE  /\ link' \in [1..ntgt -> {"idle", "open", "answered", "ok", "failed"}]
             /\ nrep' \in [1..ntgt -> Nat] /\ gone' \in BOOLEAN
  <2>1. link' \in [1..ntgt -> {"idle", "open", "answered", "ok", "failed"}] /\ gone' = gone
    BY <1>5, MovedTyped DEF UnaryAnswer
  <2>2. nrep' \in {nrep, [nrep EXCEPT ![a.t] = @ + 1], [nrep EXCEPT ![a.t] = @ + 0]}
    BY <1>5 DEF UnaryAnswer
  <2> QED
    BY <1>1, <2>1, <2>2
<1>6. CASE Collect
  BY <1>1, <1>4, <1>6 DEF Collect, omVars
<1>7. CASE Recv
  BY <1>4, <1>5, <1>7 DEF Recv
<1>8. CASE Library
  <2>1. CASE RPCLost(Kind, Asked, direct)
    BY <1>1, <2>1 DEF RPCLost
  <2>2. CASE UnaryClosed(Asked)
    BY <1>1, <2>2, MovedTyped DEF UnaryClosed
  <2> QED
    BY <1>8, <2>1, <2>2 DEF Library
<1> QED
  BY <1>1, <1>2, <1>3, <1>6, <1>7, <1>8, LibraryKept

LEMMA TypeKept ==
    ASSUME IInv, [CmdsNext]_ccVars
    PROVE  CmdsTypeOK'
<1>1. CmdsTypeOK
  BY DEF IInv
<1>2. ntgt' = ntgt /\ Answers' = Answers
  BY LineKept, AnswersKept
<1> QED
  BY <1>1, <1>2, ControlTyped, TodoTyped, ToldTyped, OutTyped, LibraryTyped DEF CmdsTypeOK

(***************************************************************************)
(* Where the goroutine of Execute is.                                      *)
(***************************************************************************)
LEMMA PlaceKept ==
    ASSUME IInv, [CmdsNext]_ccVars
    PROVE  PlaceInv'
<1>1. /\ CmdsTypeOK /\ CmdsTypeOK' /\ PlaceInv /\ WellMade(cmd, C)
      /\ C' = C /\ (stage' = stage => Kind' = Kind)
  BY TypeKept, BatchFacts, LineKept DEF IInv, Kind
<1>2. CASE Dial
  BY <1>1, <1>2 DEF Dial, PlaceInv, WellMade, InCall, Kind, Mpa_Get, Unary, ServerStream,
     ClientStream, Bidi
<1>3. CASE Parse
  BY <1>1, <1>3 DEF Parse, PlaceInv, WellMade, InCall, Kind, Mpa_Get, Unary, ServerStream,
     ClientStream, Bidi
<1>4. CASE CallRefused
  BY <1>1, <1>4 DEF CallRefused, PlaceInv, WellMade, InCall, Kind, Mpa_Get, Unary,
     ServerStream, ClientStream, Bidi
<1>5. CASE CallStarts
  BY <1>1, <1>5 DEF CallStarts, PlaceInv, WellMade, InCall, Kind, Mpa_Get, Unary,
     ServerStream, ClientStream, Bidi
<1>6. CASE Upload
  BY <1>1, <1>6 DEF Upload, PlaceInv, WellMade, InCall, Kind, Mpa_Get, Unary, ServerStream,
     ClientStream, Bidi, UploadFails
<1>7. CASE Collect
  BY <1>1, <1>7 DEF Collect, PlaceInv, WellMade, InCall, Kind, Mpa_Get, Unary, ServerStream,
     ClientStream, Bidi, UploadFails
<1>8. CASE Recv
  BY <1>1, <1>8 DEF Recv, PlaceInv, WellMade, InCall, Kind, Mpa_Get, Unary, ServerStream,
     ClientStream, Bidi, textVars
<1>9. CASE RecvEnds
  BY <1>1, <1>9 DEF RecvEnds, PlaceInv, WellMade, InCall, Kind, Mpa_Get, Unary, ServerStream,
     ClientStream, Bidi, textVars
<1>10. CASE RecvLost
  BY <1>1, <1>10 DEF RecvLost, PlaceInv, WellMade, InCall, Kind, Mpa_Get, Unary, ServerStream,
     ClientStream, Bidi
<1>11. CASE Library
  BY <1>1, <1>11 DEF Library, PlaceInv, WellMade, InCall, Kind, Mpa_Get, Unary, ServerStream,
     ClientStream, Bidi, flowVars, textVars
<1>12. CASE HandleError
  BY <1>1, <1>12 DEF HandleError, PlaceInv, WellMade, InCall, Kind, Mpa_Get, Unary,
     ServerStream, ClientStream, Bidi, Advance
<1>13. CASE HandleEOF
  BY <1>1, <1>13 DEF HandleEOF, PlaceInv, WellMade, InCall, Kind, Mpa_Get, Unary,
     ServerStream, ClientStream, Bidi, Advance
<1>14. CASE HandleReply
  BY <1>1, <1>14 DEF HandleReply, PlaceInv, WellMade, InCall, Kind, Mpa_Get, Unary,
     ServerStream, ClientStream, Bidi, Advance
<1>15. CASE WriteFails
  BY <1>1, <1>15 DEF WriteFails, PlaceInv, WellMade, InCall, Kind, Mpa_Get, Unary,
     ServerStream, ClientStream, Bidi, Advance
<1>16. CASE HandleLog
  BY <1>1, <1>16 DEF HandleLog, PlaceInv, WellMade, InCall, Kind, Mpa_Get, Unary,
     ServerStream, ClientStream, Bidi, Advance
<1>17. CASE HandleAction
  BY <1>1, <1>17 DEF HandleAction, PlaceInv, WellMade, InCall, Kind, Mpa_Get, Unary,
     ServerStream, ClientStream, Bidi, Advance
<1>18. CASE UploadEnds
  BY <1>1, <1>18 DEF UploadEnds, PlaceInv, WellMade, InCall, Kind, Mpa_Get, Unary,
     ServerStream, ClientStream, Bidi, textVars
<1>19. CASE SenderFails
  BY <1>1, <1>19 DEF SenderFails, PlaceInv, WellMade, InCall, Kind, Mpa_Get, Unary,
     ServerStream, ClientStream, Bidi
<1>20. CASE SenderCloses
  BY <1>1, <1>20 DEF SenderCloses, PlaceInv, WellMade, InCall, Kind, Mpa_Get, Unary,
     ServerStream, ClientStream, Bidi
<1>21. CASE Join
  BY <1>1, <1>21 DEF Join, PlaceInv, WellMade, InCall, Kind, Mpa_Get, Unary, ServerStream,
     ClientStream, Bidi
<1>22. CASE EndCall
  BY <1>1, <1>22 DEF EndCall, PlaceInv, WellMade, InCall, Kind, Mpa_Get, Unary, ServerStream,
     ClientStream, Bidi
<1>23. CASE Return
  BY <1>1, <1>23 DEF Return, PlaceInv, WellMade, InCall, Kind, Mpa_Get, Unary, ServerStream,
     ClientStream, Bidi, textVars
<1>24. CASE Confirm
  BY <1>1, <1>24 DEF Confirm, PlaceInv, WellMade, InCall, Kind, Mpa_Get, Unary, ServerStream,
     ClientStream, Bidi, textVars
<1>25. CASE UNCHANGED ccVars
  BY <1>1, <1>25 DEF ccVars, flowVars, textVars, PlaceInv, InCall, Kind
<1> QED
  BY <1>2, <1>3, <1>4, <1>5, <1>6, <1>7, <1>8, <1>9, <1>10, <1>11, <1>12, <1>13, <1>14, <1>15,
     <1>16, <1>17, <1>18, <1>19, <1>20, <1>21, <1>22, <1>23, <1>24, <1>25 DEF CmdsNext,
     CmdsStep, ConfirmAgain, Exited

(***************************************************************************)
(* What the library does, target by target.                                *)
(***************************************************************************)
LEMMA RecvFacts ==
    ASSUME CmdsTypeOK, NEW t \in Asked, NEW k \in {"reply", "eof", "error"},
           RecvAnswers(Asked, t, k)
    PROVE  /\ ~gone /\ ~gone' /\ owed' = {} /\ link[t] = "open" /\ t \in 1..ntgt
           /\ \A x \in 1..ntgt :
                 /\ link'[x] = IF x # t \/ k = "reply" THEN link[x]
                               ELSE IF k = "eof" THEN "ok" ELSE "failed"
                 /\ nrep'[x] = IF x = t /\ k = "reply" THEN nrep[x] + 1 ELSE nrep[x]
<1>1. /\ t \in 1..ntgt /\ link \in [1..ntgt -> {"idle", "open", "answered", "ok", "failed"}]
      /\ nrep \in [1..ntgt -> Nat]
  BY BatchFacts DEF CmdsTypeOK
<1>2. ~gone /\ ~gone' /\ owed' = {} /\ link[t] = "open"
  BY DEF RecvAnswers, Open
<1>3. CASE k = "reply"
  BY <1>1, <1>2, <1>3 DEF RecvAnswers
<1>4. CASE k = "eof"
  BY <1>1, <1>2, <1>4, MovedTyped DEF RecvAnswers
<1>5. CASE k = "error"
  BY <1>1, <1>2, <1>5, MovedTyped DEF RecvAnswers
<1> QED
  BY <1>3, <1>4, <1>5

LEMMA UnaryFacts ==
    ASSUME CmdsTypeOK, NEW t \in Asked, NEW k \in {"reply", "error"},
           UnaryAnswer(Asked, Answer(t, k))
    PROVE  /\ owed' = owed /\ gone' = gone /\ t \in 1..ntgt
           /\ link[t] = "open" \/ (gone /\ k = "error" /\ link[t] = "answered")
           /\ \A x \in 1..ntgt :
                 /\ link'[x] = IF x # t THEN link[x] ELSE IF k = "error" THEN "failed"
                               ELSE IF Cardinality(Asked) = 1 THEN "ok" ELSE "answered"
                 /\ nrep'[x] = IF x = t /\ k = "reply" THEN nrep[x] + 1 ELSE nrep[x]
<1>1. /\ t \in 1..ntgt /\ link \in [1..ntgt -> {"idle", "open", "answered", "ok", "failed"}]
      /\ nrep \in [1..ntgt -> Nat]
  BY BatchFacts DEF CmdsTypeOK
<1>2. Answer(t, k).t = t /\ Answer(t, k).k = k /\ \A j : Answer(t, j).k = j
  BY DEF Answer
<1>3. /\ owed' = owed /\ gone' = gone
      /\ nrep' = [nrep EXCEPT ![t] = @ + (IF k = "reply" THEN 1 ELSE 0)]
  BY <1>2 DEF UnaryAnswer
<1>4. CASE k = "reply"
  <2>1. link[t] = "open" /\ link' = Moved({t}, IF Cardinality(Asked) = 1 THEN "ok" ELSE "answered")
    BY <1>2, <1>4 DEF UnaryAnswer, Open
  <2> QED
    BY <1>1, <1>3, <1>4, <2>1, MovedTyped
<1>5. CASE k = "error"
  <2>1. /\ link' = Moved({t}, "failed")
        /\ link[t] = "open" \/ (gone /\ link[t] = "answered")
    BY <1>2, <1>5 DEF UnaryAnswer, Open, Unclosed
  <2> QED
    BY <1>1, <1>3, <1>5, <2>1, MovedTyped
<1> QED
  BY <1>4, <1>5

\* A call is begun by CallStarts only.
LEMMA InCallKept ==
    ASSUME [CmdsNext]_ccVars, ~CallStarts, InCall'
    PROVE  /\ InCall /\ UNCHANGED <<at, stage>> /\ Kind' = Kind /\ Asked' = Asked /\ Batch' = Batch
           /\ Strict' = Strict /\ Naming' = Naming
<1>1. InCall /\ UNCHANGED <<at, stage>>
  BY DEF CmdsNext, CmdsStep, Confirm, ConfirmAgain, Exited, ccVars, flowVars, Dial, Parse,
         CallRefused, Upload, UploadFails, Collect, Recv, RecvEnds, RecvLost, Library,
         HandleError, HandleEOF, HandleReply, WriteFails, HandleLog, HandleAction,
         UploadEnds, SenderFails, SenderCloses, Join, EndCall, Return, InCall
<1> QED
  BY <1>1, CallKept

LEMMA StartFacts ==
    ASSUME CmdsTypeOK, CallStarts
    PROVE  /\ UNCHANGED <<at, stage>> /\ owed' \subseteq Asked /\ ~gone'
           /\ Kind = Unary => owed' = {}
           /\ \A x \in 1..ntgt :
                 /\ link'[x] = IF x \in owed' THEN "failed"
                               ELSE IF x \in Asked THEN "open" ELSE link[x]
                 /\ nrep'[x] = IF x \in Asked THEN 0 ELSE nrep[x]
<1>1. PICK R \in SUBSET Asked :
          /\ R # {} => Kind # Unary /\ ~direct
          /\ link' = [t \in DOMAIN link |-> IF t \in R THEN "failed"
                                            ELSE IF t \in Asked THEN "open" ELSE link[t]]
          /\ owed' = R /\ gone' = FALSE
          /\ nrep' = [t \in DOMAIN nrep |-> IF t \in Asked THEN 0 ELSE nrep[t]]
  BY DEF CallStarts, CallMade
<1>2. DOMAIN link = 1..ntgt /\ DOMAIN nrep = 1..ntgt
  BY DEF CmdsTypeOK
<1> QED
  BY <1>1, <1>2 DEF CallStarts

\* The invariant of the library's variables.
LEMMA LinkKept ==
    ASSUME IInv, [CmdsNext]_ccVars
    PROVE  LinkInv'
<1> SUFFICES ASSUME InCall' PROVE LinkInv'
  BY DEF LinkInv
<1>1. /\ CmdsTypeOK /\ Asked \subseteq 1..ntgt /\ Kind \in Kinds
      /\ nrep \in [1..ntgt -> Nat] /\ gone \in BOOLEAN
  BY BatchFacts DEF IInv, CmdsTypeOK, Kind, Kinds, WellMade, Mpa_Get
<1>2. CASE CallStarts
  <2>1. Asked' = Asked /\ Kind' = Kind
    BY <1>1, <1>2, StartFacts, CallKept
  <2>2. \A t \in Asked : /\ link'[t] = IF t \in owed' THEN "failed" ELSE "open"
                         /\ nrep'[t] = 0
    <3>1. \A x \in 1..ntgt :
             /\ link'[x] = IF x \in owed' THEN "failed"
                           ELSE IF x \in Asked THEN "open" ELSE link[x]
             /\ nrep'[x] = IF x \in Asked THEN 0 ELSE nrep[x]
      BY <1>1, <1>2, StartFacts
    <3> QED
      BY <1>1, <3>1
  <2>3. owed' \subseteq Asked /\ ~gone' /\ (Kind = Unary => owed' = {})
    BY <1>1, <1>2, StartFacts
  <2>4. owed' \subseteq {t \in Asked : link'[t] = "failed"}
    BY <2>2, <2>3
  <2>5. \A t \in Asked : /\ link'[t] \in {"failed", "open"} /\ nrep'[t] <= 1
                         /\ nrep'[t] = IF link'[t] = "open" THEN 0 ELSE nrep'[t]
    BY <2>2
  <2>6. \A t \in Asked \ owed' : link'[t] = "open"
    BY <2>2
  <2> QED
    BY <2>1, <2>3, <2>4, <2>5, <2>6 DEF LinkInv
<1>3. CASE ~CallStarts
  <2>1. InCall /\ Kind' = Kind /\ Asked' = Asked /\ LinkInv
    BY <1>3, InCallKept DEF IInv
  <2>2. ASSUME NEW t \in Asked, NEW k \in {"reply", "eof", "error"}, RecvAnswers(Asked, t, k),
               Kind # Unary
        PROVE  LinkInv'
    BY <1>1, <2>1, <2>2, RecvFacts DEF LinkInv
  <2>3. ASSUME NEW t \in Asked, NEW k \in {"reply", "error"}, UnaryAnswer(Asked, Answer(t, k)),
               Kind = Unary
        PROVE  LinkInv'
    BY <1>1, <2>1, <2>3, UnaryFacts DEF LinkInv, Unary
  <2>4. CASE Collect
    <3>1. Kind # Unary
      BY <2>4 DEF Collect, IInv, PlaceInv, Unary, ClientStream
    <3>2. CASE UNCHANGED omVars
      BY <2>1, <3>2 DEF omVars, LinkInv, Open
    <3> QED
      BY <2>2, <2>4, <3>1, <3>2 DEF Collect
  <2>5. CASE Recv
    BY <2>2, <2>3, <2>5 DEF Recv
  <2>6. CASE Library
    <3>1. CASE RPCLost(Kind, Asked, direct)
      BY <1>1, <2>1, <3>1 DEF RPCLost, LinkInv, Open
    <3>2. CASE Kind = Unary /\ UnaryClosed(Asked)
      <4>1. PICK t \in Asked : link[t] = "answered" /\ link' = Moved({t}, "ok")
        BY <3>2 DEF UnaryClosed
      <4>2. \A x \in 1..ntgt : link'[x] = IF x = t THEN "ok" ELSE link[x]
        BY <1>1, <4>1, MovedTyped
      <4>3. UNCHANGED <<nrep, owed, gone>>
        BY <3>2 DEF UnaryClosed
      <4> QED
        BY <1>1, <2>1, <3>2, <4>1, <4>2, <4>3 DEF LinkInv
    <3> QED
      BY <2>6, <3>1, <3>2 DEF Library
  <2>7. CASE UNCHANGED <<link, nrep, owed, gone>>
    BY <2>1, <2>7 DEF LinkInv, Open
  <2>8. ~CallRefused
    BY DEF CallRefused, InCall
  <2> QED
    BY <1>3, <2>4, <2>5, <2>6, <2>7, <2>8, LibraryKept
<1> QED
  BY <1>2, <1>3

(***************************************************************************)
(* The answers in hand.                                                    *)
(***************************************************************************)

\* The loop over the answers: one is taken off, or all are dropped on the way to the end.
RangeStep ==
    HandleError \/ HandleEOF \/ HandleReply \/ WriteFails \/ HandleLog \/ HandleAction

LEMMA RangeFacts ==
    ASSUME IInv, RangeStep
    PROVE  /\ pc = "range" /\ todo # <<>> /\ UNCHANGED <<at, stage, link, nrep, owed, gone>>
           /\ \/ todo' = <<>> /\ pc' = "end"
              \/ todo' = Tail(todo) /\ pc' = "end" /\ Len(todo) = 1 /\ Kind = Unary
              \/ todo' = Tail(todo) /\ pc' = "recv" /\ Len(todo) = 1 /\ Kind # ClientStream
              \/ todo' = Tail(todo) /\ pc' = "range" /\ (Len(todo) # 1 \/ Kind = ClientStream)
<1>1. pc = "range" /\ todo # <<>> /\ UNCHANGED <<at, stage, link, nrep, owed, gone>>
  BY DEF RangeStep, HandleError, HandleEOF, HandleReply, WriteFails, HandleLog, HandleAction,
         omVars
<1>2. (todo' = <<>> /\ pc' = "end") \/ (todo' = Tail(todo) /\ Advance)
  BY DEF RangeStep, HandleError, HandleEOF, HandleReply, WriteFails, HandleLog, HandleAction
<1>3. C.reads = "one" => Kind = Unary /\ Len(todo) = 1
  BY <1>1, BatchFacts DEF IInv, PlaceInv, TodoInv, Kind, Mpa_Get, WellMade
<1> QED
  BY <1>1, <1>2, <1>3 DEF Advance

\* Steps that are neither in that loop nor a Recv, and not one of the sending goroutine or
\* of the library: they start and end where there are no answers.
LEMMA OtherFacts ==
    ASSUME IInv, [CmdsNext]_ccVars, ~RangeStep, ~Collect, ~Recv
    PROVE  /\ todo' = todo
           /\ \/ UNCHANGED <<pc, at, stage>>
              \/ todo = <<>> /\ pc' # "range"
<1>1. \/ UNCHANGED <<pc, at, stage, todo>>
      \/ todo' = todo /\ pc' # "range" /\ pc \notin {"range", "collect"}
      \/ UploadEnds
  BY DEF CmdsNext, CmdsStep, Confirm, ConfirmAgain, Exited, ccVars, flowVars, Dial, Parse,
         CallRefused, CallStarts, Upload, UploadFails, RecvEnds, RecvLost, Library, RangeStep,
         SenderFails, SenderCloses, Join, EndCall, Return
<1> QED
  BY <1>1 DEF UploadEnds, IInv, TodoInv

LEMMA TodoKept ==
    ASSUME IInv, [CmdsNext]_ccVars
    PROVE  TodoInv'
<1>1. /\ CmdsTypeOK /\ CmdsTypeOK' /\ Asked \subseteq 1..ntgt
      /\ PlaceInv /\ PlaceInv' /\ LinkInv /\ TodoInv
      /\ at' = at => Asked' = Asked
      /\ at' = at /\ stage' = stage => Kind' = Kind
  BY TypeKept, PlaceKept, BatchFacts, CallKept DEF IInv
<1>2. /\ todo \in Seq(Answers) /\ todo' \in Seq(Answers)
      /\ \A i \in DOMAIN todo : todo[i].t \in 1..ntgt
  <2>1. todo \in Seq(Answers) /\ todo' \in Seq(Answers)
    BY <1>1, TodoTyped DEF CmdsTypeOK
  <2>2. \A i \in DOMAIN todo : todo[i] \in Answers
    BY <2>1
  <2> QED
    BY <2>1, <2>2 DEF Answers
<1>3. CASE RangeStep
  <2>1. CASE todo' = <<>> /\ pc' = "end"
    BY <2>1 DEF TodoInv
  <2>2. CASE todo' = Tail(todo)
    <3>1. /\ UNCHANGED <<at, stage, link, nrep, owed, gone>> /\ pc = "range"
          /\ todo # <<>> /\ Len(todo) \in Nat \ {0} /\ Len(todo') = Len(todo) - 1
          /\ DOMAIN todo = 1..Len(todo) /\ DOMAIN todo' = 1..Len(todo) - 1
          /\ \A i \in 1..Len(todo) - 1 : todo'[i] = todo[i + 1]
      BY <1>1, <1>2, <1>3, <2>2, RangeFacts, SlotFacts
    <3>2. /\ pc' \in {"end", "recv"} => todo' = <<>>
          /\ pc' \in {"end", "recv", "range"}
          /\ pc' = "range" /\ Kind # ClientStream => Len(todo) # 1 /\ owed' = {}
      BY <1>1, <1>2, <1>3, <2>2, <3>1, RangeFacts DEF TodoInv
    <3>3. pc' = "range" /\ Kind # ClientStream => todo' # <<>> /\ Kind # Unary
      BY <1>1, <1>2, <3>1, <3>2 DEF TodoInv, Unary, ClientStream
    <3>4. \A i \in 1..Len(todo) - 1 : i + 1 \in DOMAIN todo /\ (i < Len(todo') => i + 1 < Len(todo))
      BY <3>1
    <3>5. ASSUME NEW i \in DOMAIN todo'
          PROVE  /\ todo'[i] = todo[i + 1] /\ i + 1 \in DOMAIN todo
                 /\ i < Len(todo') => i + 1 < Len(todo)
      BY <3>1, <3>4, <3>5
    <3>6. Asked' = Asked /\ Kind' = Kind
      BY <1>1, <3>1
    <3>7. /\ pc' \notin {"collect", "range"} => todo' = <<>>
          /\ pc' = "range" /\ Kind' # ClientStream => todo' # <<>> /\ owed' = {}
          /\ pc' = "range" /\ Kind' = Unary => Len(todo') = 1
      BY <3>2, <3>3, <3>6 DEF Unary, ClientStream
    <3>8. ASSUME NEW i \in DOMAIN todo'
          PROVE  /\ todo'[i].t \in Asked'
                 /\ todo'[i].k = "error" => link'[todo'[i].t] = "failed"
                 /\ todo'[i].k = "eof" => link'[todo'[i].t] = "ok" /\ Kind' # Unary
                 /\ Kind' = Unary /\ todo'[i].k = "reply" => link'[todo'[i].t] # "failed"
                 /\ Kind' # ClientStream =>
                       /\ i < Len(todo') => todo'[i].k = "error"
                       /\ todo'[i].k = "reply" =>
                             todo'[i].n = nrep'[todo'[i].t] /\ todo'[i].n > 0
                       /\ todo'[i].k = "reply" /\ Kind' # Unary => link'[todo'[i].t] = "open"
      <4>1. /\ todo'[i] = todo[i + 1] /\ i + 1 \in DOMAIN todo
            /\ i < Len(todo') => i + 1 < Len(todo)
        BY <3>5, <3>8
      <4> QED
        BY <1>1, <3>1, <3>6, <4>1 DEF TodoInv
    <3> QED
      BY <3>7, <3>8 DEF TodoInv
  <2> QED
    BY <1>3, <2>1, <2>2, RangeFacts
<1>4. CASE Recv
  <2>1. /\ pc' = "range" /\ UNCHANGED <<at, stage>> /\ Kind' = Kind /\ Asked' = Asked
        /\ Kind # ClientStream /\ owed \subseteq {t \in Asked : link[t] = "failed"}
        /\ Kind = Unary => owed = {}
    BY <1>1, <1>4 DEF Recv, PlaceInv, LinkInv, InCall
  <2>2. CASE Kind = Unary
    <3>1. PICK t \in Asked, k \in {"reply", "error"} :
              UnaryAnswer(Asked, Answer(t, k)) /\ todo' = <<Answer(t, k)>>
      BY <1>4, <2>2 DEF Recv
    <3>2. todo'[1] = Answer(t, k) /\ Len(todo') = 1 /\ DOMAIN todo' = 1..1 /\ todo' # <<>>
      BY <3>1
    <3>3. Answer(t, k).t = t /\ Answer(t, k).k = k /\ (k = "reply" => Answer(t, k).n = nrep[t] + 1)
      BY DEF Answer
    <3>4. /\ owed' = owed /\ t \in 1..ntgt /\ (k = "error" => link'[t] = "failed")
          /\ k = "reply" => link'[t] # "failed" /\ nrep'[t] = nrep[t] + 1
      BY <1>1, <3>1, UnaryFacts
    <3>5. nrep[t] \in Nat /\ nrep[t] + 1 > 0
      <4>1. nrep[t] \in Nat
        BY <1>1, <3>4 DEF CmdsTypeOK
      <4> QED
        BY <4>1
    <3> QED
      BY <2>1, <2>2, <3>2, <3>3, <3>4, <3>5 DEF TodoInv
  <2>3. CASE Kind # Unary
    <3>1. PICK t \in Asked, k \in {"reply", "eof", "error"} :
              RecvAnswers(Asked, t, k) /\ todo' = Received(t, k)
      BY <1>4, <2>3 DEF Recv
    <3>2. /\ Len(todo') \in Nat \ {0} /\ DOMAIN todo' = 1..Len(todo') /\ todo' # <<>>
          /\ todo'[Len(todo')].t = t /\ todo'[Len(todo')].k = k
          /\ k = "reply" => todo'[Len(todo')].n = nrep[t] + 1
          /\ \A i \in 1..Len(todo') : i < Len(todo') => todo'[i].k = "error" /\ todo'[i].t \in owed
      <4>1. owed \subseteq Asked
        BY <2>1
      <4> QED
        BY <1>1, <1>2, <3>1, <4>1, ReceivedFacts
    <3>3. /\ owed' = {} /\ link[t] = "open" /\ t \in 1..ntgt
          /\ k = "error" => link'[t] = "failed"
          /\ k = "eof" => link'[t] = "ok"
          /\ k = "reply" => link'[t] = "open" /\ nrep'[t] = nrep[t] + 1
          /\ \A x \in owed : link'[x] = "failed" /\ x \in Asked
      BY <1>1, <2>1, <3>1, RecvFacts
    <3>4. \A i \in 1..Len(todo') : i = Len(todo') \/ i < Len(todo')
      <4>1. Len(todo') \in Nat
        BY <3>2
      <4> QED
        BY <4>1
    <3>5. nrep[t] \in Nat /\ nrep[t] + 1 > 0
      <4>1. nrep[t] \in Nat
        BY <1>1, <3>3 DEF CmdsTypeOK
      <4> QED
        BY <4>1
    <3> QED
      BY <2>1, <2>3, <3>2, <3>3, <3>4, <3>5 DEF TodoInv
  <2> QED
    BY <2>2, <2>3
<1>5. CASE Collect
  <2>1. /\ pc = "collect" /\ UNCHANGED <<at, stage>> /\ Kind' = Kind /\ Asked' = Asked
        /\ Kind = ClientStream /\ owed \subseteq {t \in Asked : link[t] = "failed"}
    BY <1>1, <1>5 DEF Collect, PlaceInv, LinkInv, InCall
  <2>2. CASE \E t \in Asked, k \in {"reply", "eof", "error"} :
                 RecvAnswers(Asked, t, k) /\ todo' = todo \o Received(t, k) /\ pc' = pc
    <3>1. PICK t \in Asked, k \in {"reply", "eof", "error"} :
              RecvAnswers(Asked, t, k) /\ todo' = todo \o Received(t, k) /\ pc' = pc
      BY <2>2
    <3> DEFINE s == Received(t, k)
    <3>2. /\ s \in Seq(Answers) /\ Len(s) \in Nat \ {0}
          /\ s[Len(s)].t = t /\ s[Len(s)].k = k
          /\ \A i \in 1..Len(s) : i < Len(s) => s[i].k = "error" /\ s[i].t \in owed
      <4>1. owed \subseteq Asked
        BY <2>1
      <4> QED
        BY <1>1, <3>1, <4>1, ReceivedFacts
    <3>3. /\ link[t] = "open" /\ t \in 1..ntgt
          /\ k = "error" => link'[t] = "failed"
          /\ k = "eof" => link'[t] = "ok"
          /\ \A x \in 1..ntgt : x # t => link'[x] = link[x]
          /\ \A x \in owed : link'[x] = "failed" /\ x \in Asked
      BY <1>1, <2>1, <3>1, RecvFacts
    <3> HIDE DEF s
    <3>4. \A i \in DOMAIN todo' : (i \in DOMAIN todo /\ todo'[i] = todo[i])
                                  \/ \E j \in 1..Len(s) : todo'[i] = s[j]
      BY <1>2, <3>1, <3>2 DEF s
    <3>5. \A j \in 1..Len(s) : /\ s[j].t \in Asked
                               /\ s[j].k = "error" => link'[s[j].t] = "failed"
                               /\ s[j].k = "eof" => link'[s[j].t] = "ok"
      <4>1. \A j \in 1..Len(s) : j = Len(s) \/ j < Len(s)
        BY <3>2
      <4> QED
        BY <3>2, <3>3, <4>1
    <3>6. \A i \in DOMAIN todo : /\ todo[i].t \in Asked
                                 /\ todo[i].k = "error" => link'[todo[i].t] = "failed"
                                 /\ todo[i].k = "eof" => link'[todo[i].t] = "ok"
      BY <1>1, <1>2, <3>3 DEF TodoInv
    <3> QED
      BY <2>1, <3>1, <3>4, <3>5, <3>6 DEF TodoInv, Unary, ClientStream
  <2>3. CASE pc' = "range" /\ todo' \in {todo, <<>>} /\ UNCHANGED omVars
    BY <1>1, <2>1, <2>3 DEF TodoInv, omVars, Unary, ClientStream
  <2>4. CASE pc' = "end" /\ todo' = <<>>
    BY <2>4 DEF TodoInv
  <2> QED
    BY <1>5, <2>2, <2>3, <2>4 DEF Collect, UploadFails
<1>6. CASE ~RangeStep /\ ~Collect /\ ~Recv
  <2>1. CASE todo = <<>> /\ pc' # "range"
    BY <1>6, <2>1, OtherFacts DEF TodoInv
  <2>2. CASE UNCHANGED <<pc, at, stage>>
    <3>1. todo' = todo /\ Kind' = Kind /\ Asked' = Asked
      BY <1>1, <1>6, <2>2, OtherFacts
    <3>2. CASE Library
      <4>1. CASE RPCLost(Kind, Asked, direct)
        BY <1>1, <2>2, <3>1, <4>1 DEF RPCLost, TodoInv
      <4>2. CASE Kind = Unary /\ UnaryClosed(Asked)
        <5>1. PICK t \in Asked : link[t] = "answered" /\ link' = Moved({t}, "ok")
          BY <4>2 DEF UnaryClosed
        <5>2. \A x \in 1..ntgt : link'[x] = IF x = t THEN "ok" ELSE link[x]
          BY <1>1, <5>1, MovedTyped
        <5>3. UNCHANGED <<nrep, owed, gone>>
          BY <4>2 DEF UnaryClosed
        <5> QED
          BY <1>1, <1>2, <2>2, <3>1, <4>2, <5>1, <5>2, <5>3 DEF TodoInv
      <4> QED
        BY <3>2, <4>1, <4>2 DEF Library
    <3>3. CASE UNCHANGED <<link, nrep, owed, gone>>
      BY <1>1, <2>2, <3>1, <3>3 DEF TodoInv
    <3>4. CASE CallRefused \/ CallStarts
      BY <2>2, <3>4 DEF CallRefused, CallStarts
    <3> QED
      BY <1>6, <3>2, <3>3, <3>4, LibraryKept
  <2> QED
    BY <1>6, <2>1, <2>2, OtherFacts
<1> QED
  BY <1>3, <1>4, <1>5, <1>6

(***************************************************************************)
(* Uploads.                                                                *)
(***************************************************************************)
LEMMA UploadKept ==
    ASSUME IInv, [CmdsNext]_ccVars
    PROVE  UploadInv'
<1>1. /\ CmdsTypeOK /\ Asked \subseteq 1..ntgt /\ at \in Asked
      /\ PlaceInv /\ PlaceInv' /\ LinkInv /\ TodoInv /\ UploadInv
      /\ at' = at => Asked' = Asked
      /\ at' = at /\ stage' = stage => Kind' = Kind
      /\ nrep \in [1..ntgt -> Nat]
  BY PlaceKept, BatchFacts, CallKept DEF IInv, CmdsTypeOK
<1>2. CASE CallStarts
  <2>1. /\ Asked' = Asked /\ Kind' = Kind /\ pc' \notin {"collect", "range"}
        /\ \A x \in Asked \ owed' : link'[x] = "open"
    BY <1>1, <1>2, StartFacts DEF CallStarts
  <2> QED
    BY <2>1 DEF UploadInv
<1>3. CASE Upload
  <2>1. /\ UNCHANGED <<at, stage, todo, link, nrep, owed>> /\ Asked' = Asked /\ Kind' = Kind
        /\ pc = "upload" /\ pc' \in {"collect", "end"} /\ todo = <<>>
    BY <1>1, <1>3 DEF Upload, UploadFails, TodoInv, omVars
  <2> QED
    BY <1>1, <2>1 DEF UploadInv, Answered
<1>4. CASE Collect
  <2>1. /\ pc = "collect" /\ UNCHANGED <<at, stage>> /\ Kind' = Kind /\ Asked' = Asked
        /\ Kind = ClientStream /\ owed \subseteq {t \in Asked : link[t] = "failed"}
    BY <1>1, <1>4 DEF Collect, PlaceInv, LinkInv, InCall
  <2>2. CASE \E t \in Asked, k \in {"reply", "eof", "error"} :
                 /\ k = "eof" => nrep[t] = 1
                 /\ k = "reply" => nrep[t] = 0
                 /\ RecvAnswers(Asked, t, k) /\ todo' = todo \o Received(t, k) /\ pc' = pc
    <3>1. PICK t \in Asked, k \in {"reply", "eof", "error"} :
              /\ k = "eof" => nrep[t] = 1
              /\ k = "reply" => nrep[t] = 0
              /\ RecvAnswers(Asked, t, k) /\ todo' = todo \o Received(t, k) /\ pc' = pc
      BY <2>2
    <3> DEFINE s == Received(t, k)
    <3>2. /\ s \in Seq(Answers) /\ Len(s) \in Nat \ {0} /\ s[Len(s)].t = t
          /\ \A i \in 1..Len(s) : i < Len(s) => s[i].t \in owed
          /\ \A r \in owed : \E i \in 1..Len(s) : s[i].t = r
      <4>1. owed \subseteq Asked
        BY <2>1
      <4>2. s = Received(t, k)
        OBVIOUS
      <4> HIDE DEF s
      <4>3. /\ s \in Seq(Answers) /\ Len(s) \in Nat \ {0} /\ s[Len(s)].t = t
            /\ \A i \in 1..Len(s) : i < Len(s) => s[i].t \in owed
            /\ owed \subseteq Errors(s)
        <5>1. /\ s \in Seq(Answers) /\ Len(s) \in Nat \ {0} /\ s[Len(s)].t = t
              /\ \A i \in 1..Len(s) : i < Len(s) => s[i].k = "error" /\ s[i].t \in owed
              /\ owed \subseteq Errors(s)
          <6>1. CmdsTypeOK
            BY <1>1
          <6> QED
            BY <4>1, <4>2, <6>1, ReceivedFacts
        <5> QED
          BY <5>1
      <4>4. DOMAIN s = 1..Len(s)
        BY <4>3
      <4> QED
        BY <4>3, <4>4 DEF Errors
    <3> HIDE DEF s
    <3>3. Answered' = Answered \cup owed \cup {t}
      <4>1. todo \in Seq(Answers) /\ todo' = todo \o s
        BY <1>1, <3>1 DEF CmdsTypeOK, s
      <4>2. /\ \A i \in DOMAIN todo' : \/ i \in DOMAIN todo /\ todo'[i] = todo[i]
                                       \/ \E j \in 1..Len(s) : todo'[i] = s[j]
            /\ \A i \in DOMAIN todo : i \in DOMAIN todo' /\ todo'[i] = todo[i]
            /\ \A j \in 1..Len(s) : \E i \in DOMAIN todo' : todo'[i] = s[j]
        <5>1. /\ Len(todo) \in Nat /\ Len(s) \in Nat /\ DOMAIN todo = 1..Len(todo)
              /\ DOMAIN todo' = 1..Len(todo) + Len(s)
              /\ \A i \in 1..Len(todo) : todo'[i] = todo[i]
              /\ \A j \in 1..Len(s) : todo'[Len(todo) + j] = s[j]
          BY <3>2, <4>1
        <5>2. \A i \in 1..Len(todo) + Len(s) : i \in 1..Len(todo) \/ i - Len(todo) \in 1..Len(s)
          BY <5>1
        <5>3. \A j \in 1..Len(s) : Len(todo) + j \in 1..Len(todo) + Len(s)
          BY <5>1
        <5>4. \A i \in 1..Len(todo) + Len(s) : Len(todo) + (i - Len(todo)) = i
          BY <5>1
        <5>5. \A i \in DOMAIN todo' : \/ i \in DOMAIN todo /\ todo'[i] = todo[i]
                                      \/ \E j \in 1..Len(s) : todo'[i] = s[j]
          BY <5>1, <5>2, <5>4
        <5>6. \A i \in DOMAIN todo : i \in DOMAIN todo' /\ todo'[i] = todo[i]
          BY <5>1
        <5>7. \A j \in 1..Len(s) : \E i \in DOMAIN todo' : todo'[i] = s[j]
          BY <5>1, <5>3
        <5> QED
          BY <5>5, <5>6, <5>7
      <4>3. \A j \in 1..Len(s) : s[j].t \in owed \cup {t}
        <5>1. \A j \in 1..Len(s) : j = Len(s) \/ j < Len(s)
          BY <3>2
        <5> QED
          BY <3>2, <5>1
      <4>4. Len(s) \in 1..Len(s)
        BY <3>2
      <4>5. Answered' \subseteq Answered \cup owed \cup {t}
        BY <4>2, <4>3 DEF Answered
      <4>6. Answered \cup owed \cup {t} \subseteq Answered'
        BY <3>2, <4>2, <4>4 DEF Answered
      <4> QED
        BY <4>5, <4>6
    <3>4. /\ owed' = {} /\ link[t] = "open" /\ t \in 1..ntgt
          /\ \A x \in 1..ntgt : x # t => link'[x] = link[x] /\ nrep'[x] = nrep[x]
          /\ link'[t] = "open" => nrep'[t] = 1
      BY <1>1, <3>1, RecvFacts
    <3>5. \A x \in Asked \ owed' : link'[x] # "open" => x \in Answered'
      BY <1>1, <2>1, <3>3, <3>4 DEF UploadInv
    <3>6. \A x \in Answered' : link'[x] = "open" => nrep'[x] = 1
      <4>1. Answered \subseteq Asked
        BY <1>1 DEF TodoInv, Answered
      <4> QED
        BY <1>1, <2>1, <3>3, <3>4, <4>1 DEF UploadInv
    <3> QED
      BY <2>1, <3>1, <3>4, <3>5, <3>6 DEF UploadInv
  <2>3. CASE (Answered = Asked \/ RecvEOF(Asked)) /\ pc' = "range" /\ UNCHANGED omVars
    <3>1. /\ owed # {} => Open(Asked) = {}
          /\ \A t \in Open(Asked) : nrep[t] = 1
      BY <1>1, <2>1, <2>3 DEF UploadInv, RecvEOF, Open, Answered
    <3> QED
      BY <2>1, <2>3, <3>1 DEF UploadInv, omVars, Open
  <2>4. CASE pc' = "end"
    BY <2>4 DEF UploadInv
  <2> QED
    BY <1>4, <2>2, <2>3, <2>4 DEF Collect, UploadFails
<1>5. CASE RangeStep
  <2>1. /\ pc = "range" /\ UNCHANGED <<at, stage, link, nrep, owed, gone>>
        /\ pc' \in {"range", "recv", "end"}
        /\ Kind' = Kind /\ Asked' = Asked
    BY <1>1, <1>5, RangeFacts
  <2> QED
    BY <1>1, <2>1 DEF UploadInv, Open
<1>6. CASE Recv
  <2>1. Kind' # ClientStream
    BY <1>1, <1>6 DEF Recv, PlaceInv
  <2> QED
    BY <2>1 DEF UploadInv
<1>7. CASE ~CallStarts /\ ~Upload /\ ~Collect /\ ~RangeStep /\ ~Recv
  <2>1. pc' \notin {"upload", "collect", "range"} \/ UNCHANGED <<pc, at, stage, todo>>
    BY <1>7
       DEF CmdsNext, CmdsStep, Confirm, ConfirmAgain, Exited, ccVars, flowVars, Dial, Parse,
           CallRefused, RecvEnds, RecvLost, Library, RangeStep, UploadEnds, SenderFails,
           SenderCloses, Join, EndCall, Return
  <2>2. CASE pc' \notin {"upload", "collect", "range"}
    BY <2>2 DEF UploadInv
  <2>3. CASE UNCHANGED <<pc, at, stage, todo>>
    <3>1. Kind = ClientStream => UNCHANGED <<link, nrep, owed>>
      <4>1. CASE CallRefused
        BY <2>3, <4>1 DEF CallRefused
      <4>2. CASE Library
        BY <4>2 DEF Library, RPCLost, Unary, ClientStream
      <4> QED
        BY <1>7, <4>1, <4>2, LibraryKept
    <3> QED
      BY <1>1, <2>3, <3>1 DEF UploadInv, Answered, Open
  <2> QED
    BY <2>1, <2>2, <2>3
<1> QED
  BY <1>2, <1>3, <1>4, <1>5, <1>6, <1>7

(***************************************************************************)
(* Failures: what has been told and marked stays so.                       *)
(***************************************************************************)
LEMMA MarksKept ==
    ASSUME [CmdsNext]_ccVars
    PROVE  stderr \subseteq stderr' /\ mishap \subseteq mishap'
<1>1. stderr \subseteq stderr'
  BY DEF CmdsNext, CmdsStep, Confirm, ConfirmAgain, Exited, ccVars, textVars, Dial, Parse,
         CallRefused, CallStarts, Upload, UploadFails, Collect, Recv, RecvEnds, RecvLost,
         Library, HandleError, HandleEOF, HandleReply, WriteFails, HandleLog, HandleAction,
         UploadEnds, SenderFails, SenderCloses, Join, EndCall, Return
<1>2. mishap \subseteq mishap'
  BY DEF CmdsNext, CmdsStep, Confirm, ConfirmAgain, Exited, ccVars, runVars, Dial, Parse,
         CallRefused, CallStarts, Upload, UploadFails, Collect, Recv, RecvEnds, RecvLost,
         Library, HandleError, HandleEOF, HandleReply, WriteFails, HandleLog, HandleAction,
         UploadEnds, SenderFails, SenderCloses, Join, EndCall, Return
<1> QED
  BY <1>1, <1>2

LEMMA NamedKept ==
    ASSUME CmdsTypeOK, [CmdsNext]_ccVars, ~EndCall, NEW t \in 1..ntgt, Named(t)
    PROVE  Named(t)'
BY ToldTyped, MarksKept, LineKept DEF Named

\* A status that is a failure is made a success by the status of a sender or of a log only.
LEMMA RetKept ==
    ASSUME IInv, [CmdsNext]_ccVars, Strict, ret # Ok, ~Parse
    PROVE  ret' # Ok
<1>1. ~C.logs /\ C.join = "none"
  BY BatchFacts DEF IInv, Strict, WellMade
<1>2. ~HandleLog /\ ~Join
  BY <1>1 DEF IInv, PlaceInv, HandleLog, Join
<1> QED
  BY <1>2
     DEF CmdsNext, CmdsStep, Confirm, ConfirmAgain, Exited, ccVars, flowVars, Dial,
         CallRefused, CallStarts, Upload, UploadFails, Collect, Recv, RecvEnds, RecvLost,
         Library, HandleError, HandleEOF, HandleReply, WriteFails, HandleAction, UploadEnds,
         SenderFails, SenderCloses, EndCall, Return, Ok, Failed

LEMMA ClassKept ==
    ASSUME [CmdsNext]_ccVars
    PROVE  Strict' = Strict /\ Naming' = Naming
BY LineKept DEF Strict, Naming, AllRead

LEMMA SettledKept ==
    ASSUME IInv, [CmdsNext]_ccVars, ~EndCall, ~Parse, NEW t \in 1..ntgt, Settled(t)
    PROVE  Settled(t)'
BY RetKept, NamedKept, ClassKept DEF Settled, IInv

LEMMA PendingErrors ==
    /\ \A t : Pending(t, "error") <=> t \in Errors(todo)
    /\ \A t : Pending(t, "error")' <=> t \in Errors(todo')
BY DEF Pending, Errors

\* An error at the head of the answers is dealt with; a command that then stops tells of it
\* on stderr.
LEMMA ErrorSettled ==
    ASSUME IInv, [CmdsNext]_ccVars, HandleError, NEW h, h = Head(todo).t
    PROVE  /\ Settled(h)'
           /\ C.stops => \A t \in 1..ntgt : Settled(t)'
<1>1. CmdsTypeOK /\ PlaceInv /\ WellMade(cmd, C) /\ todo # <<>> /\ ntgt' = ntgt
  BY BatchFacts, LineKept DEF IInv, HandleError
<1>2. Slot(Index(Head(todo).t)) = Head(todo).t /\ Head(todo).t \in 1..ntgt
  BY <1>1, SlotFacts
<1>3. Strict => ret' = Failed
  BY <1>1 DEF HandleError, Strict, WellMade, PlaceInv, CmdsTypeOK
<1>4. Naming => \/ told' = Tell({Head(todo).t}, "target")
                \/ stderr' # {}
  BY <1>1, <1>2 DEF HandleError, Naming, WellMade
<1>5. Naming /\ C.stops => stderr' # {}
  BY <1>1 DEF HandleError, Naming, WellMade
<1>6. Tell({Head(todo).t}, "target")[Head(todo).t] # {}
  BY <1>1, <1>2, TellFacts DEF Lines
<1> QED
  BY <1>3, <1>4, <1>5, <1>6, ClassKept DEF Settled, Named, Ok, Failed

LEMMA RefusedSettled ==
    ASSUME IInv, [CmdsNext]_ccVars, NEW t \in Asked,
           CallRefused \/ (Upload /\ pc' = "end") \/ (Collect /\ pc' = "end")
    PROVE  Settled(t)'
<1>1. CmdsTypeOK /\ WellMade(cmd, C) /\ t \in Batch /\ t \in 1..ntgt
  BY BatchFacts DEF IInv
<1>2. ret' = Failed
  BY DEF CallRefused, Upload, UploadFails, Collect
<1>3. Naming => \/ told' = Tell(Batch, "call") \/ told' = Tell(Batch, "send")
                \/ told' = Tell(Batch, "lost") \/ stderr' # {}
  BY <1>1 DEF CallRefused, CallTold, Upload, UploadFails, Collect, Naming, WellMade
<1>4. Naming => told'[t] # {} \/ stderr' # {}
  BY <1>1, <1>3, TellFacts DEF Lines
<1> QED
  BY <1>2, <1>4, ClassKept DEF Settled, Named, Ok, Failed

LEMMA LostSettled ==
    ASSUME IInv, [CmdsNext]_ccVars, RecvLost, NEW t \in Asked, Fell(t)', link' = link
    PROVE  Settled(t)'
<1>1. CmdsTypeOK /\ WellMade(cmd, C) /\ t \in Batch /\ t \in 1..ntgt
  BY BatchFacts DEF IInv
<1>2. ret' = Failed
  BY DEF RecvLost
<1>3. link[t] # "ok"
  BY DEF Fell
<1>4. CASE Naming
  <2>1. C.lost \in {"undone", "stderr"} /\ (C.write = "cut" => C.lost = "stderr")
    BY <1>1, <1>4 DEF Naming, WellMade
  <2>2. CASE C.lost = "stderr"
    BY <1>2, <2>2 DEF RecvLost, Settled, Named, Ok, Failed
  <2>3. CASE C.lost = "undone" /\ t \in done
    <3>1. Named(t)
      BY <1>3, <1>4, <2>1, <2>3 DEF IInv, DoneInv, InCall, RecvLost
    <3>2. Named(t)'
      BY <1>1, <3>1, NamedKept DEF EndCall, RecvLost
    <3> QED
      BY <1>2, <3>2 DEF Settled, Ok, Failed
  <2>4. CASE C.lost = "undone" /\ t \notin done
    <3>1. told' = Tell(Batch \ done, "lost")
      BY <2>4 DEF RecvLost, LostTold
    <3>2. told'[t] # {}
      BY <1>1, <2>4, <3>1, TellFacts DEF Lines
    <3> QED
      BY <1>2, <3>2 DEF Settled, Named, Ok, Failed
  <2> QED
    BY <2>1, <2>2, <2>3, <2>4
<1> QED
  BY <1>2, <1>4, ClassKept DEF Settled, Ok, Failed

LEMMA FailedKept ==
    ASSUME IInv, [CmdsNext]_ccVars, InCall', NEW t \in Asked', link'[t] = "failed",
           t \notin owed', ~Pending(t, "error")'
    PROVE  Settled(t)'
<1>1. /\ CmdsTypeOK /\ CmdsTypeOK' /\ Asked \subseteq 1..ntgt
      /\ PlaceInv /\ LinkInv /\ TodoInv /\ UploadInv
  BY TypeKept, BatchFacts DEF IInv
<1>2. ~CallStarts
  <2> SUFFICES ASSUME CallStarts PROVE FALSE
    OBVIOUS
  <2>1. Asked' = Asked
    BY <1>1, StartFacts, CallKept
  <2> QED
    BY <1>1, <2>1, StartFacts
<1>3. InCall /\ Asked' = Asked /\ t \in Asked /\ t \in 1..ntgt
  BY <1>1, <1>2, InCallKept
<1>4. ~EndCall /\ ~Parse /\ ~CallRefused
  BY <1>3 DEF EndCall, Parse, CallRefused, InCall
<1>5. ASSUME link[t] = "failed", t \notin owed, t \notin Errors(todo)
      PROVE  Settled(t)'
  BY <1>3, <1>4, <1>5, PendingErrors, SettledKept DEF IInv, FailInv
<1>6. t \notin Errors(todo')
  BY PendingErrors
<1>7. owed \subseteq Asked
  BY <1>1, <1>3 DEF LinkInv
<1>8. ASSUME NEW x \in Asked, NEW k \in {"reply", "eof", "error"}, RecvAnswers(Asked, x, k),
             NEW s, s = Received(x, k), Errors(s) \subseteq Errors(todo')
      PROVE  link[t] = "failed" /\ t \notin owed
  <2>1. /\ owed \subseteq Errors(s) /\ s \in Seq(Answers) /\ Len(s) \in Nat \ {0}
        /\ s[Len(s)].t = x /\ s[Len(s)].k = k
    BY <1>1, <1>7, <1>8, ReceivedFacts
  <2>2. k = "error" => x \in Errors(s)
    BY <2>1 DEF Errors
  <2>3. link'[t] = link[t] \/ (t = x /\ k = "error") \/ (t = x /\ link'[t] = "ok")
    BY <1>1, <1>3, <1>8, RecvFacts
  <2> QED
    BY <1>6, <1>8, <2>1, <2>2, <2>3
<1>9. CASE Recv
  <2>1. todo = <<>>
    BY <1>1, <1>9 DEF TodoInv, Recv
  <2>2. Errors(todo) = {}
    BY <2>1 DEF Errors
  <2>3. CASE Kind = Unary
    <3>1. PICK x \in Asked, k \in {"reply", "error"} :
              UnaryAnswer(Asked, Answer(x, k)) /\ todo' = <<Answer(x, k)>>
      BY <1>9, <2>3 DEF Recv
    <3>2. k = "error" => x \in Errors(todo')
      BY <3>1 DEF Errors, Answer
    <3>3. link'[t] = link[t] \/ (t = x /\ k = "error") \/ (t = x /\ link'[t] # "failed")
      BY <1>1, <1>3, <3>1, UnaryFacts
    <3>4. owed' = owed
      BY <1>1, <3>1, UnaryFacts
    <3> QED
      BY <1>5, <1>6, <2>2, <3>2, <3>3, <3>4
  <2>4. CASE Kind # Unary
    <3>1. PICK x \in Asked, k \in {"reply", "eof", "error"} :
              RecvAnswers(Asked, x, k) /\ todo' = Received(x, k)
      BY <1>9, <2>4 DEF Recv
    <3>2. link[t] = "failed" /\ t \notin owed
      BY <1>8, <3>1
    <3> QED
      BY <1>5, <2>2, <3>2
  <2> QED
    BY <2>3, <2>4
<1>10. CASE Collect
  <2>1. CASE \E x \in Asked, k \in {"reply", "eof", "error"} :
                 RecvAnswers(Asked, x, k) /\ todo' = todo \o Received(x, k)
    <3>1. PICK x \in Asked, k \in {"reply", "eof", "error"} :
              RecvAnswers(Asked, x, k) /\ todo' = todo \o Received(x, k)
      BY <2>1
    <3> DEFINE s == Received(x, k)
    <3>2. s \in Seq(Answers) /\ todo \in Seq(Answers) /\ todo' = todo \o s /\ s = Received(x, k)
      <4>1. s = Received(x, k) /\ todo' = todo \o s
        BY <3>1
      <4>2. todo \in Seq(Answers) /\ owed \subseteq Asked
        BY <1>1, <1>7 DEF CmdsTypeOK
      <4> HIDE DEF s
      <4>3. s \in Seq(Answers)
        BY <1>1, <4>1, <4>2, ReceivedFacts
      <4> QED
        BY <4>1, <4>2, <4>3
    <3> HIDE DEF s
    <3>3. Errors(s) \subseteq Errors(todo') /\ Errors(todo) \subseteq Errors(todo')
      <4>1. /\ Len(todo) \in Nat /\ Len(s) \in Nat /\ DOMAIN todo = 1..Len(todo)
            /\ DOMAIN s = 1..Len(s) /\ DOMAIN todo' = 1..Len(todo) + Len(s)
            /\ \A i \in 1..Len(todo) : todo'[i] = todo[i]
            /\ \A j \in 1..Len(s) : todo'[Len(todo) + j] = s[j]
        BY <3>2
      <4>2. /\ \A i \in DOMAIN todo : i \in DOMAIN todo' /\ todo'[i] = todo[i]
            /\ \A j \in DOMAIN s : Len(todo) + j \in DOMAIN todo'
        BY <4>1
      <4> QED
        BY <4>1, <4>2 DEF Errors
    <3>4. link[t] = "failed" /\ t \notin owed
      BY <1>8, <3>1, <3>2, <3>3
    <3> QED
      BY <1>5, <1>6, <3>3, <3>4
  <2>2. CASE /\ Answered = Asked \/ RecvEOF(Asked)
             /\ todo' = IF Answered = Asked THEN todo ELSE <<>>
             /\ UNCHANGED omVars
    <3>1. /\ pc = "collect" /\ Kind = ClientStream
          /\ Answered \subseteq Asked
      BY <1>1, <1>10 DEF Collect, PlaceInv, TodoInv, Answered
    <3>2. Answered # Asked => owed # {}
      BY <1>1, <2>2, <3>1 DEF UploadInv, RecvEOF, Open
    <3>3. Answered # Asked => todo = <<>>
      BY <1>1, <3>1, <3>2 DEF UploadInv
    <3>4. todo' = todo /\ link' = link /\ owed' = owed
      BY <2>2, <3>3 DEF omVars
    <3> QED
      BY <1>5, <1>6, <3>4
  <2>3. pc' # "end"
    BY DEF InCall
  <2> QED
    BY <1>10, <2>1, <2>2, <2>3 DEF Collect, UploadFails
<1>11. CASE RangeStep
  <2>1. /\ todo # <<>> /\ todo' = Tail(todo) /\ link' = link /\ owed' = owed
    BY <1>11, RangeFacts DEF InCall
  <2>2. CASE t \in Errors(todo)
    <3>1. PICK i \in DOMAIN todo : todo[i].t = t /\ todo[i].k = "error"
      BY <2>2 DEF Errors
    <3>2. /\ DOMAIN todo = 1..Len(todo) /\ DOMAIN todo' = 1..Len(todo) - 1
          /\ \A j \in 1..Len(todo) - 1 : todo'[j] = todo[j + 1]
          /\ Len(todo) \in Nat \ {0} /\ Head(todo) = todo[1]
      BY <1>1, <2>1, SlotFacts DEF CmdsTypeOK
    <3>3. i = 1
      <4> SUFFICES ASSUME i # 1 PROVE FALSE
        OBVIOUS
      <4>1. i - 1 \in DOMAIN todo' /\ todo'[i - 1] = todo[i]
        BY <3>1, <3>2
      <4> QED
        BY <1>6, <3>1, <4>1 DEF Errors
    <3>4. Head(todo).t = t /\ Head(todo).k = "error"
      BY <3>1, <3>2, <3>3
    <3>5. HandleError
      BY <1>11, <3>4 DEF RangeStep, HandleEOF, HandleReply, WriteFails, HandleLog, HandleAction
    <3> QED
      BY <3>4, <3>5, ErrorSettled
  <2>3. CASE t \notin Errors(todo)
    BY <1>5, <2>1, <2>3
  <2> QED
    BY <2>2, <2>3
<1>12. CASE ~RangeStep /\ ~Collect /\ ~Recv
  <2>1. todo' = todo
    BY <1>12, OtherFacts
  <2>2. CASE Library
    <3>1. owed' = owed
      BY <2>2 DEF Library, RPCLost, UnaryClosed
    <3>2. link[t] = "failed"
      BY <1>1, <1>3, <2>2, MovedTyped DEF Library, RPCLost, UnaryClosed
    <3> QED
      BY <1>5, <1>6, <2>1, <3>1, <3>2
  <2>3. CASE ~Library
    BY <1>2, <1>4, <1>5, <1>6, <1>12, <2>1, <2>3, LibraryKept
  <2> QED
    BY <2>2, <2>3
<1> QED
  BY <1>9, <1>10, <1>11, <1>12

\* A loop that is left for the end has settled what it leaves.
LEMMA LeftSettled ==
    ASSUME IInv, [CmdsNext]_ccVars, RangeStep, pc' = "end", NEW t \in Asked, Fell(t)'
    PROVE  Settled(t)'
<1>1. /\ CmdsTypeOK /\ PlaceInv /\ LinkInv /\ TodoInv /\ WellMade(cmd, C)
      /\ t \in 1..ntgt /\ (ntgt = 1 => Cardinality(Asked) = 1)
  BY BatchFacts DEF IInv
<1>2. /\ pc = "range" /\ todo # <<>> /\ UNCHANGED <<at, stage, link, nrep, owed, gone>>
      /\ Kind' = Kind
  BY RangeFacts, CallKept
<1>3. CASE HandleError /\ C.stops
  BY <1>1, <1>3, ErrorSettled
<1>4. CASE WriteFails /\ C.write = "stop" /\ todo' = <<>> /\ ret' = Failed /\ mishap' # {}
  <2>1. Naming => cmd' = "dumpCmd"
    BY <1>1, <1>4, LineKept DEF Naming, WellMade
  <2> QED
    BY <1>4, <2>1, ClassKept DEF Settled, Named, Ok, Failed
<1>5. CASE todo' = Tail(todo) /\ Len(todo) = 1 /\ Kind = Unary /\ C.reads = "one"
  <2> SUFFICES ASSUME AllRead PROVE Settled(t)'
    BY ClassKept DEF Settled, Strict, Naming
  <2>1. ~gone /\ owed = {}
    BY <1>1, <1>2, <1>5 DEF AllRead, LinkInv, InCall
  <2>2. link[t] = "failed"
    BY <1>2, <2>1 DEF Fell
  <2>3. CASE Pending(t, "error")
    <3>1. PICK i \in DOMAIN todo : todo[i].t = t /\ todo[i].k = "error"
      BY <2>3 DEF Pending
    <3>2. i = 1 /\ Head(todo) = todo[1]
      BY <1>1, <1>2, <1>5, <3>1, SlotFacts DEF CmdsTypeOK
    <3>3. HandleError
      BY <3>1, <3>2 DEF RangeStep, HandleEOF, HandleReply, WriteFails, HandleLog, HandleAction
    <3> QED
      BY <3>1, <3>2, <3>3, ErrorSettled
  <2>4. CASE ~Pending(t, "error")
    <3>1. Settled(t)
      BY <1>2, <2>1, <2>2, <2>4 DEF IInv, FailInv, InCall
    <3>2. ~EndCall /\ ~Parse
      BY <1>2 DEF EndCall, Parse
    <3> QED
      BY <1>1, <3>1, <3>2, SettledKept
  <2> QED
    BY <2>3, <2>4
<1>6. Advance => C.reads = "one"
  BY DEF Advance
<1>7. \/ HandleError /\ C.stops
      \/ WriteFails /\ C.write = "stop" /\ todo' = <<>> /\ ret' = Failed /\ mishap' # {}
      \/ todo' = Tail(todo) /\ C.reads = "one"
  BY <1>6 DEF RangeStep, HandleError, HandleEOF, HandleReply, WriteFails, HandleLog,
     HandleAction
<1>8. C.reads = "one" => Kind = Unary /\ Len(todo) = 1
  BY <1>1, <1>2 DEF PlaceInv, TodoInv, Kind, Mpa_Get, WellMade
<1> QED
  BY <1>3, <1>4, <1>5, <1>7, <1>8

LEMMA FellKept ==
    ASSUME IInv, [CmdsNext]_ccVars, pc' \in {"join", "end"}, NEW t \in Asked', Fell(t)'
    PROVE  Settled(t)' \/ Unstarted'
<1>1. /\ CmdsTypeOK /\ PlaceInv /\ LinkInv /\ TodoInv /\ UploadInv /\ WellMade(cmd, C)
      /\ Asked \subseteq 1..ntgt
  BY BatchFacts DEF IInv
<1>2. /\ at' = at /\ stage' = stage
      /\ \/ CallRefused \/ CallStarts \/ Upload \/ Collect \/ RecvEnds \/ RecvLost
         \/ RangeStep \/ UploadEnds \/ Join
         \/ UNCHANGED <<pc, link, nrep, owed, gone, ret>>
  BY DEF CmdsNext, CmdsStep, Confirm, ConfirmAgain, Exited, ccVars, flowVars, omVars, Dial,
         Parse, CallRefused, CallStarts, Upload, Collect, Recv, RecvEnds, RecvLost, Library,
         RangeStep, HandleError, HandleEOF, HandleReply, WriteFails, HandleLog, HandleAction,
         UploadEnds, SenderFails, SenderCloses, Join, EndCall, Return
<1>3. Asked' = Asked /\ Kind' = Kind /\ t \in Asked /\ t \in 1..ntgt
  BY <1>1, <1>2, CallKept
<1>4. ASSUME ~EndCall, ~Parse, Settled(t)
      PROVE  Settled(t)'
  BY <1>3, <1>4, SettledKept
<1>5. CASE CallRefused
  BY <1>3, <1>5, RefusedSettled
<1>6. CASE CallStarts
  <2>1. Kind = Unary
    BY <1>1, <1>6 DEF CallStarts, Kind, Mpa_Get, WellMade, PlaceInv
  <2>2. owed' = {} /\ ~gone' /\ link'[t] = "open"
    BY <1>1, <1>3, <1>6, <2>1, StartFacts
  <2> QED
    BY <2>2 DEF Fell
<1>7. CASE Upload
  <2>1. pc' = "end"
    BY <1>7 DEF Upload, UploadFails
  <2> QED
    BY <1>3, <1>7, <2>1, RefusedSettled
<1>8. CASE Collect
  <2>1. pc' = "end"
    BY <1>8 DEF Collect, UploadFails
  <2> QED
    BY <1>3, <1>8, <2>1, RefusedSettled
<1>9. CASE RecvEnds
  <2>1. pc = "recv" /\ UNCHANGED <<link, nrep, owed, gone>> /\ todo = <<>> /\ ~EndCall /\ ~Parse
    BY <1>1, <1>9 DEF RecvEnds, omVars, TodoInv, EndCall, Parse
  <2>2. link[t] # "open" /\ (Kind # Unary => ~gone) /\ (Kind = Unary => owed = {})
    BY <1>1, <1>3, <1>9, <2>1 DEF RecvEnds, ChannelClosed, Unclosed, RecvEOF, Open, LinkInv,
       InCall
  <2>3. link[t] = "failed"
    BY <2>1, <2>2 DEF Fell
  <2>4. CASE t \in owed
    <3>1. Open(Asked) = {}
      BY <1>9, <2>2, <2>4 DEF RecvEnds, RecvEOF
    <3>2. InCall /\ owed \subseteq Asked /\ \A x \in Asked \ owed : link[x] = "open"
      BY <1>1, <2>1, <2>4 DEF InCall, LinkInv
    <3> QED
      BY <1>3, <2>1, <3>1, <3>2 DEF Open, Unstarted
  <2>5. CASE t \notin owed
    <3>1. Settled(t)
      BY <1>3, <2>1, <2>3, <2>5 DEF IInv, FailInv, InCall, Pending
    <3> QED
      BY <1>4, <2>1, <3>1
  <2> QED
    BY <2>4, <2>5
<1>10. CASE RecvLost
  <2>1. link' = link
    BY <1>10 DEF RecvLost, omVars
  <2> QED
    BY <1>3, <1>10, <2>1, LostSettled
<1>11. CASE RangeStep
  <2>1. pc' = "end"
    BY <1>11, RangeFacts
  <2> QED
    BY <1>3, <1>11, <2>1, LeftSettled
<1>12. CASE UploadEnds
  <2>1. /\ pc = "range" /\ todo = <<>> /\ UNCHANGED <<link, nrep, owed, gone>>
        /\ Kind = ClientStream /\ ~EndCall /\ ~Parse
    BY <1>1, <1>12 DEF UploadEnds, omVars, TodoInv, EndCall, Parse
  <2>2. link[t] = "open" => nrep[t] = 1
    BY <1>1, <1>3, <2>1 DEF UploadInv, Open
  <2>3. link[t] = "failed"
    BY <1>3, <2>1, <2>2 DEF Fell
  <2>4. CASE t \in owed
    <3>1. Open(Asked) = {}
      BY <1>1, <2>1, <2>4 DEF UploadInv
    <3>2. owed \subseteq Asked /\ \A x \in Asked \ owed : link[x] = "open"
      BY <1>1, <2>1, <2>4 DEF InCall, LinkInv
    <3> QED
      BY <1>3, <2>1, <3>1, <3>2 DEF Open, Unstarted
  <2>5. CASE t \notin owed
    <3>1. Settled(t)
      BY <1>3, <2>1, <2>3, <2>5 DEF IInv, FailInv, InCall, Pending
    <3> QED
      BY <1>4, <2>1, <3>1
  <2> QED
    BY <2>4, <2>5
<1>13. CASE Join
  <2>1. pc = "join" /\ UNCHANGED <<link, nrep, owed, gone>> /\ ~EndCall /\ ~Parse
    BY <1>13 DEF Join, omVars, EndCall, Parse
  <2>2. Fell(t)
    BY <1>3, <2>1 DEF Fell
  <2>3. Settled(t) \/ Unstarted
    BY <1>3, <2>1, <2>2 DEF IInv, FailInv
  <2> QED
    BY <1>3, <1>4, <2>1, <2>3 DEF Unstarted
<1>14. CASE UNCHANGED <<pc, link, nrep, owed, gone, ret>>
  <2>1. Fell(t)
    BY <1>3, <1>14 DEF Fell
  <2>2. Settled(t) \/ Unstarted
    BY <1>3, <1>14, <2>1 DEF IInv, FailInv
  <2>3. ~EndCall /\ ~Parse
    BY <1>14 DEF EndCall, Parse
  <2> QED
    BY <1>3, <1>4, <1>14, <2>2, <2>3 DEF Unstarted
<1> QED
  BY <1>2, <1>5, <1>6, <1>7, <1>8, <1>9, <1>10, <1>11, <1>12, <1>13, <1>14

LEMMA FailKept ==
    ASSUME IInv, [CmdsNext]_ccVars
    PROVE  FailInv'
BY FailedKept, FellKept DEF FailInv

(***************************************************************************)
(* The targets that are done.                                              *)
(***************************************************************************)
LEMMA DoneKept ==
    ASSUME IInv, [CmdsNext]_ccVars
    PROVE  DoneInv'
<1> SUFFICES ASSUME InCall', NEW t \in Asked', t \in done'
             PROVE  /\ Naming' /\ Kind' # Unary =>
                          link'[t] = "ok" \/ Named(t)' \/ C'.write = "cut"
                    /\ C'.write \in {"mark", "stop"} =>
                          \/ t \in mishap' \/ link'[t] = "failed"
                          \/ Kind' # Unary /\ link'[t] = "ok"
  BY DEF DoneInv
<1>1. /\ CmdsTypeOK /\ PlaceInv /\ LinkInv /\ TodoInv /\ WellMade(cmd, C)
      /\ Asked \subseteq 1..ntgt /\ C' = C /\ Naming' = Naming
  BY BatchFacts, LineKept, ClassKept DEF IInv
<1>2. CASE CallStarts
  <2>1. done' = done /\ pc = "call" /\ Kind' = Kind
    BY <1>1, <1>2, StartFacts, CallKept DEF CallStarts
  <2>2. ~(C.files = 1 /\ ~C.lookup)
    BY <1>1, <2>1 DEF PlaceInv
  <2>3. Naming /\ Kind # Unary => C.files = 1 /\ ~C.lookup
    BY <1>1 DEF Naming, WellMade, PlaceInv, Kind, Mpa_Get
  <2>4. C.write \notin {"mark", "stop"}
    BY <1>1, <2>2 DEF WellMade
  <2> QED
    BY <1>1, <2>1, <2>2, <2>3, <2>4
<1>3. CASE ~CallStarts
  <2>1. InCall /\ Asked' = Asked /\ Kind' = Kind /\ t \in Asked /\ t \in 1..ntgt
    BY <1>1, <1>3, InCallKept
  <2>2. ~EndCall /\ ~Parse /\ ~CallRefused
    BY <2>1 DEF EndCall, Parse, CallRefused, InCall
  <2>3. /\ link[t] = "failed" => link'[t] = "failed"
        /\ link[t] = "ok" => link'[t] = "ok"
    <3>1. ASSUME NEW x \in Asked, NEW k \in {"reply", "eof", "error"}, RecvAnswers(Asked, x, k)
          PROVE  link[t] \in {"ok", "failed"} => link'[t] = link[t]
      BY <1>1, <2>1, <3>1, RecvFacts
    <3>2. ASSUME NEW x \in Asked, NEW k \in {"reply", "error"}, UnaryAnswer(Asked, Answer(x, k))
          PROVE  link[t] \in {"ok", "failed"} => link'[t] = link[t]
      BY <1>1, <2>1, <3>2, UnaryFacts
    <3>3. CASE Recv
      BY <3>1, <3>2, <3>3 DEF Recv
    <3>4. CASE Collect
      BY <3>1, <3>4 DEF Collect, omVars
    <3>5. CASE Library
      <4>1. CASE RPCLost(Kind, Asked, direct)
        BY <4>1 DEF RPCLost
      <4>2. CASE UnaryClosed(Asked)
        <5>1. PICK x \in Asked : link[x] = "answered" /\ link' = Moved({x}, "ok")
          BY <4>2 DEF UnaryClosed
        <5> QED
          BY <1>1, <2>1, <5>1, MovedTyped
      <4> QED
        BY <3>5, <4>1, <4>2 DEF Library
    <3> QED
      BY <1>3, <2>2, <3>3, <3>4, <3>5, LibraryKept
  <2>4. CASE t \in done
    BY <1>1, <2>1, <2>2, <2>3, <2>4, NamedKept, MarksKept DEF IInv, DoneInv
  <2>5. CASE t \notin done
    <3>1. RangeStep
      BY <2>2, <2>5
         DEF CmdsNext, CmdsStep, Confirm, ConfirmAgain, Exited, ccVars, textVars, Dial,
             CallStarts, Upload, Collect, Recv, RecvEnds, RecvLost, Library, RangeStep,
             UploadEnds, SenderFails, SenderCloses, Join, Return
    <3>2. /\ todo # <<>> /\ link' = link
          /\ Slot(Index(Head(todo).t)) = Head(todo).t /\ Head(todo) = todo[1]
      BY <1>1, <3>1, RangeFacts, SlotFacts
    <3>3. 1 \in DOMAIN todo
      BY <1>1, <3>2, SlotFacts DEF CmdsTypeOK
    <3>4. CASE HandleError
      <4>1. t = Head(todo).t
        BY <2>5, <3>2, <3>4 DEF HandleError
      <4>2. link[t] = "failed"
        BY <1>1, <3>2, <3>3, <3>4, <4>1 DEF TodoInv, HandleError
      <4>3. Naming => Named(t)'
        BY <1>1, <3>4, <4>1, ErrorSettled DEF Settled
      <4> QED
        BY <1>1, <3>2, <4>2, <4>3
    <3>5. CASE HandleEOF
      <4>1. t = Head(todo).t
        BY <2>5, <3>2, <3>5 DEF HandleEOF
      <4>2. link[t] = "ok" /\ Kind # Unary
        BY <1>1, <3>2, <3>3, <3>5, <4>1 DEF TodoInv, HandleEOF
      <4> QED
        BY <2>1, <3>2, <4>2
    <3>6. CASE HandleReply
      <4>1. C.write = "cut"
        BY <2>5, <3>6 DEF HandleReply
      <4> QED
        BY <1>1, <4>1
    <3>7. CASE WriteFails
      <4>1. /\ t = Head(todo).t /\ told' = Tell({t}, "write") /\ mishap' = mishap \cup {t}
        BY <2>5, <3>2, <3>7 DEF WriteFails
      <4>2. told'[t] # {}
        BY <1>1, <2>1, <4>1, TellFacts DEF Lines
      <4> QED
        BY <4>1, <4>2 DEF Named
    <3>8. CASE HandleLog \/ HandleAction
      BY <2>5, <3>8 DEF HandleLog, HandleAction
    <3> QED
      BY <3>1, <3>4, <3>5, <3>6, <3>7, <3>8 DEF RangeStep
  <2> QED
    BY <2>4, <2>5
<1> QED
  BY <1>2, <1>3

(***************************************************************************)
(* The status of the process, and the failures nobody was told of.         *)
(***************************************************************************)
LEMMA StatusKept ==
    ASSUME IInv, [CmdsNext]_ccVars
    PROVE  StatusInv'
<1>1. /\ CmdsTypeOK /\ PlaceInv /\ StatusInv /\ WellMade(cmd, C)
      /\ Strict' = Strict /\ Naming' = Naming /\ cmd' = cmd
  BY BatchFacts, LineKept, ClassKept DEF IInv
<1>2. (pc' = "exited" <=> exit' # "running") /\ (exit' = Ok => code' = Ok)
  BY <1>1
     DEF StatusInv, CmdsNext, CmdsStep, Confirm, ConfirmAgain, Exited, ccVars, flowVars,
         runVars, Dial, Parse, CallRefused, CallStarts, Upload, UploadFails, Collect, Recv,
         RecvEnds, RecvLost, Library, HandleError, HandleEOF, HandleReply, WriteFails,
         HandleLog, HandleAction, Advance, UploadEnds, SenderFails, SenderCloses, Join,
         EndCall, Return, CodeAfter, CmdsTypeOK, Ok, Failed
<1>3. Strict /\ (hurt' \ unheard' # {} \/ mishap' # {}) =>
          code' # Ok \/ (pc' \notin {"dial", "parse", "exited"} /\ ret' # Ok)
  <2> SUFFICES ASSUME Strict, hurt' \ unheard' # {} \/ mishap' # {}
               PROVE  code' # Ok \/ (pc' \notin {"dial", "parse", "exited"} /\ ret' # Ok)
    OBVIOUS
  <2>1. code # Ok => code' # Ok
    BY DEF CmdsNext, CmdsStep, Confirm, ConfirmAgain, Exited, ccVars, runVars, Dial, Parse,
           CallRefused, CallStarts, Upload, Collect, Recv, RecvEnds, RecvLost, Library,
           HandleError, HandleEOF, HandleReply, WriteFails, HandleLog, HandleAction,
           UploadEnds, SenderFails, SenderCloses, Join, EndCall, Return, CodeAfter, Ok, Failed
  <2>2. CASE EndCall
    <3>1. pc' \notin {"dial", "parse", "exited"} /\ (ret # Ok => ret' # Ok) /\ pc = "end"
      BY <2>2 DEF EndCall, Ok, Failed
    <3>2. \/ hurt \ unheard # {} \/ mishap # {}
          \/ ~Unstarted /\ \E t \in Asked : Fell(t)
      <4>1. /\ mishap' = mishap
            /\ hurt' = hurt \cup ({t \in Asked : Fell(t)} \X {file})
            /\ unheard' = IF Unstarted THEN unheard \cup (Asked \X {file}) ELSE unheard
        BY <2>2 DEF EndCall
      <4> QED
        BY <4>1
    <3>3. ~Unstarted /\ (\E t \in Asked : Fell(t)) => ret # Ok
      BY <3>1 DEF IInv, FailInv, Settled
    <3> QED
      BY <1>1, <2>1, <3>1, <3>2, <3>3 DEF StatusInv
  <2>3. CASE Return
    <3>1. hurt \ unheard # {} \/ mishap # {}
      BY <2>3 DEF Return
    <3>2. ret # Ok => code' # Ok
      BY <2>3 DEF Return, CodeAfter, Ok, Failed
    <3> QED
      BY <1>1, <2>1, <3>1, <3>2 DEF StatusInv
  <2>4. CASE Dial \/ Parse
    BY <1>1, <2>1, <2>4 DEF StatusInv, Dial, Parse, runVars
  <2>5. CASE ~EndCall /\ ~Return /\ ~Dial /\ ~Parse
    <3>1. hurt' = hurt /\ unheard' = unheard /\ (pc' \in {"dial", "parse", "exited"} => pc' = pc)
      BY <2>5
         DEF CmdsNext, CmdsStep, Confirm, ConfirmAgain, Exited, ccVars, flowVars, runVars,
             CallRefused, CallStarts, Upload, UploadFails, Collect, Recv, RecvEnds, RecvLost,
             Library, HandleError, HandleEOF, HandleReply, WriteFails, HandleLog,
             HandleAction, Advance, UploadEnds, SenderFails, SenderCloses, Join
    <3>2. CASE mishap' = mishap
      BY <1>1, <2>1, <2>5, <3>1, <3>2, RetKept DEF StatusInv
    <3>3. CASE mishap' # mishap
      <4>1. ~C.logs /\ C.bad \in {"none", "marks", "both"}
        BY <1>1 DEF Strict, WellMade
      <4>2. HandleReply \/ WriteFails
        BY <2>5, <3>3, <4>1
           DEF CmdsNext, CmdsStep, Confirm, ConfirmAgain, Exited, ccVars, runVars,
               CallRefused, CallStarts, Upload, Collect, Recv, RecvEnds, RecvLost, Library,
               HandleError, HandleEOF, HandleLog, HandleAction, UploadEnds, SenderFails,
               SenderCloses, Join
      <4>3. ret' = Failed /\ pc = "range"
        BY <3>3, <4>1, <4>2 DEF HandleReply, WriteFails
      <4> QED
        BY <3>1, <4>3 DEF Ok, Failed
    <3> QED
      BY <3>2, <3>3
  <2> QED
    BY <2>2, <2>3, <2>4, <2>5
<1>4. Naming => silent' \ unheard' = {} \/ stderr' # {} \/ (cmd = "dumpCmd" /\ mishap' # {})
  <2> SUFFICES ASSUME Naming
               PROVE  silent' \ unheard' = {} \/ stderr' # {} \/ (cmd = "dumpCmd" /\ mishap' # {})
    OBVIOUS
  <2>1. CASE EndCall
    <3>1. /\ pc = "end" /\ stderr' = stderr /\ mishap' = mishap
          /\ silent' = silent \cup ({t \in Asked : Fell(t) /\ told[t] = {}} \X {file})
          /\ unheard' = IF Unstarted THEN unheard \cup (Asked \X {file}) ELSE unheard
      BY <2>1 DEF EndCall
    <3>2. \A t \in Asked : Fell(t) => Named(t) \/ Unstarted
      BY <3>1 DEF IInv, FailInv, Settled
    <3> QED
      BY <1>1, <3>1, <3>2 DEF StatusInv, Named
  <2>2. CASE ~EndCall
    <3>1. silent' = silent /\ unheard' = unheard
      BY <2>2
         DEF CmdsNext, CmdsStep, Confirm, ConfirmAgain, Exited, ccVars, runVars, Dial, Parse,
             CallRefused, CallStarts, Upload, Collect, Recv, RecvEnds, RecvLost, Library,
             HandleError, HandleEOF, HandleReply, WriteFails, HandleLog, HandleAction,
             UploadEnds, SenderFails, SenderCloses, Join, Return
    <3> QED
      BY <1>1, <3>1, MarksKept DEF StatusInv
  <2> QED
    BY <2>1, <2>2
<1> QED
  BY <1>1, <1>2, <1>3, <1>4 DEF StatusInv

(***************************************************************************)
(* The output of a target.                                                 *)
(***************************************************************************)
Counted == C.bad \notin {"told", "both"} /\ ~C.logs
OutOf(t) ==
    /\ C.prints = "none" => out[t] = <<>>
    /\ \A i \in DOMAIN out[t] : out[t][i].t = t /\ out[t][i].n <= Handled(t)
    /\ Rising(t)
    /\ Counted => /\ \A i \in DOMAIN out[t] : Holds(t, out[t][i].n)
                  /\ Due(t) => Holds(t, Handled(t))

LEMMA OutParts == OutInv <=> (cmd # "dmesgCmd" => \A t \in 1..ntgt : OutOf(t))
BY DEF OutInv, OutOf, Counted

LEMMA OutTypes ==
    ASSUME CmdsTypeOK, NEW t \in 1..ntgt
    PROVE  /\ out[t] \in Seq([t : 1..ntgt, n : Nat])
           /\ \A i \in DOMAIN out[t] : out[t][i].n \in Nat
<1>1. out[t] \in Seq([t : 1..ntgt, n : Nat])
  BY DEF CmdsTypeOK
<1>2. ASSUME NEW i \in DOMAIN out[t]
      PROVE  out[t][i].n \in Nat
  <2>1. \A S : \A s \in Seq(S) : \A j \in DOMAIN s : s[j] \in S
    OBVIOUS
  <2>2. out[t][i] \in [t : 1..ntgt, n : Nat]
    BY <1>1, <1>2, <2>1
  <2> QED
    BY <2>2
<1> QED
  BY <1>1, <1>2

LEMMA HandledTypes ==
    ASSUME CmdsTypeOK, CmdsTypeOK', [CmdsNext]_ccVars, NEW t \in 1..ntgt
    PROVE  /\ nrep[t] \in Nat /\ nrep'[t] \in Nat /\ Handled(t) \in Int /\ Handled(t)' \in Int
           /\ Handled(t) = nrep[t] \/ Handled(t) = nrep[t] - 1
<1>1. nrep[t] \in Nat
  BY DEF CmdsTypeOK
<1>2. nrep'[t] \in Nat
  <2>1. ntgt' = ntgt
    BY LineKept
  <2> QED
    BY <2>1 DEF CmdsTypeOK
<1> QED
  BY <1>1, <1>2 DEF Handled

\* An output that is left alone, while more replies may have been dealt with.
LEMMA OutSame ==
    ASSUME CmdsTypeOK, CmdsTypeOK', [CmdsNext]_ccVars, NEW t \in 1..ntgt, OutOf(t),
           out'[t] = out[t], Handled(t) <= Handled(t)',
           Counted /\ Due(t)' => Due(t) /\ Handled(t)' = Handled(t)
    PROVE  OutOf(t)'
<1>1. C' = C /\ Counted' = Counted
  BY LineKept DEF Counted
<1>2. /\ Rising(t)' = Rising(t) /\ Holds(t, Handled(t))' = Holds(t, Handled(t)')
      /\ \A i \in DOMAIN out[t] : Holds(t, out[t][i].n)' = Holds(t, out[t][i].n)
  BY DEF Rising, Holds
<1>3. Holds(t, Handled(t)') = (\A k \in 1..Handled(t)' : \E i \in DOMAIN out[t] : out[t][i].n = k)
  BY DEF Holds
<1>4. /\ Handled(t) \in Int /\ Handled(t)' \in Int
      /\ \A i \in DOMAIN out[t] : out[t][i].n \in Int
  <2>1. Handled(t) \in Int /\ Handled(t)' \in Int
    BY HandledTypes
  <2>2. \A i \in DOMAIN out[t] : out[t][i].n \in Nat
    BY OutTypes
  <2> QED
    BY <2>1, <2>2
<1>5. \A i \in DOMAIN out'[t] : out'[t][i].t = t /\ out'[t][i].n <= Handled(t)'
  BY <1>4 DEF OutOf
<1> QED
  BY <1>1, <1>2, <1>5 DEF OutOf, Holds

\* An output to which the next reply of the target, or an error (0), is added, or that
\* holds nothing but it.
LEMMA OutAdded ==
    ASSUME CmdsTypeOK, CmdsTypeOK', [CmdsNext]_ccVars, NEW t \in 1..ntgt, OutOf(t),
           C.prints # "none", NEW r, r.t = t, r.n \in Nat,
           out'[t] = Append(out[t], r) \/ (out'[t] = <<r>> /\ r.n <= 1),
           Handled(t) <= Handled(t)', r.n <= Handled(t)',
           r.n = 0 => ~Due(t)',
           r.n > 0 => Handled(t)' = r.n /\ Handled(t) = r.n - 1 /\ (Counted => Due(t))
    PROVE  OutOf(t)'
<1>1. C' = C /\ Counted' = Counted
  BY LineKept DEF Counted
<1>2. /\ Handled(t) \in Int /\ Handled(t)' \in Int
      /\ out[t] \in Seq([t : 1..ntgt, n : Nat])
  <2>1. Handled(t) \in Int /\ Handled(t)' \in Int
    BY HandledTypes
  <2> QED
    BY <2>1, OutTypes
<1>3. \A i \in DOMAIN out[t] : out[t][i].n \in Nat
  BY OutTypes
<1>4. CASE out'[t] = Append(out[t], r)
  <2> DEFINE m == Len(out[t])
  <2>1. /\ m \in Nat /\ DOMAIN out[t] = 1..m /\ DOMAIN out'[t] = 1..m + 1
        /\ out'[t][m + 1] = r /\ \A i \in 1..m : out'[t][i] = out[t][i]
    BY <1>2, <1>4
  <2> HIDE DEF m
  <2>2. \A i \in 1..m + 1 : i \in 1..m \/ i = m + 1
    BY <2>1
  <2>3. \A i \in 1..m + 1 : out'[t][i].t = t /\ out'[t][i].n <= Handled(t)'
    <3>1. \A i \in 1..m : out[t][i].t = t /\ out[t][i].n <= Handled(t) /\ out[t][i].n \in Nat
      BY <1>3, <2>1 DEF OutOf
    <3>2. ASSUME NEW i \in 1..m
          PROVE  out'[t][i].t = t /\ out'[t][i].n <= Handled(t)'
      <4>1. \A n \in Nat : n <= Handled(t) => n <= Handled(t)'
        BY <1>2
      <4>2. out[t][i].t = t /\ out[t][i].n <= Handled(t)'
        BY <3>1, <3>2, <4>1
      <4> QED
        BY <2>1, <3>2, <4>2
    <3> QED
      BY <2>1, <2>2, <3>2
  <2>4. Rising(t)'
    <3> SUFFICES ASSUME NEW i \in 1..m + 1, NEW j \in 1..m + 1, i < j,
                        out'[t][i].n > 0, out'[t][j].n > 0
                 PROVE  out'[t][i].n < out'[t][j].n
      BY <2>1 DEF Rising
    <3>1. CASE j = m + 1
      <4>1. i \in 1..m /\ r.n > 0
        BY <2>1, <2>2, <3>1
      <4>2. out[t][i].n <= Handled(t) /\ out[t][i].n \in Nat /\ Handled(t) = r.n - 1
        BY <1>3, <2>1, <4>1 DEF OutOf
      <4>3. \A x, y \in Nat : x <= y - 1 => x < y
        OBVIOUS
      <4>4. out[t][i].n < r.n
        BY <4>2, <4>3
      <4> QED
        BY <2>1, <3>1, <4>1, <4>4
    <3>2. CASE j \in 1..m
      <4>1. i \in 1..m
        BY <2>1, <3>2
      <4> QED
        BY <2>1, <3>2, <4>1 DEF OutOf, Rising
    <3> QED
      BY <2>2, <3>1, <3>2
  <2>5. \A n : Holds(t, n) => \A k \in 1..n : \E i \in 1..m + 1 : out'[t][i].n = k
    <3>1. \A i \in 1..m : i \in 1..m + 1
      BY <2>1
    <3> QED
      BY <2>1, <3>1 DEF Holds
  <2>6. Counted => \A k \in 1..r.n : \E i \in 1..m + 1 : out'[t][i].n = k
    <3> SUFFICES ASSUME Counted, NEW k \in 1..r.n
                 PROVE  \E i \in 1..m + 1 : out'[t][i].n = k
      OBVIOUS
    <3>1. r.n > 0 /\ Holds(t, r.n - 1)
      BY <1>2 DEF OutOf
    <3>2. k = r.n \/ k \in 1..r.n - 1
      BY <1>2
    <3>3. m + 1 \in 1..m + 1
      BY <2>1
    <3> QED
      BY <2>1, <2>5, <3>1, <3>2, <3>3
  <2>7. ASSUME Counted, NEW i \in 1..m + 1
        PROVE  \A k \in 1..out'[t][i].n : \E j \in 1..m + 1 : out'[t][j].n = k
    <3>1. CASE i \in 1..m
      <4>1. Holds(t, out[t][i].n)
        BY <2>1, <2>7, <3>1 DEF OutOf
      <4> QED
        BY <2>1, <2>5, <3>1, <4>1
    <3> QED
      BY <2>1, <2>2, <2>6, <2>7, <3>1
  <2>8. Counted /\ Due(t)' => Holds(t, Handled(t))'
    <3>1. Due(t)' => r.n > 0 /\ Handled(t)' = r.n
      BY <1>2
    <3> QED
      BY <2>1, <2>6, <3>1 DEF Holds
  <2>9. Counted => \A i \in DOMAIN out'[t] :
                       \A k \in 1..out'[t][i].n : \E j \in DOMAIN out'[t] : out'[t][j].n = k
    BY <2>1, <2>7
  <2>10. \A i \in DOMAIN out'[t] : out'[t][i].t = t /\ out'[t][i].n <= Handled(t)'
    BY <2>1, <2>3
  <2> QED
    BY <1>1, <2>4, <2>8, <2>9, <2>10 DEF OutOf, Holds
<1>5. CASE out'[t] = <<r>> /\ r.n <= 1
  <2>1. DOMAIN out'[t] = 1..1 /\ out'[t][1] = r
    BY <1>5
  <2>2. \A i \in DOMAIN out'[t] : out'[t][i] = r /\ i = 1
    BY <2>1
  <2>3. \A k \in 1..r.n : \E i \in DOMAIN out'[t] : out'[t][i].n = k
    BY <1>2, <1>5, <2>1
  <2>4. Rising(t)'
    BY <2>2 DEF Rising
  <2>5. \A i \in DOMAIN out'[t] :
            \A k \in 1..out'[t][i].n : \E j \in DOMAIN out'[t] : out'[t][j].n = k
    BY <2>2, <2>3
  <2>6. Due(t)' => Holds(t, Handled(t))'
    <3>1. Due(t)' => Handled(t)' = r.n
      BY <1>2
    <3> QED
      BY <2>3, <3>1 DEF Holds
  <2> QED
    BY <1>1, <2>2, <2>4, <2>5, <2>6 DEF OutOf, Holds
<1> QED
  BY <1>4, <1>5

\* Where the output is not touched, nor an answer taken: in every action but those that follow.
LEMMA OutLeft ==
    ASSUME IInv, [CmdsNext]_ccVars, ~CallStarts, ~RangeStep
    PROVE  out' = out
BY DEF CmdsNext, CmdsStep, Confirm, ConfirmAgain, Exited, ccVars, textVars, Dial, Parse,
       CallRefused, Upload, UploadFails, Collect, Recv, RecvEnds, RecvLost, Library, RangeStep,
       UploadEnds, SenderFails, SenderCloses, Join, EndCall, Return

\* What the loop over the answers makes of the replies dealt with.
LEMMA RangeHandled ==
    ASSUME IInv, [CmdsNext]_ccVars, RangeStep, C.prints # "none", NEW t \in 1..ntgt, NEW h,
           h = Head(todo).t
    PROVE  /\ Kind # ClientStream /\ h \in 1..ntgt /\ h \in Asked /\ nrep[t] \in Nat
           /\ nrep' = nrep /\ link' = link /\ Handled(t) <= Handled(t)'
           /\ Head(todo).k = "reply" =>
                 /\ todo' = <<>> /\ link[h] # "failed" /\ (Kind # Unary => link[h] = "open")
                 /\ Head(todo).n = nrep[h] /\ nrep[h] > 0
                 /\ Handled(t) = IF t = h THEN nrep[t] - 1 ELSE nrep[t]
                 /\ Handled(t)' = nrep[t]
           /\ Head(todo).k # "reply" =>
                 /\ link[t] \in {"ok", "failed"} => Handled(t) = nrep[t] /\ Handled(t)' = nrep[t]
                 /\ todo' = Tail(todo) => Handled(t)' = Handled(t)
<1>1. /\ CmdsTypeOK /\ PlaceInv /\ LinkInv /\ TodoInv /\ WellMade(cmd, C)
  BY BatchFacts DEF IInv
<1>2. Kind # ClientStream
  BY <1>1 DEF WellMade, Kind, Mpa_Get, Unary, ClientStream
<1>3. pc = "range" /\ todo # <<>> /\ nrep' = nrep /\ link' = link
  BY RangeFacts
<1>4. /\ Head(todo) = todo[1] /\ Len(todo) \in Nat \ {0} /\ h \in 1..ntgt /\ todo \in Seq(Answers)
      /\ DOMAIN todo = 1..Len(todo) /\ Len(Tail(todo)) = Len(todo) - 1
      /\ DOMAIN Tail(todo) = 1..Len(todo) - 1
      /\ \A i \in 1..Len(todo) - 1 : Tail(todo)[i] = todo[i + 1]
  <2>1. todo \in Seq(Answers)
    BY <1>1 DEF CmdsTypeOK
  <2> QED
    BY <1>1, <1>3, <2>1, SlotFacts
<1>5. /\ 1 \in 1..Len(todo) /\ \A i \in 1..Len(todo) : i < Len(todo) => todo[i].k = "error"
      /\ \A i \in 1..Len(todo) - 1 : i + 1 \in 1..Len(todo)
      /\ \A i \in 1..Len(todo) : i # 1 => i - 1 \in 1..Len(todo) - 1 /\ (i - 1) + 1 = i
  BY <1>1, <1>2, <1>4 DEF TodoInv
<1>6. nrep[t] \in Nat
  BY <1>1 DEF CmdsTypeOK
<1>7. /\ h \in Asked
      /\ Head(todo).k = "reply" => /\ link[h] # "failed" /\ (Kind # Unary => link[h] = "open")
                                   /\ Head(todo).n = nrep[h] /\ nrep[h] > 0
  BY <1>1, <1>2, <1>4, <1>5 DEF TodoInv, Unary
<1>8. todo' = <<>> \/ todo' = Tail(todo)
  BY RangeFacts
<1>9. Pending(t, "reply")' => Pending(t, "reply")
  <2>1. CASE todo' = Tail(todo)
    BY <1>4, <1>5, <2>1 DEF Pending
  <2>2. CASE todo' = <<>>
    BY <2>2 DEF Pending
  <2> QED
    BY <1>8, <2>1, <2>2
<1>10. Handled(t) <= Handled(t)'
  BY <1>3, <1>6, <1>9 DEF Handled
<1>11. CASE Head(todo).k = "reply"
  <2>1. Len(todo) = 1
    BY <1>4, <1>5, <1>11
  <2>2. todo' = <<>>
    <3>1. Tail(todo) \in Seq(Answers) /\ Len(Tail(todo)) = 0
      BY <1>1, <1>3, <2>1, SlotFacts
    <3> QED
      BY <1>8, <3>1
  <2>3. \A i \in 1..Len(todo) : i = 1
    BY <2>1
  <2>4. Pending(t, "reply") <=> t = h
    BY <1>4, <1>5, <1>11, <2>3 DEF Pending
  <2>5. ~Pending(t, "reply")'
    BY <2>2 DEF Pending
  <2> QED
    BY <1>2, <1>3, <1>4, <1>6, <1>7, <1>10, <1>11, <2>2, <2>4, <2>5 DEF Handled
<1>12. CASE Head(todo).k # "reply"
  <2>1. ASSUME link[t] \in {"ok", "failed"}
        PROVE  ~Pending(t, "reply")
    <3> SUFFICES ASSUME NEW i \in DOMAIN todo, todo[i].t = t, todo[i].k = "reply"
                 PROVE  FALSE
      BY DEF Pending
    <3>1. link[t] = "ok" /\ Kind = Unary
      BY <1>1, <1>2, <2>1 DEF TodoInv
    <3>2. Len(todo) = 1
      BY <1>1, <1>3, <3>1 DEF TodoInv
    <3> QED
      BY <1>4, <1>12, <3>2
  <2>2. todo' = Tail(todo) /\ Pending(t, "reply") => Pending(t, "reply")'
    <3> SUFFICES ASSUME NEW i \in 1..Len(todo), todo[i].t = t, todo[i].k = "reply",
                        todo' = Tail(todo)
                 PROVE  Pending(t, "reply")'
      BY <1>4 DEF Pending
    <3>1. i # 1
      BY <1>4, <1>12
    <3>2. i - 1 \in DOMAIN todo' /\ todo'[i - 1] = todo[i]
      BY <1>4, <1>5, <3>1
    <3> QED
      BY <3>2 DEF Pending
  <2> QED
    BY <1>2, <1>3, <1>4, <1>6, <1>7, <1>9, <1>10, <1>12, <2>1, <2>2 DEF Handled
<1> QED
  BY <1>11, <1>12

LEMMA DueKept ==
    ASSUME IInv, [CmdsNext]_ccVars, RangeStep, NEW t \in 1..ntgt, Due(t)'
    PROVE  Due(t)
<1>1. /\ C' = C /\ full' = full /\ mishap \subseteq mishap' /\ UNCHANGED <<at, stage, link>>
      /\ pc = "range"
  BY LineKept, MarksKept, RangeFacts
<1>2. Asked' = Asked
  BY <1>1, CallKept
<1>3. done \subseteq done'
  BY DEF RangeStep, HandleError, HandleEOF, HandleReply, WriteFails, HandleLog, HandleAction
<1> QED
  BY <1>1, <1>2, <1>3 DEF Due, InCall

\* The invariant of the outputs, for the steps of the loop over the answers.
LEMMA RangeOut ==
    ASSUME IInv, [CmdsNext]_ccVars, RangeStep, cmd # "dmesgCmd", C.prints # "none",
           NEW t \in 1..ntgt, OutOf(t)
    PROVE  OutOf(t)'
<1> DEFINE a == Head(todo)
           h == Head(todo).t
<1>1. /\ CmdsTypeOK /\ CmdsTypeOK' /\ DoneInv /\ LinkInv /\ WellMade(cmd, C)
      /\ C' = C /\ full' = full
      /\ Slot(Index(h)) = h /\ pc = "range" /\ UNCHANGED <<at, stage>> /\ Asked' = Asked
  <2>1. pc = "range" /\ UNCHANGED <<at, stage>> /\ todo # <<>>
    BY RangeFacts
  <2>2. CmdsTypeOK /\ CmdsTypeOK' /\ DoneInv /\ LinkInv
    BY TypeKept DEF IInv
  <2> QED
    BY <2>1, <2>2, BatchFacts, SlotFacts, CallKept, LineKept
<1>2. /\ h \in 1..ntgt /\ h \in Asked /\ nrep[t] \in Nat
      /\ nrep' = nrep /\ link' = link /\ Handled(t) <= Handled(t)'
      /\ a.k = "reply" =>
            /\ todo' = <<>> /\ link[h] # "failed" /\ (Kind # Unary => link[h] = "open")
            /\ a.n = nrep[h] /\ nrep[h] > 0
            /\ Handled(t) = IF t = h THEN nrep[t] - 1 ELSE nrep[t]
            /\ Handled(t)' = nrep[t]
      /\ a.k # "reply" =>
            /\ link[t] \in {"ok", "failed"} => Handled(t) = nrep[t] /\ Handled(t)' = nrep[t]
            /\ todo' = Tail(todo) => Handled(t)' = Handled(t)
  BY RangeHandled
<1>3. Due(t)' => Due(t) /\ (pc' = "end" => link[t] = "ok")
  <2>1. Due(t)' /\ pc' = "end" => link'[t] = "ok"
    BY DEF Due, InCall
  <2> QED
    BY <1>2, <2>1, DueKept
<1> HIDE DEF a, h
<1>4. CASE out'[t] = out[t] /\ a.k # "reply"
  <2>1. Due(t)' => Handled(t)' = Handled(t)
    <3>1. todo' = Tail(todo) \/ pc' = "end"
      BY RangeFacts
    <3> QED
      BY <1>2, <1>3, <1>4, <3>1
  <2> QED
    BY <1>1, <1>2, <1>3, <1>4, <2>1, OutSame
<1>5. CASE out'[t] = out[t] /\ a.k = "reply" /\ t # h
  BY <1>1, <1>2, <1>3, <1>5, OutSame
<1>6. CASE out'[t] = out[t] /\ a.k = "reply" /\ ~(Counted /\ Due(t)')
  BY <1>1, <1>2, <1>3, <1>6, OutSame
<1>7. CASE HandleError
  <2>1. a.k = "error" /\ link[h] = "failed"
    <3>1. 1 \in DOMAIN todo /\ Head(todo) = todo[1] /\ Head(todo).k = "error"
      <4>1. todo # <<>> /\ Head(todo).k = "error" /\ todo \in Seq(Answers)
        BY <1>1, <1>7 DEF HandleError, CmdsTypeOK
      <4>2. Head(todo) = todo[1] /\ Len(todo) \in Nat \ {0}
        BY <1>1, <4>1, SlotFacts
      <4> QED
        BY <4>1, <4>2
    <3> QED
      BY <3>1 DEF a, h, IInv, TodoInv
  <2>2. CASE out' = out
    BY <1>4, <2>1, <2>2
  <2>3. CASE out' # out
    <3>1. out' = [out EXCEPT ![h] = Written(h, [t |-> h, n |-> 0])]
      BY <1>1, <1>7, <2>3 DEF HandleError, h
    <3>2. CASE t # h
      <4>1. out'[t] = out[t]
        BY <3>1, <3>2
      <4> QED
        BY <1>4, <2>1, <4>1
    <3>3. CASE t = h
      <4> DEFINE r == [t |-> h, n |-> 0]
      <4>1. r.t = t /\ r.n = 0
        BY <3>3
      <4>2. out'[t] = Append(out[t], r) \/ out'[t] = <<r>>
        <5>1. out'[t] = Written(t, r)
          BY <1>1, <3>1, <3>3 DEF CmdsTypeOK
        <5> HIDE DEF r
        <5> QED
          BY <5>1 DEF Written
      <4>3. r.n <= Handled(t)'
        BY <1>2, <2>1, <3>3, <4>1
      <4>4. ~Due(t)'
        BY <1>2, <2>1, <3>3 DEF Due
      <4> HIDE DEF r
      <4> QED
        BY <1>1, <1>2, <4>1, <4>2, <4>3, <4>4, OutAdded
    <3> QED
      BY <3>2, <3>3
  <2> QED
    BY <2>2, <2>3
<1>8. CASE HandleEOF
  BY <1>4, <1>8 DEF HandleEOF, a
<1>9. CASE HandleReply
  <2>1. a.k = "reply" /\ stage = "main"
    BY <1>9 DEF HandleReply, a
  <2>2. C.index # "position"
    BY <1>1 DEF WellMade
  <2>3. PICK bad \in BOOLEAN :
            /\ C.write \in {"mark", "stop", "cut"} => h \notin full \cup done
            /\ out' = IF C.prints = "none" \/ (bad /\ C.bad \in {"told", "both"}) THEN out
                      ELSE [out EXCEPT ![h] = Written(h, [t |-> h, n |-> a.n])]
    BY <1>1, <1>9, <2>2 DEF HandleReply, a, h
  <2>4. CASE bad /\ C.bad \in {"told", "both"}
    BY <1>6, <2>1, <2>3, <2>4 DEF Counted
  <2>5. CASE ~(bad /\ C.bad \in {"told", "both"})
    <3>1. out' = [out EXCEPT ![h] = Written(h, [t |-> h, n |-> a.n])]
      BY <2>3, <2>5
    <3>2. CASE t # h
      <4>1. out'[t] = out[t]
        BY <3>1, <3>2
      <4> QED
        BY <1>5, <2>1, <3>2, <4>1
    <3>3. CASE t = h
      <4> DEFINE r == [t |-> h, n |-> a.n]
      <4>1. r.t = t /\ r.n = nrep[t] /\ nrep[t] > 0
        BY <1>2, <2>1, <3>3
      <4>2. out'[t] = Append(out[t], r) \/ (out'[t] = <<r>> /\ C.write = "last")
        <5>1. out'[t] = Written(t, r)
          BY <1>1, <3>1, <3>3 DEF CmdsTypeOK
        <5> HIDE DEF r
        <5> QED
          BY <5>1 DEF Written
      <4> HIDE DEF r
      <4>3. C.write = "last" => nrep[t] <= 1
        <5>1. C.write = "last" => Kind = Unary
          BY <1>1, <2>1 DEF WellMade, Kind
        <5> QED
          BY <1>1, <1>2, <3>3, <5>1 DEF LinkInv, InCall
      <4>4. Due(t)
        BY <1>1, <1>2, <2>1, <2>3, <3>3 DEF Due, InCall
      <4>5. Handled(t)' = r.n /\ Handled(t) = r.n - 1 /\ r.n \in Nat /\ r.n > 0
        BY <1>2, <2>1, <3>3, <4>1
      <4>6. r.n <= Handled(t)' /\ r.n # 0
        BY <4>5
      <4> QED
        BY <1>1, <1>2, <4>1, <4>2, <4>3, <4>4, <4>5, <4>6, OutAdded
    <3> QED
      BY <3>2, <3>3
  <2> QED
    BY <2>4, <2>5
<1>10. CASE WriteFails
  <2>1. /\ out' = out /\ a.k = "reply" /\ C.write \in {"mark", "stop", "cut"}
        /\ \/ h \in done /\ done' = done /\ mishap' = mishap
           \/ h \in full /\ mishap' = mishap \cup {h}
    BY <1>1, <1>10 DEF WriteFails, a, h
  <2>2. h \in done => h \in mishap \/ C.write = "cut"
    BY <1>1, <1>2, <2>1 DEF DoneInv, InCall
  <2>3. t = h => ~Due(t)'
    BY <1>1, <2>1, <2>2 DEF Due
  <2> QED
    BY <1>5, <1>6, <2>1, <2>3
<1>11. CASE HandleLog
  BY <1>6, <1>11 DEF HandleLog, Counted, a
<1>12. CASE HandleAction
  <2>1. out' = out /\ a.k = "reply" /\ ~Due(t)'
    BY <1>1, <1>12 DEF HandleAction, Due, a
  <2> QED
    BY <1>6, <2>1
<1> QED
  BY <1>7, <1>8, <1>9, <1>10, <1>11, <1>12 DEF RangeStep

LEMMA OutKept ==
    ASSUME IInv, [CmdsNext]_ccVars
    PROVE  OutInv'
<1> SUFFICES ASSUME cmd # "dmesgCmd", NEW t \in 1..ntgt, OutOf(t)
             PROVE  OutOf(t)'
  <2>1. OutInv' <=> (cmd' # "dmesgCmd" => \A t \in 1..ntgt' : OutOf(t)')
    BY DEF OutInv, OutOf, Counted
  <2> QED
    BY <2>1, OutParts, LineKept DEF IInv
<1>1. /\ CmdsTypeOK /\ CmdsTypeOK' /\ LinkInv /\ TodoInv /\ PlaceInv /\ WellMade(cmd, C)
      /\ C' = C /\ full' = full /\ Asked \subseteq 1..ntgt /\ Asked \subseteq Batch
      /\ nrep[t] \in Nat /\ nrep'[t] \in Nat
  <2>1. CmdsTypeOK /\ CmdsTypeOK' /\ LinkInv /\ TodoInv /\ PlaceInv
    BY TypeKept DEF IInv
  <2> QED
    BY <2>1, LineKept, BatchFacts, HandledTypes
<1>2. CASE C.prints = "none"
  <2>1. out[t] = <<>> /\ DOMAIN out = 1..ntgt
    BY <1>1, <1>2 DEF OutOf, CmdsTypeOK
  <2>2. out' = out \/ out' = [x \in DOMAIN out |-> IF x \in Batch THEN <<>> ELSE out[x]]
    <3>1. CASE CallStarts
      BY <3>1 DEF CallStarts
    <3>2. CASE RangeStep
      BY <1>1, <1>2, <3>2
         DEF RangeStep, HandleError, HandleEOF, HandleReply, WriteFails, HandleLog,
             HandleAction, WellMade
    <3> QED
      BY <3>1, <3>2, OutLeft
  <2>3. out'[t] = <<>>
    BY <2>1, <2>2
  <2>4. ~Due(t)'
    BY <1>1, <1>2 DEF Due
  <2> QED
    BY <2>3, <2>4 DEF OutOf, Rising
<1>3. CASE C.prints # "none" /\ RangeStep
  BY <1>3, RangeOut
<1>4. CASE CallStarts
  <2>1. /\ pc = "call" /\ todo' = <<>> /\ Asked' = Asked /\ DOMAIN out = 1..ntgt
        /\ out' = [x \in DOMAIN out |-> IF x \in Batch THEN <<>> ELSE out[x]]
        /\ nrep'[t] = IF t \in Asked THEN 0 ELSE nrep[t]
    BY <1>1, <1>4, StartFacts, CallKept DEF CallStarts, TodoInv, CmdsTypeOK
  <2>2. Handled(t)' = nrep'[t] /\ Handled(t) = nrep[t]
    BY <1>1, <1>4, <2>1 DEF Handled, Pending, CallStarts, TodoInv
  <2>3. CASE t \in Batch
    <3>1. out'[t] = <<>>
      BY <2>1, <2>3
    <3>2. Due(t)' => Handled(t)' = 0
      BY <2>1, <2>2 DEF Due
    <3> QED
      BY <3>1, <3>2 DEF OutOf, Rising, Holds
  <2>4. CASE t \notin Batch
    <3>1. out'[t] = out[t] /\ ~Due(t)' /\ Handled(t)' = Handled(t)
      BY <1>1, <2>1, <2>2, <2>4 DEF Due
    <3> QED
      BY <1>1, <2>2, <3>1, OutSame
  <2> QED
    BY <2>3, <2>4
<1>5. CASE Recv
  <2>1. /\ out' = out /\ UNCHANGED <<stage, done, mishap>> /\ Asked' = Asked /\ pc = "recv"
        /\ todo = <<>> /\ owed \subseteq Asked
    BY <1>1, <1>5, CallKept
       DEF Recv, textVars, runVars, TodoInv, LinkInv, InCall
  <2>2. ASSUME NEW x \in Asked, NEW k \in {"reply", "eof", "error"},
               Pending(t, "reply")' <=> t = x /\ k = "reply",
               nrep'[t] = IF t = x /\ k = "reply" THEN nrep[t] + 1 ELSE nrep[t],
               link'[t] # "failed" => link[t] # "failed"
        PROVE  OutOf(t)'
    <3>1. Handled(t)' = Handled(t) /\ Handled(t) = nrep[t]
      BY <1>1, <2>1, <2>2 DEF Handled, Pending
    <3>2. Due(t)' => Due(t)
      BY <1>1, <1>5, <2>1, <2>2 DEF Due, InCall, Recv
    <3> QED
      BY <1>1, <2>1, <3>1, <3>2, OutSame
  <2>3. CASE Kind = Unary
    <3>1. PICK x \in Asked, k \in {"reply", "error"} :
              UnaryAnswer(Asked, Answer(x, k)) /\ todo' = <<Answer(x, k)>>
      BY <1>5, <2>3 DEF Recv
    <3>2. /\ nrep'[t] = IF t = x /\ k = "reply" THEN nrep[t] + 1 ELSE nrep[t]
          /\ link'[t] # "failed" => link[t] # "failed"
      BY <1>1, <3>1, UnaryFacts
    <3>3. Pending(t, "reply")' <=> t = x /\ k = "reply"
      <4>1. /\ DOMAIN todo' = 1..1 /\ todo'[1] = Answer(x, k) /\ 1 \in 1..1
            /\ \A i \in 1..1 : i = 1
        BY <3>1
      <4>2. Answer(x, k).t = x /\ Answer(x, k).k = k
        BY DEF Answer
      <4> QED
        BY <4>1, <4>2 DEF Pending
    <3> QED
      BY <2>2, <3>2, <3>3
  <2>4. CASE Kind # Unary
    <3>1. PICK x \in Asked, k \in {"reply", "eof", "error"} :
              RecvAnswers(Asked, x, k) /\ todo' = Received(x, k)
      BY <1>5, <2>4 DEF Recv
    <3>2. /\ nrep'[t] = IF t = x /\ k = "reply" THEN nrep[t] + 1 ELSE nrep[t]
          /\ link'[t] # "failed" => link[t] # "failed"
      BY <1>1, <3>1, RecvFacts
    <3>3. Pending(t, "reply")' <=> t = x /\ k = "reply"
      <4>1. /\ Len(todo') \in Nat \ {0} /\ DOMAIN todo' = 1..Len(todo')
            /\ todo'[Len(todo')].t = x /\ todo'[Len(todo')].k = k
            /\ \A i \in 1..Len(todo') : i < Len(todo') => todo'[i].k = "error"
        BY <1>1, <2>1, <3>1, ReceivedFacts
      <4>2. \A m \in Nat \ {0} : m \in 1..m /\ \A i \in 1..m : i = m \/ i < m
        OBVIOUS
      <4> QED
        BY <4>1, <4>2 DEF Pending
    <3> QED
      BY <2>2, <3>2, <3>3
  <2> QED
    BY <2>3, <2>4
<1>6. CASE Collect /\ C.prints # "none"
  <2>1. Kind = ClientStream
    BY <1>1, <1>6 DEF Collect, PlaceInv
  <2> QED
    BY <1>1, <1>6, <2>1 DEF WellMade, Kind, Mpa_Get, Unary, ClientStream
<1>7. CASE ~RangeStep /\ ~CallStarts /\ ~Recv /\ ~Collect
  <2>1. out' = out /\ todo' = todo
    BY <1>7, OutLeft, OtherFacts
  <2>2. nrep' = nrep
    BY <1>7, LibraryKept DEF CallRefused, CallFails, Library, RPCLost, UnaryClosed
  <2>3. Handled(t)' = Handled(t)
    BY <2>1, <2>2 DEF Handled, Pending
  <2>4. Due(t)' => Due(t)
    <3> SUFFICES ASSUME Due(t)'
                 PROVE  Due(t)
      OBVIOUS
    <3>1. CASE CallRefused
      <4>1. pc' = "end" /\ link' = Moved(Asked, "failed") /\ Asked' = Asked
        BY <3>1, CallKept DEF CallRefused, CallFails
      <4> QED
        BY <1>1, <4>1, MovedTyped DEF Due, InCall
    <3>2. CASE ~CallRefused
      <4>1. InCall' \/ pc' = "end"
        BY DEF Due
      <4>2. /\ UNCHANGED <<at, stage, mishap>> /\ done' = done
            /\ InCall' => InCall
            /\ pc' = "end" => InCall \/ pc = "end"
        BY <1>7, <3>2, <4>1
           DEF CmdsNext, CmdsStep, Confirm, ConfirmAgain, Exited, ccVars, flowVars, textVars,
               runVars, Dial, Parse, Upload, UploadFails, RecvEnds, RecvLost, Library,
               UploadEnds, SenderFails, SenderCloses, Join, EndCall, Return, InCall, RangeStep
      <4>3. Asked' = Asked
        BY <4>2, CallKept
      <4>4. (link'[t] # "failed" => link[t] # "failed") /\ (~Library => link' = link)
        <5>1. CASE Library
          <6>1. CASE UnaryClosed(Asked)
            <7>1. PICK x \in Asked : link[x] = "answered" /\ link' = Moved({x}, "ok")
              BY <6>1 DEF UnaryClosed
            <7> QED
              BY <1>1, <5>1, <7>1, MovedTyped
          <6> QED
            BY <5>1, <6>1 DEF Library, RPCLost
        <5> QED
          BY <1>7, <3>2, <5>1, LibraryKept
      <4>5. Library => pc' # "end"
        BY DEF Library, flowVars
      <4> QED
        BY <1>1, <4>2, <4>3, <4>4, <4>5 DEF Due
    <3> QED
      BY <3>1, <3>2
  <2>5. Handled(t) \in Int
    BY <1>1, HandledTypes
  <2> QED
    BY <1>1, <2>1, <2>3, <2>4, <2>5, OutSame
<1> QED
  BY <1>2, <1>3, <1>4, <1>5, <1>6, <1>7

(***************************************************************************)
(* The theorems.                                                           *)
(***************************************************************************)
LEMMA Begins ==
    ASSUME CmdsInit
    PROVE  IInv
<1>1. /\ cmd \in DOMAIN Commands /\ ntgt \in Nat \ {0} /\ size \in 1..ntgt /\ at = 1
      /\ pc \in {"parse", "dial"} /\ stage = "main" /\ todo = <<>>
  BY CmdsAssumption, CommandsAssumption DEF CmdsInit
<1>2. WellMade(cmd, C)
  BY <1>1, CommandsWellMade DEF C
<1>3. CmdsTypeOK
  <2>1. parse \in {Ok, Failed, Usage}
    BY <1>2 DEF CmdsInit, WellMade
  <2>2. todo \in Seq(Answers) /\ out \in [1..ntgt -> Seq([t : 1..ntgt, n : Nat])]
    <3>1. \A S : <<>> \in Seq(S)
      OBVIOUS
    <3> QED
      BY <1>1, <3>1 DEF CmdsInit
  <2>3. 1 \in 1..ntgt
    BY <1>1
  <2>4. /\ told \in [1..ntgt -> SUBSET Lines] /\ nrep \in [1..ntgt -> Nat] /\ gone \in BOOLEAN
        /\ link \in [1..ntgt -> {"idle", "open", "answered", "ok", "failed"}]
    BY DEF CmdsInit
  <2>5. /\ pc \in Positions /\ file \in Nat \ {0} /\ ret \in {Ok, Failed, Usage}
        /\ sres \in {Ok, Failed} /\ code \in {Ok, Failed}
    BY <1>1 DEF CmdsInit, Positions
  <2> QED
    BY <1>1, <2>1, <2>2, <2>3, <2>4, <2>5 DEF CmdsTypeOK
<1>4. PlaceInv /\ LinkInv /\ TodoInv /\ UploadInv /\ FailInv /\ DoneInv
  BY <1>1 DEF CmdsInit, PlaceInv, LinkInv, TodoInv, UploadInv, FailInv, DoneInv, InCall
<1>5. StatusInv
  BY <1>1 DEF CmdsInit, StatusInv, Ok
<1>6. OutInv
  <2> SUFFICES ASSUME NEW t \in 1..ntgt
               PROVE  OutOf(t)
    BY OutParts
  <2>1. out[t] = <<>> /\ ~Due(t)
    BY <1>1 DEF CmdsInit, Due, InCall
  <2> QED
    BY <2>1 DEF OutOf, Rising
<1> QED
  BY <1>3, <1>4, <1>5, <1>6 DEF IInv

LEMMA Steps ==
    ASSUME IInv, [CmdsNext]_ccVars
    PROVE  IInv'
BY TypeKept, PlaceKept, LinkKept, TodoKept, UploadKept, FailKept, DoneKept, StatusKept, OutKept
   DEF IInv

\* Of every run of a command, whatever it is called with: a target that has failed is, at
\* every moment of its call, held back by the library, in the answers in hand, or marked
\* in the status and told of; held back for ever only if no target of the call started.
THEOREM Invariance == CmdsSpec => []IInv
<1>1. CmdsInit => IInv
  BY Begins
<1>2. IInv /\ [CmdsNext]_ccVars => IInv'
  BY Steps
<1> QED
  BY <1>1, <1>2, PTL DEF CmdsSpec

\* A process that exits with success, or a helper that returns nil, has had no target fail
\* in any batch and lost no output: Run of cmd/sanssh/client keeps the worst status of its
\* batches, and each Execute marks what it sees.  It does not see the refusals of a stream
\* that every target of the call refuses during its setup, which the statement excepts.
THEOREM ExitTells == CmdsSpec => []ExitTellsFailure
<1>1. IInv => ExitTellsFailure
  BY DEF IInv, StatusInv, Strict, ExitTellsFailure, Ok
<1> QED
  BY <1>1, Invariance, PTL

\* When the process has ended, every target that failed has a line in its own error file
\* or stderr has one, for the commands that name failures at all: unless every target of
\* the call refused the stream during its setup.
THEOREM FailuresNamed == CmdsSpec => []FailureNamed
<1>1. IInv => FailureNamed
  BY DEF IInv, StatusInv, Naming, FailureNamed
<1> QED
  BY <1>1, Invariance, PTL

\* A target's output holds its own replies, in order and without a gap, and after a call
\* that went through all of its answers holds every one.
THEOREM OutputsOwn == CmdsSpec => []OutputOwn
<1>1. ASSUME IInv
      PROVE  OutputOwn
  <2> SUFFICES ASSUME cmd # "dmesgCmd", NEW t \in 1..ntgt
               PROVE  /\ \A i \in DOMAIN out[t] : out[t][i].t = t /\ out[t][i].n <= nrep[t]
                      /\ Rising(t)
                      /\ C.bad \notin {"told", "both"} /\ ~C.logs =>
                            /\ \A i \in DOMAIN out[t] : Holds(t, out[t][i].n)
                            /\ pc = "end" /\ stage = "main" /\ t \in Asked \ mishap
                               /\ C.prints # "none" /\ C.write # "cut" /\ link[t] = "ok"
                               => Holds(t, nrep[t])
    BY DEF OutputOwn
  <2>1. CmdsTypeOK /\ TodoInv /\ OutOf(t)
    BY <1>1, OutParts DEF IInv
  <2>2. nrep[t] \in Nat /\ \A i \in DOMAIN out[t] : out[t][i].n \in Nat
    BY <2>1, OutTypes DEF CmdsTypeOK
  <2>3. Handled(t) \in {nrep[t], nrep[t] - 1} /\ (pc = "end" => Handled(t) = nrep[t])
    BY <2>1 DEF Handled, Pending, TodoInv
  <2>4. \A i \in DOMAIN out[t] : out[t][i].t = t /\ out[t][i].n <= nrep[t]
    BY <2>1, <2>2, <2>3 DEF OutOf
  <2>5. pc = "end" /\ stage = "main" /\ t \in Asked \ mishap
        /\ C.prints # "none" /\ C.write # "cut" /\ link[t] = "ok" => Due(t)
    BY DEF Due
  <2> QED
    BY <2>1, <2>3, <2>4, <2>5 DEF OutOf, Counted
<1> QED
  BY <1>1, Invariance, PTL
=============================================================================
