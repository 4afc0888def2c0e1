------------------------ MODULE TargetScripts_proofs ------------------------
(***************************************************************************)
(* Every handler's script is orderly: requests are checked before the host *)
(* is changed, what is made on the way is under a defer, an upload that is *)
(* begun is ended, the status that is told is the last command's, and      *)
(* certificates are checked, loaded, stored and used in this order.        *)
(***************************************************************************)
EXTENDS TargetServer, TLAPS

\* Whether a step refuses, acts or tells, by its kind.
LEMMA StepKinds ==
    ASSUME NEW w, w # "run"
    PROVE  /\ Step(w).do = w
           /\ Acting(Step(w)) <=> w \in {"change", "commit", "replace", "write", "wait"}
           /\ Refusing(Step(w)) <=> w \in {"refuse", "serve", "bucket", "contents", "fillCreds"}
           /\ Telling(Step(w)) <=> w = "wait"
BY DEF Step, Acting, Refusing, Telling

\* The same for the steps that have a name,
LEMMA NamedKinds ==
    /\ Refuse.do = "refuse" /\ ~Acting(Refuse) /\ Refusing(Refuse) /\ ~Telling(Refuse)
    /\ Try.do = "try" /\ ~Acting(Try) /\ ~Refusing(Try) /\ ~Telling(Try)
    /\ Change.do = "change" /\ Acting(Change) /\ ~Refusing(Change) /\ ~Telling(Change)
    /\ Send.do = "send" /\ ~Acting(Send) /\ ~Refusing(Send) /\ ~Telling(Send)
    /\ Temp.do = "temp" /\ ~Acting(Temp) /\ ~Refusing(Temp) /\ ~Telling(Temp)
    /\ Commit.do = "commit" /\ Acting(Commit) /\ ~Refusing(Commit) /\ ~Telling(Commit)
BY StepKinds DEF Refuse, Try, Change, Send, Temp, Commit

\* for those with a parameter,
LEMMA FormKinds ==
    /\ \A k : /\ Parse(k).do = "parse" /\ ~Acting(Parse(k)) /\ ~Refusing(Parse(k))
              /\ ~Telling(Parse(k))
    /\ \A w : /\ Defer(w).do = "defer" /\ ~Acting(Defer(w)) /\ ~Refusing(Defer(w))
              /\ ~Telling(Defer(w)) /\ Defer(w).when = w
    /\ \A n : /\ Maybe(n).do = "maybe" /\ ~Acting(Maybe(n)) /\ ~Refusing(Maybe(n))
              /\ ~Telling(Maybe(n)) /\ Maybe(n).n = n
BY DEF Parse, Defer, Maybe, Acting, Refusing, Telling

\* and for commands.
LEMMA RunKinds ==
    LET Ordinary(e) == /\ e.do = "run" /\ ~Refusing(e) /\ e.acts \in BOOLEAN
                       /\ e.rule \in {"strict", "quiet", "hint", "code"}
    IN  /\ Ordinary(Act) /\ Acting(Act) /\ ~Telling(Act)
        /\ Ordinary(Ask) /\ ~Acting(Ask) /\ ~Telling(Ask)
        /\ Ordinary(Quiet) /\ ~Acting(Quiet) /\ ~Telling(Quiet)
        /\ Ordinary(Hint) /\ ~Acting(Hint) /\ ~Telling(Hint)
        /\ Ordinary(Code) /\ Acting(Code) /\ Telling(Code)
BY DEF Act, Ask, Quiet, Hint, Code, Run, Acting, Refusing, Telling

\* A script without any of the steps that call for others.
Plain(s) ==
    /\ Len(s) \in Nat /\ DOMAIN s = 1..Len(s)
    /\ ChecksFirst(s) /\ TellsLast(s)
    /\ \A i \in DOMAIN s :
          s[i].do \notin {"maybe", "temp", "defer", "commit", "bucket", "upload"} \cup CertSteps

\* There is nothing else to ask of such a script.
LEMMA PlainOrderly ==
    ASSUME NEW s, NEW name, name \notin Careless, Plain(s)
    PROVE  Orderly(name, s)
BY DEF Orderly, Plain, SkipsSafely, TempsGuarded, UploadsEnd, ReloadsInOrder, CertSteps,
   Careless

\* The scripts of that kind.
LEMMA PlainScripts ==
    /\ Orderly("Install", Install)
    /\ Orderly("Remove", Remove)
    /\ Orderly("Update", Update)
    /\ Orderly("ListInstalled", ListInstalled)
    /\ Orderly("RepoList", RepoList)
    /\ Orderly("Cleanup", Cleanup)
    /\ Orderly("ProcessList", ProcessList)
    /\ Orderly("Kill", Kill)
    /\ Orderly("GetStacks", GetStacks)
    /\ Orderly("GetJavaStacks", GetJavaStacks)
    /\ Orderly("ExecRun", ExecRun)
    /\ Orderly("StreamingRun", StreamingRun)
    /\ Orderly("PlaybookRun", PlaybookRun)
    /\ Orderly("Reboot", Reboot)
    /\ Orderly("Lookup", Lookup)
    /\ Orderly("TCPCheck", TCPCheck)
    /\ Orderly("ServiceList", ServiceList)
    /\ Orderly("ServiceStatus", ServiceStatus)
    /\ Orderly("ServiceJob", ServiceJob)
    /\ Orderly("ServiceEnable", ServiceEnable)
    /\ Orderly("Uptime", Uptime)
    /\ Orderly("Dmesg", Dmesg)
    /\ Orderly("Journal", Journal)
    /\ Orderly("Stat", Stat)
    /\ Orderly("Sum", Sum)
    /\ Orderly("List", List)
    /\ Orderly("Read", Read)
    /\ Orderly("Rm", Rm)
    /\ Orderly("Rmdir", Rmdir)
    /\ Orderly("Rename", Rename)
    /\ Orderly("Readlink", Readlink)
    /\ Orderly("Symlink", Symlink)
    /\ Orderly("Shred", Shred)
    /\ Orderly("DataGet", DataGet)
    /\ Orderly("DataSetYml", DataSetYml)
    /\ Orderly("DataSetDotenv", DataSetDotenv)
    /\ Orderly("ConfRead", ConfRead)
    /\ Orderly("FDBServer", FDBServer)
<1> USE DEF Plain, ChecksFirst, TellsLast, CertSteps
<1>1. Plain(Install)
  BY NamedKinds, RunKinds DEF Install
<1>2. Plain(Remove)
  BY NamedKinds, RunKinds DEF Remove
<1>3. Plain(Update)
  BY NamedKinds, RunKinds DEF Update
<1>4. Plain(ListInstalled)
  BY NamedKinds, RunKinds, FormKinds DEF ListInstalled
<1>5. Plain(RepoList)
  BY NamedKinds, RunKinds, FormKinds DEF RepoList
<1>6. Plain(Cleanup)
  BY NamedKinds, RunKinds DEF Cleanup
<1>7. Plain(ProcessList)
  BY NamedKinds, RunKinds, FormKinds DEF ProcessList
<1>8. Plain(Kill)
  BY NamedKinds DEF Kill
<1>9. Plain(GetStacks)
  BY NamedKinds, RunKinds, FormKinds DEF GetStacks
<1>10. Plain(GetJavaStacks)
  BY NamedKinds, RunKinds, FormKinds DEF GetJavaStacks
<1>11. Plain(ExecRun)
  BY NamedKinds, RunKinds DEF ExecRun
<1>12. Plain(StreamingRun)
  BY NamedKinds, StepKinds DEF StreamingRun
<1>13. Plain(PlaybookRun)
  BY NamedKinds, RunKinds DEF PlaybookRun
<1>14. Plain(Reboot)
  BY NamedKinds, RunKinds DEF Reboot
<1>15. Plain(Lookup)
  BY NamedKinds DEF Lookup
<1>16. Plain(TCPCheck)
  BY NamedKinds DEF TCPCheck
<1>17. Plain(ServiceList)
  BY NamedKinds DEF ServiceList
<1>18. Plain(ServiceStatus)
  BY NamedKinds DEF ServiceStatus
<1>19. Plain(ServiceJob)
  BY NamedKinds, StepKinds DEF ServiceJob
<1>20. Plain(ServiceEnable)
  BY NamedKinds DEF ServiceEnable
<1>21. Plain(Uptime)
  BY NamedKinds DEF Uptime
<1>22. Plain(Dmesg)
  BY NamedKinds, StepKinds DEF Dmesg
<1>23. Plain(Journal)
  BY NamedKinds, RunKinds DEF Journal
<1>24. Plain(Stat)
  BY StepKinds DEF Stat
<1>25. Plain(Sum)
  BY StepKinds DEF Sum
<1>26. Plain(List)
  BY NamedKinds DEF List
<1>27. Plain(Read)
  BY NamedKinds, StepKinds DEF Read
<1>28. Plain(Rm)
  BY NamedKinds DEF Rm
<1>29. Plain(Rmdir)
  BY NamedKinds DEF Rmdir
<1>30. Plain(Rename)
  BY NamedKinds DEF Rename
<1>31. Plain(Readlink)
  BY NamedKinds DEF Readlink
<1>32. Plain(Symlink)
  BY NamedKinds DEF Symlink
<1>33. Plain(Shred)
  BY NamedKinds, RunKinds DEF Shred
<1>34. Plain(DataGet)
  BY NamedKinds, StepKinds DEF DataGet
<1>35. Plain(DataSetYml)
  BY NamedKinds, StepKinds DEF DataSetYml
<1>36. Plain(DataSetDotenv)
  BY NamedKinds, StepKinds DEF DataSetDotenv
<1>37. Plain(ConfRead)
  BY NamedKinds, StepKinds DEF ConfRead
<1>38. Plain(FDBServer)
  BY NamedKinds, RunKinds DEF FDBServer
<1> HIDE DEF Plain
<1> QED BY <1>1, <1>2, <1>3, <1>4, <1>5, <1>6, <1>7, <1>8, <1>9, <1>10, <1>11, <1>12, <1>13,
           <1>14, <1>15, <1>16, <1>17, <1>18, <1>19, <1>20, <1>21, <1>22, <1>23, <1>24, <1>25,
           <1>26, <1>27, <1>28, <1>29, <1>30, <1>31, <1>32, <1>33, <1>34, <1>35, <1>36, <1>37,
           <1>38, PlainOrderly DEF Careless

\* The others, each from its layout: Search may leave steps out,
LEMMA SearchOrderly == Orderly("Search", Search)
<1>1. /\ Len(Search) = 6 /\ DOMAIN Search = 1..6
      /\ Search[1] = Refuse /\ Search[2] = Ask /\ Search[3] = Parse("lines")
      /\ Search[4] = Maybe(2) /\ Search[5] = Ask /\ Search[6] = Parse("lines")
  BY DEF Search
<1>2. ChecksFirst(Search) /\ TellsLast(Search)
  BY <1>1, NamedKinds, RunKinds, FormKinds DEF ChecksFirst, TellsLast
<1>3. SkipsSafely(Search)
  BY <1>1, NamedKinds, RunKinds, FormKinds DEF SkipsSafely, CertSteps
<1>4. TempsGuarded("Search", Search)
  BY <1>1, NamedKinds, RunKinds, FormKinds DEF TempsGuarded, Careless
<1>5. UploadsEnd(Search)
  BY <1>1, NamedKinds, RunKinds, FormKinds DEF UploadsEnd
<1>6. ReloadsInOrder(Search)
  BY <1>1, NamedKinds, RunKinds, FormKinds DEF ReloadsInOrder
<1> QED BY <1>1, <1>2, <1>3, <1>4, <1>5, <1>6 DEF Orderly

\* GetMemoryDump removes its file whichever way it returns,
LEMMA GetMemoryDumpOrderly == Orderly("GetMemoryDump", GetMemoryDump)
<1>1. /\ Len(GetMemoryDump) = 6 /\ DOMAIN GetMemoryDump = 1..6
      /\ GetMemoryDump[1] = Refuse /\ GetMemoryDump[2] = Temp
      /\ GetMemoryDump[3] = Defer("always") /\ GetMemoryDump[4] = Ask
      /\ GetMemoryDump[5] = Try /\ GetMemoryDump[6] = Send
  BY DEF GetMemoryDump
<1>2. ChecksFirst(GetMemoryDump) /\ TellsLast(GetMemoryDump)
  BY <1>1, NamedKinds, RunKinds, FormKinds DEF ChecksFirst, TellsLast
<1>3. SkipsSafely(GetMemoryDump)
  BY <1>1, NamedKinds, RunKinds, FormKinds DEF SkipsSafely, CertSteps
<1>4. TempsGuarded("GetMemoryDump", GetMemoryDump)
  BY <1>1, NamedKinds, RunKinds, FormKinds DEF TempsGuarded, Careless
<1>5. UploadsEnd(GetMemoryDump)
  BY <1>1, NamedKinds, RunKinds, FormKinds DEF UploadsEnd
<1>6. ReloadsInOrder(GetMemoryDump)
  BY <1>1, NamedKinds, RunKinds, FormKinds DEF ReloadsInOrder
<1> QED BY <1>1, <1>2, <1>3, <1>4, <1>5, <1>6 DEF Orderly

\* also when the dump goes to a bucket,
LEMMA GetMemoryDumpUrlOrderly == Orderly("GetMemoryDumpUrl", GetMemoryDumpUrl)
<1>1. /\ Len(GetMemoryDumpUrl) = 7 /\ DOMAIN GetMemoryDumpUrl = 1..7
      /\ GetMemoryDumpUrl[1] = Refuse /\ GetMemoryDumpUrl[2] = Temp
      /\ GetMemoryDumpUrl[3] = Defer("always") /\ GetMemoryDumpUrl[4] = Step("bucket")
      /\ GetMemoryDumpUrl[5] = Ask /\ GetMemoryDumpUrl[6] = Try
      /\ GetMemoryDumpUrl[7] = Step("upload")
  BY DEF GetMemoryDumpUrl
<1>2. ChecksFirst(GetMemoryDumpUrl) /\ TellsLast(GetMemoryDumpUrl)
  BY <1>1, NamedKinds, RunKinds, FormKinds, StepKinds DEF ChecksFirst, TellsLast
<1>3. SkipsSafely(GetMemoryDumpUrl)
  BY <1>1, NamedKinds, RunKinds, FormKinds, StepKinds DEF SkipsSafely, CertSteps
<1>4. TempsGuarded("GetMemoryDumpUrl", GetMemoryDumpUrl)
  BY <1>1, NamedKinds, RunKinds, FormKinds, StepKinds DEF TempsGuarded, Careless
<1>5. UploadsEnd(GetMemoryDumpUrl)
  BY <1>1, NamedKinds, RunKinds, FormKinds, StepKinds DEF UploadsEnd
<1>6. ReloadsInOrder(GetMemoryDumpUrl)
  BY <1>1, NamedKinds, RunKinds, FormKinds, StepKinds DEF ReloadsInOrder
<1> QED BY <1>1, <1>2, <1>3, <1>4, <1>5, <1>6 DEF Orderly

\* GetTLSCertificate is one of the three that need not,
LEMMA GetTLSCertificateOrderly == Orderly("GetTLSCertificate", GetTLSCertificate)
<1>1. /\ Len(GetTLSCertificate) = 2 /\ DOMAIN GetTLSCertificate = 1..2
      /\ GetTLSCertificate[1] = Try /\ GetTLSCertificate[2] = Temp
  BY DEF GetTLSCertificate
<1>2. ChecksFirst(GetTLSCertificate) /\ TellsLast(GetTLSCertificate)
  BY <1>1, NamedKinds, FormKinds DEF ChecksFirst, TellsLast
<1>3. SkipsSafely(GetTLSCertificate)
  BY <1>1, NamedKinds, FormKinds DEF SkipsSafely, CertSteps
<1>4. TempsGuarded("GetTLSCertificate", GetTLSCertificate)
  BY <1>1, NamedKinds, FormKinds DEF TempsGuarded, Careless
<1>5. UploadsEnd(GetTLSCertificate)
  BY <1>1, NamedKinds, FormKinds DEF UploadsEnd
<1>6. ReloadsInOrder(GetTLSCertificate)
  BY <1>1, NamedKinds, FormKinds DEF ReloadsInOrder
<1> QED BY <1>1, <1>2, <1>3, <1>4, <1>5, <1>6 DEF Orderly

\* Host closes what it opens,
LEMMA HostOrderly == Orderly("Host", Host)
<1>1. /\ Len(Host) = 4 /\ DOMAIN Host = 1..4
      /\ Host[1] = Refuse /\ Host[2] = Temp /\ Host[3] = Defer("always") /\ Host[4] = Try
  BY DEF Host
<1>2. ChecksFirst(Host) /\ TellsLast(Host)
  BY <1>1, NamedKinds, FormKinds DEF ChecksFirst, TellsLast
<1>3. SkipsSafely(Host)
  BY <1>1, NamedKinds, FormKinds DEF SkipsSafely, CertSteps
<1>4. TempsGuarded("Host", Host)
  BY <1>1, NamedKinds, FormKinds DEF TempsGuarded, Careless
<1>5. UploadsEnd(Host)
  BY <1>1, NamedKinds, FormKinds DEF UploadsEnd
<1>6. ReloadsInOrder(Host)
  BY <1>1, NamedKinds, FormKinds DEF ReloadsInOrder
<1> QED BY <1>1, <1>2, <1>3, <1>4, <1>5, <1>6 DEF Orderly

\* and StreamHost does,
LEMMA StreamHostOrderly == Orderly("StreamHost", StreamHost)
<1>1. /\ Len(StreamHost) = 4 /\ DOMAIN StreamHost = 1..4
      /\ StreamHost[1] = Refuse /\ StreamHost[2] = Temp /\ StreamHost[3] = Defer("always")
      /\ StreamHost[4] = Send
  BY DEF StreamHost
<1>2. ChecksFirst(StreamHost) /\ TellsLast(StreamHost)
  BY <1>1, NamedKinds, FormKinds DEF ChecksFirst, TellsLast
<1>3. SkipsSafely(StreamHost)
  BY <1>1, NamedKinds, FormKinds DEF SkipsSafely, CertSteps
<1>4. TempsGuarded("StreamHost", StreamHost)
  BY <1>1, NamedKinds, FormKinds DEF TempsGuarded, Careless
<1>5. UploadsEnd(StreamHost)
  BY <1>1, NamedKinds, FormKinds DEF UploadsEnd
<1>6. ReloadsInOrder(StreamHost)
  BY <1>1, NamedKinds, FormKinds DEF ReloadsInOrder
<1> QED BY <1>1, <1>2, <1>3, <1>4, <1>5, <1>6 DEF Orderly

\* SetFileAttributes makes nothing,
LEMMA SetFileAttributesOrderly == Orderly("SetFileAttributes", SetFileAttributes)
<1>1. /\ Len(SetFileAttributes) = 9 /\ DOMAIN SetFileAttributes = 1..9
      /\ SetFileAttributes[1] = Refuse /\ SetFileAttributes[2] = Refuse
      /\ SetFileAttributes[3] = Try /\ SetFileAttributes[4] = Maybe(1)
      /\ SetFileAttributes[5] = Change /\ SetFileAttributes[6] = Maybe(1)
      /\ SetFileAttributes[7] = Change /\ SetFileAttributes[8] = Maybe(1)
      /\ SetFileAttributes[9] = Change
  BY DEF SetFileAttributes, validateAndSetAttrs
<1>2. ChecksFirst(SetFileAttributes) /\ TellsLast(SetFileAttributes)
  BY <1>1, NamedKinds, FormKinds DEF ChecksFirst, TellsLast
<1>3. SkipsSafely(SetFileAttributes)
  BY <1>1, NamedKinds, FormKinds DEF SkipsSafely, CertSteps
<1>4. TempsGuarded("SetFileAttributes", SetFileAttributes)
  BY <1>1, NamedKinds, FormKinds DEF TempsGuarded, Careless
<1>5. UploadsEnd(SetFileAttributes)
  BY <1>1, NamedKinds, FormKinds DEF UploadsEnd
<1>6. ReloadsInOrder(SetFileAttributes)
  BY <1>1, NamedKinds, FormKinds DEF ReloadsInOrder
<1> QED BY <1>1, <1>2, <1>3, <1>4, <1>5, <1>6 DEF Orderly

\* Write keeps its file on success only, and then it has renamed it,
LEMMA WriteOrderly == Orderly("Write", Write)
<1>1. /\ Len(Write) = 14 /\ DOMAIN Write = 1..14
      /\ Write[1] = Try /\ Write[2] = Refuse /\ Write[3] = Defer("error")
      /\ Write[4] = Refuse /\ Write[5] = Temp /\ Write[6] = Refuse /\ Write[7] = Try
      /\ Write[8] = Step("contents") /\ Write[9] = Try /\ Write[10] = Step("exists")
      /\ Write[11] = Try /\ Write[12] = Commit /\ Write[13] = Maybe(1) /\ Write[14] = Change
  BY DEF Write, setupOutput, finalizeFile
<1>2. ChecksFirst(Write) /\ TellsLast(Write)
  BY <1>1, NamedKinds, FormKinds, StepKinds DEF ChecksFirst, TellsLast
<1>3. SkipsSafely(Write)
  BY <1>1, NamedKinds, FormKinds, StepKinds DEF SkipsSafely, CertSteps
<1>4. TempsGuarded("Write", Write)
  BY <1>1, NamedKinds, FormKinds, StepKinds DEF TempsGuarded, Careless
<1>5. UploadsEnd(Write)
  BY <1>1, NamedKinds, FormKinds, StepKinds DEF UploadsEnd
<1>6. ReloadsInOrder(Write)
  BY <1>1, NamedKinds, FormKinds, StepKinds DEF ReloadsInOrder
<1> QED BY <1>1, <1>2, <1>3, <1>4, <1>5, <1>6 DEF Orderly

\* Copy does so too, but for the attributes it checks before its defer,
LEMMA CopyOrderly == Orderly("Copy", Copy)
<1>1. /\ Len(Copy) = 15 /\ DOMAIN Copy = 1..15
      /\ Copy[1] = Refuse /\ Copy[2] = Refuse /\ Copy[3] = Temp /\ Copy[4] = Refuse
      /\ Copy[5] = Try /\ Copy[6] = Defer("error") /\ Copy[7] = Try /\ Copy[8] = Try
      /\ Copy[9] = Try /\ Copy[10] = Step("exists") /\ Copy[11] = Try /\ Copy[12] = Commit
      /\ Copy[13] = Maybe(1) /\ Copy[14] = Change /\ Copy[15] = Step("close")
  BY DEF Copy, setupOutput, finalizeFile
<1>2. ChecksFirst(Copy) /\ TellsLast(Copy)
  BY <1>1, NamedKinds, FormKinds, StepKinds DEF ChecksFirst, TellsLast
<1>3. SkipsSafely(Copy)
  BY <1>1, NamedKinds, FormKinds, StepKinds DEF SkipsSafely, CertSteps
<1>4. TempsGuarded("Copy", Copy)
  BY <1>1, NamedKinds, FormKinds, StepKinds DEF TempsGuarded, Careless
<1>5. UploadsEnd(Copy)
  BY <1>1, NamedKinds, FormKinds, StepKinds DEF UploadsEnd
<1>6. ReloadsInOrder(Copy)
  BY <1>1, NamedKinds, FormKinds, StepKinds DEF ReloadsInOrder
<1> QED BY <1>1, <1>2, <1>3, <1>4, <1>5, <1>6 DEF Orderly

\* and Mkdir with its directory,
LEMMA MkdirOrderly == Orderly("Mkdir", Mkdir)
<1>1. /\ Len(Mkdir) = 8 /\ DOMAIN Mkdir = 1..8
      /\ Mkdir[1] = Refuse /\ Mkdir[2] = Temp /\ Mkdir[3] = Defer("error")
      /\ Mkdir[4] = Refuse /\ Mkdir[5] = Try /\ Mkdir[6] = Commit /\ Mkdir[7] = Maybe(1)
      /\ Mkdir[8] = Step("fail")
  BY DEF Mkdir
<1>2. ChecksFirst(Mkdir) /\ TellsLast(Mkdir)
  BY <1>1, NamedKinds, FormKinds, StepKinds DEF ChecksFirst, TellsLast
<1>3. SkipsSafely(Mkdir)
  BY <1>1, NamedKinds, FormKinds, StepKinds DEF SkipsSafely, CertSteps
<1>4. TempsGuarded("Mkdir", Mkdir)
  BY <1>1, NamedKinds, FormKinds, StepKinds DEF TempsGuarded, Careless
<1>5. UploadsEnd(Mkdir)
  BY <1>1, NamedKinds, FormKinds, StepKinds DEF UploadsEnd
<1>6. ReloadsInOrder(Mkdir)
  BY <1>1, NamedKinds, FormKinds, StepKinds DEF ReloadsInOrder
<1> QED BY <1>1, <1>2, <1>3, <1>4, <1>5, <1>6 DEF Orderly

\* the Conf handlers rename the file they saved or remove it,
LEMMA ConfWriteOrderly == Orderly("ConfWrite", ConfWrite)
<1>1. /\ Len(ConfWrite) = 6 /\ DOMAIN ConfWrite = 1..6
      /\ ConfWrite[1] = Refuse /\ ConfWrite[2] = Step("loadConf") /\ ConfWrite[3] = Temp
      /\ ConfWrite[4] = Defer("always") /\ ConfWrite[5] = Try
      /\ ConfWrite[6] = Step("replace")
  BY DEF ConfWrite, atomicSaveTo
<1>2. ChecksFirst(ConfWrite) /\ TellsLast(ConfWrite)
  BY <1>1, NamedKinds, FormKinds, StepKinds DEF ChecksFirst, TellsLast
<1>3. SkipsSafely(ConfWrite)
  BY <1>1, NamedKinds, FormKinds, StepKinds DEF SkipsSafely, CertSteps
<1>4. TempsGuarded("ConfWrite", ConfWrite)
  BY <1>1, NamedKinds, FormKinds, StepKinds DEF TempsGuarded, Careless
<1>5. UploadsEnd(ConfWrite)
  BY <1>1, NamedKinds, FormKinds, StepKinds DEF UploadsEnd
<1>6. ReloadsInOrder(ConfWrite)
  BY <1>1, NamedKinds, FormKinds, StepKinds DEF ReloadsInOrder
<1> QED BY <1>1, <1>2, <1>3, <1>4, <1>5, <1>6 DEF Orderly

\* Delete like Write,
LEMMA ConfDeleteOrderly == Orderly("ConfDelete", ConfDelete)
<1>1. /\ Len(ConfDelete) = 7 /\ DOMAIN ConfDelete = 1..7
      /\ ConfDelete[1] = Refuse /\ ConfDelete[2] = Step("loadConf") /\ ConfDelete[3] = Try
      /\ ConfDelete[4] = Temp /\ ConfDelete[5] = Defer("always") /\ ConfDelete[6] = Try
      /\ ConfDelete[7] = Step("replace")
  BY DEF ConfDelete, atomicSaveTo
<1>2. ChecksFirst(ConfDelete) /\ TellsLast(ConfDelete)
  BY <1>1, NamedKinds, FormKinds, StepKinds DEF ChecksFirst, TellsLast
<1>3. SkipsSafely(ConfDelete)
  BY <1>1, NamedKinds, FormKinds, StepKinds DEF SkipsSafely, CertSteps
<1>4. TempsGuarded("ConfDelete", ConfDelete)
  BY <1>1, NamedKinds, FormKinds, StepKinds DEF TempsGuarded, Careless
<1>5. UploadsEnd(ConfDelete)
  BY <1>1, NamedKinds, FormKinds, StepKinds DEF UploadsEnd
<1>6. ReloadsInOrder(ConfDelete)
  BY <1>1, NamedKinds, FormKinds, StepKinds DEF ReloadsInOrder
<1> QED BY <1>1, <1>2, <1>3, <1>4, <1>5, <1>6 DEF Orderly

\* an fdbcli command checks the request before it is run,
LEMMA FDBCLIOrderly == Orderly("FDBCLI", FDBCLI)
<1>1. /\ Len(FDBCLI) = 12 /\ DOMAIN FDBCLI = 1..12
      /\ FDBCLI[1] = Refuse /\ FDBCLI[2] = Maybe(1) /\ FDBCLI[3] = Temp
      /\ FDBCLI[4] = Refuse /\ FDBCLI[5] = Step("copyCreds")
      /\ FDBCLI[6] = Step("fillCreds") /\ FDBCLI[7] = Try /\ FDBCLI[8] = Act
      /\ FDBCLI[9] = Defer("always") /\ FDBCLI[10] = Send /\ FDBCLI[11] = Try
      /\ FDBCLI[12] = Send
  BY DEF FDBCLI, processCreds
<1>2. ChecksFirst(FDBCLI) /\ TellsLast(FDBCLI)
  BY <1>1, NamedKinds, RunKinds, FormKinds, StepKinds DEF ChecksFirst, TellsLast
<1>3. SkipsSafely(FDBCLI)
  BY <1>1, NamedKinds, RunKinds, FormKinds, StepKinds DEF SkipsSafely, CertSteps
<1>4. TempsGuarded("FDBCLI", FDBCLI)
  BY <1>1, NamedKinds, RunKinds, FormKinds, StepKinds DEF TempsGuarded, Careless
<1>5. UploadsEnd(FDBCLI)
  BY <1>1, NamedKinds, RunKinds, FormKinds, StepKinds DEF UploadsEnd
<1>6. ReloadsInOrder(FDBCLI)
  BY <1>1, NamedKinds, RunKinds, FormKinds, StepKinds DEF ReloadsInOrder
<1> QED BY <1>1, <1>2, <1>3, <1>4, <1>5, <1>6 DEF Orderly

\* and whoever uses certificates has checked, loaded and stored them before.
LEMMA ServerHandshakeOrderly == Orderly("ServerHandshake", ServerHandshake)
<1>1. /\ Len(ServerHandshake) = 5 /\ DOMAIN ServerHandshake = 1..5
      /\ ServerHandshake[1] = Step("check") /\ ServerHandshake[2] = Step("load")
      /\ ServerHandshake[3] = Step("store") /\ ServerHandshake[4] = Step("shake")
      /\ ServerHandshake[5] = Step("shaken")
  BY DEF ServerHandshake, refreshNow
<1>2. ChecksFirst(ServerHandshake) /\ TellsLast(ServerHandshake)
  BY <1>1, StepKinds DEF ChecksFirst, TellsLast
<1>3. SkipsSafely(ServerHandshake)
  BY <1>1, StepKinds DEF SkipsSafely, CertSteps
<1>4. TempsGuarded("ServerHandshake", ServerHandshake)
  BY <1>1, StepKinds DEF TempsGuarded, Careless
<1>5. UploadsEnd(ServerHandshake)
  BY <1>1, StepKinds DEF UploadsEnd
<1>6. ReloadsInOrder(ServerHandshake)
  BY <1>1, StepKinds DEF ReloadsInOrder
<1> QED BY <1>1, <1>2, <1>3, <1>4, <1>5, <1>6 DEF Orderly

\* A forced reload does not check,
LEMMA ForceRefreshOrderly == Orderly("ForceRefresh", ForceRefresh)
<1>1. /\ Len(ForceRefresh) = 2 /\ DOMAIN ForceRefresh = 1..2
      /\ ForceRefresh[1] = Step("load") /\ ForceRefresh[2] = Step("store")
  BY DEF ForceRefresh, refreshNow
<1>2. ChecksFirst(ForceRefresh) /\ TellsLast(ForceRefresh)
  BY <1>1, StepKinds DEF ChecksFirst, TellsLast
<1>3. SkipsSafely(ForceRefresh)
  BY <1>1, StepKinds DEF SkipsSafely, CertSteps
<1>4. TempsGuarded("ForceRefresh", ForceRefresh)
  BY <1>1, StepKinds DEF TempsGuarded, Careless
<1>5. UploadsEnd(ForceRefresh)
  BY <1>1, StepKinds DEF UploadsEnd
<1>6. ReloadsInOrder(ForceRefresh)
  BY <1>1, StepKinds DEF ReloadsInOrder
<1> QED BY <1>1, <1>2, <1>3, <1>4, <1>5, <1>6 DEF Orderly

\* Info and Clone pass over a reload that fails,
LEMMA InfoOrCloneOrderly == Orderly("InfoOrClone", InfoOrClone)
<1>1. /\ Len(InfoOrClone) = 4 /\ DOMAIN InfoOrClone = 1..4
      /\ InfoOrClone[1] = Step("check") /\ InfoOrClone[2] = Step("tryLoad")
      /\ InfoOrClone[3] = Step("store") /\ InfoOrClone[4] = Step("clone")
  BY DEF InfoOrClone
<1>2. ChecksFirst(InfoOrClone) /\ TellsLast(InfoOrClone)
  BY <1>1, StepKinds DEF ChecksFirst, TellsLast
<1>3. SkipsSafely(InfoOrClone)
  BY <1>1, StepKinds DEF SkipsSafely, CertSteps
<1>4. TempsGuarded("InfoOrClone", InfoOrClone)
  BY <1>1, StepKinds DEF TempsGuarded, Careless
<1>5. UploadsEnd(InfoOrClone)
  BY <1>1, StepKinds DEF UploadsEnd
<1>6. ReloadsInOrder(InfoOrClone)
  BY <1>1, StepKinds DEF ReloadsInOrder
<1> QED BY <1>1, <1>2, <1>3, <1>4, <1>5, <1>6 DEF Orderly

\* and so does a handshake of several.
LEMMA MultiHandshakeOrderly == Orderly("MultiHandshake", MultiHandshake)
<1>1. /\ Len(MultiHandshake) = 5 /\ DOMAIN MultiHandshake = 1..5
      /\ MultiHandshake[1] = Step("check") /\ MultiHandshake[2] = Step("tryLoad")
      /\ MultiHandshake[3] = Step("store") /\ MultiHandshake[4] = Step("pick")
      /\ MultiHandshake[5] = Try
  BY DEF MultiHandshake
<1>2. ChecksFirst(MultiHandshake) /\ TellsLast(MultiHandshake)
  BY <1>1, NamedKinds, StepKinds DEF ChecksFirst, TellsLast
<1>3. SkipsSafely(MultiHandshake)
  BY <1>1, NamedKinds, StepKinds DEF SkipsSafely, CertSteps
<1>4. TempsGuarded("MultiHandshake", MultiHandshake)
  BY <1>1, NamedKinds, StepKinds DEF TempsGuarded, Careless
<1>5. UploadsEnd(MultiHandshake)
  BY <1>1, NamedKinds, StepKinds DEF UploadsEnd
<1>6. ReloadsInOrder(MultiHandshake)
  BY <1>1, NamedKinds, StepKinds DEF ReloadsInOrder
<1> QED BY <1>1, <1>2, <1>3, <1>4, <1>5, <1>6 DEF Orderly

\* Every script is orderly.
THEOREM ScriptsOrderly == \A name \in DOMAIN Scripts : Orderly(name, Scripts[name])
BY PlainScripts, SearchOrderly, GetMemoryDumpOrderly, GetMemoryDumpUrlOrderly,
   GetTLSCertificateOrderly, HostOrderly, StreamHostOrderly, SetFileAttributesOrderly,
   WriteOrderly, CopyOrderly, MkdirOrderly, ConfWriteOrderly, ConfDeleteOrderly,
   FDBCLIOrderly, ServerHandshakeOrderly, ForceRefreshOrderly, InfoOrCloneOrderly,
   MultiHandshakeOrderly
   DEF Scripts

----------------------------------------------------------------------------
(* Where a script works on the shared file.                                *)

FileSteps == {"open", "lock", "readIn", "truncate", "write", "loadConf", "replace"}
StepAt(name, k, what) == k \in DOMAIN Scripts[name] /\ Scripts[name][k].do = what

\* A script that has nothing to do with its keys.
Keyless(s) == \A i \in DOMAIN s : s[i].do \notin FileSteps

\* All are of that kind but DataSet and the Conf edits.
LEMMA KeylessScripts == \A name \in DOMAIN Scripts \ Edits : Keyless(Scripts[name])
<1> USE DEF Keyless, FileSteps
<1>1. Keyless(Install)
  BY NamedKinds, RunKinds DEF Install
<1>2. Keyless(Remove)
  BY NamedKinds, RunKinds DEF Remove
<1>3. Keyless(Update)
  BY NamedKinds, RunKinds DEF Update
<1>4. Keyless(ListInstalled)
  BY NamedKinds, RunKinds, FormKinds DEF ListInstalled
<1>5. Keyless(Search)
  BY NamedKinds, RunKinds, FormKinds DEF Search
<1>6. Keyless(RepoList)
  BY NamedKinds, RunKinds, FormKinds DEF RepoList
<1>7. Keyless(Cleanup)
  BY NamedKinds, RunKinds DEF Cleanup
<1>8. Keyless(ProcessList)
  BY NamedKinds, RunKinds, FormKinds DEF ProcessList
<1>9. Keyless(Kill)
  BY NamedKinds DEF Kill
<1>10. Keyless(GetStacks)
  BY NamedKinds, RunKinds, FormKinds DEF GetStacks
<1>11. Keyless(GetJavaStacks)
  BY NamedKinds, RunKinds, FormKinds DEF GetJavaStacks
<1>12. Keyless(GetMemoryDump)
  BY NamedKinds, RunKinds, FormKinds DEF GetMemoryDump
<1>13. Keyless(GetMemoryDumpUrl)
  BY NamedKinds, RunKinds, FormKinds, StepKinds DEF GetMemoryDumpUrl
<1>14. Keyless(ExecRun)
  BY NamedKinds, RunKinds DEF ExecRun
<1>15. Keyless(StreamingRun)
  BY NamedKinds, StepKinds DEF StreamingRun
<1>16. Keyless(PlaybookRun)
  BY NamedKinds, RunKinds DEF PlaybookRun
<1>17. Keyless(Reboot)
  BY NamedKinds, RunKinds DEF Reboot
<1>18. Keyless(Lookup)
  BY NamedKinds DEF Lookup
<1>19. Keyless(TCPCheck)
  BY NamedKinds DEF TCPCheck
<1>20. Keyless(GetTLSCertificate)
  BY NamedKinds DEF GetTLSCertificate
<1>21. Keyless(Host)
  BY NamedKinds, FormKinds DEF Host
<1>22. Keyless(StreamHost)
  BY NamedKinds, FormKinds DEF StreamHost
<1>23. Keyless(ServiceList)
  BY NamedKinds DEF ServiceList
<1>24. Keyless(ServiceStatus)
  BY NamedKinds DEF ServiceStatus
<1>25. Keyless(ServiceJob)
  BY NamedKinds, StepKinds DEF ServiceJob
<1>26. Keyless(ServiceEnable)
  BY NamedKinds DEF ServiceEnable
<1>27. Keyless(Uptime)
  BY NamedKinds DEF Uptime
<1>28. Keyless(Dmesg)
  BY NamedKinds, StepKinds DEF Dmesg
<1>29. Keyless(Journal)
  BY NamedKinds, RunKinds DEF Journal
<1>30. Keyless(Stat)
  BY StepKinds DEF Stat
<1>31. Keyless(Sum)
  BY StepKinds DEF Sum
<1>32. Keyless(List)
  BY NamedKinds DEF List
<1>33. Keyless(Read)
  BY NamedKinds, StepKinds DEF Read
<1>34. Keyless(SetFileAttributes)
  <2>1. /\ Len(SetFileAttributes) = 9 /\ DOMAIN SetFileAttributes = 1..9
        /\ SetFileAttributes[1] = Refuse /\ SetFileAttributes[2] = Refuse
        /\ SetFileAttributes[3] = Try /\ SetFileAttributes[4] = Maybe(1)
        /\ SetFileAttributes[5] = Change /\ SetFileAttributes[6] = Maybe(1)
        /\ SetFileAttributes[7] = Change /\ SetFileAttributes[8] = Maybe(1)
        /\ SetFileAttributes[9] = Change
    BY DEF SetFileAttributes, validateAndSetAttrs
  <2> QED BY <2>1, NamedKinds, RunKinds, FormKinds, StepKinds
<1>35. Keyless(Write)
  <2>1. /\ Len(Write) = 14 /\ DOMAIN Write = 1..14
        /\ Write[1] = Try /\ Write[2] = Refuse /\ Write[3] = Defer("error")
        /\ Write[4] = Refuse /\ Write[5] = Temp /\ Write[6] = Refuse /\ Write[7] = Try
        /\ Write[8] = Step("contents") /\ Write[9] = Try /\ Write[10] = Step("exists")
        /\ Write[11] = Try /\ Write[12] = Commit /\ Write[13] = Maybe(1) /\ Write[14] = Change
    BY DEF Write, setupOutput, finalizeFile
  <2> QED BY <2>1, NamedKinds, RunKinds, FormKinds, StepKinds
<1>36. Keyless(Copy)
  <2>1. /\ Len(Copy) = 15 /\ DOMAIN Copy = 1..15
        /\ Copy[1] = Refuse /\ Copy[2] = Refuse /\ Copy[3] = Temp /\ Copy[4] = Refuse
        /\ Copy[5] = Try /\ Copy[6] = Defer("error") /\ Copy[7] = Try /\ Copy[8] = Try
        /\ Copy[9] = Try /\ Copy[10] = Step("exists") /\ Copy[11] = Try /\ Copy[12] = Commit
        /\ Copy[13] = Maybe(1) /\ Copy[14] = Change /\ Copy[15] = Step("close")
    BY DEF Copy, setupOutput, finalizeFile
  <2> QED BY <2>1, NamedKinds, RunKinds, FormKinds, StepKinds
<1>37. Keyless(Rm)
  BY NamedKinds DEF Rm
<1>38. Keyless(Rmdir)
  BY NamedKinds DEF Rmdir
<1>39. Keyless(Rename)
  BY NamedKinds DEF Rename
<1>40. Keyless(Readlink)
  BY NamedKinds DEF Readlink
<1>41. Keyless(Symlink)
  BY NamedKinds DEF Symlink
<1>42. Keyless(Mkdir)
  BY NamedKinds, FormKinds, StepKinds DEF Mkdir
<1>43. Keyless(Shred)
  BY NamedKinds, RunKinds DEF Shred
<1>44. Keyless(DataGet)
  BY NamedKinds, StepKinds DEF DataGet
<1>45. Keyless(ConfRead)
  BY NamedKinds, StepKinds DEF ConfRead
<1>46. Keyless(FDBCLI)
  <2>1. /\ Len(FDBCLI) = 12 /\ DOMAIN FDBCLI = 1..12
        /\ FDBCLI[1] = Refuse /\ FDBCLI[2] = Maybe(1) /\ FDBCLI[3] = Temp
        /\ FDBCLI[4] = Refuse /\ FDBCLI[5] = Step("copyCreds")
        /\ FDBCLI[6] = Step("fillCreds") /\ FDBCLI[7] = Try /\ FDBCLI[8] = Act
        /\ FDBCLI[9] = Defer("always") /\ FDBCLI[10] = Send /\ FDBCLI[11] = Try
        /\ FDBCLI[12] = Send
    BY DEF FDBCLI, processCreds
  <2> QED BY <2>1, NamedKinds, RunKinds, FormKinds, StepKinds
<1>47. Keyless(FDBServer)
  BY NamedKinds, RunKinds DEF FDBServer
<1>48. Keyless(ServerHandshake)
  <2>1. /\ Len(ServerHandshake) = 5 /\ DOMAIN ServerHandshake = 1..5
        /\ ServerHandshake[1] = Step("check") /\ ServerHandshake[2] = Step("load")
        /\ ServerHandshake[3] = Step("store") /\ ServerHandshake[4] = Step("shake")
        /\ ServerHandshake[5] = Step("shaken")
    BY DEF ServerHandshake, refreshNow
  <2> QED BY <2>1, NamedKinds, RunKinds, FormKinds, StepKinds
<1>49. Keyless(ForceRefresh)
  <2>1. /\ Len(ForceRefresh) = 2 /\ DOMAIN ForceRefresh = 1..2
        /\ ForceRefresh[1] = Step("load") /\ ForceRefresh[2] = Step("store")
    BY DEF ForceRefresh, refreshNow
  <2> QED BY <2>1, NamedKinds, RunKinds, FormKinds, StepKinds
<1>50. Keyless(InfoOrClone)
  BY StepKinds DEF InfoOrClone
<1>51. Keyless(MultiHandshake)
  BY NamedKinds, StepKinds DEF MultiHandshake
<1> HIDE DEF Keyless
<1> QED BY <1>1, <1>2, <1>3, <1>4, <1>5, <1>6, <1>7, <1>8, <1>9, <1>10, <1>11, <1>12, <1>13,
           <1>14, <1>15, <1>16, <1>17, <1>18, <1>19, <1>20, <1>21, <1>22, <1>23, <1>24, <1>25,
           <1>26, <1>27, <1>28, <1>29, <1>30, <1>31, <1>32, <1>33, <1>34, <1>35, <1>36, <1>37,
           <1>38, <1>39, <1>40, <1>41, <1>42, <1>43, <1>44, <1>45, <1>46, <1>47, <1>48, <1>49,
           <1>50, <1>51 DEF Scripts, Edits, DataSets, ConfEdits

\* Where the edits open, lock, read, empty, write and replace the file.
LEMMA EditPlaces ==
    ASSUME NEW name \in DOMAIN Scripts, NEW k
    PROVE  /\ StepAt(name, k, "open") <=> name \in DataSets /\ k = 2
           /\ StepAt(name, k, "lock") <=> name \in DataSets /\ k = 3
           /\ StepAt(name, k, "readIn") <=> name \in DataSets /\ k = 4
           /\ StepAt(name, k, "truncate") <=> name = "DataSetYml" /\ k = 6
           /\ StepAt(name, k, "write") <=> \/ name = "DataSetYml" /\ k = 7
                                           \/ name = "DataSetDotenv" /\ k = 5
           /\ StepAt(name, k, "loadConf") <=> name \in ConfEdits /\ k = 2
           /\ StepAt(name, k, "replace") <=> \/ name = "ConfWrite" /\ k = 6
                                             \/ name = "ConfDelete" /\ k = 7
<1>1. CASE name \notin Edits
  BY <1>1, KeylessScripts DEF Keyless, FileSteps, StepAt, Edits, DataSets, ConfEdits
<1>2. CASE name = "DataSetYml"
  <2>1. Scripts[name] = DataSetYml
    BY <1>2 DEF Scripts
  <2>2. /\ DOMAIN DataSetYml = 1..8
        /\ DataSetYml[1].do = "refuse" /\ DataSetYml[2].do = "open"
        /\ DataSetYml[3].do = "lock" /\ DataSetYml[4].do = "readIn"
        /\ DataSetYml[5].do = "try" /\ DataSetYml[6].do = "truncate"
        /\ DataSetYml[7].do = "write" /\ DataSetYml[8].do = "try"
    BY NamedKinds, StepKinds DEF DataSetYml
  <2> QED BY <1>2, <2>1, <2>2 DEF StepAt, DataSets, ConfEdits
<1>3. CASE name = "DataSetDotenv"
  <2>1. Scripts[name] = DataSetDotenv
    BY <1>3 DEF Scripts
  <2>2. /\ DOMAIN DataSetDotenv = 1..5
        /\ DataSetDotenv[1].do = "refuse" /\ DataSetDotenv[2].do = "open"
        /\ DataSetDotenv[3].do = "lock" /\ DataSetDotenv[4].do = "readIn"
        /\ DataSetDotenv[5].do = "write"
    BY NamedKinds, StepKinds DEF DataSetDotenv
  <2> QED BY <1>3, <2>1, <2>2 DEF StepAt, DataSets, ConfEdits
<1>4. CASE name = "ConfWrite"
  <2>1. Scripts[name] = ConfWrite
    BY <1>4 DEF Scripts
  <2>2. /\ Len(ConfWrite) = 6 /\ DOMAIN ConfWrite = 1..6
        /\ ConfWrite[1] = Refuse /\ ConfWrite[2] = Step("loadConf") /\ ConfWrite[3] = Temp
        /\ ConfWrite[4] = Defer("always") /\ ConfWrite[5] = Try
        /\ ConfWrite[6] = Step("replace")
    BY DEF ConfWrite, atomicSaveTo
  <2>3. /\ ConfWrite[1].do = "refuse" /\ ConfWrite[2].do = "loadConf"
        /\ ConfWrite[3].do = "temp" /\ ConfWrite[4].do = "defer"
        /\ ConfWrite[5].do = "try" /\ ConfWrite[6].do = "replace"
    BY <2>2, NamedKinds, StepKinds, FormKinds
  <2> QED BY <1>4, <2>1, <2>2, <2>3 DEF StepAt, DataSets, ConfEdits
<1>5. CASE name = "ConfDelete"
  <2>1. Scripts[name] = ConfDelete
    BY <1>5 DEF Scripts
  <2>2. /\ Len(ConfDelete) = 7 /\ DOMAIN ConfDelete = 1..7
        /\ ConfDelete[1] = Refuse /\ ConfDelete[2] = Step("loadConf") /\ ConfDelete[3] = Try
        /\ ConfDelete[4] = Temp /\ ConfDelete[5] = Defer("always") /\ ConfDelete[6] = Try
        /\ ConfDelete[7] = Step("replace")
    BY DEF ConfDelete, atomicSaveTo
  <2>3. /\ ConfDelete[1].do = "refuse" /\ ConfDelete[2].do = "loadConf"
        /\ ConfDelete[3].do = "try" /\ ConfDelete[4].do = "temp"
        /\ ConfDelete[5].do = "defer" /\ ConfDelete[6].do = "try"
        /\ ConfDelete[7].do = "replace"
    BY <2>2, NamedKinds, StepKinds, FormKinds
  <2> QED BY <1>5, <2>1, <2>2, <2>3 DEF StepAt, DataSets, ConfEdits
<1> QED BY <1>1, <1>2, <1>3, <1>4, <1>5 DEF Edits, DataSets, ConfEdits

\* An edit leaves no step out, and makes no other change.
LEMMA EditsStraight ==
    ASSUME NEW name \in Edits, NEW k
    PROVE  \A what \in {"maybe", "check", "tryLoad", "change", "commit"} : ~StepAt(name, k, what)
<1>1. CASE name = "DataSetYml"
  BY <1>1, NamedKinds, StepKinds DEF StepAt, Scripts, DataSetYml
<1>2. CASE name = "DataSetDotenv"
  BY <1>2, NamedKinds, StepKinds DEF StepAt, Scripts, DataSetDotenv
<1>3. CASE name = "ConfWrite"
  <2>1. Scripts[name] = ConfWrite
    BY <1>3 DEF Scripts
  <2>2. /\ Len(ConfWrite) = 6 /\ DOMAIN ConfWrite = 1..6
        /\ ConfWrite[1] = Refuse /\ ConfWrite[2] = Step("loadConf") /\ ConfWrite[3] = Temp
        /\ ConfWrite[4] = Defer("always") /\ ConfWrite[5] = Try
        /\ ConfWrite[6] = Step("replace")
    BY DEF ConfWrite, atomicSaveTo
  <2> QED BY <2>1, <2>2, NamedKinds, StepKinds, FormKinds DEF StepAt
<1>4. CASE name = "ConfDelete"
  <2>1. Scripts[name] = ConfDelete
    BY <1>4 DEF Scripts
  <2>2. /\ Len(ConfDelete) = 7 /\ DOMAIN ConfDelete = 1..7
        /\ ConfDelete[1] = Refuse /\ ConfDelete[2] = Step("loadConf") /\ ConfDelete[3] = Try
        /\ ConfDelete[4] = Temp /\ ConfDelete[5] = Defer("always") /\ ConfDelete[6] = Try
        /\ ConfDelete[7] = Step("replace")
    BY DEF ConfDelete, atomicSaveTo
  <2> QED BY <2>1, <2>2, NamedKinds, StepKinds, FormKinds DEF StepAt
<1> QED BY <1>1, <1>2, <1>3, <1>4 DEF Edits, DataSets, ConfEdits

\* Write and Copy put their file in place in their twelfth step, and change nothing before.
LEMMA ReplacerPlaces ==
    ASSUME NEW name \in Replacers, NEW k
    PROVE  /\ StepAt(name, k, "commit") <=> k = 12
           /\ StepAt(name, k, "change") \/ StepAt(name, k, "maybe") => k > 12
           /\ ~StepAt(name, k, "check") /\ ~StepAt(name, k, "tryLoad")
<1>1. CASE name = "Write"
  <2>1. Scripts[name] = Write
    BY <1>1 DEF Scripts
  <2>2. /\ Len(Write) = 14 /\ DOMAIN Write = 1..14
        /\ Write[1] = Try /\ Write[2] = Refuse /\ Write[3] = Defer("error")
        /\ Write[4] = Refuse /\ Write[5] = Temp /\ Write[6] = Refuse /\ Write[7] = Try
        /\ Write[8] = Step("contents") /\ Write[9] = Try /\ Write[10] = Step("exists")
        /\ Write[11] = Try /\ Write[12] = Commit /\ Write[13] = Maybe(1) /\ Write[14] = Change
    BY DEF Write, setupOutput, finalizeFile
  <2> QED BY <2>1, <2>2, NamedKinds, StepKinds, FormKinds DEF StepAt
<1>2. CASE name = "Copy"
  <2>1. Scripts[name] = Copy
    BY <1>2 DEF Scripts
  <2>2. /\ Len(Copy) = 15 /\ DOMAIN Copy = 1..15
        /\ Copy[1] = Refuse /\ Copy[2] = Refuse /\ Copy[3] = Temp /\ Copy[4] = Refuse
        /\ Copy[5] = Try /\ Copy[6] = Defer("error") /\ Copy[7] = Try /\ Copy[8] = Try
        /\ Copy[9] = Try /\ Copy[10] = Step("exists") /\ Copy[11] = Try /\ Copy[12] = Commit
        /\ Copy[13] = Maybe(1) /\ Copy[14] = Change /\ Copy[15] = Step("close")
    BY DEF Copy, setupOutput, finalizeFile
  <2> QED BY <2>1, <2>2, NamedKinds, StepKinds, FormKinds DEF StepAt
<1> QED BY <1>1, <1>2 DEF Replacers
=============================================================================
