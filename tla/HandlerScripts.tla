--------------------------- MODULE HandlerScripts ---------------------------
(***************************************************************************)
(* The handlers of a target's services, each as the sequence of the things *)
(* it does, in order, that can fail or that leave something behind.  What  *)
(* a step does is in Handlers; a handler that gets to the end of its       *)
(* script answers without an error.                                        *)
(*                                                                         *)
(*   refuse   checks of the request: InvalidArgument or Unimplemented      *)
(*   try      a call that changes nothing and may fail                     *)
(*   change   a call that changes the host, or fails                       *)
(*   maybe    the next n steps are taken only if the request asks for them *)
(*   run      util.RunCommand and what the handler makes of the result;    *)
(*            acts: the command is there to change the host                *)
(*   parse    the output is cut into records                               *)
(*   temp     a temporary file, directory, connection is made              *)
(*   defer    the removal of temp on return: "always", or on "error" only  *)
(*   commit   temp becomes the file or directory that was asked for        *)
(*   fail     an error, unconditionally                                    *)
(*   send     the loop that sends replies                                  *)
(*   others   see Handlers                                                 *)
(***************************************************************************)
EXTENDS Naturals, Sequences

Step(what)  == [do |-> what]
Refuse      == Step("refuse")
Try         == Step("try")
Change      == Step("change")
Temp        == Step("temp")
Commit      == Step("commit")
Send        == Step("send")
Maybe(n)    == [do |-> "maybe", n |-> n]
Defer(when) == [do |-> "defer", when |-> when]
Parse(kind) == [do |-> "parse", kind |-> kind]
Run(rule, acts) == [do |-> "run", rule |-> rule, acts |-> acts]

\* An exit status other than zero is an error ("strict"), and so is any output
\* on stderr ("quiet"); the status is told ("code"); the command's failure is no
\* failure of the handler ("hint").
Act   == Run("strict", TRUE)
Ask   == Run("strict", FALSE)
Quiet == Run("quiet", FALSE)
Hint  == Run("hint", FALSE)
Code  == Run("code", TRUE)

(* packages *)
Install       == <<Refuse, Act, Hint, Ask>>
Remove        == <<Refuse, Act>>
UpdateUnguarded == <<Act, Ask, Refuse, Ask>>
Update        == <<Refuse, Ask, Act, Ask>>
ListInstalled == <<Refuse, Ask, Parse("fields")>>
Search        == <<Refuse, Ask, Parse("lines"), Maybe(2), Ask, Parse("lines")>>
RepoList      == <<Refuse, Ask, Parse("records")>>
Cleanup       == <<Refuse, Act>>

(* process *)
ProcessList   == <<Refuse, Quiet, Parse("lines"), Refuse>>
Kill          == <<Refuse, Change>>
GetStacks     == <<Refuse, Quiet, Parse("stacks")>>
GetJavaStacks == <<Refuse, Ask, Parse("stacks")>>
\* GetMemoryDump to the caller, and to a bucket.
GetMemoryDumpKept == <<Refuse, Temp, Ask, Try, Defer("always"), Send>>
GetMemoryDump     == <<Refuse, Temp, Defer("always"), Ask, Try, Send>>
GetMemoryDumpUrl  == <<Refuse, Temp, Defer("always"), Step("bucket"), Ask, Try,
                       Step("upload")>>

(* exec, ansible, power, dns, network, tlsinfo, httpoverrpc *)
ExecRun       == <<Refuse, Code>>
StreamingRun  == <<Refuse, Try, Step("spawn"), Step("stdout"), Step("wait")>>
PlaybookRun   == <<Refuse, Code>>
Reboot        == <<Refuse, Act>>
Lookup        == <<Try>>
TCPCheck      == <<Refuse, Try>>
GetTLSCertificate == <<Try, Temp>>
Host          == <<Refuse, Temp, Defer("always"), Try>>
StreamHost    == <<Refuse, Temp, Defer("always"), Send>>

(* service: start, stop, restart, reload; enable, disable *)
ServiceList   == <<Refuse, Try, Try>>
ServiceStatus == <<Refuse, Try, Try>>
ServiceJob    == <<Refuse, Try, Refuse, Change, Step("await")>>
ServiceEnable == <<Refuse, Try, Refuse, Change, Try>>

(* sysinfo *)
Uptime        == <<Try>>
Dmesg         == <<Refuse, Try, Step("kmsg"), Step("compile"), Send>>
Journal       == <<Refuse, Ask, Send>>

(* localfile *)
Stat          == <<Step("serve")>>
Sum           == <<Step("serve")>>
List          == <<Refuse, Try, Send>>
Read          == <<Refuse, Step("read")>>
\* validateAndSetAttrs of a file in use: owner, mode, immutable
validateAndSetAttrs == <<Refuse, Try, Maybe(1), Change, Maybe(1), Change, Maybe(1), Change>>
SetFileAttributes == <<Refuse>> \o validateAndSetAttrs
\* setupOutput's temporary file, with validateAndSetAttrs; and finalizeFile
setupOutput   == <<Refuse, Temp, Refuse, Try>>
finalizeFile  == <<Try, Step("exists"), Try, Commit, Maybe(1), Change>>
Write         == <<Try, Refuse, Defer("error")>> \o setupOutput \o
                 <<Step("contents")>> \o finalizeFile
Copy          == <<Refuse>> \o setupOutput \o <<Defer("error"), Try, Try>> \o
                 finalizeFile \o <<Step("close")>>
Rm            == <<Refuse, Change>>
Rmdir         == <<Refuse, Change>>
Rename        == <<Refuse, Change>>
Readlink      == <<Refuse, Try, Try>>
Symlink       == <<Refuse, Change>>
\* createDir
Mkdir         == <<Refuse, Temp, Defer("error"), Refuse, Try, Commit, Maybe(1), Step("fail")>>
Shred         == <<Refuse, Act>>
\* the files DataGet and DataSet work on: YAML, and dotenv
DataGet       == <<Refuse, Step("look")>>
DataSetYmlUnlocked == <<Refuse, Step("open"), Step("readIn"), Try, Step("truncate"),
                        Step("write"), Try>>
DataSetYml    == <<Refuse, Step("open"), Step("lock"), Step("readIn"), Try, Step("truncate"),
                   Step("write"), Try>>
DataSetDotenv == <<Refuse, Step("open"), Step("lock"), Step("readIn"), Step("write")>>

(* fdb: atomicSaveTo, and the fdbcli and fdbserver commands *)
atomicSaveTo  == <<Temp, Defer("always"), Try, Step("replace")>>
ConfRead      == <<Refuse, Step("look")>>
ConfWrite     == <<Refuse, Step("loadConf")>> \o atomicSaveTo
ConfDelete    == <<Refuse, Step("loadConf"), Try>> \o atomicSaveTo
processCreds  == <<Step("copyCreds"), Step("fillCreds")>>
FDBCLI        == <<Refuse, Maybe(1), Temp, Refuse>> \o processCreds \o
                 <<Try, Act, Defer("always"), Send, Try, Send>>
FDBServer     == <<Refuse, Ask>>

(* mtls: the credentials of connections, reloaded when their source has changed.  What     *)
(* WrappedTransportCredentials does with an error of the reload ("load"), Info and Clone,  *)
(* and MultiIdentityCredentials, do not ("tryLoad").                                      *)
refreshNow      == <<Step("load"), Step("store")>>
ServerHandshake == <<Step("check")>> \o refreshNow \o <<Step("shake"), Step("shaken")>>
ForceRefresh    == refreshNow
InfoOrClone     == <<Step("check"), Step("tryLoad"), Step("store"), Step("clone")>>
MultiHandshake  == <<Step("check"), Step("tryLoad"), Step("store"), Step("pick"), Try>>

Scripts ==
    [Install |-> Install, Remove |-> Remove, Update |-> Update,
     ListInstalled |-> ListInstalled, Search |-> Search, RepoList |-> RepoList,
     Cleanup |-> Cleanup, ProcessList |-> ProcessList, Kill |-> Kill,
     GetStacks |-> GetStacks, GetJavaStacks |-> GetJavaStacks,
     GetMemoryDump |-> GetMemoryDump, GetMemoryDumpUrl |-> GetMemoryDumpUrl,
     ExecRun |-> ExecRun, StreamingRun |-> StreamingRun, PlaybookRun |-> PlaybookRun,
     Reboot |-> Reboot, Lookup |-> Lookup, TCPCheck |-> TCPCheck,
     GetTLSCertificate |-> GetTLSCertificate, Host |-> Host, StreamHost |-> StreamHost,
     ServiceList |-> ServiceList, ServiceStatus |-> ServiceStatus,
     ServiceJob |-> ServiceJob, ServiceEnable |-> ServiceEnable, Uptime |-> Uptime,
     Dmesg |-> Dmesg, Journal |-> Journal, Stat |-> Stat, Sum |-> Sum, List |-> List,
     Read |-> Read, SetFileAttributes |-> SetFileAttributes, Write |-> Write,
     Copy |-> Copy, Rm |-> Rm, Rmdir |-> Rmdir, Rename |-> Rename,
     Readlink |-> Readlink, Symlink |-> Symlink, Mkdir |-> Mkdir, Shred |-> Shred,
     DataGet |-> DataGet, DataSetYml |-> DataSetYml, DataSetDotenv |-> DataSetDotenv,
     ConfRead |-> ConfRead, ConfWrite |-> ConfWrite, ConfDelete |-> ConfDelete,
     FDBCLI |-> FDBCLI, FDBServer |-> FDBServer, ServerHandshake |-> ServerHandshake,
     ForceRefresh |-> ForceRefresh, InfoOrClone |-> InfoOrClone,
     MultiHandshake |-> MultiHandshake]
=============================================================================
