---------------------------- MODULE ServiceDescs ----------------------------
(***************************************************************************)
(* What the code generated for every service does around a method.         *)
(*                                                                         *)
(* A client's stub either makes the whole call (Invoke), opens a stream,   *)
(* sends the one request and closes (SendFirst), or gives the stream to    *)
(* its caller, who sends and then waits for one answer (Upload) or sends   *)
(* and receives at once (Chat).                                            *)
(*                                                                         *)
(* A server's handler decodes the request and passes it to the method      *)
(* through the unary interceptors (Intercepted), takes it from the stream  *)
(* that the stream interceptors gave it (RecvFirst), or hands that stream  *)
(* to the method (Streamed).                                               *)
(***************************************************************************)
Invoke      == "invoke"
SendFirst   == "send first"
Upload      == "upload"
Chat        == "chat"
Intercepted == "intercepted"
RecvFirst   == "recv first"
Streamed    == "streamed"

PlaybookClient == [Run |-> Invoke]
PlaybookServer == [Run |-> Intercepted]
LookupClient == [Lookup |-> Invoke]
LookupServer == [Lookup |-> Intercepted]
ExecClient == [Run |-> Invoke, StreamingRun |-> SendFirst]
ExecServer == [Run |-> Intercepted, StreamingRun |-> RecvFirst]
ConfClient == [Read |-> Invoke, Write |-> Invoke, Delete |-> Invoke]
ConfServer == [Read |-> Intercepted, Write |-> Intercepted, Delete |-> Intercepted]
CLIClient == [FDBCLI |-> SendFirst]
CLIServer == [FDBCLI |-> RecvFirst]
ServerClient == [FDBServer |-> Invoke]
ServerServer == [FDBServer |-> Intercepted]
HealthCheckClient == [Ok |-> Invoke]
HealthCheckServer == [Ok |-> Intercepted]
HTTPOverRPCClient == [Host |-> Invoke, StreamHost |-> SendFirst]
HTTPOverRPCServer == [Host |-> Intercepted, StreamHost |-> RecvFirst]
LocalFileClient ==
    [Read |-> SendFirst, Stat |-> Chat, Sum |-> Chat, Write |-> Upload, Copy |-> Invoke,
     List |-> SendFirst, SetFileAttributes |-> Invoke, Rm |-> Invoke, Rmdir |-> Invoke,
     Rename |-> Invoke, Readlink |-> Invoke, Symlink |-> Invoke, Mkdir |-> Invoke,
     DataGet |-> Invoke, DataSet |-> Invoke, Shred |-> Invoke]
LocalFileServer ==
    [Read |-> RecvFirst, Stat |-> Streamed, Sum |-> Streamed, Write |-> Streamed,
     Copy |-> Intercepted, List |-> RecvFirst, SetFileAttributes |-> Intercepted,
     Rm |-> Intercepted, Rmdir |-> Intercepted, Rename |-> Intercepted,
     Readlink |-> Intercepted, Symlink |-> Intercepted, Mkdir |-> Intercepted,
     DataGet |-> Intercepted, DataSet |-> Intercepted, Shred |-> Intercepted]
MpaClient ==
    [Store |-> Invoke, Approve |-> Invoke, WaitForApproval |-> Invoke, List |-> Invoke,
     Get |-> Invoke, Clear |-> Invoke]
MpaServer ==
    [Store |-> Intercepted, Approve |-> Intercepted, WaitForApproval |-> Intercepted,
     List |-> Intercepted, Get |-> Intercepted, Clear |-> Intercepted]
NetworkClient == [TCPCheck |-> Invoke]
NetworkServer == [TCPCheck |-> Intercepted]
PackagesClient ==
    [Install |-> Invoke, Remove |-> Invoke, Update |-> Invoke, Search |-> Invoke,
     ListInstalled |-> Invoke, RepoList |-> Invoke, Cleanup |-> Invoke]
PackagesServer ==
    [Install |-> Intercepted, Remove |-> Intercepted, Update |-> Intercepted,
     Search |-> Intercepted, ListInstalled |-> Intercepted, RepoList |-> Intercepted,
     Cleanup |-> Intercepted]
PowerClient == [Reboot |-> Invoke]
PowerServer == [Reboot |-> Intercepted]
ProcessClient ==
    [List |-> Invoke, Kill |-> Invoke, GetStacks |-> Invoke, GetJavaStacks |-> Invoke,
     GetMemoryDump |-> SendFirst]
ProcessServer ==
    [List |-> Intercepted, Kill |-> Intercepted, GetStacks |-> Intercepted,
     GetJavaStacks |-> Intercepted, GetMemoryDump |-> RecvFirst]
LoggingClient == [SetVerbosity |-> Invoke, GetVerbosity |-> Invoke]
LoggingServer == [SetVerbosity |-> Intercepted, GetVerbosity |-> Intercepted]
StateClient == [Version |-> Invoke]
StateServer == [Version |-> Intercepted]
ServiceClient == [List |-> Invoke, Status |-> Invoke, Action |-> Invoke]
ServiceServer == [List |-> Intercepted, Status |-> Intercepted, Action |-> Intercepted]
SysInfoClient == [Uptime |-> Invoke, Dmesg |-> SendFirst, Journal |-> SendFirst]
SysInfoServer == [Uptime |-> Intercepted, Dmesg |-> RecvFirst, Journal |-> RecvFirst]
TLSInfoClient == [GetTLSCertificate |-> Invoke]
TLSInfoServer == [GetTLSCertificate |-> Intercepted]

Clients ==
    [Playbook |-> PlaybookClient, Lookup |-> LookupClient, Exec |-> ExecClient,
     Conf |-> ConfClient, CLI |-> CLIClient, Server |-> ServerClient,
     HealthCheck |-> HealthCheckClient, HTTPOverRPC |-> HTTPOverRPCClient,
     LocalFile |-> LocalFileClient, Mpa |-> MpaClient, Network |-> NetworkClient,
     Packages |-> PackagesClient, Power |-> PowerClient, Process |-> ProcessClient,
     Logging |-> LoggingClient, State |-> StateClient, Service |-> ServiceClient,
     SysInfo |-> SysInfoClient, TLSInfo |-> TLSInfoClient]
Servers ==
    [Playbook |-> PlaybookServer, Lookup |-> LookupServer, Exec |-> ExecServer,
     Conf |-> ConfServer, CLI |-> CLIServer, Server |-> ServerServer,
     HealthCheck |-> HealthCheckServer, HTTPOverRPC |-> HTTPOverRPCServer,
     LocalFile |-> LocalFileServer, Mpa |-> MpaServer, Network |-> NetworkServer,
     Packages |-> PackagesServer, Power |-> PowerServer, Process |-> ProcessServer,
     Logging |-> LoggingServer, State |-> StateServer, Service |-> ServiceServer,
     SysInfo |-> SysInfoServer, TLSInfo |-> TLSInfoServer]

\* The methods, as pairs of a service and a name.
Methods == UNION {{<<s, m>> : m \in DOMAIN Servers[s]} : s \in DOMAIN Servers}
Stub(m)    == Clients[m[1]][m[2]]
Handler(m) == Servers[m[1]][m[2]]
=============================================================================
