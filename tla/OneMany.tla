-------------------------------- MODULE OneMany --------------------------------
(***************************************************************************)
(* What the generated OneMany methods of the services (_grpcproxy.pb.go,   *)
(* written by proxy/protoc-gen-go-grpcproxy) hand to their caller: one     *)
(* call, made to every target of a proxy.Conn, answered target by target.  *)
(*                                                                         *)
(* Below them is the client library, with what ProxyClient shows of it:    *)
(* the refusals of a stream's setup are held back until the first answer   *)
(* of a target that did start; Recv ends with io.EOF when no target is     *)
(* open; a lost Proxy RPC fails every later Recv of a stream, and gives    *)
(* each unclosed target of a unary call an error, one that has already     *)
(* replied included.                                                       *)
(***************************************************************************)
EXTENDS Integers, Sequences, FiniteSets, SequencesExt

CONSTANT MaxReplies    \* bound: replies of a target in one streaming call

ASSUME OneManyAssumption == MaxReplies \in Nat

VARIABLES
    link,    \* the call at a target: "idle", "open", "answered", "ok", "failed"
    nrep,    \* replies handed over from a target
    owed,    \* targets refused during the setup whose error is not handed over
    gone     \* the Proxy RPC under the call has failed

omVars == <<link, nrep, owed, gone>>

Unary        == "unary"         \* a channel of one answer a target
ServerStream == "server"        \* SendMsg and CloseSend are part of the call
ClientStream == "client"        \* Send, then one CloseAndRecv
Bidi         == "bidi"          \* Send and Recv, by two goroutines

Playbook_Run                 == Unary
Lookup_Lookup                == Unary
Exec_Run                     == Unary
Exec_StreamingRun            == ServerStream
Conf_Read                    == Unary
Conf_Write                   == Unary
Conf_Delete                  == Unary
CLI_FDBCLI                   == ServerStream
Server_FDBServer             == Unary
HealthCheck_Ok               == Unary
HTTPOverRPC_Host             == Unary
HTTPOverRPC_StreamHost       == ServerStream
LocalFile_Read               == ServerStream
LocalFile_Stat               == Bidi
LocalFile_Sum                == Bidi
LocalFile_Write              == ClientStream
LocalFile_Copy               == Unary
LocalFile_List               == ServerStream
LocalFile_SetFileAttributes  == Unary
LocalFile_Rm                 == Unary
LocalFile_Rmdir              == Unary
LocalFile_Rename             == Unary
LocalFile_Readlink           == Unary
LocalFile_Symlink            == Unary
LocalFile_Mkdir              == Unary
LocalFile_DataGet            == Unary
LocalFile_DataSet            == Unary
LocalFile_Shred              == Unary
Mpa_Store                    == Unary
Mpa_Approve                  == Unary
Mpa_WaitForApproval          == Unary
Mpa_List                     == Unary
Mpa_Get                      == Unary
Mpa_Clear                    == Unary
Network_TCPCheck             == Unary
Packages_Install             == Unary
Packages_Remove              == Unary
Packages_Update              == Unary
Packages_Search              == Unary
Packages_ListInstalled       == Unary
Packages_RepoList            == Unary
Packages_Cleanup             == Unary
Power_Reboot                 == Unary
Process_List                 == Unary
Process_Kill                 == Unary
Process_GetStacks            == Unary
Process_GetJavaStacks        == Unary
Process_GetMemoryDump        == ServerStream
Logging_SetVerbosity         == Unary
Logging_GetVerbosity         == Unary
State_Version                == Unary
Service_List                 == Unary
Service_Status               == Unary
Service_Action               == Unary
SysInfo_Uptime               == Unary
SysInfo_Dmesg                == ServerStream
SysInfo_Journal              == ServerStream
TLSInfo_GetTLSCertificate    == Unary

Answer(t, k) ==      \* k: "reply", "eof", "error"; i: its place among those received together
    [t |-> t, k |-> k, n |-> IF k = "reply" THEN nrep[t] + 1 ELSE 0, i |-> 1]
Open(T)      == {t \in T : link[t] = "open"}
Unclosed(T)  == {t \in T : link[t] \in {"open", "answered"}}
Moved(T, st) == [t \in DOMAIN link |-> IF t \in T THEN st ELSE link[t]]

\* The call itself fails, and no target has been asked as far as the caller
\* knows.  A unary call to one target always hands over a channel.
CallFails(kind, T) ==
    /\ kind # Unary \/ Cardinality(T) # 1
    /\ link' = Moved(T, "failed")
    /\ owed' = {} /\ gone' = FALSE
    /\ UNCHANGED nrep

\* The call is made; of a proxied stream some targets may refuse.
CallMade(kind, T, direct) ==
    \E R \in SUBSET T :
        /\ R # {} => kind # Unary /\ ~direct
        /\ link' = [t \in DOMAIN link |-> IF t \in R THEN "failed"
                                          ELSE IF t \in T THEN "open" ELSE link[t]]
        /\ owed' = R /\ gone' = FALSE
        /\ nrep' = [t \in DOMAIN nrep |-> IF t \in T THEN 0 ELSE nrep[t]]

\* A unary answer a comes off the channel.
UnaryAnswer(T, a) ==
    /\ \/ /\ a = Answer(a.t, "reply") /\ a.t \in Open(T) /\ ~gone
          /\ link' = Moved({a.t}, IF Cardinality(T) = 1 THEN "ok" ELSE "answered")
       \/ /\ a = Answer(a.t, "error")
          /\ a.t \in (IF gone THEN Unclosed(T) ELSE Open(T))
          /\ link' = Moved({a.t}, "failed")
    /\ nrep' = [nrep EXCEPT ![a.t] = @ + (IF a.k = "reply" THEN 1 ELSE 0)]
    /\ UNCHANGED <<owed, gone>>

\* The proxy closes the stream of a target that has replied: no answer of its own.
UnaryClosed(T) ==
    /\ ~gone
    /\ \E t \in T : link[t] = "answered" /\ link' = Moved({t}, "ok")
    /\ UNCHANGED <<nrep, owed, gone>>

ChannelClosed(T) == Unclosed(T) = {}

\* The Proxy RPC fails under the call.  A direct stream has none: what fails it
\* is its one target's error.
RPCLost(kind, T, direct) ==
    /\ ~gone /\ ~direct
    /\ IF kind = Unary THEN Unclosed(T) # {} /\ Cardinality(T) > 1 ELSE Open(T) # {}
    /\ gone' = TRUE
    /\ UNCHANGED <<link, nrep, owed>>

RecvEOF(T)        == Open(T) = {}
RecvFails(T)      == Open(T) # {} /\ gone

\* Recv hands over the held refusals and an answer of t.
RecvAnswers(T, t, k) ==
    /\ ~gone /\ t \in Open(T)
    /\ \/ /\ k = "reply" /\ nrep[t] < MaxReplies
          /\ nrep' = [nrep EXCEPT ![t] = @ + 1]
          /\ UNCHANGED link
       \/ k = "eof" /\ link' = Moved({t}, "ok") /\ UNCHANGED nrep
       \/ k = "error" /\ link' = Moved({t}, "failed") /\ UNCHANGED nrep
    /\ owed' = {}
    /\ UNCHANGED gone
Received(t, k) ==
    LET batch == SetToSeq({Answer(r, "error") : r \in owed}) \o <<Answer(t, k)>>
    IN  [i \in DOMAIN batch |-> [batch[i] EXCEPT !.i = i]]

\* A SendMsg or CloseSend of the caller can only fail for a reason the RPC has.
\* A direct stream's Send fails once its target has ended it, with the status Recv
\* then gives.
SendFails(direct) == gone \/ direct
===============================================================================
