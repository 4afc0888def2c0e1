-------------------------------- MODULE FdbCli --------------------------------
(***************************************************************************)
(* sanssh fdb fdbcli from the words a user types to the command line the   *)
(* server runs: fdbCLICmd.Execute splits the words at ";" and has each     *)
(* command's Execute append a message to one request; the server turns the *)
(* request's flags and messages back into words.                           *)
(***************************************************************************)
EXTENDS FdbCliClient, FdbCliServer

CONSTANT Inputs    \* what may be typed: [words, flags, exec], exec: given with --exec

VARIABLES
    typed,     \* the input
    pc,        \* "flags", "parse", "top", "args", and how it ended: "ran", "local",
               \* "client refused", "panic", "server refused"
    pieces,    \* the words between semicolons that are still to be parsed
    top,       \* the top level fields of the request
    request,   \* its Commands
    todo,      \* the messages the server has still to look at
    options,   \* fdbcli's own options
    words      \* the words of --exec

vars == <<typed, pc, pieces, top, request, todo, options, words>>

(***************************************************************************)
(* The top level flags: SetFlags and generateFDBCLITopArgs.                *)
(***************************************************************************)
Strs  == {"Config", "TraceFormat", "TlsCertificateFile", "TlsCaFile", "TlsKeyFile", "TlsPassword",
          "TlsVerifyPeers", "LogGroup", "Memory"}
Bools == {"Log", "DebugTls", "Version", "NoStatus", "BuildFlags"}
TopFields == Strs \cup Bools \cup {"Timeout", "Knobs"}

FieldSwapped(flag) ==
    CASE flag \in {"log", "debug-tls", "v", "version", "no-status", "build-flags"} -> "Log"
      [] flag = "timeout" -> "Timeout"
      [] flag = "knobs" -> "Knobs"
      [] flag = "tls_ca_file" -> "TlsKeyFile"
      [] OTHER -> "Config"
Field(flag) ==
    CASE flag \in {"cluster-file", "C"} -> "Config"
      [] flag = "log" -> "Log"
      [] flag = "trace-format" -> "TraceFormat"
      [] flag = "tls_certificate_file" -> "TlsCertificateFile"
      [] flag = "tls_ca_file" -> "TlsCaFile"
      [] flag = "tls_key_file" -> "TlsKeyFile"
      [] flag = "tls_password" -> "TlsPassword"
      [] flag = "tls_verify_peers" -> "TlsVerifyPeers"
      [] flag = "debug-tls" -> "DebugTls"
      [] flag \in {"v", "version"} -> "Version"
      [] flag = "log-group" -> "LogGroup"
      [] flag = "no-status" -> "NoStatus"
      [] flag = "memory" -> "Memory"
      [] flag = "build-flags" -> "BuildFlags"
      [] flag = "timeout" -> "Timeout"
      [] flag = "knobs" -> "Knobs"

\* A flag with no value but true is set whatever value it is given.
SetFlag(t, fv) ==
    [t EXCEPT ![Field(fv.flag)] =
        IF Field(fv.flag) \in Bools THEN Some(TRUE)
        ELSE IF Field(fv.flag) = "Timeout" THEN Some(ParseInt(fv.val)) ELSE Some(fv.val)]
SetFlags(fs) == FoldLeft(SetFlag, [f \in TopFields |-> Null], fs)
FlagsParse(fs) == \A i \in DOMAIN fs : fs[i].flag = "timeout" => IsInt(fs[i].val)

KnobsParse(t) == t["Knobs"] # Null => IsKV(t["Knobs"][1])
generateFDBCLITopArgs(t) ==
    stringFlag(t["Config"], "--cluster-file")
    \o boolFlag(t["Log"], "--log") \o (IF t["Log"] = Some(TRUE) THEN <<"--log-dir", "TMP">> ELSE <<>>)
    \o stringFlag(t["TraceFormat"], "--trace_format")
    \o stringFlag(t["TlsCertificateFile"], "--tls_certificate_file")
    \o stringFlag(t["TlsCaFile"], "--tls_ca_file")
    \o stringFlag(t["TlsKeyFile"], "--tls_key_file")
    \o stringFlag(t["TlsPassword"], "--tls_password")
    \o stringFlag(t["TlsVerifyPeers"], "--tls_verify_peers")
    \o boolFlag(t["DebugTls"], "--debug-tls")
    \o boolFlag(t["Version"], "--version")
    \o stringFlag(t["LogGroup"], "--log-group")
    \o boolFlag(t["NoStatus"], "--no-status")
    \o stringFlag(t["Memory"], "--memory")
    \o boolFlag(t["BuildFlags"], "--build-flags")
    \o stringFlag(t["Timeout"], "--timeout")
    \o stringFlag(t["Knobs"], "--knob")

----------------------------------------------------------------------------
(* The commands by name *)

Local == {"help", "flags", "commands"}

Execute(name, w) ==
    CASE name = "advanceversion" -> fdbCLIAdvanceversionCmd(w)
      [] name = "begin" -> fdbCLIBeginCmd(w)
      [] name = "blobrange" -> fdbCLIBlobrangeCmd(w)
      [] name = "cacherange" -> fdbCLICacheRangeCmd(w)
      [] name = "changefeed" -> fdbCLIChangefeedCmd(w)
      [] name = "clear" -> fdbCLIClearCmd(w)
      [] name = "clearrange" -> fdbCLIClearrangeCmd(w)
      [] name = "commit" -> fdbCLICommitCmd(w)
      [] name = "configure" -> fdbCLIConfigureCmd(w)
      [] name = "consistencycheck" -> fdbCLIConsistencycheckCmd(w)
      [] name = "coordinators" -> fdbCLICoordinatorsCmd(w)
      [] name = "createtenant" -> fdbCLICreatetenantCmd(w)
      [] name = "datadistribution" -> fdbCLIDatadistributionCmd(w)
      [] name = "defaulttenant" -> fdbCLIDefaulttenantCmd(w)
      [] name = "deletetenant" -> fdbCLIDeletetenantCmd(w)
      [] name = "exclude" -> fdbCLIExcludeCmd(w)
      [] name = "expensivedatacheck" -> fdbCLIExpensiveDataCheckCmd(w)
      [] name = "fileconfigure" -> fdbCLIFileconfigureCmd(w)
      [] name = "forcerecoverywithdataloss" -> fdbCLIForceRecoveryWithDataLossCmd(w)
      [] name = "get" -> fdbCLIGetCmd(w)
      [] name = "getrange" -> fdbCLIGetrangeCmd(w)
      [] name = "getrangekeys" -> fdbCLIGetrangekeysCmd(w)
      [] name = "gettenant" -> fdbCLIGettenantCmd(w)
      [] name = "getversion" -> fdbCLIGetversionCmd(w)
      [] name = "fdbclihelp" -> fdbCLIHelpCmd(w)
      [] name = "include" -> fdbCLIIncludeCmd(w)
      [] name = "kill" -> fdbCLIKillCmd(w)
      [] name = "listtenants" -> fdbCLIListtenantsCmd(w)
      [] name = "lock" -> fdbCLILockCmd(w)
      [] name = "maintenance" -> fdbCLIMaintenanceCmd(w)
      [] name = "option" -> fdbCLIOptionCmd(w)
      [] name = "profile" -> fdbCLIProfileCmd(w)
      [] name = "set" -> fdbCLISetCmd(w)
      [] name = "setclass" -> fdbCLISetclassCmd(w)
      [] name = "sleep" -> fdbCLISleepCmd(w)
      [] name = "snapshot" -> fdbCLISnapshotCmd(w)
      [] name = "status" -> fdbCLIStatusCmd(w)
      [] name = "suspend" -> fdbCLISuspendCmd(w)
      [] name = "throttle" -> fdbCLIThrottleCmd(w)
      [] name = "triggerddteaminfolog" -> fdbCLITriggerddteaminfologCmd(w)
      [] name = "tssq" -> fdbCLITssqCmd(w)
      [] name = "unlock" -> fdbCLIUnlockCmd(w)
      [] name = "usetenant" -> fdbCLIUsetenantCmd(w)
      [] name = "versionepoch" -> fdbCLIVersionepochCmd(w)
      [] name = "waitconnected" -> fdbCLIWaitconnectedCmd(w)
      [] name = "waitopen" -> fdbCLIWaitopenCmd(w)
      [] name = "writemode" -> fdbCLIWritemodeCmd(w)
      [] OTHER -> Refused

parseFDBCommand(name, m) ==
    CASE name = "advanceversion" -> parseFDBCLIAdvanceversion(m)
      [] name = "begin" -> parseFDBCLIBegin(m)
      [] name = "blobrange" -> parseFDBCLIBlobrange(m)
      [] name = "cacherange" -> parseFDBCLICacheRange(m)
      [] name = "changefeed" -> parseFDBCLIChangefeed(m)
      [] name = "clear" -> parseFDBCLIClear(m)
      [] name = "clearrange" -> parseFDBCLIClearrange(m)
      [] name = "commit" -> parseFDBCLICommit(m)
      [] name = "configure" -> parseFDBCLIConfigure(m)
      [] name = "consistencycheck" -> parseFDBCLIConsistencycheck(m)
      [] name = "coordinators" -> parseFDBCLICoordinators(m)
      [] name = "createtenant" -> parseFDBCLICreateTentant(m)
      [] name = "datadistribution" -> parseFDBCLIDatadistribution(m)
      [] name = "defaulttenant" -> parseFDBCLIDefaulttenant(m)
      [] name = "deletetenant" -> parseFDBCLIDeleteTenant(m)
      [] name = "exclude" -> parseFDBCLIExclude(m)
      [] name = "expensivedatacheck" -> parseFDBCLIExpensiveDataCheck(m)
      [] name = "fileconfigure" -> parseFDBCLIFileconfigure(m)
      [] name = "forcerecoverywithdataloss" -> parseFDBCLIForceRecoveryWithDataLoss(m)
      [] name = "get" -> parseFDBCLIGet(m)
      [] name = "getrange" -> parseFDBCLIGetrange(m)
      [] name = "getrangekeys" -> parseFDBCLIGetrangekeys(m)
      [] name = "gettenant" -> parseFDBCLIGettenant(m)
      [] name = "getversion" -> parseFDBCLIGetversion(m)
      [] name = "fdbclihelp" -> parseFDBCLIHelp(m)
      [] name = "include" -> parseFDBCLIInclude(m)
      [] name = "kill" -> parseFDBCLIKill(m)
      [] name = "listtenants" -> parseFDBCLIListtenants(m)
      [] name = "lock" -> parseFDBCLILock(m)
      [] name = "maintenance" -> parseFDBCLIMaintenance(m)
      [] name = "option" -> parseFDBCLIOption(m)
      [] name = "profile" -> parseFDBCLIProfile(m)
      [] name = "set" -> parseFDBCLISet(m)
      [] name = "setclass" -> parseFDBCLISetclass(m)
      [] name = "sleep" -> parseFDBCLISleep(m)
      [] name = "snapshot" -> parseFDBCLISnapshot(m)
      [] name = "status" -> parseFDBCLIStatus(m)
      [] name = "suspend" -> parseFDBCLISuspend(m)
      [] name = "throttle" -> parseFDBCLIThrottle(m)
      [] name = "triggerddteaminfolog" -> parseFDBCLITriggerddteaminfolog(m)
      [] name = "tssq" -> parseFDBCLITssq(m)
      [] name = "unlock" -> parseFDBCLIUnlock(m)
      [] name = "usetenant" -> parseFDBCLIUseTenant(m)
      [] name = "versionepoch" -> parseFDBCLIVersionepoch(m)
      [] name = "waitconnected" -> parseFDBCLIWaitconnected(m)
      [] name = "waitopen" -> parseFDBCLIWaitopen(m)
      [] name = "writemode" -> parseFDBCLIWritemode(m)

----------------------------------------------------------------------------
(* The client *)

\* Join and split: pieces end at ";", and blanks around a piece are trimmed.
SplitPieces(ws) ==
    FoldLeft(LAMBDA ps, w : IF w = ";" THEN Append(ps, <<>>)
                            ELSE [ps EXCEPT ![Len(ps)] = Append(@, w)], << <<>> >>, ws)
TrimSpace(ws) ==
    LET solid == {i \in DOMAIN ws : ws[i] # ""}
        lo == CHOOSE i \in solid : \A j \in solid : i <= j
        hi == CHOOSE i \in solid : \A j \in solid : i >= j
    IN  IF solid = {} THEN <<"">> ELSE SubSeq(ws, lo, hi)
SplitCommands(ws) == LET ps == SplitPieces(ws) IN [i \in DOMAIN ps |-> TrimSpace(ps[i])]

\* The words flag.Parse leaves of a command's own: -sleep of kill takes the next.
FlagWords(name, w) ==
    IF w = <<>> \/ ~IsFlag(Head(w)) THEN Accept(w)
    ELSE IF name = "kill" /\ Head(w) = "-sleep" /\ Arg(w, 1) = "3s" THEN Accept(From(w, 2)) ELSE Refused
ExecuteFlags(name, w) ==
    LET ws == FlagWords(name, w) IN IF ws.status = "ok" THEN Execute(name, ws.m) ELSE Refused

Init ==
    /\ typed \in Inputs /\ pc = "flags" /\ pieces = <<>> /\ top = [f \in TopFields |-> Null]
    /\ request = <<>> /\ todo = <<>> /\ options = <<>> /\ words = <<>>

\* --exec takes its words apart at white space.
Exec ==
    /\ pc = "flags"
    /\ LET ws == IF typed.exec THEN SelectSeq(typed.words, LAMBDA w : w # "") ELSE typed.words IN
       /\ pieces' = SplitCommands(ws)
       /\ pc' = IF ~FlagsParse(typed.flags) THEN "client refused"
                ELSE IF ~typed.exec /\ Arg(ws, 0) \in Local THEN "local" ELSE "parse"
    /\ top' = IF FlagsParse(typed.flags) THEN SetFlags(typed.flags) ELSE top
    /\ UNCHANGED <<typed, request, todo, options, words>>

ParseCommand ==
    /\ pc = "parse" /\ pieces # <<>>
    /\ LET name == Head(Head(pieces))
           r    == ExecuteFlags(name, Tail(Head(pieces)))
       IN  \/ /\ name \in Local             \* runs here and adds nothing
              /\ UNCHANGED <<pc, request>>
           \/ /\ name \notin Local /\ r.status = "ok"
              /\ request' = Append(request, [name |-> name, m |-> r.m])
              /\ UNCHANGED pc
           \/ /\ name \notin Local /\ r.status # "ok"
              /\ pc' = IF r.status = "panic" THEN "panic" ELSE "client refused"
              /\ UNCHANGED request
    /\ pieces' = Tail(pieces)
    /\ UNCHANGED <<typed, top, todo, options, words>>

Send ==
    /\ pc = "parse" /\ pieces = <<>>
    /\ pc' = "top" /\ todo' = request
    /\ UNCHANGED <<typed, pieces, top, request, options, words>>

----------------------------------------------------------------------------
(* The server *)

TopArgs ==
    /\ pc = "top"
    /\ IF request # <<>> /\ KnobsParse(top)
       THEN pc' = "args" /\ options' = generateFDBCLITopArgs(top)
       ELSE pc' = "server refused" /\ UNCHANGED options
    /\ UNCHANGED <<typed, pieces, top, request, todo, words>>

\* With more than one command each is followed by ";".
CommandArgs ==
    /\ pc = "args" /\ todo # <<>>
    /\ LET r == parseFDBCommand(Head(todo).name, Head(todo).m) IN
       IF r.status = "ok"
       THEN /\ words' = words \o r.m \o (IF Len(request) > 1 THEN <<";">> ELSE <<>>)
            /\ UNCHANGED pc
       ELSE pc' = "server refused" /\ UNCHANGED words
    /\ todo' = Tail(todo)
    /\ UNCHANGED <<typed, pieces, top, request, options>>

RunCommand ==
    /\ pc = "args" /\ todo = <<>>
    /\ pc' = "ran"
    /\ UNCHANGED <<typed, pieces, top, request, todo, options, words>>

Next == Exec \/ ParseCommand \/ Send \/ TopArgs \/ CommandArgs \/ RunCommand
FdbCliSpec == Init /\ [][Next]_vars

----------------------------------------------------------------------------
(* Properties *)

\* The commands the user typed.
Typed == SelectSeq(SplitCommands(IF typed.exec THEN SelectSeq(typed.words, LAMBDA w : w # "")
                                 ELSE typed.words), LAMBDA p : Head(p) \notin Local)

\* What native fdbcli would have been given for a command typed as p: the same
\* words.  The documented differences: kill is given twice, exclude does not wait
\* unless told to, and the file of a profile is the server's.
FdbName(name) ==
    CASE name = "fdbclihelp" -> "help"
      [] name = "expensivedatacheck" -> "expensive_data_check"
      [] name = "forcerecoverywithdataloss" -> "force_recovery_with_data_loss"
      [] OTHER -> name
Meant(p) ==
    LET name == Head(p)
        w    == Tail(p)
    IN  CASE name = "kill" /\ w # <<>> /\ w # <<"list">> -> <<"kill", ";", "kill">> \o w
          [] name = "exclude" ->
                <<"exclude">> \o (IF Contains(w, "wait") \/ ToSet(w) \subseteq {"failed"} THEN <<>>
                                  ELSE <<"no_wait">>)
                \o SelectSeq(w, LAMBDA x : x # "wait")
          [] name = "profile" /\ Arg(w, 0) = "flow" -> <<"profile">> \o [w EXCEPT ![4] = "TMP"]
          [] OTHER -> <<FdbName(name)>> \o w

\* Words are the same when they are the same number; configure and throttle take
\* their options in any order.
Canon(w)    == IF IsFloat(w) THEN ParseFloat(w) ELSE IF w = "count=07" THEN "count=7" ELSE w
Canons(s)   == [i \in DOMAIN s |-> Canon(s[i])]
AnyOrder(p) == Head(p) = "configure" \/ (Head(p) = "throttle" /\ Arg(Tail(p), 0) \in {"on", "off"})
Count(s, x) == Cardinality({i \in DOMAIN s : s[i] = x})
SameWords(p, e) ==
    LET m == Canons(Meant(p))
        c == Canons(e)
    IN  IF AnyOrder(p) THEN Len(m) = Len(c) /\ \A i \in DOMAIN c : Count(m, c[i]) = Count(c, c[i])
        ELSE m = c

\* Where the code is known to run something else than what was typed: a version or
\* size read from the wrong word, an argument read past the end, a duration
\* given twice, the sleep of a kill, a negative number sent as unsigned, words
\* that are dropped.
Lossy(p) ==
    LET name == Head(p)
        w    == Tail(p)
    IN  \/ name = "changefeed" /\ (Arg(w, 0) = "pop" \/ (Arg(w, 0) = "stream" /\ NArg(w) = 4))
        \/ name = "option" /\ NArg(w) = 3
        \/ name = "profile" /\ (Arg(w, 1) = "set" \/ (Arg(w, 0) = "heap" /\ NArg(w) > 2))
        \/ name = "throttle" /\ Contains(w, "10s")
        \/ name = "kill" /\ Arg(w, 0) = "-sleep"
        \/ name \in {"datadistribution", "tssq"} /\ Arg(w, 0) \in {"on", "off", "list"} /\ NArg(w) = 2
        \/ Contains(w, "-1") /\ name \in {"getrange", "getrangekeys", "listtenants", "maintenance",
                                          "throttle", "profile"}
        \/ name = "configure" /\ \E i \in DOMAIN w : w[i] = "count=-1"
              \/ ~\E f \in ConfigureFields : Fills(w[i], f) /\ \A j \in 1..(i - 1) : ~Fills(w[j], f)

\* Translating there and back changes nothing: a command line that is run is made
\* of the commands typed, all of them and in their order, each with the words its
\* user gave it, save where Lossy says so.
CommandsFaithful ==
    pc = "ran" /\ (\A i \in DOMAIN Typed : ~Lossy(Typed[i])) =>
        \E cut \in [0..Len(Typed) -> 0..Len(words)] :
            /\ cut[0] = 0 /\ cut[Len(Typed)] = Len(words)
            /\ \A i \in DOMAIN Typed :
                  LET e == SubSeq(words, cut[i - 1] + 1, cut[i]) IN
                  IF Len(Typed) = 1 THEN SameWords(Typed[i], e)
                  ELSE e # <<>> /\ Last(e) = ";" /\ SameWords(Typed[i], Front(e))

\* What a client's Execute lets through although no server accepts it.
Unchecked(p) ==
    LET name == Head(p)
        w    == Tail(p)
    IN  \/ name \in {"blobrange", "cacherange"} /\ Arg(w, 0) \notin {"start", "stop", "set", "clear"}
        \/ name = "datadistribution" /\ Arg(w, 0) \notin {"on", "off"}
              /\ (NArg(w) = 1 \/ Arg(w, 0) \notin {"enable", "disable"})
        \/ name = "include" /\ ToSet(w) \subseteq {"failed"}
        \/ name = "coordinators" /\ w = <<"description=aa">>
        \/ name = "profile" /\ (NArg(w) > 5 \/ w = <<"heap">>)
        \/ name = "throttle" /\ w = <<"on", "tag">>
        \/ name = "fileconfigure" /\ ~ValidPath(Last(w))

\* The two sides agree on what a well formed request is: the server refuses no
\* request the client has built, but for words the client does not look at.
ServerAccepts ==
    pc = "server refused" =>
        ~KnobsParse(top) \/ Typed = <<>> \/ \E i \in DOMAIN Typed : Unchecked(Typed[i])

\* The option of fdbcli a flag stands for.
OptionOf ==
    [C |-> "--cluster-file", log |-> "--log", tls_certificate_file |-> "--tls_certificate_file",
     tls_ca_file |-> "--tls_ca_file", tls_key_file |-> "--tls_key_file",
     tls_password |-> "--tls_password", tls_verify_peers |-> "--tls_verify_peers",
     v |-> "--version", version |-> "--version", memory |-> "--memory", timeout |-> "--timeout",
     knobs |-> "--knob"]
    @@ ("cluster-file" :> "--cluster-file") @@ ("trace-format" :> "--trace_format")
    @@ ("debug-tls" :> "--debug-tls") @@ ("log-group" :> "--log-group")
    @@ ("no-status" :> "--no-status") @@ ("build-flags" :> "--build-flags")

\* fdbcli runs with the options its user gave, the last value of each, and with no
\* others (a log brings its directory).  A flag given as false counts as given.
FlagsFaithful ==
    pc = "ran" =>
        LET fs     == typed.flags
            last   == {i \in DOMAIN fs : \A j \in DOMAIN fs :
                          OptionOf[fs[j].flag] = OptionOf[fs[i].flag] => j <= i}
            valued == {i \in last : Field(fs[i].flag) \notin Bools}
            log    == \E i \in DOMAIN fs : fs[i].flag = "log"
        IN  /\ Len(options) = Cardinality(last) + Cardinality(valued) + (IF log THEN 2 ELSE 0)
            /\ \A i \in last : \E k \in DOMAIN options :
                  /\ options[k] = OptionOf[fs[i].flag]
                  /\ i \in valued => Canon(options[k + 1]) = Canon(fs[i].val)
===============================================================================
