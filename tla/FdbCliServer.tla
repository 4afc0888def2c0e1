----------------------------- MODULE FdbCliServer -----------------------------
(***************************************************************************)
(* services/fdb/server: how each message becomes words of fdbcli's --exec  *)
(* argument.  A wrapper value is a sequence of at most one word, so the    *)
(* flag helpers append it as it is.                                        *)
(***************************************************************************)
EXTENDS FdbWords

stringFlag(flag, value)   == IF flag = Null THEN <<>> ELSE <<value>> \o flag
stringKVFlag(flag, value) == IF flag = Null THEN <<>> ELSE <<Joined(value, flag[1])>>
boolFlag(flag, value)     == IF flag = Some(TRUE) THEN <<value>> ELSE <<>>

Just(name)         == Accept(<<name>>)
Named(name, word)  == Given(word # "", <<name, word>>)

parseFDBCLIAdvanceversion(m) == Accept(<<"advanceversion", m.version>>)
parseFDBCLIBegin(m) == Just("begin")
parseFDBCLIBlobrange(m) ==
    Given(m.request # "nil" /\ m.begin_key # "" /\ m.end_key # "",
          <<"blobrange", m.request, m.begin_key, m.end_key>>)
parseFDBCLICacheRange(m) ==
    Given(m.request # "nil" /\ m.begin_key # "" /\ m.end_key # "",
          <<"cacherange", m.request, m.begin_key, m.end_key>>)
parseFDBCLIChangefeed(m) ==
    CASE m.request = "nil" -> Refused
      [] m.request = "list" -> Accept(<<"changefeed", "list">>)
      [] m.request = "register" ->
            Given(m.begin # "" /\ m.end # "" /\ m.range_id # "",
                  <<"changefeed", "register", m.range_id, m.begin, m.end>>)
      [] m.request \in {"stop", "destroy"} ->
            Given(m.range_id # "", <<"changefeed", m.request, m.range_id>>)
      [] m.request = "stream" ->
            Given(m.range_id # "", <<"changefeed", "stream", m.range_id>> \o m.versions)
      [] m.request = "pop" ->
            Given(m.range_id # "", <<"changefeed", "pop", m.range_id, m.version>>)
parseFDBCLIClear(m) == Named("clear", m.word)
parseFDBCLIClearrange(m) ==
    Given(m.begin_key # "" /\ m.end_key # "", <<"clearrange", m.begin_key, m.end_key>>)
parseFDBCLICommit(m) == Just("commit")

\* In an order of its own.
parseFDBCLIConfigure(m) ==
    Accept(<<"configure">> \o m["new_or_tss"] \o m["redundancy_mode"] \o m["storage_engine"]
           \o stringKVFlag(m["grv_proxies"], "grv_proxies")
           \o stringKVFlag(m["commit_proxies"], "commit_proxies")
           \o stringKVFlag(m["resolvers"], "resolvers")
           \o stringKVFlag(m["logs"], "logs")
           \o stringKVFlag(m["count"], "count")
           \o stringKVFlag(m["perpetual_storage_wiggle"], "perpetual_storage_wiggle")
           \o stringKVFlag(m["perpetual_storage_wiggle_locality"], "perpetual_storage_wiggle_locality")
           \o stringKVFlag(m["storage_migration_type"], "storage_migration_type")
           \o stringKVFlag(m["tenant_mode"], "tenant_mode")
           \o stringKVFlag(m["blob_granules_enabled"], "blob_granules_enabled"))
parseFDBCLIConsistencycheck(m) ==
    Accept(<<"consistencycheck">> \o (IF m.mode = Null THEN <<>>
                                      ELSE <<IF m.mode[1] THEN "on" ELSE "off">>))
parseFDBCLICoordinators(m) ==
    Given(m.request # "nil",
          <<"coordinators">> \o (IF m.request = "auto" THEN <<"auto">> ELSE m.addresses)
          \o stringKVFlag(m.description, "description"))
parseFDBCLICreateTentant(m) == Named("createtenant", m.word)
parseFDBCLIDatadistribution(m) ==
    CASE m.request = "nil" -> Refused
      [] m.request \in {"on", "off"} -> Accept(<<"datadistribution", m.request>>)
      [] OTHER -> Given(m.option # "", <<"datadistribution", m.request, m.option>>)
parseFDBCLIDefaulttenant(m) == Just("defaulttenant")
parseFDBCLIDeleteTenant(m)  == Named("deletetenant", m.word)
parseFDBCLIExclude(m) ==
    Accept(<<"exclude">> \o boolFlag(m.no_wait, "no_wait") \o boolFlag(m.failed, "failed")
           \o m.addresses)
parseFDBCLIExpensiveDataCheck(m) ==
    CASE m.request = "init" -> Accept(<<"expensive_data_check">>)
      [] m.request \in {"list", "all"} -> Accept(<<"expensive_data_check", m.request>>)
      [] OTHER -> Given(m.addresses # <<>>, <<"expensive_data_check">> \o m.addresses)
parseFDBCLIFileconfigure(m) ==
    Given(m.file # "" /\ ValidPath(m.file), <<"fileconfigure">> \o boolFlag(m.new, "new") \o <<m.file>>)
parseFDBCLIForceRecoveryWithDataLoss(m) == Named("force_recovery_with_data_loss", m.word)
parseFDBCLIGet(m) == Named("get", m.word)
parseFDBCLIGetrange(m) ==
    Given(m.begin_key # "", <<"getrange", m.begin_key>> \o m.end_key \o m.limit)
parseFDBCLIGetrangekeys(m) ==
    Given(m.begin_key # "", <<"getrangekeys", m.begin_key>> \o m.end_key \o m.limit)
parseFDBCLIGettenant(m)  == Named("gettenant", m.word)
parseFDBCLIGetversion(m) == Just("getversion")
parseFDBCLIHelp(m)       == Accept(<<"help">> \o m.options)
parseFDBCLIInclude(m) ==
    Given(m.request # "nil" /\ (m.request = "addresses" => m.addresses # <<>>),
          <<"include">> \o boolFlag(m.failed, "failed")
          \o (IF m.request = "all" THEN <<"all">> ELSE m.addresses))

\* The first kill fills fdbcli's list of processes.
parseFDBCLIKill(m) ==
    LET slept == IF m.sleep = Null THEN <<>> ELSE <<";", "sleep">> \o m.sleep
    IN  CASE m.request = "init" -> Accept(<<"kill">> \o slept)
          [] m.request = "list" -> Accept(<<"kill", "list">> \o slept)
          [] m.request = "all"  -> Accept(<<"kill", ";", "kill", "all">> \o slept)
          [] OTHER -> Given(m.addresses # <<>>, <<"kill", ";", "kill">> \o m.addresses \o slept)
parseFDBCLIListtenantsLimitFirst(m) == Accept(<<"listtenants">> \o m.limit \o m.begin \o m.end)
parseFDBCLIListtenants(m) == Accept(<<"listtenants">> \o m.begin \o m.end \o m.limit)
parseFDBCLILock(m) == Just("lock")
parseFDBCLIMaintenance(m) ==
    CASE m.request = "status" -> Just("maintenance")
      [] m.request = "on" -> Given(m.zoneid # "", <<"maintenance", "on", m.zoneid, m.seconds>>)
      [] OTHER -> Accept(<<"maintenance", "off">>)
parseFDBCLIOption(m) ==
    CASE m.request = "nil" -> Refused
      [] m.request = "blank" -> Just("option")       \* no command of the client sends it
      [] OTHER -> Given(m.state # "" /\ m.option # "", <<"option", m.state, m.option>> \o m.arg)

\* The file of a flow profile is one of the server's own, named TMP here.
parseFDBCLIProfile(m) ==
    CASE m.request = "nil" -> Refused
      [] m.request = "client" ->
            Accept(<<"profile", "client">> \o (IF m.set THEN <<"set", "rate", m.rate, "size", m.size>>
                                               ELSE <<"get">>))
      [] m.request = "list" -> Accept(<<"profile", "list">>)
      [] m.request = "flow" ->
            Given(m.processes # <<>>, <<"profile", "flow", "run", m.duration, "TMP">> \o m.processes)
      [] OTHER -> Given(m.process # "", <<"profile", "heap", m.process>>)
parseFDBCLISet(m) == Given(m.key # "" /\ m.value # "", <<"set", m.key, m.value>>)
parseFDBCLISetclass(m) ==
    IF m.request = "list" THEN Just("setclass")
    ELSE Given(m.address # "" /\ m.class # "", <<"setclass", m.address, m.class>>)
parseFDBCLISleep(m) == Accept(<<"sleep", m.seconds>>)
parseFDBCLISnapshot(m) == Given(m.command # "", <<"snapshot", m.command>> \o m.options)
parseFDBCLIStatus(m)   == Accept(<<"status">> \o m.style)
parseFDBCLISuspend(m) ==
    IF m.request = "init" THEN Just("suspend")
    ELSE Given(m.addresses # <<>>, <<"suspend", m.seconds>> \o m.addresses)
parseFDBCLIThrottle(m) ==
    CASE m.request = "on" ->
            Given(m.tag # "", <<"throttle", "on", "tag", m.tag>> \o m.rate \o m.duration \o m.priority)
      [] m.request = "off" ->
            Accept(<<"throttle", "off">> \o m.type \o stringFlag(m.tag, "tag") \o m.priority)
      [] m.request \in {"enable", "disable"} -> Accept(<<"throttle", m.request, "auto">>)
      [] OTHER -> Accept(<<"throttle", "list">> \o m.type \o m.limit)
parseFDBCLITriggerddteaminfolog(m) == Just("triggerddteaminfolog")
parseFDBCLITssq(m) ==
    IF m.request = "list" THEN Accept(<<"tssq", "list">>)
    ELSE Given(m.storage_uid # "", <<"tssq", m.request, m.storage_uid>>)
parseFDBCLIUnlock(m)    == Named("unlock", m.word)
parseFDBCLIUseTenant(m) == Named("usetenant", m.word)
parseFDBCLIVersionepoch(m) ==
    Accept(<<"versionepoch">> \o CASE m.request = "info" -> <<>>
                                   [] m.request = "set" -> <<"set", m.epoch>>
                                   [] OTHER -> <<m.request>>)
parseFDBCLIWaitconnected(m) == Just("waitconnected")
parseFDBCLIWaitopen(m)      == Just("waitopen")
parseFDBCLIWritemode(m)     == Named("writemode", m.word)
===============================================================================
