------------------------------- MODULE MCFdbCli -------------------------------
(* The command lines TLC types. *)
EXTENDS FdbCli

Upto(V, n) == UNION {[1..k -> V] : k \in 0..n}
Line(ws)   == [words |-> ws, flags |-> <<>>, exec |-> FALSE]
Lines(first, V, n) == {Line(first \o s) : s \in Upto(V, n)}

Key == {"aa", "07", "-1", ""}

Bare == {"begin", "commit", "defaulttenant", "getversion", "lock", "triggerddteaminfolog",
         "waitconnected", "waitopen", "advanceversion", "sleep", "clear", "createtenant",
         "deletetenant", "forcerecoverywithdataloss", "get", "gettenant", "unlock", "usetenant",
         "writemode", "status", "fdbclihelp", "help", "nosuch"}
Pairs == {"clearrange", "set", "setclass", "getrange", "getrangekeys", "listtenants", "snapshot"}

CommandLines ==
    (UNION {Lines(<<c>>, Key, 2) : c \in Bare}) \cup (UNION {Lines(<<c>>, Key, 3) : c \in Pairs})
    \cup Lines(<<"blobrange">>, {"start", "stop", "aa", ""}, 3)
    \cup Lines(<<"cacherange">>, {"set", "clear", "aa", ""}, 3)
    \cup Lines(<<"changefeed">>, {"list", "register", "stop", "destroy", "stream", "pop", "7", "-1"}, 4)
    \cup Lines(<<"configure">>, {"new", "tss", "single", "double", "ssd", "count=07", "count=aa",
                                 "count=-1", "tenant_mode=aa", "other=7"}, 3)
    \cup Lines(<<"configure">>, DOMAIN KV, 2)
    \cup Lines(<<"configure">>, {"triple", "three_data_hall", "three_datacenter", "memory", ""}, 2)
    \cup Lines(<<"consistencycheck">>, {"on", "off", "aa"}, 2)
    \cup Lines(<<"coordinators">>, {"auto", "aa", "", "description=aa", "description="}, 3)
    \cup Lines(<<"datadistribution">>, {"on", "off", "enable", "disable", "aa", ""}, 3)
    \cup Lines(<<"exclude">>, {"wait", "failed", "aa", ""}, 4)
    \cup Lines(<<"include">>, {"all", "failed", "aa", ""}, 4)
    \cup Lines(<<"expensivedatacheck">>, {"list", "all", "aa", ""}, 3)
    \cup Lines(<<"kill">>, {"list", "all", "aa", "-sleep", "3s", ""}, 3)
    \cup Lines(<<"fileconfigure">>, {"new", "/ff", "aa", ""}, 3)
    \cup Lines(<<"maintenance">>, {"on", "off", "aa", "07", "-1", ""}, 3)
    \cup Lines(<<"option">>, {"on", "off", "aa", ""}, 3)
    \cup Lines(<<"profile">>, {"client", "get", "list", "heap", "aa", ""}, 3)
    \cup Lines(<<"profile", "client", "set">>, {"default", "7", "7.50", "-1", "aa"}, 3)
    \cup Lines(<<"profile", "flow", "run">>, {"7", "aa", "-1"}, 4)
    \cup Lines(<<"suspend">>, {"7", "7.50", "aa", ""}, 3)
    \cup Lines(<<"throttle">>, {"on", "off", "enable", "disable", "list", "auto", "7", "aa", "-1", ""}, 3)
    \cup Lines(<<"throttle", "on">>, {"tag", "aa"}, 2)
    \cup Lines(<<"throttle", "on", "tag", "aa">>, {"7", "-1", "7s", "10s", "x", "batch"}, 3)
    \cup Lines(<<"throttle", "off">>, {"all", "manual", "tag", "aa", "batch"}, 4)
    \cup Lines(<<"tssq">>, {"start", "stop", "list", "aa", ""}, 3)
    \cup Lines(<<"versionepoch">>, {"get", "disable", "enable", "commit", "set", "07", "-1", ""}, 3)

\* Several commands, as words of the command line and in --exec.
Chains ==
    LET some == {<<"begin">>, <<"get", "aa">>, <<"kill", "all">>, <<"help">>, <<"exclude", "aa">>,
                 <<"configure", "new">>, <<"configure", "ssd">>, <<"", "commit", "">>, <<>>}
    IN  {[words |-> a \o <<";">> \o b, flags |-> <<>>, exec |-> e] : a \in some, b \in some, e \in BOOLEAN}
        \cup {[words |-> <<"begin", ";">> \o a \o <<";">> \o b, flags |-> <<>>, exec |-> FALSE] :
                 a \in some, b \in some}

FlagValues ==
    {[flag |-> f, val |-> "aa"] : f \in {"cluster-file", "C", "trace-format", "tls_certificate_file",
        "tls_ca_file", "tls_key_file", "tls_password", "tls_verify_peers", "log-group", "memory"}}
    \cup {[flag |-> f, val |-> "true"] : f \in {"log", "debug-tls", "v", "version", "no-status", "build-flags"}}
    \cup {[flag |-> "C", val |-> "07"], [flag |-> "log", val |-> "false"],
          [flag |-> "timeout", val |-> "07"], [flag |-> "timeout", val |-> "aa"],
          [flag |-> "knobs", val |-> "other=7"], [flag |-> "knobs", val |-> "aa"]}
Flagged == {[words |-> <<"status">>, flags |-> fs, exec |-> FALSE] : fs \in Upto(FlagValues, 2)}

AllInputs == CommandLines \cup Chains \cup Flagged
===============================================================================
