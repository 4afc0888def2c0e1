------------------------------- MODULE FdbWords -------------------------------
(***************************************************************************)
(* The words of an fdbcli command line and what the code on either side    *)
(* asks of a word: is it a number, a duration, a key=value.  Words are     *)
(* drawn from the small vocabulary the tables below describe; a word they  *)
(* do not list is plain text of two or more characters.                    *)
(***************************************************************************)
EXTENDS Integers, Sequences, FiniteSets, SequencesExt

\* strconv.ParseInt followed by %d; a number is kept in its decimal form.
Decimal  == [w \in {"7", "07", "-1"} |-> IF w = "07" THEN "7" ELSE w]
IsInt(w) == w \in DOMAIN Decimal
ParseInt(w) == Decimal[w]

\* The conversions uint32(v) and uint64(v) of a parsed int64.
Uint32(n) == IF n = "-1" THEN "4294967295" ELSE n
Uint64(n) == IF n = "-1" THEN "18446744073709551615" ELSE n

\* strconv.ParseFloat followed by %g.
IsFloat(w) == IsInt(w) \/ w = "7.50"
ParseFloat(w) == IF w = "7.50" THEN "7.5" ELSE ParseInt(w)

\* strings.SplitN(w, "=", 2) of the words that have a "=".
Uints   == {"grv_proxies", "commit_proxies", "resolvers", "logs", "count",
            "perpetual_storage_wiggle", "blob_granules_enabled"}
Strings == {"perpetual_storage_wiggle_locality", "storage_migration_type", "tenant_mode"}
KV ==
    LET pairs == {<<"grv_proxies=7", "grv_proxies", "7">>,
                  <<"commit_proxies=7", "commit_proxies", "7">>,
                  <<"resolvers=7", "resolvers", "7">>,
                  <<"logs=7", "logs", "7">>,
                  <<"count=7", "count", "7">>,
                  <<"count=07", "count", "07">>,
                  <<"count=aa", "count", "aa">>,
                  <<"count=", "count", "">>,
                  <<"count=-1", "count", "-1">>,
                  <<"count=4294967295", "count", "4294967295">>,
                  <<"perpetual_storage_wiggle=7", "perpetual_storage_wiggle", "7">>,
                  <<"blob_granules_enabled=7", "blob_granules_enabled", "7">>,
                  <<"perpetual_storage_wiggle_locality=aa", "perpetual_storage_wiggle_locality", "aa">>,
                  <<"storage_migration_type=aa", "storage_migration_type", "aa">>,
                  <<"tenant_mode=aa", "tenant_mode", "aa">>,
                  <<"description=aa", "description", "aa">>,
                  <<"description=", "description", "">>,
                  <<"other=7", "other", "7">>}
    IN  [w \in {p[1] : p \in pairs} |->
            LET p == CHOOSE q \in pairs : q[1] = w IN [key |-> p[2], val |-> p[3]]]
IsKV(w)      == w \in DOMAIN KV
Joined(k, v) == CHOOSE w \in DOMAIN KV : KV[w] = [key |-> k, val |-> v]

\* The length of a word matters only to throttle: "x" has one character, of
\* "10s" the part up to the last two is a number, of "7s" it is empty.
OneChar(w)      == w = "x"
IntButForTwo(w) == w = "10s"

\* A word flag.Parse takes for a flag while no other word has come before it.
IsFlag(w) == w \in {"-1", "-sleep"}

\* util.ValidPath: absolute and clean.
ValidPath(w) == w = "/ff"

\* Wrapper values: <<>> is nil.
Null    == <<>>
Some(v) == <<v>>

AnyEmpty(w) == \E i \in DOMAIN w : w[i] = ""
NArg(w)     == Len(w)
Arg(w, i)   == IF i + 1 \in DOMAIN w THEN w[i + 1] ELSE ""
From(w, i)  == SubSeq(w, i + 1, Len(w))            \* f.Args()[i:]

\* What translating a command comes to.
Refused   == [status |-> "refused"]
Panics    == [status |-> "panic"]
Accept(m) == [status |-> "ok", m |-> m]
Given(cond, m) == IF cond THEN Accept(m) ELSE Refused
===============================================================================
