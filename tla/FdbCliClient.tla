----------------------------- MODULE FdbCliClient -----------------------------
(***************************************************************************)
(* sanssh fdb fdbcli: how the Execute of each command turns the words w    *)
(* after its name into a message.  A oneof that stays nil is               *)
(* request |-> "nil", which Execute sends all the same.                    *)
(***************************************************************************)
EXTENDS FdbWords

Nothing(w)      == Given(NArg(w) = 0, [request |-> "nil"])
OneWord(w)      == Given(NArg(w) = 1 /\ ~AnyEmpty(w), [word |-> Arg(w, 0)])
OneInt(w)       == Given(NArg(w) = 1 /\ IsInt(Arg(w, 0)), [version |-> ParseInt(Arg(w, 0))])
Among(w, i, ws) == IF Arg(w, i) \in ws THEN Arg(w, i) ELSE "nil"

fdbCLIAdvanceversionCmd(w) == OneInt(w)
fdbCLIBeginCmd(w) == Nothing(w)
fdbCLIBlobrangeCmd(w) ==
    Given(NArg(w) = 3 /\ ~AnyEmpty(w),
          [request |-> Among(w, 0, {"start", "stop"}), begin_key |-> Arg(w, 1), end_key |-> Arg(w, 2)])
fdbCLICacheRangeCmd(w) ==
    Given(NArg(w) = 3 /\ ~AnyEmpty(w),
          [request |-> Among(w, 0, {"set", "clear"}), begin_key |-> Arg(w, 1), end_key |-> Arg(w, 2)])

\* The end version is parsed from the word of the start version, and the version
\* of a pop from the range id.
fdbCLIChangefeedCmd(w) ==
    LET id == Arg(w, 1) IN
    IF Arg(w, 0) = "list" /\ NArg(w) = 1 THEN Accept([request |-> "list"])
    ELSE IF AnyEmpty(w) THEN Refused
    ELSE IF Arg(w, 0) = "register" THEN
            Given(NArg(w) = 4, [request |-> "register", range_id |-> id,
                                begin |-> Arg(w, 2), end |-> Arg(w, 3)])
    ELSE IF Arg(w, 0) \in {"stop", "destroy"} THEN
            Given(NArg(w) = 2, [request |-> Arg(w, 0), range_id |-> id])
    ELSE IF Arg(w, 0) = "stream" THEN
            Given(NArg(w) \in 2..4 /\ (NArg(w) > 2 => IsInt(Arg(w, 2))),
                  [request |-> "stream", range_id |-> id,
                   versions |-> [i \in 1..(NArg(w) - 2) |-> ParseInt(Arg(w, 2))]])
    ELSE IF Arg(w, 0) = "pop" THEN
            Given(NArg(w) = 3 /\ IsInt(id), [request |-> "pop", range_id |-> id, version |-> ParseInt(id)])
    ELSE Refused

fdbCLIClearCmd(w) == OneWord(w)
fdbCLIClearrangeCmdOneKey(w) ==
    Given(NArg(w) \in 1..2 /\ ~AnyEmpty(w), [begin_key |-> Arg(w, 0), end_key |-> Arg(w, 1)])
fdbCLIClearrangeCmd(w) ==
    Given(NArg(w) = 2 /\ ~AnyEmpty(w), [begin_key |-> Arg(w, 0), end_key |-> Arg(w, 1)])
fdbCLICommitCmd(w) == Nothing(w)

\* Each field is filled by the first word that can fill it; other words are
\* reported on stderr and left out, as long as one field is filled.
NewOrTss       == {"new", "tss"}
RedundancyMode == {"single", "double", "triple", "three_data_hall", "three_datacenter"}
StorageEngine  == {"ssd", "memory"}
Fills(opt, f) ==
    CASE f = "new_or_tss" -> opt \in NewOrTss
      [] f = "redundancy_mode" -> opt \in RedundancyMode
      [] f = "storage_engine" -> opt \in StorageEngine
      [] f \in Uints -> IsKV(opt) /\ KV[opt].key = f /\ IsInt(KV[opt].val)
      [] f \in Strings -> IsKV(opt) /\ KV[opt].key = f /\ KV[opt].val # ""
ConfigureFields == {"new_or_tss", "redundancy_mode", "storage_engine"} \cup Uints \cup Strings
fdbCLIConfigureCmd(w) ==
    LET filling(f) == SelectSeq(w, LAMBDA opt : Fills(opt, f))
        value(f, opt) == IF f \in Uints THEN Uint32(ParseInt(KV[opt].val))
                         ELSE IF f \in Strings THEN KV[opt].val ELSE opt
    IN  Given(\E f \in ConfigureFields : filling(f) # <<>>,
              [f \in ConfigureFields |->
                  IF filling(f) = <<>> THEN Null ELSE Some(value(f, Head(filling(f))))])

fdbCLIConsistencycheckCmd(w) ==
    Given(NArg(w) = 1 /\ Arg(w, 0) \in {"on", "off"}, [mode |-> Some(Arg(w, 0) = "on")])

\* An address after auto is appended to the addresses of a request that has none.
fdbCLICoordinatorsCmd(w) ==
    LET desc(x) == IsKV(x) /\ KV[x].key = "description"
        body    == IF desc(Last(w)) THEN Front(w) ELSE w
    IN  IF w = <<>> THEN Refused
        ELSE IF NArg(w) > 1 /\ w[1] = "auto" /\ w[2] # "auto" /\ ~desc(w[2]) THEN Panics
        ELSE Given(/\ \A i \in DOMAIN body : ~desc(body[i]) /\ (body[i] = "auto" => i = 1)
                   /\ desc(Last(w)) => KV[Last(w)].val # "",
                   [request |-> IF body = <<>> THEN "nil"
                                ELSE IF body[1] = "auto" THEN "auto" ELSE "addresses",
                    addresses |-> body,
                    description |-> IF desc(Last(w)) THEN Some(KV[Last(w)].val) ELSE Null])

fdbCLICreatetenantCmd(w) == OneWord(w)
fdbCLIDatadistributionCmd(w) ==
    Given(NArg(w) \in 1..2 /\ ~AnyEmpty(w),
          [request |-> Among(w, 0, {"on", "off", "enable", "disable"}), option |-> Arg(w, 1)])
fdbCLIDefaulttenantCmd(w) == Nothing(w)
fdbCLIDeletetenantCmd(w) == OneWord(w)

\* failed and wait once each and before the addresses; no_wait is the default
\* when there are addresses.
fdbCLIExcludeCmd(w) ==
    LET isOpt(x) == x \in {"failed", "wait"}
        opts  == SelectSeq(w, isOpt)
        addrs == SelectSeq(w, LAMBDA x : ~isOpt(x))
    IN  Given(w = opts \o addrs /\ IsInjective(opts) /\ ~AnyEmpty(addrs),
              [no_wait |-> IF Contains(opts, "wait") THEN Some(FALSE)
                           ELSE IF addrs # <<>> THEN Some(TRUE) ELSE Null,
               failed |-> IF Contains(opts, "failed") THEN Some(TRUE) ELSE Null,
               addresses |-> addrs])

fdbCLIExpensiveDataCheckCmd(w) ==
    Given(~AnyEmpty(w) /\ (NArg(w) = 1 => Arg(w, 0) \in {"list", "all"}),
          [request |-> CASE NArg(w) = 0 -> "init" [] NArg(w) = 1 -> Arg(w, 0) [] OTHER -> "check",
           addresses |-> w])
fdbCLIFileconfigureCmd(w) ==
    Given(NArg(w) \in 1..2 /\ ~AnyEmpty(w) /\ (NArg(w) = 2 => Arg(w, 0) = "new"),
          [new |-> IF NArg(w) = 2 THEN Some(TRUE) ELSE Null, file |-> Last(w)])
fdbCLIForceRecoveryWithDataLossCmd(w) == OneWord(w)
fdbCLIGetCmd(w) == OneWord(w)

\* A second word that is a number is the limit.
Range3(w) ==
    Given(NArg(w) \in 1..3 /\ ~AnyEmpty(w) /\ (NArg(w) = 3 => IsInt(Arg(w, 2))),
          [begin_key |-> Arg(w, 0),
           end_key |-> IF NArg(w) = 3 \/ (NArg(w) = 2 /\ ~IsInt(Arg(w, 1))) THEN Some(Arg(w, 1)) ELSE Null,
           limit |-> IF NArg(w) = 3 THEN Some(Uint32(ParseInt(Arg(w, 2))))
                     ELSE IF NArg(w) = 2 /\ IsInt(Arg(w, 1)) THEN Some(Uint32(ParseInt(Arg(w, 1)))) ELSE Null])
fdbCLIGetrangeCmd(w)     == Range3(w)
fdbCLIGetrangekeysCmd(w) == Range3(w)
fdbCLIGettenantCmd(w)  == OneWord(w)
fdbCLIGetversionCmd(w) == Nothing(w)
fdbCLIHelpCmd(w)       == Accept([options |-> w])

fdbCLIIncludeCmd(w) ==
    LET rest == IF Arg(w, 0) = "failed" THEN From(w, 1) ELSE w
    IN  Given(/\ ~AnyEmpty(w) /\ ~Contains(rest, "failed")
              /\ Contains(rest, "all") => NArg(rest) = 1,
              [failed |-> IF rest # w THEN Some(TRUE) ELSE Null,
               request |-> CASE rest = <<>> -> "nil" [] rest = <<"all">> -> "all" [] OTHER -> "addresses",
               addresses |-> rest])

\* The -sleep flag is read when it is declared, before the command line is parsed.
fdbCLIKillCmd(w) ==
    Given(~AnyEmpty(w),
          [request |-> CASE NArg(w) = 0 -> "init"
                         [] NArg(w) = 1 /\ Arg(w, 0) \in {"list", "all"} -> Arg(w, 0)
                         [] OTHER -> "targets",
           addresses |-> w, sleep |-> Null])

fdbCLIListtenantsCmd(w) ==
    Given(NArg(w) <= 3 /\ ~AnyEmpty(w) /\ (NArg(w) \in {1, 3} => IsInt(Last(w))),
          [begin |-> IF NArg(w) > 1 THEN Some(Arg(w, 0)) ELSE Null,
           end   |-> IF NArg(w) > 1 THEN Some(Arg(w, 1)) ELSE Null,
           limit |-> IF NArg(w) \in {1, 3} THEN Some(Uint32(ParseInt(Last(w)))) ELSE Null])
fdbCLILockCmd(w) == Nothing(w)
fdbCLIMaintenanceCmd(w) ==
    IF AnyEmpty(w) THEN Refused
    ELSE CASE NArg(w) = 0 -> Accept([request |-> "status"])
           [] NArg(w) = 1 -> Given(Arg(w, 0) = "off", [request |-> "off"])
           [] NArg(w) = 3 -> Given(Arg(w, 0) = "on" /\ IsInt(Arg(w, 2)),
                                   [request |-> "on", zoneid |-> Arg(w, 1),
                                    seconds |-> Uint32(ParseInt(Arg(w, 2)))])
           [] OTHER -> Refused

\* The argument of the option is taken from one word too far.
fdbCLIOptionCmd(w) ==
    Given(NArg(w) \in 2..3 /\ ~AnyEmpty(w) /\ Arg(w, 0) \in {"on", "off"},
          [request |-> "arg", state |-> Arg(w, 0), option |-> Arg(w, 1),
           arg |-> IF NArg(w) = 3 THEN Some(Arg(w, 3)) ELSE Null])

\* The size is parsed from the word of the rate; flow knows five words only.
ProfileSet(w) ==
    Given(/\ Arg(w, 2) = "default" \/ IsFloat(Arg(w, 2))
          /\ Arg(w, 3) = "default" \/ IsInt(Arg(w, 2)),
          [request |-> "client", set |-> TRUE,
           rate |-> IF Arg(w, 2) = "default" THEN "default" ELSE ParseFloat(Arg(w, 2)),
           size |-> IF Arg(w, 3) = "default" THEN "default" ELSE Uint64(ParseInt(Arg(w, 2)))])
fdbCLIProfileCmd(w) ==
    IF AnyEmpty(w) THEN Refused
    ELSE IF Arg(w, 0) = "client" THEN
            IF NArg(w) = 4 /\ Arg(w, 1) = "set" THEN ProfileSet(w)
            ELSE Given(NArg(w) = 2 /\ Arg(w, 1) = "get", [request |-> "client", set |-> FALSE])
    ELSE IF Arg(w, 0) = "list" THEN Given(NArg(w) = 1, [request |-> "list"])
    ELSE IF Arg(w, 0) = "flow" THEN
            IF NArg(w) > 5 THEN Accept([request |-> "nil"])
            ELSE Given(NArg(w) = 5 /\ Arg(w, 1) = "run" /\ IsInt(Arg(w, 2)),
                       [request |-> "flow", duration |-> Uint32(ParseInt(Arg(w, 2))), processes |-> From(w, 4)])
    ELSE IF Arg(w, 0) = "heap" THEN Accept([request |-> "heap", process |-> Arg(w, 1)])
    ELSE Refused

fdbCLISetCmd(w) == Given(NArg(w) = 2 /\ ~AnyEmpty(w), [key |-> Arg(w, 0), value |-> Arg(w, 1)])
fdbCLISetclassCmd(w) ==
    Given(NArg(w) \in {0, 2} /\ ~AnyEmpty(w),
          [request |-> IF NArg(w) = 2 THEN "arg" ELSE "list", address |-> Arg(w, 0), class |-> Arg(w, 1)])
fdbCLISleepCmd(w) ==
    Given(NArg(w) = 1 /\ IsInt(Arg(w, 0)), [seconds |-> Uint32(ParseInt(Arg(w, 0)))])
fdbCLISnapshotCmd(w) ==
    Given(NArg(w) >= 1 /\ ~AnyEmpty(w), [command |-> Arg(w, 0), options |-> From(w, 1)])
fdbCLIStatusCmd(w) ==
    Given(NArg(w) <= 1 /\ ~AnyEmpty(w), [style |-> IF NArg(w) = 1 THEN Some(Arg(w, 0)) ELSE Null])
fdbCLISuspendCmd(w) ==
    Given(~AnyEmpty(w) /\ NArg(w) # 1 /\ (NArg(w) > 1 => IsFloat(Arg(w, 0))),
          [request |-> IF NArg(w) = 0 THEN "init" ELSE "suspend",
           seconds |-> IF NArg(w) = 0 THEN "0" ELSE ParseFloat(Arg(w, 0)), addresses |-> From(w, 1)])

\* A duration is stored and then falls through to the priority; a word of one
\* character is sliced out of its bounds.
ThrottleOnOpt(on, opt) ==
    IF on.status # "ok" THEN on
    ELSE IF IsInt(opt) THEN
            IF on.m.rate # Null THEN Refused
            ELSE [on EXCEPT !.m.rate = Some(Uint32(ParseInt(opt)))]
    ELSE IF OneChar(opt) THEN Panics
    ELSE IF on.m.priority # Null THEN Refused
    ELSE [on EXCEPT !.m.duration = IF IntButForTwo(opt) THEN Some(opt) ELSE @,
                    !.m.priority = Some(opt)]
ThrottleOffOpt(off, opt) ==
    IF off.status # "ok" THEN off
    ELSE IF off.m.expect THEN
            IF off.m.tag # Null THEN Refused
            ELSE [off EXCEPT !.m.expect = FALSE, !.m.tag = Some(opt)]
    ELSE IF opt \in {"all", "auto", "manual"} THEN
            IF off.m.type # Null THEN Refused ELSE [off EXCEPT !.m.type = Some(opt)]
    ELSE IF opt = "tag" THEN [off EXCEPT !.m.expect = TRUE]
    ELSE IF off.m.priority # Null THEN Refused ELSE [off EXCEPT !.m.priority = Some(opt)]
ThrottleOn(w) ==
    FoldLeft(ThrottleOnOpt, Given(Arg(w, 1) = "tag", [request |-> "on", tag |-> Arg(w, 2), rate |-> Null,
                                                     duration |-> Null, priority |-> Null]), From(w, 3))
ThrottleOff(w) ==
    LET off == FoldLeft(ThrottleOffOpt, Accept([request |-> "off", type |-> Null, tag |-> Null,
                                               priority |-> Null, expect |-> FALSE]), From(w, 1))
    IN  IF off.status = "ok" /\ off.m.expect THEN Refused ELSE off
ThrottleList(w) ==
    Given(NArg(w) <= 3 /\ (NArg(w) = 3 => IsInt(Arg(w, 2))),
          [request |-> "list",
           type |-> IF NArg(w) = 3 \/ (NArg(w) = 2 /\ ~IsInt(Arg(w, 1))) THEN Some(Arg(w, 1)) ELSE Null,
           limit |-> IF NArg(w) > 1 /\ IsInt(Last(w)) THEN Some(Uint32(ParseInt(Last(w)))) ELSE Null])
fdbCLIThrottleCmd(w) ==
    IF AnyEmpty(w) THEN Refused
    ELSE IF Arg(w, 0) = "on" THEN ThrottleOn(w)
    ELSE IF Arg(w, 0) = "off" THEN ThrottleOff(w)
    ELSE IF Arg(w, 0) \in {"enable", "disable"} THEN
            Given(NArg(w) = 2 /\ Arg(w, 1) = "auto", [request |-> Arg(w, 0)])
    ELSE IF Arg(w, 0) = "list" THEN ThrottleList(w)
    ELSE Refused

fdbCLITriggerddteaminfologCmd(w) == Nothing(w)
fdbCLITssqCmd(w) ==
    Given(/\ NArg(w) \in 1..2 /\ ~AnyEmpty(w) /\ Arg(w, 0) \in {"start", "stop", "list"}
          /\ Arg(w, 0) # "list" => NArg(w) = 2,
          [request |-> Arg(w, 0), storage_uid |-> Arg(w, 1)])
fdbCLIUnlockCmd(w)    == OneWord(w)
fdbCLIUsetenantCmd(w) == OneWord(w)
fdbCLIWritemodeCmd(w) == OneWord(w)
fdbCLIVersionepochCmd(w) ==
    IF AnyEmpty(w) THEN Refused
    ELSE CASE NArg(w) = 0 -> Accept([request |-> "info"])
           [] NArg(w) = 1 -> Given(Arg(w, 0) \in {"get", "disable", "enable", "commit"},
                                   [request |-> Arg(w, 0)])
           [] NArg(w) = 2 -> Given(Arg(w, 0) = "set" /\ IsInt(Arg(w, 1)),
                                   [request |-> "set", epoch |-> ParseInt(Arg(w, 1))])
           [] OTHER -> Refused
fdbCLIWaitconnectedCmd(w) == Nothing(w)
fdbCLIWaitopenCmd(w)      == Nothing(w)
===============================================================================
