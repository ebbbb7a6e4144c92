----------------------------- MODULE MCCommands -----------------------------
(* TLC instance of the commands of app and evidence: one command runs, with   *)
(* options, an inventory and a state of the device chosen at the start.  Or   *)
(* it is the MCP server that runs, and calls them for its connections.        *)
EXTENDS TestCommands, MCMcpServer

\* The record of a command: what it does not say of itself is Plain.
Made(Plain, given) == [x \in DOMAIN Plain |-> IF x \in DOMAIN given THEN given[x] ELSE Plain[x]]

-----------------------------------------------------------------------------
(* TargetInventories: a phone A on USB and on Wi-Fi and B's mDNS transport, or A  *)
(* on USB beside a device B with the same serial number, one of them on Wi-Fi.    *)

MCServices == {[name |-> "mdns", hw |-> "B", endpoints |-> {"ip2"}]}

Transport(tid, serial, kind, ready, hw) ==
  [tid |-> tid, serial |-> serial, kind |-> kind, ready |-> ready, stable |-> serial # "mdns", hw |-> hw]

TargetInventories ==
  {UNION {usb, wifi, mdns} :
     usb \in {{}} \cup {{Transport(1, "s1", "usb", r, "A")} : r \in BOOLEAN},
     wifi \in {{}} \cup {{Transport(2, "ip1", "tcp", r, "A")} : r \in BOOLEAN},
     mdns \in {{}, {Transport(4, "mdns", "tls", TRUE, "B")}}}
  \cup {{Transport(1, "s1", "usb", r, "A"), Transport(3, "s1", "usb", TRUE, "B")} \cup wifi :
          r \in BOOLEAN, wifi \in {{}} \cup {{Transport(2, "ip1", "tcp", TRUE, hw)} : hw \in {"A", "B"}}}

NoSelect == [transportId |-> None, selector |-> None, rememberedSerial |-> None, rememberedHw |-> None,
             rememberedNetwork |-> FALSE, rememberedOnly |-> FALSE]

Selections ==
  {NoSelect} \cup {[NoSelect EXCEPT !.transportId = t] : t \in {1, 3}}
  \cup {[NoSelect EXCEPT !.selector = s] : s \in {"s1", "ip1", "A", "B"}}
  \cup {[NoSelect EXCEPT !.rememberedSerial = s, !.rememberedNetwork = (s = "ip1"), !.rememberedHw = h, !.rememberedOnly = o] :
          s \in {None, "ip1"}, h \in {None, "A", "B"}, o \in BOOLEAN}

PlainTarget == [name |-> "doctor", adb |-> TRUE, dryRun |-> FALSE, devices |-> {}, select |-> NoSelect,
                action |-> "list", validPorts |-> TRUE, validEndpoint |-> TRUE, validCode |-> TRUE,
                given |-> <<>>, groups |-> {}]

TargetCommandRecords ==
  {Made(PlainTarget, [adb |-> a]) : a \in BOOLEAN}
  \cup {Made(PlainTarget, [name |-> "devices", devices |-> d, select |-> s]) : d \in TargetInventories, s \in Selections}
  \cup {Made(PlainTarget, [name |-> "ports", action |-> a, devices |-> d, select |-> s]) :
          a \in {"add", "remove"}, d \in TargetInventories, s \in Selections}
  \cup {Made(PlainTarget, [name |-> "ports", action |-> a, dryRun |-> d, validPorts |-> v,
                           devices |-> {Transport(1, "s1", "usb", TRUE, "A")}]) :
          a \in {"list", "add", "remove"}, d \in BOOLEAN, v \in BOOLEAN}
  \cup {Made(PlainTarget, [name |-> n, validEndpoint |-> e, validCode |-> c, dryRun |-> d, given |-> g, groups |-> gs]) :
          n \in {"discover", "connect", "pair"}, e \in BOOLEAN, c \in BOOLEAN, d \in BOOLEAN,
          g \in {<<>>, <<"ip1", "ip2">>}, gs \in {{}, {<<"ip1", "ip2">>}, {<<"ip1">>, <<"ip2">>}}}

TargetFacts ==
  IF cmd.name = "ports" THEN {{}, {<<"mapped", "same">>}, {<<"mapped", "other">>}}
  ELSE IF cmd.name = "connect" THEN {{<<"online", "ip1">>}, {<<"online", "ip2">>}}
  ELSE {{}}

-----------------------------------------------------------------------------
(* logs *)

PlainLogs == [name |-> "logs", adb |-> TRUE, tagConflict |-> FALSE, package |-> FALSE, pid |-> FALSE,
              validWindow |-> TRUE, tail |-> None, since |-> FALSE, dump |-> FALSE,
              devices |-> {Transport(1, "s1", "usb", TRUE, "A")}, select |-> NoSelect]

LogsCommandRecords ==
  {Made(PlainLogs, [adb |-> a, tagConflict |-> t, validWindow |-> v]) : a \in BOOLEAN, t \in BOOLEAN, v \in BOOLEAN}
  \cup {Made(PlainLogs, [package |-> TRUE, pid |-> p]) : p \in BOOLEAN}
  \cup {Made(PlainLogs, [tail |-> t, dump |-> d]) : t \in {1, 2}, d \in BOOLEAN}
  \cup {Made(PlainLogs, [since |-> s, dump |-> d]) : s \in BOOLEAN, d \in BOOLEAN}

LogsFacts == {{<<"logged", n>>} : n \in 0 .. 2}

-----------------------------------------------------------------------------
(* Apps and URLs *)

PlainApp == [name |-> "app", action |-> "list", adb |-> TRUE, dryRun |-> FALSE, approved |-> TRUE,
             local |-> "resolved", activity |-> FALSE, validArtifacts |-> TRUE, artifact |-> "want",
             validUrl |-> TRUE, named |-> TRUE,
             devices |-> {Transport(1, "s1", "usb", TRUE, "A")}, select |-> NoSelect]

AppCommandRecords ==
  {Made(PlainApp, [action |-> a, adb |-> b]) : a \in {"list", "resolve"}, b \in BOOLEAN}
  \cup {Made(PlainApp, [action |-> a, local |-> l, dryRun |-> d, approved |-> p, activity |-> (a = "restart")]) :
          a \in {"resolve", "info", "stop", "launch", "restart", "clear-data", "uninstall"},
          l \in {"resolved", "ambiguous", "none"}, d \in BOOLEAN, p \in BOOLEAN}
  \cup {Made(PlainApp, [action |-> "install", local |-> l, dryRun |-> d, validArtifacts |-> v, artifact |-> x]) :
          l \in {"resolved", "ambiguous", "none"}, d \in BOOLEAN, v \in BOOLEAN, x \in Apps}
  \cup {Made(PlainApp, [name |-> "open", validUrl |-> v, named |-> n, dryRun |-> d]) :
          v \in BOOLEAN, n \in BOOLEAN, d \in BOOLEAN}
  \cup {Made(PlainApp, [action |-> a, devices |-> {}]) : a \in {"resolve", "stop"}}

AppFacts ==
  {{}, {<<"installed", "other", "old">>},
   {<<"installed", "want", "old">>, <<"data", "want">>, <<"running", "want">>, <<"foreground", "want">>,
    <<"installed", "other", "old">>}}

-----------------------------------------------------------------------------
(* The screen: s1 shows one node the selector names, s2 what elsewhere says *)

Matching(elsewhere) == [s \in Screens |-> IF s = "s1" THEN 1 ELSE elsewhere]
Dialogs(here, elsewhere) == [s \in Screens |-> IF s = "s1" THEN here ELSE elsewhere]

PlainUi == [name |-> "ui", action |-> "query", adb |-> TRUE, dryRun |-> FALSE, query |-> "get", strict |-> FALSE,
            validSelector |-> TRUE, validText |-> TRUE, by |-> "selector", ref |-> None, usable |-> TRUE,
            occurrence |-> None, matches |-> Matching(0), unicode |-> FALSE, imeEnabled |-> TRUE, combination |-> TRUE,
            chunks |-> 1, submit |-> FALSE, hint |-> None, password |-> FALSE, supported |-> TRUE,
            dialogs |-> Dialogs("camera", "absent"),
            devices |-> {Transport(1, "s1", "usb", TRUE, "A")}, select |-> NoSelect]

Snapshots == {[screen |-> s, text |-> "old"] : s \in Screens}

UiCommandRecords ==
  {Made(PlainUi, [query |-> q, strict |-> t, matches |-> Matching(m), occurrence |-> o]) :
     q \in {"get", "visible", "gone", "audit"}, t \in BOOLEAN, m \in {0, 2}, o \in {None, 1}}
  \cup {Made(PlainUi, [action |-> a, validSelector |-> v]) : a \in {"query", "inspect"}, v \in BOOLEAN}
  \cup {Made(PlainUi, [action |-> "wait", query |-> q]) : q \in {"visible", "gone"}}
  \cup {Made(PlainUi, [action |-> "tap", by |-> b, ref |-> r, usable |-> u, dryRun |-> d]) :
          b \in {"ref", "selector", "coordinates"}, r \in Snapshots, u \in BOOLEAN, d \in BOOLEAN}
  \cup {Made(PlainUi, [action |-> a, unicode |-> (a = "type"), imeEnabled |-> i]) : a \in {"type", "press"}, i \in BOOLEAN}
  \cup {Made(PlainUi, [action |-> "fill", unicode |-> u, hint |-> h, chunks |-> n, submit |-> b]) :
          u \in BOOLEAN, h \in {None, "new"}, n \in {1, 2}, b \in BOOLEAN}
  \cup {Made(PlainUi, [action |-> "fill", validText |-> v, combination |-> c, dryRun |-> d]) :
          v \in BOOLEAN, c \in BOOLEAN, d \in BOOLEAN}
  \cup {Made(PlainUi, [action |-> "clear", hint |-> h, password |-> p]) : h \in {None, "hint"}, p \in BOOLEAN}
  \cup {Made(PlainUi, [action |-> "keyboard", query |-> q, supported |-> s, dryRun |-> d]) :
          q \in {"status", "dismiss"}, s \in BOOLEAN, d \in BOOLEAN}
  \cup {Made(PlainUi, [action |-> "permission", query |-> q, usable |-> u, dryRun |-> d, dialogs |-> Dialogs("camera", e)]) :
          q \in {"inspect", "respond"}, u \in BOOLEAN, d \in BOOLEAN, e \in {"absent", "contacts", "unsupported", "camera"}}

UiFacts == {{<<"screen", "s1">>, <<"text", "old">>, <<"ime", "own">>, <<"keyboard", "visible">>}}

-----------------------------------------------------------------------------
(* Evidence *)

PlainEvidence == [PlainApp EXCEPT !.name = "capture", !.action = "screenshot"]
  @@ [force |-> FALSE, insideRoot |-> TRUE, validOptions |-> TRUE, cropped |-> FALSE, validDuration |-> TRUE]

EvidenceCommandRecords ==
  {Made(PlainEvidence, [action |-> a, force |-> f]) : a \in {"screenshot", "record"}, f \in BOOLEAN}
  \cup {Made(PlainEvidence, [insideRoot |-> FALSE]), Made(PlainEvidence, [action |-> "record", validDuration |-> FALSE])}
  \cup {Made(PlainEvidence, [name |-> n, validOptions |-> v, cropped |-> ~v]) :
          n \in {"capture", "inspect-app", "inspect-failures"}, v \in BOOLEAN}
  \cup {Made(PlainEvidence, [name |-> "bundle"])}

EvidenceFacts ==
  IF cmd.name = "bundle" THEN {{}, {<<"verifier", "host">>}}
  ELSE IF cmd.name = "capture" THEN {{}, {Foreign}}
  ELSE {{}, {<<"installed", "want", "old">>}}

-----------------------------------------------------------------------------
(* Configuration: a plain document that says one thing, for every rule there is *)

Doc == [json |-> TRUE, shaped |-> TRUE, known |-> TRUE, version |-> 1, values |-> <<>>,
        defaultProfile |-> {}, profiles |-> <<>>]
Saying(key, choices) == {Made(Doc, [values |-> key :> v]) : v \in choices}

Member == [id |-> "m1", kind |-> "adb", required |-> "true", fields |-> <<"s1">>, port |-> {}, locale |-> {}, orientation |-> {}]
Members ==
  {Made(Member, [kind |-> k, fields |-> f]) : k \in {"adb", "avd", "odd"}, f \in {<<"s1">>, <<"">>}}
  \cup {Made(Member, [kind |-> "remote-adb", fields |-> <<"host", "s1">>, port |-> p]) : p \in {{}, {5037}, {0}, {65536}}}
  \cup {Made(Member, [kind |-> "firebase", fields |-> <<"model", "34">>, locale |-> l, orientation |-> o]) :
          l \in {{}, {"en"}, {""}}, o \in {{}, {"portrait"}, {"odd"}}}
  \cup {Made(Member, [id |-> "odd"]), Made(Member, [required |-> "odd"])}
Pool == [members |-> <<Member>>, maxConcurrency |-> 1, failFast |-> "false", leaseWaitMs |-> 0]
Pools ==
  {Made(Pool, [members |-> <<m>>]) : m \in Members}
  \cup {Made(Pool, [members |-> <<Made(m, [id |-> i]), n>>]) :
          i \in {"m1", "m2"}, m \in {x \in Members : x.kind = "remote-adb"}, n \in {x \in Members : x.kind = "remote-adb"}}
  \cup {Made(Pool, [members |-> <<>>]), Made(Pool, [failFast |-> "odd"])}
  \cup {Made(Pool, [maxConcurrency |-> c, leaseWaitMs |-> w]) : c \in {0, 32, 33}, w \in {-1, 3600000, 3600001}}

Assertion == [kind |-> "boot", value |-> "a.b", number |-> 1, among |-> {}]
Assertions ==
  {Made(Assertion, [kind |-> k]) : k \in {"boot", "odd"}}
  \cup {Made(Assertion, [kind |-> k, value |-> v]) : k \in {"foreground", "activity"}, v \in {"a.b", "odd", ""}}
  \cup {Made(Assertion, [kind |-> k, number |-> n]) : k \in {"host-port", "log"}, n \in {0, 256, 257}}
  \cup {Made(Assertion, [kind |-> "http", among |-> a]) : a \in {{}, {100, 599}, {99}}}
  \cup {Made(Assertion, [kind |-> "ui", among |-> a]) : a \in {{}, {"gone"}, {"odd"}}}

Hook == [run |-> <<"node">>, timeoutMs |-> {}, failure |-> {}, cwd |-> {}, envAllowlist |-> {}]
HookLists ==
  {<<Hook, Made(Hook, [run |-> r])>> : r \in {<<>>, <<"">>}}
  \cup {<<Made(Hook, [timeoutMs |-> t, failure |-> f])>> : t \in {{}, {0}, {MaxTimer}}, f \in {{"warn"}, {"odd"}}}
  \cup {<<Made(Hook, [cwd |-> c, envAllowlist |-> e])>> : c \in {{}, {""}}, e \in {{"HOME"}, {"odd"}}}

RuleDocs ==
  UNION {Saying("timeoutMs", {0, MaxTimer}), Saying("adbPath", {"", "adb"}), Saying("adbPort", {0, 65535, 65536}),
         Saying("color", {"true", "odd"}), Saying("devWatch", {"false", "odd"}), Saying("appPackage", {"a.b", "odd"}),
         Saying("targetAliases", {n :> t : n \in {"phone", "odd"}, t \in {"s1", ""}}),
         Saying("targetPools", {n :> p : n \in {"pool", "odd"}, p \in Pools}),
         Saying("devPreset", {"expo", "odd"}), Saying("packageManager", {"bun", "odd"}),
         Saying("devCommand", {[executable |-> e, cwd |-> c] : e \in {"", "npm"}, c \in {{}, {""}}}),
         Saying("devReversePorts", {<<[device |-> d, host |-> h]>> : d \in {1, 65536}, h \in {{}, {0}, {65535}}}),
         Saying("devReadiness", {[all |-> <<a>>, timeoutMs |-> t, pollIntervalMs |-> {}] : a \in Assertions, t \in {{}, {0}}}),
         Saying("recoveryMaxAttempts", {0, 1}), Saying("sessionPersist", {"true", "odd"}), Saying("sessionMaxBytes", {0, 1}),
         Saying("journalMaxBytes", {0, 1}), Saying("journalSources", {{"app"}, {""}}),
         Saying("journalMinimumSeverity", {"info", "odd"}), Saying("journalRedactEnvironment", {{"HOME"}, {"odd"}}),
         Saying("devHooks", {e :> l : e \in {"onReady", "odd"}, l \in HookLists})}
  \cup {Made(Doc, [json |-> FALSE]), Made(Doc, [shaped |-> FALSE]), Made(Doc, [known |-> FALSE]), Made(Doc, [version |-> 2])}

Profile(parents, values) == [known |-> TRUE, shaped |-> TRUE, extends |-> parents, values |-> values]

\* Profiles that inherit, in a circle or from nowhere, and the values they go over.
ProfileDocs ==
  {Made(Doc, [defaultProfile |-> d, values |-> "timeoutMs" :> 1,
              profiles |-> "p" :> Profile({"q"}, v) @@ "q" :> Profile(e, "timeoutMs" :> 2)]) :
     d \in {{}, {"p"}, {"nowhere"}, {"odd"}}, e \in {{}, {"p"}, {"nowhere"}, {"constructor"}},
     v \in {<<>>, "timeoutMs" :> 3, "recoveryMaxDelayMs" :> 3}}

PlainConfig == [name |-> "config", user |-> None, named |-> [given |-> FALSE, file |-> None],
                directories |-> <<None, Doc>>, profileName |-> {}, environmentProfile |-> {},
                environment |-> <<>>, cli |-> <<>>]

ConfigCommandRecords ==
  {Made(PlainConfig, [directories |-> <<None, d>>]) : d \in RuleDocs}
  \cup {Made(PlainConfig, [directories |-> <<d, Doc>>, profileName |-> n, environmentProfile |-> e, environment |-> v]) :
          d \in ProfileDocs, n \in {{}, {"p"}, {"nowhere"}, {"constructor"}}, e \in {{}, {"q"}, {"odd"}},
          v \in {<<>>, "timeoutMs" :> 4}}
  \cup {Made(PlainConfig, [named |-> [given |-> TRUE, file |-> f], user |-> u, cli |-> c]) :
          f \in {None, Doc, Made(Doc, [values |-> "recoveryMaxDelayMs" :> 2])}, c \in {<<>>, "timeoutMs" :> 5},
          u \in {None} \cup {d \in ProfileDocs : d.profiles["q"].extends = {}} \cup Saying("recoveryInitialDelayMs", {2, 4})}
  \cup {Made(PlainConfig, [environment |-> e]) :
          e \in {k :> v : k \in {"adbPath", "appPackage", "devPreset"}, v \in {"", "odd", "adb", "expo"}}
               \cup {k :> v : k \in {"adbPort", "sessionMaxBytes"}, v \in {0, 65536}}
               \cup {"color" :> v : v \in {"yes", "off", "odd"}} \cup {"devReversePorts" :> v : v \in {<<>>, <<1>>, <<0>>}}
               \cup {"journalRedactEnvironment" :> v : v \in {{}, {"HOME"}}}}
  \cup {Made(PlainEvidence, [name |-> "init", force |-> f, dryRun |-> d, validOptions |-> v]) :
          f \in BOOLEAN, d \in BOOLEAN, v \in BOOLEAN}

ConfigFacts == IF cmd.name = "init" THEN {{}, {Foreign}} ELSE {{}}

-----------------------------------------------------------------------------
(* test: a matrix with up to three result files, or a task of Gradle *)

Wanted == [listed |-> TRUE, tags |-> {}, capacity |-> "high"]
PlainTest == [name |-> "test", kind |-> "firebase", action |-> "robo", dryRun |-> FALSE, validInput |-> TRUE,
              artifacts |-> TRUE, wanted |-> {Wanted}, allowed |-> {}, bucket |-> FALSE, objects |-> <<>>,
              authText |-> FALSE, wrapper |-> TRUE, task |-> None]

CatalogDevices ==
  {Made(Wanted, [listed |-> FALSE])} \cup {Made(Wanted, [tags |-> {t}]) : t \in {"access_denied", "deprecated", "reduced_stability"}}
  \cup {Made(Wanted, [capacity |-> c]) : c \in {"high", "low", "none"}}

Objects(sizes) == [i \in DOMAIN sizes |-> [native |-> sizes[i] # 0, size |-> sizes[i]]]

TestCommandRecords ==
  {Made(PlainTest, [action |-> a, validInput |-> v, artifacts |-> v \/ x, dryRun |-> d]) :
     a \in {"cancel", "devices", "robo"}, v \in BOOLEAN, x \in BOOLEAN, d \in BOOLEAN}
  \cup {Made(PlainTest, [wanted |-> {Wanted, d}, allowed |-> a, dryRun |-> TRUE]) :
          d \in CatalogDevices, a \in {{}, {"deprecated", "reduced_stability", "low"}}}
  \cup {Made(PlainTest, [artifacts |-> FALSE]), Made(PlainTest, [authText |-> TRUE])}
  \cup {Made(PlainTest, [bucket |-> TRUE, objects |-> Objects(o)]) :
          o \in {<<>>, <<0, 1, 1, 1>>, <<20, 20, 20>>, <<21, 20>>}}
  \cup {Made(PlainTest, [kind |-> "gradle", action |-> "gradle", wrapper |-> w, task |-> t, dryRun |-> d]) :
          w \in BOOLEAN, t \in {None, "odd", "managed", "connected"}, d \in BOOLEAN}

TestFacts ==
  IF cmd.action = "cancel" THEN {{}, {<<"matrix", "running">>}, {<<"matrix", "passed">>}}
  ELSE IF cmd.kind = "gradle" THEN {{}, {<<"report", "stale", "failed">>}} ELSE {{}}

-----------------------------------------------------------------------------
FirstStep == IF cmd.name = "config" THEN "defaults" ELSE IF cmd.name \in {"ports", "connect", "pair", "logs", "app", "open", "ui", "capture",
                             "inspect-app", "inspect-failures", "bundle", "init", "test"} THEN "input" ELSE "adb"

ACommand ==
  \/ /\ cmd \in TargetCommandRecords /\ facts \in TargetFacts
     /\ CommandInit(FirstStep, TargetMemory)
  \/ /\ cmd \in LogsCommandRecords /\ facts \in LogsFacts
     /\ CommandInit(FirstStep, LogsMemory)
  \/ /\ cmd \in AppCommandRecords /\ facts \in AppFacts
     /\ CommandInit(FirstStep, AppMemory)
  \/ /\ cmd \in UiCommandRecords /\ facts \in UiFacts
     /\ CommandInit(FirstStep, UiMemory)
  \/ /\ cmd \in EvidenceCommandRecords /\ facts \in EvidenceFacts
     /\ CommandInit(FirstStep, EvidenceMemory)
  \/ /\ cmd \in ConfigCommandRecords /\ facts \in ConfigFacts
     /\ CommandInit(FirstStep, ConfigMemory)
  \/ /\ cmd \in TestCommandRecords /\ facts \in TestFacts
     /\ CommandInit(FirstStep, TestMemory)

CommandNext == TargetNext \/ Logs \/ App \/ Open \/ Ui \/ Evidence \/ Config \/ InitConfig \/ Firebase \/ Gradle \/ Signal

\* The server is idle beside a command.
Init ==
  \/ plan = NoPlan /\ inventory = {} /\ McpInit /\ shows = [d \in DOMAIN shows |-> "x"] /\ ACommand /\ Askable
  \/ McpInit /\ plan # NoPlan /\ cmd = [name |-> "mcp"] /\ facts = {} /\ CommandInit("serve", LogsMemory)

Next ==
  \/ plan = NoPlan /\ CommandNext /\ UNCHANGED mcpVars
  \/ plan # NoPlan /\ McpNext /\ UNCHANGED vars

allVars == <<vars, mcpVars>>
Spec == Init /\ [][Next]_allVars
=============================================================================
