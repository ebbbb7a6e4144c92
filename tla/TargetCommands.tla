--------------------------- MODULE TargetCommands ---------------------------
(***************************************************************************)
(* The commands of src/app/commands.ts that look at targets, map their     *)
(* ports and connect them: doctor, devices, ports, the discovery of        *)
(* wireless endpoints, connect and pair.                                   *)
(*                                                                         *)
(* facts has <<"mapped", host>>, what the requested listen endpoint of the *)
(* chosen transport is mapped to ("same" is the requested mapping, "other" *)
(* any other), and <<"connected", e>>, <<"online", e>> and                 *)
(* <<"paired", e>> for a network endpoint e.                               *)
(***************************************************************************)
EXTENDS CliCommand, TargetSelection

CONSTANTS Services   \* the mDNS services that are announced, see Correlated

\* What every command of this module may remember.
TargetMemory == [mdns |-> "idle", asked |-> {}, hardware |-> "idle", target |-> None,
                 left |-> <<>>, endpoint |-> None]

-----------------------------------------------------------------------------
(* The steps the commands share *)

ResolveAdb(Then) ==
  Decide("adb", IF cmd.adb THEN Then ELSE Finish({"environment"}) /\ UNCHANGED mem)

\* inspectTargets: the mDNS services and the identities are awaited together.
StartInspect(mdns) == Keep([mdns |-> mdns, hardware |-> "asked", asked |-> {}]) /\ GoTo("inspect")

\* discoverMdns: ask for the features, track the services where adb can, else, or
\* when that fails, list them; an abort ends the discovery.
MdnsStep(step) ==
  /\ Awaiting(step) /\ mem.mdns \in {"features", "track", "list"}
  /\ \E r \in Ends : Settles(r) /\ \E next \in
       CASE r = "aborted" \/ mem.mdns = "list" -> {r}
         [] r # "aborted" /\ mem.mdns = "features" -> IF r = "ok" THEN {"track", "list"} ELSE {"list"}
         [] r # "aborted" /\ mem.mdns = "track" -> {IF r = "ok" THEN "ok" ELSE "list"} : Keep([mdns |-> next])
  /\ UNCHANGED <<cmd, signal, facts, at, problems, exit>>

\* getHardwareSerial of the transports in scope; any of them may fail.
HardwareStep ==
  LET probed == Probed(cmd.devices, cmd.select) IN
  /\ Awaiting("inspect") /\ mem.hardware = "asked"
  /\ IF probed = {} THEN Keep([hardware |-> "ok"]) /\ UNCHANGED cut
     ELSE \E r \in Ends : Settles(r) /\
       \E answered \in (IF r = "ok" THEN {probed} ELSE SUBSET probed) :
         Keep([hardware |-> IF r = "aborted" THEN "aborted" ELSE "ok", asked |-> answered])
  /\ UNCHANGED <<cmd, signal, facts, at, problems, exit>>

\* Both are settled: an abort of either ends the command, a failed discovery of
\* services is a warning.
Inspected(Then) ==
  Decide("inspect",
    /\ mem.mdns \in Ends /\ mem.hardware \in Ends
    /\ IF "aborted" \in {mem.mdns, mem.hardware} THEN Finish({"interrupted"}) /\ UNCHANGED mem ELSE Then)

SeenIdentity ==
  [d \in cmd.devices |-> IdentityOf(d, mem.asked, IF mem.mdns = "ok" THEN Services ELSE {})]

\* selectTarget, or the problem its refusal stands for (targetSelectionProblem).
Select(Then(_)) ==
  LET choice == SelectTarget(cmd.devices, SeenIdentity, cmd.select)
  IN  IF choice.kind = "selected" THEN Then(choice) ELSE Finish({"target"}) /\ UNCHANGED mem

-----------------------------------------------------------------------------
(* doctor and devices *)

\* A probe that doctor can do without: only an abort, or a remote server that
\* cannot be reached, ends the command.
OptionalProbe(step, Answered, Otherwise) ==
  /\ Awaiting(step) /\ UNCHANGED <<cmd, signal, facts>>
  /\ \E r \in Ends :
       /\ Settles(r)
       /\ \/ r # "aborted" /\ (IF r = "ok" THEN Answered ELSE Otherwise) /\ UNCHANGED mem
          \/ r # "ok" /\ Finish({ProblemOf(r, "adb")}) /\ UNCHANGED mem

Doctor ==
  /\ cmd.name = "doctor"
  /\ \/ ResolveAdb(GoTo("version") /\ UNCHANGED mem)
     \/ Read("version", "adb", GoTo("features") /\ UNCHANGED mem)
     \/ OptionalProbe("features", \E next \in {"status", "devices"} : GoTo(next), GoTo("devices"))
     \/ OptionalProbe("status", GoTo("devices"), GoTo("devices"))
     \/ \E mdns \in {"track", "list"} : Read("devices", "adb", StartInspect(mdns))
     \/ Inspected(Finish({}) /\ UNCHANGED mem)

Devices ==
  /\ cmd.name = "devices"
  /\ \/ ResolveAdb(GoTo("devices") /\ UNCHANGED mem)
     \/ Read("devices", "adb", StartInspect("features"))
     \/ Inspected(IF cmd.select.selector # None \/ cmd.select.transportId # None \/ cmd.select.rememberedOnly
                  THEN Select(LAMBDA choice : Finish({}) /\ Keep([target |-> choice]))
                  ELSE Finish({}) /\ UNCHANGED mem)

-----------------------------------------------------------------------------
(* ports: cmd.action is list, add or remove *)

Mapping == {f[2] : f \in {f \in facts : f[1] = "mapped"}}
Unmapped == {f \in facts : f[1] # "mapped"}

PortsInput ==
  Decide("input", /\ UNCHANGED mem
                  /\ IF cmd.action # "list" /\ ~cmd.validPorts THEN Finish({"input"}) ELSE GoTo("adb"))

\* What the listed mappings decide.  An existing mapping is never replaced, and a
\* dry run ends with its plan.
PortsListed ==
  IF \/ cmd.action = "list"
     \/ cmd.action = "add" /\ Mapping = {"same"}
     \/ cmd.action = "remove" /\ Mapping = {}
     \/ cmd.dryRun /\ (cmd.action = "add" => Mapping = {})
  THEN Finish({})
  ELSE IF cmd.action = "add" /\ Mapping # {} THEN Finish({"adb"}) ELSE GoTo("mutate")

\* adb adds with --no-rebind, and removes whatever listens at the endpoint.
PortsMutate ==
  /\ Awaiting("mutate") /\ UNCHANGED <<cmd, signal, mem>>
  /\ \E r \in Ends : /\ Settles(r)
                     /\ Effect(r, IF cmd.action = "add" THEN Unmapped \cup {<<"mapped", "same">>} ELSE Unmapped)
                     /\ IF r = "ok" THEN GoTo("verify") ELSE Finish({ProblemOf(r, "adb")})

\* The listing after it: the requested pair of endpoints must be there, or not.
PortsVerified ==
  Finish(IF (cmd.action = "add") = ("same" \in Mapping) THEN {} ELSE {"adb"})

Ports ==
  /\ cmd.name = "ports"
  /\ \/ PortsInput
     \/ ResolveAdb(GoTo("devices") /\ UNCHANGED mem)
     \/ Read("devices", "adb", StartInspect("features"))
     \/ Inspected(Select(LAMBDA choice : GoTo("list") /\ Keep([target |-> choice])))
     \/ Read("list", "adb", PortsListed /\ UNCHANGED mem)
     \/ PortsMutate
     \/ Read("verify", "adb", PortsVerified /\ UNCHANGED mem)

\* What a successful change of a mapping promises.  (After a removal the code
\* looks for the requested pair only: a listener with another host may be left.)
PortsDone ==
  /\ cmd.action = "add" => Mapping = {"same"}
  /\ cmd.action = "remove" => "same" \notin Mapping

-----------------------------------------------------------------------------
(* Wireless endpoints: discovery, connect, pair *)

\* The groups of services that offer what is wanted, each a sequence of at most
\* three endpoints: an announced connect service may be one that must be paired.
DiscoveredGroups == cmd.groups
TheGroup == CHOOSE g \in DiscoveredGroups : TRUE

StartDiscovery == Keep([mdns |-> "features"]) /\ GoTo("discover")

\* The discovery as a problem, which ends the command, or the endpoints of the only
\* group (resolveWirelessEndpoint); runWirelessDiscovery lists those of all groups.
Discovered(Then) ==
  Decide("discover",
    /\ mem.mdns \in Ends
    /\ IF mem.mdns # "ok" THEN Finish({ProblemOf(mem.mdns, "adb")}) /\ UNCHANGED mem
       ELSE IF DiscoveredGroups = {} THEN Finish({"target"}) /\ UNCHANGED mem
       ELSE IF cmd.name # "discover" /\ Cardinality(DiscoveredGroups) > 1 THEN Finish({"target"}) /\ UNCHANGED mem
       ELSE Then)

Discover ==
  /\ cmd.name = "discover"
  /\ \/ ResolveAdb(StartDiscovery)
     \/ Discovered(Finish({}) /\ UNCHANGED mem)

WirelessInput ==
  Decide("input", /\ UNCHANGED mem
                  /\ IF ~cmd.validEndpoint \/ (cmd.name = "pair" /\ ~cmd.dryRun /\ ~cmd.validCode)
                     THEN Finish({"input"}) ELSE GoTo("adb"))

\* Given endpoints are the candidates; otherwise the announced ones are.
Attempt(candidates) ==
  IF cmd.dryRun THEN Finish({}) /\ UNCHANGED mem
  ELSE GoTo(cmd.name) /\ Keep([left |-> candidates, endpoint |-> Head(candidates)])

ResolveEndpoint ==
  \/ ResolveAdb(IF cmd.given # <<>> THEN Attempt(cmd.given) ELSE StartDiscovery)
  \/ Discovered(Attempt(TheGroup))

\* The endpoint adb says it is connected to: the one it was given, which stands where it
\* names none, or another one it knows.
Answers == {Head(mem.left)} \cup {f[2] : f \in {f \in facts : f[1] \in {"connected", "online"}}}

\* adb connect of the next candidate.  An interruption, or a server that is not
\* there, ends the attempts; another failure goes on to the next candidate, and
\* the last problem is the one that is reported.
ConnectAttempt ==
  /\ Awaiting("connect") /\ UNCHANGED <<cmd, signal>>
  /\ \E r \in Ends, refused, fatal \in BOOLEAN, named \in Answers :
       /\ Settles(r)
       /\ IF r = "ok" /\ refused THEN UNCHANGED facts
          ELSE Effect(r, facts \cup {<<"connected", named>>})
       /\ IF r = "ok" /\ ~refused THEN GoTo("state") /\ Keep([endpoint |-> named])
          ELSE IF r = "aborted" \/ (r = "failed" /\ fatal) \/ Len(mem.left) = 1
            THEN Finish({ProblemOf(r, "adb")}) /\ UNCHANGED mem
          ELSE GoTo("connect") /\ Keep([left |-> Tail(mem.left)])

\* get-state of the endpoint adb confirmed: connected is not yet usable.
ConnectState ==
  Read("state", "adb", /\ UNCHANGED mem
                       /\ IF {<<"connected", mem.endpoint>>, <<"online", mem.endpoint>>} \subseteq facts
                          THEN GoTo("identity") ELSE Finish({"target"}))

\* Mutant: what the hardware serial is can be left open, however its call ended.
AnyIdentity ==
  /\ Awaiting("identity") /\ UNCHANGED <<cmd, signal, facts, mem>>
  /\ \E r \in Ends : Settles(r) /\ Finish({})

\* The hardware serial is reported when it can be read.
ConnectIdentity ==
  /\ Awaiting("identity") /\ UNCHANGED <<cmd, signal, facts, mem>>
  /\ \E r \in Ends : Settles(r) /\ Finish(IF r = "aborted" THEN {"interrupted"} ELSE {})

Connect ==
  /\ cmd.name = "connect"
  /\ \/ WirelessInput \/ ResolveEndpoint \/ ConnectAttempt \/ ConnectState \/ ConnectIdentity

ConnectDone == {<<"connected", mem.endpoint>>, <<"online", mem.endpoint>>} \subseteq facts

\* adb pair; the text of its answer decides, and the code may be refused.
PairAttempt ==
  /\ Awaiting("pair") /\ UNCHANGED <<cmd, signal, mem>>
  /\ \E r \in Ends, refused \in BOOLEAN :
       /\ Settles(r)
       /\ IF r = "ok" /\ refused THEN UNCHANGED facts
          ELSE HonestEffect(r, facts \cup {<<"paired", mem.endpoint>>})
       /\ Finish(IF r = "ok" /\ ~refused THEN {} ELSE {ProblemOf(r, "adb")})

Pair ==
  /\ cmd.name = "pair"
  /\ \/ WirelessInput \/ ResolveEndpoint \/ PairAttempt

PairDone == <<"paired", mem.endpoint>> \in facts

-----------------------------------------------------------------------------
TargetNext ==
  \/ cmd.name \in {"doctor", "devices", "ports"} /\ (MdnsStep("inspect") \/ HardwareStep)
  \/ cmd.name \in {"discover", "connect", "pair"} /\ MdnsStep("discover")
  \/ Doctor \/ Devices \/ Ports \/ Discover \/ Connect \/ Pair

\* A command of this module by itself.
TargetInit ==
  /\ cmd.name \in {"doctor", "devices", "ports", "discover", "connect", "pair"}
  /\ CommandInit(IF cmd.name \in {"ports", "connect", "pair"} THEN "input" ELSE "adb", TargetMemory)

\* A command of this module that changed something and reports success has reached
\* what it promises.
TargetCommandDone ==
  /\ cmd.name = "ports" => PortsDone
  /\ cmd.name = "connect" => ConnectDone
  /\ cmd.name = "pair" => PairDone
=============================================================================
