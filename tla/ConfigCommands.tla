-------------------------- MODULE ConfigCommands --------------------------
(***************************************************************************)
(* loadConfig of src/config/loader.ts, as config validate and config       *)
(* explain report it, and init of src/app/config-commands.ts.              *)
(*                                                                         *)
(* facts has Foreign for a project configuration that init did not write,  *)
(* Ours for its own, Temp for the file it builds and Backup for the file   *)
(* it has set aside.                                                       *)
(***************************************************************************)
EXTENDS EvidenceCommands, Configuration

Ours == <<"file", "evidence">>
Backup == <<"backup", "foreign">>

ConfigMemory == Amended(EvidenceMemory,
  [values |-> <<>>, origin |-> <<>>, documents |-> <<>>, errors |-> {}, exists |-> FALSE])

-----------------------------------------------------------------------------
(* loadConfig *)

\* applyValues
Apply(values, source) ==
  [values |-> Amended(mem.values, values), origin |-> Amended(mem.origin, [key \in DOMAIN values |-> source])]

\* readConfigDocument: a document that is refused still names its profiles; its values
\* are of no interest, since any error makes the whole of it fail.
ReadDocument(source, file, required, next) ==
  Decide(source, GoTo(next) /\
    \/ /\ IF file = None THEN FALSE ELSE file.json
       /\ Keep(Amended(Apply(file.values, source),
                       [documents |-> Amended(mem.documents, [s \in {source} |-> file]),
                        errors |-> mem.errors \cup (IF ValidDocument(file) THEN {} ELSE {source})]))
    \/ /\ (IF file = None THEN TRUE ELSE ~file.json \/ "fail" \in Faults)
       /\ Keep([errors |-> mem.errors \cup (IF required \/ file # None THEN {source} ELSE {})]))

\* findProjectConfig: the nearest directory that has one; a file whose stat fails is
\* not seen.
Nearest(unseen) ==
  LET there == {i \in DOMAIN cmd.directories \ unseen : cmd.directories[i] # None}
  IN  IF there = {} THEN None ELSE cmd.directories[CHOOSE i \in there : \A j \in there : i =< j]

ReadProject ==
  IF cmd.named.given THEN ReadDocument("project", cmd.named.file, TRUE, "resolve")
  ELSE \E unseen \in SUBSET (IF "fail" \in Faults THEN DOMAIN cmd.directories ELSE {}) :
         ReadDocument("project", Nearest(unseen), FALSE, "resolve")

DocumentOf(source) ==
  IF source \in DOMAIN mem.documents THEN mem.documents[source]
  ELSE [defaultProfile |-> {}, profiles |-> <<>>]

\* The profile that is selected, if any: the first of these that names one.
SelectedProfile ==
  LET byEnvironment == {n \in cmd.environmentProfile : IsName(n)}
      byDefault(source) == {n \in DocumentOf(source).defaultProfile : IsName(n)}
  IN  IF cmd.profileName # {} THEN cmd.profileName
      ELSE IF byEnvironment # {} THEN byEnvironment
      ELSE IF byDefault("project") # {} THEN byDefault("project") ELSE byDefault("user")

\* The document the profile is taken from, and so all those it extends.
ProfileSource(name) ==
  CHOOSE source \in {"project", "user", "none"} :
    IF Finds(DocumentOf("project").profiles, name) THEN source = "project"
    ELSE IF Finds(DocumentOf("user").profiles, name) THEN source = "user" ELSE source = "none"

Chain(selected) ==
  IF selected = {} THEN <<>>
  ELSE ResolveProfile(selected, DocumentOf(ProfileSource(CHOOSE n \in selected : TRUE)).profiles)

\* Mutant: the profile that is extended goes over the one that extends it.
ParentFirst(profiles, chain) == [i \in DOMAIN chain |-> profiles[chain[Len(chain) + 1 - i]].values]

InOrder(profiles, chain) == [i \in DOMAIN chain |-> profiles[chain[i]].values]

FromEnvironment == [key \in DOMAIN cmd.environment |-> EnvironmentValue(key, cmd.environment[key])]

\* What goes over the files, the strongest last, and what each of it is called.
LayersOver(profiles, chain) == InOrder(profiles, chain) \o <<FromEnvironment, cmd.cli>>
SourceOf(i, chain) == IF i =< Len(chain) THEN "profile" ELSE IF i = Len(chain) + 1 THEN "environment" ELSE "cli"

DelaysFit(values) ==
  {"recoveryInitialDelayMs", "recoveryMaxDelayMs"} \subseteq DOMAIN values
    => values["recoveryMaxDelayMs"] >= values["recoveryInitialDelayMs"]

\* The rest of loadConfig.  A profile whose name every object answers to has no values
\* to go over, and the TypeError ends the program (runCli).
Resolve ==
  LET selected == SelectedProfile
      chain == Chain(selected)
      known == \A n \in selected : Finds(DocumentOf("project").profiles, n) \/ Finds(DocumentOf("user").profiles, n)
      profiles == IF selected = {} \/ ~known THEN <<>>
                  ELSE DocumentOf(ProfileSource(CHOOSE n \in selected : TRUE)).profiles
      wrong == mem.errors \cup (IF known THEN {} ELSE {"profile"})
                 \cup (IF ValidEnvironment(cmd.environment) /\ (\A n \in cmd.environmentProfile : IsName(n))
                       THEN {} ELSE {"environment"})
  IN  Decide("resolve",
        IF known /\ \E i \in DOMAIN chain : chain[i] \notin DOMAIN profiles
        THEN at' = "ended" /\ exit' = "internal" /\ UNCHANGED <<mem, problems>>
        ELSE IF wrong # {} THEN Finish({"input"}) /\ Keep([errors |-> wrong])
        ELSE LET over == LayersOver(profiles, chain)
                 values == Stack(mem.values, over)
                 origin == Stack(mem.origin, [i \in DOMAIN over |-> [key \in DOMAIN over[i] |-> SourceOf(i, chain)]])
             IN  IF DelaysFit(values) THEN Finish({}) /\ Keep([values |-> values, origin |-> origin])
                 ELSE Finish({"input"}) /\ UNCHANGED mem)

Config ==
  /\ cmd.name = "config"
  /\ \/ Decide("defaults", GoTo("user") /\ Keep(Apply([timeoutMs |-> 5000], "default")))
     \/ ReadDocument("user", cmd.user, FALSE, "project")
     \/ ReadProject
     \/ Resolve

-----------------------------------------------------------------------------
(* init *)

\* What is detected, and whether there is a configuration already.
InitLooks ==
  \/ Decide("input", UNCHANGED mem /\ IF cmd.validOptions THEN GoTo("stat") ELSE Finish({"input"}))
  \/ Decide("stat", \E seen \in {Foreign \in facts} \cup (IF "fail" \in Faults THEN {FALSE} ELSE {}) :
       /\ Keep([exists |-> seen])
       /\ IF seen /\ ~cmd.force THEN Finish({"input"})
          ELSE IF cmd.dryRun THEN Finish({}) ELSE GoTo("write"))

\* A call of the file system: it does all of it or, failing, nothing.
FileCall(step, new, next) ==
  /\ Awaiting(step) /\ UNCHANGED <<cmd, signal, cut, mem>>
  /\ \/ facts' = new /\ GoTo(next)
     \/ "fail" \in Faults /\ UNCHANGED facts /\ GoTo("undo")

\* The new file is built aside, the old one set aside until it has been read back.
InitWrites ==
  \/ FileCall("write", facts \cup {Temp}, IF mem.exists THEN "set-aside" ELSE "install")
  \/ FileCall("set-aside", (facts \ {Foreign}) \cup {Backup}, "install")
  \/ FileCall("install", (facts \ {Temp, Foreign}) \cup {Ours}, "read-back")
  \/ FileCall("read-back", facts, "remove-backup")
  \/ FileCall("remove-backup", facts \ {Backup}, "written")
  \/ Decide("written", Finish({}) /\ UNCHANGED mem)

\* The catch: what was set aside comes back, when it can.
InitUndone ==
  /\ Awaiting("undo") /\ UNCHANGED <<cmd, signal, cut, mem>> /\ Finish({"input"})
  /\ LET cleared == IF Backup \in facts THEN facts \ {Temp, Foreign, Ours} ELSE facts \ {Temp} IN
     facts' \in {IF Backup \in facts THEN (cleared \ {Backup}) \cup {Foreign} ELSE cleared}
                  \cup (IF "fail" \in Faults THEN {cleared} ELSE {})

InitConfig == cmd.name = "init" /\ (ForeignFile \/ InitLooks \/ InitWrites \/ InitUndone)

\* A document has finitely many profiles, and each key once.
Document(file) ==
  /\ IsFiniteSet(DOMAIN file.profiles) /\ OnceAtMost(file.defaultProfile)
  /\ \A name \in DOMAIN file.profiles : OnceAtMost(file.profiles[name].extends)
Documents == {cmd.user, cmd.named.file} \cup {cmd.directories[i] : i \in DOMAIN cmd.directories}

ConfigInit ==
  /\ cmd.name = "config" /\ DOMAIN cmd.directories \subseteq Nat
  /\ \A file \in Documents : file # None => Document(file)
  /\ OnceAtMost(cmd.profileName) /\ OnceAtMost(cmd.environmentProfile)
  /\ CommandInit("defaults", ConfigMemory)

InitConfigInit == cmd.name = "init" /\ CommandInit("input", ConfigMemory)

-----------------------------------------------------------------------------
(* Properties *)

\* The sources of a key, the strongest first (docs/configuration.md, "Files and
\* precedence"), each with what it says.
Sources(key) ==
  LET selected == SelectedProfile
      says(values) == IF key \in DOMAIN values THEN {values[key]} ELSE {}
      file(source) == IF source \in DOMAIN mem.documents THEN says(mem.documents[source].values) ELSE {}
  IN  <<<<"cli", says(cmd.cli)>>, <<"environment", says(FromEnvironment)>>,
        <<"profile", UNION {ByProfile({n}, DocumentOf(ProfileSource(n)).profiles, key) : n \in selected}>>,
        <<"project", file("project")>>, <<"user", file("user")>>, <<"default", says([timeoutMs |-> 5000])>>>>

\* Every value of a configuration that was accepted is the one of the strongest source
\* that has any, and is said to be; and the delays fit although each source is checked
\* by itself.
ConfigDone ==
  cmd.name = "config" =>
    /\ DelaysFit(mem.values) /\ DOMAIN mem.origin = DOMAIN mem.values
    /\ \A key \in UNION {DOMAIN mem.values, DOMAIN cmd.cli, DOMAIN FromEnvironment} :
         LET all == Sources(key)
             first == CHOOSE i \in DOMAIN all : all[i][2] # {} /\ \A j \in 1 .. i - 1 : all[j][2] = {}
         IN  mem.origin[key] = all[first][1] /\ {mem.values[key]} = all[first][2]

InitDone == cmd.name = "init" /\ ~cmd.dryRun => Ours \in facts /\ Backup \notin facts

\* Somebody's configuration is given up only by force, for one that is in place; what
\* was not there when init looked is not kept.
InitAsked ==
  {Foreign, Backup} \cap facts # {} /\ {Foreign, Backup} \cap facts' = {}
    => Ours \in facts' /\ (cmd.force \/ ~mem.exists)
=============================================================================
