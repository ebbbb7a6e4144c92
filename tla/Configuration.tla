--------------------------- MODULE Configuration ---------------------------
(***************************************************************************)
(* The rules of src/config/loader.ts: which values a configuration may     *)
(* hold, which documents are accepted, how profiles inherit from each      *)
(* other, how the environment is read, and what layers of values come to.  *)
(*                                                                         *)
(* The values of a document are a function from the keys of ConfigValues   *)
(* to what the document says there.  0 stands for all that is no integer   *)
(* of at least 1, "" for all that is no text, "odd" for a text that its    *)
(* key has no use for; what may be left out is a set with at most one      *)
(* member.  known and shaped: no object has a key that is unknown, and     *)
(* every object and array is one.                                          *)
(***************************************************************************)
EXTENDS Integers, FiniteSets, SequencesExt, Records

IsText(v) == v # ""
IsFlag(v) == v \in {"true", "false"}
IsPort(v) == v \in 1 .. 65535
MaxTimer == 2147483647

\* PROFILE_NAME and the patterns of application ids and of variable names, all of
\* which an "odd" text does not match.
IsName(v) == v \notin {"", "odd"}

-----------------------------------------------------------------------------
(* One operator for each part of validateDocument *)

AdbRule(key, v) ==
  /\ key \in {"adbPath", "adbHost"} => IsText(v)
  /\ key = "adbPort" => IsPort(v)

OutputRule(key, v) == key \in {"color", "unicode", "animation", "interactive"} => IsFlag(v)

AliasRule(key, v) == key = "targetAliases" => \A alias \in DOMAIN v : IsName(alias) /\ IsText(v[alias])

\* What a member of a pool stands for: fields are those its kind must have.
Resource(m) ==
  <<m.kind, m.fields>> \o
    IF m.kind = "remote-adb" THEN <<m.port \cup (IF m.port = {} THEN {5037} ELSE {})>>
    ELSE IF m.kind = "firebase" THEN <<m.locale \cup (IF m.locale = {} THEN {"en"} ELSE {}),
                                       m.orientation \cup (IF m.orientation = {} THEN {"portrait"} ELSE {})>>
    ELSE <<>>

MemberRule(m) ==
  /\ IsName(m.id) /\ IsFlag(m.required)
  /\ m.kind \in {"adb", "avd", "remote-adb", "firebase"}
  /\ \A i \in DOMAIN m.fields : IsText(m.fields[i])
  /\ m.kind = "remote-adb" => \A p \in m.port : IsPort(p)
  /\ m.kind = "firebase" => /\ \A l \in m.locale : IsText(l)
                            /\ m.orientation \subseteq {"portrait", "landscape"}

PoolRule(key, v) ==
  key = "targetPools" =>
    \A name \in DOMAIN v : LET p == v[name] IN
      /\ IsName(name) /\ Len(p.members) \in 1 .. 64 /\ p.maxConcurrency \in 1 .. 32
      /\ IsFlag(p.failFast) /\ p.leaseWaitMs \in 0 .. 3600000
      /\ \A i \in DOMAIN p.members : MemberRule(p.members[i])
      /\ \A i, j \in DOMAIN p.members :
           i # j => p.members[i].id # p.members[j].id /\ Resource(p.members[i]) # Resource(p.members[j])

AppRule(key, v) == key = "appPackage" => IsName(v)

DevChoiceRule(key, v) ==
  /\ key = "devPreset" => v \in {"capacitor", "custom", "expo", "flutter", "gradle", "react-native"}
  /\ key = "packageManager" => v \in {"bun", "npm", "pnpm", "yarn"}

DevCommandRule(key, v) == key = "devCommand" => IsText(v.executable) /\ \A cwd \in v.cwd : IsText(cwd)

ReversePortsRule(key, v) ==
  key = "devReversePorts" => \A i \in DOMAIN v : IsPort(v[i].device) /\ \A host \in v[i].host : IsPort(host)

DevFlagRule(key, v) == key \in {"devAutoReverseLocalhost", "devLogs", "devCleanupPorts", "devWatch"} => IsFlag(v)

AssertionRule(a) ==
  CASE a.kind \in {"boot", "unlocked"} -> TRUE
    [] a.kind \in {"foreground", "process"} -> IsName(a.value)
    [] a.kind = "activity" -> IsText(a.value)
    [] a.kind = "host-port" -> IsPort(a.number)
    [] a.kind = "http" -> IsName(a.value) /\ \A status \in a.among : status \in 100 .. 599
    [] a.kind = "log" -> a.number \in 1 .. 256
    [] a.kind = "ui" -> IsName(a.value) /\ a.among \subseteq {"visible", "gone"}
    [] OTHER -> FALSE

ReadinessRule(key, v) ==
  key = "devReadiness" =>
    /\ \A i \in DOMAIN v.all : AssertionRule(v.all[i])
    /\ \A ms \in v.timeoutMs \cup v.pollIntervalMs : ms >= 1

RecoveryRule(key, v) ==
  key \in {"recoveryMaxAttempts", "recoveryInitialDelayMs", "recoveryMaxDelayMs", "recoveryTotalTimeoutMs"} => v >= 1

SessionRule(key, v) ==
  /\ key = "sessionPersist" => IsFlag(v)
  /\ key \in {"sessionMaxSessions", "sessionMaxAgeDays", "sessionMaxBytes"} => v >= 1

JournalRule(key, v) ==
  /\ key \in {"journalMaxEntries", "journalMaxBytes"} => v >= 1
  /\ key = "journalSources" => \A source \in v : IsText(source)
  /\ key = "journalMinimumSeverity" => v \in {"debug", "info", "warning", "error"}
  /\ key = "journalRedactEnvironment" => \A name \in v : IsName(name)

HookRule(h) ==
  /\ h.run # <<>> /\ IsText(h.run[1]) /\ \A ms \in h.timeoutMs : ms \in 1 .. MaxTimer
  /\ h.failure \subseteq {"fail", "ignore", "warn"}
  /\ \A cwd \in h.cwd : IsText(cwd)
  /\ \A name \in h.envAllowlist : IsName(name)

HooksRule(key, v) ==
  key = "devHooks" =>
    /\ DOMAIN v \subseteq {"beforeDev", "onTargetReady", "onPortsReady", "onReady", "onChildExit", "finally"}
    /\ \A event \in DOMAIN v : \A i \in DOMAIN v[event] : HookRule(v[event][i])

DevRule(key, v) ==
  /\ DevChoiceRule(key, v) /\ DevCommandRule(key, v) /\ ReversePortsRule(key, v) /\ DevFlagRule(key, v)
  /\ ReadinessRule(key, v) /\ RecoveryRule(key, v) /\ SessionRule(key, v) /\ JournalRule(key, v) /\ HooksRule(key, v)

ValidValues(values) ==
  \A key \in DOMAIN values : LET v == values[key] IN
    /\ key = "timeoutMs" => v \in 1 .. MaxTimer
    /\ AdbRule(key, v) /\ OutputRule(key, v) /\ AliasRule(key, v) /\ PoolRule(key, v)
    /\ AppRule(key, v) /\ DevRule(key, v)

-----------------------------------------------------------------------------
(* Profiles *)

ValidProfile(p) == p.known /\ p.shaped /\ (\A parent \in p.extends : IsName(parent)) /\ ValidValues(p.values)

\* The names every JavaScript object answers to.  The profiles of a document are kept
\* in such an object and looked up without asking whether the name is its own.
Inherited == {"constructor"}
Finds(profiles, name) == name \in DOMAIN profiles \cup Inherited

\* The last part of validateDocument: every profile that is named must be there, and
\* following extends must end.
ValidInheritance(doc) ==
  /\ \A name \in doc.defaultProfile : Finds(doc.profiles, name)
  /\ \A name \in DOMAIN doc.profiles : \A parent \in doc.profiles[name].extends : Finds(doc.profiles, parent)
  /\ \A circle \in (SUBSET DOMAIN doc.profiles) \ {{}} :
       \E name \in circle : doc.profiles[name].extends \cap circle = {}

ValidDocument(doc) ==
  /\ doc.shaped /\ doc.known /\ doc.version = 1 /\ ValidValues(doc.values)
  /\ \A name \in doc.defaultProfile : IsName(name)
  /\ \A name \in DOMAIN doc.profiles : IsName(name) /\ ValidProfile(doc.profiles[name])
  /\ ValidInheritance(doc)

\* One pass of the loop of resolveProfile: the profile that the eldest one of the chain
\* extends, or the selected one, comes before it, unless it is there already or not known.
Onward(chain, selected, profiles) ==
  LET current == IF chain = <<>> THEN selected
                 ELSE IF Head(chain) \in DOMAIN profiles THEN profiles[Head(chain)].extends ELSE {}
      found == {name \in current : Finds(profiles, name)} \ {chain[i] : i \in DOMAIN chain}
  IN  IF found = {} THEN chain ELSE <<CHOOSE name \in found : TRUE>> \o chain

\* resolveProfile: the names from the eldest to the one that is selected, after as many
\* passes as there are names.
ResolveProfile(selected, profiles) ==
  LET enough == Cardinality(DOMAIN profiles \cup Inherited)
      chain[passes \in 0 .. enough] == IF passes = 0 THEN <<>> ELSE Onward(chain[passes - 1], selected, profiles)
  IN  chain[enough]

-----------------------------------------------------------------------------
(* The environment: a function from keys to the texts of their variables,    *)
(* numbers already read by Number().                                         *)

EnvironmentTexts == {"adbPath", "adbHost"}
EnvironmentFlags == {"color", "unicode", "animation", "interactive", "devAutoReverseLocalhost", "devLogs",
                     "devCleanupPorts", "devWatch", "sessionPersist"}
EnvironmentIntegers == {"timeoutMs", "journalMaxEntries", "journalMaxBytes", "recoveryMaxAttempts",
                        "recoveryInitialDelayMs", "recoveryMaxDelayMs", "recoveryTotalTimeoutMs",
                        "sessionMaxSessions", "sessionMaxAgeDays", "sessionMaxBytes"}

Means == {"1", "true", "yes", "on"}
MeansNot == {"0", "false", "no", "off"}

ValidEnvironment(env) ==
  \A key \in DOMAIN env : LET v == env[key] IN
    /\ key \in EnvironmentTexts => IsText(v)
    /\ AppRule(key, v) /\ DevChoiceRule(key, v)
    /\ key = "journalMinimumSeverity" => JournalRule(key, v)
    /\ key = "devReversePorts" => v # <<>> /\ \A i \in DOMAIN v : IsPort(v[i])
    /\ key = "journalRedactEnvironment" => v # {} /\ JournalRule(key, v)
    /\ key = "adbPort" => IsPort(v)
    /\ key \in EnvironmentIntegers => v \in 1 .. MaxTimer
    /\ key \in EnvironmentFlags => v \in Means \cup MeansNot

EnvironmentValue(key, v) ==
  IF key \in EnvironmentFlags THEN (IF v \in Means THEN "true" ELSE "false")
  ELSE IF key = "devReversePorts" THEN [i \in DOMAIN v |-> [device |-> v[i], host |-> {}]]
  ELSE v

\* What is there in the end when layers are applied to it one after the other.
Stack(base, layers) == FoldLeft(Amended, base, layers)

\* What may be left out is there once at most.
OnceAtMost(S) == \A x, y \in S : x = y

\* Every line of descent from a selected profile, each of which extends the one before it.
Lines(selected, profiles) ==
  {line \in SeqOf(DOMAIN profiles, Cardinality(DOMAIN profiles)) :
     /\ line # <<>> /\ line[1] \in selected
     /\ \A i \in 2 .. Len(line) : line[i] \in profiles[line[i - 1]].extends}

\* What the nearest profile says of a key that says anything of it.
ByProfile(selected, profiles, key) ==
  LET says(name) == key \in DOMAIN profiles[name].values
      nearest(line) == says(line[Len(line)]) /\ \A i \in 1 .. Len(line) - 1 : ~says(line[i])
  IN  {profiles[line[Len(line)]].values[key] : line \in {l \in Lines(selected, profiles) : nearest(l)}}
=============================================================================
