---------------------------- MODULE AppCommands ----------------------------
(***************************************************************************)
(* The commands of src/app/app-commands.ts: apps are listed, installed,    *)
(* launched, stopped, cleared and removed, a URL is opened.  Each changes  *)
(* the device with one adb call and then looks whether the device is as it *)
(* should be.                                                              *)
(*                                                                         *)
(* facts has <<"installed", app, age>>, age being "old" or, of what this   *)
(* command installs, "new"; <<"data", app>>, <<"running", app>>,           *)
(* <<"foreground", app>>, and <<"starting", app>> of an app that has been  *)
(* started and is to come to the foreground.                               *)
(***************************************************************************)
EXTENDS LogsCommand

Apps == {"want", "other"}

AppMemory == Amended(TargetMemory, [app |-> None, prior |-> "unread", names |-> {}, tries |-> 0, done |-> "ok"])

Installed(app) == \E age \in {"old", "new"} : <<"installed", app, age>> \in facts
InstalledNames == {app \in Apps : Installed(app)}
Without(kinds, app) == {f \in facts : ~(f[1] \in kinds /\ f[2] = app)}
Stopped(app) == Without({"running", "starting", "foreground"}, app)
Started(app) == {f \in facts : f[1] # "foreground"} \cup {<<"running", app>>, <<"starting", app>>}

\* An app that was started comes to the foreground.
AppAppears ==
  /\ exit = Running /\ UNCHANGED <<cmd, command, signal>>
  /\ \E app \in Apps : /\ <<"starting", app>> \in facts
                       /\ facts' = Without({"starting"}, app) \cup {<<"foreground", app>>}

-----------------------------------------------------------------------------
(* The target and the application *)

\* readyTarget: what runDevices reports when it has no inventory; a resolution that
\* needs the device has then failed too.
Unready(ps) == Finish(ps \cup (IF cmd.action = "resolve" THEN {"input"} ELSE {})) /\ UNCHANGED mem

ReadyTarget(first) ==
  \/ Decide("adb", IF cmd.adb THEN GoTo("devices") /\ UNCHANGED mem ELSE Unready({"environment"}))
  \/ /\ Awaiting("devices") /\ UNCHANGED <<cmd, signal, facts>>
     /\ \E r \in Ends : Settles(r) /\ IF r = "ok" THEN StartInspect("features") ELSE Unready({ProblemOf(r, "adb")})
  \/ MdnsStep("inspect") \/ HardwareStep
  \/ Decide("inspect",
       /\ mem.mdns \in Ends /\ mem.hardware \in Ends
       /\ LET choice == SelectTarget(cmd.devices, SeenIdentity, cmd.select)
          IN  IF "aborted" \in {mem.mdns, mem.hardware} THEN Unready({"interrupted"})
              ELSE IF choice.kind # "selected" THEN Unready({"target"})
              ELSE GoTo(first) /\ Keep([target |-> choice]))

\* resolveApplicationId: the first source that names an application decides, and
\* must name one only; what is installed is the last source.
IdAmong(names) ==
  IF cmd.local # "none" THEN cmd.local
  ELSE CASE names = {} -> "none" [] Cardinality(names) = 1 -> "resolved" [] OTHER -> "ambiguous"
TheApp(names) == IF cmd.local = "resolved" THEN "want" ELSE CHOOSE app \in names : TRUE

Identified(names, next) ==
  IF IdAmong(names) = "resolved" THEN GoTo(next) /\ Keep([app |-> TheApp(names)]) ELSE Finish({"input"}) /\ UNCHANGED mem

\* requireApplicationId: the device is asked only when the project does not tell.
RequireApp(next) ==
  \/ Decide("identify",
       IF cmd.local = "none" THEN GoTo("packages") /\ UNCHANGED mem
       ELSE Identified({}, next))
  \/ Read("packages", "adb", Identified(InstalledNames, next))

-----------------------------------------------------------------------------
(* Stopping and launching *)

\* A call that changes the device.  refused: adb ran well and Android says no.
Change(step, new, Then) ==
  /\ Awaiting(step) /\ UNCHANGED <<cmd, signal>>
  /\ \E r \in Ends, refused \in BOOLEAN :
       /\ Settles(r)
       /\ IF r = "ok" /\ refused THEN UNCHANGED facts ELSE Effect(r, new)
       /\ IF r = "ok" /\ ~refused THEN Then ELSE Finish({ProblemOf(r, "adb")}) /\ UNCHANGED mem

\* stopApp: pidof must find nothing.
StopApp(Then) ==
  \/ Change("stop", Stopped(mem.app), GoTo("stopped") /\ UNCHANGED mem)
  \/ /\ Awaiting("stopped") /\ UNCHANGED <<cmd, signal, facts>>
     /\ \E r \in Ends : Settles(r) /\
          IF r = "ok" /\ <<"running", mem.app>> \notin facts THEN Then ELSE Finish({"adb"}) /\ UNCHANGED mem

\* launchApp: the activity, the start, and five looks at the foreground; the last
\* call only explains why it failed.
LaunchApp ==
  \/ Decide("activity?", GoTo(IF cmd.activity THEN "launch" ELSE "activity") /\ UNCHANGED mem)
  \/ /\ Awaiting("activity") /\ UNCHANGED <<cmd, signal, facts, mem>>
     /\ \E r \in Ends, found \in BOOLEAN : Settles(r) /\
          IF r = "ok" /\ found THEN IF cmd.dryRun THEN Finish({}) ELSE GoTo("launch") ELSE Finish({"adb"})
  \/ Change("launch", Started(mem.app), GoTo("foreground") /\ UNCHANGED mem)
  \/ /\ Awaiting("foreground") /\ UNCHANGED <<cmd, signal, facts>>
     /\ \E r \in Ends : Settles(r) /\
          IF r = "ok" /\ <<"foreground", mem.app>> \in facts THEN Finish({}) /\ UNCHANGED mem
          ELSE GoTo(IF mem.tries < 4 THEN "foreground" ELSE "lock") /\ Keep([tries |-> mem.tries + 1])
  \/ /\ Awaiting("lock") /\ UNCHANGED <<cmd, signal, facts, mem>>
     /\ \E r \in Ends : Settles(r) /\ Finish({"adb"})

-----------------------------------------------------------------------------
(* Installing *)

\* Mutant: an installed application is an installation that has been done.
PackageIsThere == Installed(mem.app)

\* installationChanged of what is known of the application before, which is
\* nothing when it was not inspected or could not be.
InstallationChanged ==
  \/ <<"installed", mem.app, "new">> \in facts
  \/ Installed(mem.app) /\ mem.prior # "installed"

InstallApp ==
  \/ Decide("artifact", UNCHANGED mem /\ IF cmd.validArtifacts THEN GoTo("before") ELSE Finish({"input"}))
  \/ Read("before", "adb",
       IF cmd.dryRun THEN Finish(IF cmd.local = "resolved" THEN {} ELSE {"input"}) /\ UNCHANGED mem
       ELSE GoTo(IF cmd.local = "resolved" THEN "prior" ELSE "install") /\ Keep([names |-> InstalledNames]))
  \/ /\ Awaiting("prior") /\ UNCHANGED <<cmd, signal, facts>>
     /\ \E r \in Ends : Settles(r) /\ GoTo("install") /\
          Keep([prior |-> IF r # "ok" THEN "failed" ELSE IF Installed("want") THEN "installed" ELSE "absent"])
  \/ Change("install", Without({"installed", "running", "foreground"}, cmd.artifact) \cup {<<"installed", cmd.artifact, "new">>},
            GoTo("after") /\ UNCHANGED mem)
  \/ /\ Awaiting("after") /\ UNCHANGED <<cmd, signal, facts>>
     /\ \E r \in Ends : Settles(r) /\
          LET fresh == (IF r = "ok" THEN InstalledNames ELSE {}) \ mem.names
          IN  IF IdAmong(fresh) = "resolved" THEN GoTo("info") /\ Keep([app |-> TheApp(fresh)])
              ELSE Finish({"adb"}) /\ UNCHANGED mem
  \/ /\ Awaiting("info") /\ UNCHANGED <<cmd, signal, facts, mem>>
     /\ \E r \in Ends : Settles(r) /\ Finish(IF r = "ok" /\ InstallationChanged THEN {} ELSE {"adb"})

-----------------------------------------------------------------------------
(* Clearing and removing: the call is followed by the look at its result       *)
(* whatever its end was, and only its own problem is reported.                 *)

Ended(step, r, Then) == Awaiting(step) /\ Settles(r) /\ Then /\ UNCHANGED <<cmd, signal>>

ClearData ==
  \/ \E r \in Ends, refused \in BOOLEAN : Ended("clear", r,
       /\ IF r = "ok" /\ refused THEN UNCHANGED facts
          ELSE Effect(r, {f \in Stopped(mem.app) : f # <<"data", mem.app>>})
       /\ GoTo("cleared") /\ Keep([done |-> IF r = "ok" /\ refused THEN "failed" ELSE r]))
  \/ \E r \in Ends : Ended("cleared", r,
       /\ Finish(IF mem.done = "ok" /\ r = "ok" /\ Installed(mem.app) /\ <<"running", mem.app>> \notin facts
                 THEN {} ELSE {ProblemOf(mem.done, "adb")})
       /\ UNCHANGED <<mem, facts>>)

\* A look at the package that fails shows no package either.
Uninstall ==
  \/ \E r \in Ends, refused \in BOOLEAN : Ended("uninstall", r,
       /\ IF r = "ok" /\ refused THEN UNCHANGED facts
          ELSE Effect(r, {f \in facts : f[2] # mem.app})
       /\ GoTo("removed") /\ Keep([done |-> IF r = "ok" /\ refused THEN "failed" ELSE r]))
  \/ \E r \in Ends : Ended("removed", r,
       /\ Finish(IF mem.done = "ok" /\ (r = "ok" => ~Installed(mem.app)) THEN {} ELSE {ProblemOf(mem.done, "adb")})
       /\ Keep([prior |-> r]) /\ UNCHANGED facts)

-----------------------------------------------------------------------------
(* The commands *)

\* A look that the command cannot fail by.
Look(step, Then) ==
  Awaiting(step) /\ UNCHANGED <<cmd, signal, facts, mem>> /\ \E r \in Ends : Settles(r) /\ Then

\* Which step a command that knows its application begins with.
Decided ==
  Decide("action", UNCHANGED mem /\
    \/ cmd.action = "info" /\ GoTo("info-active")
    \/ cmd.action # "info" /\ cmd.dryRun
       /\ IF cmd.action \in {"launch", "restart"} /\ ~cmd.activity THEN GoTo("activity") ELSE Finish({})
    \/ ~cmd.dryRun /\ cmd.action \in {"stop", "restart"} /\ GoTo("stop")
    \/ ~cmd.dryRun /\ cmd.action = "launch" /\ GoTo("activity?")
    \/ ~cmd.dryRun /\ cmd.action = "clear-data" /\ IF cmd.approved THEN GoTo("clear") ELSE Finish({"input"})
    \/ ~cmd.dryRun /\ cmd.action = "uninstall" /\ IF cmd.approved THEN GoTo("uninstall") ELSE Finish({"input"}))

AppInfo ==
  \/ Look("info-active", GoTo("info-package"))
  \/ /\ Awaiting("info-package") /\ UNCHANGED <<cmd, signal, facts, mem>>
     /\ \E r \in Ends : Settles(r) /\ Finish(IF r = "ok" /\ Installed(mem.app) THEN {} ELSE {"adb"})

\* runApp, and runApps as the action "list".
App ==
  /\ cmd.name = "app"
  /\ \/ Decide("input",
          /\ UNCHANGED mem
          /\ IF cmd.action = "resolve" /\ cmd.local # "none"
             THEN Finish(IF cmd.local = "resolved" THEN {} ELSE {"input"}) ELSE GoTo("adb"))
     \/ ReadyTarget(CASE cmd.action = "install" -> "artifact" [] cmd.action = "list" -> "list" [] OTHER -> "identify")
     \/ Read("list", "adb", Finish({}) /\ UNCHANGED mem)
     \/ cmd.action = "resolve" /\ RequireApp("resolved")
     \/ Decide("resolved", Finish({}) /\ UNCHANGED mem)
     \/ cmd.action # "resolve" /\ RequireApp("action")
     \/ Decided \/ AppInfo \/ InstallApp \/ ClearData \/ Uninstall
     \/ StopApp((IF cmd.action = "stop" THEN Finish({}) ELSE GoTo("activity?")) /\ UNCHANGED mem)
     \/ LaunchApp \/ AppAppears

\* runOpen: an application that is named must come to the foreground.
Open ==
  /\ cmd.name = "open"
  /\ \/ Decide("input", UNCHANGED mem /\ IF cmd.validUrl THEN GoTo("adb") ELSE Finish({"input"}))
     \/ ReadyTarget("open")
     \/ Decide("open", Keep([app |-> "want"]) /\ IF cmd.dryRun THEN Finish({}) ELSE GoTo("start"))
     \/ Change("start", Started("want"), UNCHANGED mem /\ IF cmd.named THEN GoTo("opened") ELSE Finish({}))
     \/ /\ Awaiting("opened") /\ UNCHANGED <<cmd, signal, facts, mem>>
        /\ \E r \in Ends : Settles(r) /\ Finish(IF r = "ok" /\ <<"foreground", "want">> \in facts THEN {} ELSE {"adb"})
     \/ AppAppears

\* A command of this module by itself.
AppInit == cmd.name \in {"app", "open"} /\ CommandInit("input", AppMemory)

-----------------------------------------------------------------------------
\* What an exit code of zero promises.  Two looks that fail are read as answers: the
\* one before an installation as "not installed", the one after a removal as "gone".
AppDone ==
  IF cmd.name = "open" THEN cmd.named => <<"foreground", "want">> \in facts
  ELSE CASE cmd.action = "stop" -> <<"running", mem.app>> \notin facts
    [] cmd.action \in {"launch", "restart"} -> <<"foreground", mem.app>> \in facts
    [] cmd.action = "install" -> mem.prior = "failed" \/ <<"installed", mem.app, "new">> \in facts
    [] cmd.action = "uninstall" -> mem.prior = "ok" => ~Installed(mem.app)
    [] cmd.action = "clear-data" -> Installed(mem.app) /\ <<"running", mem.app>> \notin facts
    [] OTHER -> TRUE

\* A change is of the application that was asked for, and approved where it destroys.
AppAsked ==
  /\ cmd.name = "app" /\ cmd.action \in {"clear-data", "uninstall"} => cmd.approved
  /\ \A f \in (facts \ facts') \cup (facts' \ facts) :
       f[2] \in {mem.app, cmd.artifact} \/ (f[1] = "foreground" /\ f \notin facts')
=============================================================================
