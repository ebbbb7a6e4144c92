--------------------------- MODULE EvidenceCommands ---------------------------
(***************************************************************************)
(* The commands that keep evidence: capture of src/evidence/capture.ts and *)
(* files.ts, inspect app and inspect failures, and the bundle that a run   *)
(* writes at its end (src/automation/evidence-bundle.ts).  A file is built *)
(* under a name of its own and then moved to the one that was asked for.   *)
(*                                                                         *)
(* facts has <<"file", who>> for the file of that name ("foreign" or       *)
(* "evidence"), <<"temp", "host">> for the one being built, <<"remote",    *)
(* "device">> for the recording on the device, <<"verifier", "host">> for  *)
(* the directory the verifier has written to.                              *)
(***************************************************************************)
EXTENDS UiCommands

EvidenceMemory == Amended(UiMemory, [thrown |-> FALSE, sources |-> {}, log |-> "unread"])

Foreign == <<"file", "foreign">>
Temp == <<"temp", "host">>
Remote == <<"remote", "device">>

\* Another program writes a file of the name that was asked for.
ForeignFile ==
  /\ exit = Running /\ <<"file", "evidence">> \notin facts
  /\ facts' = facts \cup {Foreign} /\ UNCHANGED <<cmd, command, signal>>

-----------------------------------------------------------------------------
(* Moving the file to its name *)

\* prepareEvidenceDestination
Prepare(next) ==
  Decide("prepare", UNCHANGED mem /\
    IF ~cmd.insideRoot \/ (Foreign \in facts /\ ~cmd.force) THEN Finish({"input"}) ELSE GoTo(next))


\* Mutant: the file was not there when the command looked.
MoveOver == {(facts \ {Foreign, Temp}) \cup {<<"file", "evidence">>}}

\* What commitEvidenceDestination may do: with force the file is renamed over the
\* other, else it is linked to a name that must be free, and its old name removed.
MoveToName ==
  IF cmd.force THEN {(facts \ {Foreign, Temp}) \cup {<<"file", "evidence">>}}
  ELSE IF Foreign \in facts THEN {} ELSE {facts \cup {<<"file", "evidence">>}}

\* The commit, and what follows it and may throw as well.
Commit(next, thrown) ==
  \/ /\ Awaiting("commit") /\ UNCHANGED <<cmd, signal, cut, mem>>
     /\ \/ facts' \in MoveToName /\ GoTo(IF cmd.force THEN "sha256" ELSE "unlink")
        \/ ("fail" \in Faults \/ MoveToName = {}) /\ UNCHANGED facts /\ GoTo(thrown)
  \/ /\ Awaiting("unlink") /\ UNCHANGED <<cmd, signal, cut, mem>>
     /\ \/ facts' = facts \ {Temp} /\ GoTo("sha256")
        \/ "fail" \in Faults /\ UNCHANGED facts /\ GoTo(thrown)
  \/ Decide("sha256", UNCHANGED mem /\ (GoTo(next) \/ ("fail" \in Faults /\ GoTo(thrown))))

\* discardEvidenceDestination, which may throw,
Discard(step) == Awaiting(step) /\ facts' = facts \ {Temp} /\ UNCHANGED <<cmd, signal, cut, mem>>
DiscardFails(step) ==
  Awaiting(step) /\ "fail" \in Faults /\ UNCHANGED <<cmd, signal, cut, mem, facts>>

\* and what nobody catches is an internal error of the program (runCli).
Escapes == at' = "ended" /\ exit' = "internal" /\ problems' = problems \cup {"internal"}

-----------------------------------------------------------------------------
(* capture *)

\* The picture is written as it arrives, then decoded, cropped and scaled in memory.
Screenshot ==
  \/ /\ Awaiting("screenshot") /\ UNCHANGED <<cmd, signal>>
     /\ facts' = facts \cup {Temp}
     /\ \E r \in Ends, valid \in BOOLEAN : Settles(r) /\ UNCHANGED mem /\
          IF r = "ok" /\ valid THEN GoTo("transform") ELSE Note({ProblemOf(r, "adb")}, "invalid")
  \/ Decide("transform", UNCHANGED mem /\
       \/ GoTo("commit") \/ Note({"input"}, "invalid") \/ Note({"adb"}, "invalid"))
  \/ Discard("invalid") /\ Finish({})
  \/ DiscardFails("invalid") /\ GoTo("caught")

\* The recording on the device is removed at the end, by a call that the caller
\* cannot interrupt.
ScreenRecord ==
  \/ /\ Awaiting("record") /\ UNCHANGED <<cmd, signal>>
     /\ IF ~cmd.validDuration THEN Finish({"input"}) /\ UNCHANGED <<facts, mem, cut>>
        ELSE \E r \in Ends : Settles(r) /\ Effect(r, facts \cup {Remote}) /\ UNCHANGED mem /\
               IF r = "ok" THEN GoTo("pull") ELSE Note({ProblemOf(r, "adb")}, "cleanup")
  \/ /\ Awaiting("pull") /\ UNCHANGED <<cmd, signal, mem>>
     /\ \E r \in Ends, valid \in BOOLEAN :
          /\ Settles(r) /\ Effect(r, facts \cup {Temp}) /\ (r = "ok" => Remote \in facts)
          /\ IF r = "ok" /\ valid /\ Temp \in facts' THEN GoTo("commit") ELSE Note({"adb"}, "discard-pull")
  \/ Discard("discard-pull") /\ GoTo("cleanup")
  \/ DiscardFails("discard-pull") /\ GoTo("thrown")
  \/ Decide("thrown", GoTo("cleanup") /\ Keep([thrown |-> TRUE]))
  \/ /\ Awaiting("cleanup") /\ UNCHANGED <<cmd, signal, mem>>
     /\ \E r \in Ends : /\ SettlesAlone(r) /\ HonestEffect(r, facts \ {Remote})
                        /\ Note(IF r = "ok" THEN {} ELSE {"adb"}, IF mem.thrown THEN "caught" ELSE "kept")

\* captureInputProblem: what is said of a picture is not said of a recording.
CaptureRefused == ~cmd.validOptions \/ (cmd.action # "screenshot" /\ cmd.cropped)

Capture ==
  /\ cmd.name = "capture"
  /\ \/ ForeignFile
     \/ Decide("input", UNCHANGED mem /\ IF CaptureRefused THEN Finish({"input"}) ELSE GoTo("adb"))
     \/ ReadyTarget("prepare")
     \/ Prepare(cmd.action)
     \/ IF cmd.action = "screenshot" THEN Screenshot \/ Commit("kept", "caught")
        ELSE ScreenRecord \/ Commit("cleanup", "thrown")
     \/ Discard("caught") /\ Finish({"input"})
     \/ DiscardFails("caught") /\ Escapes
     \/ Decide("kept", Finish({}) /\ UNCHANGED mem)

-----------------------------------------------------------------------------
(* inspect *)

\* The app first; what cannot be read of it afterwards is said to be unavailable.
InspectedApp(Then) ==
  \/ Decide("input", UNCHANGED mem /\ IF cmd.validOptions THEN GoTo("adb") ELSE Finish({"input"}))
  \/ ReadyTarget("identify")
  \/ RequireApp("info-active")
  \/ Look("info-active", GoTo("info-package"))
  \/ /\ Awaiting("info-package") /\ UNCHANGED <<cmd, signal, facts, mem>>
     /\ \E r \in Ends : Settles(r) /\ IF r = "ok" /\ Installed(mem.app) THEN Then ELSE Finish({"adb"})

Source(step, name, Then) ==
  /\ Awaiting(step) /\ UNCHANGED <<cmd, signal, facts>>
  /\ \E r \in Ends, usable \in BOOLEAN : Settles(r) /\ Then /\
       Keep([sources |-> mem.sources \cup (IF r = "ok" /\ usable THEN {name} ELSE {})])

InspectApp ==
  /\ cmd.name = "inspect-app"
  /\ \/ InspectedApp(GoTo("logs"))
     \/ Source("logs", "logcat", Finish({}))

\* The clock and its offset bound the window all three sources are read for.
InspectFailures ==
  /\ cmd.name = "inspect-failures"
  /\ \/ InspectedApp(GoTo("clock"))
     \/ /\ Awaiting("clock") /\ UNCHANGED <<cmd, signal, facts, mem>>
        /\ \E r \in Ends, stable \in BOOLEAN : Settles(r) /\
             IF r = "ok" /\ stable THEN GoTo("exit-info") ELSE Finish({"adb"})

FailureSources ==
  /\ cmd.name = "inspect-failures"
  /\ \/ Source("exit-info", "exit-info", GoTo("failure-logs"))
     \/ Source("failure-logs", "logcat", GoTo("dropbox"))
     \/ Source("dropbox", "dropbox", Finish({}))

-----------------------------------------------------------------------------
(* The bundle of a run *)

\* writeEvidenceBundle: what the bundle is to hold, and its directory.
BundleBegins ==
  /\ cmd.name = "bundle"
  /\ \/ Decide("input", UNCHANGED mem /\ (GoTo("directory") \/ ("fail" \in Faults /\ Finish({"adb"}))))
     \/ /\ Awaiting("directory") /\ UNCHANGED <<cmd, signal, cut, mem>>
        /\ \/ facts' = facts \cup {Temp} /\ GoTo("write")
           \/ "fail" \in Faults /\ UNCHANGED facts /\ Finish({"adb"})

\* Whatever throws from now on takes the directory away; that this may fail in turn is
\* said nowhere (thrown, a history).
BundleWritten ==
  /\ cmd.name = "bundle"
  /\ \/ Decide("write", UNCHANGED mem /\ (GoTo("rename") \/ ("fail" \in Faults /\ Note({"adb"}, "undo"))))
     \/ /\ Awaiting("rename") /\ UNCHANGED <<cmd, signal, cut, mem>>
        /\ \/ facts' = (facts \ {Temp}) \cup {<<"file", "evidence">>} /\ GoTo("undo")
           \/ "fail" \in Faults /\ UNCHANGED facts /\ Note({"adb"}, "undo")
     \/ /\ Awaiting("undo") /\ UNCHANGED <<cmd, signal, cut, mem>>
        /\ facts' = facts \ {Temp, <<"verifier", "host">>} /\ Finish({})
     \/ /\ Awaiting("undo") /\ "fail" \in Faults /\ UNCHANGED <<cmd, signal, cut>>
        /\ facts' \in {facts, facts \ {Temp}, facts \ {<<"verifier", "host">>}}
        /\ Finish({}) /\ Keep([thrown |-> TRUE])

Evidence == Capture \/ InspectApp \/ InspectFailures \/ FailureSources \/ BundleBegins \/ BundleWritten

\* These commands and the UI commands by themselves.  Nothing of theirs is there when
\* they begin, and of the screen, its field, the keyboard and the input method there is one.
\* A field that is to be cleared does not hold its own hint, which clear takes for empty.
EvidenceInit ==
  /\ cmd.name \in {"ui", "capture", "inspect-app", "inspect-failures", "bundle"}
  /\ cmd.name = "capture" => cmd.action \in {"screenshot", "record"}
  /\ cmd.name = "ui" /\ cmd.action = "clear" => Of("text") = "" \/ Of("text") # cmd.hint
  /\ {Temp, Remote, <<"ui-lock", "mine">>} \cap facts = {}
  /\ cmd.name = "ui" => \A kind \in {"screen", "text", "keyboard", "ime"} :
       \E value : {f \in facts : f[1] = kind} = {<<kind, value>>}
  /\ CommandInit("input", IF cmd.name = "ui" THEN UiMemory ELSE EvidenceMemory)

EvidenceSpec == EvidenceInit /\ [][Ui \/ Evidence \/ Signal]_vars

\* Any command of this module or of one it extends.
CommandsInit == TargetInit \/ LogsInit \/ AppInit \/ EvidenceInit
CommandsSpec == CommandsInit /\ [][TargetNext \/ Logs \/ App \/ Open \/ Ui \/ Evidence \/ Signal]_vars

EvidenceDone == cmd.name \in {"capture", "bundle"} => <<"file", "evidence">> \in facts

\* A command that reports success, and was no dry run, has reached what it promises: it
\* has looked, and what it saw is still so.
DoneIsVerified ==
  exit = "0" =>
    /\ cmd.name \in {"ports", "connect", "pair"} => cmd.dryRun \/ TargetCommandDone
    /\ cmd.name \in {"app", "open"} => cmd.dryRun \/ AppDone
    /\ cmd.name = "ui" => cmd.dryRun \/ UiDone
    /\ EvidenceDone

\* A file of another program is replaced only by force, and at the end.
EvidenceAsked == Foreign \in facts \ facts' => cmd.force

\* When a command has ended the file it was building is gone, and what it has left
\* on the device, a recording or another input method, is reported.  A capture whose
\* last removal of the file fails leaves it and ends with an internal error; a bundle
\* whose removal of its directory fails leaves that.
NothingTemporaryLeft ==
  exit # Running =>
    /\ Temp \in facts => exit = "internal" \/ (cmd.name = "bundle" /\ mem.thrown)
    /\ <<"ui-lock", "mine">> \notin facts
    /\ exit = "0" => /\ Remote \notin facts
                     /\ cmd.name = "ui" /\ mem.ime = "own" => <<"ime", "own">> \in facts
=============================================================================
