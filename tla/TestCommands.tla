---------------------------- MODULE TestCommands ----------------------------
(***************************************************************************)
(* The command test: a matrix of Firebase Test Lab, submitted and observed *)
(* by gcloud (src/automation/firebase-test-lab.ts), or a managed-device    *)
(* task of Gradle (src/automation/gradle-managed-devices.ts).              *)
(*                                                                         *)
(* facts has <<"matrix", state>> for the remote matrix, <<"provider", i>>  *)
(* for its i-th result file when it is here in full, <<"report", age,      *)
(* verdict>> for what Gradle's tests wrote; Temp and Ours for the evidence *)
(* of the run while it is built and when it is in place.                   *)
(***************************************************************************)
EXTENDS ConfigCommands

CONSTANTS ProviderFileLimit   \* PROVIDER_FILE_LIMIT
ASSUME ProviderAssumption == ProviderFileLimit \in Nat \ {0}

\* PROVIDER_FILE_BYTES and PROVIDER_TOTAL_BYTES, in MiB.
ProviderFileSize == 20
ProviderTotalSize == 50

TestMemory == Amended(ConfigMemory, [outcome |-> {}, left |-> <<>>, collection |-> "none", reports |-> {}])

\* A call that is not given the signal, and what its failure may be taken for.
Ask(step, kinds, Then) ==
  /\ Awaiting(step) /\ UNCHANGED <<cmd, signal, facts, mem>>
  /\ \E r \in Ends : SettlesAlone(r) /\ IF r = "ok" THEN Then ELSE \E k \in kinds : Finish({k})

-----------------------------------------------------------------------------
(* A matrix is cancelled, or the catalog is read *)

CancelInput == IF ~cmd.validInput THEN Finish({"input"}) ELSE IF cmd.dryRun THEN Finish({}) ELSE GoTo("token")

\* What a run is given, and whether its local artifacts are files.
RunInput == IF ~cmd.validInput \/ ~cmd.artifacts THEN Finish({"input"}) ELSE GoTo("models")

FirebaseInput ==
  Decide("input", UNCHANGED mem /\
    CASE cmd.action = "cancel" -> CancelInput [] cmd.action = "devices" -> GoTo("models") [] OTHER -> RunInput)

\* cancelMatrix: the answer may be lost although the matrix was cancelled.
CancelMatrix ==
  \/ Ask("token", {"environment"}, GoTo("post"))
  \/ /\ Awaiting("post") /\ UNCHANGED <<cmd, signal, mem>>
     /\ \E r \in Ends, denied \in BOOLEAN :
          /\ SettlesAlone(r)
          /\ HonestEffect(r, IF <<"matrix", "running">> \in facts THEN {<<"matrix", "cancelled">>} ELSE facts)
          /\ Finish(IF r = "ok" THEN {} ELSE IF denied THEN {"environment"} ELSE {"child"})

\* validateDevices, of the catalog's entries for the devices that were asked for.
Permitted ==
  \A device \in cmd.wanted :
    /\ device.listed /\ device.tags \subseteq cmd.allowed
    /\ device.capacity # "none" /\ (device.capacity = "low" => "low" \in cmd.allowed)

\* readCatalog, and what its caller does with it.  A failure is one of authentication
\* if its output sounds like that.
ReadCatalog ==
  \/ Ask("models", {"environment", "child"}, GoTo("versions"))
  \/ Ask("versions", {"environment", "child"},
       IF cmd.action = "devices" THEN Finish({})
       ELSE IF ~Permitted THEN Finish({"input"}) ELSE IF cmd.dryRun THEN Finish({}) ELSE GoTo("run"))

-----------------------------------------------------------------------------
(* A matrix is submitted and observed *)

Verdicts == {"passed", "flaky", "failed", "inconclusive", "unsupported", "cancelled"}

\* gcloud's exit code for a matrix that is over.
CodeOf == [verdict \in Verdicts |->
  CASE verdict \in {"passed", "flaky"} -> 0 [] verdict = "failed" -> 10 [] verdict = "inconclusive" -> 15
    [] verdict = "unsupported" -> 18 [] OTHER -> 19]

\* The provider goes on by itself; somebody else may cancel the matrix.
MatrixEnds ==
  /\ exit = Running /\ <<"matrix", "running">> \in facts /\ cmd.action # "cancel"
  /\ \E verdict \in Verdicts : facts' = (facts \ {<<"matrix", "running">>}) \cup {<<"matrix", verdict>>}
  /\ UNCHANGED <<cmd, command, signal>>

\* classify: what the end of gcloud stands for, as a problem or none.
Classify(end) ==
  IF end.timedOut THEN {"child"}
  ELSE IF end.aborted THEN {"interrupted"}
  ELSE IF end.authText THEN {"environment"}
  ELSE CASE end.code = 0 -> {} [] end.code = 18 -> {"input"} [] end.code = 19 -> {"interrupted"} [] OTHER -> {"child"}

\* How gcloud may end: with the code of the matrix, of its own failure, or killed by the
\* runner, for the timer or for the signal, while the matrix goes on.
Endings ==
  {end \in [timedOut : BOOLEAN, aborted : {signal}, authText : {cmd.authText}, code : {0, 1, 10, 15, 18, 19}] :
     /\ end.timedOut => "fail" \in Faults
     /\ end.code = 1 => "fail" \in Faults \/ end.timedOut \/ end.aborted
     /\ end.code # 1 => \E verdict \in Verdicts : <<"matrix", verdict>> \in facts /\ end.code = CodeOf[verdict]}

ObserveMatrix ==
  \/ /\ Awaiting("run") /\ facts' = facts \cup {<<"matrix", "running">>}
     /\ GoTo("observe") /\ UNCHANGED <<cmd, signal, cut, mem>>
  \/ /\ at \in {"run", "observe"} /\ exit = Running /\ UNCHANGED <<cmd, signal, facts>>
     /\ \E end \in Endings :
          /\ cut' = end.aborted /\ GoTo("temp")
          /\ Keep([outcome |-> Classify(end),
                   collection |-> IF ~cmd.bucket THEN "not-configured"
                                  ELSE IF end.timedOut \/ end.aborted THEN "remote-running" ELSE "none"])

-----------------------------------------------------------------------------
(* Its results are collected *)

Eligible(i) == cmd.objects[i].native /\ cmd.objects[i].size =< ProviderFileSize

\* The files that fit, in the order of the listing.
SelectFiles ==
  FoldLeft(LAMBDA chosen, i :
             IF ~Eligible(i) \/ Len(chosen.files) >= ProviderFileLimit \/ chosen.size + cmd.objects[i].size > ProviderTotalSize
             THEN chosen
             ELSE [files |-> Append(chosen.files, i), size |-> chosen.size + cmd.objects[i].size],
           [files |-> <<>>, size |-> 0], [i \in DOMAIN cmd.objects |-> i]).files

\* The file is here, with the size the listing has for it.
Arrived(r, i) == r = "ok" /\ <<"provider", i>> \in facts'

\* collectProviderEvidence: what cannot be had is a warning, unless it throws.
CollectProviderEvidence ==
  \/ /\ Awaiting("list") /\ UNCHANGED <<cmd, signal, facts>>
     /\ \E r \in Ends, readable \in BOOLEAN :
          /\ SettlesAlone(r)
          /\ IF r = "ok" /\ readable THEN GoTo("provider") /\ Keep([left |-> SelectFiles])
             ELSE GoTo("texts") /\ Keep([collection |-> "unavailable"])
  \/ FileCall("provider", facts, "copy")
  \/ /\ Awaiting("copy") /\ mem.left # <<>> /\ UNCHANGED <<cmd, signal>>
     /\ \E r \in Ends :
          /\ SettlesAlone(r) /\ Effect(r, facts \cup {<<"provider", Head(mem.left)>>})
          /\ IF Arrived(r, Head(mem.left)) THEN GoTo("chmod") /\ UNCHANGED mem
             ELSE GoTo("texts") /\ Keep([collection |-> "unavailable"])
  \/ Decide("chmod", \/ GoTo("copy") /\ Keep([left |-> Tail(mem.left)])
                     \/ "fail" \in Faults /\ GoTo("undo") /\ UNCHANGED mem)
  \/ Decide("copy", mem.left = <<>> /\ GoTo("manifest") /\ Keep([collection |-> "complete"]))
  \/ FileCall("manifest", facts, "texts")

-----------------------------------------------------------------------------
(* The evidence of a run, the same for both *)

\* retainEvidence: a directory is filled under another name and then renamed.
RetainEvidence ==
  \/ FileCall("temp", facts \cup {Temp}, IF mem.collection = "none" THEN "list" ELSE "texts")
  \/ FileCall("texts", facts, "rename")
  \/ FileCall("rename", (facts \ {Temp}) \cup {Ours}, "retained")
  \/ Decide("retained", Finish(mem.outcome) /\ UNCHANGED mem)

\* What throws takes the directory with it, and the outcome: the program ends as for
\* any error that it did not expect (runCli).
RetainUndone ==
  /\ Awaiting("undo") /\ facts' = {f \in facts : f # Temp /\ f[1] # "provider"}
  /\ at' = "ended" /\ exit' = "internal" /\ UNCHANGED <<cmd, signal, mem, problems, cut>>

Firebase ==
  /\ cmd.name = "test" /\ cmd.kind = "firebase"
  /\ \/ FirebaseInput \/ CancelMatrix \/ ReadCatalog \/ MatrixEnds \/ ObserveMatrix
     \/ CollectProviderEvidence \/ RetainEvidence \/ RetainUndone

-----------------------------------------------------------------------------
(* A task of Gradle *)

\* The wrapper, and the task that was asked for.
GradleInput ==
  Decide("input", UNCHANGED mem /\
    IF ~cmd.wrapper THEN Finish({"environment"})
    ELSE IF cmd.task = None THEN GoTo("discover")
    ELSE IF cmd.task = "odd" THEN Finish({"input"}) ELSE IF cmd.dryRun THEN Finish({}) ELSE GoTo("preflight"))

\* The tasks that there are; or whether there is the one, and it is of managed devices.
GradleAsked ==
  \/ Read("discover", "child", Finish({}) /\ UNCHANGED mem)
  \/ Read("preflight", "input", UNCHANGED mem /\ IF cmd.task = "managed" THEN GoTo("execute") ELSE Finish({"input"}))

\* Gradle's tests write their reports, which outlive it.
GradleReports ==
  /\ Awaiting("execute") /\ \E verdict \in {"passed", "failed"} : facts' = facts \cup {<<"report", "fresh", verdict>>}
  /\ UNCHANGED <<cmd, command, signal>>

\* The task ends; a timer that ends it is a failure of the same exit code.
GradleExecuted ==
  /\ Awaiting("execute") /\ UNCHANGED <<cmd, signal, facts>>
  /\ \E r \in Ends : Settles(r) /\ GoTo("collect") /\
       Keep([outcome |-> IF r = "ok" THEN {} ELSE {ProblemOf(r, "child")}])

\* The reports with these files: the fresh ones and, if there is none of a task that
\* passed, those of an earlier run.  Beyond the limits, or unreadable, they are not seen.
ReportsSeen(unseen) ==
  LET seen(age) == {f \in facts \ unseen : f[1] = "report" /\ f[2] = age}
  IN  IF seen("fresh") = {} /\ mem.outcome = {} THEN seen("stale") ELSE seen("fresh")

\* Mutant: Gradle's exit code is all that counts.
ExitCodeSays(reports) == mem.outcome

\* A test that failed in this run goes over whatever the task itself came to.
GradleOutcome(reports) == IF <<"report", "fresh", "failed">> \in reports THEN {"child"} ELSE mem.outcome

GradleCollected ==
  Decide("collect", \E unseen \in SUBSET (IF "fail" \in Faults THEN facts ELSE {}) :
    LET reports == ReportsSeen(unseen)
    IN  GoTo("temp") /\ Keep([reports |-> reports, outcome |-> GradleOutcome(reports), collection |-> "native"]))

Gradle ==
  /\ cmd.name = "test" /\ cmd.kind = "gradle"
  /\ \/ GradleInput \/ GradleAsked \/ GradleReports \/ GradleExecuted \/ GradleCollected
     \/ RetainEvidence \/ RetainUndone

\* A new matrix has no results yet, and those it has are of some size each.
TestInit ==
  /\ cmd.name = "test" /\ cmd.kind \in {"firebase", "gradle"}
  /\ cmd.objects \in Seq([native : BOOLEAN, size : Nat])
  /\ \A i \in DOMAIN cmd.objects : <<"provider", i>> \notin facts
  /\ CommandInit("input", TestMemory)

\* Any command whose result is a configuration, a file or a verdict.
ResultsInit ==
  /\ {Temp, Remote, <<"ui-lock", "mine">>} \cap facts = {}
  /\ ConfigInit \/ InitConfigInit \/ TestInit
ResultsSpec == ResultsInit /\ [][Config \/ InitConfig \/ Firebase \/ Gradle \/ Signal]_vars

-----------------------------------------------------------------------------
(* Properties *)

\* A matrix that is reported as passed has passed, its evidence is in place, and what
\* is called complete has every native file that fits the limits, in full.
FirebaseDone ==
  cmd.kind = "firebase" /\ cmd.action \in {"instrumentation", "robo"} =>
    LET here == {i \in DOMAIN cmd.objects : <<"provider", i>> \in facts}
        size == SumFunctionOnSet([i \in DOMAIN cmd.objects |-> cmd.objects[i].size], here)
    IN  /\ {<<"matrix", "passed">>, <<"matrix", "flaky">>} \cap facts # {} /\ Permitted /\ Ours \in facts
        /\ Cardinality(here) =< ProviderFileLimit /\ size =< ProviderTotalSize
        /\ mem.collection = "complete" =>
             \A i \in {j \in DOMAIN cmd.objects : Eligible(j)} \ here :
               Cardinality(here) = ProviderFileLimit \/ size + cmd.objects[i].size > ProviderTotalSize

\* A task that is reported as passed has no report of this run that says otherwise.
GradleDone ==
  cmd.kind = "gradle" /\ cmd.task # None => Ours \in facts /\ <<"report", "fresh", "failed">> \notin mem.reports

\* Only the action cancel ends a matrix, whatever becomes of its observation
\* (docs/firebase-test-lab.md, "Outcomes and cancellation"); and none is submitted for
\* a device that the policy does not permit.
TestAsked ==
  /\ <<"matrix", "running">> \in facts \ facts' => cmd.action = "cancel"
  /\ <<"matrix", "running">> \in facts' \ facts => Permitted /\ cmd.artifacts

\* The configuration that is shown is the one its sources say, with the source that decided;
\* init has written its file; a test that passed was permitted and ran, and its results are
\* here within the limits.
ResultIsVerified ==
  exit = "0" =>
    /\ ConfigDone /\ InitDone
    /\ cmd.name = "test" => cmd.dryRun \/ (FirebaseDone /\ GradleDone)

\* What the program lets through: capture and the bundle have no dry run (arguments.ts),
\* and a reference is given to a tap or a long press only (UiActionRequest).  A target is
\* chosen among what adb lists.
Askable ==
  /\ cmd.name \in {"capture", "bundle"} => ~cmd.dryRun
  /\ cmd.name = "ui" /\ cmd.by = "ref" => cmd.action \in {"tap", "long-press"}
  /\ cmd.name = "ports" => Inventory(cmd.devices) /\ cmd.select.rememberedOnly \in BOOLEAN

\* All facts but those that last no longer than a look at the screen.
Lasting(fs) == {f \in fs : f[1] # "ui-lock"}

ChangeWasAsked ==
  /\ ~cmd.dryRun
  /\ cmd.name = "init" => InitAsked
  /\ cmd.name = "ui" => UiAsked
  /\ cmd.name = "capture" => EvidenceAsked
  /\ cmd.name = "test" => TestAsked
  /\ cmd.name \notin {"ui", "capture", "bundle", "init"} => problems = {}
  /\ cmd.name = "ports" => ChoiceIsSafe(cmd.devices, mem.target, cmd.select)
  /\ cmd.name = "app" => AppAsked

\* Every step with which a command changes the device or the host is one that was asked for.
\* What the device does by itself leaves the command where it is.
OnlyWhatWasAsked == [][Lasting(facts') # Lasting(facts) /\ command' # command => ChangeWasAsked]_vars
=============================================================================
