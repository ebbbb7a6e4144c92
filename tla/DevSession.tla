----------------------------- MODULE DevSession -----------------------------
(***************************************************************************)
(* One development session (runDev, src/app/commands.ts): prepare the      *)
(* target, the ports and the child, gate on readiness, then wait for the   *)
(* first of child, watcher, verifier, user and signal, and tear everything *)
(* down.  Each step is the code between two awaits.  The session composes  *)
(* the watcher (SessionWatcher), whose events drive the session's own      *)
(* state machine, with a child and a verifier process that run on their    *)
(* own and with the caller's abort signal.                                 *)
(***************************************************************************)
EXTENDS Integers, Sequences, SessionMachine

CONSTANTS
  Options,    \* the sessions considered: a set of OptionRecords
  Failures,   \* what may go wrong: a subset of FailureKinds
  Part, Enabled, MaxAttempts, InitialDelay, MaxDelay, TotalTimeout, MaxChecks

\* expo: the preset launches the app itself; metro: an existing Metro may be
\* attached; verify: `run`, with a verification command; controls: the live
\* controls of an interactive Expo session.
OptionRecords == [expo : BOOLEAN, metro : BOOLEAN, verify : BOOLEAN,
                  controls : BOOLEAN, watch : BOOLEAN, cleanupPorts : BOOLEAN]
FailureKinds == {"adb", "hook", "readiness", "launch", "bridge", "cleanup"}

ASSUME OptionsAssumption ==
  /\ Options \subseteq OptionRecords
  /\ \A o \in Options : /\ ~(o.verify /\ o.controls)
                        /\ (o.controls => o.expo) /\ (o.expo => o.metro)
ASSUME FailuresAssumption == Failures \subseteq FailureKinds

VARIABLES
  opts,       \* the options of this session
  pc,         \* the await runDev stands at
  session,    \* the session's state machine
  reachedReady,
  signal,     \* the caller's AbortSignal
  problems,   \* kinds of the error problems recorded
  ports,      \* the session's reverse mappings
  attached,   \* an external Metro server is used in place of a child
  proc,       \* the child and the verifier: where each stands, its abort signal
  readyHooksSucceeded,
  firstCompletion,
  status, exitCode,
  faults, stop, wpc, machine, attempt, elapsed, seen, summary, emitted

watchVars == <<faults, stop, wpc, machine, attempt, elapsed, seen, summary, emitted>>
outcome == <<status, exitCode>>
vars == <<opts, pc, session, reachedReady, signal, problems, ports, attached, proc,
          readyHooksSucceeded, firstCompletion, outcome, watchVars>>

Watch == INSTANCE SessionWatcher

Procs == {"child", "verifier"}
Settled == {"ok", "failed", "aborted"}
NotStarted == [at |-> "none", abort |-> FALSE]
Pcs == {"discover", "list", "earlyHooks", "prepare", "probe", "portsHook",
        "readiness", "launch", "startup", "readyHook", "race", "awaitWatch",
        "awaitVerifier", "awaitChild", "exitHook", "cleanup", "abandon", "finally", "ended"}
Problems == {"Interrupted", "Adb", "Hook", "Readiness", "Conflict", "Bridge", "Launch",
             "ChildFailed", "RecoveryFailed", "VerificationFailed", "CleanupFailed"}
Causes == {"none", "child", "watch-failed", "verification", "controls-stop", "signal"}

TypeOK ==
  /\ opts \in Options /\ pc \in Pcs /\ session \in SessionState
  /\ reachedReady \in BOOLEAN /\ signal \in BOOLEAN
  /\ problems \in SUBSET Problems
  /\ ports \in {"none", "reused", "owned", "removed"} /\ attached \in BOOLEAN
  /\ proc \in [Procs -> [at : {"none", "running"} \cup Settled, abort : BOOLEAN]]
  /\ readyHooksSucceeded \in BOOLEAN /\ firstCompletion \in Causes
  /\ status \in {"none", "completed", "interrupted", "failed"}
  /\ exitCode \in {"none", "0", "130", "error", "child", "verifier"}
  /\ Watch!TypeOK

Init ==
  /\ opts \in Options /\ pc = "discover" /\ session = "acquiring-target"
  /\ reachedReady = FALSE /\ signal = FALSE /\ problems = {} /\ ports = "none"
  /\ attached = FALSE /\ proc = [p \in Procs |-> NotStarted]
  /\ readyHooksSucceeded = FALSE /\ firstCompletion = "none"
  /\ status = "none" /\ exitCode = "none"
  /\ faults = {} /\ stop = FALSE /\ Watch!WInit

-----------------------------------------------------------------------------
(* Problems, hooks and the end of the session *)

Failing(kind) == kind \in Failures
Report(kinds) == problems' = problems \cup kinds

\* What a failing call reports: once the signal is there it may be the reason.
CallFailure(kind) == IF signal THEN {"Interrupted", kind} ELSE {kind}

\* transition(): the step is taken if the machine allows it.
Enter(state) == session' = TransitionIfAllowed(session, state)

\* complete(): the session is recorded by the problems reported so far.
Complete(reported) ==
  LET failed == reported \ {"Interrupted"} # {}
      stopping == IF failed THEN TransitionIfAllowed(session, "failed") ELSE session
  IN  /\ pc' = "ended" /\ problems' = reported
      /\ session' = TransitionIfAllowed(TransitionIfAllowed(stopping, "stopping"), "ended")
      /\ status' = IF "Interrupted" \in reported THEN "interrupted"
                   ELSE IF failed THEN "failed" ELSE "completed"

\* Mutant: an interruption decides only when nothing else was reported.
ExitOfAlone(reported) == IF reported = {} THEN "0"
                         ELSE IF reported = {"Interrupted"} THEN "130" ELSE "error"

\* exitCodeForProblems: any interruption decides.
ExitOf(reported) == IF reported = {} THEN "0"
                    ELSE IF "Interrupted" \in reported THEN "130" ELSE "error"

\* The exit code of the child reported as failed, then that of an unsuccessful
\* verifier, replaces it, if the process has one that is not 0.
ExitCodes(reported) ==
  {ExitOf(reported)}
    \cup (IF "ChildFailed" \in reported THEN {"child"} ELSE {})
    \cup (IF proc["verifier"].at \in {"failed", "aborted"} THEN {"verifier"} ELSE {})

\* A hook run succeeds, fails (the phase fails), or is a tolerated one that the
\* signal aborts: that records the interruption and lets the phase pass.
HookPasses == UNCHANGED problems
HookTolerated == Failing("hook") /\ signal /\ Report({"Interrupted"})
HookFails == Failing("hook") /\ \E cause \in CallFailure("Hook") : Report({cause})

Untouched == UNCHANGED <<opts, signal>>
NoOutcome == UNCHANGED outcome
NoGate == UNCHANGED <<reachedReady, readyHooksSucceeded, firstCompletion>>

Go(from, to) == pc = from /\ pc' = to

-----------------------------------------------------------------------------
(* Preparation *)

\* Every step up to the gate leaves the watcher alone.
Prepare == Untouched /\ NoGate /\ UNCHANGED watchVars

\* Discovery, inspection, selection and the project definition.
Discover ==
  /\ Go("discover", "list") /\ Enter("preparing-ports")
  /\ Prepare /\ NoOutcome /\ UNCHANGED <<problems, ports, attached, proc>>

\* A failure before the hooks ends the session at once; a mapping of another
\* host at a requested device port is a conflict.
GiveUp ==
  /\ pc \in {"discover", "list"} /\ Failing("adb")
  /\ \/ \E cause \in CallFailure("Adb") : Complete(problems \cup {cause})
     \/ pc = "list" /\ Complete(problems \cup {"Conflict"})
  /\ exitCode' = ExitOf(problems')
  /\ Prepare /\ UNCHANGED <<ports, attached, proc>>

ListPorts ==
  /\ Go("list", "earlyHooks")
  /\ Prepare /\ NoOutcome /\ UNCHANGED <<session, problems, ports, attached, proc>>

\* beforeDev and onTargetReady: no cleanup is due when they fail.
EarlyHooks ==
  /\ pc = "earlyHooks"
  /\ \/ pc' = "prepare" /\ (HookPasses \/ HookTolerated)
     \/ pc' = "finally" /\ HookFails
  /\ Prepare /\ NoOutcome /\ UNCHANGED <<session, ports, attached, proc>>

\* The pending mappings are added and the list verified; on failure some may
\* have been added.  Problems so far, even an interruption, abandon the session.
PreparePorts ==
  /\ pc = "prepare" /\ ports' \in {"reused", "owned"}
  /\ \/ UNCHANGED problems
     \/ Failing("adb") /\ \E cause \in CallFailure("Adb") : Report({cause})
  /\ pc' = IF problems' = {} THEN "probe" ELSE "abandon"
  /\ Prepare /\ NoOutcome /\ UNCHANGED <<session, attached, proc>>

\* probeMetroService: attach to a verified server, stop at a foreign one.
ProbeMetro ==
  /\ pc = "probe"
  /\ \/ /\ attached' \in {FALSE, opts.metro}
        /\ Enter(IF attached' THEN "attaching-child" ELSE "starting-child")
        /\ pc' = "portsHook" /\ UNCHANGED problems
     \/ /\ opts.metro
        /\ \E cause \in CallFailure("Conflict") : Report({cause})
        /\ pc' = "abandon" /\ UNCHANGED <<session, attached>>
  /\ Prepare /\ NoOutcome /\ UNCHANGED <<ports, proc>>

\* After onPortsReady the child starts, unless a server was attached; a child
\* started after the signal is aborted from the start.
PortsHook ==
  /\ pc = "portsHook"
  /\ \/ /\ HookPasses \/ HookTolerated
        /\ proc' = IF attached THEN proc
                   ELSE [proc EXCEPT !["child"] = [at |-> "running", abort |-> signal]]
        /\ pc' = "readiness"
     \/ HookFails /\ pc' = "abandon" /\ UNCHANGED proc
  /\ Prepare /\ NoOutcome /\ UNCHANGED <<session, ports, attached>>

-----------------------------------------------------------------------------
(* The gate *)

Child == proc["child"]

\* A child that failed by itself before the gate is reported once.
ChildFailure == IF Child.at = "failed" THEN {"ChildFailed"} ELSE {}

\* The gate is closed: the child is aborted, the watcher never starts.
CloseGate(kinds) ==
  /\ Report(kinds \cup ChildFailure)
  /\ proc' = [proc EXCEPT !["child"].abort = TRUE]
  /\ stop' = TRUE
  /\ pc' = "race"
  /\ UNCHANGED <<session, reachedReady, readyHooksSucceeded, faults, wpc, machine, attempt,
                 elapsed, seen, summary, emitted>>

NoWatch == UNCHANGED <<session, reachedReady, readyHooksSucceeded, proc, watchVars>>

\* waitForReadiness; a child that exits first aborts it.
Readiness ==
  /\ pc = "readiness"
  /\ \/ pc' = "launch" /\ UNCHANGED problems /\ NoWatch
     \/ /\ Failing("readiness")
        /\ CloseGate(IF signal THEN {} ELSE {"Readiness"})
  /\ Untouched /\ NoOutcome /\ UNCHANGED <<ports, attached, firstCompletion>>

\* Loopback bridges, then the Expo launch.  Only an Expo session looks at the
\* problem a failed bridge has reported.
Launch ==
  /\ pc = "launch"
  /\ \/ pc' = "startup" /\ UNCHANGED problems /\ NoWatch
     \/ Failing("bridge") /\ opts.expo /\ CloseGate({"Bridge"})
     \/ Failing("bridge") /\ ~opts.expo /\ Report({"Bridge"}) /\ pc' = "startup" /\ NoWatch
     \/ Failing("launch") /\ opts.expo /\ CloseGate({"Launch"})
     \/ signal /\ opts.expo /\ (CloseGate({}) \/ CloseGate({"Interrupted"}))
  /\ Untouched /\ NoOutcome /\ UNCHANGED <<ports, attached, firstCompletion>>

\* observeChildStartup waits a moment for an early exit of the child.
Startup ==
  /\ pc = "startup"
  /\ IF Child.at \in {"failed", "aborted"} THEN CloseGate({})
     ELSE pc' = "readyHook" /\ UNCHANGED problems /\ NoWatch
  /\ Untouched /\ NoOutcome /\ UNCHANGED <<ports, attached, firstCompletion>>

\* Mutant: the child is not looked at again after the onReady hook.
ReadyHookUnchecked ==
  /\ pc = "readyHook" /\ (HookPasses \/ HookTolerated)
  /\ readyHooksSucceeded' = TRUE /\ reachedReady' = TRUE /\ Enter("ready")
  /\ proc' = [proc EXCEPT !["verifier"] =
                IF opts.verify THEN [at |-> "running", abort |-> signal] ELSE @]
  /\ IF opts.watch THEN Watch!Start ELSE UNCHANGED watchVars
  /\ pc' = "race"
  /\ Untouched /\ NoOutcome /\ UNCHANGED <<ports, attached, firstCompletion>>

\* onReady passed and the child is still well: the session is ready, the watcher
\* and the verifier start.
ReadyHook ==
  /\ pc = "readyHook" /\ Child.at \notin {"failed", "aborted"}
  /\ HookPasses \/ HookTolerated
  /\ readyHooksSucceeded' = TRUE /\ reachedReady' = TRUE /\ Enter("ready")
  /\ proc' = [proc EXCEPT !["verifier"] =
                IF opts.verify THEN [at |-> "running", abort |-> signal] ELSE @]
  /\ IF opts.watch THEN Watch!Start ELSE UNCHANGED watchVars
  /\ pc' = "race"
  /\ Untouched /\ NoOutcome /\ UNCHANGED <<ports, attached, firstCompletion>>

ReadyHookFails ==
  /\ pc = "readyHook"
  /\ \/ Failing("hook") /\ \E cause \in CallFailure("Hook") : CloseGate({cause})
     \/ Child.at \in {"failed", "aborted"} /\ CloseGate({})
     \/ /\ Child.at \in {"failed", "aborted"} /\ Failing("hook") /\ signal
        /\ CloseGate({"Interrupted"})
  /\ Untouched /\ NoOutcome /\ UNCHANGED <<ports, attached, firstCompletion>>

-----------------------------------------------------------------------------
(* Waiting and tearing down *)

Verifier == proc["verifier"]

\* What Promise.race may have resolved with.
Resolved ==
  {c \in Causes \ {"none"} :
     CASE c = "child" -> Child.at \in Settled
       [] c = "watch-failed" -> wpc = "done" /\ summary.failed
       [] c = "verification" -> Verifier.at \in Settled
       [] c = "controls-stop" -> opts.controls /\ readyHooksSucceeded /\ ~attached
       [] c = "signal" -> signal}

TearDown == Untouched /\ UNCHANGED <<reachedReady, readyHooksSucceeded, attached>>
WatchIdle == UNCHANGED <<faults, wpc, machine, attempt, elapsed, seen, summary, emitted>>

\* The first completion stops the watcher.
Race ==
  /\ Go("race", "awaitWatch")
  /\ firstCompletion' \in Resolved
  /\ stop' = TRUE /\ WatchIdle
  /\ TearDown /\ NoOutcome /\ UNCHANGED <<session, problems, ports, proc>>

AbortBoth == [p \in Procs |-> [proc[p] EXCEPT !.abort = TRUE]]
AbortOne(p) == [proc EXCEPT ![p].abort = TRUE]

\* watchPromise is awaited before the child and the verifier are aborted.
AwaitWatch ==
  /\ Go("awaitWatch", "awaitVerifier") /\ wpc \in {"off", "done"}
  /\ proc' = CASE firstCompletion = "child" -> AbortOne("verifier")
               [] firstCompletion = "verification" -> AbortOne("child")
               [] OTHER -> AbortBoth
  /\ TearDown /\ NoOutcome
  /\ UNCHANGED <<session, problems, ports, firstCompletion, watchVars>>

\* A finished verification ends the child whatever came first.
AwaitVerifier ==
  /\ Go("awaitVerifier", "awaitChild") /\ Verifier.at # "running"
  /\ proc' = IF Verifier.at = "none" THEN proc ELSE AbortOne("child")
  /\ TearDown /\ NoOutcome
  /\ UNCHANGED <<session, problems, ports, firstCompletion, watchVars>>

\* Mutant: the child's exit is not awaited.
AwaitChildNot ==
  /\ pc = "awaitChild"
  /\ pc' = IF Child.at = "none" THEN "cleanup" ELSE "exitHook"
  /\ TearDown /\ NoOutcome
  /\ UNCHANGED <<session, problems, ports, proc, firstCompletion, watchVars>>

\* The child's exit, then the log stream, are awaited.
AwaitChild ==
  /\ pc = "awaitChild" /\ Child.at # "running"
  /\ pc' = IF Child.at = "none" THEN "cleanup" ELSE "exitHook"
  /\ TearDown /\ NoOutcome
  /\ UNCHANGED <<session, problems, ports, proc, firstCompletion, watchVars>>

\* onChildExit does not listen to the signal and cannot stop the workflow.
ExitHook ==
  /\ Go("exitHook", "cleanup")
  /\ \/ HookPasses
     \/ Failing("hook") /\ Report({"Hook"})
  /\ TearDown /\ NoOutcome
  /\ UNCHANGED <<session, ports, proc, firstCompletion, watchVars>>

\* cleanup(): the mappings made by the session are removed and the list checked.
RemovePorts(cleaned) ==
  IF ports = "owned" /\ opts.cleanupPorts
  THEN \/ ports' = "removed" /\ cleaned = {}
       \/ Failing("cleanup") /\ UNCHANGED ports /\ cleaned = {"CleanupFailed"}
  ELSE UNCHANGED ports /\ cleaned = {}

\* Mutant: a verifier that was aborted is not a failure.
ClosingProblemsLenient(before) ==
  LET recovery == IF summary.failed THEN {"RecoveryFailed"} ELSE {}
      stopped == signal \/ firstCompletion = "controls-stop"
      child == IF stopped /\ "Interrupted" \notin before THEN {"Interrupted"}
               ELSE IF Child.at = "failed" /\ ~summary.failed THEN {"ChildFailed"} ELSE {}
      verification == IF Verifier.at = "failed" /\ ~signal
                      THEN {"VerificationFailed"} ELSE {}
  IN  before \cup recovery \cup child \cup verification

\* The problems reported once everything is down.
ClosingProblems(before) ==
  LET recovery == IF summary.failed THEN {"RecoveryFailed"} ELSE {}
      stopped == signal \/ firstCompletion = "controls-stop"
      child == IF stopped /\ "Interrupted" \notin before THEN {"Interrupted"}
               ELSE IF Child.at = "failed" /\ ~summary.failed THEN {"ChildFailed"} ELSE {}
      verification == IF Verifier.at \in {"failed", "aborted"} /\ ~signal
                      THEN {"VerificationFailed"} ELSE {}
  IN  before \cup recovery \cup child \cup verification

Cleanup ==
  /\ Go("cleanup", "finally")
  /\ \E cleaned \in SUBSET {"CleanupFailed"} :
       RemovePorts(cleaned) /\ problems' = ClosingProblems(problems \cup cleaned)
  /\ TearDown /\ NoOutcome
  /\ UNCHANGED <<session, proc, firstCompletion, watchVars>>

\* The early exits after the ports were prepared.
Abandon ==
  /\ Go("abandon", "finally")
  /\ \E cleaned \in SUBSET {"CleanupFailed"} : RemovePorts(cleaned) /\ Report(cleaned)
  /\ TearDown /\ NoOutcome
  /\ UNCHANGED <<session, proc, firstCompletion, watchVars>>

\* The finally hooks, then complete() and the exit code.
Finally ==
  /\ pc = "finally"
  /\ \/ Complete(problems)
     \/ Failing("hook") /\ Complete(problems \cup {"Hook"})
  /\ exitCode' \in ExitCodes(problems')
  /\ TearDown /\ UNCHANGED <<ports, proc, firstCompletion, watchVars>>

Main ==
  \/ Discover \/ GiveUp \/ ListPorts \/ EarlyHooks \/ PreparePorts \/ ProbeMetro \/ PortsHook
  \/ Readiness \/ Launch \/ Startup \/ ReadyHook \/ ReadyHookFails
  \/ Race \/ AwaitWatch \/ AwaitVerifier \/ AwaitChild \/ ExitHook
  \/ Cleanup \/ Abandon \/ Finally

-----------------------------------------------------------------------------
(* What runs beside runDev *)

Beside == UNCHANGED <<opts, pc, readyHooksSucceeded, firstCompletion, attached, outcome>>

\* An owned process ends by itself, or because it was aborted.
ProcessEnds(p) ==
  /\ proc[p].at = "running"
  /\ \E result \in IF proc[p].abort THEN {"aborted"} ELSE {"ok", "failed"} :
       proc' = [proc EXCEPT ![p].at = result]
  /\ Beside /\ UNCHANGED <<session, reachedReady, signal, problems, ports, watchVars>>

\* The caller's signal reaches the child, the watcher and the verifier at once.
Interrupt ==
  /\ ~signal /\ signal' = TRUE /\ pc # "ended"
  /\ proc' = AbortBoth /\ stop' = TRUE
  /\ Beside /\ WatchIdle /\ UNCHANGED <<session, reachedReady, problems, ports>>

\* onEvent: the state the session enters for an event of the watcher.
StateFor(event) ==
  CASE event \in {"session.degraded", "recovery.failed"} -> {"degraded"}
    [] event = "recovery.started" -> {"recovering"}
    [] event = "recovery.completed" -> {"ready"}
    [] event = "watch.failed" -> {"failed"}
    [] OTHER -> {}

\* Mutant: a completed recovery is not passed on to the session.
FollowForgetful(state, event) ==
  IF StateFor(event) = {} \/ event = "recovery.completed" THEN state
  ELSE TransitionIfAllowed(state, CHOOSE s \in StateFor(event) : TRUE)

Follow(state, event) ==
  IF StateFor(event) = {} THEN state
  ELSE TransitionIfAllowed(state, CHOOSE s \in StateFor(event) : TRUE)

\* The session after the events of a step, one by one: recovery may be reported and
\* begun again in the same step.
Following(state, events) ==
  LET after[n \in 0 .. Len(events)] ==
        IF n = 0 THEN state ELSE Follow(after[n - 1], events[n])
  IN  after[Len(events)]

\* A step of the watcher; its recover() restores missing mappings, and owns them.
WatchStep ==
  /\ Watch!Progress \/ Watch!TimePasses
  /\ session' = Following(session, emitted')
  /\ ports' \in IF wpc = "recover" /\ wpc' # "recover" THEN {ports, "owned"} ELSE {ports}
  /\ Beside /\ UNCHANGED <<reachedReady, signal, problems, proc>>

\* Something changes while the watcher runs.
WorldChanges ==
  /\ wpc \in Watch!Running /\ Watch!WorldChanges
  /\ Beside /\ UNCHANGED <<session, reachedReady, signal, problems, ports, proc>>

Next ==
  \/ Main \/ WatchStep \/ WorldChanges \/ Interrupt
  \/ \E p \in Procs : ProcessEnds(p)

Spec == Init /\ [][Next]_vars

\* Every call of runDev has a timeout or is local, the watcher's awaits settle,
\* and an aborted process is killed.  A process that is not aborted need not end.
FairSpec ==
  /\ Spec
  /\ WF_vars(Main) /\ WF_vars(WatchStep)
  /\ \A p \in Procs : WF_vars(proc[p].abort /\ ProcessEnds(p))

-----------------------------------------------------------------------------
(* Properties *)

\* A session reported as completed was ready, was never given up, and neither its
\* child nor its verifier failed; a child that was aborted made way for a
\* verifier that passed.
HonestCompletion ==
  status = "completed" =>
    /\ reachedReady /\ ~summary.failed /\ exitCode = "0"
    /\ Child.at = "aborted" => Verifier.at = "ok"
    /\ Child.at # "failed" /\ (opts.verify => Verifier.at = "ok")

\* When the result is returned nothing of the session still runs, and the mappings
\* it made are removed unless they are meant to stay or their removal failed.
NothingLeftBehind ==
  status # "none" =>
    /\ \A p \in Procs : proc[p].at # "running"
    /\ wpc \in {"off", "done"}
    /\ ports = "owned" /\ opts.cleanupPorts => "CleanupFailed" \in problems

\* No event of the watcher is skipped by the session's machine: while the watcher
\* runs the two agree, and a watcher that gave up leaves a failed session.
SessionFollowsWatcher ==
  /\ wpc \in Watch!Running => session = machine
  /\ wpc = "done" /\ summary.failed => session \in {"failed", "ended"}

\* ready is emitted first only after every check and the launch succeeded, with
\* the owned command not already failing (docs/dev-sessions.md, "Health and
\* recovery").  Outside Expo the code lets a failed loopback bridge pass.
ReadyIsHonest ==
  [][session' = "ready" /\ ~reachedReady =>
       /\ problems' \subseteq {"Interrupted"} \cup (IF opts.expo THEN {} ELSE {"Bridge"})
       /\ Child.at # "failed"]_vars

\* An interrupted session exits with 130, unless its child failed or, as the code
\* has it, a verifier that did not pass says otherwise.
InterruptedExits130 ==
  /\ status # "none" /\ "Interrupted" \in problems
  /\ "ChildFailed" \notin problems /\ Verifier.at \notin {"failed", "aborted"}
  => exitCode = "130"

\* What the session reports is true: completed or not, and interrupted or not.
HonestOutcome == HonestCompletion /\ InterruptedExits130

\* Once a process of the session has ended, the watcher has given up, the caller
\* has aborted, or a session that owns its child did not become ready, the session
\* ends: every await of the teardown returns (the race of runDev and what follows).
SessionEnds ==
  (\/ signal \/ summary.failed
   \/ \E p \in Procs : proc[p].at \in Settled
   \/ pc = "race" /\ ~readyHooksSucceeded /\ ~attached) ~> pc = "ended"

----------------------------------------------------------------------------
\* For TLC: sessions that watch and clean up, and sessions that do neither; a watched
\* one may have a Metro to attach to (when it does not attach, Metro plays no part).
MixedOptions ==
  {o \in OptionRecords : /\ ~(o.verify /\ o.controls)
                         /\ (o.controls => o.expo) /\ (o.expo => o.metro)
                         /\ o.watch = o.cleanupPorts /\ (o.watch => o.metro)}
=============================================================================
