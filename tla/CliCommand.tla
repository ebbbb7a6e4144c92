----------------------------- MODULE CliCommand -----------------------------
(***************************************************************************)
(* What the commands of src/app and src/evidence have in common: a command *)
(* is a sequence of awaited calls of adb, of the device or of the file     *)
(* system.  A call ends well, fails, or is aborted by the caller's signal; *)
(* the command goes on to another call or ends with an exit code that is   *)
(* computed from the problems it has recorded.  The modules that extend    *)
(* this one give each command its calls; cmd says which of them runs.      *)
(***************************************************************************)
EXTENDS Naturals, FiniteSets, Sequences, Records

CONSTANTS Faults   \* what may go wrong: a subset of FaultKinds

\* fail: a call fails without effect; late: it takes effect and is reported as
\* failed; lie: it reports success without effect; signal: the caller interrupts.
FaultKinds == {"fail", "late", "lie", "signal"}
ASSUME FaultsAssumption == Faults \subseteq FaultKinds

VARIABLES
  cmd,       \* the command and its options; never changes
  at,        \* the call that is awaited
  mem,       \* what the command remembers from its earlier calls
  problems,  \* the exit categories of the error problems recorded so far
  exit,      \* the exit code of a command that has ended
  signal,    \* the caller's AbortSignal has been raised
  cut,       \* history: a call of the command was aborted
  facts      \* what holds of the device and of the host

command == <<at, mem, problems, exit, cut>>
vars == <<cmd, command, signal, facts>>

Running == "running"
Ends == {"ok", "failed", "aborted"}

\* The exit code stands for the first of these kinds of problem that was recorded,
\* and for adb if it was none of them.
FirstKind(kinds, ps) ==
  LET hits == {i \in DOMAIN kinds : kinds[i] \in ps}
  IN  IF ps = {} THEN "0" ELSE IF hits = {} THEN "adb" ELSE kinds[CHOOSE i \in hits : \A j \in hits : i =< j]

\* exitCodeForProblems
ExitOf(ps) == FirstKind(<<"interrupted", "input", "environment", "target", "child">>, ps)

\* The commands of src/app/app-commands.ts and of src/evidence have a function of
\* their own, which knows neither an interruption nor a child.
OwnExitCode == {"app", "open", "capture", "ui", "inspect-app", "inspect-failures"}
AppExitOf(ps) == FirstKind(<<"input", "environment", "target">>, ps)

-----------------------------------------------------------------------------
(* Calls *)

Awaiting(step) == exit = Running /\ at = step

\* How a call that was given the signal ends: with the signal raised it is aborted
\* whatever the process did (processSucceeded looks at aborted too).
Settles(r) ==
  /\ CASE r = "aborted" -> signal
       [] r = "failed" -> ~signal /\ "fail" \in Faults
       [] OTHER -> ~signal
  /\ cut' = (cut \/ r = "aborted")

\* The same for a call that is not given the signal, such as a clean-up.
SettlesAlone(r) == r \in (IF "fail" \in Faults THEN {"ok", "failed"} ELSE {"ok"}) /\ UNCHANGED cut

\* operationProblem: the problem a call that did not end well stands for.
ProblemOf(r, kind) == IF r = "aborted" THEN "interrupted" ELSE kind

\* The effect of a call on the device or the host, which an end other than ok
\* leaves open, and which the "lie" of a call that promises it leaves out.
Effect(r, new) ==
  facts' \in CASE r = "ok" -> {new} \cup (IF "lie" \in Faults THEN {facts} ELSE {})
               [] r = "failed" -> {facts} \cup (IF "late" \in Faults THEN {new} ELSE {})
               [] OTHER -> {facts, new}

\* An effect whose success can be relied on, because the call itself reports it.
HonestEffect(r, new) ==
  facts' \in CASE r = "ok" -> {new} [] r = "failed" -> {facts} \cup (IF "late" \in Faults THEN {new} ELSE {})
               [] OTHER -> {facts, new}

-----------------------------------------------------------------------------
(* How a command goes on *)

GoTo(step) == at' = step /\ UNCHANGED <<problems, exit>>

Finish(ps) ==
  /\ problems' = problems \cup ps /\ at' = "ended"
  /\ exit' = IF cmd.name \in OwnExitCode THEN AppExitOf(problems \cup ps) ELSE ExitOf(problems \cup ps)

Keep(fields) == mem' = [x \in DOMAIN mem |-> IF x \in DOMAIN fields THEN fields[x] ELSE mem[x]]

\* A call that only reads, after which the command goes on with Then, and whose
\* failure ends it with a problem of the given kind.
Read(step, kind, Then) ==
  /\ Awaiting(step) /\ UNCHANGED <<cmd, signal, facts>>
  /\ \E r \in Ends : Settles(r) /\ IF r = "ok" THEN Then
                                   ELSE Finish({ProblemOf(r, kind)}) /\ UNCHANGED mem

\* A decision between two calls, taken by the values at hand.
Decide(step, Then) == Awaiting(step) /\ Then /\ UNCHANGED <<cmd, signal, facts, cut>>

\* The caller interrupts a command that runs.
Signal ==
  /\ "signal" \in Faults /\ ~signal /\ exit = Running
  /\ signal' = TRUE /\ UNCHANGED <<cmd, command, facts>>

\* A command begins with its first decision or call; cmd and facts are chosen by
\* the module that knows the command.
CommandInit(first, locals) ==
  /\ at = first /\ mem = locals /\ problems = {} /\ exit = Running
  /\ signal = FALSE /\ cut = FALSE

-----------------------------------------------------------------------------
\* A command of which a call was aborted does not report success.  The calls of runLogs
\* before logcat itself do not tell an abort from a failure, the exit codes of
\* app-commands.ts have no value for it, the look that follows a removal may fail, and
\* a failed test of Gradle or a timer goes over it.
InterruptionIsNotSuccess ==
  exit # Running /\ cut =>
    \/ exit = "interrupted" \/ (exit # "0" /\ cmd.name \in OwnExitCode \cup {"logs", "test"})
    \/ cmd.name = "app" /\ cmd.action = "uninstall"
    \/ cmd.name \in {"inspect-app", "inspect-failures"}
=============================================================================
