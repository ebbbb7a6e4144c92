--------------------------- MODULE SessionWatcher ---------------------------
(***************************************************************************)
(* Health monitoring of a ready session (watchSession, src/session/        *)
(* watcher.ts, with the budget of recovery-policy.ts).  One process loops  *)
(* over sleep, observe and, when the session is unhealthy, a bounded       *)
(* series of delay, recover, verify.  The abort signal may arrive while    *)
(* any of those awaits is pending, and what was observed may have changed  *)
(* by the time recover() uses it.                                          *)
(***************************************************************************)
EXTENDS Integers, Sequences, SessionMachine

CONSTANTS
  Part,         \* what can be wrong: target, logs, service, ports missing or conflicting
  Enabled, MaxAttempts, InitialDelay, MaxDelay, TotalTimeout, \* RecoveryPolicy
  MaxChecks     \* bound: health checks of one session

ASSUME PolicyAssumption ==
  /\ Enabled \in BOOLEAN
  /\ MaxAttempts \in Nat \ {0} /\ InitialDelay \in Nat \ {0} /\ TotalTimeout \in Nat \ {0}
  /\ MaxDelay \in Nat /\ MaxDelay >= InitialDelay
ASSUME CheckBoundAssumption == MaxChecks \in Nat

VARIABLES
  faults,  \* the parts of the session that are wrong right now
  stop,    \* the abort signal of the watcher
  wpc,     \* where watchSession stands
  machine, \* the watcher's own state machine
  attempt, \* the recovery attempt of the running episode
  elapsed, \* time since the episode started, saturated at TotalTimeout
  seen,    \* the last SessionHealth, as the set of parts it found wrong
  summary, \* SessionWatchSummary
  emitted  \* the events of the latest step, in order

watch == <<wpc, machine, attempt, elapsed, seen, summary, emitted>>
vars == <<faults, stop, watch>>

Running == {"interval", "observe", "delay", "recover", "verify"}
Events == {"health.checked", "session.degraded", "recovery.started",
           "recovery.failed", "recovery.completed", "watch.failed"}
NoSummary == [checks |-> 0, degradations |-> 0, recoveryAttempts |-> 0,
              recoveries |-> 0, targetChanges |-> 0, failed |-> FALSE]
Summaries == [checks : Nat, degradations : Nat, recoveryAttempts : Nat,
              recoveries : Nat, targetChanges : Nat, failed : BOOLEAN]

TypeOK ==
  /\ faults \in SUBSET Part /\ stop \in BOOLEAN
  /\ wpc \in Running \cup {"off", "done"}
  /\ machine \in SessionState \cup {Thrown}
  /\ attempt \in Nat /\ elapsed \in 0 .. TotalTimeout
  /\ seen \in SUBSET Part /\ summary \in Summaries /\ emitted \in Seq(Events)

SessionHealthy(health) == health = {}

WInit ==
  /\ wpc = "off" /\ machine = "planning" /\ attempt = 0 /\ elapsed = 0
  /\ seen = {} /\ summary = NoSummary /\ emitted = <<>>

Init == faults = {} /\ stop \in BOOLEAN /\ WInit

-----------------------------------------------------------------------------
(* recovery-policy.ts *)

RecoveryDelay(n) ==
  LET exponent == IF n - 1 < 30 THEN n - 1 ELSE 30
      delay == InitialDelay * 2 ^ exponent
  IN  IF delay < MaxDelay THEN delay ELSE MaxDelay

\* Mutant: one attempt more than the budget.
AttemptAllowedOffByOne(n, time) ==
  Enabled /\ n >= 1 /\ n <= MaxAttempts + 1 /\ time < TotalTimeout

AttemptAllowed(n, time) ==
  Enabled /\ n >= 1 /\ n <= MaxAttempts /\ time < TotalTimeout

\* Only whether the deadline has passed matters: time saturates there.
Later(time, d) == IF time + d < TotalTimeout THEN time + d ELSE TotalTimeout

-----------------------------------------------------------------------------
(* watchSession *)

Emit(events) == emitted' = events

\* The caller starts the watcher on a session that is ready.
Start ==
  /\ wpc = "off"
  /\ machine' = Transition(Transition(Transition(Transition(machine,
                  "acquiring-target"), "preparing-ports"), "starting-child"), "ready")
  /\ wpc' = IF stop THEN "done" ELSE "interval"
  /\ Emit(<<>>)
  /\ UNCHANGED <<faults, stop, attempt, elapsed, seen, summary>>

Await(from, to) == wpc = from /\ ~stop /\ wpc' = to

\* Mutant: the stabilization delay does not listen to the signal.
StoppedExceptDelay ==
  /\ wpc \in Running \ {"recover", "delay"} /\ stop
  /\ wpc' = "done" /\ Emit(<<>>)
  /\ UNCHANGED <<faults, stop, machine, attempt, elapsed, seen, summary>>

\* Every await but recover() is followed by a check of the signal.
Stopped ==
  /\ wpc \in Running \ {"recover"} /\ stop
  /\ wpc' = "done" /\ Emit(<<>>)
  /\ UNCHANGED <<faults, stop, machine, attempt, elapsed, seen, summary>>

\* recover() counts its change of target before the signal is checked.
StoppedInRecovery(changed) ==
  /\ wpc = "recover" /\ stop
  /\ wpc' = "done" /\ Emit(<<>>)
  /\ summary' = [summary EXCEPT !.targetChanges = IF changed THEN @ + 1 ELSE @]
  /\ UNCHANGED <<faults, stop, machine, attempt, elapsed, seen>>

IntervalOver ==
  /\ summary.checks < MaxChecks
  /\ Await("interval", "observe") /\ Emit(<<>>)
  /\ UNCHANGED <<faults, stop, machine, attempt, elapsed, seen, summary>>

\* observe() throws: the watcher gives up, its own machine stays ready.
ObserveThrows ==
  /\ Await("observe", "done")
  /\ summary' = [summary EXCEPT !.failed = TRUE] /\ Emit(<<"watch.failed">>)
  /\ UNCHANGED <<faults, stop, machine, attempt, elapsed, seen>>

ObserveHealthy ==
  /\ Await("observe", "interval") /\ SessionHealthy(faults)
  /\ summary' = [summary EXCEPT !.checks = @ + 1] /\ seen' = faults
  /\ Emit(<<"health.checked">>)
  /\ UNCHANGED <<faults, stop, machine, attempt, elapsed>>

\* The head of the attempt loop: try once more, or give the session up.
\* counted: the summary so far; from: the machine; told: the events so far.
NextAttempt(n, time, counted, from, told) ==
  IF AttemptAllowed(n, time)
  THEN /\ wpc' = "delay" /\ machine' = Transition(from, "recovering")
       /\ attempt' = n
       /\ summary' = [counted EXCEPT !.recoveryAttempts = @ + 1]
       /\ Emit(Append(told, "recovery.started"))
  ELSE /\ wpc' = "done" /\ machine' = Transition(from, "failed")
       /\ summary' = [counted EXCEPT !.failed = TRUE]
       /\ Emit(Append(told, "watch.failed"))
       /\ UNCHANGED attempt

\* Mutant: the signal is not checked after observe().
ObserveUnhealthyUnchecked ==
  /\ wpc = "observe" /\ ~SessionHealthy(faults)
  /\ seen' = faults /\ elapsed' = 0
  /\ NextAttempt(1, 0,
       [summary EXCEPT !.checks = @ + 1, !.degradations = @ + 1],
       Transition(machine, "degraded"), <<"health.checked", "session.degraded">>)
  /\ UNCHANGED <<faults, stop>>

ObserveUnhealthy ==
  /\ wpc = "observe" /\ ~stop /\ ~SessionHealthy(faults)
  /\ seen' = faults /\ elapsed' = 0
  /\ NextAttempt(1, 0,
       [summary EXCEPT !.checks = @ + 1, !.degradations = @ + 1],
       Transition(machine, "degraded"), <<"health.checked", "session.degraded">>)
  /\ UNCHANGED <<faults, stop>>

DelayOver ==
  /\ Await("delay", "recover") /\ Emit(<<>>)
  /\ elapsed' = Later(elapsed, RecoveryDelay(attempt))
  /\ UNCHANGED <<faults, stop, machine, attempt, seen, summary>>

\* Mutant: recover() is believed, nothing is verified.
RecoveredUnverified(changed) ==
  /\ Await("recover", "interval")
  /\ machine' = Transition(machine, "ready")
  /\ summary' = [summary EXCEPT !.recoveries = @ + 1]
  /\ attempt' = 0 /\ elapsed' = 0 /\ Emit(<<"recovery.completed">>)
  /\ UNCHANGED <<faults, stop, seen>>

\* recover() returns, or throws and counts as no change of target.
Recovered(changed) ==
  /\ Await("recover", "verify") /\ Emit(<<>>)
  /\ summary' = [summary EXCEPT !.targetChanges = IF changed THEN @ + 1 ELSE @]
  /\ UNCHANGED <<faults, stop, machine, attempt, elapsed, seen>>

VerifyHealthy ==
  /\ Await("verify", "interval") /\ SessionHealthy(faults)
  /\ seen' = faults
  /\ machine' = Transition(machine, "ready")
  /\ summary' = [summary EXCEPT !.checks = @ + 1, !.recoveries = @ + 1]
  /\ attempt' = 0 /\ elapsed' = 0
  /\ Emit(<<"health.checked", "recovery.completed">>)
  /\ UNCHANGED <<faults, stop>>

\* Mutant: the next attempt starts without a return to degraded.
VerifyUnhealthyStays ==
  /\ wpc = "verify" /\ ~stop /\ ~SessionHealthy(faults)
  /\ seen' = faults
  /\ NextAttempt(attempt + 1, elapsed, [summary EXCEPT !.checks = @ + 1],
       machine, <<"health.checked", "recovery.failed">>)
  /\ UNCHANGED <<faults, stop, elapsed>>

\* Mutant: a failed verification is repeated until the session is healthy.
VerifyUnhealthyPolls ==
  /\ Await("verify", "verify") /\ ~SessionHealthy(faults)
  /\ seen' = faults /\ Emit(<<"recovery.failed">>)
  /\ UNCHANGED <<faults, stop, machine, attempt, elapsed, summary>>

VerifyUnhealthy ==
  /\ wpc = "verify" /\ ~stop /\ ~SessionHealthy(faults)
  /\ seen' = faults
  /\ NextAttempt(attempt + 1, elapsed, [summary EXCEPT !.checks = @ + 1],
       Transition(machine, "degraded"), <<"health.checked", "recovery.failed">>)
  /\ UNCHANGED <<faults, stop, elapsed>>

\* The verifying observe() throws: only this attempt has failed.
VerifyThrows ==
  /\ wpc = "verify" /\ ~stop
  /\ NextAttempt(attempt + 1, elapsed, summary,
       Transition(machine, "degraded"), <<"recovery.failed">>)
  /\ UNCHANGED <<faults, stop, elapsed, seen>>

Progress ==
  \/ Stopped \/ \E changed \in BOOLEAN : StoppedInRecovery(changed) \/ Recovered(changed)
  \/ IntervalOver \/ DelayOver
  \/ ObserveThrows \/ ObserveHealthy \/ ObserveUnhealthy
  \/ VerifyHealthy \/ VerifyUnhealthy \/ VerifyThrows

-----------------------------------------------------------------------------
(* The environment *)

\* The device, the ports or the services change under the watcher.
WorldChanges ==
  /\ faults' \in SUBSET Part /\ faults' # faults
  /\ UNCHANGED <<stop, watch>>

Abort ==
  /\ ~stop /\ stop' = TRUE
  /\ UNCHANGED <<faults, watch>>

\* The clock goes on while an episode waits for its calls.
TimePasses ==
  /\ wpc \in {"recover", "verify"} /\ elapsed < TotalTimeout
  /\ elapsed' = elapsed + 1 /\ Emit(<<>>)
  /\ UNCHANGED <<faults, stop, wpc, machine, attempt, seen, summary>>

Next == Start \/ Progress \/ WorldChanges \/ Abort \/ TimePasses

Spec == Init /\ [][Next]_vars

\* Timers fire and every adb call has a timeout: each await settles.
FairSpec == Spec /\ WF_vars(Start) /\ WF_vars(Progress)

-----------------------------------------------------------------------------
(* Properties *)

\* No transition the watcher asks of its machine is refused: transition() would
\* throw out of watchSession and the session would lose its monitor.
NeverThrows == machine # Thrown

\* A session that is watched and called ready was found healthy by the latest
\* observation; recover() saying that it worked is not enough.
ReadyIsVerified == machine = "ready" /\ wpc \in Running => SessionHealthy(seen)

\* A session is given up only after its whole budget: every attempt was made, or
\* the deadline passed, or recovery is disabled.  No single failed call does it.
FailedMeansSpent ==
  machine = "failed" => ~Enabled \/ attempt = MaxAttempts \/ elapsed = TotalTimeout

\* Every degradation in the summary was recovered, is being repaired, or is the
\* one that ended the session.
EpisodesAccounted ==
  summary.degradations =
    summary.recoveries + IF machine \in {"recovering", "failed"} THEN 1 ELSE 0

\* An intentional stop is recorded neither as a degradation nor as a recovery
\* attempt nor as a failure (docs/dev-sessions.md, "Live terminal controls").
CancellationIsSilent ==
  [][stop /\ wpc # "off" =>
       /\ UNCHANGED machine
       /\ summary'.degradations = summary.degradations
       /\ summary'.recoveryAttempts = summary.recoveryAttempts
       /\ summary'.failed = summary.failed]_vars

\* An episode does not go on for ever.
EpisodeEnds == machine = "recovering" ~> machine \in {"ready", "failed"} \/ wpc = "done"

\* The watcher is a bounded repairer: what it promises, without how.
Repair == INSTANCE BoundedRepair WITH
  Tries <- MaxAttempts,
  phase <- IF wpc = "off" THEN "new"
           ELSE IF wpc = "done" THEN (IF summary.failed THEN "gaveUp" ELSE "stopped")
           ELSE IF machine = "recovering" THEN "repairing" ELSE "up",
  left <- IF wpc \in Running /\ machine = "recovering" THEN MaxAttempts - attempt ELSE 0
ImplementsBoundedRepair == Repair!Spec
=============================================================================
