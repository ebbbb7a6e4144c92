------------------------ MODULE SessionWatcherProofs ------------------------
(***************************************************************************)
(* Proofs about the session watcher, for any parts, any recovery policy    *)
(* and any number of health checks.                                        *)
(***************************************************************************)
EXTENDS SessionWatcher, FiniteSetTheorems, TLAPS

\* Powers of two are natural numbers: the delay of an attempt is one.
LEMMA PowerType ==
  ASSUME NEW n \in Nat
  PROVE  2 ^ n \in Nat
<1>1. IsFiniteSet(1 .. n) /\ Cardinality(1 .. n) = n
  BY FS_Interval
<1>2. 2 ^ n = Cardinality(SUBSET (1 .. n)) /\ IsFiniteSet(SUBSET (1 .. n))
  BY <1>1, FS_SUBSET
<1> QED
  BY <1>2, FS_CardinalityType

LEMMA DelayType ==
  ASSUME NEW n \in Nat \ {0}
  PROVE  RecoveryDelay(n) \in Nat
<1> DEFINE exponent == IF n - 1 < 30 THEN n - 1 ELSE 30
<1>1. exponent \in Nat
  OBVIOUS
<1>2. 2 ^ exponent \in Nat
  BY <1>1, PowerType
<1> DEFINE power == 2 ^ exponent
<1>3. InitialDelay * power \in Nat
  <2> HIDE DEF power
  <2>1. power \in Nat
    BY <1>2 DEF power
  <2> QED
    BY <2>1, PolicyAssumption
<1> QED
  BY <1>3, PolicyAssumption DEF RecoveryDelay

\* The steps the watcher asks of its machine.
LEMMA MachineSteps ==
  /\ Transition(Transition(Transition(Transition("planning",
       "acquiring-target"), "preparing-ports"), "starting-child"), "ready") = "ready"
  /\ Transition("ready", "degraded") = "degraded"
  /\ Transition("degraded", "recovering") = "recovering"
  /\ Transition("degraded", "failed") = "failed"
  /\ Transition("recovering", "ready") = "ready"
  /\ Transition("recovering", "degraded") = "degraded"
<1> USE DEF Transition, CanTransition, AllowedTransitions, Working, SessionState
<1>1. /\ Transition("planning", "acquiring-target") = "acquiring-target"
      /\ Transition("acquiring-target", "preparing-ports") = "preparing-ports"
      /\ Transition("preparing-ports", "starting-child") = "starting-child"
      /\ Transition("starting-child", "ready") = "ready"
  OBVIOUS
<1>2. /\ Transition("ready", "degraded") = "degraded"
      /\ Transition("degraded", "recovering") = "recovering"
      /\ Transition("degraded", "failed") = "failed"
      /\ Transition("recovering", "ready") = "ready"
      /\ Transition("recovering", "degraded") = "degraded"
  OBVIOUS
<1> QED
  BY <1>1, <1>2

-----------------------------------------------------------------------------
(* The inductive invariant *)

\* What each await of the watcher knows.
Standing ==
  /\ wpc = "off" => machine = "planning" /\ summary = NoSummary /\ attempt = 0 /\ seen = {}
  /\ wpc \in {"interval", "observe"} => machine = "ready" /\ attempt = 0 /\ seen = {}
  /\ wpc \in {"delay", "recover", "verify"} =>
       machine = "recovering" /\ attempt \in 1 .. MaxAttempts
  /\ wpc = "done" => machine \in {"ready", "recovering", "failed"}
  /\ wpc \in Running => ~summary.failed

IInv == TypeOK /\ Standing /\ EpisodesAccounted /\ FailedMeansSpent

\* Counting keeps the type of a summary.
LEMMA CountTypes ==
  \A s \in Summaries : /\ [s EXCEPT !.degradations = @ + 1] \in Summaries
                        /\ [s EXCEPT !.recoveries = @ + 1] \in Summaries
  BY DEF Summaries

\* The updates of a summary keep its type and what they do not mention.
LEMMA TargetChangeUpdate ==
  ASSUME NEW s \in Summaries, NEW changed \in BOOLEAN, NEW t,
         t = [s EXCEPT !.targetChanges = IF changed THEN @ + 1 ELSE @]
  PROVE  /\ t \in Summaries /\ t.degradations = s.degradations
         /\ t.recoveries = s.recoveries /\ t.failed = s.failed
         /\ t.recoveryAttempts = s.recoveryAttempts
  BY DEF Summaries

LEMMA SummaryUpdates ==
  ASSUME NEW s \in Summaries
  PROVE  /\ LET t == [s EXCEPT !.failed = TRUE]
            IN  /\ t \in Summaries /\ t.degradations = s.degradations
                /\ t.recoveries = s.recoveries /\ t.failed
         /\ LET t == [s EXCEPT !.checks = @ + 1]
            IN  /\ t \in Summaries /\ t.degradations = s.degradations
                /\ t.recoveries = s.recoveries /\ t.failed = s.failed
         /\ LET t == [s EXCEPT !.checks = @ + 1, !.degradations = @ + 1]
            IN  /\ t \in Summaries /\ t.degradations = s.degradations + 1
                /\ t.recoveries = s.recoveries /\ t.failed = s.failed
         /\ LET t == [s EXCEPT !.recoveryAttempts = @ + 1]
            IN  /\ t \in Summaries /\ t.degradations = s.degradations
                /\ t.recoveries = s.recoveries /\ t.failed = s.failed
         /\ LET t == [s EXCEPT !.checks = @ + 1, !.recoveries = @ + 1]
            IN  /\ t \in Summaries /\ t.degradations = s.degradations
                /\ t.recoveries = s.recoveries + 1 /\ t.failed = s.failed
<1> USE DEF Summaries
<1>1. LET t == [s EXCEPT !.failed = TRUE]
      IN  /\ t \in Summaries /\ t.degradations = s.degradations
          /\ t.recoveries = s.recoveries /\ t.failed
  OBVIOUS
<1>2. LET t == [s EXCEPT !.checks = @ + 1]
      IN  /\ t \in Summaries /\ t.degradations = s.degradations
          /\ t.recoveries = s.recoveries /\ t.failed = s.failed
  OBVIOUS
<1>3. LET t == [s EXCEPT !.checks = @ + 1, !.degradations = @ + 1]
      IN  /\ t \in Summaries /\ t.degradations = s.degradations + 1
          /\ t.recoveries = s.recoveries /\ t.failed = s.failed
  <2>1. [s EXCEPT !.checks = @ + 1] \in Summaries
    OBVIOUS
  <2>2. [[s EXCEPT !.checks = @ + 1] EXCEPT !.degradations = @ + 1] \in Summaries
    BY <2>1, CountTypes
  <2>3. [s EXCEPT !.checks = @ + 1, !.degradations = @ + 1]
          = [[s EXCEPT !.checks = @ + 1] EXCEPT !.degradations = @ + 1]
    OBVIOUS
  <2>4. [s EXCEPT !.checks = @ + 1, !.degradations = @ + 1] \in Summaries
    BY <2>2, <2>3
  <2> QED
    BY <2>4
<1>4. LET t == [s EXCEPT !.recoveryAttempts = @ + 1]
      IN  /\ t \in Summaries /\ t.degradations = s.degradations
          /\ t.recoveries = s.recoveries /\ t.failed = s.failed
  OBVIOUS
<1>5. LET t == [s EXCEPT !.checks = @ + 1, !.recoveries = @ + 1]
      IN  /\ t \in Summaries /\ t.degradations = s.degradations
          /\ t.recoveries = s.recoveries + 1 /\ t.failed = s.failed
  <2>1. [s EXCEPT !.checks = @ + 1] \in Summaries
    OBVIOUS
  <2>2. [[s EXCEPT !.checks = @ + 1] EXCEPT !.recoveries = @ + 1] \in Summaries
    BY <2>1, CountTypes
  <2>3. [s EXCEPT !.checks = @ + 1, !.recoveries = @ + 1]
          = [[s EXCEPT !.checks = @ + 1] EXCEPT !.recoveries = @ + 1]
    OBVIOUS
  <2>4. [s EXCEPT !.checks = @ + 1, !.recoveries = @ + 1] \in Summaries
    BY <2>2, <2>3
  <2> QED
    BY <2>4
<1> QED
  BY <1>1, <1>2, <1>3, <1>4, <1>5

LEMMA EventTypes ==
  /\ <<>> \in Seq(Events)
  /\ \A e \in Events : <<e>> \in Seq(Events)
  /\ \A e, f \in Events : <<e, f>> \in Seq(Events)
  /\ \A told \in Seq(Events), e \in Events : Append(told, e) \in Seq(Events)
  OBVIOUS

\* What the budget says of an attempt that it allows, and of one that it does not.
LEMMA Budget ==
  ASSUME NEW n, NEW time
  PROVE  /\ AttemptAllowed(n, time) => n <= MaxAttempts
         /\ ~AttemptAllowed(n, time) =>
              ~Enabled \/ ~(n >= 1) \/ ~(n <= MaxAttempts) \/ ~(time < TotalTimeout)
  BY Zenon DEF AttemptAllowed

\* The head of the attempt loop, entered with the machine degraded, makes the
\* n-th attempt or gives the session up with its budget spent.
LEMMA AttemptStep ==
  ASSUME TypeOK,
         NEW n \in 1 .. MaxAttempts + 1, attempt = n - 1,
         NEW time \in 0 .. TotalTimeout, elapsed' = time,
         NEW counted \in Summaries, ~counted.failed,
         counted.degradations = counted.recoveries + 1,
         NEW told \in Seq(Events),
         NextAttempt(n, time, counted, "degraded", told)
  PROVE  /\ wpc' \in {"delay", "done"} /\ machine' \in {"recovering", "failed"}
         /\ wpc' = "delay" => /\ machine' = "recovering" /\ attempt' \in 1 .. MaxAttempts
                              /\ ~summary'.failed /\ attempt' = n
         /\ wpc' = "done" => machine' = "failed" /\ summary'.failed
         /\ attempt' \in Nat /\ summary' \in Summaries /\ emitted' \in Seq(Events)
         /\ summary'.degradations = summary'.recoveries + 1
         /\ FailedMeansSpent'
<1>1. CASE AttemptAllowed(n, time)
  <2>1. /\ wpc' = "delay" /\ machine' = "recovering" /\ attempt' = n
        /\ summary' = [counted EXCEPT !.recoveryAttempts = @ + 1]
        /\ emitted' = Append(told, "recovery.started")
    BY <1>1, MachineSteps DEF NextAttempt, Emit
  <2>2. n <= MaxAttempts
    BY <1>1, Budget
  <2>3. attempt' \in 1 .. MaxAttempts
    BY <2>1, <2>2, PolicyAssumption
  <2>4. emitted' \in Seq(Events)
    BY <2>1, EventTypes DEF Events
  <2>5. /\ summary' \in Summaries /\ summary'.degradations = summary'.recoveries + 1
        /\ summary'.failed = counted.failed
    BY <2>1, SummaryUpdates
  <2>6. machine' # "failed"
    BY <2>1
  <2>7. FailedMeansSpent'
    BY <2>6 DEF FailedMeansSpent
  <2> QED
    BY <2>1, <2>3, <2>4, <2>5, <2>7
<1>2. CASE ~AttemptAllowed(n, time)
  <2>1. /\ wpc' = "done" /\ machine' = "failed" /\ attempt' = attempt
        /\ summary' = [counted EXCEPT !.failed = TRUE]
        /\ emitted' = Append(told, "watch.failed")
    BY <1>2, MachineSteps DEF NextAttempt, Emit
  <2>2. emitted' \in Seq(Events)
    BY <2>1, EventTypes DEF Events
  <2>3. /\ summary' \in Summaries /\ summary'.degradations = summary'.recoveries + 1
        /\ summary'.failed
    BY <2>1, SummaryUpdates
  <2>4. ~Enabled \/ ~(n >= 1) \/ ~(n <= MaxAttempts) \/ ~(time < TotalTimeout)
    BY <1>2, Budget
  <2>5. ~(n >= 1) \/ ~(n <= MaxAttempts) => attempt' = MaxAttempts
    BY <2>1, PolicyAssumption
  <2>6. ~(time < TotalTimeout) => elapsed' = TotalTimeout
    BY PolicyAssumption
  <2>7. FailedMeansSpent'
    BY <2>4, <2>5, <2>6, Zenon DEF FailedMeansSpent
  <2>8. attempt' \in Nat
    BY <2>1 DEF TypeOK
  <2> QED
    BY <2>1, <2>2, <2>3, <2>7, <2>8
<1> QED
  BY <1>1, <1>2

LEMMA InvInit == Init => IInv
<1> SUFFICES ASSUME Init PROVE IInv
  OBVIOUS
<1> USE DEF Init, WInit
<1>1. NoSummary \in Summaries /\ NoSummary.degradations = NoSummary.recoveries
      /\ ~NoSummary.failed
  BY DEF NoSummary, Summaries
<1>2. TypeOK
  BY <1>1, PolicyAssumption, EventTypes DEF TypeOK, SessionState
<1>3. Standing
  BY DEF Standing, Running
<1>4. EpisodesAccounted
  BY <1>1 DEF EpisodesAccounted, Summaries
<1>5. FailedMeansSpent
  BY DEF FailedMeansSpent
<1> QED
  BY <1>2, <1>3, <1>4, <1>5 DEF IInv

\* A step that ends an episode or its head leaves the invariant to AttemptStep.
LEMMA AttemptKeepsInv ==
  ASSUME IInv,
         NEW n \in 1 .. MaxAttempts + 1, attempt = n - 1,
         NEW time \in 0 .. TotalTimeout, elapsed' = time,
         NEW counted \in Summaries, ~counted.failed,
         counted.degradations = counted.recoveries + 1,
         NEW told \in Seq(Events),
         NextAttempt(n, time, counted, "degraded", told),
         faults' \in SUBSET Part, stop' \in BOOLEAN, seen' \in SUBSET Part
  PROVE  IInv'
<1>1. TypeOK
  BY DEF IInv
<1>2. /\ wpc' \in {"delay", "done"} /\ machine' \in {"recovering", "failed"}
      /\ wpc' = "delay" => /\ machine' = "recovering" /\ attempt' \in 1 .. MaxAttempts
                           /\ ~summary'.failed
      /\ wpc' = "done" => machine' = "failed" /\ summary'.failed
      /\ attempt' \in Nat /\ summary' \in Summaries /\ emitted' \in Seq(Events)
      /\ summary'.degradations = summary'.recoveries + 1
      /\ FailedMeansSpent'
  BY <1>1, AttemptStep
<1>3. TypeOK'
  BY <1>2 DEF TypeOK, Running, SessionState
<1>4. Standing'
  BY <1>2 DEF Standing, Running
<1>5. EpisodesAccounted'
  BY <1>2 DEF EpisodesAccounted
<1> QED
  BY <1>2, <1>3, <1>4, <1>5 DEF IInv

LEMMA InvNext == IInv /\ [Next]_vars => IInv'
<1> SUFFICES ASSUME IInv, [Next]_vars PROVE IInv'
  OBVIOUS
<1>0. TypeOK /\ Standing /\ EpisodesAccounted /\ FailedMeansSpent
  BY DEF IInv
<1>s. summary \in Summaries
  BY <1>0 DEF TypeOK
<1> USE DEF IInv
<1>1. CASE Start
  <2>1. machine' = "ready"
    BY <1>0, <1>1, MachineSteps DEF Start, Standing
  <2>2. /\ wpc' \in {"interval", "done"} /\ emitted' = <<>>
        /\ UNCHANGED <<faults, stop, attempt, elapsed, seen, summary>>
        /\ attempt = 0 /\ seen = {} /\ summary = NoSummary /\ machine = "planning"
    BY <1>0, <1>1 DEF Start, Emit, Standing
  <2>3. TypeOK'
    BY <1>0, <2>1, <2>2, EventTypes DEF TypeOK, Running, SessionState
  <2>4. Standing'
    BY <2>1, <2>2 DEF Standing, Running, NoSummary
  <2> QED
    BY <1>0, <2>1, <2>2, <2>3, <2>4 DEF EpisodesAccounted, FailedMeansSpent
<1>2. CASE Stopped
  <2>1. wpc' = "done" /\ emitted' = <<>> /\ wpc \in Running
        /\ UNCHANGED <<faults, stop, machine, attempt, elapsed, seen, summary>>
    BY <1>2 DEF Stopped, Emit
  <2>2. TypeOK'
    BY <1>0, <2>1, EventTypes DEF TypeOK
  <2>3. Standing'
    BY <1>0, <2>1 DEF Standing, Running
  <2> QED
    BY <1>0, <2>1, <2>2, <2>3 DEF EpisodesAccounted, FailedMeansSpent
<1>3. ASSUME NEW changed \in BOOLEAN, StoppedInRecovery(changed) PROVE IInv'
  <2>1. wpc' = "done" /\ emitted' = <<>> /\ wpc = "recover"
        /\ UNCHANGED <<faults, stop, machine, attempt, elapsed, seen>>
        /\ summary' = [summary EXCEPT !.targetChanges = IF changed THEN @ + 1 ELSE @]
    BY <1>3 DEF StoppedInRecovery, Emit
  <2>2. /\ summary' \in Summaries /\ summary'.degradations = summary.degradations
        /\ summary'.recoveries = summary.recoveries
    BY <1>s, <2>1, TargetChangeUpdate
  <2>3. TypeOK'
    BY <1>0, <2>1, <2>2, EventTypes DEF TypeOK
  <2>4. Standing'
    BY <1>0, <2>1 DEF Standing, Running
  <2> QED
    BY <1>0, <2>1, <2>2, <2>3, <2>4 DEF EpisodesAccounted, FailedMeansSpent
<1>4. ASSUME NEW changed \in BOOLEAN, Recovered(changed) PROVE IInv'
  <2>1. wpc' = "verify" /\ emitted' = <<>> /\ wpc = "recover"
        /\ UNCHANGED <<faults, stop, machine, attempt, elapsed, seen>>
        /\ summary' = [summary EXCEPT !.targetChanges = IF changed THEN @ + 1 ELSE @]
    BY <1>4 DEF Recovered, Await, Emit
  <2>2. /\ summary' \in Summaries /\ summary'.degradations = summary.degradations
        /\ summary'.recoveries = summary.recoveries /\ summary'.failed = summary.failed
    BY <1>s, <2>1, TargetChangeUpdate
  <2>3. TypeOK'
    BY <1>0, <2>1, <2>2, EventTypes DEF TypeOK, Running
  <2>4. Standing'
    BY <1>0, <2>1, <2>2 DEF Standing, Running
  <2> QED
    BY <1>0, <2>1, <2>2, <2>3, <2>4 DEF EpisodesAccounted, FailedMeansSpent
<1>5. CASE IntervalOver
  <2>1. wpc = "interval" /\ wpc' = "observe" /\ emitted' = <<>>
        /\ UNCHANGED <<faults, stop, machine, attempt, elapsed, seen, summary>>
    BY <1>5 DEF IntervalOver, Await, Emit
  <2>2. TypeOK'
    BY <1>0, <2>1, EventTypes DEF TypeOK, Running
  <2>3. Standing'
    BY <1>0, <2>1 DEF Standing, Running
  <2> QED
    BY <1>0, <2>1, <2>2, <2>3 DEF EpisodesAccounted, FailedMeansSpent
<1>6. CASE ObserveThrows
  <2>1. wpc = "observe" /\ wpc' = "done" /\ emitted' = <<"watch.failed">>
        /\ UNCHANGED <<faults, stop, machine, attempt, elapsed, seen>>
        /\ summary' = [summary EXCEPT !.failed = TRUE]
    BY <1>6 DEF ObserveThrows, Await, Emit
  <2>2. /\ summary' \in Summaries /\ summary'.degradations = summary.degradations
        /\ summary'.recoveries = summary.recoveries
    BY <1>s, <2>1, SummaryUpdates
  <2>3. TypeOK'
    BY <1>0, <2>1, <2>2, EventTypes DEF TypeOK, Events
  <2>4. Standing'
    BY <1>0, <2>1 DEF Standing, Running
  <2> QED
    BY <1>0, <2>1, <2>2, <2>3, <2>4 DEF EpisodesAccounted, FailedMeansSpent
<1>7. CASE ObserveHealthy
  <2>1. wpc = "observe" /\ wpc' = "interval" /\ emitted' = <<"health.checked">>
        /\ UNCHANGED <<faults, stop, machine, attempt, elapsed>> /\ seen' = {}
        /\ summary' = [summary EXCEPT !.checks = @ + 1]
    BY <1>7 DEF ObserveHealthy, Await, Emit, SessionHealthy
  <2>2. /\ summary' \in Summaries /\ summary'.degradations = summary.degradations
        /\ summary'.recoveries = summary.recoveries /\ summary'.failed = summary.failed
    BY <1>s, <2>1, SummaryUpdates
  <2>3. TypeOK'
    BY <1>0, <2>1, <2>2, EventTypes DEF TypeOK, Events, Running
  <2>4. Standing'
    BY <1>0, <2>1, <2>2 DEF Standing, Running
  <2> QED
    BY <1>0, <2>1, <2>2, <2>3, <2>4 DEF EpisodesAccounted, FailedMeansSpent
<1>8. CASE ObserveUnhealthy
  <2> DEFINE counted == [summary EXCEPT !.checks = @ + 1, !.degradations = @ + 1]
  <2>1. /\ wpc = "observe" /\ elapsed' = 0 /\ seen' = faults
        /\ UNCHANGED <<faults, stop>> /\ attempt = 0 /\ machine = "ready"
        /\ ~summary.failed
    BY <1>0, <1>8 DEF ObserveUnhealthy, Standing, Running
  <2>2. NextAttempt(1, 0, counted, "degraded", <<"health.checked", "session.degraded">>)
    BY <1>8, <2>1, MachineSteps DEF ObserveUnhealthy
  <2>3. /\ counted \in Summaries /\ counted.failed = summary.failed
        /\ counted.degradations = counted.recoveries + 1
    <3>1. /\ counted \in Summaries /\ counted.failed = summary.failed
          /\ counted.degradations = summary.degradations + 1
          /\ counted.recoveries = summary.recoveries
      BY <1>s, SummaryUpdates
    <3> QED
      BY <1>0, <2>1, <3>1 DEF EpisodesAccounted, TypeOK, Summaries
  <2>4. <<"health.checked", "session.degraded">> \in Seq(Events)
    BY EventTypes DEF Events
  <2>5. 1 \in 1 .. MaxAttempts + 1 /\ 0 \in 0 .. TotalTimeout /\ attempt = 1 - 1
    BY <2>1, PolicyAssumption
  <2>6. faults' \in SUBSET Part /\ stop' \in BOOLEAN /\ seen' \in SUBSET Part
    BY <1>0, <2>1 DEF TypeOK
  <2> HIDE DEF counted
  <2> QED
    BY <2>1, <2>2, <2>3, <2>4, <2>5, <2>6, AttemptKeepsInv
<1>9. CASE DelayOver
  <2>1. wpc = "delay" /\ wpc' = "recover" /\ emitted' = <<>>
        /\ elapsed' = Later(elapsed, RecoveryDelay(attempt))
        /\ UNCHANGED <<faults, stop, machine, attempt, seen, summary>>
    BY <1>9 DEF DelayOver, Await, Emit
  <2>2. machine = "recovering" /\ attempt \in 1 .. MaxAttempts /\ ~summary.failed
    BY <1>0, <2>1 DEF Standing, Running
  <2>3. RecoveryDelay(attempt) \in Nat
    BY <2>2, DelayType, PolicyAssumption
  <2>4. elapsed' \in 0 .. TotalTimeout
    BY <1>0, <2>1, <2>3, PolicyAssumption DEF Later, TypeOK
  <2>5. TypeOK'
    BY <1>0, <2>1, <2>4, EventTypes DEF TypeOK, Running
  <2>6. Standing'
    BY <2>1, <2>2 DEF Standing, Running
  <2> QED
    BY <1>0, <2>1, <2>2, <2>5, <2>6 DEF EpisodesAccounted, FailedMeansSpent
<1>10. CASE VerifyHealthy
  <2>1. /\ wpc = "verify" /\ wpc' = "interval" /\ seen' = {} /\ attempt' = 0
        /\ elapsed' = 0 /\ emitted' = <<"health.checked", "recovery.completed">>
        /\ summary' = [summary EXCEPT !.checks = @ + 1, !.recoveries = @ + 1]
        /\ UNCHANGED <<faults, stop>>
    BY <1>10 DEF VerifyHealthy, Await, Emit, SessionHealthy
  <2>2. machine = "recovering" /\ ~summary.failed
    BY <1>0, <2>1 DEF Standing, Running
  <2>3. machine' = "ready"
    BY <1>10, <2>2, MachineSteps DEF VerifyHealthy
  <2>4. /\ summary' \in Summaries /\ summary'.degradations = summary.degradations
        /\ summary'.recoveries = summary.recoveries + 1 /\ summary'.failed = summary.failed
    BY <1>s, <2>1, SummaryUpdates
  <2>5. TypeOK'
    BY <1>0, <2>1, <2>3, <2>4, EventTypes, PolicyAssumption
    DEF TypeOK, Events, Running, SessionState
  <2>6. Standing'
    BY <2>1, <2>2, <2>3, <2>4 DEF Standing, Running
  <2>7. EpisodesAccounted'
    BY <1>0, <2>2, <2>3, <2>4 DEF EpisodesAccounted, TypeOK, Summaries
  <2> QED
    BY <2>3, <2>5, <2>6, <2>7 DEF FailedMeansSpent
<1>11. CASE VerifyUnhealthy
  <2> DEFINE counted == [summary EXCEPT !.checks = @ + 1]
  <2>1. /\ wpc = "verify" /\ seen' = faults /\ UNCHANGED <<faults, stop, elapsed>>
        /\ machine = "recovering" /\ attempt \in 1 .. MaxAttempts /\ ~summary.failed
    BY <1>0, <1>11 DEF VerifyUnhealthy, Standing, Running
  <2>2. NextAttempt(attempt + 1, elapsed, counted, "degraded",
          <<"health.checked", "recovery.failed">>)
    BY <1>11, <2>1, MachineSteps DEF VerifyUnhealthy
  <2>3. /\ counted \in Summaries /\ counted.failed = summary.failed
        /\ counted.degradations = counted.recoveries + 1
    <3>1. /\ counted \in Summaries /\ counted.failed = summary.failed
          /\ counted.degradations = summary.degradations
          /\ counted.recoveries = summary.recoveries
      BY <1>s, SummaryUpdates
    <3> QED
      BY <1>0, <2>1, <3>1 DEF EpisodesAccounted
  <2>4. <<"health.checked", "recovery.failed">> \in Seq(Events)
    BY EventTypes DEF Events
  <2>5. /\ attempt + 1 \in 1 .. MaxAttempts + 1 /\ attempt = (attempt + 1) - 1
        /\ elapsed \in 0 .. TotalTimeout
    BY <1>0, <2>1, PolicyAssumption DEF TypeOK
  <2>6. faults' \in SUBSET Part /\ stop' \in BOOLEAN /\ seen' \in SUBSET Part
    BY <1>0, <2>1 DEF TypeOK
  <2> HIDE DEF counted
  <2> QED
    BY <2>1, <2>2, <2>3, <2>4, <2>5, <2>6, AttemptKeepsInv
<1>12. CASE VerifyThrows
  <2>1. /\ wpc = "verify" /\ UNCHANGED <<faults, stop, elapsed, seen>>
        /\ machine = "recovering" /\ attempt \in 1 .. MaxAttempts /\ ~summary.failed
    BY <1>0, <1>12 DEF VerifyThrows, Standing, Running
  <2>2. NextAttempt(attempt + 1, elapsed, summary, "degraded", <<"recovery.failed">>)
    BY <1>12, <2>1, MachineSteps DEF VerifyThrows
  <2>3. summary \in Summaries /\ summary.degradations = summary.recoveries + 1
    BY <1>0, <2>1 DEF EpisodesAccounted, TypeOK
  <2>4. <<"recovery.failed">> \in Seq(Events)
    BY EventTypes DEF Events
  <2>5. /\ attempt + 1 \in 1 .. MaxAttempts + 1 /\ attempt = (attempt + 1) - 1
        /\ elapsed \in 0 .. TotalTimeout
    BY <1>0, <2>1, PolicyAssumption DEF TypeOK
  <2>6. faults' \in SUBSET Part /\ stop' \in BOOLEAN /\ seen' \in SUBSET Part
    BY <1>0, <2>1 DEF TypeOK
  <2> QED
    BY <2>1, <2>2, <2>3, <2>4, <2>5, <2>6, AttemptKeepsInv
<1>13. CASE WorldChanges
  <2>1. faults' \in SUBSET Part /\ UNCHANGED <<stop, watch>>
    BY <1>13 DEF WorldChanges
  <2> QED
    BY <1>0, <2>1
    DEF TypeOK, Standing, EpisodesAccounted, FailedMeansSpent, watch
<1>14. CASE Abort
  <2>1. stop' = TRUE /\ UNCHANGED <<faults, watch>>
    BY <1>14 DEF Abort
  <2> QED
    BY <1>0, <2>1
    DEF TypeOK, Standing, EpisodesAccounted, FailedMeansSpent, watch
<1>15. CASE TimePasses
  <2>1. /\ wpc \in {"recover", "verify"} /\ elapsed' = elapsed + 1 /\ emitted' = <<>>
        /\ elapsed < TotalTimeout
        /\ UNCHANGED <<faults, stop, wpc, machine, attempt, seen, summary>>
    BY <1>15 DEF TimePasses, Emit
  <2>2. TypeOK'
    BY <1>0, <2>1, EventTypes, PolicyAssumption DEF TypeOK
  <2>3. machine = "recovering"
    BY <1>0, <2>1 DEF Standing
  <2> QED
    BY <1>0, <2>1, <2>2, <2>3 DEF Standing, EpisodesAccounted, FailedMeansSpent
<1>16. CASE UNCHANGED vars
  BY <1>0, <1>16 DEF TypeOK, Standing, EpisodesAccounted, FailedMeansSpent, vars, watch
<1> QED
  BY <1>1, <1>2, <1>3, <1>4, <1>5, <1>6, <1>7, <1>8, <1>9, <1>10, <1>11, <1>12,
     <1>13, <1>14, <1>15, <1>16 DEF Next, Progress

\* IInv holds in every state the watcher can reach.
THEOREM WatcherInvariant == Spec => []IInv
BY InvInit, InvNext, PTL DEF Spec

\* The state of the watcher keeps its type, its clock within the deadline and
\* its attempt counter a number, whatever the world and the signal do.
THEOREM WatcherTypeCorrect == Spec => []TypeOK
<1>1. IInv => TypeOK
  BY DEF IInv
<1> QED
  BY <1>1, WatcherInvariant, PTL

\* transition() never throws out of watchSession: the code asks its machine only
\* for allowed steps, for every length of every episode.
THEOREM WatcherNeverThrows == Spec => []NeverThrows
<1>1. IInv => NeverThrows
  <2>1. IInv => machine \in {"planning", "ready", "recovering", "failed"}
    BY DEF IInv, TypeOK, Standing, Running
  <2> QED
    BY <2>1 DEF NeverThrows, Thrown
<1> QED
  BY <1>1, WatcherInvariant, PTL

\* A session the watcher calls ready was found healthy by its latest observation.
THEOREM WatcherReadyIsVerified == Spec => []ReadyIsVerified
<1>1. IInv => ReadyIsVerified
  BY DEF IInv, Standing, ReadyIsVerified, Running, SessionHealthy
<1> QED
  BY <1>1, WatcherInvariant, PTL

\* A session is given up only with its budget spent.
THEOREM WatcherFailedMeansSpent == Spec => []FailedMeansSpent
<1>1. IInv => FailedMeansSpent
  BY DEF IInv
<1> QED
  BY <1>1, WatcherInvariant, PTL

\* The counts of the summary agree with the episodes.
THEOREM WatcherEpisodesAccounted == Spec => []EpisodesAccounted
<1>1. IInv => EpisodesAccounted
  BY DEF IInv
<1> QED
  BY <1>1, WatcherInvariant, PTL

\* What CancellationIsSilent forbids a step to do.
Silent ==
  /\ UNCHANGED machine
  /\ summary'.degradations = summary.degradations
  /\ summary'.recoveryAttempts = summary.recoveryAttempts
  /\ summary'.failed = summary.failed

\* An intentional stop is never recorded as a degradation, an attempt or a
\* failure: under an abort only the two stopping steps are left to the watcher,
\* and the change of target that recover() reports is all they count.
THEOREM WatcherCancellationIsSilent == Spec => CancellationIsSilent
<1>1. ASSUME IInv, [Next]_vars, stop, wpc # "off" PROVE Silent
  <2>1. CASE Stopped
    BY <2>1 DEF Stopped, Silent
  <2>2. ASSUME NEW changed \in BOOLEAN, StoppedInRecovery(changed) PROVE Silent
    <3>1. summary \in Summaries
      BY <1>1 DEF IInv, TypeOK
    <3>2. /\ UNCHANGED machine
          /\ summary' = [summary EXCEPT !.targetChanges = IF changed THEN @ + 1 ELSE @]
      BY <2>2 DEF StoppedInRecovery
    <3> QED
      BY <3>1, <3>2, TargetChangeUpdate DEF Silent
  <2>3. CASE UNCHANGED <<machine, summary>>
    BY <2>3 DEF Silent
  <2>4. \/ Stopped
        \/ \E changed \in BOOLEAN : StoppedInRecovery(changed)
        \/ UNCHANGED <<machine, summary>>
    BY <1>1 DEF Next, Progress, Start, Recovered, IntervalOver, DelayOver,
      ObserveThrows, ObserveHealthy, ObserveUnhealthy, VerifyHealthy, VerifyUnhealthy,
      VerifyThrows, WorldChanges, Abort, TimePasses, Await, vars, watch
  <2> QED
    BY <2>1, <2>2, <2>3, <2>4
<1>2. IInv /\ [Next]_vars => [stop /\ wpc # "off" => Silent]_vars
  BY <1>1
<1>3. Spec => [][stop /\ wpc # "off" => Silent]_vars
  BY <1>2, WatcherInvariant, PTL DEF Spec
<1> QED
  BY <1>3 DEF CancellationIsSilent, Silent

-----------------------------------------------------------------------------
(* The watcher implements a bounded repairer *)

\* The abstract state each await of the watcher stands for.
Phase ==
  IF wpc = "off" THEN "new"
  ELSE IF wpc = "done" THEN (IF summary.failed THEN "gaveUp" ELSE "stopped")
  ELSE IF machine = "recovering" THEN "repairing" ELSE "up"
Left == IF wpc \in Running /\ machine = "recovering" THEN MaxAttempts - attempt ELSE 0

Abstractly(from, to, n) == Phase \in from /\ Phase' = to /\ Left' = n

\* Where the abstraction sends the states that the invariant allows.
LEMMA PhaseOf ==
  ASSUME IInv
  PROVE  /\ wpc = "off" => Phase = "new" /\ Left = 0
         /\ wpc \in {"interval", "observe"} => Phase = "up" /\ Left = 0
         /\ wpc \in {"delay", "recover", "verify"} =>
              Phase = "repairing" /\ Left = MaxAttempts - attempt
         /\ wpc = "done" /\ summary.failed => Phase = "gaveUp" /\ Left = 0
         /\ wpc = "done" /\ ~summary.failed => Phase = "stopped" /\ Left = 0
  BY DEF IInv, Standing, Running, Phase, Left

\* The steps of BoundedRepair, seen through the abstraction.
LEMMA AbstractSteps ==
  /\ Abstractly({"new"}, "up", 0) => Repair!Next
  /\ MaxAttempts > 0 /\ Abstractly({"up"}, "repairing", MaxAttempts - 1) => Repair!Next
  /\ Left > 0 /\ Abstractly({"repairing"}, "repairing", Left - 1) => Repair!Next
  /\ Abstractly({"repairing"}, "up", 0) => Repair!Next
  /\ Abstractly({"up", "repairing"}, "gaveUp", 0) => Repair!Next
  /\ Abstractly({"new", "up", "repairing"}, "stopped", 0) => Repair!Next
  BY DEF Abstractly, Phase, Left, Repair!Next, Repair!Begin, Repair!Break,
    Repair!Retry, Repair!Fix, Repair!GiveUp, Repair!Stop, Repair!Become

\* Every step of the watcher is a step of the repairer or leaves it alone.
LEMMA StepRefines ==
  ASSUME IInv, IInv', [Next]_vars
  PROVE  Repair!Next \/ (Phase' = Phase /\ Left' = Left)
<1> USE PhaseOf
<1> DEFINE Shown == Repair!Next \/ (Phase' = Phase /\ Left' = Left)
<1>0. TypeOK /\ Standing /\ TypeOK' /\ Standing'
  BY DEF IInv
<1>p. /\ wpc' \in {"interval", "observe"} => Phase' = "up" /\ Left' = 0
      /\ wpc' \in {"delay", "recover", "verify"} =>
           Phase' = "repairing" /\ Left' = MaxAttempts - attempt'
      /\ wpc' = "done" /\ summary'.failed => Phase' = "gaveUp" /\ Left' = 0
      /\ wpc' = "done" /\ ~summary'.failed => Phase' = "stopped" /\ Left' = 0
  BY DEF IInv, Standing, Running, Phase, Left
<1>1. CASE Start
  <2>1. wpc = "off" /\ wpc' \in {"interval", "done"} /\ summary' = NoSummary
    BY <1>0, <1>1 DEF Start, Standing
  <2>2. ~NoSummary.failed
    BY DEF NoSummary
  <2>3. \/ Abstractly({"new"}, "up", 0)
        \/ Abstractly({"new", "up", "repairing"}, "stopped", 0)
    BY <1>p, <2>1, <2>2 DEF Abstractly
  <2> QED
    BY <2>3, AbstractSteps
<1>2. CASE wpc \in Running /\ wpc' = "done" /\ ~summary'.failed
  <2>1. Abstractly({"new", "up", "repairing"}, "stopped", 0)
    BY <1>2, <1>p DEF Abstractly, Running
  <2> QED
    BY <2>1, AbstractSteps
<1>3. CASE wpc \in Running /\ wpc' = "done" /\ summary'.failed
  <2>1. Abstractly({"up", "repairing"}, "gaveUp", 0)
    BY <1>3, <1>p DEF Abstractly, Running
  <2> QED
    BY <2>1, AbstractSteps
<1>4. CASE wpc = "observe" /\ wpc' = "delay" /\ attempt' = 1
  <2>1. MaxAttempts \in Nat /\ attempt' \in 1 .. MaxAttempts
    BY <1>0, <1>4, PolicyAssumption DEF Standing
  <2>2. MaxAttempts > 0 /\ Abstractly({"up"}, "repairing", MaxAttempts - 1)
    BY <1>4, <1>p, <2>1 DEF Abstractly
  <2> QED
    BY <2>2, AbstractSteps
<1>5. CASE wpc = "verify" /\ wpc' = "delay" /\ attempt' = attempt + 1
  <2>1. /\ MaxAttempts \in Nat /\ attempt \in 1 .. MaxAttempts
        /\ attempt' \in 1 .. MaxAttempts
    BY <1>0, <1>5, PolicyAssumption DEF Standing
  <2>2. Left = MaxAttempts - attempt /\ Left' = MaxAttempts - (attempt + 1)
    BY <1>5, <1>p
  <2>3. Left > 0 /\ Left' = Left - 1
    BY <1>5, <2>1, <2>2
  <2>4. Abstractly({"repairing"}, "repairing", Left - 1)
    BY <1>5, <1>p, <2>3 DEF Abstractly
  <2> QED
    BY <2>3, <2>4, AbstractSteps
<1>6. CASE wpc = "verify" /\ wpc' = "interval"
  <2>1. Abstractly({"repairing"}, "up", 0)
    BY <1>6, <1>p DEF Abstractly
  <2> QED
    BY <2>1, AbstractSteps
<1>7. CASE /\ wpc \in {"interval", "observe"} /\ wpc' \in {"interval", "observe"}
  BY <1>7, <1>p
<1>8. CASE /\ wpc \in {"delay", "recover", "verify"}
           /\ wpc' \in {"delay", "recover", "verify"} /\ attempt' = attempt
  BY <1>8, <1>p
<1>9. CASE UNCHANGED <<wpc, machine, attempt, summary>>
  BY <1>9 DEF Phase, Left
<1>10. CASE ObserveUnhealthy
  <2>1. /\ wpc = "observe"
        /\ \/ wpc' = "delay" /\ attempt' = 1
           \/ wpc' = "done"
    BY <1>10 DEF ObserveUnhealthy, NextAttempt
  <2> QED
    BY <2>1, <1>2, <1>3, <1>4 DEF Running
<1>11. CASE VerifyUnhealthy \/ VerifyThrows
  <2>1. /\ wpc = "verify"
        /\ \/ wpc' = "delay" /\ attempt' = attempt + 1
           \/ wpc' = "done"
    BY <1>11 DEF VerifyUnhealthy, VerifyThrows, NextAttempt
  <2> QED
    BY <2>1, <1>2, <1>3, <1>5 DEF Running
<1>12. CASE Stopped \/ (\E changed \in BOOLEAN : StoppedInRecovery(changed)) \/ ObserveThrows
  <2>1. wpc \in Running /\ wpc' = "done"
    BY <1>12 DEF Stopped, StoppedInRecovery, ObserveThrows, Await, Running
  <2> QED
    BY <2>1, <1>2, <1>3
<1>13. CASE IntervalOver \/ ObserveHealthy
  BY <1>13, <1>7 DEF IntervalOver, ObserveHealthy, Await
<1>14. CASE DelayOver \/ \E changed \in BOOLEAN : Recovered(changed)
  BY <1>14, <1>8 DEF DelayOver, Recovered, Await
<1>15. CASE VerifyHealthy
  BY <1>15, <1>6 DEF VerifyHealthy, Await
<1>16. CASE WorldChanges \/ Abort \/ TimePasses \/ UNCHANGED vars
  BY <1>16, <1>9 DEF WorldChanges, Abort, TimePasses, vars, watch
<1> QED
  BY <1>1, <1>10, <1>11, <1>12, <1>13, <1>14, <1>15, <1>16 DEF Next, Progress

\* The watcher implements BoundedRepair: a break is repaired within MaxAttempts
\* tries or given up for good, and nothing follows the end of a watch.
THEOREM WatcherIsBoundedRepair == Spec => ImplementsBoundedRepair
<1>1. Init => Repair!Init
  BY DEF Init, WInit, Repair!Init
<1>2. IInv /\ IInv' /\ [Next]_vars => [Repair!Next]_(Repair!vars)
  <2>1. UNCHANGED <<Phase, Left>> => UNCHANGED Repair!vars
    BY DEF Phase, Left, Repair!vars
  <2> QED
    BY <2>1, StepRefines
<1> QED
  BY <1>1, <1>2, WatcherInvariant, PTL DEF Spec, Repair!Spec, ImplementsBoundedRepair
=============================================================================
