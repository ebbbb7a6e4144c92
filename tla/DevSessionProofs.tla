-------------------------- MODULE DevSessionProofs --------------------------
(***************************************************************************)
(* What a development session reports and leaves behind, for any options,  *)
(* any recovery policy and any failures: proofs about DevSession.          *)
(***************************************************************************)
EXTENDS DevSession, SequenceTheorems, TLAPS

-----------------------------------------------------------------------------
(* The inductive invariant *)

Gating == {"readiness", "launch", "startup", "readyHook"}
TearingDown == {"race", "awaitWatch", "awaitVerifier", "awaitChild", "exitHook", "cleanup"}
Watched == {"race", "awaitWatch"}
Leaving == {"finally", "ended"}
NoneYet == Pcs \ (Gating \cup TearingDown \cup Leaving)

Types ==
  /\ opts \in Options /\ pc \in Pcs /\ session \in SessionState
  /\ reachedReady \in BOOLEAN /\ signal \in BOOLEAN
  /\ problems \in SUBSET Problems
  /\ ports \in {"none", "reused", "owned", "removed"} /\ attached \in BOOLEAN
  /\ proc \in [Procs -> [at : {"none", "running"} \cup Settled, abort : BOOLEAN]]
  /\ readyHooksSucceeded \in BOOLEAN /\ firstCompletion \in Causes
  /\ status \in {"none", "completed", "interrupted", "failed"}
  /\ wpc \in Watch!Running \cup {"off", "done"} /\ summary \in Watch!Summaries

\* The machine of the session follows the preparation, that of the watcher its loop.
Machines ==
  /\ pc = "discover" => session = "acquiring-target"
  /\ pc \in {"list", "earlyHooks", "prepare", "probe"} => session = "preparing-ports"
  /\ pc \in Gating \cup {"portsHook"} => session \in {"starting-child", "attaching-child"}
  /\ session = "ready" => reachedReady
  /\ wpc = "off" => machine = "planning"
  /\ wpc \in {"interval", "observe"} => machine = "ready"
  /\ wpc \in {"delay", "recover", "verify"} => machine = "recovering"
  /\ SessionFollowsWatcher

\* When the watcher and the processes of the session may run.
Extent ==
  /\ pc \in NoneYet => \A p \in Procs : proc[p].at = "none"
  /\ pc \in Gating => Verifier.at = "none"
  /\ pc \in {"awaitChild", "exitHook", "cleanup"} \cup Leaving => Verifier.at # "running"
  /\ pc \in {"exitHook", "cleanup"} \cup Leaving => Child.at # "running"
  /\ reachedReady \/ wpc # "off" => pc \in TearingDown \cup Leaving
  /\ wpc \in Watch!Running => pc \in Watched /\ reachedReady
  /\ summary.failed => wpc = "done"
  /\ reachedReady /\ opts.verify => Verifier.at # "none"
  /\ pc \in {"discover", "list", "earlyHooks"} => ports = "none"

\* Nothing but these makes the session abort its child.
Deliberate ==
  signal \/ summary.failed \/ firstCompletion = "controls-stop" \/ Verifier.at \in Settled
    \/ problems # {}

\* Why a process was aborted, and why the wait is over.
Reasons ==
  /\ \A p \in Procs : proc[p].at = "aborted" => proc[p].abort
  /\ Child.abort /\ pc \notin Leaving => Deliberate
  /\ pc \in TearingDown => reachedReady \/ signal \/ problems # {}
  /\ firstCompletion = "verification" => Verifier.at \in Settled
  /\ firstCompletion = "watch-failed" => summary.failed
  /\ firstCompletion = "signal" => signal
  /\ pc = "awaitWatch" => firstCompletion # "none"
  /\ firstCompletion # "none" => pc \in (TearingDown \ {"race"}) \cup Leaving

\* What can have been reported before the session is ready.
Reported ==
  /\ pc \in {"discover", "list", "earlyHooks", "probe"} => problems = {}
  /\ pc = "prepare" => problems \subseteq {"Interrupted"}
  /\ pc \in Gating \cup {"portsHook"} =>
       problems \subseteq {"Interrupted"} \cup (IF opts.expo THEN {} ELSE {"Bridge"})
  /\ pc = "abandon" => problems # {}

\* A session that ends without a problem has earned it.
Earned ==
  /\ reachedReady /\ ~summary.failed
  /\ Child.at = "aborted" => Verifier.at = "ok"
  /\ Child.at # "failed" /\ Verifier.at \notin {"failed", "aborted"}
  /\ opts.verify => Verifier.at = "ok"

PortsLeft == ports = "owned" /\ opts.cleanupPorts => "CleanupFailed" \in problems

Outcome ==
  /\ status = "none" <=> pc # "ended"
  /\ pc = "finally" => PortsLeft /\ (problems = {} => Earned)
  /\ HonestCompletion /\ NothingLeftBehind /\ InterruptedExits130

IInv == Types /\ Machines /\ Extent /\ Reasons /\ Reported /\ Outcome

-----------------------------------------------------------------------------
(* The two machines *)

\* The session takes the events of a step one by one.
LEMMA FollowingStepwise ==
  ASSUME NEW state, NEW events, NEW last \in 0 .. 3, Len(events) = last
  PROVE  \E after :
           /\ after[0] = state
           /\ \A n \in 1 .. last : after[n] = Follow(after[n - 1], events[n])
           /\ Following(state, events) = after[last]
<1> DEFINE one == Follow(state, events[1])
           two == Follow(one, events[2])
           three == Follow(two, events[3])
           f == [n \in 0 .. last |->
                   IF n = 0 THEN state ELSE IF n = 1 THEN one ELSE IF n = 2 THEN two ELSE three]
           P(g) == g = [n \in 0 .. last |->
                          IF n = 0 THEN state ELSE Follow(g[n - 1], events[n])]
<1>1. ASSUME NEW n \in 0 .. last
      PROVE  f[n] = IF n = 0 THEN state ELSE Follow(f[n - 1], events[n])
  <2>1. n \in {0, 1, 2, 3}
    OBVIOUS
  <2>2. CASE n = 0
    BY <2>2
  <2>3. CASE n = 1
    <3>1. f[0] = state /\ f[1] = one
      BY <2>3
    <3> QED BY <3>1, <2>3
  <2>4. CASE n = 2
    <3>1. f[1] = one /\ f[2] = two
      BY <2>4
    <3> QED BY <3>1, <2>4
  <2>5. CASE n = 3
    <3>1. f[2] = two /\ f[3] = three
      BY <2>5
    <3> QED BY <3>1, <2>5
  <2> QED BY <2>1, <2>2, <2>3, <2>4, <2>5
<1>2. P(f)
  <2> HIDE DEF one, two, three
  <2>1. f = [n \in 0 .. last |-> f[n]]
    OBVIOUS
  <2> HIDE DEF f
  <2> QED BY <1>1, <2>1, Zenon
<1> DEFINE after == CHOOSE g : P(g)
<1>3. P(after)
  <2> HIDE DEF f, P
  <2> QED BY <1>2, Zenon
<1>4. Following(state, events) = after[last]
  BY DEF Following
<1> HIDE DEF after
<1>5. after[0] = state
  BY <1>3
<1>6. ASSUME NEW n \in 1 .. last
      PROVE  after[n] = Follow(after[n - 1], events[n])
  <2>1. n \in 0 .. last /\ n # 0
    OBVIOUS
  <2> QED BY <1>3, <2>1
<1> QED BY <1>4, <1>5, <1>6

LEMMA FollowingNone ==
  ASSUME NEW state
  PROVE  Following(state, <<>>) = state
BY FollowingStepwise, Len(<<>>) = 0

LEMMA FollowingOne ==
  ASSUME NEW state, NEW e
  PROVE  Following(state, <<e>>) = Follow(state, e)
<1>1. Len(<<e>>) = 1 /\ <<e>>[1] = e
  OBVIOUS
<1>2. PICK after : /\ after[0] = state /\ \A n \in 1 .. 1 : after[n] = Follow(after[n - 1], <<e>>[n])
                   /\ Following(state, <<e>>) = after[1]
  BY <1>1, FollowingStepwise
<1>3. after[1] = Follow(after[0], <<e>>[1])
  BY <1>2
<1> QED BY <1>1, <1>2, <1>3

LEMMA FollowingTwo ==
  ASSUME NEW state, NEW e, NEW f
  PROVE  Following(state, <<e, f>>) = Follow(Follow(state, e), f)
<1>1. Len(<<e, f>>) = 2 /\ <<e, f>>[1] = e /\ <<e, f>>[2] = f
  OBVIOUS
<1>2. PICK after : /\ after[0] = state
                   /\ \A n \in 1 .. 2 : after[n] = Follow(after[n - 1], <<e, f>>[n])
                   /\ Following(state, <<e, f>>) = after[2]
  BY <1>1, FollowingStepwise
<1>3. after[1] = Follow(after[0], <<e, f>>[1]) /\ after[2] = Follow(after[1], <<e, f>>[2])
  BY <1>2
<1> QED BY <1>1, <1>2, <1>3

LEMMA FollowingThree ==
  ASSUME NEW state, NEW e, NEW f, NEW g
  PROVE  Following(state, <<e, f, g>>) = Follow(Follow(Follow(state, e), f), g)
<1>1. Len(<<e, f, g>>) = 3 /\ <<e, f, g>>[1] = e /\ <<e, f, g>>[2] = f /\ <<e, f, g>>[3] = g
  OBVIOUS
<1>2. PICK after : /\ after[0] = state
                   /\ \A n \in 1 .. 3 : after[n] = Follow(after[n - 1], <<e, f, g>>[n])
                   /\ Following(state, <<e, f, g>>) = after[3]
  BY <1>1, FollowingStepwise
<1>3. /\ after[1] = Follow(after[0], <<e, f, g>>[1])
      /\ after[2] = Follow(after[1], <<e, f, g>>[2])
      /\ after[3] = Follow(after[2], <<e, f, g>>[3])
  BY <1>2
<1> QED BY <1>1, <1>2, <1>3

\* What the machines do at the steps that are asked of them.
LEMMA Followed ==
  /\ \A s : /\ Follow(s, "health.checked") = s
            /\ Follow(s, "session.degraded") = TransitionIfAllowed(s, "degraded")
            /\ Follow(s, "recovery.failed") = TransitionIfAllowed(s, "degraded")
            /\ Follow(s, "recovery.started") = TransitionIfAllowed(s, "recovering")
            /\ Follow(s, "recovery.completed") = TransitionIfAllowed(s, "ready")
            /\ Follow(s, "watch.failed") = TransitionIfAllowed(s, "failed")
  /\ TransitionIfAllowed("ready", "degraded") = "degraded"
  /\ TransitionIfAllowed("recovering", "degraded") = "degraded"
  /\ TransitionIfAllowed("degraded", "recovering") = "recovering"
  /\ TransitionIfAllowed("recovering", "ready") = "ready"
  /\ TransitionIfAllowed("ready", "failed") = "failed"
  /\ TransitionIfAllowed("degraded", "failed") = "failed"
<1>1. ASSUME NEW s, NEW t
      PROVE  (CHOOSE u \in {t} : TRUE) = t
  OBVIOUS
<1>2. \A s : /\ Follow(s, "health.checked") = s
             /\ Follow(s, "session.degraded") = TransitionIfAllowed(s, "degraded")
             /\ Follow(s, "recovery.failed") = TransitionIfAllowed(s, "degraded")
             /\ Follow(s, "recovery.started") = TransitionIfAllowed(s, "recovering")
             /\ Follow(s, "recovery.completed") = TransitionIfAllowed(s, "ready")
             /\ Follow(s, "watch.failed") = TransitionIfAllowed(s, "failed")
  BY <1>1 DEF Follow, StateFor
<1>3. /\ TransitionIfAllowed("ready", "degraded") = "degraded"
      /\ TransitionIfAllowed("recovering", "degraded") = "degraded"
      /\ TransitionIfAllowed("degraded", "recovering") = "recovering"
      /\ TransitionIfAllowed("recovering", "ready") = "ready"
      /\ TransitionIfAllowed("ready", "failed") = "failed"
      /\ TransitionIfAllowed("degraded", "failed") = "failed"
  BY DEF TransitionIfAllowed, CanTransition, AllowedTransitions, Working, SessionState
<1> QED BY <1>2, <1>3

-----------------------------------------------------------------------------
(* A step of the watcher *)

\* The steps the watcher asks of its machine.
LEMMA WatcherMachine ==
  /\ Watch!Transition(Watch!Transition(Watch!Transition(Watch!Transition("planning",
       "acquiring-target"), "preparing-ports"), "starting-child"), "ready") = "ready"
  /\ Watch!Transition("ready", "degraded") = "degraded"
  /\ Watch!Transition("recovering", "degraded") = "degraded"
  /\ Watch!Transition("degraded", "recovering") = "recovering"
  /\ Watch!Transition("degraded", "failed") = "failed"
  /\ Watch!Transition("recovering", "ready") = "ready"
<1> USE DEF Watch!Transition, Watch!CanTransition, Watch!AllowedTransitions, Watch!Working,
            Watch!SessionState
<1>1. /\ Watch!Transition("planning", "acquiring-target") = "acquiring-target"
      /\ Watch!Transition("acquiring-target", "preparing-ports") = "preparing-ports"
      /\ Watch!Transition("preparing-ports", "starting-child") = "starting-child"
      /\ Watch!Transition("starting-child", "ready") = "ready"
  OBVIOUS
<1>2. /\ Watch!Transition("ready", "degraded") = "degraded"
      /\ Watch!Transition("recovering", "degraded") = "degraded"
      /\ Watch!Transition("degraded", "recovering") = "recovering"
      /\ Watch!Transition("degraded", "failed") = "failed"
      /\ Watch!Transition("recovering", "ready") = "ready"
  OBVIOUS
<1> QED BY <1>1, <1>2

\* Counting does not touch the verdict of a summary.
LEMMA Counting ==
  ASSUME NEW s \in Watch!Summaries
  PROVE  /\ \A changed \in BOOLEAN :
              LET t == [s EXCEPT !.targetChanges = IF changed THEN @ + 1 ELSE @]
              IN  t \in Watch!Summaries /\ t.failed = s.failed
         /\ LET t == [s EXCEPT !.failed = TRUE]
            IN  t \in Watch!Summaries /\ t.failed
         /\ LET t == [s EXCEPT !.checks = @ + 1]
            IN  t \in Watch!Summaries /\ t.failed = s.failed
         /\ LET t == [s EXCEPT !.recoveryAttempts = @ + 1]
            IN  t \in Watch!Summaries /\ t.failed = s.failed
         /\ LET t == [s EXCEPT !.checks = @ + 1, !.degradations = @ + 1]
            IN  t \in Watch!Summaries /\ t.failed = s.failed
         /\ LET t == [s EXCEPT !.checks = @ + 1, !.recoveries = @ + 1]
            IN  t \in Watch!Summaries /\ t.failed = s.failed
<1> USE DEF Watch!Summaries
<1>1. ASSUME NEW changed \in BOOLEAN
      PROVE  LET t == [s EXCEPT !.targetChanges = IF changed THEN @ + 1 ELSE @]
             IN  t \in Watch!Summaries /\ t.failed = s.failed
  OBVIOUS
<1>2. LET t == [s EXCEPT !.failed = TRUE] IN t \in Watch!Summaries /\ t.failed
  OBVIOUS
<1>3. \A u \in Watch!Summaries : LET t == [u EXCEPT !.checks = @ + 1]
                                 IN  t \in Watch!Summaries /\ t.failed = u.failed
  OBVIOUS
<1>4. LET t == [s EXCEPT !.recoveryAttempts = @ + 1]
      IN  t \in Watch!Summaries /\ t.failed = s.failed
  OBVIOUS
<1>5. LET t == [s EXCEPT !.checks = @ + 1, !.degradations = @ + 1]
      IN  t \in Watch!Summaries /\ t.failed = s.failed
  <2>1. \A u \in Watch!Summaries : LET t == [u EXCEPT !.degradations = @ + 1]
                                   IN  t \in Watch!Summaries /\ t.failed = u.failed
    OBVIOUS
  <2>2. [s EXCEPT !.checks = @ + 1, !.degradations = @ + 1]
          = [[s EXCEPT !.checks = @ + 1] EXCEPT !.degradations = @ + 1]
    OBVIOUS
  <2> HIDE DEF Watch!Summaries
  <2> QED BY <1>3, <2>1, <2>2
<1>6. LET t == [s EXCEPT !.checks = @ + 1, !.recoveries = @ + 1]
      IN  t \in Watch!Summaries /\ t.failed = s.failed
  <2>1. \A u \in Watch!Summaries : LET t == [u EXCEPT !.recoveries = @ + 1]
                                   IN  t \in Watch!Summaries /\ t.failed = u.failed
    OBVIOUS
  <2>2. [s EXCEPT !.checks = @ + 1, !.recoveries = @ + 1]
          = [[s EXCEPT !.checks = @ + 1] EXCEPT !.recoveries = @ + 1]
    OBVIOUS
  <2> HIDE DEF Watch!Summaries
  <2> QED BY <1>3, <2>1, <2>2
<1> HIDE DEF Watch!Summaries
<1> QED BY <1>1, <1>2, <1>3, <1>4, <1>5, <1>6

\* What the session makes of a step of the watcher that it has followed so far.
InStep ==
  LET followed == Following(machine, emitted')
  IN  /\ summary' \in Watch!Summaries
      /\ wpc' \in {"interval", "observe"} =>
           machine' = "ready" /\ followed = "ready" /\ ~summary'.failed
      /\ wpc' \in {"delay", "recover", "verify"} =>
           machine' = "recovering" /\ followed = "recovering" /\ ~summary'.failed
      /\ wpc' = "done" /\ summary'.failed => followed = "failed"
      /\ wpc' \in Watch!Running \cup {"done"} /\ followed \in {"ready", "recovering", "failed"}

LEMMA Appending ==
  ASSUME NEW a, NEW b, NEW c
  PROVE  Append(<<a>>, c) = <<a, c>> /\ Append(<<a, b>>, c) = <<a, b, c>>
<1> DEFINE S == {a, b, c}
<1>1. Append(<<a>>, c) = <<a, c>>
  <2> DEFINE s == Append(<<a>>, c)
             t == <<a, c>>
  <2>1. /\ s \in Seq(S) /\ t \in Seq(S) /\ Len(s) = 2 /\ Len(t) = 2
        /\ s[1] = t[1] /\ s[2] = t[2]
    OBVIOUS
  <2> HIDE DEF s, t, S
  <2>2. \A i \in 1 .. Len(s) : s[i] = t[i]
    BY <2>1
  <2> QED BY <2>1, <2>2, SeqEqual DEF s, t
<1>2. Append(<<a, b>>, c) = <<a, b, c>>
  <2> DEFINE s == Append(<<a, b>>, c)
             t == <<a, b, c>>
  <2>1. /\ s \in Seq(S) /\ t \in Seq(S) /\ Len(s) = 3 /\ Len(t) = 3
        /\ s[1] = t[1] /\ s[2] = t[2] /\ s[3] = t[3]
    OBVIOUS
  <2> HIDE DEF s, t, S
  <2>2. \A i \in 1 .. Len(s) : s[i] = t[i]
    BY <2>1
  <2> QED BY <2>1, <2>2, SeqEqual DEF s, t
<1> QED BY <1>1, <1>2

\* The head of the attempt loop, after two events or one that left it degraded.
LEMMA AttemptInStep ==
  ASSUME NEW n, NEW time, NEW counted \in Watch!Summaries, ~counted.failed,
         NEW told, NEW first, NEW second,
         \/ told = <<first>> /\ Follow(machine, first) = "degraded"
         \/ told = <<first, second>> /\ Follow(Follow(machine, first), second) = "degraded",
         Watch!NextAttempt(n, time, counted, "degraded", told)
  PROVE  InStep
<1> DEFINE last == IF Watch!AttemptAllowed(n, time) THEN "recovery.started" ELSE "watch.failed"
<1>1. /\ emitted' = Append(told, last)
      /\ last = "recovery.started" =>
           /\ wpc' = "delay" /\ machine' = "recovering"
           /\ summary' = [counted EXCEPT !.recoveryAttempts = @ + 1]
      /\ last = "watch.failed" => wpc' = "done" /\ summary' = [counted EXCEPT !.failed = TRUE]
      /\ last \in {"recovery.started", "watch.failed"}
  BY WatcherMachine DEF Watch!NextAttempt, Watch!Emit
<1> HIDE DEF last
<1>2. Following(machine, emitted') = TransitionIfAllowed("degraded",
        IF last = "recovery.started" THEN "recovering" ELSE "failed")
  <2>1. Follow("degraded", last) = TransitionIfAllowed("degraded",
          IF last = "recovery.started" THEN "recovering" ELSE "failed")
    BY <1>1, Followed
  <2>2. CASE told = <<first>> /\ Follow(machine, first) = "degraded"
    <3>1. emitted' = <<first, last>>
      BY <1>1, <2>2, Appending
    <3>2. Following(machine, <<first, last>>) = Follow(Follow(machine, first), last)
      BY FollowingTwo
    <3> QED BY <2>1, <2>2, <3>1, <3>2
  <2>3. CASE told = <<first, second>> /\ Follow(Follow(machine, first), second) = "degraded"
    <3>1. emitted' = <<first, second, last>>
      BY <1>1, <2>3, Appending
    <3>2. Following(machine, <<first, second, last>>)
            = Follow(Follow(Follow(machine, first), second), last)
      BY FollowingThree
    <3> QED BY <2>1, <2>3, <3>1, <3>2
  <2> QED BY <2>2, <2>3
<1>3. CASE last = "recovery.started"
  <2>1. Following(machine, emitted') = "recovering"
    BY <1>2, <1>3, Followed
  <2> DEFINE begun == [counted EXCEPT !.recoveryAttempts = @ + 1]
  <2>2. begun \in Watch!Summaries /\ begun.failed = counted.failed
    BY Counting
  <2>3. summary' = begun
    BY <1>1, <1>3
  <2> HIDE DEF begun
  <2> QED BY <1>1, <1>3, <2>1, <2>2, <2>3 DEF InStep, Watch!Running
<1>4. CASE last = "watch.failed"
  <2>1. Following(machine, emitted') = "failed"
    BY <1>2, <1>4, Followed
  <2> DEFINE given == [counted EXCEPT !.failed = TRUE]
  <2>2. given \in Watch!Summaries
    BY Counting
  <2>3. summary' = given
    BY <1>1, <1>4
  <2> HIDE DEF given
  <2> QED BY <1>1, <1>4, <2>1, <2>2, <2>3 DEF InStep
<1> QED BY <1>1, <1>3, <1>4

LEMMA WatcherInStep ==
  ASSUME Types, Machines, Extent, Watch!Progress \/ Watch!TimePasses
  PROVE  wpc \in Watch!Running /\ InStep
<1>0. summary \in Watch!Summaries
  BY DEF Types
<1>1. /\ wpc \in {"interval", "observe"} => machine = "ready" /\ ~summary.failed
      /\ wpc \in {"delay", "recover", "verify"} => machine = "recovering" /\ ~summary.failed
      /\ wpc \in Watch!Running => machine \in {"ready", "recovering"} /\ ~summary.failed
  BY DEF Machines, Extent, Watch!Running
<1>2. Following(machine, <<>>) = machine
  BY FollowingNone
<1>3. CASE Watch!Stopped
  BY <1>0, <1>1, <1>2, <1>3 DEF Watch!Stopped, Watch!Emit, InStep, Watch!Running
<1>4. ASSUME NEW changed \in BOOLEAN, Watch!StoppedInRecovery(changed) \/ Watch!Recovered(changed)
      PROVE  wpc \in Watch!Running /\ InStep
  <2>1. /\ wpc = "recover" /\ emitted' = <<>> /\ machine' = machine /\ wpc' \in {"done", "verify"}
        /\ summary' = [summary EXCEPT !.targetChanges = IF changed THEN @ + 1 ELSE @]
    BY <1>4 DEF Watch!StoppedInRecovery, Watch!Recovered, Watch!Await, Watch!Emit
  <2>2. summary' \in Watch!Summaries /\ summary'.failed = summary.failed
    BY <1>0, <2>1, Counting
  <2> QED BY <1>1, <1>2, <2>1, <2>2 DEF InStep, Watch!Running
<1>5. CASE Watch!IntervalOver \/ Watch!DelayOver \/ Watch!TimePasses
  BY <1>0, <1>1, <1>2, <1>5
     DEF Watch!IntervalOver, Watch!DelayOver, Watch!TimePasses, Watch!Await, Watch!Emit, InStep,
         Watch!Running
<1>6. CASE Watch!ObserveThrows
  <2>1. /\ wpc = "observe" /\ wpc' = "done" /\ emitted' = <<"watch.failed">>
        /\ summary' = [summary EXCEPT !.failed = TRUE]
    BY <1>6 DEF Watch!ObserveThrows, Watch!Await, Watch!Emit
  <2>2. Following(machine, emitted') = "failed"
    BY <1>1, <2>1, FollowingOne, Followed
  <2>3. summary' \in Watch!Summaries
    BY <1>0, <2>1, Counting
  <2> QED BY <2>1, <2>2, <2>3 DEF InStep, Watch!Running
<1>7. CASE Watch!ObserveHealthy
  <2>1. /\ wpc = "observe" /\ wpc' = "interval" /\ emitted' = <<"health.checked">>
        /\ summary' = [summary EXCEPT !.checks = @ + 1] /\ machine' = machine
    BY <1>7 DEF Watch!ObserveHealthy, Watch!Await, Watch!Emit
  <2>2. Following(machine, emitted') = Follow(machine, "health.checked")
    BY <2>1, FollowingOne
  <2>4. Following(machine, emitted') = "ready"
    BY <1>1, <2>1, <2>2, Followed
  <2>3. summary' \in Watch!Summaries /\ summary'.failed = summary.failed
    BY <1>0, <2>1, Counting
  <2> QED BY <1>1, <2>1, <2>3, <2>4 DEF InStep, Watch!Running
<1>8. CASE Watch!ObserveUnhealthy
  <2> DEFINE counted == [summary EXCEPT !.checks = @ + 1, !.degradations = @ + 1]
  <2>1. wpc = "observe" /\ machine = "ready"
    BY <1>1, <1>8 DEF Watch!ObserveUnhealthy
  <2>2. counted \in Watch!Summaries /\ counted.failed = summary.failed
    BY <1>0, Counting
  <2> HIDE DEF counted
  <2>3. Watch!NextAttempt(1, 0, counted, "degraded", <<"health.checked", "session.degraded">>)
    BY <1>8, <2>1, WatcherMachine DEF Watch!ObserveUnhealthy, counted
  <2>4. Follow(Follow(machine, "health.checked"), "session.degraded") = "degraded"
    BY <2>1, Followed
  <2> QED BY <1>1, <2>1, <2>2, <2>3, <2>4, AttemptInStep DEF Watch!Running
<1>9. CASE Watch!VerifyHealthy
  <2>1. /\ wpc = "verify" /\ wpc' = "interval"
        /\ emitted' = <<"health.checked", "recovery.completed">>
        /\ machine' = Watch!Transition(machine, "ready")
        /\ summary' = [summary EXCEPT !.checks = @ + 1, !.recoveries = @ + 1]
    BY <1>9 DEF Watch!VerifyHealthy, Watch!Await, Watch!Emit
  <2>2. machine = "recovering" /\ machine' = "ready"
    BY <1>1, <2>1, WatcherMachine
  <2>5. Following(machine, <<"health.checked", "recovery.completed">>)
          = Follow(Follow(machine, "health.checked"), "recovery.completed")
    BY FollowingTwo
  <2>4. Following(machine, emitted') = "ready"
    BY <2>1, <2>2, <2>5, Followed
  <2>3. summary' \in Watch!Summaries /\ summary'.failed = summary.failed
    BY <1>0, <2>1, Counting
  <2> QED BY <1>1, <2>1, <2>2, <2>3, <2>4 DEF InStep, Watch!Running
<1>10. CASE Watch!VerifyUnhealthy
  <2> DEFINE counted == [summary EXCEPT !.checks = @ + 1]
  <2>1. wpc = "verify" /\ machine = "recovering"
    BY <1>1, <1>10 DEF Watch!VerifyUnhealthy
  <2>2. counted \in Watch!Summaries /\ counted.failed = summary.failed
    BY <1>0, Counting
  <2> HIDE DEF counted
  <2>3. Watch!NextAttempt(attempt + 1, elapsed, counted, "degraded",
                          <<"health.checked", "recovery.failed">>)
    BY <1>10, <2>1, WatcherMachine DEF Watch!VerifyUnhealthy, counted
  <2>4. Follow(Follow(machine, "health.checked"), "recovery.failed") = "degraded"
    BY <2>1, Followed
  <2> QED BY <1>1, <2>1, <2>2, <2>3, <2>4, AttemptInStep DEF Watch!Running
<1>11. CASE Watch!VerifyThrows
  <2>1. wpc = "verify" /\ machine = "recovering"
    BY <1>1, <1>11 DEF Watch!VerifyThrows
  <2>2. Watch!NextAttempt(attempt + 1, elapsed, summary, "degraded", <<"recovery.failed">>)
    BY <1>11, <2>1, WatcherMachine DEF Watch!VerifyThrows
  <2>3. Follow(machine, "recovery.failed") = "degraded"
    BY <2>1, Followed
  <2> QED BY <1>0, <1>1, <2>1, <2>2, <2>3, AttemptInStep DEF Watch!Running
<1> QED
  BY <1>3, <1>4, <1>5, <1>6, <1>7, <1>8, <1>9, <1>10, <1>11 DEF Watch!Progress

-----------------------------------------------------------------------------
(* Steps that share what they change *)

ProcTypes == [Procs -> [at : {"none", "running"} \cup Settled, abort : BOOLEAN]]

\* Aborting a process says nothing of where it stands.
LEMMA Aborting ==
  ASSUME proc \in ProcTypes
  PROVE  /\ \A p \in Procs :
              /\ AbortOne(p) \in ProcTypes
              /\ AbortOne(p)[p].abort
              /\ \A q \in Procs : AbortOne(p)[q].at = proc[q].at
              /\ \A q \in Procs \ {p} : AbortOne(p)[q].abort = proc[q].abort
         /\ AbortBoth \in ProcTypes
         /\ \A p \in Procs : AbortBoth[p].abort /\ AbortBoth[p].at = proc[p].at
  BY DEF ProcTypes, AbortOne, AbortBoth

LEMMA TypesOfProcs == ASSUME Types PROVE proc \in ProcTypes
  BY DEF Types, ProcTypes

\* transition() to the end, from wherever the session stands.
LEMMA CompleteEnds ==
  ASSUME NEW s \in SessionState
  PROVE  /\ TransitionIfAllowed(s, "failed") \in SessionState
         /\ TransitionIfAllowed(TransitionIfAllowed(s, "stopping"), "ended") = "ended"
  BY DEF TransitionIfAllowed, CanTransition, AllowedTransitions, Working, SessionState

\* A session that is over reports what was reported so far and the last problem.
LEMMA Completed ==
  ASSUME session \in SessionState, NEW reported, Complete(reported)
  PROVE  /\ pc' = "ended" /\ problems' = reported /\ session' = "ended"
         /\ status' \in {"completed", "interrupted", "failed"}
         /\ status' = "completed" <=> reported = {}
<1> DEFINE failed == reported \ {"Interrupted"} # {}
           stopping == IF failed THEN TransitionIfAllowed(session, "failed") ELSE session
<1>1. stopping \in SessionState
  BY CompleteEnds
<1>2. session' = TransitionIfAllowed(TransitionIfAllowed(stopping, "stopping"), "ended")
  BY DEF Complete
<1>3. session' = "ended"
  <2> HIDE DEF stopping
  <2> QED BY <1>1, <1>2, CompleteEnds
<1>4. /\ pc' = "ended" /\ problems' = reported
      /\ status' = IF "Interrupted" \in reported THEN "interrupted"
                   ELSE IF failed THEN "failed" ELSE "completed"
  BY DEF Complete
<1>5. reported = {} <=> ~("Interrupted" \in reported) /\ ~failed
  OBVIOUS
<1> QED BY <1>3, <1>4, <1>5

-----------------------------------------------------------------------------
(* The invariant holds initially and is kept *)

LEMMA InvInit == Init => IInv
<1> SUFFICES ASSUME Init PROVE IInv
  OBVIOUS
<1> USE DEF Init, Watch!WInit, NotStarted, Child, Verifier
<1>1. Watch!NoSummary \in Watch!Summaries /\ ~Watch!NoSummary.failed
  BY DEF Watch!NoSummary, Watch!Summaries
<1>2. Types
  BY <1>1 DEF Types, Pcs, SessionState, Problems, Settled, Causes
<1>3. Machines
  BY DEF Machines, Gating, SessionFollowsWatcher, Watch!Running
<1>4. Extent
  BY <1>1 DEF Extent, Gating, NoneYet, TearingDown, Leaving, Watch!Running, Procs
<1>5. Reasons
  BY DEF Reasons, TearingDown, Procs
<1>6. Reported
  BY DEF Reported, Gating
<1>7. Outcome
  BY DEF Outcome, HonestCompletion, NothingLeftBehind, InterruptedExits130
<1> QED BY <1>2, <1>3, <1>4, <1>5, <1>6, <1>7 DEF IInv

\* The preparation of a session, up to the child.
LEMMA PreparationKeeps ==
  ASSUME IInv, Discover \/ ListPorts \/ EarlyHooks \/ PreparePorts \/ ProbeMetro
  PROVE  IInv'
<1> USE DEF IInv
<1>1. CASE Discover
  <2>1. session' = "preparing-ports"
    BY <1>1 DEF Discover, Enter, Go, Machines, TransitionIfAllowed, CanTransition,
       AllowedTransitions
  <2> USE <1>1, <2>1 DEF Discover, Go, Prepare, NoOutcome, Untouched, NoGate, watchVars, outcome
  <2>2. Types'
    BY DEF Types, Pcs, SessionState
  <2>3. Machines'
    BY DEF Machines, Gating, SessionFollowsWatcher, Extent, Watched, TearingDown, Leaving,
           Watch!Running
  <2>4. Extent'
    BY DEF Extent, Gating, NoneYet, TearingDown, Leaving, Watched, Child, Verifier, Pcs, Procs
  <2>5. Reasons'
    BY DEF Reasons, TearingDown, Leaving, Deliberate, Child, Verifier, Settled, Procs
  <2>6. Reported'
    BY DEF Reported, Gating
  <2>7. Outcome'
    BY DEF Outcome, PortsLeft, Earned, HonestCompletion, NothingLeftBehind, InterruptedExits130,
           Child, Verifier, Extent, Reasons, Reported, Leaving, Types, Procs
  <2> QED BY <2>2, <2>3, <2>4, <2>5, <2>6, <2>7
<1>2. CASE ListPorts
  <2> USE <1>2 DEF ListPorts, Go, Prepare, NoOutcome, Untouched, NoGate, watchVars, outcome
  <2>2. Types'
    BY DEF Types, Pcs, SessionState
  <2>3. Machines'
    BY DEF Machines, Gating, SessionFollowsWatcher, Extent, Watched, TearingDown, Leaving,
           Watch!Running
  <2>4. Extent'
    BY DEF Extent, Gating, NoneYet, TearingDown, Leaving, Watched, Child, Verifier, Pcs, Procs
  <2>5. Reasons'
    BY DEF Reasons, TearingDown, Leaving, Deliberate, Child, Verifier, Settled, Procs
  <2>6. Reported'
    BY DEF Reported, Gating
  <2>7. Outcome'
    BY DEF Outcome, PortsLeft, Earned, HonestCompletion, NothingLeftBehind, InterruptedExits130,
           Child, Verifier, Extent, Reasons, Reported, Leaving, Types, Procs
  <2> QED BY <2>2, <2>3, <2>4, <2>5, <2>6, <2>7
<1>3. CASE EarlyHooks
  <2>1. /\ problems' \subseteq Problems /\ pc = "earlyHooks" /\ pc' \in {"prepare", "finally"}
        /\ pc' = "prepare" => problems' \subseteq {"Interrupted"}
        /\ pc' = "finally" => problems' # {}
        /\ problems \subseteq problems'
        /\ UNCHANGED <<opts, signal, reachedReady, readyHooksSucceeded, firstCompletion, session,
                       ports, attached, proc, status, exitCode, watchVars>>
    BY <1>3 DEF EarlyHooks, HookPasses, HookTolerated, HookFails, CallFailure, Report, Failing,
       Reported, Problems, Types, Prepare, NoOutcome, Untouched, NoGate, watchVars, outcome
  <2> USE <2>1 DEF watchVars
  <2>2. Types'
    BY DEF Types, Pcs, SessionState
  <2>3. Machines'
    BY DEF Machines, Gating, SessionFollowsWatcher, Extent, Watched, TearingDown, Leaving,
           Watch!Running
  <2>4. Extent'
    BY DEF Extent, Gating, NoneYet, TearingDown, Leaving, Watched, Child, Verifier, Pcs, Procs
  <2>5. Reasons'
    BY DEF Reasons, TearingDown, Leaving, Deliberate, Child, Verifier, Settled, Procs
  <2>6. Reported'
    BY DEF Reported, Gating
  <2>7. Outcome'
    BY DEF Outcome, PortsLeft, Earned, HonestCompletion, NothingLeftBehind, InterruptedExits130,
           Child, Verifier, Extent, Reasons, Reported, Leaving, Types, Procs
  <2> QED BY <2>2, <2>3, <2>4, <2>5, <2>6, <2>7
<1>4. CASE PreparePorts
  <2>1. /\ problems' \subseteq Problems /\ pc = "prepare" /\ pc' \in {"probe", "abandon"}
        /\ pc' = "probe" => problems' = {}
        /\ pc' = "abandon" => problems' # {}
        /\ problems \subseteq problems'
        /\ ports' \in {"reused", "owned"}
        /\ UNCHANGED <<opts, signal, reachedReady, readyHooksSucceeded, firstCompletion, session,
                       attached, proc, status, exitCode, watchVars>>
    BY <1>4 DEF PreparePorts, CallFailure, Report, Failing, Problems, Types, Prepare, NoOutcome,
       Untouched, NoGate, watchVars, outcome
  <2> USE <2>1 DEF watchVars
  <2>2. Types'
    BY DEF Types, Pcs, SessionState
  <2>3. Machines'
    BY DEF Machines, Gating, SessionFollowsWatcher, Extent, Watched, TearingDown, Leaving,
           Watch!Running
  <2>4. Extent'
    BY DEF Extent, Gating, NoneYet, TearingDown, Leaving, Watched, Child, Verifier, Pcs, Procs
  <2>5. Reasons'
    BY DEF Reasons, TearingDown, Leaving, Deliberate, Child, Verifier, Settled, Procs
  <2>6. Reported'
    BY DEF Reported, Gating
  <2>7. Outcome'
    BY DEF Outcome, PortsLeft, Earned, HonestCompletion, NothingLeftBehind, InterruptedExits130,
           Child, Verifier, Extent, Reasons, Reported, Leaving, Types, Procs
  <2> QED BY <2>2, <2>3, <2>4, <2>5, <2>6, <2>7
<1>5. CASE ProbeMetro
  <2>1. /\ problems' \subseteq Problems /\ pc = "probe" /\ pc' \in {"portsHook", "abandon"}
        /\ pc' = "portsHook" => problems' = {} /\ session' \in {"starting-child", "attaching-child"}
        /\ pc' = "abandon" => problems' # {} /\ session' = session
        /\ problems \subseteq problems'
        /\ UNCHANGED <<opts, signal, reachedReady, readyHooksSucceeded, firstCompletion,
                       ports, proc, status, exitCode, watchVars>> /\ attached' \in BOOLEAN
    <3>1. session = "preparing-ports" /\ problems = {}
      BY <1>5 DEF ProbeMetro, Machines, Reported
    <3>2. /\ TransitionIfAllowed("preparing-ports", "attaching-child") = "attaching-child"
          /\ TransitionIfAllowed("preparing-ports", "starting-child") = "starting-child"
      BY DEF TransitionIfAllowed, CanTransition, AllowedTransitions
    <3>3. opts.metro \in BOOLEAN /\ attached \in BOOLEAN
      BY OptionsAssumption DEF Types, OptionRecords
    <3> QED BY <1>5, <3>1, <3>2, <3>3 DEF ProbeMetro, CallFailure, Report, Enter, Problems,
               Types, Prepare, NoOutcome, Untouched, NoGate, watchVars, outcome
  <2> USE <2>1 DEF watchVars
  <2>2. Types'
    BY DEF Types, Pcs, SessionState
  <2>3. Machines'
    BY DEF Machines, Gating, SessionFollowsWatcher, Extent, Watched, TearingDown, Leaving,
           Watch!Running
  <2>4. Extent'
    BY DEF Extent, Gating, NoneYet, TearingDown, Leaving, Watched, Child, Verifier, Pcs, Procs
  <2>5. Reasons'
    BY DEF Reasons, TearingDown, Leaving, Deliberate, Child, Verifier, Settled, Procs
  <2>6. Reported'
    BY DEF Reported, Gating
  <2>7. Outcome'
    BY DEF Outcome, PortsLeft, Earned, HonestCompletion, NothingLeftBehind, InterruptedExits130,
           Child, Verifier, Extent, Reasons, Reported, Leaving, Types, Procs
  <2> QED BY <2>2, <2>3, <2>4, <2>5, <2>6, <2>7
<1> QED BY <1>1, <1>2, <1>3, <1>4, <1>5

\* A failure before the hooks ends the session with what failed.
LEMMA GivingUpKeeps ==
  ASSUME IInv, GiveUp
  PROVE  IInv'
<1> USE DEF IInv
<1>0. PICK reported \in {problems \cup {"Interrupted"}, problems \cup {"Adb"}, problems \cup {"Conflict"}} :
        Complete(reported)
  BY DEF GiveUp, CallFailure
<1>1. /\ pc \in {"discover", "list"} /\ pc' = "ended" /\ session' = "ended"
      /\ problems' \subseteq Problems /\ problems' # {}
      /\ status' \in {"interrupted", "failed"} /\ exitCode' = ExitOf(problems')
      /\ UNCHANGED <<opts, signal, reachedReady, readyHooksSucceeded, firstCompletion,
                     ports, attached, proc, watchVars>>
  <2>1. session \in SessionState /\ problems \subseteq Problems
    BY DEF Types
  <2>2. /\ pc' = "ended" /\ problems' = reported /\ session' = "ended"
        /\ status' \in {"completed", "interrupted", "failed"}
        /\ status' = "completed" <=> reported = {}
    BY <1>0, <2>1, Completed
  <2> QED BY <2>1, <2>2 DEF GiveUp, Prepare, Untouched, NoGate, Problems
<1>9. exitCode' \in {"130", "error"} /\ ("Interrupted" \in problems' => exitCode' = "130")
  BY <1>1 DEF ExitOf
<1>10. ports = "none" /\ wpc \in {"off", "done"} /\ \A p \in Procs : proc[p].at = "none"
  BY <1>1 DEF Extent, Types, NoneYet, Pcs, Gating, TearingDown, Leaving, Watched
<1> USE <1>1, <1>9, <1>10 DEF watchVars
<1>2. Types'
  BY DEF Types, Pcs, SessionState
<1>3. Machines'
  BY DEF Machines, Gating, SessionFollowsWatcher, Extent, Watched, TearingDown, Leaving,
         Watch!Running
<1>4. Extent'
  BY DEF Reasons, Extent, Gating, NoneYet, TearingDown, Leaving, Watched, Child, Verifier, Pcs,
         Procs, Watch!Running
<1>5. Reasons'
  BY DEF Reasons, TearingDown, Leaving, Deliberate, Child, Verifier, Settled, Procs
<1>6. Reported'
  BY DEF Reported, Gating
<1>7. Outcome'
  BY DEF Outcome, HonestCompletion, NothingLeftBehind, InterruptedExits130
<1> QED BY <1>2, <1>3, <1>4, <1>5, <1>6, <1>7

\* The child starts, unless a hook fails or a server was attached.
LEMMA StartingKeeps ==
  ASSUME IInv, PortsHook
  PROVE  IInv'
<1> USE DEF IInv
<1>1. /\ pc = "portsHook" /\ pc' \in {"readiness", "abandon"}
      /\ problems \subseteq problems' /\ problems' \subseteq Problems
      /\ pc' = "readiness" => problems' \subseteq problems \cup {"Interrupted"}
      /\ pc' = "abandon" => problems' # {}
      /\ UNCHANGED <<opts, signal, reachedReady, readyHooksSucceeded, firstCompletion, session,
                     ports, attached, status, exitCode, watchVars>>
  BY DEF PortsHook, HookPasses, HookTolerated, HookFails, CallFailure, Report, Problems, Types,
         Prepare, NoOutcome, Untouched, NoGate, watchVars, outcome
<1>0. /\ proc' \in ProcTypes /\ proc'["verifier"] = proc["verifier"]
      /\ \/ proc' = proc
         \/ /\ pc' = "readiness" /\ proc'["child"].at = "running"
            /\ proc'["child"].abort => signal
  BY TypesOfProcs DEF PortsHook, ProcTypes, Procs, Types
<1> USE <1>0, <1>1 DEF watchVars
<1>2. Types'
  BY DEF ProcTypes, Types, Pcs, SessionState
<1>3. Machines'
  BY DEF Machines, Gating, SessionFollowsWatcher, Extent, Watched, TearingDown, Leaving,
         Watch!Running
<1>4. Extent'
  BY DEF Extent, Gating, NoneYet, TearingDown, Leaving, Watched, Child, Verifier, Pcs, Procs,
         Watch!Running
<1>5. Reasons'
  BY DEF Extent, NoneYet, Gating, Pcs, Reasons, TearingDown, Leaving, Deliberate, Child,
         Verifier, Settled, Procs
<1>6. Reported'
  BY DEF Reported, Gating
<1>7. Outcome'
  BY DEF Outcome, PortsLeft, Earned, HonestCompletion, NothingLeftBehind, InterruptedExits130,
         Child, Verifier, Extent, Reasons, Reported, Leaving, Types, Procs
<1> QED BY <1>2, <1>3, <1>4, <1>5, <1>6, <1>7

\* What a step of the gate does: it passes to the next check, or it closes with
\* a problem, unless the signal is there to explain it.
Passes ==
  /\ pc' \in Gating /\ UNCHANGED <<session, reachedReady, readyHooksSucceeded, proc, watchVars>>
  /\ problems' \in {problems} \cup (IF opts.expo THEN {} ELSE {problems \cup {"Bridge"}})
Closes ==
  /\ pc' = "race" /\ UNCHANGED <<session, reachedReady, readyHooksSucceeded, faults, wpc, machine,
                                 attempt, elapsed, seen, summary, emitted>>
  /\ problems \subseteq problems' /\ problems' \subseteq Problems
  /\ signal \/ problems' # {}
  /\ proc' = AbortOne("child")

LEMMA GateSteps ==
  ASSUME IInv, Readiness \/ Launch \/ Startup \/ ReadyHookFails
  PROVE  /\ pc \in Gating
         /\ UNCHANGED <<opts, signal, status, exitCode, ports, attached, firstCompletion>>
         /\ Passes \/ Closes
<1> USE DEF IInv
<1>1. /\ pc \in Gating
      /\ UNCHANGED <<opts, signal, status, exitCode, ports, attached, firstCompletion>>
  BY DEF Readiness, Launch, Startup, ReadyHookFails, Gating, Untouched, NoOutcome, outcome
<1>2. Child.at = "aborted" => signal \/ problems # {}
  <2>1. Child.at = "aborted" => Deliberate
    BY <1>1 DEF Reasons, Child, Procs, Gating, Leaving
  <2>2. firstCompletion = "none" /\ ~summary.failed /\ Verifier.at \notin Settled
    BY <1>1 DEF Reasons, Extent, Gating, TearingDown, Leaving, Settled, Watch!Running
  <2> QED BY <2>1, <2>2 DEF Deliberate
<1>3. /\ ChildFailure \subseteq Problems /\ problems \subseteq Problems
      /\ Child.at = "failed" => ChildFailure # {}
  BY DEF ChildFailure, Problems, Types
<1> SUFFICES Passes \/ Closes
  BY <1>1
<1>4. CASE Readiness
  <2>1. CASE pc' = "launch" /\ UNCHANGED problems /\ NoWatch
    BY <2>1 DEF Gating, Passes, NoWatch
  <2>2. CASE CloseGate(IF signal THEN {} ELSE {"Readiness"})
    BY <1>3, <2>2 DEF CloseGate, Report, Closes, AbortOne, Problems
  <2> QED BY <1>4, <2>1, <2>2 DEF Readiness
<1>5. CASE Launch
  <2>1. CASE pc' = "startup" /\ UNCHANGED problems /\ NoWatch
    BY <2>1 DEF Gating, Passes, NoWatch
  <2>2. CASE ~opts.expo /\ Report({"Bridge"}) /\ pc' = "startup" /\ NoWatch
    BY <2>2 DEF Gating, Passes, NoWatch, Report
  <2>3. CASE CloseGate({"Bridge"})
    BY <1>3, <2>3 DEF CloseGate, Report, Closes, AbortOne, Problems
  <2>4. CASE CloseGate({"Launch"})
    BY <1>3, <2>4 DEF CloseGate, Report, Closes, AbortOne, Problems
  <2>5. CASE signal /\ CloseGate({})
    BY <1>3, <2>5 DEF CloseGate, Report, Closes, AbortOne
  <2>6. CASE CloseGate({"Interrupted"})
    BY <1>3, <2>6 DEF CloseGate, Report, Closes, AbortOne, Problems
  <2> QED BY <1>5, <2>1, <2>2, <2>3, <2>4, <2>5, <2>6 DEF Launch
<1>6. CASE Child.at \in {"failed", "aborted"} /\ CloseGate({})
  BY <1>2, <1>3, <1>6 DEF CloseGate, Report, Closes, AbortOne
<1>7. CASE Startup
  <2>1. CASE pc' = "readyHook" /\ UNCHANGED problems /\ NoWatch
    BY <2>1 DEF Gating, Passes, NoWatch
  <2> QED BY <1>6, <1>7, <2>1 DEF Startup
<1>8. CASE ReadyHookFails
  <2>1. CASE CloseGate({"Hook"})
    BY <1>3, <2>1 DEF CloseGate, Report, Closes, AbortOne, Problems
  <2>2. CASE CloseGate({"Interrupted"})
    BY <1>3, <2>2 DEF CloseGate, Report, Closes, AbortOne, Problems
  <2> QED BY <1>6, <1>8, <2>1, <2>2 DEF ReadyHookFails, CallFailure
<1> QED BY <1>4, <1>5, <1>7, <1>8

\* The gate, up to the onReady hook.
LEMMA GateKeeps ==
  ASSUME IInv, Readiness \/ Launch \/ Startup \/ ReadyHookFails
  PROVE  IInv'
<1> USE DEF IInv
<1>1. /\ pc \in Gating
      /\ UNCHANGED <<opts, signal, status, exitCode, ports, attached, firstCompletion>>
      /\ Passes \/ Closes
  BY GateSteps
<1>2. ~reachedReady /\ wpc \in {"off", "done"} /\ ~summary.failed /\ Verifier.at = "none"
  BY <1>1 DEF Extent, Gating, TearingDown, Leaving, Types, Watch!Running
<1>3. ASSUME Passes PROVE IInv'
  <2>1. /\ problems' \subseteq Problems /\ problems \subseteq problems'
        /\ problems' \subseteq problems \cup (IF opts.expo THEN {} ELSE {"Bridge"})
    BY <1>3 DEF Passes, Problems, Types
  <2> USE <1>1, <1>2, <1>3, <2>1 DEF Passes, watchVars
  <2>2. Types'
    BY DEF Gating, Types, Pcs, SessionState
  <2>3. Machines'
    BY DEF Machines, Gating, SessionFollowsWatcher, Extent, Watched, TearingDown, Leaving,
           Watch!Running
  <2>4. Extent'
    BY DEF Extent, Gating, NoneYet, TearingDown, Leaving, Watched, Child, Verifier, Pcs, Procs,
           Watch!Running
  <2>5. Reasons'
    BY DEF Gating, Reasons, TearingDown, Leaving, Deliberate, Child, Verifier, Settled, Procs
  <2>6. Reported'
    BY DEF Reported, Gating
  <2>7. Outcome'
    BY DEF Gating, Outcome, PortsLeft, Earned, HonestCompletion, NothingLeftBehind,
           InterruptedExits130, Child, Verifier, Extent, Reasons, Reported, Leaving, Types,
           Procs
  <2> QED BY <2>2, <2>3, <2>4, <2>5, <2>6, <2>7
<1>4. ASSUME Closes PROVE IInv'
  <2>1. /\ proc' \in ProcTypes /\ proc'["verifier"] = proc["verifier"]
        /\ proc'["child"].at = proc["child"].at /\ proc'["child"].abort
    BY <1>4, TypesOfProcs DEF Closes, AbortOne, ProcTypes, Procs
  <2> USE <1>1, <1>2, <1>4, <2>1 DEF Closes
  <2>2. Types'
    BY DEF ProcTypes, Types, Pcs, SessionState
  <2>3. Machines'
    BY DEF Machines, Gating, SessionFollowsWatcher, Extent, Watched, TearingDown, Leaving,
           Watch!Running
  <2>4. Extent'
    BY DEF Extent, Gating, NoneYet, TearingDown, Leaving, Watched, Child, Verifier, Pcs, Procs,
           Watch!Running
  <2>5. Reasons'
    BY DEF Gating, Reasons, TearingDown, Leaving, Deliberate, Child, Verifier, Settled, Procs
  <2>6. Reported'
    BY DEF Reported, Gating
  <2>7. Outcome'
    BY DEF Gating, Outcome, PortsLeft, Earned, HonestCompletion, NothingLeftBehind,
           InterruptedExits130, Child, Verifier, Extent, Reasons, Reported, Leaving, Types,
           Procs
  <2> QED BY <2>2, <2>3, <2>4, <2>5, <2>6, <2>7
<1> QED BY <1>1, <1>3, <1>4

\* The session is ready: its watcher and its verifier start.
LEMMA ReadyHookKeeps ==
  ASSUME IInv, ReadyHook
  PROVE  IInv'
<1> USE DEF IInv
<1>1. session' = "ready"
  BY DEF ReadyHook, Enter, Machines, Gating, TransitionIfAllowed, CanTransition,
         AllowedTransitions
<1>2. /\ pc = "readyHook" /\ pc' = "race" /\ reachedReady' /\ readyHooksSucceeded'
      /\ problems \subseteq problems' /\ problems' \subseteq Problems
      /\ UNCHANGED <<opts, signal, firstCompletion, ports, attached, status, exitCode>>
  BY DEF ReadyHook, HookPasses, HookTolerated, Report, Problems, Types, NoOutcome, Untouched,
         outcome
<1>3. /\ proc' \in ProcTypes /\ proc'["child"] = proc["child"]
      /\ proc'["verifier"].at = IF opts.verify THEN "running" ELSE "none"
  BY TypesOfProcs DEF ReadyHook, ProcTypes, Procs, Types, Extent, Gating, Verifier
<1>4. wpc = "off" /\ machine = "planning" /\ ~summary.failed /\ Verifier.at = "none"
  BY DEF ReadyHook, Extent, Machines, TearingDown, Leaving, Types, Gating
<1>5. /\ wpc' \in {"off", "done", "interval"} /\ summary' = summary
      /\ wpc' = "off" => machine' = "planning"
      /\ wpc' = "interval" => machine' = "ready"
  BY <1>4, WatcherMachine DEF ReadyHook, Watch!Start, watchVars
<1> USE <1>1, <1>2, <1>3, <1>4, <1>5
<1>6. Types'
  BY DEF ProcTypes, Watch!Running, Types, Pcs, SessionState
<1>7. Machines'
  BY DEF Machines, Gating, SessionFollowsWatcher, Extent, Watched, TearingDown, Leaving,
         Watch!Running
<1>8. Extent'
  BY DEF Extent, Gating, NoneYet, TearingDown, Leaving, Watched, Child, Verifier, Pcs, Procs,
         Watch!Running
<1>9. Reasons'
  BY DEF Reasons, TearingDown, Leaving, Deliberate, Child, Verifier, Settled, Procs
<1>10. Reported'
  BY DEF Reported, Gating
<1>11. Outcome'
  BY DEF Outcome, PortsLeft, Earned, HonestCompletion, NothingLeftBehind, InterruptedExits130,
         Child, Verifier, Extent, Reasons, Reported, Leaving, Types, Procs
<1> QED BY <1>6, <1>7, <1>8, <1>9, <1>10, <1>11

\* The first completion, and the processes it makes end.
LEMMA WaitingKeeps ==
  ASSUME IInv, Race \/ AwaitWatch \/ AwaitVerifier
  PROVE  IInv'
<1> USE DEF IInv
<1>1. /\ pc \in {"race", "awaitWatch", "awaitVerifier"} /\ pc' \in {"awaitWatch", "awaitVerifier", "awaitChild"}
      /\ pc = "race" => pc' = "awaitWatch" /\ proc' = proc
      /\ pc = "awaitWatch" => wpc \notin Watch!Running /\ pc' = "awaitVerifier"
      /\ pc = "awaitVerifier" => pc' = "awaitChild" /\ Verifier.at # "running"
      /\ UNCHANGED <<opts, signal, reachedReady, readyHooksSucceeded, session, problems, ports,
                     attached, status, exitCode, wpc, machine, summary>>
  BY DEF Race, AwaitWatch, AwaitVerifier, Go, TearDown, Untouched, NoOutcome, outcome,
         WatchIdle, watchVars, Watch!Running
<1>2. /\ firstCompletion' \in Causes
      /\ pc # "race" => firstCompletion' = firstCompletion
      /\ pc = "race" =>
           /\ firstCompletion' # "none"
           /\ firstCompletion' = "verification" => Verifier.at \in Settled
           /\ firstCompletion' = "watch-failed" => summary.failed
           /\ firstCompletion' = "signal" => signal
  BY DEF Race, AwaitWatch, AwaitVerifier, Go, Resolved, Types
<1>3. proc' \in ProcTypes /\ \A p \in Procs : proc'[p].at = proc[p].at /\ (proc[p].abort => proc'[p].abort)
  <2>1. proc' \in {proc, AbortBoth} \cup {AbortOne(p) : p \in Procs}
    BY DEF Race, AwaitWatch, AwaitVerifier, Go, Procs
  <2> QED BY <2>1, TypesOfProcs, Aborting
<1>4. proc'["child"].abort => Deliberate
  <2>1. CASE proc["child"].abort
    BY <1>1, <2>1 DEF Reasons, Child, Leaving
  <2>2. CASE AwaitWatch /\ firstCompletion # "child"
    BY <2>2 DEF AwaitWatch, Go, Deliberate, Reasons, Causes, Types
  <2>3. CASE AwaitWatch /\ firstCompletion = "child"
    <3>1. proc' = AbortOne("verifier")
      BY <2>3 DEF AwaitWatch
    <3> QED BY <2>1, <3>1, TypesOfProcs, Aborting DEF Procs
  <2>4. CASE AwaitVerifier
    BY <2>1, <2>4 DEF AwaitVerifier, Deliberate, Types, Verifier, Procs, Settled
  <2>5. CASE Race
    BY <2>1, <2>5 DEF Race
  <2> QED BY <2>2, <2>3, <2>4, <2>5
<1>5. firstCompletion # "none" => firstCompletion' = firstCompletion
  BY <1>1, <1>2 DEF Reasons, Leaving, TearingDown
<1> USE <1>1, <1>2, <1>3, <1>4, <1>5
<1>6. Types'
  BY DEF ProcTypes, Types, Pcs, SessionState
<1>7. Machines'
  BY DEF Machines, Gating, SessionFollowsWatcher, Extent, Watched, TearingDown, Leaving,
         Watch!Running
<1>8. Extent'
  BY DEF Extent, Gating, NoneYet, TearingDown, Leaving, Watched, Child, Verifier, Pcs, Procs,
         Watch!Running
<1>9. Reasons'
  BY DEF Reasons, TearingDown, Leaving, Deliberate, Child, Verifier, Settled, Procs
<1>10. Reported'
  BY DEF Reported, Gating
<1>11. Outcome'
  BY DEF Outcome, PortsLeft, Earned, HonestCompletion, NothingLeftBehind, InterruptedExits130,
         Child, Verifier, Extent, Reasons, Reported, Leaving, Types, Procs
<1> QED BY <1>6, <1>7, <1>8, <1>9, <1>10, <1>11

\* The child is gone, and its hook has run.
LEMMA ChildGoneKeeps ==
  ASSUME IInv, AwaitChild \/ ExitHook
  PROVE  IInv'
<1> USE DEF IInv
<1>1. /\ pc \in {"awaitChild", "exitHook"} /\ pc' \in {"exitHook", "cleanup"}
      /\ Child.at # "running"
      /\ problems \subseteq problems' /\ problems' \subseteq Problems
      /\ UNCHANGED <<opts, signal, reachedReady, readyHooksSucceeded, firstCompletion, session,
                     ports, attached, proc, status, exitCode, watchVars>>
  BY DEF AwaitChild, ExitHook, Go, TearDown, Untouched, NoOutcome, outcome, HookPasses, Report,
         Problems, Types, Extent
<1> USE <1>1 DEF watchVars
<1>2. Types'
  BY DEF Types, Pcs, SessionState
<1>3. Machines'
  BY DEF Machines, Gating, SessionFollowsWatcher, Extent, Watched, TearingDown, Leaving,
         Watch!Running
<1>4. Extent'
  BY DEF Extent, Gating, NoneYet, TearingDown, Leaving, Watched, Child, Verifier, Pcs, Procs,
         Watch!Running
<1>5. Reasons'
  BY DEF Reasons, TearingDown, Leaving, Deliberate, Child, Verifier, Settled, Procs
<1>6. Reported'
  BY DEF Reported, Gating
<1>7. Outcome'
  BY DEF Outcome, PortsLeft, Earned, HonestCompletion, NothingLeftBehind, InterruptedExits130,
         Child, Verifier, Extent, Reasons, Reported, Leaving, Types, Procs
<1> QED BY <1>2, <1>3, <1>4, <1>5, <1>6, <1>7

\* The mappings are removed and the problems closed.
LEMMA CleaningKeeps ==
  ASSUME IInv, Cleanup \/ Abandon
  PROVE  IInv'
<1> USE DEF IInv
<1>1. /\ pc \in {"cleanup", "abandon"} /\ pc' = "finally"
      /\ UNCHANGED <<opts, signal, reachedReady, readyHooksSucceeded, firstCompletion, session,
                     attached, proc, status, exitCode, watchVars>>
  BY DEF Cleanup, Abandon, Go, TearDown, Untouched, NoOutcome, outcome
<1>2. /\ ports' \in {"none", "reused", "owned", "removed"}
      /\ ports' = "owned" /\ opts.cleanupPorts => "CleanupFailed" \in problems'
      /\ problems' \subseteq Problems
      /\ problems' = {} => Earned
  <2>1. PICK cleaned \in SUBSET {"CleanupFailed"} :
          /\ RemovePorts(cleaned)
          /\ \/ pc = "cleanup" /\ problems' = ClosingProblems(problems \cup cleaned)
             \/ pc = "abandon" /\ problems' = problems \cup cleaned
    BY DEF Cleanup, Abandon, Go, Report
  <2>2. problems \cup cleaned \in SUBSET Problems /\ problems \subseteq problems \cup cleaned
    BY DEF Types, Problems
  <2>3. /\ ports' \in {"none", "reused", "owned", "removed"}
        /\ ports' = "owned" /\ opts.cleanupPorts => "CleanupFailed" \in cleaned
    BY <2>1 DEF Types, RemovePorts
  <2>4. CASE pc = "cleanup" /\ problems' = ClosingProblems(problems \cup cleaned)
    <3> DEFINE before == problems \cup cleaned
    <3>1. before \subseteq problems' /\ problems' \subseteq Problems
      BY <2>2, <2>4 DEF ClosingProblems, Problems
    <3>2. ASSUME problems' = {} PROVE Earned
      <4>1. problems = {} /\ before = {} /\ ClosingProblems({}) = {}
        BY <2>4, <3>1, <3>2
      <4>2. ~summary.failed
        BY <4>1 DEF ClosingProblems
      <4>3. ~signal /\ firstCompletion # "controls-stop"
        BY <4>1 DEF ClosingProblems
      <4>4. Child.at # "failed" /\ Verifier.at \notin {"failed", "aborted"}
        BY <4>1, <4>2, <4>3 DEF ClosingProblems
      <4>5. reachedReady
        BY <2>4, <4>1, <4>3 DEF Reasons, TearingDown
      <4>6. opts.verify => Verifier.at = "ok"
        BY <2>4, <4>4, <4>5 DEF Extent, Types, Settled, Verifier, Procs
      <4>7. Child.at = "aborted" => Verifier.at = "ok"
        BY <2>4, <4>1, <4>2, <4>3, <4>4 DEF Reasons, Deliberate, Child, Procs, Leaving, Settled
      <4> QED BY <4>2, <4>4, <4>5, <4>6, <4>7 DEF Earned
    <3> QED BY <2>3, <3>1, <3>2
  <2>5. CASE pc = "abandon" /\ problems' = problems \cup cleaned
    BY <2>2, <2>3, <2>5 DEF Reported
  <2> QED BY <2>1, <2>4, <2>5
<1> USE <1>1, <1>2 DEF watchVars
<1>3. Types'
  BY DEF Types, Pcs, SessionState
<1>4. Machines'
  BY DEF Machines, Gating, SessionFollowsWatcher, Extent, Watched, TearingDown, Leaving,
         Watch!Running
<1>5. Extent'
  BY DEF Reasons, Pcs, Extent, Gating, NoneYet, TearingDown, Leaving, Watched, Child, Verifier,
         Procs, Watch!Running
<1>6. Reasons'
  BY DEF Reasons, TearingDown, Leaving, Deliberate, Child, Verifier, Settled, Procs
<1>7. Reported'
  BY DEF Reported, Gating
<1>8. Outcome'
  BY DEF Outcome, PortsLeft, Earned, HonestCompletion, NothingLeftBehind, InterruptedExits130,
         Child, Verifier, Extent, Reasons, Reported, Leaving, Types, Procs
<1> QED BY <1>3, <1>4, <1>5, <1>6, <1>7, <1>8

\* The session is over.
LEMMA FinishingKeeps ==
  ASSUME IInv, Finally
  PROVE  IInv'
<1> USE DEF IInv
<1>1. /\ pc = "finally" /\ pc' = "ended" /\ session' = "ended"
      /\ problems \subseteq problems' /\ problems' \subseteq Problems
      /\ status' \in {"completed", "interrupted", "failed"}
      /\ status' = "completed" <=> problems' = {}
      /\ exitCode' \in ExitCodes(problems')
      /\ UNCHANGED <<opts, signal, reachedReady, readyHooksSucceeded, firstCompletion,
                     ports, attached, proc, watchVars>>
  <2>1. PICK reported \in {problems, problems \cup {"Hook"}} : Complete(reported)
    BY DEF Finally
  <2>2. session \in SessionState /\ problems \subseteq Problems
    BY DEF Types
  <2>3. /\ pc' = "ended" /\ problems' = reported /\ session' = "ended"
        /\ status' \in {"completed", "interrupted", "failed"}
        /\ status' = "completed" <=> reported = {}
    BY <2>1, <2>2, Completed
  <2> QED BY <2>2, <2>3 DEF Finally, TearDown, Untouched, Problems
<1>2. /\ exitCode' \in {"0", "130", "error", "child", "verifier"}
      /\ status' = "completed" => exitCode' = "0"
      /\ /\ "Interrupted" \in problems' /\ "ChildFailed" \notin problems'
         /\ Verifier.at \notin {"failed", "aborted"}
         => exitCode' = "130"
  BY <1>1 DEF ExitCodes, ExitOf, Outcome, Earned, Verifier
<1>3. /\ PortsLeft /\ (problems = {} => Earned) /\ wpc \in {"off", "done"}
      /\ \A p \in Procs : proc[p].at # "running"
  BY <1>1 DEF Outcome, Extent, Types, Leaving, Watched, Child, Verifier, Procs
<1> USE <1>1, <1>2, <1>3 DEF watchVars
<1>4. Types'
  BY DEF Types, Pcs, SessionState
<1>5. Machines'
  BY DEF Machines, Gating, SessionFollowsWatcher, Extent, Watched, TearingDown, Leaving,
         Watch!Running
<1>6. Extent'
  BY DEF Reasons, Pcs, Extent, Gating, NoneYet, TearingDown, Leaving, Watched, Child, Verifier,
         Procs, Watch!Running
<1>7. Reasons'
  BY DEF Reasons, TearingDown, Leaving, Deliberate, Child, Verifier, Settled, Procs
<1>8. Reported'
  BY DEF Reported, Gating
<1>9. Outcome'
  BY DEF Outcome, PortsLeft, Earned, HonestCompletion, NothingLeftBehind, InterruptedExits130,
         Child, Verifier
<1> QED BY <1>4, <1>5, <1>6, <1>7, <1>8, <1>9

\* The watcher takes a step, and the session follows it.
LEMMA WatchStepKeeps ==
  ASSUME IInv, WatchStep
  PROVE  IInv'
<1> USE DEF IInv
<1>1. wpc \in Watch!Running /\ InStep
  BY WatcherInStep DEF WatchStep
<1>2. /\ session = machine /\ pc \in Watched /\ reachedReady /\ ~summary.failed
      /\ wpc \notin {"off", "done"}
  BY <1>1 DEF Machines, SessionFollowsWatcher, Extent, Watch!Running
<1>3. session' = Following(machine, emitted')
  BY <1>2 DEF WatchStep
<1>4. /\ UNCHANGED <<opts, pc, readyHooksSucceeded, firstCompletion, attached, status, exitCode,
                     reachedReady, signal, problems, proc>>
      /\ ports' \in {ports, "owned"}
  BY DEF WatchStep, Beside, outcome
<1>5. /\ summary' \in Watch!Summaries /\ session' \in {"ready", "recovering", "failed"}
      /\ wpc' \in Watch!Running \cup {"done"}
      /\ wpc' \in {"interval", "observe"} => machine' = "ready" /\ session' = "ready" /\ ~summary'.failed
      /\ wpc' \in {"delay", "recover", "verify"} =>
           machine' = "recovering" /\ session' = "recovering" /\ ~summary'.failed
      /\ wpc' = "done" /\ summary'.failed => session' = "failed"
  BY <1>1, <1>3 DEF InStep
<1> USE <1>2, <1>4, <1>5
<1>6. Types'
  BY DEF Types, Pcs, Watched, SessionState
<1>7. Machines'
  BY DEF Machines, Gating, SessionFollowsWatcher, Extent, Watched, TearingDown, Leaving,
         Watch!Running
<1>8. Extent'
  BY DEF Reasons, Pcs, Extent, Gating, NoneYet, TearingDown, Leaving, Watched, Child, Verifier,
         Procs, Watch!Running
<1>9. Reasons'
  BY DEF Extent, Watched, Reasons, TearingDown, Leaving, Deliberate, Child, Verifier, Settled,
         Procs
<1>10. Reported'
  BY DEF Reported, Gating, Watched
<1>11. Outcome'
  BY DEF Watched, Outcome, PortsLeft, Earned, HonestCompletion, NothingLeftBehind,
         InterruptedExits130, Child, Verifier, Extent, Reasons, Reported, Leaving, Types, Procs
<1> QED BY <1>6, <1>7, <1>8, <1>9, <1>10, <1>11

\* What happens beside the session and its watcher.
LEMMA SurroundingsKeep ==
  ASSUME IInv, WorldChanges \/ Interrupt \/ (\E p \in Procs : ProcessEnds(p)) \/ UNCHANGED vars
  PROVE  IInv'
<1> USE DEF IInv
<1>1. /\ UNCHANGED <<opts, pc, readyHooksSucceeded, firstCompletion, attached, status, exitCode,
                     session, reachedReady, problems, ports, wpc, machine, summary>>
      /\ proc' \in ProcTypes /\ signal' \in BOOLEAN /\ (signal => signal')
  <2>1. CASE WorldChanges \/ UNCHANGED vars
    BY <2>1, TypesOfProcs DEF WorldChanges, Watch!WorldChanges, Watch!watch, Beside, outcome,
       vars, watchVars, Types
  <2>2. CASE Interrupt
    BY <2>2, TypesOfProcs, Aborting DEF Interrupt, Beside, outcome, WatchIdle
  <2>3. CASE \E p \in Procs : ProcessEnds(p)
    <3>1. PICK p \in Procs : ProcessEnds(p)
      BY <2>3
    <3> QED BY <3>1, TypesOfProcs DEF ProcessEnds, ProcTypes, Settled, Beside, outcome,
               watchVars, Types
  <2> QED BY <2>1, <2>2, <2>3
<1>2. \A p \in Procs :
        /\ proc'[p].at = proc[p].at \/ (proc[p].at = "running" /\ proc'[p].at \in Settled)
        /\ proc'[p].at = "aborted" => proc'[p].abort
        /\ proc[p].abort => proc'[p].abort
        /\ proc'[p].abort => proc[p].abort \/ signal'
        /\ proc'[p].at # proc[p].at => pc # "finally"
  <2>1. CASE WorldChanges \/ UNCHANGED vars
    BY <2>1 DEF WorldChanges, vars, Reasons
  <2>2. CASE Interrupt
    BY <2>2, TypesOfProcs, Aborting DEF Interrupt, Reasons
  <2>3. ASSUME NEW q \in Procs, ProcessEnds(q)
        PROVE  \A p \in Procs :
                 /\ proc'[p].abort = proc[p].abort
                 /\ p # q => proc'[p].at = proc[p].at
                 /\ p = q => proc[p].at = "running" /\ proc'[p].at \in Settled
                 /\ p = q /\ proc'[p].at = "aborted" => proc[p].abort
    BY <2>3, TypesOfProcs DEF ProcessEnds, ProcTypes, Settled
  <2>4. CASE \E p \in Procs : ProcessEnds(p)
    BY <2>3, <2>4 DEF Reasons, Extent, Leaving, Child, Verifier, Procs
  <2> QED BY <2>1, <2>2, <2>4
<1> USE <1>1, <1>2
<1>3. Types'
  BY DEF ProcTypes, Types, Pcs, SessionState
<1>4. Machines'
  BY DEF Machines, Gating, SessionFollowsWatcher, Extent, Watched, TearingDown, Leaving,
         Watch!Running
<1>5. Extent'
  BY DEF Settled, Extent, Gating, NoneYet, TearingDown, Leaving, Watched, Child, Verifier, Pcs,
         Procs, Watch!Running
<1>6. Reasons'
  BY DEF Reasons, TearingDown, Leaving, Deliberate, Child, Verifier, Settled, Procs
<1>7. Reported'
  BY DEF Reported, Gating
<1>8. Outcome'
  BY DEF Settled, Outcome, PortsLeft, Earned, HonestCompletion, NothingLeftBehind,
         InterruptedExits130, Child, Verifier, Extent, Reasons, Reported, Leaving, Types, Procs
<1> QED BY <1>3, <1>4, <1>5, <1>6, <1>7, <1>8

LEMMA InvNext == IInv /\ [Next]_vars => IInv'
<1> SUFFICES ASSUME IInv, [Next]_vars PROVE IInv'
  OBVIOUS
<1>1. CASE Main
  BY <1>1, PreparationKeeps, GivingUpKeeps, StartingKeeps, GateKeeps, ReadyHookKeeps, WaitingKeeps,
     ChildGoneKeeps, CleaningKeeps, FinishingKeeps DEF Main
<1>2. CASE WatchStep
  BY <1>2, WatchStepKeeps
<1>3. CASE WorldChanges \/ Interrupt \/ (\E p \in Procs : ProcessEnds(p)) \/ UNCHANGED vars
  BY <1>3, SurroundingsKeep
<1> QED BY <1>1, <1>2, <1>3 DEF Next

-----------------------------------------------------------------------------
(* What a session promises *)

\* Every reachable state of a session satisfies the inductive invariant.
THEOREM Invariant == Spec => []IInv
<1> QED BY InvInit, InvNext, PTL DEF Spec

\* A session reported as completed was ready, was never given up, and neither its
\* child nor its verifier failed, whatever failed, ended or was interrupted when; one
\* that was interrupted exits with 130, unless its child failed or its verifier did
\* not pass.
THEOREM Honest == Spec => []HonestOutcome
<1>1. IInv => HonestOutcome
  BY DEF IInv, Outcome, HonestOutcome
<1> QED BY <1>1, Invariant, PTL

\* When the result is returned nothing of the session still runs and its mappings
\* are gone, unless they are meant to stay or their removal is reported as failed.
THEOREM CleanExit == Spec => []NothingLeftBehind
<1>1. IInv => NothingLeftBehind
  BY DEF IInv, Outcome
<1> QED BY <1>1, Invariant, PTL

\* The two state machines, the session's and its watcher's, agree after every step
\* of the watcher, for any recovery policy.
THEOREM Follows == Spec => []SessionFollowsWatcher
<1>1. IInv => SessionFollowsWatcher
  BY DEF IInv, Machines
<1> QED BY <1>1, Invariant, PTL

\* ready is first entered from the gate, with nothing failed but, outside Expo, a
\* loopback bridge.
THEOREM HonestReadiness == Spec => ReadyIsHonest
<1> DEFINE Honestly ==
      session' = "ready" /\ ~reachedReady =>
        /\ problems' \subseteq {"Interrupted"} \cup (IF opts.expo THEN {} ELSE {"Bridge"})
        /\ Child.at # "failed"
<1>1. ASSUME IInv, [Next]_vars, session' = "ready", ~reachedReady
      PROVE  ReadyHook
  <2>1. session # "ready" /\ session \in SessionState /\ wpc \notin Watch!Running
    BY <1>1 DEF IInv, Types, Machines, Extent
  <2>2. CASE UNCHANGED vars \/ WorldChanges \/ Interrupt \/ (\E p \in Procs : ProcessEnds(p))
    BY <1>1, <2>1, <2>2 DEF vars, WorldChanges, Interrupt, ProcessEnds
  <2>3. CASE WatchStep
    BY <1>1, <2>1, <2>3, WatcherInStep DEF WatchStep, IInv
  <2>4. CASE GiveUp \/ Finally
    <3>1. PICK reported : Complete(reported)
      BY <2>4 DEF GiveUp, Finally
    <3> QED BY <1>1, <2>1, <3>1, Completed
  <2>5. CASE Discover \/ ProbeMetro
    BY <1>1, <2>1, <2>5 DEF Discover, ProbeMetro, Enter, TransitionIfAllowed
  <2>6. CASE ListPorts \/ EarlyHooks \/ PreparePorts \/ PortsHook \/ Race \/ AwaitWatch
               \/ AwaitVerifier \/ AwaitChild \/ ExitHook \/ Cleanup \/ Abandon
    BY <1>1, <2>1, <2>6 DEF ListPorts, EarlyHooks, PreparePorts, PortsHook, Race, AwaitWatch,
       AwaitVerifier, AwaitChild, ExitHook, Cleanup, Abandon
  <2>7. CASE Readiness \/ Launch \/ Startup \/ ReadyHookFails
    BY <1>1, <2>1, <2>7, GateSteps DEF Passes, Closes
  <2> QED BY <1>1, <2>2, <2>3, <2>4, <2>5, <2>6, <2>7 DEF Next, Main
<1>2. IInv /\ ReadyHook => Honestly
  BY DEF ReadyHook, HookPasses, HookTolerated, Report, IInv, Reported, Gating, Child
<1>3. IInv /\ [Next]_vars => [Honestly]_vars
  BY <1>1, <1>2
<1> QED BY <1>3, Invariant, PTL DEF Spec, ReadyIsHonest
=============================================================================
