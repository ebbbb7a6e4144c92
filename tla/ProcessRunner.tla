--------------------------- MODULE ProcessRunner ---------------------------
(***************************************************************************)
(* runProcess of src/platform/process-runner.ts: one child process, whose  *)
(* own child may hold its output open, and the four things that make the   *)
(* runner end it: the caller's signal, a timeout, output that has become   *)
(* idle, and a stream callback that throws.  The promise settles at the    *)
(* close event only, when the child has exited and its output is closed.   *)
(***************************************************************************)
EXTENDS FiniteSets

CONSTANTS RunnerRequests   \* the requests that are run, or NoRequest

\* group: killProcessGroup; timeout, idle: timeoutMs and stopAfterIdleMs are given;
\* kill: killSignal; valid: no limit is out of range.
NoRequest == [group |-> FALSE, timeout |-> FALSE, idle |-> FALSE, kill |-> "none", valid |-> FALSE]
AllRequests == [group : BOOLEAN, timeout : BOOLEAN, idle : BOOLEAN, kill : {"SIGTERM", "SIGKILL"}, valid : BOOLEAN]
ASSUME RequestsAssumption == RunnerRequests \subseteq AllRequests \cup {NoRequest}

VARIABLES
  request,  \* what runProcess was called with
  running,  \* "begin", "spawned", "closed" or "rejected"
  child,    \* "none"; "mild", which SIGTERM ends; "stubborn", which it does not; "gone"
  grand,    \* the child of the child, in its process group and on its pipes
  timers,   \* those that are set: "timeout", "idle", "escalation"
  ended,    \* what the result will say: the flags that are set
  raised    \* the caller's signal

runnerVars == <<request, running, child, grand, timers, ended, raised>>

Processes == {"mild", "stubborn"}
RunnerInit ==
  /\ request \in RunnerRequests /\ running = "begin" /\ child = "none" /\ grand = "none"
  /\ timers = {} /\ ended = {} /\ raised = FALSE

\* What a signal makes of a process.
Struck(p, sig) == IF p = "mild" \/ (p = "stubborn" /\ sig = "SIGKILL") THEN "gone" ELSE p

\* signalOwnedProcess
Strike(sig) ==
  /\ child' = Struck(child, sig)
  /\ grand' = IF request.group THEN Struck(grand, sig) ELSE grand

\* Mutant: a child that has exited is left alone even when its group is ours.
ExitedIsOver == running = "closed" \/ child = "gone"

\* Nothing is left that terminate() may strike.
TooLate == running = "closed" \/ (~request.group /\ child = "gone")

\* The escalation is set once.
Escalation == IF request.kill = "SIGKILL" \/ "killEscalated" \in ended THEN {} ELSE {"escalation"}

\* terminate(); set: the timers that go on beside it
Terminate(set) ==
  IF TooLate THEN UNCHANGED <<child, grand>> /\ timers' = set
  ELSE /\ Strike(request.kill)
       /\ timers' = set \cup Escalation

-----------------------------------------------------------------------------
Fixed == UNCHANGED <<request, raised>>

\* The checks, then spawn, which fails where there is no such executable; a signal
\* that was raised before is looked at only now.
Spawned ==
  /\ request # NoRequest /\ running = "begin" /\ Fixed
  /\ IF ~request.valid THEN running' = "rejected" /\ UNCHANGED <<child, grand, timers, ended>>
     ELSE /\ running' = "spawned"
          /\ timers' = (IF request.timeout THEN {"timeout"} ELSE {}) \cup (IF raised THEN Escalation ELSE {})
          /\ \/ /\ ended' = IF raised THEN {"aborted"} ELSE {}
                /\ \E p \in Processes : child' = IF raised THEN Struck(p, request.kill) ELSE p
                /\ grand' = "none"
             \/ ended' = {"spawnError"} \cup (IF raised THEN {"aborted"} ELSE {}) /\ child' = "gone" /\ grand' = "none"

RaiseSignal ==
  /\ ~raised /\ request # NoRequest /\ running \in {"begin", "spawned"} /\ raised' = TRUE /\ UNCHANGED <<request, running>>
  /\ IF running = "spawned" THEN ended' = ended \cup {"aborted"} /\ Terminate(timers)
     ELSE UNCHANGED <<child, grand, timers, ended>>

\* Output of the child or of its child; idle time is counted from the first on, and
\* the timer is set again whatever has happened meanwhile.
OutputArrives ==
  /\ running = "spawned" /\ {child, grand} \cap Processes # {} /\ Fixed /\ UNCHANGED running
  /\ \/ /\ "streamError" \notin ended /\ request.idle /\ "stoppedAfterIdle" \notin ended
        /\ timers' = timers \cup {"idle"} /\ UNCHANGED <<child, grand, ended>>
     \/ ended' = ended \cup {"streamError"} /\ Terminate(timers)

TimesOut ==
  /\ "timeout" \in timers /\ Fixed /\ UNCHANGED running
  /\ ended' = ended \cup {"timedOut"} /\ Terminate(timers \ {"timeout", "idle"})

BecomesIdle ==
  /\ "idle" \in timers /\ Fixed /\ UNCHANGED running
  /\ ended' = ended \cup {"stoppedAfterIdle"} /\ Terminate(timers \ {"idle"})

\* The grace period is over.
Escalates ==
  /\ "escalation" \in timers /\ Fixed /\ UNCHANGED running
  /\ ended' = ended \cup {"killEscalated"} /\ timers' = timers \ {"escalation"} /\ Strike("SIGKILL")

\* The close event takes all timers away and settles the promise.
Closes ==
  /\ running = "spawned" /\ child = "gone" /\ grand \notin Processes /\ Fixed
  /\ running' = "closed" /\ timers' = {} /\ UNCHANGED <<child, grand, ended>>

\* What the processes do by themselves: exit, or start a child that inherits the output.
ProcessLives ==
  /\ running = "spawned" /\ Fixed /\ UNCHANGED <<running, timers, ended>>
  /\ \/ child \in Processes /\ child' = "gone" /\ UNCHANGED grand
     \/ grand \in Processes /\ grand' = "gone" /\ UNCHANGED child
     \/ child \in Processes /\ grand = "none" /\ grand' \in Processes /\ UNCHANGED child

RunnerNext ==
  \/ Spawned \/ TimesOut \/ BecomesIdle \/ Escalates \/ Closes
  \/ RaiseSignal \/ OutputArrives \/ ProcessLives

RunnerSpec == RunnerInit /\ [][RunnerNext]_runnerVars

-----------------------------------------------------------------------------
(* Properties *)

\* What the caller may be told only of a call that was asked to end.
AskedToEnd == ended \cap {"aborted", "timedOut", "stoppedAfterIdle", "streamError"} # {}

\* A call that was asked to end never waits for a process of its own with nothing
\* left that will strike it: the escalation is still to come.  Without a process group
\* only the child is its own; one the child leaves behind on the pipes keeps it waiting
\* (tests/unit/process-runner.test.ts, "bounds an owned process tree").
AskedToEndIsStruck ==
  AskedToEnd /\ running = "spawned" /\ (child \in Processes \/ (request.group /\ grand \in Processes))
    => "escalation" \in timers
=============================================================================
