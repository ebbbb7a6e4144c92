--------------------------- MODULE SessionMachine ---------------------------
(***************************************************************************)
(* The states of a development session and the transitions between them    *)
(* (src/session/state-machine.ts).  The watcher and runDev each own one    *)
(* machine and use it differently: the watcher's transition() throws on a  *)
(* forbidden step, runDev's wrapper ignores it.                            *)
(***************************************************************************)

SessionState ==
  {"planning", "acquiring-target", "preparing-ports", "starting-child",
   "attaching-child", "ready", "degraded", "recovering", "failed",
   "stopping", "ended"}

\* Any state that still works may fail or be stopped.
Working == SessionState \ {"failed", "stopping", "ended"}

AllowedTransitions ==
  {<<"planning", "acquiring-target">>, <<"acquiring-target", "preparing-ports">>,
   <<"preparing-ports", "attaching-child">>, <<"preparing-ports", "starting-child">>,
   <<"starting-child", "ready">>, <<"attaching-child", "ready">>,
   <<"ready", "degraded">>, <<"degraded", "recovering">>,
   <<"recovering", "ready">>, <<"recovering", "degraded">>,
   <<"failed", "stopping">>, <<"failed", "ended">>, <<"stopping", "ended">>}
  \cup Working \X {"failed", "stopping"}

CanTransition(from, to) == <<from, to>> \in AllowedTransitions

\* transition() throws: the exception escapes the code that asked for the step.
Thrown == "thrown"
Transition(from, to) == IF CanTransition(from, to) THEN to ELSE Thrown

\* runDev's transition(): a step that is not allowed is silently skipped.
TransitionIfAllowed(from, to) == IF CanTransition(from, to) THEN to ELSE from
=============================================================================
