---------------------------- MODULE MCAgentTask ----------------------------
(* TLC instance of AgentTask, two MCP connections that share one task, and of *)
(* ProcessRunner, one call of runProcess: a behaviour is of one of them.      *)
EXTENDS AgentTask, ProcessRunner

CONSTANTS c1, c2

TwoClients == {c1, c2}

OneRequest == {NoRequest} \cup AllRequests
NoRunner == {NoRequest}

MCInit == Init /\ RunnerInit

MCNext ==
  \/ request = NoRequest /\ Next /\ UNCHANGED runnerVars
  \/ request # NoRequest /\ RunnerNext /\ UNCHANGED vars

MCSpec == MCInit /\ [][MCNext]_<<vars, runnerVars>>

MCFairSpec == MCSpec /\ Fairness
=============================================================================
