---------------------------- MODULE SharedState ----------------------------
(***************************************************************************)
(* What commands share with other processes and change without a lock: the *)
(* client configuration and skill of `agent setup`, the remembered targets *)
(* and the session history, which are files, and the reverse mappings of a *)
(* device.  They share no state, so each behaviour exercises one of them   *)
(* and leaves the others as they are.                                      *)
(***************************************************************************)
EXTENDS AgentSetup, TargetState, SessionStore, DevPorts

VARIABLE subject   \* the component a behaviour exercises

Init ==
  /\ subject \in {"setup", "state", "store", "ports"}
  /\ SetupInit /\ StateInit /\ StoreInit /\ PortsInit
  /\ subject = "setup" \/ kind = [f \in Files |-> "wanted"]
  /\ subject = "state" \/ valid = TRUE
  /\ subject = "ports" \/ table[First] = NoMapping

Next ==
  /\ \/ subject = "setup" /\ SetupNext /\ UNCHANGED <<stateVars, storeVars, portVars>>
     \/ subject = "state" /\ StateNext /\ UNCHANGED <<setupVars, storeVars, portVars>>
     \/ subject = "store" /\ StoreNext /\ UNCHANGED <<setupVars, stateVars, portVars>>
     \/ subject = "ports" /\ PortsNext /\ UNCHANGED <<setupVars, stateVars, storeVars>>
  /\ UNCHANGED subject

vars == <<subject, setupVars, stateVars, storeVars, portVars>>
Spec == Init /\ [][Next]_vars
TypeOK == SetupTypeOK /\ StateTypeOK /\ StoreTypeOK /\ PortsTypeOK

\* What is another's is not taken away by what was read or made before: neither a write
\* of the remembered targets (target-state.ts has no lock) nor a mapping, and cleanup,
\* which tells the session's mappings by their device port alone, takes away another's
\* only where its own was and is gone: replaced, removed, or lost with its transport
\* (cleanup() of runDev; docs/dev-sessions.md, "Port ownership").
OthersAreKept == [][KeepsEntries /\ ReplacesNothing /\ RemovesOnlyOwn]_vars

-----------------------------------------------------------------------------
(* Values for TLC: four writers for three adb servers, three sessions of two *)
(* projects.                                                                 *)
ScopeOf == <<1, 1, 2, 3>>
ProjectOf == <<1, 1, 2>>
=============================================================================
