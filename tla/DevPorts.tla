------------------------------ MODULE DevPorts ------------------------------
(***************************************************************************)
(* The reverse mappings of a development session (runDev, src/app/         *)
(* commands.ts): reused or added when the session is prepared, restored by *)
(* the watcher's recovery, removed by cleanup().  The mappings live on the *)
(* device, one table per transport, and other tools change them too; every *)
(* adb call is one step, so what a list returned may be stale when it is   *)
(* used, and a call that is reported as failed may have taken effect.      *)
(***************************************************************************)
EXTENDS Integers, FiniteSets

CONSTANTS
  Transport,    \* the transports of the selected device
  First,        \* the transport selected when the session starts
  Port,         \* the requested device ports
  Wanted,       \* the host endpoint each is mapped to
  Foreign,      \* any other host endpoint
  Free,         \* no mapping
  CleanupPorts, \* options.cleanupPorts
  PortFaults,       \* what adb calls may do: a subset of PortFaultKinds
  Others,       \* what other tools and the cable may do: a subset of OtherKinds
  MaxPortEvents     \* bound: steps of other tools and of the cable

\* fail: a call fails without effect; lateAdd, lateRestore: an adb reverse of the
\* preparation or of the recovery takes effect and is reported as failed.
PortFaultKinds == {"fail", "lateAdd", "lateRestore"}
OtherKinds == {"add", "rebind", "remove", "replug"}

ASSUME TransportAssumption == First \in Transport
ASSUME HostAssumption == Wanted # Foreign /\ Free \notin {Wanted, Foreign}
ASSUME EnvironmentAssumption ==
  /\ CleanupPorts \in BOOLEAN /\ MaxPortEvents \in Nat
  /\ PortFaults \subseteq PortFaultKinds /\ Others \subseteq OtherKinds

VARIABLES
  connected,  \* the transports that are up
  table,      \* the host each device port of a transport is mapped to, or Free
  owner,      \* history: who made each mapping; late: a call of the session that
              \* was reported as failed
  lost,       \* history: the ports at which a mapping of the session has been and is gone
  pc,         \* where runDev stands in its use of the ports
  todo,       \* ports runDev's current loop still has to handle
  target,     \* the transport the session talks to
  created,    \* ports the session believes it mapped
  stop,       \* the watcher has been told to stop
  wpc,        \* where recoverSession stands, beside runDev
  seen,       \* the mappings recovery has seen, kept across its calls
  rtodo,      \* ports recovery still has to handle
  removalSucceeded, cleaned,
  events      \* bound: steps of the environment

device == <<connected, table, owner, lost>>
main == <<pc, todo, removalSucceeded, cleaned>>
recovery == <<wpc, seen, rtodo>>
portVars == <<device, main, target, created, stop, recovery, events>>

Hosts == {Wanted, Foreign, Free}
Pcs == {"list", "add", "verify", "race", "awaitWatch", "remove", "removed", "done"}
RecoveryPcs == {"idle", "reacquire", "relist", "restore"}

PortsTypeOK ==
  /\ connected \in SUBSET Transport
  /\ table \in [Transport -> [Port -> Hosts]]
  /\ owner \in [Transport -> [Port -> {"none", "session", "late", "other"}]]
  /\ lost \in SUBSET Port
  /\ pc \in Pcs /\ todo \in SUBSET Port
  /\ target \in Transport /\ created \in SUBSET Port /\ stop \in BOOLEAN
  /\ wpc \in RecoveryPcs /\ seen \in [Port -> Hosts] /\ rtodo \in SUBSET Port
  /\ removalSucceeded \in BOOLEAN /\ cleaned \in BOOLEAN /\ events \in Nat

NoMapping == [p \in Port |-> Free]

\* Other tools may have mapped ports before the session starts.
PortsInit ==
  /\ connected = {First} /\ pc = "list" /\ target = First
  /\ table \in [Transport -> [Port -> IF "add" \in Others THEN Hosts ELSE {Free}]]
  /\ \A t \in Transport \ {First} : table[t] = NoMapping
  /\ owner = [t \in Transport |->
                [p \in Port |-> IF table[t][p] = Free THEN "none" ELSE "other"]]
  /\ lost = {} /\ todo = {} /\ created = {} /\ stop = FALSE
  /\ wpc = "idle" /\ seen = NoMapping /\ rtodo = {}
  /\ removalSucceeded = TRUE /\ cleaned = FALSE /\ events = 0

-----------------------------------------------------------------------------
(* adb *)

Up == target \in connected

\* A call may fail without effect: an error, a timeout, no device.
CallFails == "fail" \in PortFaults \/ ~Up

Map(t, p, host, who) ==
  /\ table' = [table EXCEPT ![t][p] = host]
  /\ owner' = [owner EXCEPT ![t][p] = who]
  /\ lost' = lost \cup {q \in {p} : owner[t][q] = "session"}
  /\ UNCHANGED connected

\* Mutant: adb reverse without --no-rebind replaces what is there.
ReverseRebind(p) == Up /\ Map(target, p, Wanted, "session")

\* adb reverse --no-rebind needs a free port; late, it succeeds and is reported
\* as failed.
ReversePort(p) == Up /\ table[target][p] = Free /\ Map(target, p, Wanted, "session")
ReverseLate(kind, p) ==
  kind \in PortFaults /\ Up /\ table[target][p] = Free /\ Map(target, p, Wanted, "late")
ReverseFails(p) == (CallFails \/ table[target][p] # Free) /\ UNCHANGED device

\* adb reverse --remove takes the mapping away whoever made it.
ReverseRemove(p) == Up /\ table[target][p] # Free /\ Map(target, p, Free, "none")

-----------------------------------------------------------------------------
(* Preparation *)

Main == UNCHANGED <<target, stop, recovery, events>>
Results == UNCHANGED <<removalSucceeded, cleaned>>

\* The existing mappings decide: a conflict ends the session, the rest is reused
\* or still to be added.
ListPorts ==
  /\ pc = "list" /\ Up
  /\ IF \E p \in Port : table[target][p] = Foreign
     THEN pc' = "done" /\ UNCHANGED todo
     ELSE pc' = "add" /\ todo' = {p \in Port : table[target][p] # Wanted}
  /\ Main /\ Results /\ UNCHANGED <<device, created>>

ListFails ==
  /\ pc = "list" /\ CallFails
  /\ pc' = "done"
  /\ Main /\ Results /\ UNCHANGED <<device, todo, created>>

AddPort(p) ==
  /\ pc = "add" /\ p \in todo
  /\ ReversePort(p) /\ created' = created \cup {p} /\ todo' = todo \ {p}
  /\ Main /\ Results /\ UNCHANGED pc

\* The first call that is reported as failed abandons the session.
AddFails(p) ==
  /\ pc = "add" /\ p \in todo
  /\ ReverseFails(p) \/ ReverseLate("lateAdd", p)
  /\ pc' = "remove" /\ todo' = created
  /\ Main /\ Results /\ UNCHANGED created

AddDone ==
  /\ pc = "add" /\ todo = {}
  /\ pc' = "verify"
  /\ Main /\ Results /\ UNCHANGED <<device, todo, created>>

\* Every requested mapping must be in the follow-up list.
VerifyPorts ==
  /\ pc = "verify"
  /\ \/ /\ Up /\ \A p \in Port : table[target][p] = Wanted
        /\ pc' = "race" /\ UNCHANGED todo
     \/ /\ CallFails \/ \E p \in Port : table[target][p] # Wanted
        /\ pc' = "remove" /\ todo' = created
  /\ Main /\ Results /\ UNCHANGED <<device, created>>

-----------------------------------------------------------------------------
(* Recovery (recoverSession), called by the watcher while runDev waits *)

Recovery == UNCHANGED <<main, stop, events>>

\* The watcher observes that the target is not ready or a mapping is missing.
Degraded ==
  /\ wpc = "idle" /\ pc = "race" /\ ~stop
  /\ \/ ~Up /\ wpc' = "reacquire"
     \/ Up /\ (\E p \in Port : table[target][p] # Wanted) /\ wpc' = "relist"
  /\ Recovery /\ UNCHANGED <<device, target, created, seen, rtodo>>

\* The device is found again, maybe on another of its transports.
Reacquire ==
  /\ wpc = "reacquire" /\ ~stop
  /\ target' \in connected /\ wpc' = "relist"
  /\ Recovery /\ UNCHANGED <<device, created, seen, rtodo>>

\* recover() returns to the watcher, whatever it achieved.
Return == wpc' = "idle" /\ seen' = NoMapping /\ rtodo' = {}

\* A call fails, the signal aborts it, or the device is nowhere to be found.
GiveUp ==
  /\ \/ wpc = "reacquire" /\ (connected = {} \/ "fail" \in PortFaults \/ stop)
     \/ wpc = "relist" /\ (CallFails \/ stop)
  /\ Return
  /\ Recovery /\ UNCHANGED <<device, target, created>>

Relist ==
  /\ wpc = "relist" /\ Up /\ ~stop
  /\ wpc' = "restore" /\ seen' = table[target] /\ rtodo' = Port
  /\ Recovery /\ UNCHANGED <<device, target, created>>

\* Each port in turn, by what the list said: mapped as wanted, it is left alone.
SkipPort(p) ==
  /\ wpc = "restore" /\ p \in rtodo /\ seen[p] = Wanted
  /\ rtodo' = rtodo \ {p}
  /\ Recovery /\ UNCHANGED <<device, target, created, wpc, seen>>

\* Mapped to another host, recovery refuses to replace it.
RefusePort(p) ==
  /\ wpc = "restore" /\ p \in rtodo /\ seen[p] = Foreign
  /\ Return
  /\ Recovery /\ UNCHANGED <<device, target, created>>

\* A call that was under way when the signal came may still succeed.
RestorePort(p) ==
  /\ wpc = "restore" /\ p \in rtodo /\ seen[p] = Free
  /\ ReversePort(p) /\ rtodo' = rtodo \ {p} /\ created' = created \cup {p}
  /\ Recovery /\ UNCHANGED <<target, wpc, seen>>

RestoreFails(p) ==
  /\ wpc = "restore" /\ p \in rtodo /\ seen[p] = Free
  /\ ReverseFails(p) \/ ReverseLate("lateRestore", p) \/ (stop /\ UNCHANGED device)
  /\ Return
  /\ Recovery /\ UNCHANGED <<target, created>>

RestoreDone ==
  /\ wpc = "restore" /\ rtodo = {}
  /\ Return
  /\ Recovery /\ UNCHANGED <<device, target, created>>

-----------------------------------------------------------------------------
(* Teardown *)

\* The child ends, the watcher gives up, the user interrupts: the watcher is told.
StopWatch ==
  /\ pc = "race" /\ pc' = "awaitWatch" /\ stop' = TRUE
  /\ Results /\ UNCHANGED <<device, todo, target, created, recovery, events>>

\* Mutant: cleanup does not wait for a recovery that is under way.
BeginCleanupAtOnce ==
  /\ pc = "awaitWatch"
  /\ pc' = "remove" /\ todo' = created
  /\ Main /\ Results /\ UNCHANGED <<device, created>>

\* Mutant: cleanup removes what was requested, the mappings it reused with it.
BeginCleanupOfAll ==
  /\ pc = "awaitWatch" /\ wpc = "idle"
  /\ pc' = "remove" /\ todo' = Port
  /\ Main /\ Results /\ UNCHANGED <<device, created>>

\* cleanup() begins when the watcher, and so recover(), has returned.
BeginCleanup ==
  /\ pc = "awaitWatch" /\ wpc = "idle"
  /\ pc' = "remove" /\ todo' = created
  /\ Main /\ Results /\ UNCHANGED <<device, created>>

Cleaning == pc = "remove" /\ CleanupPorts /\ created # {}

\* Nothing to remove, or told not to.
NoCleanup ==
  /\ pc = "remove" /\ ~Cleaning
  /\ pc' = "done" /\ todo' = {}
  /\ Main /\ Results /\ UNCHANGED <<device, created>>

\* Every created mapping is removed by its device port, on the current target.
RemovePort(p) ==
  /\ Cleaning /\ p \in todo
  /\ ReverseRemove(p) /\ todo' = todo \ {p}
  /\ Main /\ Results /\ UNCHANGED <<pc, created>>

RemoveFails(p) ==
  /\ Cleaning /\ p \in todo /\ (CallFails \/ table[target][p] = Free)
  /\ todo' = todo \ {p} /\ removalSucceeded' = FALSE
  /\ Main /\ UNCHANGED <<device, pc, created, cleaned>>

RemoveDone ==
  /\ Cleaning /\ todo = {}
  /\ pc' = "removed"
  /\ Main /\ Results /\ UNCHANGED <<device, todo, created>>

\* The final list decides: ~cleaned is reported as PORT_MAPPING_CLEANUP_FAILED.
CheckRemoved ==
  /\ pc = "removed" /\ pc' = "done"
  /\ \/ Up /\ cleaned' = (removalSucceeded /\ \A p \in created : table[target][p] = Free)
     \/ CallFails /\ cleaned' = FALSE
  /\ Main /\ UNCHANGED <<device, todo, created, removalSucceeded>>

Session ==
  \/ ListPorts \/ ListFails \/ AddDone \/ VerifyPorts
  \/ BeginCleanup \/ NoCleanup \/ RemoveDone \/ CheckRemoved
  \/ \E p \in Port : AddPort(p) \/ AddFails(p) \/ RemovePort(p) \/ RemoveFails(p)

Recover ==
  \/ Reacquire \/ GiveUp \/ Relist \/ RestoreDone
  \/ \E p \in Port : SkipPort(p) \/ RefusePort(p) \/ RestorePort(p) \/ RestoreFails(p)

-----------------------------------------------------------------------------
(* Other tools and the cable *)

Happens(kind) == kind \in Others /\ events < MaxPortEvents /\ events' = events + 1
Elsewhere == UNCHANGED <<main, target, created, stop, recovery>>

\* Another tool maps a free port.
OtherAdds(t, p) ==
  /\ Happens("add") /\ t \in connected /\ table[t][p] = Free
  /\ \E host \in {Wanted, Foreign} : Map(t, p, host, "other")
  /\ Elsewhere

\* Another tool maps a port it does not find free to itself.
OtherRebinds(t, p) ==
  /\ Happens("rebind") /\ t \in connected /\ table[t][p] # Free
  /\ \E host \in {Wanted, Foreign} : Map(t, p, host, "other")
  /\ Elsewhere

\* Another tool removes its own mapping.
OtherRemoves(t, p) ==
  /\ Happens("remove") /\ t \in connected /\ owner[t][p] = "other"
  /\ Map(t, p, Free, "none") /\ Elsewhere

\* A transport goes down, and its mappings with it.
Unplug(t) ==
  /\ Happens("replug") /\ t \in connected
  /\ connected' = connected \ {t}
  /\ table' = [table EXCEPT ![t] = NoMapping]
  /\ owner' = [owner EXCEPT ![t] = [p \in Port |-> "none"]]
  /\ lost' = lost \cup {p \in Port : owner[t][p] = "session"}
  /\ Elsewhere

Plug(t) ==
  /\ Happens("replug") /\ t \notin connected
  /\ connected' = connected \cup {t}
  /\ UNCHANGED <<table, owner, lost>> /\ Elsewhere

Environment ==
  \/ \E t \in Transport : Unplug(t) \/ Plug(t)
  \/ \E t \in Transport, p \in Port :
       OtherAdds(t, p) \/ OtherRebinds(t, p) \/ OtherRemoves(t, p)

PortsNext == Session \/ Degraded \/ Recover \/ StopWatch \/ Environment

-----------------------------------------------------------------------------
(* Properties *)

\* The session maps only ports that are free at that moment, however old the list
\* it decided by: nobody's mapping is replaced (docs/dev-sessions.md, "Port
\* ownership").
ReplacesNothing ==
  \A t \in Transport, p \in Port :
    owner'[t][p] \in {"session", "late"} /\ owner'[t][p] # owner[t][p]
      => table[t][p] = Free

\* What cleanup removes is the session's own, or stands where the session's own was
\* until it was lost: a mapping that was reused, or that recovery refused to replace,
\* stays (docs/dev-sessions.md:107).
RemovesOnlyOwn ==
  pc = "remove" /\ todo' # todo =>
    \A t \in Transport, p \in Port :
      owner[t][p] = "other" /\ owner'[t][p] # "other" => p \in lost

\* A session that is over and has not reported a failed cleanup leaves none of the
\* mappings it was told it made, on any transport.
NothingLeaks ==
  pc = "done" /\ CleanupPorts /\ (cleaned \/ created = {}) =>
    \A t \in Transport, p \in Port : owner[t][p] # "session"
=============================================================================
