----------------------------- MODULE McpServer -----------------------------
(***************************************************************************)
(* The MCP server (src/agent/mcp-server.ts): connections whose tool calls  *)
(* wait in a queue of their own (serial-task-queue.ts), one target that    *)
(* ensure_ready binds to a connection, the lease of that target around     *)
(* every call that changes it, and the screens inspect_ui has remembered   *)
(* for compare_ui.  The device a transport leads to may change at any time.*)
(***************************************************************************)
EXTENDS Naturals, SequencesExt, Records

CONSTANTS
  Connection,   \* a connection, which is also the handle it gives out
  Plans,        \* what agents may ask for: sequences of calls, in the order they are submitted in
  Inventories,  \* the sets of transports that may be seen together
  Advertised,   \* transports of paired devices that can be connected to
  Views,      \* what a device may show; the digest of a snapshot
  MaxSnapshots, \* UI_SNAPSHOT_CACHE_LIMIT
  MaxChanges,   \* bound: changes of the inventory, and snapshots that expire
  McpFaults     \* what may go wrong: a subset of McpFaultKinds

\* config: loadConfig finds an invalid file; fail: a call of adb or of the file
\* system fails, or is interrupted; busy: a lease is not to be had.
McpFaultKinds == {"config", "fail", "busy"}
ASSUME McpAssumption == McpFaults \subseteq McpFaultKinds /\ MaxSnapshots \in Nat \ {0}

\* A call that is asked for: the connection it is made on, the tool and its arguments.
Arguments == {"conn", "tool", "handle", "serial", "tid", "base"}
ASSUME PlansAssumption ==
  \A p \in Plans : \A k \in DOMAIN p : k \in Nat /\ DOMAIN p[k] = Arguments /\ p[k].conn \in Connection

VARIABLES
  plan,      \* the calls that are made in this behaviour
  inventory, \* the transports adb lists: [tid, serial, device, hw]
  shows,     \* the screen of each device
  bound,     \* the target of each connection, or Unbound
  snapshots, \* uiSnapshots of each connection, the oldest first
  calls,     \* every call: its arguments, where it stands, what it remembers
  leases,    \* who holds the lease of an identity: <<identity, call>>
  changes    \* bound: what has changed by itself so far

mcpVars == <<plan, inventory, shows, bound, snapshots, calls, leases, changes>>

\* hardwareSerial ?? id ?? serial.  hw: the hardware serial can be read; while it cannot,
\* a target goes by the serial of its transport.
Identity(t) == IF t.hw THEN <<"hardware", t.device>> ELSE <<"adb", t.serial>>

\* A target by its transport.  led is a history: the device that transport led to.
TargetAt(t) == [serial |-> t.serial, tid |-> t.tid, identity |-> Identity(t), led |-> t.device]

Unasked == "none"
Unbound == [serial |-> Unasked, tid |-> Unasked, identity |-> <<Unasked, Unasked>>, led |-> Unasked]
NoDiff == <<>>

Planned == DOMAIN plan

\* A call is its arguments, [conn, tool, handle, serial, tid, base], and what becomes of it.
NotSubmitted == [at |-> "none", seen |-> Unbound, via |-> Unbound, diff |-> NoDiff, ok |-> FALSE]

\* Tools by the annotations they are registered with: those that look at the target,
AppReads == {"inspect_app", "inspect_ui", "inspect_failures"}
ScreenReads ==
  {"audit_ui", "inspect_keyboard", "inspect_permission_dialog", "find_ui", "get_ui", "assert_ui", "wait_for_ui"}
\* those that change it,
AppTools == {"launch_app", "restart_app", "install_app", "open_url"}
TouchTools == {"tap_ui", "long_press_ui", "swipe_ui", "scroll_ui", "press_key_ui"}
TextTools == {"type_text_ui", "fill_ui", "clear_ui"}
DialogTools == {"dismiss_keyboard", "respond_to_permission_dialog"}
Changing == AppTools \cup TouchTools \cup TextTools \cup DialogTools \cup {"capture_screenshot"}
\* and those that read or start something on the host.
SessionReads == {"list_sessions", "get_session_problems", "compile_debug_context"}
DevTools == {"get_dev_session", "stop_dev_session"}
HostTools == {"doctor", "list_targets", "resolve_app"} \cup SessionReads \cup DevTools

TargetBound == {"start_dev_session", "compare_ui"} \cup AppReads \cup ScreenReads \cup Changing

McpInit ==
  /\ plan \in Plans /\ inventory \in Inventories /\ shows \in [{t.device : t \in (UNION Inventories) \cup Advertised} -> Views]
  /\ bound = [c \in Connection |-> Unbound] /\ snapshots = [c \in Connection |-> <<>>]
  /\ calls = [k \in Planned |-> Amended(NotSubmitted, plan[k])] /\ leases = {} /\ changes = 0

Submitted(k) == calls[k].at # "none"
Settled(k) == calls[k].at = "ended"
Update(k, fields) == calls' = [calls EXCEPT ![k] = Amended(@, fields)]
McpGo(k, step) == Update(k, [at |-> step])
AsEnded(ok) == [at |-> "ended", ok |-> ok, seen |-> Unbound, via |-> Unbound]
Answer(k, ok) == Update(k, AsEnded(ok))
World == UNCHANGED <<plan, inventory, shows, changes>>

-----------------------------------------------------------------------------
(* The queue and what is checked at the head of it *)

\* An agent need not wait for an answer before it sends its next call, unless that
\* is to carry the handle it was given.
Submit(k) ==
  /\ ~Submitted(k) /\ \A m \in Planned : m < k => Submitted(m)
  /\ calls[k].handle \in Connection => bound[calls[k].handle] # Unbound
  /\ McpGo(k, "queued") /\ World /\ UNCHANGED <<bound, snapshots, leases>>

\* Mutant: a call does not wait for the calls before it.
AtOnce(k) == calls[k].at = "queued"

\* SerialTaskQueue: a call begins when those before it have settled, whatever came of them.
Turn(k) ==
  calls[k].at = "queued" /\ \A m \in Planned : m < k /\ calls[m].conn = calls[k].conn => Settled(m)

NotForThis(call) ==
  \/ call.tool \in TargetBound /\ bound[call.conn] = Unbound
  \/ call.handle # Unasked /\ (bound[call.conn] = Unbound \/ call.handle # call.conn)

\* Mutant: only tools that destroy something take the lease.
NoLease(tool) == FALSE

\* leaseTarget ?? !readOnlyHint
ShouldLease(tool) == tool \in Changing

Handler(tool) ==
  CASE tool = "ensure_ready" -> "ensure" [] tool = "compare_ui" -> "base"
    [] tool \in HostTools \cup {"start_dev_session"} -> "run"
    [] tool \in AppTools \cup TextTools \cup {"capture_screenshot"} -> "input" [] OTHER -> "target"

Begin(k) ==
  /\ Turn(k) /\ World /\ UNCHANGED <<bound, snapshots, leases>>
  /\ LET call == calls[k]
     IN  \/ "config" \in McpFaults /\ Answer(k, FALSE)
         \/ IF NotForThis(call) THEN Answer(k, FALSE)
            ELSE Update(k, [seen |-> bound[call.conn],
                            at |-> IF ShouldLease(call.tool) THEN "lease" ELSE Handler(call.tool)])

\* acquireTargetLease, of the identity that is bound
TakeLease(k) ==
  /\ calls[k].at = "lease" /\ World /\ UNCHANGED <<bound, snapshots>>
  /\ LET id == bound[calls[k].conn].identity
     IN  \/ (\A l \in leases : l[1] # id) /\ leases' = leases \cup {<<id, k>>} /\ McpGo(k, Handler(calls[k].tool))
         \/ ("busy" \in McpFaults \/ \E l \in leases : l[1] = id) /\ Answer(k, FALSE) /\ UNCHANGED leases

\* The handler has returned or thrown: the finally of the wrapper.
AnswerCall(k, ok, fields) ==
  Update(k, Amended(IF ShouldLease(calls[k].tool) THEN [ok |-> ok, at |-> "release"] ELSE AsEnded(ok), fields))

Release(k) ==
  /\ calls[k].at = "release" /\ Answer(k, calls[k].ok)
  /\ leases' = {l \in leases : l[2] # k} /\ World /\ UNCHANGED <<bound, snapshots>>

-----------------------------------------------------------------------------
(* ensure_ready *)

\* selectTarget without options: the one target there is, whichever transport it has.
OnlyTarget(seen) == IF \A t, u \in seen : Identity(t) = Identity(u) THEN seen ELSE {}

\* What runDevices selects, by the transport or the serial it was given.
Named(seen, serial, tid) ==
  {t \in seen : IF tid # Unasked THEN t.tid = tid ELSE t.serial = serial}

AskedNothing(serial, tid) == serial = Unasked /\ tid = Unasked

\* A binding keeps the handle of the connection, which is why the handle is not in it.
Bind(k, t) == bound' = [bound EXCEPT ![calls[k].conn] = TargetAt(t)]

\* data.selected ?? selectTarget(data.targets); the answer reports a selector that
\* named nothing as a problem, and with it a result that is not ok.
Choose(k, serial, tid, Otherwise) ==
  LET named == IF AskedNothing(serial, tid) THEN {} ELSE Named(inventory, serial, tid)
      chosen == IF named # {} THEN named ELSE OnlyTarget(inventory)
  IN  IF chosen = {} THEN Otherwise
      ELSE \E t \in chosen : Bind(k, t) /\ Answer(k, named # {} \/ AskedNothing(serial, tid))

EnsureInput(k) ==
  /\ calls[k].at = "ensure" /\ World /\ UNCHANGED <<bound, snapshots, leases>>
  /\ LET call == calls[k]
         has == bound[call.conn]
         conflict == call.serial # Unasked /\ call.tid # Unasked
         elsewhere == has # Unbound /\ (call.serial \notin {Unasked, has.serial} \/ call.tid \notin {Unasked, has.tid})
     IN  IF conflict \/ elsewhere THEN Answer(k, FALSE)
         ELSE Update(k, [at |-> "list", via |-> IF has # Unbound THEN has ELSE [Unbound EXCEPT !.serial = call.serial, !.tid = call.tid]])

\* The inventory, and the one service that may be connected to when nothing is selected:
\* any when nothing was asked for, else the endpoint that was.
EnsureList(k) ==
  /\ calls[k].at = "list" /\ World /\ UNCHANGED <<snapshots, leases>>
  /\ \/ "fail" \in McpFaults /\ Answer(k, FALSE) /\ UNCHANGED bound
     \/ Choose(k, calls[k].via.serial, calls[k].via.tid,
          /\ UNCHANGED bound
          /\ \/ calls[k].tid = Unasked /\ \E t \in Advertised \ inventory :
                  /\ calls[k].serial = t.serial \/ (calls[k].serial = Unasked /\ Advertised = {t})
                  /\ Update(k, [at |-> "connect", via |-> [Unbound EXCEPT !.serial = t.serial]])
             \/ Answer(k, FALSE))

EnsureConnect(k) ==
  /\ calls[k].at = "connect" /\ UNCHANGED <<plan, shows, changes, bound, snapshots, leases>>
  /\ \/ inventory' = inventory \cup {t \in Advertised : t.serial = calls[k].via.serial} /\ McpGo(k, "relist")
     \/ "fail" \in McpFaults /\ Answer(k, FALSE) /\ UNCHANGED inventory

EnsureRelist(k) ==
  /\ calls[k].at = "relist" /\ World /\ UNCHANGED <<snapshots, leases>>
  /\ \/ "fail" \in McpFaults /\ Answer(k, FALSE) /\ UNCHANGED bound
     \/ Choose(k, calls[k].via.serial, Unasked, Answer(k, FALSE) /\ UNCHANGED bound)

-----------------------------------------------------------------------------
(* The tools *)

\* What a handler checks of its own: a file inside the project, the variable a secret
\* is in, limits that exclude each other.
ToolInput(k) ==
  /\ calls[k].at = "input" /\ World /\ UNCHANGED <<bound, snapshots, leases>>
  /\ \/ McpGo(k, "target") \/ ("fail" \in McpFaults /\ AnswerCall(k, FALSE, <<>>))

\* Tools that look at no device: the inventory, sessions, development tasks, the project.
RunTool(k) ==
  /\ calls[k].at = "run" /\ World /\ UNCHANGED <<bound, snapshots, leases>>
  /\ \/ AnswerCall(k, TRUE, <<>>) \/ ("fail" \in McpFaults /\ AnswerCall(k, FALSE, <<>>))

\* commandConfig(loaded, bound): by transport where adb names one, else by serial.
Led(b) == Named(inventory, b.serial, b.tid)

\* readyTarget of the command that the tool runs
FindTarget(k) ==
  /\ calls[k].at = "target" /\ World /\ UNCHANGED <<bound, snapshots, leases>>
  /\ \/ \E t \in Led(bound[calls[k].conn]) :
          Update(k, [at |-> "act", via |-> TargetAt(t)])
     \/ ("fail" \in McpFaults \/ Led(bound[calls[k].conn]) = {}) /\ AnswerCall(k, FALSE, <<>>)

\* The device the transport of a running command leads to by now.
DeviceOf(k) == {t.device : t \in Led(calls[k].via)}

Taken(k, d) ==
  [digest |-> shows[d], identity |-> bound[calls[k].conn].identity, device |-> d,
   led |-> bound[calls[k].conn].led, old |-> FALSE]

\* rememberUiSnapshot: one entry per digest, the oldest leaves
Remember(c, s) ==
  LET same == {i \in DOMAIN snapshots[c] : snapshots[c][i].digest = s.digest}
      all == Append(IF same = {} THEN snapshots[c] ELSE RemoveAt(snapshots[c], CHOOSE i \in same : TRUE), s)
  IN  snapshots' = [snapshots EXCEPT ![c] = IF Len(all) > MaxSnapshots THEN Tail(all) ELSE all]

Act(k) ==
  /\ calls[k].at = "act" /\ UNCHANGED <<plan, inventory, changes, bound, leases>>
  /\ \/ \E d \in DeviceOf(k) :
          CASE calls[k].tool \in Changing ->
                 (\E s \in Views : shows' = [shows EXCEPT ![d] = s]) /\ AnswerCall(k, TRUE, <<>>) /\ UNCHANGED snapshots
            [] calls[k].tool = "inspect_ui" ->
                 Remember(calls[k].conn, Taken(k, d)) /\ AnswerCall(k, TRUE, <<>>) /\ UNCHANGED shows
            [] calls[k].tool = "compare_ui" ->
                 Remember(calls[k].conn, Taken(k, d)) /\ UNCHANGED shows
                 /\ AnswerCall(k, TRUE, [diff |-> Append(calls[k].diff, Taken(k, d))])
            [] OTHER -> AnswerCall(k, TRUE, <<>>) /\ UNCHANGED <<shows, snapshots>>
     \/ ("fail" \in McpFaults \/ DeviceOf(k) = {}) /\ AnswerCall(k, FALSE, [diff |-> NoDiff]) /\ UNCHANGED <<shows, snapshots>>

\* Mutant: a base is looked up by its digest alone.
AnyBase(k, s) == TRUE

\* The base of a comparison was taken of the target that is bound.
UsableBase(k, s) == s.identity = bound[calls[k].conn].identity

CompareBase(k) ==
  /\ calls[k].at = "base" /\ World /\ UNCHANGED <<bound, leases>>
  /\ LET c == calls[k].conn
         found == {i \in DOMAIN snapshots[c] : snapshots[c][i].digest = calls[k].base}
     IN  IF found = {} THEN Answer(k, FALSE) /\ UNCHANGED snapshots
         ELSE \E i \in found :
                IF ~UsableBase(k, snapshots[c][i]) THEN Answer(k, FALSE) /\ UNCHANGED snapshots
                ELSE IF snapshots[c][i].old
                THEN Answer(k, FALSE) /\ snapshots' = [snapshots EXCEPT ![c] = RemoveAt(@, i)]
                ELSE Update(k, [at |-> "target", diff |-> <<snapshots[c][i]>>]) /\ UNCHANGED snapshots

-----------------------------------------------------------------------------
(* What changes by itself: cables, adb servers, addresses, and five minutes pass *)

McpChange ==
  /\ changes < MaxChanges /\ changes' = changes + 1
  /\ UNCHANGED <<plan, shows, bound, calls, leases>>
  /\ \/ inventory' \in Inventories \ {inventory} /\ UNCHANGED snapshots
     \/ UNCHANGED inventory /\ \E c \in Connection : \E i \in DOMAIN snapshots[c] :
          ~snapshots[c][i].old /\ snapshots' = [snapshots EXCEPT ![c][i].old = TRUE]

McpStep(k) ==
  \/ Begin(k) \/ TakeLease(k) \/ Release(k)
  \/ EnsureInput(k) \/ EnsureList(k) \/ EnsureConnect(k) \/ EnsureRelist(k)
  \/ ToolInput(k) \/ RunTool(k) \/ FindTarget(k) \/ Act(k) \/ CompareBase(k)

McpNext == McpChange \/ \E k \in Planned : Submit(k) \/ McpStep(k)

McpSpec == McpInit /\ [][McpNext]_mcpVars

-----------------------------------------------------------------------------
(* Properties *)

Begun(k) == calls[k].at \notin {"none", "queued", "ended"}

\* The transport a call works by leads to another device than it did when it was bound.
HasMoved(k) == DeviceOf(k) # {bound[calls[k].conn].led}

\* The target was bound while its hardware serial could not be read.
BoundUnread(k) == bound[calls[k].conn].identity[1] # "hardware"

\* A call works with the binding it was admitted with.  When two calls change one device
\* at a time, the transport of one has moved since it was bound, or one of the two was
\* bound while the hardware serial could not be read, and the two go by different
\* identities (register, acquireTargetLease, `hardwareSerial ?? id ?? serial`).
MutationsAreExclusive ==
  /\ \A k \in Planned : Submitted(k) /\ Begun(k) /\ calls[k].tool \in TargetBound => calls[k].seen = bound[calls[k].conn]
  /\ \A k, m \in Planned :
       k # m /\ calls[k].at = "act" /\ calls[m].at = "act" /\ {calls[k].tool, calls[m].tool} \subseteq Changing
         => \/ HasMoved(k) \/ HasMoved(m) \/ DeviceOf(k) # DeviceOf(m)
            \/ /\ BoundUnread(k) \/ BoundUnread(m)
               /\ bound[calls[k].conn].identity # bound[calls[m].conn].identity

\* compare_ui compares two screens taken under one identity.  They are of one device,
\* unless a transport had moved by the time one of them was taken
\* (docs/ui-automation.md, inspect_ui), or that identity is the serial of a transport,
\* which another device may have taken over between two bindings.
ComparesLikeWithLike ==
  \A k \in Planned : Submitted(k) /\ Len(calls[k].diff) = 2 =>
    LET base == calls[k].diff[1]
        current == calls[k].diff[2]
    IN  /\ base.identity = current.identity
        /\ base.device = base.led /\ current.device = current.led /\ base.identity[1] = "hardware"
             => base.device = current.device

\* A target is bound only by an ensure_ready that succeeds (docs/agent-integration.md,
\* "The first successful `ensure_ready` binds one target").
OnlySuccessBinds ==
  [][\A c \in Connection : bound'[c] # bound[c] =>
       \E k \in Planned : calls[k].at # "none" /\ calls[k].conn = c /\ ~Settled(k) /\ calls'[k].at = "ended" /\ calls'[k].ok]_mcpVars
=============================================================================
