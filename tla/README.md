# A verification project for ADB Ready

ADB Ready (`adb-ready`) is a command line and an MCP server that prepare one
Android target for development and keep it prepared: it selects a device, maps
its ports, starts a development server, watches the session's health, repairs
it, and takes everything down again.  It is one TypeScript program, but seldom
one process: several terminals, pool members, MCP servers and detached
development processes share a device, a per-user state directory and a host.

This directory models that program in TLA+, checks small instances with TLC and
proves theorems about the models with TLAPS.  Source paths below are relative
to the repository (`src/...` is the implementation, `docs/`, `tests/` its
documentation and tests).

1. [Inventory](#1-inventory): the parts of the system and what is hard about them
2. [Modules](#2-modules): how state and actions correspond to the code
3. [Runs](#3-runs): what is checked, with which bounds and why they are enough
4. [Fairness](#4-fairness)
5. [Proofs](#5-proofs): what is proved and along which argument
6. [Findings](#6-findings): where the code and its documentation disagree
7. [What is only model-checked, and what is not modelled](#7-limits)
8. [Plan](#8-plan): what comes next

---

## 1. Inventory

### How the parts meet

```
 terminal / CI          MCP client                       (one process each)
      |                     |
  cli/main.ts          agent/mcp-server.ts --spawn--> detached `adb-ready dev`
      |                     |        \                      |
      |                     |         +--- agent/dev-task.ts record file ---+
      |                     |
      +--- leases (state/target-lease.ts): one directory per target ---+
      |
  app/commands.ts runDev ---- session/watcher.ts  (observe / recover callbacks)
      |        \                    |
      |         \                   +-- session/state-machine.ts (two instances)
      |          +-- child, verifier, log stream (platform/process-runner.ts)
      |
      +-- adb (adb/client.ts): reverse mappings, devices, shell   [device, shared]
      +-- core/event-bus.ts --> state/session-store.ts            [files, shared]
```

Parties in one process interact by awaits, callbacks and abort signals; a
single JavaScript thread runs, so the code between two awaits is atomic.
Parties in different processes interact by files, by signals and through the
device, and nothing they do in two calls is atomic.

### Components

| Component | State | Operations | What is hard | What makes it correct |
|---|---|---|---|---|
| Target lease `state/target-lease.ts` | one directory and `owner.json` per target, the holder's timer | acquire with polling, stale recovery, heartbeat, release | every await is a point where another process acts; crash at any of them; clock read before the call it is used in | at most one holder; the record names it; a removal touches its own directory; every call returns; a dead owner is replaced |
| Session state machine `session/state-machine.ts` | the current state | `transition` (throws), guarded wrapper in `runDev` (skips) | two instances that must agree | no caller asks for a forbidden step |
| Watcher and recovery policy `session/watcher.ts`, `recovery-policy.ts` | machine, attempt, start of the episode, summary | watch loop: sleep, observe, delay, recover, verify | abort at five awaits; observe and recover may throw; the world changes between observation and use | bounded repair; honest summary; silent cancellation |
| Development session `runDev`, `app/commands.ts:3009-4904` | the phases' results, problems, child, verifier, watcher, mappings | prepare, gate, race, tear down, report | a race of five completions; any of a dozen calls fails; the signal at every await | honest outcome, nothing left behind, the session ends |
| Port mappings of a session `app/commands.ts` with `adb reverse` | device table; the session's `created` list | prepare, restore, clean up | shared with other tools; transports come and go; calls that take effect and are reported as failed | nobody's mapping is replaced; own ones are removed |
| Managed agent tasks `agent/dev-task.ts` | one record file per task; a detached process | start, activate, heartbeat, finish, get, stop, prune | read, await, write by several processes without a lock | a closed task is over; a stop ends the run; an end is noticed; an outcome is kept |
| Process runner `platform/process-runner.ts` | a child, timers, what the result will say | run, abort, time out, stop idle, escalate | order of exit, close, abort and timers; a grandchild that holds the pipes | whoever was asked to end is struck until it is over |
| Session store `state/session-store.ts`, `core/event-bus.ts` | manifests and event logs of sessions | record, finish, prune, list, read | crash of a recorder; failed appends; pruning in several processes over old lists | a finished manifest is truthful; only limits remove; limits hold |
| Remembered targets `state/target-state.ts` | one JSON file, one entry per adb server | read, write | unlocked read-modify-write | an entry is lost to nothing but an overlap or the limit |
| Agent setup `agent/setup.ts` | a client's configuration file and a skill | plan, stage, install, undo | two files, one rename each, an undoing that may fail | both or neither |
| Target pools `automation/target-pool.ts` | next index, results, abort controller | workers run members, fail-fast, aggregate | completion order of members against fail-fast | the aggregate tells the truth about required members |
| AVD lifecycle `automation/avd-lifecycle.ts` | emulator process, ownership | prepare, wait for readiness, release | a second process starting the same AVD; abort while booting | an emulator that was started is stopped, another's is not |
| Command orchestration `cli/main.ts` | leases, emulator and recorder of one command | select, lease, run, release, record | every error path must release | no lease or emulator survives its command |
| Inventory and selection `target/model.ts`, `target/selection.ts` | none | inventory to a choice or a problem | duplicate serials, ambiguity, remembered identity | the choice is unique, eligible and the one that was asked for |
| Connect, pair, ports, doctor, devices `app/commands.ts` | mappings and connections of the device | list, add, remove, connect, pair, verify | an adb success text that is not a success; several announced endpoints | success is verified |
| Log stream `app/commands.ts` `runLogs` | boundary, lines shown | tail, stream, selector | a tail put together from two runs of logcat while the device logs on | no line is lost |
| App commands `app/app-commands.ts` | installed packages, foreground | install, launch, stop, clear, uninstall, open | pm says nothing true of what it did; the app comes up later | a reported result was seen on the device |
| UI actions `evidence/ui-*.ts` | snapshot lease, references, input method | snapshot, find, act, restore, verify | references that are stale when used; abort between two calls | acts on what was seen; gives the input method back |
| Evidence `evidence/*.ts`, `automation/evidence-bundle.ts` | files under construction, remote recording | screenshot, record, inspect, bundle | the destination appears meanwhile; a recording interrupted half-way | nothing of others is overwritten; temporaries are removed |
| Configuration `config/loader.ts`, `app/config-commands.ts` | documents of the user and the project | validate, resolve, explain, init | inheritance, precedence, set-aside and rename | a reported value has the source and the value precedence gives it |
| Firebase Test Lab, Gradle devices `automation/firebase-test-lab.ts`, `gradle-managed-devices.ts` | a remote matrix; reports of a task | catalog, submit, observe, cancel, collect | the observation is killed before or after the matrix is known | the outcome is the provider's; an interruption ends no matrix |
| MCP server `agent/mcp-server.ts`, `serial-task-queue.ts` | queue, target binding, snapshots, leases | tool calls, per-call leases, UI comparison | calls overlap; the binding changes between queueing and running | mutations are exclusive; comparisons are of one device |
| Artifact resolution and deployment `automation/artifact-*.ts`, `target-profile.ts` | installed packages | resolve, install, verify | install succeeds and verification does not | the reported package is the installed one |
| Loopback bridge, hooks, Metro `dev/*.ts` | a relay; hook processes | probe, bridge, run hooks | partial start | what was started is closed |
| Readiness `automation/readiness.ts`, `dev/local-services.ts`, `expo-launch.ts`, `expo-controls.ts` | attempt, deadline | poll assertions | deadline against a late success | ready means every assertion passed |
| External verifier `automation/external-verifier.ts`, `autonomous-plan.ts`, `capabilities.ts` | artifacts of one run | prepare, classify, collect | data | |
| adb client and parsers, argument parser, completion, project detection, events and redaction, log classifier, agent profiles, domain types, session commands, presentation | none | transformations of text | text | |

`PROJECT.json` lists every component with its status, and under `hazards` what
is hard to test in this code, each at its line with the properties that would
catch it going wrong.

---

## 2. Modules

| Module | Models | Extends or instantiates |
|---|---|---|
| `ExclusiveTarget` | what the lease promises: one holder, changed only by a release | |
| `TargetLease` | `state/target-lease.ts`, one step per awaited file-system call | instance of `ExclusiveTarget` |
| `SessionMachine` | the transition table, with its throwing and its skipping use | |
| `BoundedRepair` | what the watcher promises: each break repaired within a number of tries or given up | |
| `SessionWatcher` | `session/watcher.ts`, `recovery-policy.ts` | `SessionMachine`, instance of `BoundedRepair` |
| `DevSession` | the control of `runDev` | `SessionMachine`, instance of `SessionWatcher` (composition) |
| `AgentTask` | `agent/dev-task.ts` and the CLI's use of it | |
| `ProcessRunner` | `platform/process-runner.ts`: one call of `runProcess` | |
| `TargetPool` | `automation/target-pool.ts`: workers, fail-fast, the aggregate | |
| `CommandRun` | the `run` command of `cli/main.ts` with `automation/avd-lifecycle.ts`: leases, emulator, target, work, release | `TargetPool` (composition: its members are these runs) |
| `DevPorts` | the mappings of `runDev`: prepare, recover, clean up, among other tools | |
| `SessionStore` | `state/session-store.ts`: recorders and pruning | |
| `TargetState` | `state/target-state.ts`: readers and writers of one file | |
| `AgentSetup` | `agent/setup.ts`: two files, both or neither | |
| `SharedState` | the four above side by side, in one specification | `AgentSetup`, `TargetState`, `SessionStore`, `DevPorts` |
| `Records` | a record with some fields changed or added | |
| `CliCommand` | what every command is made of: calls that end well, fail or are aborted, problems, exit codes | |
| `TargetSelection` | `target/model.ts`, `target/selection.ts` as operators | |
| `TargetCommands` | `doctor`, `devices`, `ports`, discovery, `connect`, `pair` | `CliCommand`, `TargetSelection` |
| `LogsCommand` | `logs` | `TargetCommands` |
| `AppCommands` | `app ...`, `open` | `LogsCommand` |
| `UiCommands` | `ui ...` | `AppCommands` |
| `EvidenceCommands` | `capture`, `inspect`, `bundle` | `UiCommands` |
| `Configuration` | the rules of `config/loader.ts` as operators | |
| `ConfigCommands` | `loadConfig` behind `config ...`, and `init` | `EvidenceCommands`, `Configuration` |
| `TestCommands` | `test firebase ...`, `test gradle` | `ConfigCommands` |
| `McpServer` | `agent/mcp-server.ts`, `serial-task-queue.ts` | |
| `...Proofs` | theorems about `TargetLease`, `SessionWatcher`, `DevSession`, `CommandRun` and `SharedState`; those about `AgentTask`, `ProcessRunner` and `McpServer` are in `AgentProofs`, those about the commands in `CommandsProofs` | the module of that name, TLAPS |
| `OperatorTheorems` | lemmas about folds, sums and repetitions of the community modules, and about those of `Configuration`, cited by the proofs | `Configuration`, TLAPS |
| `MC...` | constants for TLC | the modules they check |

Three runs check parts that share no state, so that a behaviour exercises one of
them: that of `SharedState` (`AgentSetup`, `TargetState`, `SessionStore`, `DevPorts`;
the variable `subject` says which), `MCAgentTask` (`AgentTask`, or one call of
`ProcessRunner`) and `MCCommands` (one command of any family, or the MCP server).

In every module a mutant, an operator that changes one definition the way a
plausible bug would, stands before the definition it mutates and says so.
Each checked property is paired with one, and is violated by it.

### TargetLease

| Model | Code |
|---|---|
| `dir`, `record`, `mtime` | the lease directory (by the lease whose `mkdir` made it), `owner.json`, the directory's time stamp |
| `call[p]` | the locals of `acquireTargetLease` / `tryAcquireTargetLease`: attempt, `now` read at its start, deadline, the owner read before |
| `hb[p]` | a heartbeat between its read and its write (229-240) |
| `Acquire`, `MkdirCreates/Exists/Fails`, `WriteOwner(Fails)` | 173-226: the clock is read, `mkdir` tests and sets, the record is written to whatever directory is at the path by then |
| `ReadOwner`, `StaleLease`, `JudgeStale/BusyReturns/BusyWaits`, `PollAgain`, `CancelWait` | 103-171, 275-347 |
| `Quarantine`, `QuarantineGivesUp` | 287-298: `rename` of whatever is at the path, at most three attempts |
| `HeartbeatRead`, `HeartbeatWrite` | 229-246 |
| `Release`, `RmUnlink`, `RmRmdir` | 248-263; `rm(recursive)` unlinks the record and then removes the directory, and another process may write a record in between |
| `Exit`, `Tick`, `Timely` | death of a process; the clock; the assumption that a live process is not held up for a whole TTL, dropped by the fault `expiry` |

The clock is discrete and bounded; the lease id is a counter in place of a
random UUID, so that ids never repeat.  `usurped` is a history variable: stale
recovery has taken the directory of a live process.

### SessionMachine, SessionWatcher, BoundedRepair

`wpc` is the await at which `watchSession` stands: `interval`, `observe`,
`delay`, `recover`, `verify`.  `faults` is what is wrong with the session now,
`seen` what the last observation found, so the two may differ.  One action is
the code from one await to the next, including every event it emits
(`emitted`), every counter it changes and every transition it asks of its
machine; `NextAttempt` is the head of the attempt loop, shared by its three
entries.  `Transition` yields `Thrown` where the code would throw.  Elapsed
time saturates at the deadline since only whether it has passed matters, and
goes on while `recover` and the verifying `observe` are awaited (`TimePasses`).

### DevSession

`pc` is the await of `runDev` (`app/commands.ts`):

| `pc` | Actions | Code |
|---|---|---|
| discover, list | `Discover`, `ListPorts`, `GiveUp` | 3009-3294: inventory, selection, project, port list and conflicts |
| earlyHooks | `EarlyHooks` | `beforeDev`, `onTargetReady`, 3494-3511 |
| prepare | `PreparePorts` | pending mappings and their verification, 3513-3547 |
| probe | `ProbeMetro` | attach to a verified Metro or stop at a foreign one, 3643-3712 |
| portsHook | `PortsHook` | `onPortsReady`, start of the child, 3714-3921 |
| readiness, launch, startup, readyHook | `Readiness`, `Launch`, `Startup`, `ReadyHook(Fails)` | the gate, 3922-4198; `CloseGate` is its failure |
| race | `Race` | `Promise.race`, 4635-4648 |
| awaitWatch, awaitVerifier, awaitChild, exitHook | the actions of these names | 4648-4742, the order of the teardown |
| cleanup, abandon, finally | `Cleanup`, `Abandon`, `Finally` | mapping removal (3549-3604), closing problems (`ClosingProblems`), `complete()` and the exit code, 4743-4903 |

Beside it run the child and the verifier (`ProcessEnds`), the caller's signal
(`Interrupt`), the world (`WorldChanges`), and the watcher: `WatchStep` is a
step of the instance of `SessionWatcher` on the same variables, and folds the
events of that step into the session's own machine as the `onEvent` callback
does.  Problems are kinds (`"Adb"`, `"Hook"`, ...), in place of records.  What
may go wrong is the constant `Failures`; how a call fails once the signal is
there, as itself or as an interruption, is a choice.

### DevPorts

The device is a table of mappings per transport.  Two variables are history: `owner` tells who
made each mapping, and `lost` the ports at which a mapping of the session was and is gone,
replaced, removed or down with its transport.  `pc` follows `runDev`'s use of the ports and
`wpc` `recoverSession` beside it.  Every `adb` call is one step.  `seen` is the list recovery
decides by, stale as soon as it is returned.  A call may fail without effect, or (`lateAdd`,
`lateRestore`) take effect and be reported as failed. Other tools add, replace and remove
mappings; a transport goes down with its mappings and comes up without them.

### AgentTask

`record` is the task's file; `starter` is `startAgentDevTask`, `proc` the
managed process from boot through activation, run, `finish()` and exit, `pc[c]`
a client inside `getAgentDevTask` or `stopAgentDevTask`.  `held`, `beat` and
`mine[c]` are the records that the process, its heartbeat and a client have
read and will write back changed: each write replaces the whole file.  Times
are abstracted to `fresh` (younger than the staleness limit); the polling loops
keep their bound but count to `MaxPolls` instead of 20 or 50.  The process
cannot outlive the limit unheard unless the host sleeps, which the fault `sleep`
allows and the history `missed` records.

### ProcessRunner

`request` is what the caller asks for, `running` where the promise stands,
`child` and `grand` the process and one it may have started in its group and on
its pipes: `mild` ends at SIGTERM, `stubborn` only at SIGKILL.  `timers` are
those that are set, `ended` the flags the result will carry.  `Terminate` is
`terminate()` with its two early returns and the escalation that is set once;
the promise settles at `Closes` only, when the child is gone and nobody holds its
pipes.  The capture of output is left out, and so is `taskkill` on Windows.

### TargetPool, CommandRun

A worker of `runTargetPool` is either running a member or gone, so the pool is
the set of members that are `running`, `nextIndex`, `stopScheduling`, the pool's
own controller (`aborted`) and the caller's signal (`signalled`).  `Settle` is
what a worker does in one turn once its member is over: record the result,
stop under fail-fast, and go round its loop, where it takes the next member,
records it as cancelled, or ends.  `MemberReturns` and `MemberThrows` are the two
arms of its `try`; `PoolCloses` fills the gaps and computes the exit code.

What a member does is a run of `adb-ready run`, and the module that says what
extends the pool: `CommandRun` has the members and the runs of other terminals
(`Others`) side by side.  `pc` is the await of `runCliInternal`:

| `pc` | Actions | Code (`cli/main.ts`, or `automation/avd-lifecycle.ts`) |
|---|---|---|
| idle, leaseAvd | `Start`, `LeaseAvd` | 1725-1795: tools, the lease `avd:NAME`, the emulator's capability |
| look, spawn, boot, cleanup | the actions of these names | `prepareExistingAvd`: who runs the AVD, port and process, readiness, and the stop of what did not get ready |
| select | `Select` | 1855-2014: the inventory, and the connection to an announced device when nothing can be selected; the `identity` of what is chosen is read here, or cannot be |
| leaseTarget | `LeaseTarget` | 2151-2223 |
| deploy, verify | `Deploy`, `Verify` | 2624-2810: deployment and `runDev`, whose inside is `DevSession` |
| release, unlock, report | the actions of these names | 2811-2905: `preparedAvd.release`, its `finally`, the evidence, the command's `finally` |
| failRelease, failReport | the actions of these names | 1675-1724, `finishAutonomousFailure` |

`holder` is the state of `ExclusiveTarget`, which `TargetLease` implements while
processes are on time: an acquire is granted when nobody holds the resource.  What
is leased is a **name**: `AvdLease` for `avd:NAME`, and `NamedLease` for
`hardwareSerial ?? id ?? serial` of the target as it was observed when it was selected
(2159).  The `getprop` for the hardware serial may fail (`app/commands.ts:671`, the
fault `identity`), so that one target goes by two names, which are two leases.
`emulator[p]` is what runs at console port `p`; a process takes its port
(`Binds`) some time after it was spawned, boots, may drop off adb and come back,
or exit.  `StopsOwned` is `cleanupOwnedEmulator`: the console command goes to
whatever emulator answers at the port, the signals go to the process.  SIGKILL is
assumed to end an emulator.  Exit codes 2 to 70 are one `Failure`, except for the
code of the one return that gives nothing back (`NotConnected`).

### AgentSetup, TargetState, SessionStore

* `AgentSetup`: `spc` is the await of `atomicWriteSet` (stage every file, move
  the old one aside, install, drop the backups, read again); `undoing` is the work
  its `catch` and `finally` have left.  A call may fail (`call`), one of the
  undoing may (`undo`), and the process may die between two of them.  `looked` is what
  `lstat` said, which is "absent" whenever the look fails (`look`); every decision is
  taken by it.  That a failed look at a parent also passes for a safe one
  (`unsafeAncestor`, 323) is part of `looked` only as far as the destination is
  then taken for absent.
* `TargetState`: each writer reads the document (`ReadState`), and replaces it
  with its own entry and the newest others up to `MAX_REMEMBERED_SERVERS`
  (`WriteState`).  An entry is the writer and the time of the write.
* `SessionStore`: `rpc` follows a `SessionRecorder` through `create`, `record`,
  `finish` and `pruneSessions`.  Appends are chained in `pending` behind the
  recorder's back.  Pruning reads the manifests one by one (`ReadName`), sorts
  them (`Sort`), looks at one after the other (`Prune`) and removes two files
  in either order (`RemoveFile`), twice: by project and over all.  A session's
  size is its number of lines and one for the manifest.

### CliCommand and the modules of commands

A command is sequential, and its world is not: what it has seen may no longer
hold, its calls fail, lie or take effect late, and the caller may interrupt it
at every await.  `CliCommand` states that once.

| Model | Code |
|---|---|
| `cmd` | the command with its options, and what the device or the disk has been set up with |
| `at`, `mem` | the await the command stands at, and its locals |
| `problems`, `exit` | the categories of the problems recorded so far; `exitCodeForProblems` (`ExitOf`), or the function of its own that `app-commands.ts` and `evidence/` have (`AppExitOf`) |
| `signal`, `cut` | the caller's `AbortSignal`; history: a call was aborted by it |
| `facts` | what holds of the device and the host, as a set of small tuples |
| `Settles`, `SettlesAlone` | how a call ends: one that was given the signal is aborted once it is raised; a clean-up is not given it |
| `Effect`, `HonestEffect` | what a call does to `facts`: a call reported as failed may have taken effect (`late`), one that says success may have done nothing (`lie`); an honest one is relied upon because its report is the effect (an exit code of the file system) |

* `TargetCommands`: `StartInspect`, `MdnsStep`, `HardwareStep` and `Inspected` are
  `inspectTargets`, whose two awaits run side by side; `Select` is
  `SelectTarget` of `TargetSelection` on what they found.  `PortsMutate` and
  `PortsVerified`, `ConnectAttempt`, `ConnectState` and `ConnectIdentity`,
  `PairAttempt` are the mutations with the looks behind them.  `connect` goes on with the
  endpoint that adb's answer names (1488-1493), which is one of `Answers`: the one it was
  asked for, or another that is connected.
* `TargetSelection`: `IdentityOf` and `TargetsOf` group transports into targets,
  `SelectTarget` is the chain of rules by transport id, selector, memory, and the
  only or first ready one.  Identities are kept by serial, as in the code, and so
  `Bearers` are the ready transports that one serial stands for, and a transport is
  `Mistakable` for another bearer when one of them belongs to a device with a transport of
  yet another serial.
* `LogsCommand`: the device has logged the lines 1 to n; `Boundary`, `Snapshot`,
  `Line` and `StreamEnds` are the two runs of logcat and the lines that are shown.
* `AppCommands`: `Change` is an adb call with the effect it is meant to have;
  `Look` what is read afterwards.  An app that was started comes to the foreground
  by itself (`AppAppears`).
* `UiCommands`: `UiLock` and `UiDump` are `captureUiHierarchy` under its lease;
  a snapshot is the screen and the text it shows, and so is its digest
  (`Digest`); a node is a point of a screen.  `Calls` are the inputs of one
  action, sent one by one; `AfterInput` is the `finally` that gives the input
  method back.  `FieldsSeen` is what `correspondingNode` finds of the field in the
  screen after the input: the field itself while the screen is the one it was found on
  (`SameScreen`), else whatever node of the new screen has its unique id or its class and
  bounds, with any text, or none.  The screen, the keyboard and the holder of the lease change by
  themselves (`UiMoves`).
* `EvidenceCommands`: `Prepare`, `Commit`, `Discard` are `evidence/files.ts`;
  another program may write the destination at any time (`ForeignFile`).  The removal of
  the local temporary may fail too (`DiscardFails`, `files.ts:115`): of a `capture` that is
  an error nobody catches (`Escapes`), a bundle swallows it.
* `Configuration`: one predicate for each part of `validateDocument`
  (`AdbRule` to `HooksRule`), `ValidInheritance`, `ResolveProfile`, and the
  reading of the environment.  A value is `0` for what is no positive integer,
  `""` for what is no text, `"odd"` for a text of the wrong form.
* `ConfigCommands`: `ReadDocument`, `ReadProject` and `Resolve` are `loadConfig`,
  with the source of each value; `InitLooks`, `InitWrites`, `InitUndone` are
  `init` with its set-aside, rename and read-back.  What the user is told is
  compared with a second definition of precedence that does not go layer by
  layer (`Sources`).
* `TestCommands`: `FirebaseInput`, `CancelMatrix`, `ReadCatalog`, `ObserveMatrix`
  (how gcloud's run may end, and `Classify`, the verdict made of it),
  `CollectProviderEvidence`, `RetainEvidence`; `GradleInput` to
  `GradleCollected`.  Removing one's own temporaries is assumed not to fail.

### McpServer

`calls[k]` is a tool call with its arguments and where it stands; a connection
has one `SerialTaskQueue` (`Turn`).  `Begin` is the wrapper before the handler
(configuration, binding, handle), `TakeLease` and `Release` the lease of a
mutation, `EnsureInput` to `EnsureRelist` the tool `ensure_ready`, and `ToolInput`,
`RunTool`, `FindTarget`, `Act`, `CompareBase` the handlers of the other tools, by
what they do to the target.  `inventory` is what adb lists now: transports move,
a device may come back under a transport id another one had, and its hardware serial may
or may not be readable (`hw`).  `Identity` is `hardwareSerial ?? id ?? serial`: without
the hardware serial it is that of the transport.  `led` is a history variable: the device
to which a transport led when it was bound or a view was taken.  `snapshots` is
`uiSnapshots`, with its limit; a snapshot may expire.

---

## 3. Runs

| Run | Configuration | Instance | Checks |
|---|---|---|---|
| `lease_normal` | `TargetLease_normal` | 3 processes of one machine, TTL 2, wait 1, clock to 3, one call each, failing I/O | `HolderIsRecorded`, `NeverUsurped`, `RemovesOnlyOwnDirectory`, `ImplementsExclusiveTarget` |
| `lease_faults` | `TargetLease_faults` | 2 processes, 3 calls each, crash, I/O, stalls past the TTL, late heartbeats | `ExclusionUnlessUsurped` |
| `lease_recovery` | `TargetLease_recovery` | 2 processes, 2 calls each, crash, clock to 4 | `AcquireReturns`, `DeadOwnerIsReplaced` |
| `lease_two_recoverers` | `TargetLease_two_recoverers` | 3 processes, crash | `MutualExclusion` is violated (finding) |
| `watch_recovery` | `SessionWatcher_recovery` | 2 parts, 3 attempts, delays 1 and 2, deadline 6, 4 checks | `NeverThrows`, `ReadyIsVerified`, `CancellationIsSilent`, `EpisodeEnds`, `ImplementsBoundedRepair` |
| `session` | `DevSession_session` | `dev` and `run`; watched sessions that clean up, with a Metro that may be attached to, and unwatched ones; every failure; 2 attempts, 1 check | `HonestOutcome`, `NothingLeftBehind`, `SessionFollowsWatcher`, `ReadyIsHonest`, `SessionEnds` |
| `agent_task` | `AgentTask_shared` | 2 connections, one poll per loop, every fault; or one call of `runProcess`, every request | `TerminalMeansOver`, `AskedToEndIsStruck`, `SignalledStopEnds`, `GoneIsNoticed` |
| `agent_completion` | `AgentTask_completion` | the task without faults | `CompletionIsKept` is violated (finding) |
| `command` | `CommandRun_shared` | a pool of 2 members (both required and fail-fast, one at a time or both at once; or the second optional, one at a time, no fail-fast) and one run outside it, 1 AVD that two of them want, 1 phone that must be connected to; or 2 runs outside that want different AVDs and may read identities or not; 1 console port; every fault | `SuccessIsVerified`, `LeasedWork`, `NothingSurvives`, `NothingStartsAfterFailure`, `StopsOnlyOwn` |
| `shared_state` | `SharedState` | one of: agent setup with every kind of file; 4 writers of 3 adb servers, 2 entries kept; 3 sessions of 2 projects, one of them over, small limits of each kind; 2 transports with 2 ports, 4 steps of others; every fault | `SetupIsAtomic`, `OthersAreKept`, `FinishedIsComplete`, `OnlyLimitsRemove`, `PruningKeepsUp`, `NothingLeaks` |
| `commands` | `MCCommands` | one command of any family, with the options, inventories, documents and device states of `MCCommands`; or an MCP server with 2 connections, 4 calls, 2 devices that move between transports twice, one of which may hide its hardware serial, 1 cached view | `DoneIsVerified`, `ResultIsVerified`, `OnlyWhatWasAsked`, `InterruptionIsNotSuccess`, `NoLogGap`, `NothingTemporaryLeft`, `MutationsAreExclusive`, `ComparesLikeWithLike` |
| `mcp_binding` | `MCMcpServer` | the MCP server alone, without faults | `OnlySuccessBinds` is violated (finding) |

What the properties say of the newer parts:

* **Runs.**  `LeasedWork`: a run that chose its target verifies it under the lease of the
  name it read, and under that of its AVD; two runs on one target at once are such that one of them
  read the hardware serial and the other could not, which is the one way to share it.
  `StopsOnlyOwn`: an emulator goes down by itself, by a step of the run that
  started it, or, the one mistake that is possible, by a run that picked the same console
  port and whose own emulator has yet to take it.  The run reaches both exceptions.
* **Setup, remembered targets, history, mappings.**  `SetupIsAtomic`: agent setup that has
  returned has changed both files or neither, and no old content is gone at any moment, unless a
  call of the undoing failed too.  A destination that setup took for absent because it could not
  look at it is excepted by name: it is replaced without a backup and an error leaves nothing
  there, but the other one is restored.  `OthersAreKept`: a writer of the remembered targets
  loses an entry only to an overlap or to the limit, and a session maps only ports that are free
  by then, however old the list it decided by, and its cleanup, which knows its mappings by
  their device port alone, removes another tool's only at a port where the session's own was and
  is gone.  `FinishedIsComplete`: a manifest that says a session is over counts the lines of its
  log; `OnlyLimitsRemove` and `PruningKeepsUp`: pruning in several processes removes nothing the
  limits keep (of two sessions that finished at once, the first by name counts as newer, as in
  the code's order), and once a session of the run has finished and pruned, leaves nothing they
  do not, whatever was there before.  `NothingLeaks`: a session that cleaned up without an error
  leaves no mapping it was told it made.
* **Runner.**  `AskedToEndIsStruck`: a call that was aborted, timed out, fell idle or
  whose callback threw never waits for a process of its own with no escalation to come.
* **Commands.**  `DoneIsVerified`: exit code 0 of a command that changes something means that
  what was asked for was the case, as far as each command looks: the mapping is there or gone,
  the endpoint online, the package installed or removed, the text that is called verified in the
  field, if the screen is still the one it was sent to, the file in place.  `ResultIsVerified`
  says the same of `config`, `init` and `test`: the explained value is the one that precedence
  gives, the verdict the provider's. `OnlyWhatWasAsked`: nothing changes in a dry run, after an
  error, on another device than the one asked for, at a stale reference, or over a file of
  others.  The choice of a device has two exceptions (`ChoiceIsSafe`): a remembered serial, and
  a device one of whose transports is `Mistakable` for another's.  `InterruptionIsNotSuccess`: a
  command of which a call was aborted does not exit with 0, with the exceptions the property
  lists.  `NoLogGap`: the lines shown by a tail that is followed have no gap.
  `NothingTemporaryLeft`: whatever failed, the file a command was building and its lease are
  gone, and what stays on the device, a recording or another input method, is reported.  A
  removal of the file that fails leaves it: a capture then ends with an internal error, a bundle
  with the error that made it give up.
* **MCP.**  `MutationsAreExclusive`: two calls change one device at a time only if a
  transport has moved since it was bound, or one of the two bindings was made while the
  hardware serial could not be read and they differ in identity.  `ComparesLikeWithLike`: the two
  screens of a comparison have one identity; if that is a hardware serial and neither transport had
  moved, they are of one device.

### Why the bounds are enough

* **Lease.** Every conflict needs at most an owner, one that recovers and one
  that recovers too: three processes.  TTL 2 is the smallest for which a
  heartbeat renews a lease before it expires.  The clock passes the TTL in
  `lease_normal` and twice the TTL in `lease_recovery`, so that a lease taken at
  any time can expire and be taken again; the wait of one tick makes a call poll
  more than once.  Three calls of each of two processes in `lease_faults` let
  one call quarantine three times and give up.  Safety runs use the symmetry of
  processes of one machine; the liveness run does not.
* **Watcher.** Two parts are enough for a recovery that repairs one and leaves
  or breaks the other.  With three attempts the delays are 1, 2, 2: the cap of
  the exponential delay is reached, and both ends of the budget occur, the
  attempts (1 + 2 + 2 < 6) and, when calls take time, the deadline.  Four checks
  allow a whole failed episode and one after a recovery.
* **Session.** One part that can break is enough, since the watcher is checked
  by itself; two attempts make a failed verification followed by a success, one
  check makes one whole episode, and a session may be interrupted at any point of
  it.  Options range over what the argument parser lets through: Expo implies Metro,
  live controls imply Expo and exclude a verifier.
* **Agent task.** Two connections suffice for stop against stop and poll against
  stop; one poll per loop reaches each of its three ends.
* **Runner.** A child and one process of its own are the smallest tree in which the
  group matters; each may or may not end at SIGTERM.  There is no other bound.
* **Command.** Two members make every order of a failure against a start, a
  running and a finished member, with one worker and with two; the outside run
  shares the second member's AVD without sharing its signal.  The lease of an
  AVD serialises all who want it; two runs that want different AVDs and find one port meet
  where no lease does, and a user's emulator of either may occupy it from the start.
  These two run without a pool at work (`NoPool`), and only then may
  an identity be unread (`Beside`): a third party would add no conflict to theirs.
* **Shared state.** Three servers over a limit of two make an entry leave; the
  fourth writer overlaps a writer of its own server.  Three sessions, one over before, in two
  projects: two recorders prune at once, each may meet the limits by number (two by
  project, two in all), bytes (three, five) and age (4 of a clock to 6).  Two
  transports and two ports make partial success of each loop and the change of target;
  four steps of others unplug and replug a transport and map a port in between.
* **Commands.** A command is sequential, so its bounds are its inputs: one record for
  each way its code can go, named in `MCCommands` beside the family they belong
  to.  Inventories have the devices that may be confused: one on two transports, two with
  one serial number, of which one may have a wireless transport as well, one known by an
  mDNS name only.  Four log lines are one before
  the boundary, one between the two runs of logcat, and two later.  Two screens and two
  texts tell a stale reference from a fresh one.  Three or four provider files
  against a limit of two, with sizes at and above the limits of 20 and 50 MiB.
  Documents have one value that is right and one that is wrong for each rule, and
  profiles that inherit in a line, in a circle and from nowhere.
* **MCP.** Four calls on two connections are a binding for each and a mutation for each
  at the same time, or a view, a rebinding and a comparison on one; two changes of the
  inventory move a transport id from one device to the other.  One device is also listed
  without its hardware serial, so that it is bound under two identities.

Deadlock is not checked: every one of these programs stops.

---

## 4. Fairness

Fairness is assumed only of steps that a timer, a local computation or a bounded
call drives, and of none that a user, another program or an accident takes.

* **Lease:** a process inside a call, a heartbeat or a removal takes its next
  file-system step; time passes.  Nobody has to call, release or crash.
* **Watcher:** each await settles: sleeps are timers, and every adb call made by
  `observe` and `recover` has a timeout in `adb/client.ts`.  The world need not
  heal.
* **Session:** `runDev` and the watcher go on; an *aborted* process ends because
  `platform/process-runner.ts` escalates to SIGKILL, which `AskedToEndIsStruck` shows.  A
  process that was not aborted need not end, and the user need not interrupt.
* **Agent task:** the process and every call go on; clients poll, as the agent
  guide asks them to.  `GoneIsNoticed` also needs strong fairness of the write
  that closes a lost task: a disk may fail, but not at every poll for ever.
* **All others:** none; what is checked of them is safety.

---

## 5. Proofs

The proof modules hold for every value of the constants: any set of processes,
any TTL, any policy, any pools and runs, and without the bounds that TLC needs.

### The lease (`TargetLeaseProofs`)

Assumptions: those of the module's `ASSUME`s (the TTL is at least 2 ticks).

* `TypeCorrect`: type correctness.
* `ExclusionHolds`: under **every** fault, two processes hold the lease only
  after stale recovery has taken a live process's directory.  `MutualExclusion`
  says nothing of directories, so it is not inductive; the strengthening
  `OwnershipInv` is: lease ids are never reused (`LeaseIds`), and, as long as
  nobody was usurped, whoever is between its `mkdir` and its `rmdir` is the one
  whose directory is at the path (`DirectoryIsOwners`).  Two holders would own
  one directory under two ids.  The only step that can break it is the rename of
  stale recovery, and `RenameTakesNoOwner` shows that it either sets `usurped`
  or takes the directory of nobody.
* `OwnersAreSafe`, `LeaseIsExclusive`, `LeaseIsRecorded`, `LeaseRemovalIsOwn`:
  with `OnTime` (nothing but I/O failures), stale recovery never fires.  The
  argument is about time: `OnTimeInv` says that a directory has a live owner and
  a record in it is that owner's (`DirectoryOwned`), that records and ownerless
  directories are younger than a TTL (`DirectoryFresh`), that a heartbeat in
  flight renews and does not shorten (`HeartbeatFresh`), and, the part that makes
  it inductive, that what an attempt **remembers** is not stale by the clock it
  **started with** (`CallFresh`): the code judges an old record by an older clock.
* `LeaseImplementsExclusive`: each step is one of `ExclusiveTarget` or a stutter
  (`StepRefines`), with the holder of the abstract target read off `pc`.

### The watcher (`SessionWatcherProofs`)

Assumptions: the policy that `config/loader.ts` validates (`PolicyAssumption`).

* `WatcherInvariant`: `IInv` is inductive.  It joins `TypeOK`,
  `EpisodesAccounted` and `FailedMeansSpent` with `Standing`, which ties the await
  the loop stands at to the state of its machine and to the attempt counter.
  Without it no transition could be shown to be allowed.  `Budget` and
  `AttemptStep` isolate the head of the attempt loop, entered from three places:
  it makes the n-th attempt, or gives up with the budget spent.
* From it: `WatcherTypeCorrect`, `WatcherNeverThrows`, `WatcherReadyIsVerified`,
  `WatcherFailedMeansSpent`, `WatcherEpisodesAccounted`, and the action property
  `WatcherCancellationIsSilent`.
* `WatcherIsBoundedRepair`: each step maps to a step of `BoundedRepair` or a
  stutter (`StepRefines`), where the tries left are `MaxAttempts - attempt`: the
  watcher never makes an attempt more than the policy allows.

### The pool and its runs (`CommandRunProofs`)

Assumptions: `PoolAssumption` and `RunsAssumption`, which say what kind of thing
each constant is.

* `CommandInvariant`: `IInv` is inductive.  Its parts are about the places where
  the code keeps what it owes to somebody:
  * `PoolKnows`: a fail-fast pool that has recorded a failure of a required
    member has stopped scheduling or is aborted, and its exit code agrees with
    the results;
  * `Verified`: a run that will return success, and a member that passed, has a
    verified target;
  * `Preparing`: a process that was spawned and has no port yet belongs to a run
    that wants an AVD and knows the port;
  * `ProcessesAreOwned`: an emulator process that is not over belongs to a run
    that stands where its code still stops it;
  * `LeasesAreOwned`, `WorkIsOwned`: a lease is held by a run between its grant
    and its release, and a run at work holds those of what it selected, by the name it
    read;
  * `UpIsOwn`: an emulator that was started by a run is its own process, at the port the
    run was given.

  None of the properties is inductive alone: `NothingSurvives` speaks of the end
  of a run and needs to know, at each of its exits, what it still owes.
* The aggregate takes the first required member that did not pass, by CHOOSE:
  the lemma that there is a least one (`Least`) rests on the well-foundedness of
  the naturals.
* From it: `CommandTypeCorrect`, `PoolSuccessIsVerified`, `RunsLeaveNothing`, and the
  action property `FailFastStopsStarts`, which needs that nobody but `Settle` starts a member.
  `WorkIsUnderLease`: the lease is that of a name, so two runs on one target hold two
  leases and have read two names; there are no more than two, and one is the hardware serial.
  `EmulatorsAreStoppedByTheirOwn`, for any AVDs and ports: the console command of a run goes to
  its port, and whatever emulator is there is its own, by `UpIsOwn`, unless its own
  has yet to take the port.

### The development session (`DevSessionProofs`)

Assumptions: those of the watcher's policy, on which the session's instance of it rests.

* `Invariant`: `IInv` is inductive.  What `runDev` returns is decided at its end from
  variables set all along, so that `Outcome`, the three properties of the end together
  with what must hold in the `finally` before it (`Earned`, `PortsLeft`), needs to know
  what can have happened at each place of the function:
  * `Machines` ties the place to the state of the session's machine and the watcher's
    place to the state of its own, which `SessionFollowsWatcher` compares;
  * `Extent` says between which places the child, the verifier and the watcher may run:
    the child is over before the exit hook, the verifier before the child is awaited, the
    watcher runs beside the race only;
  * `Reasons` says why a process was aborted and why the race is over: without it an
    aborted child could not be told from one that failed;
  * `Reported` bounds the problems that can be there before the session is ready.
* A step of the watcher emits up to three events, which the session's machine takes in
  turn: `Following` is a recursive function, and the lemma `FollowingStepwise` unfolds it.
  `WatcherInStep` is the lemma about the composition: the watcher's own action and
  the session's reading of its events leave the two machines in the same state.
* From it: `Honest`, `CleanExit`, `Follows`, and the action property
  `HonestReadiness`.

### The agent's task and its processes (`AgentProofs`)

Assumptions: `RequestsAssumption`, the kinds of request there are; the clients may be
any set.

* `ClosedTaskIsOver`.  `TerminalMeansOver` speaks of the record in the file; the code
  writes that record from copies read earlier, by clients, by the heartbeat and by the
  task itself, and so the invariant `TaskInv` is about the copies: every one that will be
  written back names the process (`NamesProcess`), one that is no longer fresh tells of a process
  that is over or was not heard of for the staleness limit (`StaleIsOver`), and what a
  client has concluded stays true however long it takes to act on it (`Judged`).
  `StepKeeps` is the lemma about any step that respects them, cited by every action.
* `StopReturnsWhenOver`, the action property `SignalledStopEnds`, from the same invariant.
* `AskedToEndWillBeStruck`.  The property alone is not inductive: the escalation
  is set once, and its timer is gone after it has struck.  `KilledAreGone` says why
  that is no harm: once SIGKILL has been sent, or is what the caller sends first,
  nothing of the call's own is alive, and the dead start no child.
  `TerminateStrikes` is the lemma about `terminate()`, used for its three callers.

### What is shared without a lock (`SharedStateProofs`)

Assumptions: those of the four components (`StoreAssumption`, `StateAssumption`,
`TransportAssumption`), which say what kind of thing each constant is, and that there are
finitely many writers and finitely many sessions.

* `Invariant`: each component has an invariant of its own, `SetupInv`, `StateInv`,
  `StoreInv` and `PortsInv`, and a step of one leaves the others as they are.
* `SetupChangesBothOrNone`: `SetupInv` says where each of the two files stands (as it was, with
  its old content aside, or swapped) at every place of the plan, by what is left of the plan
  (`Staging`, `Swapping`, `AllSwapped`, `Reading`) and of the undoing (`Undoing`: what is left
  to undo may stand anywhere, the rest is as it was). All that is conditional on `failed = {}`,
  as the property is: a failed call of the undoing spoils its file.  An overlooked destination
  keeps its old content where the others have theirs aside, and `Whole` lets the undoing leave
  nothing there; the theorem is therefore about every outcome of the looks, and about the other
  file where one was overlooked.  The list of writes loses its first element and that of the
  undoing its last; `FrontAndBack` is the lemma about both.
* `HistoryIsComplete`: `Counts` relates the log, the appends on their way and the
  counter of each recorder; `Settles` says that only a recorder that is past its
  appends has a finished manifest; `ListsOnlyOver` that a list, however old,
  names only sessions that are over, so that pruning takes the log of no session that is
  still written.  `OneChanges` is the lemma about a step that touches one session.
* `RemovalsAreDue` and `HistoryIsLimited`, for any number of sessions, projects and
  prunings at once: what is removed exceeded a limit (`OnlyLimitsRemove`), and what is left
  when all have finished exceeds none (`PruningKeepsUp`).  A pruning decides by a list it
  read earlier, entry by entry, by a position and a number of bytes of its own, while
  others remove and finish; neither property says anything of that.  `PruneInv` does:
  * `Sorted` and `Within`: of what a pass has been through, what is still there keeps
    within its limits, and the bytes it counts (`retained`) lie between the bytes of what
    is there and those of everything it passed.  The first bound makes the pass remove
    enough, the second makes it remove no more than the limits call for.
  * `Judged`: an entry between its two removals exceeds a limit by the list of the pass.
    That it does so by the sessions that have *finished*, as `RemovesByLimits` has it,
    holds because the newer entries of the list are among those (`ListsOnlyOver`, `Timed`).
  * `HalvesAreOwed`: a manifest without its log belongs to a removal in progress.
  * `GroupsKeepUp` and `TotalKeepsUp`: while the history may exceed a limit, somebody who
    has seen all of it, or will list it again, is still to prune by that limit, or a
    pruning has failed or died (`SomeLost`), or none has been done (`Untried`).  A session
    that finishes lists after its manifest is in place, so it is itself the one who is
    still to prune; a pass that ends has gone through everything it saw (`Within`), and
    what it has not seen finished later, and has its own pruning to come.
* `OthersStay`, for the remembered targets: an entry a writer knew is dropped only when
  `MaxServers` of the entries **it writes** are newer.  The code drops what is behind the
  `MaxServers` newest of what it had in hand, some of which it drops as well;
  `TheNewestStay` shows that as many newer ones stay (the newest that is dropped has that
  many newer than itself, and all of them stay).  It needs finitely many servers, and
  `Dated`: no entry is newer than the clock, so that the own entry is never dropped.
  For the mappings: whatever list the session decided by, it maps with
  `--no-rebind`, and `Maps` says what one call of adb can change.  For the cleanup:
  `Known` says that a port in `created` has a mapping of the session on some transport or
  has lost it, and `KeepsTrack`, of every step, that no mapping of the session goes without
  notice in `lost`.
* `MappingsAreCleaned`: `Traced` follows what the session made and was told of: it is on
  the transport the session talks to, which is connected, and under a port in `created`.
  A recovery changes the transport, which `Beside` allows only when nothing is left on the
  old one.
* `TypesAreKept`: type correctness of the four.

For these proofs `Newest` gives the set of the orders that are sorted, of which `Sort`
takes one (there is only one), and `Changed` joins the writes of the two files.

### Folds, sums and layers (`OperatorTheorems`)

The limits of the history count the bytes of a set of sessions, a matrix those of its
files; a profile's values are laid over its parent's one after the other, its chain is
followed name by name, files are taken while they fit.  The models write these as
`SumFunctionOnSet`, `FoldFunction`, `FoldLeft` and `FoldSeq` of the community modules, that
is as recursive tables.  What a table comes to needs induction, and the library's induction
theorems take an operator as parameter, which the provers cannot instantiate.
`OperatorTheorems` goes round it: what holds of all subsets of a finite set, or of all lengths,
is proved by its least counterexample, since the sizes for which it fails would have a
least one (`Least`, from the well-foundedness of the naturals; `Greatest`).

* `FoldTableExists`, `SequenceTableExists` and `RepetitionExists`: the table that the
  definition chooses exists, so that what was chosen is one.
* `SumType`, `SumOfNone`, `SumTakes` (one element more), `SumAdds` (two parts), `SumOfPart`
  (a part comes to no more than the whole), `SumsAgree` and `SumsOrdered`.
* Of `Configuration`: what a stack of layers has for a key, and the line of descent that
  `ResolveProfile` follows; used for `config`, below.

### The commands (`CommandsProofs`)

The theorems are about specifications of the families by themselves (`LogsSpec`,
`EvidenceSpec`, `CommandsSpec`), with any options, inventory, services and facts to begin
with; the run `commands` checks the same properties on the union of all families.
Assumptions: `FaultsAssumption` and `NoneAssumption` (what is not remembered is no input
method).  The device logs without a bound other than `MaxLines`, which may be any number.

* `LogsHaveNoGap`: `LogInv`.  `Windowed` says that the boundary is taken before the
  snapshot begins and lies no later than it, `Merged` that the lines shown are distinct,
  that those the stream has yet to leave out are among them, and that from the first line
  shown to the one the stream stands at none is missing.
* `NothingIsLeftTemporary`: `HeldInv` says for each thing that is held where the command
  can stand while it is there (`TempPlaces`, `RemotePlaces`, the dump under the lease, the
  sending of text under the other input method), and of those that may be left that a
  problem has been recorded.  Most steps hold nothing (`Plain`, `PlainKeeps`).
  A removal that fails ends the command or is remembered as what made it give up.
* `InterruptionsAreNotSuccess`: once a call was aborted, the command is `Doomed`: the abort
  is recorded as a problem, or remembered until it is looked at, or the next call will be
  aborted as well and lead to a failure.  `CutByAbort` is the reason for the last: the
  signal stays raised, so no call that was given it ends well.  Commands with
  an exit code of their own need only some problem (`CallIsCareful`); those of
  `commands.ts` must have told the abort from a failure.  `DecisionIsCareful` needs to know
  at which places an abort is not recorded yet (`DecisionPlaces`): they are where the code
  goes on after a failed look.  The proof narrowed the property: it once excepted
  `app info` as well, which turned out to be needless.

* `SuccessIsReached`: exit code 0 of a command is true, `DoneIsVerified`.  The invariant `Known`
  says of each place what the command has seen by then and has not lost since, one part for each
  family.  `TargetsKnow`: a port that is about to be mapped is mapped to nothing, so that what
  the look afterwards finds is its own.  `AppInv`: which places belong to which action
  (`AppPlaces`), and that what an installation remembers of before covers every app with an old
  version (`InstallKnows`): an app that then looks new is. `UiInv`: a field holds one text
  (`OneText`), and at the look after an action what the command has in hand is what the field
  shows (`TextSeen`), so that a text that is called verified is there, as long as the screen is
  that of the field (`SameScreen`): what passes for the field on another screen says nothing of
  it; `verified` is set nowhere before (`UiReached`), and what is left to send of a `clear` is
  never nothing (`UiTodo`).  `FileInv`: past the commit the destination is there or a problem is
  recorded, which also holds on the ways through a cleanup. It rests on `CutInv`, because a look
  that was aborted proves nothing.  The initial states are restricted in one way: a field that
  is to be cleared does not hold a text that equals its own hint (`EvidenceInit`), since `clear`
  takes a field that shows its hint for empty.

* `ChosenSafely`: `SelectTarget` is safe (`ChoiceIsSafe`) for every set of transports, set of
  answers, memory and options, in three lemmas as the code decides: by transport id
  (`TransportIdIsSafe`), by selector (`SelectorIsSafe`) and by memory, with the only ready
  target behind it (`MemoryIsSafe`, `OnlyReadyIsSafe`).  `FirstIsOne`: the order of transports
  is total on sets that are finite and whose ids differ, so that the first of a target is one of
  its transports; `TargetHasNoTwins`: of a target that is not refused for a duplicate serial, no
  ready transport shares its serial with another usable one, unless it is `Mistakable`.  The
  only hypothesis is `Inventory`: the ids differ.  `Mistakable` is a case of the conclusion:
  identities are kept by serial, so that one answer counts for all bearers of it, and the check
  for a duplicate does not look at a target with yet another serial (see the findings).  The
  theorem says what may happen then: the transport bears the serial that was asked for, or the
  identity that was asked for is that of one of its bearers.
* `CommandsDoWhatWasAsked`: `OnlyWhatWasAsked` of `CommandsSpec`, by the invariants `TargetsAsk`
  (past its choice a command has chosen safely), `AppsAsk` (at the places that change data the
  user has approved) and `UiAsk` (a place of input is reached by a reference only if that is
  what the screen before showed), each with where no problem has been recorded and where it is
  no dry run, over `CutInv` and `Known`.  A capture needs no invariant: the commit looks for the
  destination and makes it in one call.  `Askable` says which commands the program lets through:
  `capture` and the bundle have no dry run (`cli/arguments.ts`), only a tap and a long press
  take a reference (`evidence/ui-actions.ts:64-67`), and transport ids differ.  Every initial
  state of the run is `Askable`: with it the run has the same states.

For these proofs two definitions whose `CASE` arms overlapped (`MdnsStep`, `InScope`) and
one without an arm for every action (`Decided`) were made exact: TLC takes the first arm that
holds, TLA+ any of them.

The commands `config`, `init` and `test` are proved about by themselves as well
(`ResultsSpec`).  `ResultsInit` asks of the documents what the parser gives: finitely many
profiles, each key once, so that a profile has one parent at most and a document one
default; and that nothing of what the command is about to build or start is there yet.  All
initial states that the run gives to these commands satisfy it (checked with TLC).

* `ResultsAreVerified`: exit code 0 of such a command is true, `ResultIsVerified`.
  * `config`: the model lays layer over layer (`Stack`, `ResolveProfile`, `OverlayAll`), and
    the property says what should come of it without going layer by layer: of each key the
    last source that gives it, and within the profiles the one nearest to the selected
    along the line of descent (`ByProfile`).  `StackSays` and `LastCounts`: a stack has for a
    key what its last layer with that key says.  `Descends`, `Ended` and `ChainOf`:
    `ResolveProfile` is the line of descent, which `ValidInheritance` makes finite and free
    of circles; no two of a line are the same, so "nearest" and "last laid" agree.
    `ConfigInv` says what the values are between two documents: what those read so far say.
  * `init`: `InitInv`, at each place what is set aside and what is in the destination.
  * `test`: `TestInv`.  `PlaceFits` and `OutcomeFits` say what the verdict can be at each
    place and what the service has by then.  `FilesFit` is about the evidence: there is a set
    of files within the limits (`Fits`) that covers all that is here and all that is still to
    come.  `SelectionFits` shows by the least prefix that fails that the selection, which takes
    each file if it still fits, `Fits`; `HereFits`, with `SumOfPart`, that the part that
    arrived does so too.
* `ResultsDoWhatWasAsked`: `OnlyWhatWasAsked` of `ResultsSpec`.  `InitAsk`: `init` comes to the
  places that write only without a dry run, and only by `--force` if a configuration was seen;
  `TestAsk`: a test comes to those that start something only without a dry run or a problem, and
  to the submission only with the artifacts in place.  It rests on `InitInv` and `TestInv`.
* `ResultsAreTidy`: `TidyInv` says where the command can stand while a temporary of its own
  is there, and that `config` and `init` are interrupted nowhere without notice; an
  interrupted `test` has a verdict that is not success (`TestInv`).

`FilesFit` speaks of all sets of files of any length, so TLC cannot evaluate the invariant;
it checked the properties, and the initial states against `ResultsInit`.  The proofs asked
for one change of the model: `ResolveProfile` is a repetition in place of a recursive
operator, so that no module declares one any more.

### The MCP server (`AgentProofs`)

It is what agents use, and proved about beside the processes they start.  Assumption:
`PlansAssumption`, that a planned call has the fields of a call.

* `McpInvariant`: `McpInv` is inductive.  `OneByOne` is what the queue of a connection
  gives: a call that has begun found every earlier one settled.  From it follows that the
  binding cannot change under a call (`Admitted`): only `ensure_ready` binds, and it is
  a call of the same connection.  `HoldsLease` and `OneLease` say that past `TakeLease` a
  mutation holds the lease of what is bound, and that an identity has one.
  `InHand` follows a comparison: nothing, then a base taken under the binding the call
  works with, at the end perhaps both.
* `IdentitiesAreTied`: `TiedInv` says that a hardware identity in a binding, in a cached view
  or in the hands of a comparison is that of the device the transport led to when it was read
  (`led`).  The identity of a transport says no such thing.
* From both: `MutationsExclude` and `ComparisonsMatch`.  Two calls at work on one device, by
  transports that still lead where they led, hold two leases, hence two identities; two hardware
  identities would both be that of the device, so one of the two was bound while the hardware
  serial could not be read.

The inductive invariants of the other modules, and `Known`, were checked by TLC on the run's
instance as well; of the other theorems about commands TLC checked the properties.

---

## 6. Findings

### With a run

1. **Two recoverers of one dead owner both hold the target**
   (`lease_two_recoverers`).  `state/target-lease.ts:276` judges a record read
   earlier and `:289` renames whatever is at the path: the second recoverer takes
   the fresh lease of the first.  `docs/target-pools.md:114` promises serialised
   work.
2. **A completed task can be reported as failed** (`agent_completion`).  A
   heartbeat that read the record before `finish()` writes it back after
   (`agent/dev-task.ts:450`); the next poll finds no process and closes the task
   as failed.  The same read-await-write is in `:340` and `:400`.
3. **An `ensure_ready` that reports an error binds a target nobody asked for**
   (`mcp_binding`).  When the device that was asked for is not found,
   `agent/mcp-server.ts:391` goes on with the only one there is and `:445` binds
   it, although `docs/agent-integration.md:163` speaks of the first successful
   call and `:168` of never guessing.

### Met while modelling, without a run

Lease, session and ports:

* `release()` reads the record and then removes the directory by path
  (`state/target-lease.ts:259-260`): a release held up past the TTL removes the
  successor's lease (`tests/unit/target-lease.test.ts:57` says that it releases
  only its own).  `lease_faults` contains these behaviours.
* A session attached to Metro whose gate is closed never ends: there is no child, no
  watcher that runs and no verifier, so `Promise.race` (`app/commands.ts:4635`)
  waits for Ctrl-C although `docs/dev-sessions.md:294` says that a failing hook stops
  the workflow.  `SessionEnds` excepts it.
* Cleanup removes another tool's mapping: `created` names device ports, so when a
  mapping was lost with its transport, or removed by hand, and another tool has made one for
  that port, `app/commands.ts:3565` removes that one (`docs/dev-sessions.md:107`).
  `OthersAreKept` allows it at such ports (`lost`) and nowhere else.
* A heartbeat that is held up past the TTL writes its record over a successor's
  (`state/target-lease.ts:239`); `lease_faults` contains that (`lateHeartbeat`), and
  `HolderIsRecorded` is about processes on time.
* A failed loopback bridge is recorded as an error and the session is announced
  as ready all the same, unless it is an Expo session (`app/commands.ts:4110-4113`
  against `docs/dev-sessions.md:114-115`).  `ReadyIsHonest` therefore allows that one
  problem, outside Expo, at the announcement.
* An interrupted `run` exits with the aborted verifier's code in place of 130
  (`app/commands.ts:4900-4902` against `docs/dev-sessions.md:302`), which is why
  `HonestOutcome` (`InterruptedExits130`) excepts a session whose verifier did not pass.
* An `adb reverse` that takes effect and is reported as failed during recovery
  (`app/commands.ts:4390`) leaves a mapping that no cleanup removes
  (`docs/dev-sessions.md:82`); `NothingLeaks` speaks of the mappings the session
  was told it made.

Agent tasks and processes:

* A server that dies, or whose disk fails, between the spawn and the record of
  the pid (`agent/dev-task.ts:286-297`) leaves a detached development process
  without record or handle; and activation (`:443`) reopens whatever record it
  read, even one that was closed as failed.
* A host that sleeps longer than the staleness limit makes a poll close a task
  whose process lives on (`missed` in `AgentTask`).
* Without a process group, a grandchild that holds the pipes keeps the promise of
  `runProcess` open after its child has exited, and no signal reaches it
  (`platform/process-runner.ts:196`).  Output that arrives after an abort sets the
  idle timer again.

Pools and runs:

* A run whose target is away when the command takes its inventory has nothing
  selected (`cli/main.ts:1984-2002`) and takes no lease (`:2151-2156`); if the
  target is back when `runDev` discovers for itself, the run works on it without
  one, beside another run that holds it (`docs/automation.md:169`: "selects and
  exclusively leases one target").  `LeasedWork` speaks of runs that selected.
* A run leases the name by which it could observe the target, `hardwareSerial ?? id ??
  serial` (`cli/main.ts:2159`), and a `getprop` that fails is no error
  (`app/commands.ts:671`): two runs of which one could not read the hardware serial
  hold two leases of one device and both work on it (`docs/automation.md:169`).
  `LeasedWork` names it as the only way.
* The exit code of a pool is that of the first required member, in declared
  order, that did not pass (`automation/target-pool.ts:163`): when fail-fast
  cancelled a member declared before the one that failed, the pool exits 130,
  which `docs/automation.md:111` calls "interrupted by the user or caller".
* Two runs that prepare two AVDs at once may pick the same console port, since
  `selectEmulatorPort` (`automation/avd-lifecycle.ts:244`) sees only ports that
  are taken; the second emulator exits, and its run may find the first one
  ready at "its" serial, because readiness does not ask for the AVD's name, and
  its `emu kill` may stop it (`automation/avd-lifecycle.ts:407`, `:546`), where
  `docs/target-pools.md:66` says that a run "stops only an emulator process started by this
  run".
  `StopsOnlyOwn` excepts a run whose emulator has yet to take the port (`Mistaken`), which
  the run `command` reaches.
* When the started emulator drops off adb and nothing else can be selected, a run
  connects to a lone announced device and goes on there
  (`cli/main.ts:1932-1957`); when the connection fails, it returns without
  releasing emulator and lease, although `docs/automation.md:240` says that an
  emulator started by the run is stopped on failure.  `NothingSurvives` excepts
  that return.
* A run that finds its target busy stops the emulator it started even though
  another run holds that emulator as its target (`cli/main.ts:1675`, `:2212`).
* An AVD preparation that is interrupted while it lists the AVDs fails with
  `AVD_LIST_FAILED` and the code of a target failure, not with 130
  (`automation/avd-lifecycle.ts:474-484`); and a `prepareAvd` that throws
  (`cli/main.ts:1807`) leaves the lease of the AVD to its expiry.

Files of the user:

* A recorder that crashes, or one of whose appends failed, leaves its manifest as
  running, and pruning passes it over for ever; a crash between the two removals
  leaves a log without a manifest; a pruning that fails after the manifest was
  finished is reported as if the session could not be written.
* Two overlapping writers of the remembered targets lose an entry
  (`state/target-state.ts:160`), which `OthersAreKept` allows.
* A look at a destination that fails for any reason counts as "nothing there"
  (`agent/setup.ts:368`, `:447`; for a parent `:323`), so that an existing file, link,
  foreign entry or custom skill is replaced without a backup, and removed if the set is
  undone, although `docs/agent-integration.md:37-41` says that the latter two never are.
  `SetupIsAtomic` excepts such a destination (`Overlooked`), and only that.
* When a call of the undoing fails, agent setup may leave an installed file whose
  backup is gone removed (`docs/agent-integration.md:42`); `SetupIsAtomic` excepts that.
  A re-read that fails reports an error with both files installed.

Commands:

* `ports remove` is verified for the exact pair only; another mapping of the same
  listening endpoint may have replaced it.
* A remembered serial is accepted without comparing the remembered hardware
  identity with the one that answers now (`target/selection.ts:131-138` against
  `docs/targets-and-wireless.md:31-39`), and the remembered-identity path does not
  refuse a duplicate serial.  `OnlyWhatWasAsked` speaks of selectors and ids.
* Two devices with one serial are told apart only by their transport id: the answers to the
  question for the identity are kept by serial (`app/commands.ts:677`), and a duplicate is
  refused when all transports of the target have that serial (`target/selection.ts:99`).
  If one of the two is connected by another transport as well, the choice is not refused
  and may fall on the other device.  `ChoiceIsSafe` excepts such transports (`Mistakable`), and
  the inventories of the run have them.
* `connect` takes the endpoint that adb's answer names for the one it asked for
  (`app/commands.ts:1488-1493`), so that another endpoint, connected before, may be reported
  in its place; `DoneIsVerified` says that what is reported is online.
* A fill or a clear whose screen changed under it looks for "its" field on the new screen
  by the unique id, or by class and bounds (`evidence/ui-actions.ts:829-842`, `:1700`): the text
  of another field may make it verified and exit 0 (`docs/ui-automation.md:128-129`).
  `DoneIsVerified` speaks of an unchanged screen.
* Between the snapshot in which a reference is resolved and the input, the screen may
  change once more, and the input goes to the coordinates all the same
  (`evidence/ui-actions.ts:513`); `OnlyWhatWasAsked` is about the snapshot.
* Local temporaries whose removal fails stay: `discardEvidenceDestination` throws
  (`evidence/files.ts:115`, from `evidence/capture.ts:474`) and the capture ends with an
  internal error; the bundle swallows it (`automation/evidence-bundle.ts:409`).
* `logs`: an abort during the choice of the process or the boundary is not reported as
  one; a tail that is followed may show older lines after newer ones.
* Interrupted app commands exit with the code of an adb failure, where
  `docs/automation.md:111` says 130 (`app/app-commands.ts:184`); an inspection that is
  interrupted in its later sources exits 0.
* `uninstall` takes a failed look for "gone" when adb said Success; `install` takes a
  failed look at the prior installation for "not installed".
* When the input method is given back after an abort, that call is given the raised
  signal and is aborted too (`evidence/ui-actions.ts:1672-1688` against
  `docs/ui-automation.md:167-171`); it is reported.  `keyboard dismiss` sends BACK even
  if the keyboard has gone meanwhile; a text that equals the hint counts as cleared.
* Names every JavaScript object answers to, such as `constructor`, are found among the
  profiles of a configuration and end `config` with an internal error
  (`config/loader.ts:1278`, `:1701`; `docs/configuration.md:98`).
* `init` without `--force` replaces a configuration that appears between its check
  and its rename (`app/config-commands.ts:243`; `docs/configuration.md:41`); when its
  read-back fails and there was no file before, the new one stays although
  `CONFIG_WRITE_FAILED` is reported; a crash between set-aside and rename leaves only
  the backup.
* `test firebase` looks for the text of an authentication failure before the exit
  code, so that a passed matrix whose log has it is reported as `auth-failed`, and
  `docs/firebase-test-lab.md` promises never to rewrite an outcome.  A timer that fires
  after the signal reports a timeout; an error in writing the evidence loses the
  outcome.
* `test gradle`: a fresh failing report makes an interrupted task an assertion failure;
  reports beyond 100 files or 50 MiB, or unreadable ones, are not seen; those up to two
  seconds older than the start count as fresh.

MCP:

* Tools address a target by its transport id or serial without comparing
  `bound.identity`: after an adb server has restarted, the id may lead to another
  device, although `docs/agent-integration.md:165-167` says that "later tools cannot
  silently switch targets".  `MutationsAreExclusive` and `ComparesLikeWithLike`
  except the transports that moved.
* A target whose hardware serial could not be read is bound under the serial of its
  transport (`agent/mcp-server.ts:448-451`): bound again when it could, or by another
  transport, it has two leases, and two mutations of one device overlap; and a transport's serial
  may be taken over by another device between two views that are then compared.  The two properties
  except bindings of that kind by name.
* A queued call whose client has cancelled it still waits for its turn.

---

## 7. Limits

**Only model-checked.** Liveness (`AcquireReturns`, `DeadOwnerIsReplaced`, `EpisodeEnds`,
`SessionEnds`, `GoneIsNoticed`): it rests on fairness and ENABLED, which the prover does
not handle.  Every other property of a passing run is a theorem.  What the theorems about
commands assume beyond the run, or beside it, is said with them: `EvidenceInit`,
`ResultsInit` and `Askable`.

**Assumed of the devices.**  The hardware serial of a device is its own and does not change:
whoever reads it reads the same.  Whether it can be read at a moment is open.

**Left out of modelled components.**  The log stream, live reload controls and
the dry run of `runDev`; the pruning of old task records; the poll of a lease by
several machines that disagree on the time (the `Host` of each process is a
parameter, their clock is one); redaction and reading of stored sessions; the
capture of a process's output; gestures' geometry and the formats of files and
hierarchies; a pool of Firebase matrices; the MCP server's resources, which
bypass its queue, and its prompts.  Of `cli/main.ts`, the interactive prompt, the
dry run, and the dispatch of the commands other than `run`.

**Not modelled.**  Parsing, formatting and rendering (adb output, arguments,
completion, project detection, terminal output, problems): sequential
transformations of text, without state that outlives the call; unit tests reach
them.  The remaining components are planned, below.

---

## 8. Plan

The order is that of importance: first what several processes share, then the
session that uses it, then the workflows around it.

| Step | Modules | Composition | Abstract specification, theorems |
|---|---|---|---|
| done | `TargetLease`, `ExclusiveTarget` | | exclusion, ownership, refinement |
| done | `SessionMachine`, `SessionWatcher`, `BoundedRepair` | | inductive invariant, refinement |
| done | `DevSession`, `AgentTask` | `DevSession` composes the watcher | inductive invariants; honest completion and readiness, nothing left behind, the machines agree, a closed task is over |
| done | `TargetPool`, `CommandRun` | the members of the pool are the runs; leases by `ExclusiveTarget` | inductive invariant; verified success, leased work, nothing survives, fail-fast |
| done | `ProcessRunner` | beside `AgentTask` | nobody waits in vain |
| done | `AgentSetup`, `TargetState`, `SessionStore`, `DevPorts` | side by side, `SharedState` | inductive invariants; both files or neither, a complete history within its limits, others' entries and mappings kept, nothing leaks |
| done | `CliCommand` and the families of commands | one command, on a world of its own | no gap in the log's tail, nothing temporary left, an interruption is no success, success is reached and verified, nothing but what was asked for, a safe choice of target |
| done | `McpServer` | its tools by what they do to a target | inductive invariant; mutations exclude each other, comparisons keep to one device |
| next | artifact resolution and deployment; a pool of Firebase matrices | `TargetPool` with another member | the reported package is the installed one |
| then | readiness loop, loopback bridge, hooks | replace the outcomes that `DevSession` takes for given | ready means that every assertion passed |

Runs stay few: a new component joins the run whose question it shares, or
replaces runs of the parts it subsumes.  In modules that are to be proved about,
data is sets, functions and records, parameters are constants with named
assumptions, and invariants are conjunctions of named parts, so that a proof can
take them one at a time.
