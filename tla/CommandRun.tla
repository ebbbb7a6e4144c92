----------------------------- MODULE CommandRun -----------------------------
(***************************************************************************)
(* `adb-ready run` (runCliInternal, src/cli/main.ts, with                  *)
(* src/automation/avd-lifecycle.ts) from its leases to its cleanup, for    *)
(* several runs at once: the members of one pool and the runs of other     *)
(* terminals.  A run leases its AVD, reuses or starts an emulator, selects *)
(* and leases the target, deploys, verifies, and gives everything back.    *)
(* A step is the code between two awaits that another party can notice.    *)
(* Leases are the exclusive target that TargetLease implements.  Runs are  *)
(* not interactive, as the members of a pool are.                          *)
(***************************************************************************)
EXTENDS TargetPool, FiniteSets

CONSTANTS
  Others,     \* runs started outside the pool, each in a process of its own
  Avds,
  Ports,      \* console ports of emulators, in the order they are tried
  Phones,     \* targets that are not emulators
  Wireless,   \* the phones announced on the network and not connected at first
  Wants,      \* what each run asks for: an AVD, or a target by its serial
  Faults,     \* what may go wrong: a subset of FaultKinds
  Nobody      \* no run, no AVD and no target

Runs == Members \cup Others
Targets == Ports \cup Phones
Resources == Avds \cup Targets
FaultKinds == {"environment", "lease", "identity", "avd", "crash", "offline", "deploy",
               "verifier", "report", "signal"}

\* The names leases go by: `avd:NAME`, and for a target its hardware serial or, when
\* that could not be read, the serial of its transport.
Identities == {"hardware", "serial"}
Leases == (Avds \X {"avd"}) \cup (Targets \X Identities)

ASSUME RunsAssumption ==
  /\ Ports \subseteq Nat /\ Wireless \subseteq Phones
  /\ Wants \in [Runs -> Resources]
  /\ Nobody \notin Runs \cup Resources
  /\ Members \cap Others = {} /\ Avds \cap Targets = {} /\ Ports \cap Phones = {}
  /\ Faults \subseteq FaultKinds

VARIABLES
  pc,         \* where each run stands
  holder,     \* who holds the lease of a name
  emulator,   \* what runs at a console port: an AVD, who started it, whether ADB
              \* reaches it booted
  proc,       \* the emulator process a run started
  serial,     \* the port of the emulator a run prepares
  seen,       \* the ports at which a run found an emulator
  connected,  \* the phones ADB is connected to
  selected,   \* preparedSelection: the target chosen, Nobody when there was none
  identity,   \* by what the target chosen is named
  killed,     \* a run outside the pool has been interrupted
  code,       \* the exit code a run will return
  verifiedOn  \* the target on which a run's verifier passed

world == <<emulator, proc, connected>>
runVars == <<pc, holder, world, serial, seen, selected, identity, killed, code, verifiedOn>>
vars == <<poolVars, runVars>>

Pcs == {"idle", "leaseAvd", "look", "spawn", "boot", "cleanup", "select", "leaseTarget",
        "deploy", "verify", "release", "unlock", "report", "failRelease", "failReport",
        "done"}

NoEmulator == [avd |-> Nobody, by |-> Nobody, online |-> FALSE]
Emulators == [avd : Avds \cup {Nobody}, by : Runs \cup {Nobody}, online : BOOLEAN]

TypeOK ==
  /\ PoolTypeOK
  /\ pc \in [Runs -> Pcs]
  /\ holder \in [Leases -> Runs \cup {Nobody}]
  /\ emulator \in [Ports -> Emulators]
  /\ proc \in [Runs -> {"none", "starting", "up", "exited"}]
  /\ serial \in [Runs -> Ports \cup {Nobody}]
  /\ seen \in [Runs -> SUBSET Ports]
  /\ connected \in SUBSET Phones
  /\ selected \in [Runs -> Targets \cup {Nobody}]
  /\ identity \in [Runs -> Identities]
  /\ killed \in [Others -> BOOLEAN]
  /\ code \in [Runs -> ExitCodes \cup {NoCode}]
  /\ verifiedOn \in [Runs -> Targets \cup {Nobody}]

\* A user may be running one of the AVDs already.
Init ==
  /\ PoolInit
  /\ pc = [r \in Runs |-> "idle"]
  /\ holder = [x \in Leases |-> Nobody]
  /\ \E u \in [Ports -> {NoEmulator} \cup [avd : Avds, by : {Nobody}, online : {TRUE}]] :
       /\ Cardinality({p \in Ports : u[p] # NoEmulator}) <= 1
       /\ emulator = u
  /\ proc = [r \in Runs |-> "none"]
  /\ serial = [r \in Runs |-> Nobody]
  /\ seen = [r \in Runs |-> {}]
  /\ connected = Phones \ Wireless
  /\ selected = [r \in Runs |-> Nobody]
  /\ identity = [r \in Runs |-> "hardware"]
  /\ killed = [o \in Others |-> FALSE]
  /\ code = [r \in Runs |-> NoCode]
  /\ verifiedOn = [r \in Runs |-> Nobody]

----------------------------------------------------------------------------
\* Helpers.

Stopped(r) == IF r \in Members THEN aborted ELSE killed[r]
Online(t) == IF t \in Ports THEN emulator[t].online ELSE t \in connected

\* The target config.targetSelector names: the prepared emulator or the serial asked for.
Asked(r) == IF serial[r] # Nobody THEN serial[r] ELSE Wants[r]
Goal(r) == IF selected[r] # Nobody THEN selected[r] ELSE Asked(r)
Selectable == {p \in Ports : emulator[p].online} \cup connected

\* The leases a run asks for.
AvdLease(r) == <<Wants[r], "avd">>
NamedLease(r) == <<selected[r], identity[r]>>

At(r, here) == pc[r] = here
Goes(r, there) == pc' = [pc EXCEPT ![r] = there]

\* finishAutonomousFailure is entered with an exit code.
FailsWith(r, c) ==
  /\ code' = [code EXCEPT ![r] = c]
  /\ Goes(r, "failRelease")

\* runCli returns: a member's worker settles it, a process of its own exits.  A
\* member whose output holds no envelope is an error of the pool's runner.  The run's
\* locals go with it, but for the port an emulator of its own has yet to take.
Returns(r, c) ==
  /\ Goes(r, "done") /\ code' = [code EXCEPT ![r] = c]
  /\ serial' = [serial EXCEPT ![r] = IF proc[r] = "starting" THEN @ ELSE Nobody]
  /\ selected' = [selected EXCEPT ![r] = Nobody]
  /\ identity' = [identity EXCEPT ![r] = "hardware"]
  /\ IF r \in Members
     THEN MemberReturns(r, c) \/ ("report" \in Faults /\ MemberThrows(r))
     ELSE UNCHANGED poolVars

\* What the stop of r's emulator takes down: the emulator that answers the console
\* command at its port, when that is sent, and its own process.
TakenDown(r, byConsole) ==
  {p \in Ports : /\ emulator[p] # NoEmulator
                 /\ emulator[p].by = r \/ (byConsole /\ p = serial[r])}

\* Mutant: the emulator is stopped, whether it was started or reused.
StopsReused(r, consoleWorks) ==
  /\ emulator' = [p \in Ports |-> IF p = serial[r] THEN NoEmulator ELSE emulator[p]]
  /\ proc' = [proc EXCEPT ![r] = IF @ = "none" THEN @ ELSE "exited"]
  /\ UNCHANGED connected

\* cleanupOwnedEmulator: the console command, then signals, and the waits between.
\* An aborted caller's console command fails.
StopsOwned(r, consoleWorks) ==
  IF proc[r] \in {"starting", "up"}
  THEN \E byConsole \in {FALSE, consoleWorks} :
         LET down == TakenDown(r, byConsole)
         IN /\ emulator' = [p \in Ports |-> IF p \in down THEN NoEmulator ELSE emulator[p]]
            /\ proc' = [q \in Runs |->
                          IF q = r \/ (\E p \in down : emulator[p].by = q) THEN "exited"
                          ELSE proc[q]]
            /\ UNCHANGED connected
  ELSE UNCHANGED world

\* Mutant: the release forgets that the lease of the AVD is the run's own.
KeepsAvd(r) == holder

\* avdResourceLease.release()
AvdFreed(r) ==
  [x \in Leases |-> IF x[2] = "avd" /\ holder[x] = r THEN Nobody ELSE holder[x]]

----------------------------------------------------------------------------
\* Preparation of the AVD.

\* Locating adb and the host's capabilities.
Start(r) ==
  /\ At(r, "idle") /\ (r \in Members => r \in running)
  /\ \/ Goes(r, IF Wants[r] \in Avds THEN "leaseAvd" ELSE "select") /\ UNCHANGED code
     \/ "environment" \in Faults /\ FailsWith(r, Failure)
  /\ UNCHANGED <<poolVars, holder, world, serial, seen, selected, identity, killed, verifiedOn>>

\* Mutant: a busy target is warned about and used.
RefusalIgnored(r, x) ==
  /\ holder[x] # Nobody /\ Goes(r, "deploy") /\ UNCHANGED <<holder, code>>

\* Acquiring a lease: granted, or refused after the wait; only a member of a pool
\* gives its signal to the lease.
Granted(r, x) == holder[x] = Nobody /\ holder' = [holder EXCEPT ![x] = r]
Refused(r, x) ==
  /\ \/ (holder[x] # Nobody \/ "lease" \in Faults) /\ FailsWith(r, Failure)
     \/ r \in Members /\ aborted /\ FailsWith(r, Interrupted)
  /\ UNCHANGED holder

LeaseAvd(r) ==
  /\ At(r, "leaseAvd")
  /\ \/ Granted(r, AvdLease(r)) /\ Goes(r, "look") /\ UNCHANGED code
     \/ Granted(r, AvdLease(r)) /\ "environment" \in Faults /\ FailsWith(r, Failure)
     \/ Refused(r, AvdLease(r))
  /\ UNCHANGED <<poolVars, world, serial, seen, selected, identity, killed, verifiedOn>>

\* prepareExistingAvd lists the AVDs and asks every running emulator for its name;
\* one that ADB does not reach may not answer, and may then be this AVD
\* (AVD_RUNNING_UNVERIFIED).  Aborted calls fail.
Look(r) ==
  /\ At(r, "look")
  /\ \/ ("avd" \in Faults \/ Stopped(r)) /\ FailsWith(r, Failure) /\ UNCHANGED <<serial, seen>>
     \/ \E unnamed \in SUBSET {p \in Ports : emulator[p] # NoEmulator /\ ~emulator[p].online} :
          LET matches == {p \in Ports \ unnamed : emulator[p].avd = Wants[r]}
          IN \/ /\ Cardinality(matches) = 1 /\ Goes(r, "boot")
                /\ \E p \in matches : serial' = [serial EXCEPT ![r] = p]
                /\ UNCHANGED <<seen, code>>
             \/ /\ Cardinality(matches) > 1 \/ (matches = {} /\ unnamed # {})
                /\ FailsWith(r, Failure) /\ UNCHANGED <<serial, seen>>
             \/ /\ matches = {} /\ unnamed = {} /\ Goes(r, "spawn")
                /\ seen' = [seen EXCEPT ![r] = {p \in Ports : emulator[p] # NoEmulator}]
                /\ UNCHANGED <<serial, code>>
  /\ UNCHANGED <<poolVars, holder, world, selected, identity, killed, verifiedOn>>

\* selectEmulatorPort: the first port neither seen nor taken now; then the process is
\* spawned, and takes the port later.
Spawn(r) ==
  /\ At(r, "spawn")
  /\ LET free == {p \in Ports : p \notin seen[r] /\ emulator[p] = NoEmulator}
     IN \/ /\ free # {}
           /\ LET port == CHOOSE p \in free : \A q \in free : p <= q
              IN serial' = [serial EXCEPT ![r] = port]
           /\ seen' = [seen EXCEPT ![r] = {}]
           /\ proc' = [proc EXCEPT ![r] = "starting"]
           /\ Goes(r, "boot") /\ UNCHANGED code
        \/ /\ free = {} \/ "avd" \in Faults
           /\ FailsWith(r, Failure) /\ UNCHANGED <<serial, seen, proc>>
  /\ UNCHANGED <<poolVars, holder, emulator, connected, selected, identity, killed, verifiedOn>>

\* waitForAvdReadiness: the target at the port is ready, or the wait was cancelled,
\* the process exited or the time ran out.
NotReady(r, c) ==
  /\ code' = [code EXCEPT ![r] = c]
  /\ Goes(r, IF proc[r] = "none" THEN "failRelease" ELSE "cleanup")

Boot(r) ==
  /\ At(r, "boot")
  /\ \/ Online(serial[r]) /\ Goes(r, "select") /\ UNCHANGED code
     \/ Stopped(r) /\ NotReady(r, Interrupted)
     \/ (proc[r] = "exited" \/ ~Online(serial[r])) /\ NotReady(r, Failure)
  /\ UNCHANGED <<poolVars, holder, world, serial, seen, selected, identity, killed, verifiedOn>>

\* The emulator that did not get ready is stopped, without the caller's signal.
Cleanup(r) ==
  /\ At(r, "cleanup") /\ StopsOwned(r, TRUE) /\ Goes(r, "failRelease")
  /\ UNCHANGED <<poolVars, holder, serial, seen, selected, identity, killed, code, verifiedOn>>

----------------------------------------------------------------------------
\* Selection, the target's lease, and the work.

\* The inventory; when nothing at all can be selected, a single announced device is
\* connected to.  If that fails the command returns at once.  A target that is not
\* there, or whose inventory is aborted, stays unselected, and the run goes on without
\* a lease.  The hardware serial is asked for with it: if that fails, the target goes
\* by the serial of its transport.
Names(r) ==
  \E how \in IF "identity" \in Faults THEN Identities ELSE {"hardware"} :
    identity' = [identity EXCEPT ![r] = how]

Select(r) ==
  /\ At(r, "select")
  /\ \/ /\ Online(Asked(r)) /\ Goes(r, "leaseTarget")
        /\ selected' = [selected EXCEPT ![r] = Asked(r)] /\ Names(r)
        /\ UNCHANGED <<poolVars, connected, serial, code>>
     \/ /\ \/ Stopped(r)
           \/ ~Online(Asked(r)) /\ (Selectable # {} \/ Cardinality(Wireless) # 1)
        /\ Goes(r, "deploy")
        /\ UNCHANGED <<poolVars, connected, serial, selected, identity, code>>
     \/ /\ Selectable = {} /\ Cardinality(Wireless) = 1
        /\ \/ /\ connected' = connected \cup Wireless
              /\ \E w \in Wireless : selected' = [selected EXCEPT ![r] = w]
              /\ Names(r) /\ Goes(r, "leaseTarget") /\ UNCHANGED <<poolVars, serial, code>>
           \/ Returns(r, NotConnected) /\ UNCHANGED connected
  /\ UNCHANGED <<holder, emulator, proc, seen, killed, verifiedOn>>

LeaseTarget(r) ==
  /\ At(r, "leaseTarget")
  /\ \/ Granted(r, NamedLease(r)) /\ Goes(r, "deploy") /\ UNCHANGED code
     \/ Refused(r, NamedLease(r))
  /\ UNCHANGED <<poolVars, world, serial, seen, selected, identity, killed, verifiedOn>>

\* Profile, artifact and installation, then runDev's own discovery of the target.
Deploy(r) ==
  /\ At(r, "deploy")
  /\ \/ Online(Goal(r)) /\ Goes(r, "verify") /\ UNCHANGED code
     \/ /\ ~Online(Goal(r)) \/ Stopped(r) \/ "deploy" \in Faults
        /\ Goes(r, "release")
        /\ \E c \in IF Stopped(r) THEN {Interrupted, Failure} ELSE {Failure} :
             code' = [code EXCEPT ![r] = c]
  /\ UNCHANGED <<poolVars, holder, world, serial, seen, selected, identity, killed, verifiedOn>>

\* The verification command ends.
Verify(r) ==
  /\ At(r, "verify") /\ Goes(r, "release")
  /\ \/ /\ Online(Goal(r)) /\ code' = [code EXCEPT ![r] = Success]
        /\ verifiedOn' = [verifiedOn EXCEPT ![r] = Goal(r)]
     \/ /\ \E c \in IF Stopped(r) THEN {Interrupted, Failure} ELSE {Failure} :
             code' = [code EXCEPT ![r] = c]
        /\ Stopped(r) \/ "verifier" \in Faults \/ ~Online(Goal(r))
        /\ UNCHANGED verifiedOn
  /\ UNCHANGED <<poolVars, holder, world, serial, seen, selected, identity, killed>>

----------------------------------------------------------------------------
\* Giving back.

\* preparedAvd.release(signal), and in its `finally` the lease of the AVD.
Release(r) ==
  /\ At(r, "release") /\ StopsOwned(r, ~Stopped(r)) /\ Goes(r, "unlock")
  /\ UNCHANGED <<poolVars, holder, serial, seen, selected, identity, killed, code, verifiedOn>>

Unlock(r) ==
  /\ At(r, "unlock") /\ holder' = AvdFreed(r) /\ Goes(r, "report")
  /\ UNCHANGED <<poolVars, world, serial, seen, selected, identity, killed, code, verifiedOn>>

\* The evidence bundle, which may throw, and the `finally` that frees the target.
Report(r) ==
  /\ At(r, "report")
  /\ holder' = [x \in Leases |-> IF holder[x] = r THEN Nobody ELSE holder[x]]
  /\ \/ Returns(r, code[r])
     \/ "report" \in Faults /\ Returns(r, Failure)
  /\ UNCHANGED <<world, seen, killed, verifiedOn>>

\* finishAutonomousFailure
FailRelease(r) ==
  /\ At(r, "failRelease") /\ StopsOwned(r, ~Stopped(r)) /\ Goes(r, "failReport")
  /\ UNCHANGED <<poolVars, holder, serial, seen, selected, identity, killed, code, verifiedOn>>

FailReport(r) ==
  /\ At(r, "failReport") /\ holder' = AvdFreed(r)
  /\ \/ Returns(r, code[r])
     \/ "report" \in Faults /\ Returns(r, Failure)
  /\ UNCHANGED <<world, seen, killed, verifiedOn>>

----------------------------------------------------------------------------
\* The world beside the runs.

\* The emulator process takes its port, or exits when another has it.
Binds(r) ==
  /\ proc[r] = "starting"
  /\ IF emulator[serial[r]] = NoEmulator
     THEN /\ emulator' = [emulator EXCEPT ![serial[r]] =
                            [avd |-> Wants[r], by |-> r, online |-> FALSE]]
          /\ proc' = [proc EXCEPT ![r] = "up"]
     ELSE proc' = [proc EXCEPT ![r] = "exited"] /\ UNCHANGED emulator
  /\ UNCHANGED <<poolVars, pc, holder, connected, serial, seen, selected, identity, killed, code,
                 verifiedOn>>

\* An emulator boots, drops off ADB for a while, and comes back.
Boots(p) ==
  /\ emulator[p] # NoEmulator /\ ~emulator[p].online
  /\ emulator' = [emulator EXCEPT ![p].online = TRUE]
  /\ UNCHANGED <<poolVars, pc, holder, proc, connected, serial, seen, selected, identity, killed, code,
                 verifiedOn>>

Drops(p) ==
  /\ "offline" \in Faults /\ emulator[p].online
  /\ emulator' = [emulator EXCEPT ![p].online = FALSE]
  /\ UNCHANGED <<poolVars, pc, holder, proc, connected, serial, seen, selected, identity, killed, code,
                 verifiedOn>>

Crashes(r) ==
  /\ "crash" \in Faults /\ proc[r] = "up"
  /\ proc' = [proc EXCEPT ![r] = "exited"]
  /\ emulator' = [p \in Ports |-> IF emulator[p].by = r THEN NoEmulator ELSE emulator[p]]
  /\ UNCHANGED <<poolVars, pc, holder, connected, serial, seen, selected, identity, killed, code,
                 verifiedOn>>

Interrupt ==
  /\ "signal" \in Faults
  /\ \/ Signal /\ UNCHANGED killed
     \/ /\ \E o \in Others : ~killed[o] /\ pc[o] # "done" /\ killed' = [killed EXCEPT ![o] = TRUE]
        /\ UNCHANGED poolVars
  /\ UNCHANGED <<pc, holder, world, serial, seen, selected, identity, code, verifiedOn>>

Closes == PoolCloses /\ UNCHANGED runVars

Step(r) ==
  \/ LeaseAvd(r) \/ Look(r) \/ Spawn(r) \/ Boot(r) \/ Cleanup(r)
  \/ Select(r) \/ LeaseTarget(r) \/ Deploy(r) \/ Verify(r)
  \/ Release(r) \/ Unlock(r) \/ Report(r) \/ FailRelease(r) \/ FailReport(r)

Next ==
  \/ \E r \in Runs : Start(r) \/ Step(r) \/ Binds(r) \/ Crashes(r)
  \/ \E p \in Ports : Boots(p) \/ Drops(p)
  \/ Interrupt \/ Closes

Spec == Init /\ [][Next]_vars

----------------------------------------------------------------------------
\* Properties.

\* A pool succeeds only if the verifier of every required member passed, each on a
\* target of its own choice, whatever was cancelled, killed or never started
\* (runTargetPool's aggregate over what runCli did).
SuccessIsVerified ==
  poolExit = Success => \A m \in pool.required : verifiedOn[m] # Nobody

\* A run that chose its target works on it under the lease of the name it goes by there
\* and that of its AVD, and on what was asked for or on a device it connected to
\* itself; two that work on one target have therefore read its identity differently:
\* one of them could not read the hardware serial, which is the one way to share a
\* target (the two leases of runCliInternal, taken at different times and given back in
\* different places; `hardwareSerial ?? id ?? serial`).
Working(r) == pc[r] = "verify" /\ selected[r] # Nobody

LeasedWork ==
  \A r \in Runs : Working(r) =>
    /\ holder[NamedLease(r)] = r
    /\ Wants[r] \in Avds => holder[AvdLease(r)] = r
    /\ selected[r] \in {Asked(r)} \cup Wireless
    /\ \A q \in Runs \ {r} :
         Working(q) /\ selected[q] = selected[r] => {identity[q], identity[r]} = Identities

\* However a run ends, it leaves no emulator process and no lease behind; the return
\* after a failed connection, with its own exit code, is the exception the README
\* records (the error paths of runCliInternal).
NothingSurvives ==
  \A r \in Runs : pc[r] = "done" /\ code[r] # NotConnected =>
    /\ proc[r] \in {"none", "exited"}
    /\ \A x \in Leases : holder[x] # r

\* An emulator goes down by itself, by a step of the run that started it, or by that of
\* a run whose own emulator has yet to take the very port it is at, the one way to
\* stop another's: one that was reused, or belongs to a user, or to a run of
\* another AVD, is stopped by nobody else (cleanupOwnedEmulator, release of
\* prepareExistingAvd).
GoesDown(p) == emulator[p] # NoEmulator /\ emulator'[p] = NoEmulator
OfItsOwner(p) == emulator[p].by \in Runs /\ pc[emulator[p].by] # pc'[emulator[p].by]
Mistaken(p) == \E r \in Runs : pc[r] # pc'[r] /\ serial[r] = p /\ proc[r] = "starting"

StopsOnlyOwn ==
  [][\A p \in Ports : GoesDown(p) => UNCHANGED pc \/ OfItsOwner(p) \/ Mistaken(p)]_vars
=============================================================================
