---------------------------- MODULE TargetLease ----------------------------
(***************************************************************************)
(* The exclusive lease of one Android target (src/state/target-lease.ts).  *)
(* Contending processes meet only in the file system: one directory whose  *)
(* creation is atomic, and inside it an owner record that the holder       *)
(* renews.  Every awaited file-system call of the code is one step here,   *)
(* so another process may act between any two of them.                     *)
(***************************************************************************)
EXTENDS Integers, FiniteSets

CONSTANTS
  Free,        \* no process
  Proc,        \* the processes that contend for the target (one pid each)
  Host,        \* the machine of each process; a shared state directory spans them
  TTL,         \* ttlMs, in clock ticks
  WaitTimeout, \* waitTimeoutMs, in clock ticks
  Faults,      \* what the environment may do: a subset of FaultKinds
  MaxClock,    \* bound: the clock stops here
  MaxCalls     \* bound: acquire calls of each process

FaultKinds == {"io", "crash", "expiry", "lateHeartbeat"}
MaxAttempts == 3

ASSUME ProcAssumption == Free \notin Proc /\ Host \in [Proc -> STRING]
ASSUME TTLAssumption == TTL \in Nat \ {0, 1}
ASSUME BoundsAssumption == /\ WaitTimeout \in Nat /\ MaxClock \in Nat
                           /\ MaxCalls \in Nat /\ Faults \subseteq FaultKinds

NoOwner == [lease |-> 0, pid |-> "none", expires |-> 0]
\* attempt: the loop counter; now: the clock as the attempt read it; deadline:
\* when polling ends; seen: the owner read, kept across the await that follows.
NoCall == [attempt |-> 0, now |-> 0, deadline |-> 0, seen |-> NoOwner]
NoHeartbeat == [lease |-> 0, expires |-> 0]

VARIABLES
  clock,    \* wall clock of the machine(s)
  dir,      \* the lease whose mkdir made the directory now at the path, 0: no directory
  record,   \* owner.json in that directory, or NoOwner
  mtime,    \* modification time of that directory
  issued,   \* lease ids handed out so far (randomUUID)
  pc,       \* where each process stands
  lease,    \* the lease id of a process's latest successful mkdir
  call,     \* the locals of a process's acquireTargetLease call, or NoCall
  hb,       \* a heartbeat between its read and its write
  calls,    \* bound: acquire calls made
  usurped   \* history: stale recovery took a live process's directory

files == <<dir, record, mtime>>
vars == <<clock, files, issued, pc, lease, call, hb, calls, usurped>>

Pcs == {"idle", "mkdir", "write", "read", "judge", "rename", "sleep",
        "held", "unlink", "rmdir", "dead"}
Records == [lease : Nat, pid : Proc \cup {"none"}, expires : Nat]
Calls == [attempt : 0 .. MaxAttempts, now : Nat, deadline : Nat, seen : Records]
Heartbeats == [lease : Nat, expires : Nat]

TypeOK ==
  /\ clock \in Nat /\ dir \in Nat /\ record \in Records /\ mtime \in Nat
  /\ issued \in Nat
  /\ pc \in [Proc -> Pcs] /\ lease \in [Proc -> Nat]
  /\ call \in [Proc -> Calls] /\ hb \in [Proc -> Heartbeats]
  /\ calls \in [Proc -> Nat] /\ usurped \in BOOLEAN

\* p made the directory of its lease and has not yet given it up.
Owning(p) == pc[p] \in {"write", "held", "unlink", "rmdir"}
Alive(p) == pc[p] # "dead"

\* p is done with its lease.
Forget(p) == lease' = [lease EXCEPT ![p] = 0]

Goto(p, from, to) == pc[p] = from /\ pc' = [pc EXCEPT ![p] = to]

Init ==
  /\ clock = 0 /\ dir = 0 /\ record = NoOwner /\ mtime = 0 /\ issued = 0
  /\ pc = [p \in Proc |-> "idle"] /\ lease = [p \in Proc |-> 0]
  /\ call = [p \in Proc |-> NoCall]
  /\ hb = [p \in Proc |-> NoHeartbeat] /\ calls = [p \in Proc |-> 0]
  /\ usurped = FALSE

-----------------------------------------------------------------------------
(* acquireTargetLease, tryAcquireTargetLease *)

\* The call sets the polling deadline; the first attempt reads the clock.
Acquire(p) ==
  /\ Goto(p, "idle", "mkdir")
  /\ calls[p] < MaxCalls /\ clock + WaitTimeout <= MaxClock
  /\ calls' = [calls EXCEPT ![p] = @ + 1]
  /\ call' = [call EXCEPT ![p] = [attempt |-> 1, now |-> clock, seen |-> NoOwner,
                                  deadline |-> clock + WaitTimeout]]
  /\ UNCHANGED <<clock, files, issued, lease, hb, usurped>>

\* Mutant: mkdir with { recursive: true } does not fail on an existing directory.
MkdirRecursive(p) ==
  /\ Goto(p, "mkdir", "write")
  /\ issued' = issued + 1
  /\ lease' = [lease EXCEPT ![p] = issued + 1]
  /\ dir' = issued + 1 /\ record' = NoOwner /\ mtime' = clock
  /\ UNCHANGED <<clock, call, hb, calls, usurped>>

\* mkdir(directory) is the atomic test-and-set of the protocol.
MkdirCreates(p) ==
  /\ Goto(p, "mkdir", "write")
  /\ dir = 0
  /\ issued' = issued + 1
  /\ lease' = [lease EXCEPT ![p] = issued + 1]
  /\ dir' = issued + 1 /\ record' = NoOwner /\ mtime' = clock
  /\ UNCHANGED <<clock, call, hb, calls, usurped>>

MkdirExists(p) ==
  /\ Goto(p, "mkdir", "read")
  /\ dir # 0
  /\ UNCHANGED <<clock, files, issued, lease, call, hb, calls, usurped>>

\* The call is over: its locals are gone.
Return(p) == call' = [call EXCEPT ![p] = NoCall]

\* Any other error ends the call with TARGET_LEASE_UNAVAILABLE.
MkdirFails(p) ==
  /\ "io" \in Faults
  /\ Goto(p, "mkdir", "idle") /\ Return(p)
  /\ UNCHANGED <<clock, files, issued, lease, hb, calls, usurped>>

\* atomicOwner: the record expires TTL after the attempt STARTED, and goes to
\* whatever directory is at the path by now.
WriteOwner(p) ==
  /\ Goto(p, "write", "held") /\ Return(p)
  /\ dir # 0
  /\ record' = [lease |-> lease[p], pid |-> p, expires |-> call[p].now + TTL]
  /\ mtime' = clock
  /\ UNCHANGED <<clock, dir, issued, lease, hb, calls, usurped>>

\* Mutant: a failed owner write is ignored, as the heartbeat ignores it.
WriteOwnerErrorIgnored(p) ==
  /\ "io" \in Faults \/ dir = 0
  /\ Goto(p, "write", "held") /\ Return(p)
  /\ UNCHANGED <<clock, files, issued, lease, hb, calls, usurped>>

\* The write fails (I/O error, or the directory is gone): rm(directory) follows.
WriteOwnerFails(p) ==
  /\ "io" \in Faults \/ dir = 0
  /\ Goto(p, "write", "unlink") /\ Return(p)
  /\ UNCHANGED <<clock, files, issued, lease, hb, calls, usurped>>

\* readOwner: a missing directory or record reads as undefined (NoOwner).
ReadOwner(p) ==
  /\ Goto(p, "read", "judge")
  /\ call' = [call EXCEPT ![p].seen = record]
  /\ UNCHANGED <<clock, files, issued, lease, hb, calls, usurped>>

\* Mutant: a directory without a record is stale at once.
StaleWithoutAge(p) ==
  LET owner == call[p].seen
  IN  IF owner = NoOwner THEN TRUE
      ELSE \/ owner.expires <= call[p].now
           \/ Host[owner.pid] = Host[p] /\ ~Alive(owner.pid)

\* Mutant: the liveness of the owner's process is not consulted.
StaleByExpiryOnly(p) ==
  IF call[p].seen = NoOwner
  THEN dir # 0 /\ call[p].now - mtime >= TTL
  ELSE call[p].seen.expires <= call[p].now

\* staleLease: judged from the record READ before, the clock of the attempt's
\* start, and the liveness of the owner's pid (or the directory's age) NOW.
StaleLease(p) ==
  LET owner == call[p].seen  now == call[p].now
  IN  IF owner = NoOwner
      THEN dir # 0 /\ now - mtime >= TTL
      ELSE \/ owner.expires <= now
           \/ Host[owner.pid] = Host[p] /\ ~Alive(owner.pid)

\* The lease is stale: go on to quarantine the directory.
JudgeStale(p) ==
  /\ Goto(p, "judge", "rename")
  /\ StaleLease(p)
  /\ call' = [call EXCEPT ![p].seen = NoOwner]
  /\ UNCHANGED <<clock, files, issued, lease, hb, calls, usurped>>

\* Mutant: an unsuccessful call cleans up the directory it tried to make.
BusyCleansUp(p) ==
  /\ Goto(p, "judge", "unlink") /\ Return(p)
  /\ ~StaleLease(p)
  /\ clock >= call[p].deadline
  /\ UNCHANGED <<clock, files, issued, lease, hb, calls, usurped>>

\* TARGET_BUSY: acquireTargetLease returns it once its deadline has passed ...
JudgeBusyReturns(p) ==
  /\ Goto(p, "judge", "idle") /\ Return(p)
  /\ ~StaleLease(p)
  /\ clock >= call[p].deadline
  /\ UNCHANGED <<clock, files, issued, lease, hb, calls, usurped>>

\* Mutant: the deadline is not tested before another poll.
BusyWaitsForever(p) ==
  /\ Goto(p, "judge", "sleep")
  /\ ~StaleLease(p)
  /\ call' = [call EXCEPT ![p].seen = NoOwner]
  /\ UNCHANGED <<clock, files, issued, lease, hb, calls, usurped>>

\* ... and sleeps for the poll interval before that.
JudgeBusyWaits(p) ==
  /\ Goto(p, "judge", "sleep")
  /\ ~StaleLease(p)
  /\ clock < call[p].deadline
  /\ call' = [call EXCEPT ![p].seen = NoOwner]
  /\ UNCHANGED <<clock, files, issued, lease, hb, calls, usurped>>

\* rename(directory, quarantine), whatever directory is there by now.  The
\* quarantine is private to p, so its removal is not a step; a failed rename is
\* ignored.
RenameAway ==
  /\ dir' = 0 /\ record' = NoOwner
  /\ usurped' = (usurped \/ \E q \in Proc : Owning(q) /\ dir = lease[q])
  /\ UNCHANGED <<clock, mtime, issued, lease, hb, calls>>

Quarantine(p) ==
  /\ Goto(p, "rename", "mkdir")
  /\ call[p].attempt < MaxAttempts
  /\ call' = [call EXCEPT ![p].attempt = @ + 1, ![p].now = clock]
  /\ RenameAway

\* The third quarantine ends the call with TARGET_LEASE_UNAVAILABLE.
QuarantineGivesUp(p) ==
  /\ Goto(p, "rename", "idle") /\ Return(p)
  /\ call[p].attempt >= MaxAttempts
  /\ RenameAway

\* The poll interval ends: another round of attempts.
PollAgain(p) ==
  /\ Goto(p, "sleep", "mkdir")
  /\ call' = [call EXCEPT ![p].attempt = 1, ![p].now = clock]
  /\ UNCHANGED <<clock, files, issued, lease, hb, calls, usurped>>

\* The caller's signal aborts the wait: TARGET_LEASE_CANCELLED.
CancelWait(p) ==
  /\ Goto(p, "sleep", "idle") /\ Return(p)
  /\ UNCHANGED <<clock, files, issued, lease, hb, calls, usurped>>

-----------------------------------------------------------------------------
(* The holder: heartbeat() and release() *)

\* The interval fires: read the record, go on only if it is still one's own.
HeartbeatRead(p) ==
  /\ pc[p] = "held" /\ hb[p] = NoHeartbeat
  /\ record.lease = lease[p]
  /\ hb' = [hb EXCEPT ![p] = [lease |-> lease[p], expires |-> clock + TTL]]
  /\ UNCHANGED <<clock, files, issued, pc, lease, call, calls, usurped>>

\* ... and write the renewed record at the path; a failed write is ignored.
\* Nothing stops it after release(): the flag is tested before the read only.
HeartbeatWrite(p) ==
  /\ hb[p] # NoHeartbeat
  /\ hb' = [hb EXCEPT ![p] = NoHeartbeat]
  /\ \/ /\ dir # 0
        /\ record' = [lease |-> hb[p].lease, pid |-> p, expires |-> hb[p].expires]
        /\ mtime' = clock
     \/ ("io" \in Faults \/ dir = 0) /\ UNCHANGED <<record, mtime>>
  /\ UNCHANGED <<clock, dir, issued, pc, lease, call, calls, usurped>>

\* release(): read the record; remove the directory only if it is one's own.
Release(p) ==
  /\ hb[p] # NoHeartbeat => "lateHeartbeat" \in Faults
  /\ \/ record.lease = lease[p] /\ Goto(p, "held", "unlink") /\ UNCHANGED lease
     \/ record.lease # lease[p] /\ Goto(p, "held", "idle") /\ Forget(p)
  /\ UNCHANGED <<clock, files, issued, call, hb, calls, usurped>>

\* rm(directory, recursive) empties the directory at the path ...
RmUnlink(p) ==
  /\ Goto(p, "unlink", "rmdir")
  /\ record' = NoOwner
  /\ mtime' = IF record # NoOwner THEN clock ELSE mtime
  /\ UNCHANGED <<clock, dir, issued, lease, call, hb, calls, usurped>>

\* ... and removes it, unless it is not empty any more (ENOTEMPTY).
RmRmdir(p) ==
  /\ Goto(p, "rmdir", "idle") /\ Forget(p)
  /\ dir' = IF record = NoOwner THEN 0 ELSE dir
  /\ UNCHANGED <<clock, record, mtime, issued, call, hb, calls, usurped>>

-----------------------------------------------------------------------------
(* The environment *)

\* A process exits or is killed; its pid stays dead.
Exit(p) ==
  /\ "crash" \in Faults
  /\ Alive(p)
  /\ pc' = [pc EXCEPT ![p] = "dead"]
  /\ hb' = [hb EXCEPT ![p] = NoHeartbeat]
  /\ Return(p) /\ Forget(p)
  /\ UNCHANGED <<clock, files, issued, calls, usurped>>

\* Unless "expiry" is among the faults, a live process is never kept from its
\* next step for a whole TTL: 30 seconds by default, against a heartbeat every
\* 5 seconds.
Timely(t) ==
  \A p \in Proc :
    /\ pc[p] \in {"mkdir", "write"} => t < call[p].now + TTL
    /\ Owning(p) /\ dir = lease[p] =>
         /\ record.lease = lease[p] => t < record.expires
         /\ record = NoOwner => t < mtime + TTL

Tick ==
  /\ clock < MaxClock
  /\ "expiry" \in Faults \/ Timely(clock + 1)
  /\ clock' = clock + 1
  /\ UNCHANGED <<files, issued, pc, lease, call, hb, calls, usurped>>

-----------------------------------------------------------------------------
Acquiring(p) ==
  \/ MkdirCreates(p) \/ MkdirExists(p) \/ MkdirFails(p)
  \/ WriteOwner(p) \/ WriteOwnerFails(p)
  \/ ReadOwner(p) \/ JudgeStale(p) \/ JudgeBusyReturns(p) \/ JudgeBusyWaits(p)
  \/ Quarantine(p) \/ QuarantineGivesUp(p) \/ PollAgain(p)

Renewing(p) == HeartbeatRead(p) \/ HeartbeatWrite(p)
Releasing(p) == RmUnlink(p) \/ RmRmdir(p)

Step(p) == Acquire(p) \/ Acquiring(p) \/ CancelWait(p) \/ Renewing(p)
           \/ Release(p) \/ Releasing(p) \/ Exit(p)

Next == Tick \/ \E p \in Proc : Step(p)

\* Nothing forces a call, a release, an abort or an exit; a process that has
\* begun one takes its next file-system step, its timers fire, time passes.
Fairness ==
  /\ WF_vars(Tick)
  /\ \A p \in Proc : /\ WF_vars(Acquiring(p)) /\ WF_vars(Renewing(p))
                     /\ WF_vars(Releasing(p))

Spec == Init /\ [][Next]_vars
FairSpec == Spec /\ Fairness

-----------------------------------------------------------------------------
(* Properties *)

\* The target is exclusive: no two processes hold its lease at once.
MutualExclusion ==
  \A p, q \in Proc : pc[p] = "held" /\ pc[q] = "held" => p = q

\* Whatever crashes, stalls, failed writes and late heartbeats happen, exclusion
\* is lost only after stale recovery has taken the directory of a live process:
\* no release, failed write or heartbeat loses it by itself.
ExclusionUnlessUsurped == ~usurped => MutualExclusion

\* A process that holds the lease is the one owner.json names, so that the
\* others see it as busy and its own release works.
HolderIsRecorded ==
  \A p \in Proc : pc[p] = "held" => dir = lease[p] /\ record.lease = lease[p]

\* The removal that ends a lease touches the directory of that lease only.
RemovesOnlyOwnDirectory ==
  [][\A p \in Proc : Releasing(p) /\ dir # 0 => dir = lease[p]]_vars

\* An owner that is still running, on time and recorded is never quarantined.
NeverUsurped == ~usurped

\* The lease implements the exclusive target: it passes from one process to the
\* next only through a release.
Holder == IF \E p \in Proc : pc[p] = "held"
          THEN CHOOSE p \in Proc : pc[p] = "held" ELSE Free
Exclusive == INSTANCE ExclusiveTarget WITH holder <- Holder
ImplementsExclusiveTarget == Exclusive!Spec

\* A call of acquireTargetLease returns: every attempt ends, and polling stops
\* at the deadline.
InCall(p) == pc[p] \in {"mkdir", "write", "read", "judge", "rename", "sleep"}
AcquireReturns == \A p \in Proc : InCall(p) ~> ~InCall(p)

\* A lease whose owner died on the same machine does not block the target: a
\* process that finds its record ends up holding the lease (or is killed).
DeadOwnerIsReplaced ==
  \A p, q \in Proc :
    p # q /\ Host[p] = Host[q] =>
      (pc[p] = "mkdir" /\ record.pid = q /\ ~Alive(q)) ~> pc[p] \in {"held", "dead"}
=============================================================================
