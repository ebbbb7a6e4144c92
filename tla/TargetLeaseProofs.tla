------------------------- MODULE TargetLeaseProofs -------------------------
(***************************************************************************)
(* Proofs about the target lease, for any number of processes, any TTL and *)
(* any bounds.                                                             *)
(***************************************************************************)
EXTENDS TargetLease, TLAPS

\* The null values belong to the types they stand in for.
LEMMA NullTypes ==
  NoOwner \in Records /\ NoCall \in Calls /\ NoHeartbeat \in Heartbeats
<1>1. NoOwner \in Records
  BY DEF NoOwner, Records
<1>2. NoHeartbeat \in Heartbeats
  BY DEF NoHeartbeat, Heartbeats
<1>3. NoCall \in Calls
  BY <1>1 DEF NoCall, Calls, MaxAttempts
<1> QED
  BY <1>1, <1>2, <1>3

\* What an attempt does to the locals of its call keeps their type.
LEMMA CallTypes ==
  ASSUME NEW c \in Calls
  PROVE  /\ c.seen \in Records /\ c.now \in Nat /\ c.attempt \in 0 .. MaxAttempts
         /\ \A r \in Records : [c EXCEPT !.seen = r] \in Calls
         /\ \A t \in Nat, k \in 0 .. MaxAttempts :
              /\ [c EXCEPT !.attempt = k, !.now = t] \in Calls
  BY DEF Calls

LEMMA TypeInit == Init => TypeOK
<1> SUFFICES ASSUME Init PROVE TypeOK
  OBVIOUS
<1> USE NullTypes DEF Init, Pcs
<1>1. clock \in Nat /\ dir \in Nat /\ record \in Records /\ mtime \in Nat
  OBVIOUS
<1>2. issued \in Nat /\ usurped \in BOOLEAN
  OBVIOUS
<1>3. pc \in [Proc -> Pcs] /\ lease \in [Proc -> Nat] /\ calls \in [Proc -> Nat]
  OBVIOUS
<1>4. call \in [Proc -> Calls] /\ hb \in [Proc -> Heartbeats]
  OBVIOUS
<1> QED
  BY <1>1, <1>2, <1>3, <1>4 DEF TypeOK

LEMMA TypeNext == TypeOK /\ [Next]_vars => TypeOK'
<1> USE TTLAssumption, BoundsAssumption
<1> SUFFICES ASSUME TypeOK, [Next]_vars PROVE TypeOK'
  OBVIOUS
<1> USE NullTypes DEF TypeOK, Pcs, Goto, Return, Forget, files
<1>1. CASE Tick
  BY <1>1 DEF Tick
<1>2. ASSUME NEW p \in Proc, Acquire(p) PROVE TypeOK'
  <2>1. [attempt |-> 1, now |-> clock, seen |-> NoOwner,
         deadline |-> clock + WaitTimeout] \in Calls
    BY DEF Calls, MaxAttempts
  <2> QED
    BY <1>2, <2>1 DEF Acquire
<1>3. ASSUME NEW p \in Proc, Acquiring(p) PROVE TypeOK'
  <2>1. CASE MkdirCreates(p)
    BY <2>1 DEF MkdirCreates
  <2>2. CASE MkdirExists(p)
    BY <2>2 DEF MkdirExists
  <2>3. CASE MkdirFails(p)
    BY <2>3 DEF MkdirFails
  <2>4. CASE WriteOwner(p)
    <3>1. call[p].now + TTL \in Nat
      BY DEF Calls
    <3>2. record' \in Records
      BY <2>4, <3>1 DEF WriteOwner, Records
    <3> QED
      BY <2>4, <3>2 DEF WriteOwner
  <2>5. CASE WriteOwnerFails(p)
    BY <2>5 DEF WriteOwnerFails
  <2>6. CASE ReadOwner(p)
    BY <2>6, CallTypes DEF ReadOwner
  <2>7. CASE JudgeStale(p)
    BY <2>7, CallTypes DEF JudgeStale
  <2>8. CASE JudgeBusyReturns(p)
    BY <2>8 DEF JudgeBusyReturns
  <2>12. CASE JudgeBusyWaits(p)
    BY <2>12, CallTypes DEF JudgeBusyWaits
  <2>9. CASE Quarantine(p)
    <3>1. call[p].attempt + 1 \in 0 .. MaxAttempts
      BY <2>9 DEF Quarantine, MaxAttempts, Calls
    <3>2. call' = [call EXCEPT ![p] =
                    [call[p] EXCEPT !.attempt = call[p].attempt + 1, !.now = clock]]
      BY <2>9 DEF Quarantine
    <3>3. call[p] \in Calls
      OBVIOUS
    <3>4. call' \in [Proc -> Calls]
      BY <3>1, <3>2, <3>3, CallTypes
    <3> QED
      BY <2>9, <3>4 DEF Quarantine, RenameAway
  <2>10. CASE QuarantineGivesUp(p)
    BY <2>10 DEF QuarantineGivesUp, RenameAway
  <2>11. CASE PollAgain(p)
    <3>1. call' = [call EXCEPT ![p] =
                    [call[p] EXCEPT !.attempt = 1, !.now = clock]]
      BY <2>11 DEF PollAgain
    <3>2. call[p] \in Calls /\ 1 \in 0 .. MaxAttempts
      BY DEF MaxAttempts
    <3>3. call' \in [Proc -> Calls]
      BY <3>1, <3>2, CallTypes
    <3> QED
      BY <2>11, <3>3 DEF PollAgain
  <2> QED
    BY <1>3, <2>1, <2>2, <2>3, <2>4, <2>5, <2>6, <2>7, <2>8, <2>9, <2>10, <2>11,
       <2>12 DEF Acquiring
<1>4. ASSUME NEW p \in Proc, CancelWait(p) PROVE TypeOK'
  BY <1>4 DEF CancelWait
<1>5. ASSUME NEW p \in Proc, HeartbeatRead(p) PROVE TypeOK'
  BY <1>5 DEF HeartbeatRead, Heartbeats
<1>6. ASSUME NEW p \in Proc, HeartbeatWrite(p) PROVE TypeOK'
  <2>1. [lease |-> hb[p].lease, pid |-> p, expires |-> hb[p].expires] \in Records
    BY DEF Records, Heartbeats
  <2> QED
    BY <1>6, <2>1 DEF HeartbeatWrite
<1>7. ASSUME NEW p \in Proc, Release(p) PROVE TypeOK'
  BY <1>7 DEF Release
<1>8. ASSUME NEW p \in Proc, Releasing(p) PROVE TypeOK'
  BY <1>8 DEF Releasing, RmUnlink, RmRmdir
<1>9. ASSUME NEW p \in Proc, Exit(p) PROVE TypeOK'
  BY <1>9 DEF Exit
<1>10. CASE UNCHANGED vars
  BY <1>10 DEF vars
<1> QED
  BY <1>1, <1>2, <1>3, <1>4, <1>5, <1>6, <1>7, <1>8, <1>9, <1>10
     DEF Next, Step, Renewing

\* Every variable keeps its type: the steps leave the program's state well
\* formed, whatever the faults (all of state/target-lease.ts).
THEOREM TypeCorrect == Spec => []TypeOK
  BY TypeInit, TypeNext, PTL DEF Spec

-----------------------------------------------------------------------------
(* Exclusion under every fault.  Lease ids are never reused, and as long as  *)
(* stale recovery has not taken a live process's directory, the directory at *)
(* the path is the one of whoever is between its mkdir and its rmdir.        *)

LeaseIds ==
  /\ dir <= issued
  /\ \A p \in Proc : lease[p] <= issued /\ (Owning(p) => lease[p] # 0)
  /\ \A p, q \in Proc : p # q /\ lease[p] # 0 => lease[p] # lease[q]

DirectoryIsOwners == ~usurped => \A p \in Proc : Owning(p) => dir = lease[p]

OwnershipInv == LeaseIds /\ DirectoryIsOwners

LEMMA OwnershipInit == Init => OwnershipInv
  BY DEF Init, OwnershipInv, LeaseIds, DirectoryIsOwners, Owning

\* A quarantine that usurps nobody happens only while nobody owns the lease.
LEMMA RenameTakesNoOwner ==
  ASSUME TypeOK, OwnershipInv, NEW p \in Proc, RenameAway,
         pc[p] = "rename", NEW to \in {"mkdir", "idle"},
         pc' = [pc EXCEPT ![p] = to]
  PROVE  OwnershipInv'
<1> USE DEF TypeOK, OwnershipInv, LeaseIds, DirectoryIsOwners, RenameAway
<1>1. \A q \in Proc : Owning(q)' => Owning(q)
  BY DEF Owning
<1>2. LeaseIds'
  BY <1>1
<1>3. ASSUME ~usurped', NEW q \in Proc, Owning(q)' PROVE FALSE
  <2>1. ~usurped /\ Owning(q)
    BY <1>1, <1>3
  <2>2. dir = lease[q]
    BY <2>1
  <2> QED
    BY <1>3, <2>1, <2>2
<1> QED
  BY <1>2, <1>3

LEMMA OwnershipNext == TypeOK /\ OwnershipInv /\ [Next]_vars => OwnershipInv'
<1> SUFFICES ASSUME TypeOK, OwnershipInv, [Next]_vars PROVE OwnershipInv'
  OBVIOUS
<1> USE DEF TypeOK, OwnershipInv, LeaseIds, DirectoryIsOwners, Owning, Goto,
            Return, Forget, files
<1>1. CASE Tick
  BY <1>1 DEF Tick
<1>2. ASSUME NEW p \in Proc, Acquire(p) PROVE OwnershipInv'
  BY <1>2 DEF Acquire
<1>3. ASSUME NEW p \in Proc, Acquiring(p) PROVE OwnershipInv'
  <2>1. CASE MkdirCreates(p)
    BY <2>1 DEF MkdirCreates
  <2>2. CASE MkdirExists(p)
    BY <2>2 DEF MkdirExists
  <2>3. CASE MkdirFails(p)
    BY <2>3 DEF MkdirFails
  <2>4. CASE WriteOwner(p)
    BY <2>4 DEF WriteOwner
  <2>5. CASE WriteOwnerFails(p)
    BY <2>5 DEF WriteOwnerFails
  <2>6. CASE ReadOwner(p)
    BY <2>6 DEF ReadOwner
  <2>7. CASE JudgeStale(p)
    BY <2>7 DEF JudgeStale
  <2>8. CASE JudgeBusyReturns(p)
    BY <2>8 DEF JudgeBusyReturns
  <2>9. CASE JudgeBusyWaits(p)
    BY <2>9 DEF JudgeBusyWaits
  <2>10. CASE Quarantine(p)
    BY <2>10, RenameTakesNoOwner DEF Quarantine
  <2>11. CASE QuarantineGivesUp(p)
    BY <2>11, RenameTakesNoOwner DEF QuarantineGivesUp
  <2>12. CASE PollAgain(p)
    BY <2>12 DEF PollAgain
  <2> QED
    BY <1>3, <2>1, <2>2, <2>3, <2>4, <2>5, <2>6, <2>7, <2>8, <2>9, <2>10, <2>11,
       <2>12 DEF Acquiring
<1>4. ASSUME NEW p \in Proc, CancelWait(p) PROVE OwnershipInv'
  BY <1>4 DEF CancelWait
<1>5. ASSUME NEW p \in Proc, Renewing(p) PROVE OwnershipInv'
  BY <1>5 DEF Renewing, HeartbeatRead, HeartbeatWrite
<1>6. ASSUME NEW p \in Proc, Release(p) PROVE OwnershipInv'
  BY <1>6 DEF Release
<1>7. ASSUME NEW p \in Proc, RmUnlink(p) PROVE OwnershipInv'
  BY <1>7 DEF RmUnlink
<1>8. ASSUME NEW p \in Proc, RmRmdir(p) PROVE OwnershipInv'
  BY <1>8 DEF RmRmdir
<1>9. ASSUME NEW p \in Proc, Exit(p) PROVE OwnershipInv'
  BY <1>9 DEF Exit
<1>10. CASE UNCHANGED vars
  BY <1>10 DEF vars
<1> QED
  BY <1>1, <1>2, <1>3, <1>4, <1>5, <1>6, <1>7, <1>8, <1>9, <1>10
     DEF Next, Step, Releasing

\* Whatever processes crash, stall or write late, two of them hold the lease at
\* once only after stale recovery quarantined a live process's directory: the
\* release, failed-write and heartbeat paths of the code never cause it.
THEOREM ExclusionHolds == Spec => []ExclusionUnlessUsurped
<1>1. OwnershipInv => ExclusionUnlessUsurped
  BY DEF OwnershipInv, LeaseIds, DirectoryIsOwners, Owning,
         ExclusionUnlessUsurped, MutualExclusion
<1> QED
  BY <1>1, OwnershipInit, OwnershipNext, TypeCorrect, PTL DEF Spec

-----------------------------------------------------------------------------
(* Exclusion when every live process is on time: no crash, no lease left to  *)
(* expire, no heartbeat in flight across a release (file-system calls may    *)
(* still fail).  Then no lease is ever judged stale: the record a process    *)
(* read cannot have expired by the clock its attempt started with.           *)

OnTime == Faults \subseteq {"io"}

\* Nobody is dead or about to quarantine.
NoRecovery == \A p \in Proc : pc[p] \notin {"rename", "dead"}

\* The directory has a live owner, and a record in it is that owner's.
DirectoryOwned ==
  /\ dir = 0 => record = NoOwner
  /\ dir # 0 => \E p \in Proc : Owning(p) /\ lease[p] = dir
  /\ record # NoOwner => /\ record.pid \in Proc /\ record.lease = dir
                         /\ lease[record.pid] = dir
                         /\ pc[record.pid] \in {"held", "unlink"}
  /\ \A p \in Proc : pc[p] = "held" => record.lease = lease[p] /\ record # NoOwner

\* Records and ownerless directories are younger than TTL.
DirectoryFresh ==
  /\ mtime <= clock
  /\ dir # 0 => clock < mtime + TTL
  /\ record # NoOwner => clock < record.expires /\ record.expires <= mtime + TTL

\* A heartbeat in flight belongs to the holder and renews its record.
HeartbeatFresh ==
  \A p \in Proc : hb[p] # NoHeartbeat =>
    /\ pc[p] = "held" /\ hb[p].lease = lease[p]
    /\ record.expires <= hb[p].expires /\ hb[p].expires <= clock + TTL

\* What an attempt remembers is not stale by its own clock.
CallFresh ==
  \A p \in Proc :
    /\ call[p].now <= clock
    /\ pc[p] \in {"mkdir", "write"} => clock < call[p].now + TTL
    /\ call[p].seen # NoOwner => /\ call[p].seen.pid \in Proc
                                 /\ call[p].now < call[p].seen.expires

OnTimeInv ==
  /\ ~usurped
  /\ NoRecovery /\ DirectoryOwned /\ DirectoryFresh /\ HeartbeatFresh /\ CallFresh

LEMMA OnTimeInit == Init => OnTimeInv
<1> SUFFICES ASSUME Init PROVE OnTimeInv
  OBVIOUS
<1> USE TTLAssumption DEF Init
<1>1. NoRecovery /\ DirectoryOwned
  BY DEF NoRecovery, DirectoryOwned
<1>2. DirectoryFresh /\ HeartbeatFresh
  BY DEF DirectoryFresh, HeartbeatFresh
<1>3. CallFresh
  BY DEF CallFresh, NoCall
<1> QED
  BY <1>1, <1>2, <1>3 DEF OnTimeInv

\* The locals of a finished call are not stale.
LEMMA NoCallFresh == NoCall.now = 0 /\ NoCall.seen = NoOwner
  BY DEF NoCall

LEMMA OnTimeNext ==
  ASSUME OnTime, TypeOK, OwnershipInv, OnTimeInv, [Next]_vars
  PROVE  OnTimeInv'
<1> USE TTLAssumption, BoundsAssumption, NoCallFresh
    DEF TypeOK, OwnershipInv, LeaseIds, DirectoryIsOwners, OnTimeInv, NoRecovery,
        DirectoryOwned, DirectoryFresh, HeartbeatFresh, CallFresh, Owning, Goto,
        Return, Forget, files, OnTime, Calls, Records, Heartbeats
<1>1. CASE Tick
  BY <1>1 DEF Tick, Timely
<1>2. ASSUME NEW p \in Proc, Acquire(p) PROVE OnTimeInv'
  BY <1>2 DEF Acquire
<1>3. ASSUME NEW p \in Proc, Acquiring(p) PROVE OnTimeInv'
  <2>1. CASE MkdirCreates(p)
    BY <2>1 DEF MkdirCreates
  <2>2. CASE MkdirExists(p)
    BY <2>2 DEF MkdirExists
  <2>3. CASE MkdirFails(p)
    BY <2>3 DEF MkdirFails
  <2>4. CASE WriteOwner(p)
    <3>1. dir = lease[p] /\ record' # NoOwner /\ record'.lease = lease[p]
          /\ record'.pid = p /\ record'.expires = call[p].now + TTL
      BY <2>4 DEF WriteOwner, NoOwner
    <3>2. \A q \in Proc : Owning(q) => q = p
      BY <3>1, <2>4 DEF WriteOwner
    <3>3. NoRecovery' /\ DirectoryOwned'
      BY <2>4, <3>1, <3>2 DEF WriteOwner
    <3>4. DirectoryFresh'
      BY <2>4, <3>1 DEF WriteOwner
    <3>5. HeartbeatFresh'
      BY <2>4, <3>2 DEF WriteOwner
    <3>6. CallFresh'
      BY <2>4 DEF WriteOwner
    <3> QED
      BY <2>4, <3>3, <3>4, <3>5, <3>6 DEF WriteOwner
  <2>5. CASE WriteOwnerFails(p)
    BY <2>5 DEF WriteOwnerFails
  <2>6. CASE ReadOwner(p)
    BY <2>6 DEF ReadOwner
  <2>7. CASE JudgeStale(p)
    <3>1. CASE call[p].seen = NoOwner
      BY <2>7, <3>1 DEF JudgeStale, StaleLease
    <3>2. CASE call[p].seen # NoOwner
      BY <2>7, <3>2 DEF JudgeStale, StaleLease, Alive
    <3> QED
      BY <3>1, <3>2
  <2>8. CASE JudgeBusyReturns(p)
    BY <2>8 DEF JudgeBusyReturns
  <2>9. CASE JudgeBusyWaits(p)
    BY <2>9 DEF JudgeBusyWaits
  <2>10. CASE Quarantine(p)
    BY <2>10 DEF Quarantine, RenameAway
  <2>11. CASE QuarantineGivesUp(p)
    BY <2>11 DEF QuarantineGivesUp, RenameAway
  <2>12. CASE PollAgain(p)
    BY <2>12 DEF PollAgain
  <2> QED
    BY <1>3, <2>1, <2>2, <2>3, <2>4, <2>5, <2>6, <2>7, <2>8, <2>9, <2>10, <2>11,
       <2>12 DEF Acquiring
<1>4. ASSUME NEW p \in Proc, CancelWait(p) PROVE OnTimeInv'
  BY <1>4 DEF CancelWait
<1>5. ASSUME NEW p \in Proc, HeartbeatRead(p) PROVE OnTimeInv'
  BY <1>5 DEF HeartbeatRead
<1>6. ASSUME NEW p \in Proc, HeartbeatWrite(p) PROVE OnTimeInv'
  <2>1. pc[p] = "held" /\ record.lease = dir /\ lease[p] = dir /\ record # NoOwner
    BY <1>6 DEF HeartbeatWrite
  <2>2. \A q \in Proc : Owning(q) => q = p
    BY <2>1
  <2>3. CASE UNCHANGED <<record, mtime>>
    BY <1>6, <2>3 DEF HeartbeatWrite
  <2>4. CASE /\ record' = [lease |-> hb[p].lease, pid |-> p, expires |-> hb[p].expires]
             /\ mtime' = clock
    <3>1. record' # NoOwner /\ record'.lease = dir /\ record'.pid = p
          /\ record'.expires = hb[p].expires
      BY <1>6, <2>1, <2>4 DEF HeartbeatWrite, NoOwner
    <3>2. NoRecovery' /\ DirectoryOwned'
      BY <1>6, <2>1, <2>2, <3>1 DEF HeartbeatWrite
    <3>3. DirectoryFresh'
      BY <1>6, <2>1, <2>4, <3>1 DEF HeartbeatWrite
    <3>4. HeartbeatFresh' /\ CallFresh'
      BY <1>6, <2>2, <2>4 DEF HeartbeatWrite
    <3> QED
      BY <1>6, <3>2, <3>3, <3>4 DEF HeartbeatWrite
  <2> QED
    BY <1>6, <2>3, <2>4 DEF HeartbeatWrite
<1>7. ASSUME NEW p \in Proc, Release(p) PROVE OnTimeInv'
  BY <1>7 DEF Release
<1>8. ASSUME NEW p \in Proc, RmUnlink(p) PROVE OnTimeInv'
  BY <1>8 DEF RmUnlink
<1>9. ASSUME NEW p \in Proc, RmRmdir(p) PROVE OnTimeInv'
  BY <1>9 DEF RmRmdir
<1>10. ASSUME NEW p \in Proc, Exit(p) PROVE OnTimeInv'
  BY <1>10 DEF Exit
<1>11. CASE UNCHANGED vars
  BY <1>11 DEF vars
<1> QED
  BY <1>1, <1>2, <1>3, <1>4, <1>5, <1>6, <1>7, <1>8, <1>9, <1>10, <1>11
     DEF Next, Step, Renewing, Releasing

LEMMA OnTimeAlways == ASSUME OnTime PROVE Spec => [](TypeOK /\ OwnershipInv /\ OnTimeInv)
<1>1. OnTimeInv /\ OwnershipInv /\ TypeOK /\ [Next]_vars => OnTimeInv'
  BY OnTimeNext
<1> QED
  BY <1>1, TypeInit, TypeNext, OwnershipInit, OwnershipNext, OnTimeInit, PTL DEF Spec

\* While every live process is on time, stale recovery never takes the directory
\* of a running owner (staleLease, tryAcquireTargetLease).
THEOREM OwnersAreSafe == ASSUME OnTime PROVE Spec => []NeverUsurped
<1>1. OnTimeInv => NeverUsurped
  BY DEF OnTimeInv, NeverUsurped
<1> QED
  BY <1>1, OnTimeAlways, PTL

\* ... so the target is exclusive: never two holders (acquireTargetLease).
THEOREM LeaseIsExclusive == ASSUME OnTime PROVE Spec => []MutualExclusion
<1>1. NeverUsurped /\ ExclusionUnlessUsurped => MutualExclusion
  BY DEF NeverUsurped, ExclusionUnlessUsurped
<1> QED
  BY <1>1, OwnersAreSafe, ExclusionHolds, PTL

\* ... the holder is the owner that owner.json names (atomicOwner, heartbeat), so
\* its heartbeats and its release apply to its own lease.
THEOREM LeaseIsRecorded == ASSUME OnTime PROVE Spec => []HolderIsRecorded
<1>1. OwnershipInv /\ OnTimeInv => HolderIsRecorded
  BY DEF OnTimeInv, OwnershipInv, DirectoryIsOwners, Owning, DirectoryOwned,
         HolderIsRecorded
<1> QED
  BY <1>1, OnTimeAlways, PTL

\* ... a release, and the clean-up of a failed write, remove the directory of
\* their own lease and no other (release, rm).
THEOREM LeaseRemovalIsOwn == ASSUME OnTime PROVE Spec => RemovesOnlyOwnDirectory
<1>1. OwnershipInv /\ OnTimeInv /\ [Next]_vars =>
        [\A p \in Proc : Releasing(p) /\ dir # 0 => dir = lease[p]]_vars
  BY DEF OnTimeInv, OwnershipInv, DirectoryIsOwners, Owning, Releasing, RmUnlink,
         RmRmdir, Goto
<1> QED
  BY <1>1, OnTimeAlways, PTL DEF Spec, RemovesOnlyOwnDirectory

-----------------------------------------------------------------------------
(* The refinement: a step of the lease grants the target, gives it back, or  *)
(* leaves its holder alone.                                                  *)

\* While exclusion holds, Holder is the process at "held", or Free.
LEMMA HolderIsHeld ==
  ASSUME MutualExclusion
  PROVE  /\ \A p \in Proc : pc[p] = "held" => Holder = p
         /\ (\A p \in Proc : pc[p] # "held") => Holder = Free
  BY DEF MutualExclusion, Holder

\* A step maps to a grant, to giving back, or to a stutter.
LEMMA StepRefines ==
  ASSUME OnTime, TypeOK, OwnershipInv, OnTimeInv, MutualExclusion,
         MutualExclusion', [Next]_vars
  PROVE  [Exclusive!Next]_Holder
<1> USE DEF TypeOK, Goto
<1>1. \A p \in Proc : pc'[p] = "held" => Holder' = p
  BY DEF MutualExclusion, Holder
<1>2. (\A p \in Proc : pc'[p] # "held") => Holder' = Free
  BY DEF Holder
<1>3. CASE \A p \in Proc : pc'[p] = "held" <=> pc[p] = "held"
  <2>1. CASE \E p \in Proc : pc[p] = "held"
    BY <1>1, <1>3, <2>1, HolderIsHeld
  <2>2. CASE \A p \in Proc : pc[p] # "held"
    BY <1>2, <1>3, <2>2, HolderIsHeld
  <2> QED
    BY <2>1, <2>2
<1>4. ASSUME NEW p \in Proc, WriteOwner(p) PROVE Exclusive!Next
  <2>1. \A q \in Proc : pc[q] # "held"
    BY <1>4 DEF WriteOwner, OnTimeInv, OwnershipInv, LeaseIds, DirectoryIsOwners,
                Owning
  <2>2. Holder = Free
    BY <2>1, HolderIsHeld
  <2>3. Holder' = p
    BY <1>1, <1>4 DEF WriteOwner
  <2> QED
    BY <2>2, <2>3 DEF Exclusive!Next, Exclusive!Grant
<1>5. ASSUME NEW p \in Proc, Release(p) PROVE Exclusive!Next
  <2>1. Holder = p
    BY <1>5, HolderIsHeld DEF Release
  <2>2. \A q \in Proc : pc'[q] # "held"
    BY <1>5 DEF Release, MutualExclusion
  <2>3. Holder' = Free
    BY <1>2, <2>2
  <2> QED
    BY <2>1, <2>3 DEF Exclusive!Next, Exclusive!GiveBack
<1>6. ASSUME ~\E p \in Proc : WriteOwner(p) \/ Release(p)
      PROVE  \A p \in Proc : pc'[p] = "held" <=> pc[p] = "held"
  <2>1. CASE Tick \/ UNCHANGED vars
    BY <2>1 DEF Tick, vars
  <2>2. ASSUME NEW p \in Proc, Acquire(p) \/ CancelWait(p) \/ Renewing(p)
                               \/ Releasing(p) \/ Exit(p)
        PROVE  \A q \in Proc : pc'[q] = "held" <=> pc[q] = "held"
    BY <2>2 DEF Acquire, CancelWait, Renewing, HeartbeatRead, HeartbeatWrite,
                Releasing, RmUnlink, RmRmdir, Exit, OnTime
  <2>3. ASSUME NEW p \in Proc, Acquiring(p)
        PROVE  \A q \in Proc : pc'[q] = "held" <=> pc[q] = "held"
    BY <1>6, <2>3 DEF Acquiring, MkdirCreates, MkdirExists, MkdirFails,
       WriteOwnerFails, ReadOwner, JudgeStale, JudgeBusyReturns, JudgeBusyWaits,
       Quarantine, QuarantineGivesUp, PollAgain
  <2> QED
    BY <1>6, <2>1, <2>2, <2>3 DEF Next, Step
<1> QED
  BY <1>3, <1>4, <1>5, <1>6

\* Under the same assumption the lease implements the exclusive target: the
\* target changes hands only through a release.
THEOREM LeaseImplementsExclusive ==
  ASSUME OnTime PROVE Spec => ImplementsExclusiveTarget
<1>1. Init => Exclusive!Init
  BY DEF Init, Exclusive!Init, Holder
<1>2. TypeOK /\ OwnershipInv /\ OnTimeInv /\ MutualExclusion /\ MutualExclusion'
      /\ [Next]_vars => [Exclusive!Next]_Holder
  BY StepRefines
<1> QED
  BY <1>1, <1>2, OnTimeAlways, LeaseIsExclusive, PTL
     DEF Spec, ImplementsExclusiveTarget, Exclusive!Spec
=============================================================================
