-------------------------- MODULE CommandRunProofs --------------------------
(***************************************************************************)
(* Proofs about the pool and the runs of its members, for any number of    *)
(* members and of runs outside the pool, any AVDs, ports, phones, requests *)
(* and faults.                                                             *)
(***************************************************************************)
EXTENDS CommandRun, WellFoundedInduction, TLAPS

(* The inductive invariant *)

\* What the pool knows: a failure has stopped it, a failed member has the code of a
\* failure, and once it has closed nobody runs and its code is that of the results.
PoolKnows ==
  /\ \A m \in pool.required :
       pool.failFast /\ results[m].status \in {"failed", "cancelled"} => stopScheduling \/ aborted
  /\ \A m \in Members :
       /\ results[m].status = "failed" => results[m].code # Success
       /\ results[m].status = "none" => results[m] = NoResult
  /\ poolExit # NoCode => running = {}
  /\ poolExit = Success => \A m \in pool.required : results[m].status = "passed"

\* A run that reports success, and a member that passed, have a verified target.
Verified ==
  /\ \A r \in Runs : code[r] = Success => verifiedOn[r] # Nobody
  /\ \A m \in Members : results[m].status = "passed" => verifiedOn[m] # Nobody

\* Where a run may have an emulator process of its own, the lease of its AVD, and
\* the lease of its target.
Owning == {"boot", "cleanup", "select", "leaseTarget", "deploy", "verify", "release",
           "failRelease"}
Leasing == {"look", "spawn", "boot", "cleanup", "select", "leaseTarget", "deploy", "verify",
            "release", "unlock"}
Targeting == {"deploy", "verify", "release", "unlock", "report"}
Before == {"idle", "leaseAvd", "look", "spawn", "boot", "cleanup", "select"}

\* The return after a failed connection.
GaveUp(r) == pc[r] = "done" /\ code[r] = NotConnected

\* A run that prepares an AVD asked for one, and an emulator that has yet to take its
\* port has one to take.
Preparing ==
  \A r \in Runs :
    /\ pc[r] \in {"leaseAvd", "look", "spawn"} => Wants[r] \in Avds
    /\ proc[r] = "starting" => Wants[r] \in Avds /\ serial[r] \in Ports

ProcessesAreOwned ==
  \A r \in Runs : proc[r] \in {"starting", "up"} => pc[r] \in Owning \/ GaveUp(r)

LeasesOwned(r) ==
  \A x \in Leases : holder[x] = r =>
    \/ x[2] = "avd" /\ pc[r] \in Leasing \cup {"failRelease", "failReport"}
    \/ x[2] # "avd" /\ x = NamedLease(r) /\ pc[r] \in Targeting
    \/ GaveUp(r)

WorkOwned(r) ==
  /\ Wants[r] \in Avds /\ pc[r] \in Leasing => holder[AvdLease(r)] = r
  /\ pc[r] \in Before => selected[r] = Nobody
  /\ pc[r] = "leaseTarget" => selected[r] \in Targets
  /\ selected[r] # Nobody =>
       /\ pc[r] \in Targeting => holder[NamedLease(r)] = r
       /\ pc[r] \in Targeting \cup {"leaseTarget"} => selected[r] \in {Asked(r)} \cup Wireless

\* An emulator process that has its port is what is at that port.
UpIsOwn ==
  \A r \in Runs : proc[r] = "up" /\ pc[r] # "done" =>
    serial[r] \in Ports /\ emulator[serial[r]].by = r

LeasesAreOwned == \A r \in Runs : LeasesOwned(r)
WorkIsOwned == \A r \in Runs : WorkOwned(r)

IInv == /\ TypeOK /\ PoolKnows /\ Verified
        /\ Preparing /\ ProcessesAreOwned /\ UpIsOwn /\ LeasesAreOwned /\ WorkIsOwned

-----------------------------------------------------------------------------
(* The pool *)

\* A set of natural numbers that is not empty has a least element: the first member
\* that did not pass, the first free port.
LEMMA Least ==
  ASSUME NEW S \in SUBSET Nat, S # {}
  PROVE  \E x \in S : \A y \in S : x <= y
<1>1. PICK x \in S : \A y \in S : ~(<<y, x>> \in OpToRel(<, Nat))
  BY NatLessThanWellFounded, WFMin
<1>2. ASSUME NEW y \in S
      PROVE  x <= y
  <2>1. ~(y < x)
    BY <1>1, <1>2 DEF OpToRel
  <2> QED
    BY <2>1
<1> QED
  BY <1>2

Results == [status : {"none", "passed", "failed", "cancelled", "skipped"},
            code : ExitCodes \cup {NoCode}]

LEMMA ResultTypes ==
  /\ \A c \in ExitCodes \cup {NoCode} : Outcome(c) \in Results
  /\ Skipped("cancelled") \in Results /\ Skipped("skipped") \in Results
  /\ Result("failed", Failure) \in Results
  /\ NoResult \in Results
  BY DEF Outcome, Skipped, Result, Results, NoResult, ExitCodes, Success, Failure, NotConnected,
         Interrupted

LEMMA SettleType ==
  ASSUME PoolTypeOK, NEW m \in Members, NEW result \in Results, Settle(m, result)
  PROVE  PoolTypeOK'
<1>1. pool' \in Pools /\ signalled' \in BOOLEAN /\ poolExit' \in ExitCodes \cup {NoCode}
  BY DEF PoolTypeOK, Settle
<1>2. pool.failFast \in BOOLEAN /\ pool.cancelRunning \in BOOLEAN
  BY PoolAssumption DEF PoolTypeOK, PoolRecords
<1>3. aborted' \in BOOLEAN /\ stopScheduling' \in BOOLEAN
  BY <1>2, Zenon DEF PoolTypeOK, Settle, Fatal
<1>4. nextIndex' \in 1 .. (N + 1)
  BY PoolAssumption DEF PoolTypeOK, Settle, MembersLeft, Members
<1>5. running' \in SUBSET Members
  BY DEF PoolTypeOK, Settle, MembersLeft
<1>6. results' \in [Members -> Results]
  BY ResultTypes DEF PoolTypeOK, Settle, Results
<1> QED
  BY <1>1, <1>3, <1>4, <1>5, <1>6 DEF PoolTypeOK, Results

\* The code of the aggregate is one of a member's, or one of its own.
LEMMA AggregateType ==
  ASSUME PoolTypeOK, NEW final \in [Members -> Results],
         \A m \in Members : final[m].status = "failed" => final[m].code # Success,
         \A m \in Members : final[m].status # "none"
  PROVE  /\ Aggregate(final) \in ExitCodes \cup {NoCode}
         /\ Aggregate(final) = Success => \A m \in pool.required : final[m].status = "passed"
<1> DEFINE bad == {m \in pool.required : final[m].status # "passed"}
           first == CHOOSE m \in bad : \A other \in bad : m <= other
<1>1. pool.required \subseteq Members /\ Members \subseteq Nat
  BY PoolAssumption DEF PoolTypeOK, PoolRecords, Members
<1>2. CASE bad = {}
  BY <1>2 DEF Aggregate, ExitCodes
<1>3. CASE bad # {}
  <2>1. first \in bad
    <3>1. \E m \in bad : \A other \in bad : m <= other
      <4>1. bad \in SUBSET Nat
        BY <1>1
      <4> QED
        BY <1>3, <4>1, Least
    <3> QED
      BY <3>1
  <2>2. Aggregate(final) = IF final[first].status \in {"cancelled", "skipped"} THEN Interrupted
                           ELSE final[first].code
    BY <1>3, Zenon DEF Aggregate
  <2> HIDE DEF first
  <2>3. first \in Members /\ final[first].status # "passed"
    BY <1>1, <2>1
  <2>4. /\ final[first].status \in {"none", "passed", "failed", "cancelled", "skipped"}
        /\ final[first].code \in ExitCodes \cup {NoCode}
    BY <2>3 DEF Results
  <2> QED
    BY <2>2, <2>3, <2>4 DEF ExitCodes, Interrupted, Success
<1> QED
  BY <1>2, <1>3

LEMMA CompletedType ==
  ASSUME PoolTypeOK
  PROVE  /\ Completed \in [Members -> Results]
         /\ \A m \in Members :
              /\ results[m].status # "none" => Completed[m] = results[m]
              /\ Completed[m] # results[m] =>
                   Completed[m].status = IF aborted THEN "cancelled" ELSE "skipped"
<1>1. results \in [Members -> Results]
  BY DEF PoolTypeOK, Results
<1> QED
  BY <1>1, ResultTypes DEF Completed, Skipped, Result, NoResult

\* Whatever a member's result is, the pool goes on knowing what it knows, and once a
\* required member did not pass it starts no other.
LEMMA SettleKnows ==
  ASSUME PoolTypeOK, PoolKnows, NEW m \in Members, NEW result \in Results, Settle(m, result),
         result.status \in {"passed", "failed", "cancelled"},
         result.status = "failed" => result.code # Success
  PROVE  /\ PoolKnows'
         /\ pool.failFast =>
              \A i \in pool.required :
                results'[i].status \in {"failed", "cancelled"} => running' \subseteq running
<1> DEFINE stop  == stopScheduling \/ Fatal(m, result)
           abort == aborted \/ (Fatal(m, result) /\ pool.cancelRunning)
           takes == IF ~stop /\ MembersLeft THEN {nextIndex} ELSE {}
<1>1. /\ m \in running /\ stopScheduling' = stop /\ aborted' = abort
      /\ running' = (running \ {m}) \cup (IF abort THEN {} ELSE takes)
      /\ results' = [i \in Members |-> IF i = m THEN result
                                       ELSE IF abort /\ i \in takes THEN Skipped("cancelled")
                                       ELSE results[i]]
      /\ pool' = pool /\ poolExit' = poolExit
  BY Zenon DEF Settle
<1>2. pool.required \subseteq Members
  BY PoolAssumption DEF PoolTypeOK, PoolRecords
<1>3. poolExit = NoCode
  BY <1>1 DEF PoolKnows
<1>4. \A i \in Members :
        /\ results'[i].status = "failed" => results'[i].code # Success
        /\ results'[i].status = "none" => results'[i] = NoResult
  BY <1>1 DEF PoolKnows, Skipped, Result
<1>5. ASSUME pool.failFast, NEW i \in pool.required,
             results'[i].status \in {"failed", "cancelled"}
      PROVE  stop \/ abort
  <2>1. CASE i = m
    BY <1>1, <1>2, <1>5, <2>1 DEF Fatal
  <2>2. CASE i # m /\ results'[i] = results[i]
    BY <1>2, <1>5, <2>2 DEF PoolKnows
  <2>3. CASE i # m /\ results'[i] # results[i]
    BY <1>1, <1>2, <2>3
  <2> QED
    BY <2>1, <2>2, <2>3
<1>6. stop \/ abort => running' \subseteq running
  BY <1>1
<1> QED
  <2> HIDE DEF stop, abort, takes
  <2>1. PoolKnows'
    <3>1. \A i \in pool'.required :
            pool'.failFast /\ results'[i].status \in {"failed", "cancelled"}
              => stopScheduling' \/ aborted'
      BY <1>1, <1>5
    <3> QED
      BY <1>1, <1>3, <1>4, <3>1 DEF PoolKnows, NoCode, Success
  <2> QED
    BY <2>1, <1>5, <1>6

LEMMA ClosesKnows ==
  ASSUME PoolTypeOK, PoolKnows, PoolCloses
  PROVE  PoolTypeOK' /\ PoolKnows'
<1> DEFINE final == Completed
<1>1. final \in [Members -> Results]
  BY CompletedType
<1>2. \A m \in Members :
        /\ final[m].status = "failed" => final[m].code # Success
        /\ final[m].status # "none"
        /\ final[m].status = "cancelled" => results[m].status = "cancelled" \/ aborted
        /\ final[m].status = "failed" => results[m].status = "failed"
  <2> SUFFICES ASSUME NEW m \in Members
               PROVE  /\ final[m].status = "failed" => final[m].code # Success
                      /\ final[m].status # "none"
                      /\ final[m].status = "cancelled" => results[m].status = "cancelled" \/ aborted
                      /\ final[m].status = "failed" => results[m].status = "failed"
    OBVIOUS
  <2>1. CASE final[m] = results[m]
    <3>1. results[m] # NoResult
      BY <2>1, CompletedType DEF Completed, Skipped, Result, NoResult
    <3> QED
      BY <2>1, <3>1 DEF PoolKnows
  <2>2. CASE final[m] # results[m]
    BY <2>2, CompletedType
  <2> QED
    BY <2>1, <2>2
<1> HIDE DEF final
<1>3. /\ Aggregate(final) \in ExitCodes \cup {NoCode}
      /\ Aggregate(final) = Success => \A m \in pool.required : final[m].status = "passed"
  BY <1>1, <1>2, AggregateType
<1>4. /\ results' = final /\ poolExit' = Aggregate(final) /\ running = {}
      /\ UNCHANGED <<pool, signalled, aborted, stopScheduling, nextIndex, running>>
  BY DEF PoolCloses, final
<1>5. PoolTypeOK'
  BY <1>1, <1>3, <1>4 DEF PoolTypeOK, Results
<1>6. pool.required \subseteq Members
  BY PoolAssumption DEF PoolTypeOK, PoolRecords
<1>7. PoolKnows'
  BY <1>2, <1>3, <1>4, <1>6 DEF PoolKnows
<1> QED
  BY <1>5, <1>7

\* Every way a member's run can end.
LEMMA ReturnsKnows ==
  ASSUME PoolTypeOK, PoolKnows, NEW r \in Runs, NEW c \in ExitCodes \cup {NoCode}, Returns(r, c)
  PROVE  PoolTypeOK' /\ PoolKnows'
<1>1. CASE r \in Members /\ MemberReturns(r, c)
  <2>1. Outcome(c) \in Results
    BY ResultTypes
  <2>2. /\ Outcome(c).status \in {"passed", "failed", "cancelled"}
        /\ Outcome(c).status = "failed" => Outcome(c).code # Success
    BY DEF Outcome, Result
  <2> QED
    BY <1>1, <2>1, <2>2, SettleType, SettleKnows DEF MemberReturns
<1>2. CASE r \in Members /\ MemberThrows(r)
  <2> DEFINE result == IF aborted THEN Skipped("cancelled") ELSE Result("failed", Failure)
  <2>1. result \in Results
    BY ResultTypes
  <2>2. /\ result.status \in {"passed", "failed", "cancelled"}
        /\ result.status = "failed" => result.code # Success
    BY DEF Skipped, Result, Failure, Success
  <2>3. Settle(r, result)
    BY <1>2 DEF MemberThrows
  <2> QED
    BY <1>2, <2>1, <2>2, <2>3, SettleType, SettleKnows
<1>3. CASE UNCHANGED poolVars
  BY <1>3 DEF poolVars, PoolTypeOK, PoolKnows
<1> QED
  BY <1>1, <1>2, <1>3 DEF Returns

-----------------------------------------------------------------------------
(* Types *)

LEMMA EmulatorTypes ==
  /\ NoEmulator \in Emulators
  /\ \A e \in Emulators, b \in BOOLEAN : [e EXCEPT !.online = b] \in Emulators
  /\ \A a \in Avds, r \in Runs : [avd |-> a, by |-> r, online |-> FALSE] \in Emulators
  /\ [avd : Avds, by : {Nobody}, online : {TRUE}] \subseteq Emulators
  BY DEF NoEmulator, Emulators

LEMMA StopsWhat ==
  ASSUME TypeOK, NEW r \in Runs, NEW b \in BOOLEAN, StopsOwned(r, b)
  PROVE  /\ emulator' \in [Ports -> Emulators] /\ connected' = connected
         /\ proc' \in [Runs -> {"none", "starting", "up", "exited"}]
         /\ proc'[r] \notin {"starting", "up"}
         /\ \A q \in Runs : proc'[q] = proc[q] \/ proc'[q] = "exited"
<1>1. /\ emulator \in [Ports -> Emulators]
      /\ proc \in [Runs -> {"none", "starting", "up", "exited"}]
  BY DEF TypeOK
<1>2. CASE proc[r] \in {"starting", "up"}
  <2>1. PICK byConsole \in {FALSE, b} :
          LET down == TakenDown(r, byConsole)
          IN /\ emulator' = [p \in Ports |-> IF p \in down THEN NoEmulator ELSE emulator[p]]
             /\ proc' = [q \in Runs |->
                           IF q = r \/ (\E p \in down : emulator[p].by = q) THEN "exited"
                           ELSE proc[q]]
             /\ UNCHANGED connected
    BY <1>2 DEF StopsOwned
  <2> QED
    BY <1>1, <2>1, EmulatorTypes
<1>3. CASE proc[r] \notin {"starting", "up"}
  BY <1>1, <1>3 DEF StopsOwned, world
<1> QED
  BY <1>2, <1>3

LEMMA AvdFreedWhat ==
  ASSUME TypeOK, NEW r \in Runs
  PROVE  /\ AvdFreed(r) \in [Leases -> Runs \cup {Nobody}]
         /\ \A x \in Leases :
              /\ AvdFreed(r)[x] = r => holder[x] = r /\ x[2] # "avd"
              /\ x[2] # "avd" => AvdFreed(r)[x] = holder[x]
              /\ \A q \in Runs \ {r} : AvdFreed(r)[x] = q <=> holder[x] = q
  BY RunsAssumption DEF TypeOK, AvdFreed

\* The names of AVDs and those of targets differ.
LEMMA LeaseKinds ==
  ASSUME TypeOK, NEW r \in Runs
  PROVE  /\ Wants[r] \in Avds => AvdLease(r) \in Leases
         /\ AvdLease(r)[2] = "avd"
         /\ selected[r] \in Targets => NamedLease(r) \in Leases
         /\ NamedLease(r)[2] # "avd"
<1>1. identity[r] \in Identities /\ "avd" \notin Identities
  BY DEF TypeOK, Identities
<1> QED
  BY <1>1 DEF AvdLease, NamedLease, Leases

\* A target that ADB reaches is a target.
LEMMA OnlineIsTarget ==
  ASSUME TypeOK, NEW t, Online(t)
  PROVE  t \in Targets
  BY DEF TypeOK, Online, Targets

LEMMA PoolStutters ==
  ASSUME UNCHANGED poolVars
  PROVE  (PoolTypeOK => PoolTypeOK') /\ (PoolKnows => PoolKnows')
  BY DEF poolVars, PoolTypeOK, PoolKnows

LEMMA TypeInit == Init => TypeOK
<1> SUFFICES ASSUME Init
             PROVE  TypeOK
  OBVIOUS
<1>1. PoolTypeOK
  BY PoolAssumption, ResultTypes
     DEF Init, PoolInit, PoolTypeOK, PoolRecords, Members, Results
<1>2. emulator \in [Ports -> Emulators]
  BY EmulatorTypes DEF Init
<1> QED
  BY <1>1, <1>2 DEF Init, TypeOK, Pcs, Identities

LEMMA TypeStep ==
  ASSUME TypeOK, PoolKnows, Preparing, [Next]_vars
  PROVE  TypeOK'
<1> USE DEF Goes, At, FailsWith, world
<1>1. ASSUME NEW r \in Runs, Start(r) PROVE TypeOK'
  BY <1>1, PoolStutters DEF Start, TypeOK, Pcs, ExitCodes
<1>2. ASSUME NEW r \in Runs, LeaseAvd(r) PROVE TypeOK'
  BY <1>2, PoolStutters, RunsAssumption DEF LeaseAvd, Granted, Refused, TypeOK, Pcs, ExitCodes
<1>3. ASSUME NEW r \in Runs, Look(r) PROVE TypeOK'
  <2>1. serial' \in [Runs -> Ports \cup {Nobody}] /\ seen' \in [Runs -> SUBSET Ports]
    <3>1. serial' = serial \/ \E p \in Ports : serial' = [serial EXCEPT ![r] = p]
      BY <1>3, Zenon DEF Look
    <3>2. \/ seen' = seen
          \/ seen' = [seen EXCEPT ![r] = {p \in Ports : emulator[p] # NoEmulator}]
      BY <1>3, Zenon DEF Look
    <3> QED
      BY <3>1, <3>2 DEF TypeOK
  <2>2. pc' \in [Runs -> Pcs] /\ code' \in [Runs -> ExitCodes \cup {NoCode}]
    BY <1>3 DEF Look, TypeOK, Pcs, ExitCodes
  <2> QED
    BY <1>3, <2>1, <2>2, PoolStutters DEF Look, TypeOK
<1>4. ASSUME NEW r \in Runs, Spawn(r) PROVE TypeOK'
  <2> DEFINE free == {p \in Ports : p \notin seen[r] /\ emulator[p] = NoEmulator}
             port == CHOOSE p \in free : \A q \in free : p <= q
  <2>1. (serial' = [serial EXCEPT ![r] = port] /\ free # {}) \/ serial' = serial
    BY <1>4 DEF Spawn
  <2>2. free # {} => port \in Ports
    <3>1. free \in SUBSET Nat
      BY RunsAssumption
    <3> QED
      BY <3>1, Least
  <2>3. serial' \in [Runs -> Ports \cup {Nobody}]
    BY <2>1, <2>2 DEF TypeOK
  <2> QED
    BY <1>4, <2>3, PoolStutters DEF Spawn, TypeOK, Pcs, ExitCodes
<1>5. ASSUME NEW r \in Runs, Boot(r) PROVE TypeOK'
  BY <1>5, PoolStutters DEF Boot, NotReady, TypeOK, Pcs, ExitCodes
<1>6. ASSUME NEW r \in Runs, Cleanup(r) PROVE TypeOK'
  BY <1>6, PoolStutters, StopsWhat DEF Cleanup, TypeOK, Pcs
<1>7. ASSUME NEW r \in Runs, Select(r) PROVE TypeOK'
  <2>1. identity' \in [Runs -> Identities]
    BY <1>7 DEF Select, Names, Returns, TypeOK, Identities
  <2> QED
    BY <1>7, <2>1, PoolStutters, OnlineIsTarget, ReturnsKnows, RunsAssumption
       DEF Select, Returns, TypeOK, Pcs, ExitCodes, Targets
<1>8. ASSUME NEW r \in Runs, LeaseTarget(r) PROVE TypeOK'
  BY <1>8, PoolStutters DEF LeaseTarget, Granted, Refused, TypeOK, Pcs, ExitCodes
<1>9. ASSUME NEW r \in Runs, Deploy(r) PROVE TypeOK'
  BY <1>9, PoolStutters DEF Deploy, TypeOK, Pcs, ExitCodes
<1>10. ASSUME NEW r \in Runs, Verify(r) PROVE TypeOK'
  BY <1>10, PoolStutters, OnlineIsTarget DEF Verify, TypeOK, Pcs, ExitCodes
<1>11. ASSUME NEW r \in Runs, Release(r) PROVE TypeOK'
  BY <1>11, PoolStutters, StopsWhat DEF Release, TypeOK, Pcs
<1>12. ASSUME NEW r \in Runs, Unlock(r) PROVE TypeOK'
  BY <1>12, PoolStutters, AvdFreedWhat DEF Unlock, TypeOK, Pcs
<1>13. ASSUME NEW r \in Runs, Report(r) PROVE TypeOK'
  BY <1>13, ReturnsKnows DEF Report, Returns, TypeOK, Pcs, ExitCodes, Identities
<1>14. ASSUME NEW r \in Runs, FailRelease(r) PROVE TypeOK'
  BY <1>14, PoolStutters, StopsWhat DEF FailRelease, TypeOK, Pcs
<1>15. ASSUME NEW r \in Runs, FailReport(r) PROVE TypeOK'
  <2>1. PICK c \in {code[r], Failure} : Returns(r, c)
    BY <1>15 DEF FailReport
  <2>2. c \in ExitCodes \cup {NoCode}
    BY DEF TypeOK, ExitCodes
  <2>3. PoolTypeOK'
    BY <2>1, <2>2, ReturnsKnows DEF TypeOK
  <2>4. holder' \in [Leases -> Runs \cup {Nobody}]
    BY <1>15, AvdFreedWhat DEF FailReport
  <2> QED
    BY <1>15, <2>1, <2>2, <2>3, <2>4 DEF FailReport, Returns, TypeOK, Pcs, Identities
<1>16. ASSUME NEW r \in Runs, Binds(r) PROVE TypeOK'
  <2>1. Wants[r] \in Avds /\ serial[r] \in Ports
    BY <1>16 DEF Binds, Preparing
  <2> QED
    BY <1>16, <2>1, PoolStutters, EmulatorTypes DEF Binds, TypeOK
<1>17. ASSUME NEW r \in Runs, Crashes(r) PROVE TypeOK'
  BY <1>17, PoolStutters, EmulatorTypes DEF Crashes, TypeOK
<1>18. ASSUME NEW p \in Ports, Boots(p) \/ Drops(p) PROVE TypeOK'
  <2>1. PICK b \in BOOLEAN : emulator' = [emulator EXCEPT ![p].online = b]
    BY <1>18 DEF Boots, Drops
  <2>2. emulator' \in [Ports -> Emulators]
    BY <2>1, EmulatorTypes DEF TypeOK
  <2> QED
    BY <1>18, <2>2, PoolStutters DEF Boots, Drops, TypeOK
<1>19. CASE Interrupt
  BY <1>19, PoolStutters DEF Interrupt, Signal, TypeOK, PoolTypeOK
<1>20. CASE Closes
  BY <1>20, ClosesKnows DEF Closes, runVars, TypeOK
<1>21. CASE UNCHANGED vars
  BY <1>21, PoolStutters DEF vars, runVars, TypeOK
<1> QED
  BY <1>1, <1>2, <1>3, <1>4, <1>5, <1>6, <1>7, <1>8, <1>9, <1>10, <1>11, <1>12, <1>13, <1>14,
     <1>15, <1>16, <1>17, <1>18, <1>19, <1>20, <1>21 DEF Next, Step

-----------------------------------------------------------------------------
(* Success is verified *)

\* A result that a step of the pool writes is passed only if it is this one.
LEMMA SettlePasses ==
  ASSUME TypeOK, NEW m \in Members, NEW result, Settle(m, result)
  PROVE  \A i \in Members :
           results'[i].status = "passed" =>
             results[i].status = "passed" \/ (i = m /\ result.status = "passed")
  BY DEF Settle, Skipped, Result

LEMMA ReturnsVerified ==
  ASSUME TypeOK, Verified, NEW r \in Runs, NEW c \in ExitCodes \cup {NoCode}, Returns(r, c),
         c = Success => verifiedOn[r] # Nobody, verifiedOn' = verifiedOn
  PROVE  Verified'
<1>1. \A q \in Runs : code'[q] = Success => verifiedOn[q] # Nobody
  BY DEF Returns, TypeOK, Verified
<1>2. \A m \in Members : results'[m].status = "passed" => verifiedOn[m] # Nobody
  <2>1. CASE r \in Members /\ MemberReturns(r, c)
    <3>1. Outcome(c).status = "passed" => c = Success
      BY DEF Outcome, Result
    <3> QED
      BY <2>1, <3>1, SettlePasses DEF MemberReturns, Verified
  <2>2. CASE r \in Members /\ MemberThrows(r)
    BY <2>2, SettlePasses DEF MemberThrows, Skipped, Result, Verified
  <2>3. CASE UNCHANGED poolVars
    BY <2>3 DEF poolVars, Verified
  <2> QED
    BY <2>1, <2>2, <2>3 DEF Returns
<1> QED
  BY <1>1, <1>2 DEF Verified

LEMMA VerifiedStep ==
  ASSUME TypeOK, PoolKnows, Verified, [Next]_vars
  PROVE  PoolKnows' /\ Verified'
<1> USE DEF FailsWith
<1>1. ASSUME UNCHANGED poolVars, UNCHANGED verifiedOn,
             \A r \in Runs : code'[r] = code[r] \/ code'[r] # Success
      PROVE  PoolKnows' /\ Verified'
  BY <1>1, PoolStutters DEF poolVars, Verified
<1>2. ASSUME NEW r \in Runs,
             \/ Start(r) \/ LeaseAvd(r) \/ Look(r) \/ Spawn(r) \/ Boot(r)
             \/ LeaseTarget(r) \/ Deploy(r)
      PROVE  PoolKnows' /\ Verified'
  <2>1. UNCHANGED poolVars /\ UNCHANGED verifiedOn
    BY <1>2 DEF Start, LeaseAvd, Look, Spawn, Boot, LeaseTarget, Deploy
  <2>2. UNCHANGED code \/ \E c \in {Failure, Interrupted} : code' = [code EXCEPT ![r] = c]
    BY <1>2, Zenon DEF Start, LeaseAvd, Refused, Look, Spawn, Boot, NotReady, LeaseTarget, Deploy
  <2> QED
    BY <1>1, <2>1, <2>2 DEF TypeOK, Failure, Interrupted, Success
<1>3. ASSUME NEW r \in Runs, Cleanup(r) \/ Release(r) \/ Unlock(r) \/ FailRelease(r)
                             \/ Binds(r) \/ Crashes(r)
      PROVE  PoolKnows' /\ Verified'
  BY <1>1, <1>3 DEF Cleanup, Release, Unlock, FailRelease, Binds, Crashes
<1>4. ASSUME NEW r \in Runs, Select(r)
      PROVE  PoolKnows' /\ Verified'
  <2>1. CASE Returns(r, NotConnected)
    <3>1. NotConnected \in ExitCodes /\ NotConnected # Success
      BY DEF ExitCodes, NotConnected, Success
    <3> QED
      BY <1>4, <2>1, <3>1, ReturnsKnows, ReturnsVerified DEF Select, TypeOK
  <2>2. CASE UNCHANGED <<poolVars, code>>
    BY <1>1, <1>4, <2>2 DEF Select
  <2> QED
    BY <1>4, <2>1, <2>2 DEF Select
<1>5. ASSUME NEW r \in Runs, Verify(r)
      PROVE  PoolKnows' /\ Verified'
  <2>1. CASE Online(Goal(r)) /\ verifiedOn' = [verifiedOn EXCEPT ![r] = Goal(r)]
    <3>1. Goal(r) # Nobody
      BY <2>1, OnlineIsTarget, RunsAssumption DEF Resources
    <3> QED
      BY <1>5, <2>1, <3>1, PoolStutters DEF Verify, TypeOK, Verified, poolVars, Runs
  <2>2. CASE UNCHANGED verifiedOn /\ \E c \in {Interrupted, Failure} : code' = [code EXCEPT ![r] = c]
    BY <1>1, <1>5, <2>2 DEF Verify, TypeOK, Failure, Interrupted, Success
  <2> QED
    BY <1>5, <2>1, <2>2 DEF Verify
<1>6. ASSUME NEW r \in Runs, Report(r) \/ FailReport(r)
      PROVE  PoolKnows' /\ Verified'
  <2>1. PICK c \in {code[r], Failure} : Returns(r, c)
    BY <1>6 DEF Report, FailReport
  <2>2. c \in ExitCodes \cup {NoCode}
    BY DEF TypeOK, ExitCodes
  <2>3. c = Success => verifiedOn[r] # Nobody
    BY DEF Verified, Failure, Success
  <2> QED
    BY <1>6, <2>1, <2>2, <2>3, ReturnsKnows, ReturnsVerified DEF Report, FailReport, TypeOK
<1>7. ASSUME NEW p \in Ports, Boots(p) \/ Drops(p)
      PROVE  PoolKnows' /\ Verified'
  BY <1>1, <1>7 DEF Boots, Drops
<1>8. CASE Interrupt
  BY <1>1, <1>8 DEF Interrupt, Signal, PoolKnows, Verified
<1>9. CASE Closes
  <2>1. PoolKnows'
    BY <1>9, ClosesKnows DEF Closes, TypeOK
  <2>2. \A m \in Members : results'[m].status = "passed" => results[m].status = "passed"
    BY <1>9, CompletedType DEF Closes, PoolCloses, TypeOK
  <2> QED
    BY <1>9, <2>1, <2>2 DEF Closes, runVars, Verified
<1>10. CASE UNCHANGED vars
  BY <1>1, <1>10 DEF vars, runVars
<1> QED
  BY <1>2, <1>3, <1>4, <1>5, <1>6, <1>7, <1>8, <1>9, <1>10 DEF Next, Step

-----------------------------------------------------------------------------
(* Emulators and leases have an owner *)

\* The steps that leave a run where it stands.
Beside ==
  \/ \E r \in Runs : Binds(r) \/ Crashes(r)
  \/ \E p \in Ports : Boots(p) \/ Drops(p)
  \/ Interrupt \/ Closes \/ UNCHANGED vars

LEMMA BesideWhat ==
  ASSUME TypeOK, Beside
  PROVE  /\ UNCHANGED <<pc, holder, serial, selected, identity, code>>
         /\ \A r \in Runs : \/ proc'[r] = proc[r] \/ proc'[r] = "exited"
                            \/ proc[r] = "starting" /\ proc'[r] = "up"
<1>1. ASSUME NEW r \in Runs, Binds(r) \/ Crashes(r)
      PROVE  /\ UNCHANGED <<pc, holder, serial, selected, identity, code>>
             /\ \A q \in Runs : \/ proc'[q] = proc[q] \/ proc'[q] = "exited"
                                \/ proc[q] = "starting" /\ proc'[q] = "up"
  BY <1>1 DEF Binds, Crashes, TypeOK
<1>2. ASSUME NEW p \in Ports, Boots(p) \/ Drops(p)
      PROVE  UNCHANGED <<pc, holder, serial, selected, identity, code, proc>>
  BY <1>2 DEF Boots, Drops
<1>3. CASE Interrupt
  BY <1>3 DEF Interrupt, world
<1>4. CASE Closes \/ UNCHANGED vars
  BY <1>4 DEF Closes, vars, runVars, world
<1> QED
  BY <1>1, <1>2, <1>3, <1>4 DEF Beside

LEMMA NextIs ==
  ASSUME [Next]_vars
  PROVE  Beside \/ \E r \in Runs : Start(r) \/ Step(r)
  BY DEF Next, Beside

LEMMA PreparingStep ==
  ASSUME TypeOK, Preparing, ProcessesAreOwned, [Next]_vars
  PROVE  Preparing'
<1> USE DEF Goes, At, FailsWith, world
<1>1. CASE Beside
  BY <1>1, BesideWhat DEF Preparing
<1>2. ASSUME NEW r \in Runs, Start(r) \/ LeaseAvd(r) PROVE Preparing'
  BY <1>2 DEF Start, LeaseAvd, Refused, TypeOK, Preparing
<1>3. ASSUME NEW r \in Runs, Look(r) PROVE Preparing'
  <2>1. proc[r] # "starting"
    BY <1>3 DEF Look, ProcessesAreOwned, Owning, GaveUp
  <2>2. /\ proc' = proc
        /\ \E there \in Pcs : pc' = [pc EXCEPT ![r] = there]
        /\ \A q \in Runs \ {r} : serial'[q] = serial[q]
    BY <1>3 DEF Look, TypeOK, Pcs
  <2> QED
    BY <1>3, <2>1, <2>2 DEF Look, TypeOK, Preparing
<1>4. ASSUME NEW r \in Runs, Spawn(r) PROVE Preparing'
  <2>1. proc[r] # "starting" /\ Wants[r] \in Avds
    BY <1>4 DEF Spawn, ProcessesAreOwned, Owning, GaveUp, Preparing
  <2> DEFINE free == {p \in Ports : p \notin seen[r] /\ emulator[p] = NoEmulator}
             port == CHOOSE p \in free : \A q \in free : p <= q
  <2>2. free # {} => port \in Ports
    <3>1. free \in SUBSET Nat
      BY RunsAssumption
    <3> QED
      BY <3>1, Least
  <2>3. \/ serial' = [serial EXCEPT ![r] = port] /\ free # {}
           /\ proc' = [proc EXCEPT ![r] = "starting"] /\ pc' = [pc EXCEPT ![r] = "boot"]
        \/ serial' = serial /\ proc' = proc /\ pc' = [pc EXCEPT ![r] = "failRelease"]
    BY <1>4 DEF Spawn
  <2> HIDE DEF port, free
  <2> QED
    BY <2>1, <2>2, <2>3 DEF TypeOK, Preparing
<1>5. ASSUME NEW r \in Runs, Boot(r) \/ LeaseTarget(r) \/ Deploy(r) \/ Verify(r) \/ Unlock(r)
      PROVE  Preparing'
  BY <1>5 DEF Boot, NotReady, LeaseTarget, Refused, Deploy, Verify, Unlock, TypeOK, Preparing
<1>6. ASSUME NEW r \in Runs, Cleanup(r) \/ Release(r) \/ FailRelease(r)
      PROVE  Preparing'
  <2>1. \A q \in Runs : proc'[q] = proc[q] \/ proc'[q] = "exited"
    BY <1>6, StopsWhat DEF Cleanup, Release, FailRelease
  <2> QED
    BY <1>6, <2>1 DEF Cleanup, Release, FailRelease, TypeOK, Preparing
<1>7. ASSUME NEW r \in Runs, Select(r) PROVE Preparing'
  BY <1>7 DEF Select, Returns, TypeOK, Preparing
<1>8. ASSUME NEW r \in Runs, Report(r) \/ FailReport(r) PROVE Preparing'
  BY <1>8 DEF Report, FailReport, Returns, TypeOK, Preparing
<1> QED
  BY <1>1, <1>2, <1>3, <1>4, <1>5, <1>6, <1>7, <1>8, NextIs DEF Step

\* An emulator process belongs to a run that is in a position to stop it.
LEMMA ProcessesStep ==
  ASSUME TypeOK, ProcessesAreOwned, [Next]_vars
  PROVE  ProcessesAreOwned'
<1> USE DEF Goes, At, FailsWith, world, Owning, GaveUp
<1>1. CASE Beside
  BY <1>1, BesideWhat DEF ProcessesAreOwned
<1>2. ASSUME NEW r \in Runs, Start(r) \/ LeaseAvd(r) \/ Look(r) PROVE ProcessesAreOwned'
  BY <1>2 DEF Start, LeaseAvd, Look, Refused, TypeOK, ProcessesAreOwned
<1>3. ASSUME NEW r \in Runs, Spawn(r) \/ Boot(r) PROVE ProcessesAreOwned'
  BY <1>3 DEF Spawn, Boot, NotReady, TypeOK, ProcessesAreOwned
<1>4. ASSUME NEW r \in Runs, Cleanup(r) \/ Release(r) \/ FailRelease(r) PROVE ProcessesAreOwned'
  <2>1. /\ proc'[r] \notin {"starting", "up"}
        /\ \A q \in Runs : proc'[q] = proc[q] \/ proc'[q] = "exited"
    BY <1>4, StopsWhat DEF Cleanup, Release, FailRelease
  <2> QED
    BY <1>4, <2>1 DEF Cleanup, Release, FailRelease, TypeOK, ProcessesAreOwned
<1>5. ASSUME NEW r \in Runs, Select(r) PROVE ProcessesAreOwned'
  BY <1>5 DEF Select, Returns, TypeOK, ProcessesAreOwned
<1>6. ASSUME NEW r \in Runs, LeaseTarget(r) \/ Deploy(r) \/ Verify(r) \/ Unlock(r)
      PROVE  ProcessesAreOwned'
  BY <1>6 DEF LeaseTarget, Refused, Deploy, Verify, Unlock, TypeOK, ProcessesAreOwned
<1>7. ASSUME NEW r \in Runs, Report(r) \/ FailReport(r) PROVE ProcessesAreOwned'
  BY <1>7 DEF Report, FailReport, Returns, TypeOK, ProcessesAreOwned
<1> QED
  BY <1>1, <1>2, <1>3, <1>4, <1>5, <1>6, <1>7, NextIs DEF Step

\* What is stopped is what the run started, or what is at a port that its own emulator
\* has yet to take.
LEMMA StopsWhich ==
  ASSUME TypeOK, UpIsOwn, NEW r \in Runs, pc[r] # "done", NEW b \in BOOLEAN, StopsOwned(r, b)
  PROVE  /\ \A p \in Ports :
              \/ emulator'[p] = emulator[p]
              \/ emulator'[p] = NoEmulator /\ emulator[p].by = r
              \/ emulator'[p] = NoEmulator /\ serial[r] = p /\ proc[r] = "starting"
         /\ \A p \in Ports, q \in Runs :
              emulator'[p] # emulator[p] /\ emulator[p].by = q => proc'[q] = "exited"
         /\ \A q \in Runs : proc'[q] = proc[q] \/ proc'[q] = "exited"
<1>1. /\ emulator \in [Ports -> Emulators]
      /\ proc \in [Runs -> {"none", "starting", "up", "exited"}]
  BY DEF TypeOK
<1>2. CASE proc[r] \in {"starting", "up"}
  <2>1. PICK byConsole \in {FALSE, b} :
          LET down == TakenDown(r, byConsole)
          IN /\ emulator' = [p \in Ports |-> IF p \in down THEN NoEmulator ELSE emulator[p]]
             /\ proc' = [q \in Runs |->
                           IF q = r \/ (\E p \in down : emulator[p].by = q) THEN "exited"
                           ELSE proc[q]]
             /\ UNCHANGED connected
    BY <1>2 DEF StopsOwned
  <2>2. \A p \in TakenDown(r, byConsole) :
          p \in Ports /\ (emulator[p].by = r \/ p = serial[r])
    BY DEF TakenDown
  <2>3. \A p \in Ports : emulator'[p] = emulator[p] \/ emulator'[p] = NoEmulator
    BY <2>1
  <2>4. \A p \in Ports : emulator'[p] # emulator[p] => p \in TakenDown(r, byConsole)
    BY <2>1
  <2>5. \A p \in Ports : p = serial[r] /\ proc[r] = "up" => emulator[p].by = r
    BY DEF UpIsOwn
  <2>6. \A p \in Ports, q \in Runs :
          emulator'[p] # emulator[p] /\ emulator[p].by = q => proc'[q] = "exited"
    BY <2>1, <2>4
  <2>7. \A q \in Runs : proc'[q] = proc[q] \/ proc'[q] = "exited"
    BY <1>1, <2>1
  <2> QED
    BY <1>2, <2>2, <2>3, <2>4, <2>5, <2>6, <2>7
<1>3. CASE proc[r] \notin {"starting", "up"}
  BY <1>1, <1>3 DEF StopsOwned, world
<1> QED
  BY <1>2, <1>3

LEMMA UpStep ==
  ASSUME TypeOK, Preparing, ProcessesAreOwned, UpIsOwn, [Next]_vars
  PROVE  UpIsOwn'
<1> USE DEF Goes, At, FailsWith, world
<1>1. ASSUME NEW r \in Runs, Binds(r) PROVE UpIsOwn'
  <2>1. serial[r] \in Ports /\ proc[r] = "starting" /\ UNCHANGED <<pc, serial>>
    BY <1>1 DEF Binds, Preparing
  <2>2. CASE emulator[serial[r]] = NoEmulator
    <3>1. /\ emulator' = [emulator EXCEPT ![serial[r]] = [avd |-> Wants[r], by |-> r, online |-> FALSE]]
          /\ proc' = [proc EXCEPT ![r] = "up"]
      BY <1>1, <2>2 DEF Binds
    <3>2. ASSUME NEW q \in Runs, proc'[q] = "up", pc'[q] # "done"
          PROVE  serial'[q] \in Ports /\ emulator'[serial'[q]].by = q
      <4>1. CASE q = r
        BY <2>1, <3>1, <4>1 DEF TypeOK
      <4>2. CASE q # r
        <5>1. proc[q] = "up" /\ pc[q] # "done"
          BY <2>1, <3>1, <3>2, <4>2 DEF TypeOK
        <5>2. serial[q] \in Ports /\ emulator[serial[q]].by = q
          BY <5>1 DEF UpIsOwn
        <5>3. serial[q] # serial[r]
          BY <2>2, <5>2, RunsAssumption DEF NoEmulator
        <5> QED
          BY <2>1, <3>1, <5>2, <5>3 DEF TypeOK
      <4> QED
        BY <4>1, <4>2
    <3> QED
      BY <3>2 DEF UpIsOwn
  <2>3. CASE emulator[serial[r]] # NoEmulator
    BY <1>1, <2>1, <2>3 DEF Binds, TypeOK, UpIsOwn
  <2> QED
    BY <2>2, <2>3
<1>2. ASSUME NEW r \in Runs, Crashes(r) PROVE UpIsOwn'
  BY <1>2, RunsAssumption DEF Crashes, TypeOK, UpIsOwn
<1>3. ASSUME NEW p \in Ports, Boots(p) \/ Drops(p) PROVE UpIsOwn'
  <2>1. PICK b \in BOOLEAN : emulator' = [emulator EXCEPT ![p].online = b]
    BY <1>3 DEF Boots, Drops
  <2>2. \A q \in Ports : emulator'[q].by = emulator[q].by
    BY <2>1 DEF TypeOK, Emulators
  <2> QED
    BY <1>3, <2>2 DEF Boots, Drops, UpIsOwn
<1>4. CASE Interrupt \/ Closes \/ UNCHANGED vars
  BY <1>4 DEF Interrupt, Closes, vars, runVars, UpIsOwn
<1>5. ASSUME NEW r \in Runs, Start(r) \/ LeaseAvd(r) \/ Look(r) \/ Spawn(r) PROVE UpIsOwn'
  <2>1. proc[r] # "up" \/ pc[r] = "done"
    BY <1>5 DEF Start, LeaseAvd, Look, Spawn, ProcessesAreOwned, Owning, GaveUp
  <2>2. /\ UNCHANGED emulator /\ pc[r] # "done" /\ proc'[r] # "up"
        /\ \A q \in Runs \ {r} : pc'[q] = pc[q] /\ serial'[q] = serial[q] /\ proc'[q] = proc[q]
    BY <1>5, <2>1 DEF Start, LeaseAvd, Refused, Look, Spawn, TypeOK
  <2> QED
    BY <2>1, <2>2 DEF UpIsOwn
<1>6. ASSUME NEW r \in Runs, Boot(r) \/ LeaseTarget(r) \/ Deploy(r) \/ Verify(r) \/ Unlock(r)
      PROVE  UpIsOwn'
  <2>1. /\ UNCHANGED <<emulator, serial, proc>> /\ pc[r] # "done"
        /\ \A q \in Runs \ {r} : pc'[q] = pc[q]
    BY <1>6 DEF Boot, NotReady, LeaseTarget, Refused, Deploy, Verify, Unlock, TypeOK
  <2> QED
    BY <2>1 DEF UpIsOwn
<1>7. ASSUME NEW r \in Runs, Cleanup(r) \/ Release(r) \/ FailRelease(r) PROVE UpIsOwn'
  <2>1. PICK b \in BOOLEAN : StopsOwned(r, b)
    BY <1>7 DEF Cleanup, Release, FailRelease
  <2>2. pc[r] # "done" /\ UNCHANGED serial /\ \A q \in Runs \ {r} : pc'[q] = pc[q]
    BY <1>7 DEF Cleanup, Release, FailRelease, TypeOK
  <2>3. /\ \A p \in Ports, q \in Runs :
             emulator'[p] # emulator[p] /\ emulator[p].by = q => proc'[q] = "exited"
        /\ \A q \in Runs : proc'[q] = proc[q] \/ proc'[q] = "exited"
    BY <2>1, <2>2, StopsWhich
  <2> QED
    BY <2>2, <2>3 DEF UpIsOwn
<1>8. ASSUME NEW r \in Runs, Select(r) \/ Report(r) \/ FailReport(r) PROVE UpIsOwn'
  <2>1. /\ UNCHANGED <<emulator, proc>> /\ pc[r] # "done"
        /\ pc'[r] = "done" \/ UNCHANGED serial
        /\ \A q \in Runs \ {r} : pc'[q] = pc[q] /\ serial'[q] = serial[q]
    BY <1>8 DEF Select, Report, FailReport, Returns, TypeOK
  <2> QED
    BY <2>1 DEF UpIsOwn
<1> QED
  BY <1>1, <1>2, <1>3, <1>4, <1>5, <1>6, <1>7, <1>8 DEF Next, Step

\* What a step of one run leaves alone: the place, the choice and the leases of the
\* others.
OthersKeep(r) ==
  \A q \in Runs \ {r} :
    /\ pc'[q] = pc[q] /\ serial'[q] = serial[q] /\ selected'[q] = selected[q]
    /\ code'[q] = code[q] /\ identity'[q] = identity[q]
    /\ \A x \in Leases : holder'[x] = q <=> holder[x] = q

LEMMA OthersOwned ==
  ASSUME TypeOK, LeasesAreOwned, WorkIsOwned, NEW r \in Runs, OthersKeep(r)
  PROVE  \A q \in Runs \ {r} : LeasesOwned(q)' /\ WorkOwned(q)'
<1> SUFFICES ASSUME NEW q \in Runs \ {r}
             PROVE  LeasesOwned(q)' /\ WorkOwned(q)'
  OBVIOUS
<1>1. LeasesOwned(q) /\ WorkOwned(q)
  BY DEF LeasesAreOwned, WorkIsOwned
<1>2. /\ Wants[q] \in Avds => AvdLease(q) \in Leases
      /\ selected[q] # Nobody => NamedLease(q) \in Leases
  BY LeaseKinds DEF TypeOK
<1>3. LeasesOwned(q)'
  BY <1>1 DEF OthersKeep, LeasesOwned, GaveUp, NamedLease
<1>4. WorkOwned(q)'
  BY <1>1, <1>2 DEF OthersKeep, WorkOwned, Asked, AvdLease, NamedLease
<1> QED
  BY <1>3, <1>4

LEMMA GrantedWhat ==
  ASSUME TypeOK, NEW r \in Runs, NEW y \in Leases, Granted(r, y)
  PROVE  /\ holder'[y] = r
         /\ \A x \in Leases : x # y => holder'[x] = holder[x]
         /\ \A q \in Runs \ {r}, x \in Leases : holder'[x] = q <=> holder[x] = q
  BY RunsAssumption DEF TypeOK, Granted

\* Each step of a run leaves the others their leases, and its own are those that its
\* place requires.
LEMMA OwnedStep ==
  ASSUME TypeOK, Preparing, LeasesAreOwned, WorkIsOwned, NEW r \in Runs, Start(r) \/ Step(r)
  PROVE  OthersKeep(r) /\ LeasesOwned(r)' /\ WorkOwned(r)'
<1>0. LeasesOwned(r) /\ WorkOwned(r)
  BY DEF LeasesAreOwned, WorkIsOwned
<1>a. /\ Wants[r] \in Avds => AvdLease(r) \in Leases
      /\ selected[r] \in Targets => NamedLease(r) \in Leases
      /\ AvdLease(r)[2] = "avd" /\ NamedLease(r)[2] # "avd" /\ AvdLease(r)' = AvdLease(r)
  BY LeaseKinds DEF AvdLease
<1>b. UNCHANGED <<selected, identity>> => NamedLease(r)' = NamedLease(r)
  BY DEF NamedLease
<1> USE DEF Goes, At, FailsWith, OthersKeep, LeasesOwned, WorkOwned, GaveUp, Leasing, Targeting,
            Before
<1>1. CASE Start(r)
  BY <1>0, <1>a, <1>b, <1>1 DEF Start, TypeOK
<1>2. CASE LeaseAvd(r)
  <2>1. Wants[r] \in Avds /\ AvdLease(r) \in Leases /\ pc[r] = "leaseAvd"
    BY <1>2, <1>a DEF LeaseAvd, Preparing
  <2>2. CASE Granted(r, AvdLease(r))
    BY <1>0, <1>a, <1>b, <1>2, <2>1, <2>2, GrantedWhat DEF LeaseAvd, Refused, TypeOK
  <2>3. CASE Refused(r, AvdLease(r))
    BY <1>0, <1>a, <1>b, <1>2, <2>1, <2>3 DEF LeaseAvd, Refused, TypeOK
  <2> QED
    BY <1>2, <2>2, <2>3 DEF LeaseAvd
<1>3. CASE Look(r) \/ Spawn(r) \/ Boot(r) \/ Cleanup(r)
  <2>1. /\ UNCHANGED <<holder, selected, identity>>
        /\ \A q \in Runs \ {r} : serial'[q] = serial[q] /\ code'[q] = code[q]
    BY <1>3 DEF Look, Spawn, Boot, NotReady, Cleanup, TypeOK
  <2>2. pc[r] \in {"look", "spawn", "boot", "cleanup"}
    BY <1>3 DEF Look, Spawn, Boot, Cleanup
  <2>3. PICK there \in {"spawn", "boot", "cleanup", "select", "failRelease"} :
          pc' = [pc EXCEPT ![r] = there]
    BY <1>3, Zenon DEF Look, Spawn, Boot, NotReady, Cleanup
  <2> QED
    BY <1>0, <1>a, <1>b, <2>1, <2>2, <2>3 DEF TypeOK
<1>4. CASE Select(r)
  <2>1. /\ pc[r] = "select" /\ UNCHANGED holder
        /\ \A q \in Runs \ {r} : identity'[q] = identity[q] /\ code'[q] = code[q]
        /\ \A q \in Runs \ {r} : selected'[q] = selected[q] /\ serial'[q] = serial[q]
    BY <1>4 DEF Select, Names, Returns, TypeOK
  <2>2. \A x \in Leases : holder[x] = r => x[2] = "avd"
    BY <1>0, <2>1
  <2>3. \/ pc' = [pc EXCEPT ![r] = "leaseTarget"] /\ serial' = serial
           /\ \E t \in {Asked(r)} \cup Wireless : t \in Targets /\ selected' = [selected EXCEPT ![r] = t]
        \/ pc' = [pc EXCEPT ![r] = "deploy"] /\ UNCHANGED <<serial, selected, identity>>
        \/ /\ pc' = [pc EXCEPT ![r] = "done"] /\ code' = [code EXCEPT ![r] = NotConnected]
           /\ selected' = [selected EXCEPT ![r] = Nobody]
    BY <1>4, OnlineIsTarget, RunsAssumption DEF Select, Returns, Targets
  <2> QED
    BY <1>0, <1>a, <1>b, <2>1, <2>2, <2>3 DEF TypeOK, Asked
<1>5. CASE LeaseTarget(r)
  <2>1. CASE Granted(r, NamedLease(r))
    <3>1. NamedLease(r) \in Leases /\ pc[r] = "leaseTarget"
      BY <1>0, <1>a, <1>5 DEF LeaseTarget
    <3> QED
      BY <1>0, <1>a, <1>b, <1>5, <2>1, <3>1, GrantedWhat DEF LeaseTarget, Refused, TypeOK, Asked
  <2>2. CASE Refused(r, NamedLease(r))
    BY <1>0, <1>a, <1>b, <1>5, <2>2 DEF LeaseTarget, Refused, TypeOK
  <2> QED
    BY <1>5, <2>1, <2>2 DEF LeaseTarget
<1>6. CASE Deploy(r) \/ Verify(r) \/ Release(r)
  BY <1>0, <1>a, <1>b, <1>6 DEF Deploy, Verify, Release, TypeOK, Asked
<1>7. CASE Unlock(r)
  BY <1>0, <1>a, <1>b, <1>7, AvdFreedWhat, RunsAssumption DEF Unlock, TypeOK, Asked
<1>8. CASE Report(r)
  BY <1>0, <1>8, RunsAssumption DEF Report, Returns, TypeOK
<1>9. CASE FailRelease(r)
  BY <1>0, <1>a, <1>b, <1>9 DEF FailRelease, TypeOK
<1>10. CASE FailReport(r)
  BY <1>0, <1>10, AvdFreedWhat DEF FailReport, Returns, TypeOK
<1> QED
  BY <1>1, <1>2, <1>3, <1>4, <1>5, <1>6, <1>7, <1>8, <1>9, <1>10 DEF Step

LEMMA OwnedKept ==
  ASSUME TypeOK, Preparing, LeasesAreOwned, WorkIsOwned, [Next]_vars
  PROVE  LeasesAreOwned' /\ WorkIsOwned'
<1>1. CASE Beside
  BY <1>1, BesideWhat
     DEF LeasesAreOwned, WorkIsOwned, LeasesOwned, WorkOwned, GaveUp, Asked, AvdLease,
         NamedLease
<1>2. ASSUME NEW r \in Runs, Start(r) \/ Step(r)
      PROVE  LeasesAreOwned' /\ WorkIsOwned'
  BY <1>2, OwnedStep, OthersOwned DEF LeasesAreOwned, WorkIsOwned
<1> QED
  BY <1>1, <1>2, NextIs

-----------------------------------------------------------------------------
(* The theorems *)

LEMMA InvInit == Init => IInv
<1> SUFFICES ASSUME Init
             PROVE  IInv
  OBVIOUS
<1>1. TypeOK
  BY TypeInit
<1>2. PoolKnows /\ Verified
  <2>1. /\ pool.required \subseteq Members /\ poolExit = NoCode
        /\ results = [m \in Members |-> NoResult] /\ code = [r \in Runs |-> NoCode]
    BY <1>1, PoolAssumption DEF Init, PoolInit, TypeOK, PoolTypeOK, PoolRecords
  <2> QED
    BY <2>1 DEF PoolKnows, Verified, NoResult, NoCode, Success
<1>3. Preparing /\ ProcessesAreOwned /\ UpIsOwn
  BY DEF Init, Preparing, ProcessesAreOwned, UpIsOwn
<1>4. LeasesAreOwned /\ WorkIsOwned
  BY RunsAssumption DEF Init, LeasesAreOwned, WorkIsOwned, LeasesOwned, WorkOwned, Leasing,
                        Targeting
<1> QED
  BY <1>1, <1>2, <1>3, <1>4 DEF IInv

\* The strengthening of the pool's and the runs' invariants is inductive.
THEOREM CommandInvariant == Spec => []IInv
<1>1. IInv /\ [Next]_vars => IInv'
  BY TypeStep, VerifiedStep, PreparingStep, ProcessesStep, UpStep, OwnedKept DEF IInv
<1> QED
  BY InvInit, <1>1, PTL DEF Spec

\* Every step of the pool, of its members and of the runs beside it keeps the types.
THEOREM CommandTypeCorrect == Spec => []TypeOK
<1>1. IInv => TypeOK
  BY DEF IInv
<1> QED
  BY CommandInvariant, <1>1, PTL

\* A pool that reports success has had every required member verified on a target, for
\* any number of members, workers and policies, whatever fails or is cancelled
\* (runTargetPool and runCliInternal).
THEOREM PoolSuccessIsVerified == Spec => []SuccessIsVerified
<1>1. IInv => SuccessIsVerified
  <2>1. TypeOK => pool.required \subseteq Members
    BY PoolAssumption DEF TypeOK, PoolTypeOK, PoolRecords
  <2> QED
    BY <2>1 DEF IInv, PoolKnows, Verified, SuccessIsVerified
<1> QED
  BY CommandInvariant, <1>1, PTL

\* Whoever else runs, a run verifies the target it chose under the lease of the name it
\* read and that of its AVD, and shares the target only with one that read the other
\* name (runCliInternal).
THEOREM WorkIsUnderLease == Spec => []LeasedWork
<1>1. IInv => LeasedWork
  <2> SUFFICES ASSUME IInv, NEW r \in Runs, Working(r)
               PROVE  /\ holder[NamedLease(r)] = r
                      /\ Wants[r] \in Avds => holder[AvdLease(r)] = r
                      /\ selected[r] \in {Asked(r)} \cup Wireless
                      /\ \A q \in Runs \ {r} : Working(q) /\ selected[q] = selected[r] =>
                           {identity[q], identity[r]} = Identities
    BY DEF LeasedWork
  <2>1. \A q \in Runs : Working(q) => holder[NamedLease(q)] = q
    BY DEF IInv, WorkIsOwned, WorkOwned, Working, Targeting
  <2>2. /\ Wants[r] \in Avds => holder[AvdLease(r)] = r
        /\ selected[r] \in {Asked(r)} \cup Wireless
    BY DEF IInv, WorkIsOwned, WorkOwned, Working, Targeting, Leasing
  <2>3. ASSUME NEW q \in Runs \ {r}, Working(q), selected[q] = selected[r]
        PROVE  {identity[q], identity[r]} = Identities
    <3>1. identity[q] # identity[r]
      BY <2>1, <2>3 DEF NamedLease
    <3>2. identity[q] \in Identities /\ identity[r] \in Identities
      BY DEF IInv, TypeOK
    <3> QED
      BY <3>1, <3>2 DEF Identities
  <2> QED
    BY <2>1, <2>2, <2>3
<1> QED
  BY CommandInvariant, <1>1, PTL

\* Whatever path a run takes to its end, but for the one that returns after a failed
\* connection, its emulator process is gone and it holds no lease (runCliInternal,
\* prepareExistingAvd).
THEOREM RunsLeaveNothing == Spec => []NothingSurvives
<1>1. IInv => NothingSurvives
  <2> SUFFICES ASSUME IInv, NEW r \in Runs, pc[r] = "done", code[r] # NotConnected
               PROVE  /\ proc[r] \in {"none", "exited"}
                      /\ \A x \in Leases : holder[x] # r
    BY DEF NothingSurvives
  <2>1. proc[r] \in {"none", "exited"}
    BY DEF IInv, TypeOK, ProcessesAreOwned, Owning, GaveUp
  <2>2. \A x \in Leases : holder[x] # r
    BY DEF IInv, LeasesAreOwned, LeasesOwned, Leasing, Targeting, GaveUp
  <2> QED
    BY <2>1, <2>2
<1> QED
  BY CommandInvariant, <1>1, PTL

\* An emulator goes down by itself, by its own run, or by a run whose emulator has yet
\* to take the same port (cleanupOwnedEmulator).
THEOREM EmulatorsAreStoppedByTheirOwn == Spec => StopsOnlyOwn
<1> DEFINE Kept == \A p \in Ports : GoesDown(p) => UNCHANGED pc \/ OfItsOwner(p) \/ Mistaken(p)
<1>1. ASSUME IInv, [Next]_vars PROVE [Kept]_vars
  <2>1. CASE UNCHANGED emulator \/ UNCHANGED pc
    BY <2>1 DEF GoesDown
  <2>2. ASSUME NEW r \in Runs, Cleanup(r) \/ Release(r) \/ FailRelease(r) PROVE Kept
    <3>1. PICK b \in BOOLEAN : StopsOwned(r, b)
      BY <2>2 DEF Cleanup, Release, FailRelease
    <3>2. pc[r] # "done" /\ pc'[r] # pc[r]
      BY <1>1, <2>2 DEF Cleanup, Release, FailRelease, Goes, At, IInv, TypeOK
    <3>3. \A p \in Ports :
            \/ emulator'[p] = emulator[p]
            \/ emulator'[p] = NoEmulator /\ emulator[p].by = r
            \/ emulator'[p] = NoEmulator /\ serial[r] = p /\ proc[r] = "starting"
      BY <1>1, <3>1, <3>2, StopsWhich DEF IInv
    <3> QED
      BY <3>2, <3>3 DEF GoesDown, OfItsOwner, Mistaken
  <2>3. ASSUME NEW r \in Runs,
               \/ Start(r) \/ LeaseAvd(r) \/ Look(r) \/ Spawn(r) \/ Boot(r)
               \/ Select(r) \/ LeaseTarget(r) \/ Deploy(r) \/ Verify(r) \/ Unlock(r)
               \/ Report(r) \/ FailReport(r)
        PROVE  UNCHANGED emulator
    BY <2>3, Zenon DEF Start, LeaseAvd, Look, Spawn, Boot, Select, LeaseTarget, Deploy, Verify,
                       Unlock, Report, FailReport, world
  <2>4. CASE Beside
    BY <1>1, <2>1, <2>4, BesideWhat DEF IInv
  <2> QED
    BY <1>1, <2>1, <2>2, <2>3, <2>4, NextIs DEF Step
<1> QED
  BY CommandInvariant, <1>1, PTL DEF Spec, StopsOnlyOwn

\* Once a required member did not pass, a fail-fast pool starts no other, for any number
\* of workers (the loop of `worker`).
THEOREM FailFastStopsStarts == Spec => NothingStartsAfterFailure
<1> DEFINE Bad == pool.failFast
                    /\ \E m \in pool.required : results'[m].status \in {"failed", "cancelled"}
<1>1. ASSUME IInv, [Next]_vars
      PROVE  [Bad => running' \subseteq running]_poolVars
  <2>1. PoolTypeOK /\ PoolKnows
    BY <1>1 DEF IInv, TypeOK
  <2>2. ASSUME NEW r \in Members, NEW result \in Results, Settle(r, result),
               result.status \in {"passed", "failed", "cancelled"},
               result.status = "failed" => result.code # Success
        PROVE  Bad => running' \subseteq running
    BY <2>1, <2>2, SettleKnows
  <2>3. ASSUME NEW r \in Runs, NEW c \in ExitCodes \cup {NoCode}, Returns(r, c)
        PROVE  [Bad => running' \subseteq running]_poolVars
    <3>1. CASE r \in Members /\ MemberReturns(r, c)
      <4>1. /\ Outcome(c) \in Results
            /\ Outcome(c).status \in {"passed", "failed", "cancelled"}
            /\ Outcome(c).status = "failed" => Outcome(c).code # Success
        BY ResultTypes DEF Outcome, Result
      <4> QED
        BY <2>2, <3>1, <4>1 DEF MemberReturns
    <3>2. CASE r \in Members /\ MemberThrows(r)
      <4> DEFINE result == IF aborted THEN Skipped("cancelled") ELSE Result("failed", Failure)
      <4>1. /\ result \in Results
            /\ result.status \in {"passed", "failed", "cancelled"}
            /\ result.status = "failed" => result.code # Success
        BY ResultTypes DEF Skipped, Result, Failure, Success
      <4>2. Settle(r, result)
        BY <3>2 DEF MemberThrows
      <4> HIDE DEF result
      <4> QED
        BY <2>2, <3>2, <4>1, <4>2
    <3>3. CASE UNCHANGED poolVars
      BY <3>3
    <3> QED
      BY <2>3, <3>1, <3>2, <3>3 DEF Returns
  <2>4. ASSUME NEW r \in Runs, Select(r) \/ Report(r) \/ FailReport(r)
        PROVE  [Bad => running' \subseteq running]_poolVars
    <3>1. UNCHANGED poolVars \/ \E c \in {NotConnected, code[r], Failure} : Returns(r, c)
      BY <2>4, Zenon DEF Select, Report, FailReport
    <3>2. {NotConnected, code[r], Failure} \subseteq ExitCodes \cup {NoCode}
      BY <1>1 DEF IInv, TypeOK, ExitCodes
    <3> QED
      BY <2>3, <3>1, <3>2
  <2>5. CASE UNCHANGED running
    BY <2>5
  <2>6. ASSUME NEW r \in Runs,
               \/ Start(r) \/ LeaseAvd(r) \/ Look(r) \/ Spawn(r) \/ Boot(r) \/ Cleanup(r)
               \/ LeaseTarget(r) \/ Deploy(r) \/ Verify(r) \/ Release(r) \/ Unlock(r)
               \/ FailRelease(r)
        PROVE  UNCHANGED poolVars
    BY <2>6, Zenon DEF Start, LeaseAvd, Look, Spawn, Boot, Cleanup, LeaseTarget, Deploy, Verify,
                       Release, Unlock, FailRelease
  <2>7. CASE Beside
    BY <2>5, <2>7 DEF Beside, Binds, Crashes, Boots, Drops, Interrupt, Signal, Closes, PoolCloses,
                      vars, poolVars
  <2> QED
    BY <1>1, <2>4, <2>6, <2>7, NextIs DEF Step
<1> QED
  BY CommandInvariant, <1>1, PTL DEF Spec, NothingStartsAfterFailure
=============================================================================
