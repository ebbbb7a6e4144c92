----------------------------- MODULE TargetPool -----------------------------
(***************************************************************************)
(* The scheduler of a target pool (runTargetPool,                          *)
(* src/automation/target-pool.ts): a bounded number of workers take the    *)
(* members in their declared order, run them, and stop early when a        *)
(* required member fails under fail-fast; the results are aggregated into  *)
(* one exit code.  What a member does while it runs is left to the module  *)
(* that extends this one.  A worker is either running a member or gone, so *)
(* workers need no identity of their own.                                  *)
(***************************************************************************)
EXTENDS Integers

CONSTANTS
  N,          \* how many members the pool declares
  Pools       \* the pools considered: a set of PoolRecords

\* ExitCode, with one Failure for the codes nothing here tells apart (2 to 70).
\* NotConnected is the code of the one return that gives nothing back.
Success == 0
Failure == 70
NotConnected == 30
Interrupted == 130
ExitCodes == {Success, Failure, NotConnected, Interrupted}

Members == 1 .. N
NoCode == -1

\* cancelRunning: cancelRunningOnFailFast, off for Firebase pools.
PoolRecords == [required : SUBSET Members, maxConcurrency : Nat \ {0},
                failFast : BOOLEAN, cancelRunning : BOOLEAN]

ASSUME PoolAssumption ==
  /\ N \in Nat
  /\ Pools \subseteq PoolRecords

VARIABLES
  pool,            \* the pool's configuration
  signalled,       \* the caller's signal is aborted
  aborted,         \* the pool's own controller is aborted
  stopScheduling,
  nextIndex,
  running,         \* the members a worker is running
  results,
  poolExit         \* the aggregate exit code, NoCode before

poolVars == <<pool, signalled, aborted, stopScheduling, nextIndex, running, results, poolExit>>

NoResult == [status |-> "none", code |-> NoCode]
Result(status, code) == [status |-> status, code |-> code]
Skipped(status) == Result(status, Interrupted)

PoolTypeOK ==
  /\ pool \in Pools
  /\ signalled \in BOOLEAN /\ aborted \in BOOLEAN /\ stopScheduling \in BOOLEAN
  /\ nextIndex \in 1 .. (N + 1)
  /\ running \in SUBSET Members
  /\ results \in [Members -> [status : {"none", "passed", "failed", "cancelled", "skipped"},
                              code : ExitCodes \cup {NoCode}]]
  /\ poolExit \in ExitCodes \cup {NoCode}

\* The workers start in one turn, each with a member, unless the caller's signal
\* is aborted already.
PoolInit ==
  \E p \in Pools, s \in BOOLEAN :
    LET started == IF s THEN {} ELSE {m \in Members : m <= p.maxConcurrency}
    IN /\ pool = p /\ signalled = s /\ aborted = s /\ stopScheduling = s
       /\ nextIndex = IF s THEN 1
                      ELSE IF p.maxConcurrency < N THEN p.maxConcurrency + 1 ELSE N + 1
       /\ running = started
       /\ results = [m \in Members |-> NoResult]
       /\ poolExit = NoCode

\* The caller's signal is forwarded to the controller until the workers are done.
Signal ==
  /\ ~signalled /\ poolExit = NoCode
  /\ signalled' = TRUE /\ aborted' = TRUE
  /\ UNCHANGED <<pool, stopScheduling, nextIndex, running, results, poolExit>>

\* Mutant: fail-fast stops nothing.
NeverFatal(m, result) == FALSE

MembersLeft == nextIndex \in Members

Fatal(m, result) == pool.failFast /\ m \in pool.required /\ result.status # "passed"

\* Member m is over with this result, and its worker goes round its loop: it takes
\* the next member, or records it as cancelled and ends, or ends.
Settle(m, result) ==
  LET stop  == stopScheduling \/ Fatal(m, result)
      abort == aborted \/ (Fatal(m, result) /\ pool.cancelRunning)
      takes == IF ~stop /\ MembersLeft THEN {nextIndex} ELSE {}
  IN /\ m \in running
     /\ stopScheduling' = stop /\ aborted' = abort
     /\ nextIndex' = IF takes = {} THEN nextIndex ELSE nextIndex + 1
     /\ running' = (running \ {m}) \cup (IF abort THEN {} ELSE takes)
     /\ results' = [i \in Members |-> IF i = m THEN result
                                      ELSE IF abort /\ i \in takes THEN Skipped("cancelled")
                                      ELSE results[i]]
     /\ UNCHANGED <<pool, signalled, poolExit>>

\* Mutant: a member passed unless its run was cancelled.
PassedUnlessCancelled(code) == Result(IF aborted THEN "cancelled" ELSE "passed", code)

\* The result of a member whose run returned this exit code.
Outcome(code) ==
  Result(IF code = Success THEN "passed" ELSE IF aborted THEN "cancelled" ELSE "failed", code)

MemberReturns(m, code) == Settle(m, Outcome(code))

\* runMember threw: a member without an envelope, or whose adapter failed.
MemberThrows(m) ==
  Settle(m, IF aborted THEN Skipped("cancelled") ELSE Result("failed", Failure))

\* The members nobody ran are cancelled or skipped.
Completed ==
  [m \in Members |-> IF results[m] # NoResult THEN results[m]
                     ELSE Skipped(IF aborted THEN "cancelled" ELSE "skipped")]

\* The aggregate exit code: that of the first required member that did not pass.
Aggregate(final) ==
  LET bad == {m \in pool.required : final[m].status # "passed"}
  IN IF bad = {} THEN Success
     ELSE LET first == CHOOSE m \in bad : \A other \in bad : m <= other
          IN IF final[first].status \in {"cancelled", "skipped"} THEN Interrupted
             ELSE final[first].code

PoolCloses ==
  /\ running = {} /\ poolExit = NoCode
  /\ results' = Completed
  /\ poolExit' = Aggregate(Completed)
  /\ UNCHANGED <<pool, signalled, aborted, stopScheduling, nextIndex, running>>

----------------------------------------------------------------------------

\* Under fail-fast nothing starts once a required member did not pass, not even in
\* the turn in which its worker learns it, and whatever the other workers are doing
\* (the loop of `worker`).
NothingStartsAfterFailure ==
  [][pool.failFast /\ (\E m \in pool.required : results'[m].status \in {"failed", "cancelled"})
       => running' \subseteq running]_poolVars
=============================================================================
