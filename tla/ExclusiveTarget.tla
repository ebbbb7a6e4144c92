-------------------------- MODULE ExclusiveTarget --------------------------
(***************************************************************************)
(* What the target lease promises its callers (acquireTargetLease and      *)
(* TargetLease.release of src/state/target-lease.ts): at most one process  *)
(* holds the target, and it changes hands only through a release.          *)
(***************************************************************************)
CONSTANTS Proc, Free

VARIABLE holder

Init == holder = Free

Grant(p) == holder = Free /\ holder' = p

GiveBack(p) == holder = p /\ holder' = Free

Next == \E p \in Proc : Grant(p) \/ GiveBack(p)

Spec == Init /\ [][Next]_holder
=============================================================================
