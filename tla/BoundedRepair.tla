---------------------------- MODULE BoundedRepair ----------------------------
(***************************************************************************)
(* What the session watcher promises, without how it observes or waits:    *)
(* something that is up may break; each break is repaired within a fixed   *)
(* number of tries, or given up for good; it may be stopped at any time.   *)
(***************************************************************************)
EXTENDS Integers

CONSTANT Tries    \* repairs tried per break

VARIABLES
  phase,  \* new, up, repairing, gaveUp or stopped
  left    \* tries left for this break

vars == <<phase, left>>

Init == phase = "new" /\ left = 0

Become(from, to, n) == phase \in from /\ phase' = to /\ left' = n

Begin == Become({"new"}, "up", 0)
Break == Tries > 0 /\ Become({"up"}, "repairing", Tries - 1)
Retry == left > 0 /\ Become({"repairing"}, "repairing", left - 1)
Fix == Become({"repairing"}, "up", 0)
GiveUp == Become({"up", "repairing"}, "gaveUp", 0)
Stop == Become({"new", "up", "repairing"}, "stopped", 0)

Next == Begin \/ Break \/ Retry \/ Fix \/ GiveUp \/ Stop

Spec == Init /\ [][Next]_vars
=============================================================================
