--------------------------- MODULE MCTargetLease ---------------------------
(* TLC instances of TargetLease: processes p1, p2 (and p3) of one machine.   *)
EXTENDS TargetLease, TLC

CONSTANTS p1, p2, p3

TwoProcesses == {p1, p2}
ThreeProcesses == {p1, p2, p3}
OneHost == [p \in Proc |-> "workstation"]

\* Processes of one machine are interchangeable in the safety runs.
Symmetry == Permutations(Proc)
=============================================================================
