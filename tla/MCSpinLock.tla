----------------------------- MODULE MCSpinLock -----------------------------
(* SpinLock with four processors, for each discipline.                     *)
EXTENDS SpinLock

CONSTANTS p1, p2, p3, p4

MCCPUs == {p1, p2, p3, p4}
Unmixed == {"spin", "try"}

=============================================================================
