------------------------------- MODULE Mutex -------------------------------
(* What a lock promises: at any time at most one processor owns it.        *)
CONSTANTS CPUs, Nobody

VARIABLE owner

Init == owner = Nobody

Acquire(c) == owner = Nobody /\ owner' = c
Release(c) == owner = c /\ owner' = Nobody

Next == \E c \in CPUs : Acquire(c) \/ Release(c)

Spec == Init /\ [][Next]_owner

=============================================================================
