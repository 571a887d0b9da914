----------------------------- MODULE MCSleepers -----------------------------
(* Sleepers on a small instance: three processes that use the semaphore,   *)
(* and each of the three kinds of request.                                 *)
EXTENDS Sleepers, TLC

CONSTANTS p1, p2, p3

MCProcs == {p1, p2, p3}

Transfer(n) == {[cmd |-> "transfer", count |-> n]}
Identify == {[cmd |-> "identify", count |-> 0]}
MCAsks == p1 :> Transfer(2) @@ p2 :> Transfer(1) @@ p3 :> Identify

=============================================================================
