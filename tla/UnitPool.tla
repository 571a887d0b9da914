------------------------------ MODULE UnitPool ------------------------------
(***************************************************************************)
(* What a counting semaphore promises: a unit goes from the pool to a      *)
(* process, from its owner to the pool or to another process, and nowhere  *)
(* else.  A unit that is taken when there is none is told of.  Once        *)
(* broken, the pool promises nothing.                                      *)
(***************************************************************************)
EXTENDS Naturals, FiniteSets

CONSTANTS Procs, Units

VARIABLES owners, overdrawn, broken

Init == owners = {} /\ overdrawn = FALSE /\ broken = FALSE

Take(p) ==
    /\ p \notin owners /\ owners' = owners \cup {p}
    /\ overdrawn' = (overdrawn \/ Cardinality(owners) >= Units)

GiveBack(p) == p \in owners /\ owners' = owners \ {p} /\ UNCHANGED overdrawn

HandOver(p, q) ==
    /\ p \in owners /\ q \notin owners
    /\ owners' = (owners \ {p}) \cup {q}
    /\ UNCHANGED overdrawn

Next ==
    \/ /\ ~broken /\ ~broken'
       /\ \E p \in Procs : \/ Take(p) \/ GiveBack(p)
                           \/ \E q \in Procs : HandOver(p, q)
    \/ broken'

Spec == Init /\ [][Next]_<<owners, overdrawn, broken>>

=============================================================================
