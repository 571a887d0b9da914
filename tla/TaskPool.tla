------------------------------ MODULE TaskPool ------------------------------
(***************************************************************************)
(* What a scheduler of one processor promises, without a policy: a process *)
(* that becomes ready stays running or ready for ever, and the processor   *)
(* goes to a ready process, or to the idle process when it alone is left.  *)
(***************************************************************************)
CONSTANTS Tasks, Idle

VARIABLES running,   \* the process that has the processor
          ready      \* the processes that wait for it

Init == running = Idle /\ ready = {}

\* A new process becomes ready.
Start(t) ==
    /\ t \notin ready /\ t # running
    /\ ready' = ready \cup {t}
    /\ UNCHANGED running

\* The processor goes to t, and the process that had it becomes ready.
Dispatch(t) ==
    /\ t \in ready
    /\ running' = t
    /\ ready' = (ready \cup {running}) \ {t, Idle}

\* The idle process gets the processor when no other process waits.
DispatchIdle ==
    /\ ready = {}
    /\ running' = Idle
    /\ ready' = {running} \ {Idle}

Next == (\E t \in Tasks : Start(t) \/ Dispatch(t)) \/ DispatchIdle

Spec == Init /\ [][Next]_<<running, ready>>

=============================================================================
