----------------------------- MODULE Semaphore ------------------------------
(***************************************************************************)
(* The semaphores of include/semaphore.h over the atomic counters of       *)
(* include/atomic.h.  The code takes no lock: the test of an operation and *)
(* what follows it are steps of their own, and the operations of several   *)
(* processes overlap between them.  Each counter operation is one step,    *)
(* and so is each list operation: only processes use them, and a process   *)
(* that is switched away inside one hits a window.                         *)
(***************************************************************************)
EXTENDS SleepSchedule, Sequences

CONSTANT Units   \* count of semaphore_init

VARIABLES counter,   \* semaphore->counter
          waiting,   \* semaphore->wait, first first
          waking,    \* the process an __up has unlinked and not yet queued
          holds      \* the processes that have a unit

\* What overlapping operations have done; the code has nothing of it.
VARIABLES overtaken, \* the processes whose test another operation has outdated
          overdrawn, \* a unit was taken that was no more there
          missed     \* a process was put on the list, or left there, beside a free unit

semaphoreVars == <<counter, waiting, waking, holds, overtaken, overdrawn, missed>>

\* semaphore_init; nobody has a unit.
SemaphoreInit ==
    /\ counter = Units
    /\ waiting = <<>>
    /\ waking = [p \in Procs |-> Idle]
    /\ holds = {}
    /\ overtaken = {} /\ overdrawn = FALSE /\ missed = FALSE

\* Between the test of an operation and the last thing it does.
InSemaphore == {"s_dec", "s_state", "s_add", "s_inc", "s_unlink", "s_del", "s_queue"}

\* p has changed the counter, or the list, that the others have read.
Outdates(p, places) ==
    overtaken' = (overtaken \ {p}) \cup {q \in Procs \ {p} : pc[q] \in places}
CounterChanges(p) == Outdates(p, {"s_dec", "s_state", "s_add"})
ListChanges(p) == Outdates(p, {"s_inc", "s_unlink"})

-----------------------------------------------------------------------------

\* Variant: a unit is taken whatever the counter says.
DownAlways(p) ==
    /\ At(p, "home") /\ p \notin holds
    /\ Goto(p, "s_dec")
    /\ UNCHANGED <<now, ready, state, tsk, window, fault, semaphoreVars>>

\* semaphore_down reads the counter.
semaphore_down(p) ==
    /\ At(p, "home") /\ p \notin holds
    /\ Goto(p, IF counter > 0 THEN "s_dec" ELSE "s_state")
    /\ UNCHANGED <<now, ready, state, tsk, window, fault, semaphoreVars>>

atomic_dec(p) ==
    /\ At(p, "s_dec") /\ Goto(p, "home")
    /\ counter' = counter - 1
    /\ holds' = holds \cup {p}
    /\ CounterChanges(p)
    /\ overdrawn' = (overdrawn \/ (p \in overtaken /\ counter <= 0))
    /\ UNCHANGED <<now, ready, state, tsk, window, fault, waiting, waking, missed>>

\* __down: the state first, then the list, then schedule.
DownState(p) ==
    /\ At(p, "s_state") /\ Goto(p, "s_add")
    /\ state' = [state EXCEPT ![p] = Sleeping]
    /\ UNCHANGED <<now, ready, tsk, window, fault, semaphoreVars>>

DownAdd(p) ==
    /\ At(p, "s_add") /\ Goto(p, "s_schedule")
    /\ waiting' = Append(waiting, p)
    /\ ListChanges(p)
    /\ missed' = (missed \/ (p \in overtaken /\ counter > 0))
    /\ UNCHANGED <<now, ready, state, tsk, window, fault, counter, waking, holds,
                   overdrawn>>

\* The process runs again with the unit it was handed.
DownReturns(p) ==
    /\ At(p, "s_back") /\ Goto(p, "home")
    /\ holds' = holds \cup {p}
    /\ UNCHANGED <<now, ready, state, tsk, window, fault, counter, waiting, waking,
                   overtaken, overdrawn, missed>>

-----------------------------------------------------------------------------

\* Variant: the counter grows while a process waits.
UpAlwaysInc(p) ==
    /\ At(p, "home") /\ p \in holds
    /\ Goto(p, "s_inc")
    /\ UNCHANGED <<now, ready, state, tsk, window, fault, semaphoreVars>>

\* semaphore_up reads the list.
semaphore_up(p) ==
    /\ At(p, "home") /\ p \in holds
    /\ Goto(p, IF waiting = <<>> THEN "s_inc" ELSE "s_unlink")
    /\ UNCHANGED <<now, ready, state, tsk, window, fault, semaphoreVars>>

atomic_inc(p) ==
    /\ At(p, "s_inc") /\ Goto(p, "home")
    /\ counter' = counter + 1
    /\ holds' = holds \ {p}
    /\ CounterChanges(p)
    /\ missed' = (missed \/ (p \in overtaken /\ waiting # <<>>))
    /\ UNCHANGED <<now, ready, state, tsk, window, fault, waiting, waking, overdrawn>>

\* __up reads the first entry of the list.  The window: another __up has taken
\* the only one, and the list's head is taken for a process.
UpFirst(p) ==
    /\ At(p, "s_unlink") /\ Goto(p, "s_del")
    /\ IF waiting # <<>>
       THEN waking' = [waking EXCEPT ![p] = Head(waiting)] /\ UNCHANGED fault
       ELSE fault' = "a wake-up of nobody" /\ UNCHANGED waking
    /\ Hit("a wake-up overtaken by another", waiting = <<>> /\ p \in overtaken)
    /\ UNCHANGED <<now, ready, state, tsk, counter, waiting, holds, overtaken,
                   overdrawn, missed>>

\* It unlinks the process, to which the unit passes.
UpUnlink(p) ==
    /\ At(p, "s_del") /\ Goto(p, "s_queue")
    /\ waiting' = Tail(waiting)
    /\ holds' = holds \ {p}
    /\ ListChanges(p)
    /\ UNCHANGED <<now, ready, state, tsk, window, fault, counter, waking, overdrawn,
                   missed>>

UpQueue(p) ==
    /\ At(p, "s_queue") /\ Goto(p, "home")
    /\ state' = [state EXCEPT ![waking[p]] = Running]
    /\ Insert(ready, waking[p])
    /\ waking' = [waking EXCEPT ![p] = Idle]
    /\ UNCHANGED <<now, tsk, window, counter, waiting, holds, overtaken, overdrawn,
                   missed>>

-----------------------------------------------------------------------------

SemaphoreStep(p) ==
    \/ semaphore_down(p) \/ atomic_dec(p) \/ DownState(p) \/ DownAdd(p)
    \/ ScheduleTake(p, "s_schedule", "s_switch") /\ UNCHANGED semaphoreVars
    \/ ScheduleSwitch(p, "s_switch", "s_back") /\ UNCHANGED semaphoreVars
    \/ DownReturns(p)
    \/ semaphore_up(p) \/ atomic_inc(p) \/ UpFirst(p) \/ UpUnlink(p) \/ UpQueue(p)

\* The processes that were handed a unit they do not use yet.
Handed == {p \in Procs : /\ pc[p] \in {"s_schedule", "s_switch", "s_back"}
                         /\ \A i \in 1 .. Len(waiting) : waiting[i] # p}

=============================================================================
