--------------------------- MODULE SleepSchedule ----------------------------
(***************************************************************************)
(* schedule() as a process calls it that goes to sleep (wait_for_finish,   *)
(* __down), beside the schedule every return from an interrupt may make.   *)
(* The sleeping call runs with interrupts enabled, so it has steps; the    *)
(* other has interrupts disabled and is one step.  Which ready process is  *)
(* first, and whether the running one has run longer, is left open here:   *)
(* Scheduler models that order.                                            *)
(***************************************************************************)
EXTENDS Naturals

CONSTANTS Procs,   \* the processes
          Idle     \* init_task_union.task, which is never queued

VARIABLES now,     \* now_task[0]
          ready,   \* the processes linked in task_schedule.task_queue
          state,   \* state of every process
          pc,      \* where every process is; "home" is outside the modelled code
          tsk,     \* tsk of a sleeping schedule: the process it took from the queue
          window,  \* the known window that was hit, or "none"
          fault    \* what the kernel did on a list or pointer that is not there

scheduleVars == <<now, ready, state, pc, tsk, window, fault>>

Running == "TASK_RUNNING"
Sleeping == "TASK_UNINTERRUPTIBLE"

ScheduleInit ==
    /\ now \in Procs
    /\ ready = Procs \ {now}
    /\ state = [p \in Procs |-> Running]
    /\ pc = [p \in Procs |-> "home"]
    /\ tsk = [p \in Procs |-> Idle]
    /\ window = "none"
    /\ fault = "none"

\* The kernel goes on: nothing is claimed of it behind a fault or a window.
GoesOn == fault = "none" /\ window = "none"

\* p executes its code at l; an interrupt may come instead of any such step.
At(p, l) == GoesOn /\ now = p /\ pc[p] = l
Goto(p, l) == pc' = [pc EXCEPT ![p] = l]

\* The window w is hit if the condition holds.
Hit(w, condition) == window' = IF condition THEN w ELSE "none"

\* get_next_task: the processes it may return.
Candidates == IF ready = {} THEN {Idle} ELSE ready

\* insert_task_queue(p) into the queue q.  Linking an entry that is linked
\* already destroys the list: the model stops there.
Insert(q, p) ==
    IF p \in q THEN ready' = q /\ fault' = "a process queued twice"
               ELSE ready' = q \cup ({p} \ {Idle}) /\ UNCHANGED fault

-----------------------------------------------------------------------------
(* schedule() in a process that goes to sleep.                             *)

\* Up to get_next_task.
ScheduleTake(p, here, there) ==
    /\ At(p, here)
    /\ \E t \in Candidates :
          /\ tsk' = [tsk EXCEPT ![p] = t]
          /\ ready' = ready \ {t}
    /\ Goto(p, there)
    /\ UNCHANGED <<now, state, window, fault>>

\* The comparison and switch_to.  A process that was woken meanwhile is ready
\* again: it is queued and gives way, or it puts the candidate back.
ScheduleSwitch(p, here, there) ==
    /\ At(p, here)
    /\ \/ /\ state[p] # Running
          /\ now' = tsk[p]
          /\ UNCHANGED <<ready, fault>>
       \/ /\ state[p] = Running
          /\ now' = tsk[p]
          /\ Insert(ready, p)
       \/ /\ state[p] = Running
          /\ now' = p
          /\ Insert(ready, tsk[p])
    /\ tsk' = [tsk EXCEPT ![p] = Idle]
    /\ Goto(p, there)
    /\ UNCHANGED <<state, window>>

-----------------------------------------------------------------------------
(* schedule() on the return from an interrupt.                             *)

\* A process that is not ready, or that gives way, is switched away.  The
\* window: it holds a candidate that is in no queue, or it is inside a change of
\* a list (pc in unsafe): about to wait, and nobody knows of it yet, or unlinking.
Preempt(unsafe) ==
    /\ GoesOn
    /\ \E t \in Candidates :
          /\ now' = t
          /\ IF now # Idle /\ state[now] = Running
             THEN Insert(ready \ {t}, now)
             ELSE ready' = ready \ {t} /\ UNCHANGED fault
    /\ Hit("switched away inside schedule or a list",
           now # Idle /\ (tsk[now] # Idle \/ pc[now] \in unsafe))
    /\ UNCHANGED <<state, pc, tsk>>

-----------------------------------------------------------------------------

\* Some process still knows that p is to run, or p runs: what is left when no
\* queue holds it.
InSchedule(p) ==
    \/ now = p
    \/ p \in ready
    \/ \E q \in Procs \ {p} : tsk[q] = p

=============================================================================
