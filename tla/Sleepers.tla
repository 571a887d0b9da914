------------------------------ MODULE Sleepers ------------------------------
(***************************************************************************)
(* Processes of one processor that transfer sectors and use a semaphore:   *)
(* DiskQueue and Semaphore over one SleepSchedule.  The code closes none   *)
(* of the gaps between its tests, its lists and its schedule, so the       *)
(* properties say what holds as long as none of five windows was hit: two  *)
(* processes in submit at once, a request that ends before its process     *)
(* slept, a command given out by the interrupt between two certain stores  *)
(* of add_request, a process switched away inside schedule or inside a     *)
(* change of the semaphore's list, and an __up whose only waiter another   *)
(* __up has taken.  Otherwise the operations overlap as they come.         *)
(***************************************************************************)
EXTENDS DiskQueue, Semaphore

CONSTANT SemaphoreUsers   \* the processes that use the semaphore

ASSUME SleepersAssumption ==
    /\ Idle \notin Procs /\ ListHead \notin Procs /\ NULL \notin Nodes
    /\ SemaphoreUsers \subseteq Procs
    /\ Units \in Nat

ASSUME AsksAssumption ==
    \A p \in Procs : \A r \in Asks[p] :
        \/ r.cmd = "identify" /\ r.count = 0
        \/ r.cmd = "transfer" /\ r.count \in Nat \ {0}

vars == <<scheduleVars, diskVars, semaphoreVars>>

Init == ScheduleInit /\ DiskInit /\ SemaphoreInit

Tick == Preempt({"s_add", "s_del"}) /\ UNCHANGED <<diskVars, semaphoreVars>>
Interrupt == disk_handler /\ UNCHANGED semaphoreVars
Disk(p) == DiskStep(p) /\ UNCHANGED semaphoreVars
Sema(p) == SemaphoreStep(p) /\ UNCHANGED diskVars

Next ==
    \/ Tick
    \/ Interrupt
    \/ \E p \in Procs : Disk(p)
    \/ \E p \in SemaphoreUsers : Sema(p)

\* The disk ends what it was told to do; it interrupts whatever runs.
Spec == Init /\ [][Next]_vars /\ WF_vars(Interrupt)

-----------------------------------------------------------------------------
(* Properties.                                                             *)

Undisturbed == window = "none"

TypeOK ==
    /\ now \in Procs \cup {Idle}
    /\ ready \subseteq Procs
    /\ state \in [Procs -> {Running, Sleeping}]
    /\ tsk \in [Procs -> Procs \cup {Idle}]
    /\ list_next \in [Nodes -> Nodes] /\ list_prev \in [Nodes -> Nodes]
    /\ in_using \in Procs \cup {NULL}
    /\ holds \subseteq Procs
    /\ overtaken \subseteq Procs
    /\ overdrawn \in BOOLEAN /\ missed \in BOOLEAN

\* A process that waits will be told: its request is listed or at the disk, or
\* it is on the semaphore's list, or somebody has just taken it from there.
Awaited(p) ==
    \/ pc[p] \in {"d_schedule", "d_switch", "d_back"} /\ Unserved(p)
    \/ \E i \in 1 .. Len(waiting) : waiting[i] = p
    \/ \E q \in Procs : waking[q] = p

\* Nothing but the windows harms: otherwise the kernel never links an entry
\* twice or follows a pointer to nothing, and every process runs, is queued or
\* will be woken (end_request, __up and schedule between them lose nobody).
OnlyWindowsHarm ==
    Undisturbed => /\ fault = "none"
                   /\ \A p \in Procs : InSchedule(p) \/ Awaited(p)

\* The list of the driver survives its interrupts between the stores of
\* add_request, but for a cmd_out at two of them (HalfAdded): when no process is
\* inside submit, its links go round in both directions, block_request_count is
\* its length, and the disk works exactly for the request in in_using, and for
\* all of it.
RequestsIntact ==
    /\ TypeOK
    /\ (Undisturbed /\ \A p \in Procs : pc[p] \notin Submitting) =>
          /\ \A n \in Linked : list_prev[list_next[n]] = n
          /\ block_request_count = Cardinality(Linked) - 1
          /\ in_using \notin Linked
          /\ device.node = in_using
          /\ in_using = NULL => block_request_count = 0
          /\ in_using # NULL => device.left = Command(in_using).left

\* A transfer returns only when its own request is ended, all sectors of it:
\* end_request wakes the right process and schedule does not return early.
ReturnsServed ==
    Undisturbed =>
        \A p \in Procs : (pc[p] = "d_back" /\ InSchedule(p)) =>
                            ~Unserved(p) /\ count[p] = 0

\* However the operations overlap, no unit is made or lost between the counter,
\* the owners and the processes that are woken.  The counter falls below 0 only
\* when atomic_dec follows a test that another atomic_dec has outdated, and a
\* process sleeps beside a free unit (a lost wake-up) only when a semaphore_up
\* came between its test and its place on the list, or it came between those of
\* a semaphore_up: no test that still holds is followed by the wrong half.
UnitsKept ==
    Undisturbed =>
        /\ counter + Cardinality(holds \cup Handed) = Units
        /\ ~overdrawn => counter >= 0
        /\ (~missed /\ waiting # <<>>) => counter <= 0

\* The semaphore is a pool of units until a window is hit, and tells of every
\* unit it gives without having it.
Pool == INSTANCE UnitPool WITH owners <- holds \cup Handed, broken <- ~Undisturbed

ImplementsUnitPool == Pool!Spec

\* A process that waits for the disk is made ready again, however many
\* requests stand before its own (end_request starts the next one).
RequestIsServed ==
    \A p \in Procs :
        (pc[p] \in {"d_schedule", "d_switch", "d_back"} /\ state[p] = Sleeping)
            ~> (state[p] = Running \/ ~Undisturbed)

=============================================================================
