----------------------------- MODULE Scheduler -----------------------------
(***************************************************************************)
(* The process scheduler of the booted kernel: the run queue ordered by    *)
(* virtual run time (kernel/schedule.c), the tick that charges the running *)
(* process (driver/PIT.c), the decision taken on every return from an      *)
(* interrupt (kernel/entry.S) and do_fork as task_init calls it            *)
(* (kernel/mtask.c).                                                       *)
(*                                                                         *)
(* In the booted system schedule() is only called by ret_from_intr, with   *)
(* interrupts disabled, so one call is one step.  The insertion do_fork    *)
(* makes with interrupts enabled is one step too; what an interrupt inside *)
(* it would do belongs to the pointer-level model of the queue.            *)
(***************************************************************************)
EXTENDS Integers, Sequences, SequencesExt

CONSTANTS Tasks,        \* the processes kernel_thread creates
          Idle,         \* init_task_union.task, the boot process
          BootJiffies,  \* assumption: the second by which the last do_fork is made
          MaxJiffies,   \* bound: seconds of execution that are explored
          MaxNest,      \* bound: depth of nested preempt_disable
          MaxDelay      \* assumption: jiffies for which non-preemptible sections and
                        \* soft interrupts put off a schedule that is asked for

ASSUME SchedulerAssumption ==
    /\ Idle \notin Tasks
    /\ BootJiffies \in Nat
    /\ MaxJiffies \in Nat
    /\ MaxNest \in Nat
    /\ MaxDelay \in Nat

AllTasks == Tasks \cup {Idle}

VARIABLES now,                    \* now_task[0]
          queue,                  \* task_schedule.task_queue, head first
          running_task_count,
          CPU_exec_task_jiffies,  \* what is left of the time slice
          vrun_time,              \* vrun_time of every process
          need_schedule,          \* NEED_SCHEDULE in the flags of every process
          state,                  \* state of every process
          preempt_count,          \* preempt_count of every process
          mode,                   \* "task": IF=1; "irq": inside an interrupt, IF=0
          jiffies,
          delay                   \* jiffies since the running process was to schedule

vars == <<now, queue, running_task_count, CPU_exec_task_jiffies, vrun_time,
          need_schedule, state, preempt_count, mode, jiffies, delay>>

-----------------------------------------------------------------------------
(* The run queue.                                                          *)

\* The walk of insert_task_queue under the run times v: it passes the entries
\* with a smaller vrun_time; the queue head, whose vrun_time is the largest
\* long, stops it.
InsertPosition(q, v, t) ==
    CHOOSE k \in 1 .. Len(q) + 1 :
        /\ \A i \in 1 .. k - 1 : v[q[i]] < v[t]
        /\ k <= Len(q) => v[q[k]] >= v[t]

\* insert_task_queue returns at once for the idle process.
insert_task_queue(q, v, t) ==
    IF t = Idle THEN q ELSE InsertAt(q, InsertPosition(q, v, t), t)

\* Variant: the idle process is counted.
CountIdleToo(n, t) == n + 1

\* What insert_task_queue does to running_task_count.
CountAfterInsert(n, t) == IF t = Idle THEN n ELSE n + 1

\* Variant: the entry is not unlinked.
QueueNotUnlinked == queue

\* get_next_task: its result, the queue and the count it leaves.
NextTask == IF queue = <<>> THEN Idle ELSE Head(queue)
QueueAfterNext == IF queue = <<>> THEN <<>> ELSE Tail(queue)
CountAfterNext == IF queue = <<>> THEN running_task_count
                                  ELSE running_task_count - 1

\* Variants: an overdrawn slice is replaced too; the slice is not shared out.
RefillOverdrawn(slice, n) == IF slice <= 0 THEN (4 \div n) * 3 ELSE slice
RefillWhole(slice, n) == IF slice = 0 THEN 4 * 3 ELSE slice

\* A slice is handed out only when the last one stands at exactly 0.  Every
\* process has priority 2.
Refill(slice, n) == IF slice = 0 THEN (4 \div n) * 3 ELSE slice

-----------------------------------------------------------------------------
(* The boot process after schedule_init, interrupts enabled.               *)

Init ==
    /\ now = Idle
    /\ queue = <<>>
    /\ running_task_count = 1
    /\ CPU_exec_task_jiffies = 4
    /\ vrun_time = [t \in AllTasks |-> 0]
    /\ need_schedule = [t \in AllTasks |-> FALSE]
    /\ state = [t \in AllTasks |-> "TASK_UNINTERRUPTIBLE"]
    /\ preempt_count = [t \in AllTasks |-> 0]
    /\ mode = "task"
    /\ jiffies = 0
    /\ delay = 0

\* do_fork as task_init uses it: the child is a copy of the boot process.
do_fork(t) ==
    /\ jiffies <= BootJiffies
    /\ mode = "task" /\ now = Idle /\ preempt_count[Idle] = 0
    /\ state[Idle] # "TASK_RUNNING"
    /\ state[t] # "TASK_RUNNING"
    /\ vrun_time' = [vrun_time EXCEPT ![t] = vrun_time[Idle]]
    /\ need_schedule' = [need_schedule EXCEPT ![t] = need_schedule[Idle]]
    /\ preempt_count' = [preempt_count EXCEPT ![t] = 0]
    /\ state' = [state EXCEPT ![t] = "TASK_RUNNING"]
    /\ queue' = insert_task_queue(queue, vrun_time', t)
    /\ running_task_count' = CountAfterInsert(running_task_count, t)
    /\ UNCHANGED <<now, CPU_exec_task_jiffies, mode, jiffies, delay>>

\* The end of task_init.
task_init ==
    /\ mode = "task" /\ now = Idle /\ preempt_count[Idle] = 0
    /\ state[Idle] # "TASK_RUNNING"
    /\ state' = [state EXCEPT ![Idle] = "TASK_RUNNING"]
    /\ UNCHANGED <<now, queue, running_task_count, CPU_exec_task_jiffies,
                   vrun_time, need_schedule, preempt_count, mode, jiffies, delay>>

\* A child runs init, which clears its flags, the request to schedule among them.
\* Assumption: it gets there within the slice it begins with, so that no tick has
\* asked for that schedule; a child has it from the boot process.
init ==
    /\ mode = "task" /\ now \in Tasks /\ preempt_count[now] = 0
    /\ CPU_exec_task_jiffies > 0
    /\ need_schedule' = [need_schedule EXCEPT ![now] = FALSE]
    /\ UNCHANGED <<now, queue, running_task_count, CPU_exec_task_jiffies,
                   vrun_time, state, preempt_count, mode, jiffies, delay>>

-----------------------------------------------------------------------------
(* Non-preemptible sections: every spin_lock starts with preempt_disable   *)
(* and every spin_unlock ends with preempt_enable.  The macros count on    *)
(* now_task[0].                                                            *)

preempt_disable ==
    /\ mode = "task"
    /\ preempt_count[now] < MaxNest
    /\ preempt_count' = [preempt_count EXCEPT ![now] = @ + 1]
    /\ UNCHANGED <<now, queue, running_task_count, CPU_exec_task_jiffies,
                   vrun_time, need_schedule, state, mode, jiffies, delay>>

preempt_enable ==
    /\ mode = "task"
    /\ preempt_count[now] > 0
    /\ preempt_count' = [preempt_count EXCEPT ![now] = @ - 1]
    /\ UNCHANGED <<now, queue, running_task_count, CPU_exec_task_jiffies,
                   vrun_time, need_schedule, state, mode, jiffies, delay>>

-----------------------------------------------------------------------------
(* Interrupts.                                                             *)

\* Every 100th PIT interrupt (PIT_handler); the process pays for the second.
PIT_handler ==
    /\ mode = "task" /\ mode' = "irq"
    /\ jiffies < MaxJiffies
    /\ need_schedule[now] => delay < MaxDelay
    /\ jiffies' = jiffies + 1
    /\ delay' = IF need_schedule[now] THEN delay + 1 ELSE 0
    /\ CPU_exec_task_jiffies' = CPU_exec_task_jiffies - 2
    /\ vrun_time' = [vrun_time EXCEPT ![now] = @ + 2]
    /\ need_schedule' = IF CPU_exec_task_jiffies' <= 0
                        THEN [need_schedule EXCEPT ![now] = TRUE]
                        ELSE need_schedule
    /\ UNCHANGED <<now, queue, running_task_count, state, preempt_count>>

\* Any other interrupt, or the cli that ends do_softirq.
OtherInterrupt ==
    /\ mode = "task" /\ mode' = "irq"
    /\ UNCHANGED <<now, queue, running_task_count, CPU_exec_task_jiffies,
                   vrun_time, need_schedule, state, preempt_count, jiffies, delay>>

\* ret_from_intr looks at the soft interrupts first and do_softirq enables
\* interrupts while it runs them, whatever preempt_count and flags say.
do_softirq ==
    /\ mode = "irq" /\ mode' = "task"
    /\ UNCHANGED <<now, queue, running_task_count, CPU_exec_task_jiffies,
                   vrun_time, need_schedule, state, preempt_count, jiffies, delay>>

\* Variant: preempt_count is not looked at.
MayScheduleAlways == need_schedule[now]

\* The test before schedule.
MaySchedule == preempt_count[now] = 0 /\ need_schedule[now]

\* ret_from_intr without a schedule.
RESTORE_ALL ==
    /\ mode = "irq" /\ mode' = "task"
    /\ ~MaySchedule
    /\ UNCHANGED <<now, queue, running_task_count, CPU_exec_task_jiffies,
                   vrun_time, need_schedule, state, preempt_count, jiffies, delay>>

\* Variant: the run times are not compared.
SwitchAlways == TRUE

\* schedule gives the processor away: the head of the queue has run no more
\* than the running process, or the running process is not ready.
SwitchWanted ==
    \/ vrun_time[now] >= vrun_time[NextTask]
    \/ state[now] # "TASK_RUNNING"

ScheduleSwitch ==
    /\ mode = "irq" /\ mode' = "task"
    /\ MaySchedule
    /\ SwitchWanted
    /\ need_schedule' = [need_schedule EXCEPT ![now] = FALSE]
    /\ IF state[now] = "TASK_RUNNING"
       THEN /\ queue' = insert_task_queue(QueueAfterNext, vrun_time, now)
            /\ running_task_count' = CountAfterInsert(CountAfterNext, now)
       ELSE /\ queue' = QueueAfterNext
            /\ running_task_count' = CountAfterNext
    /\ CPU_exec_task_jiffies' = Refill(CPU_exec_task_jiffies, running_task_count')
    /\ now' = NextTask
    /\ delay' = 0
    /\ UNCHANGED <<vrun_time, state, preempt_count, jiffies>>

\* schedule keeps the running process and puts the candidate back.
ScheduleKeep ==
    /\ mode = "irq" /\ mode' = "task"
    /\ MaySchedule
    /\ ~SwitchWanted
    /\ need_schedule' = [need_schedule EXCEPT ![now] = FALSE]
    /\ queue' = insert_task_queue(QueueAfterNext, vrun_time, NextTask)
    /\ running_task_count' = CountAfterInsert(CountAfterNext, NextTask)
    /\ CPU_exec_task_jiffies' = Refill(CPU_exec_task_jiffies, running_task_count')
    /\ delay' = 0
    /\ UNCHANGED <<now, vrun_time, state, preempt_count, jiffies>>

schedule == ScheduleSwitch \/ ScheduleKeep

-----------------------------------------------------------------------------

Next ==
    \/ \E t \in Tasks : do_fork(t)
    \/ task_init \/ init
    \/ preempt_disable \/ preempt_enable
    \/ PIT_handler \/ OtherInterrupt
    \/ do_softirq \/ RESTORE_ALL \/ schedule

Spec == Init /\ [][Next]_vars

-----------------------------------------------------------------------------
(* Properties.                                                             *)

\* The processes that exist and are ready.
Ready == {t \in Tasks : state[t] = "TASK_RUNNING"}

\* Every variable keeps its type; in particular no preempt_count goes negative
\* and running_task_count is never 0, which schedule divides by.
TypeOK ==
    /\ now \in AllTasks
    /\ queue \in Seq(Tasks)
    /\ running_task_count \in Nat \ {0}
    /\ CPU_exec_task_jiffies \in Int
    /\ vrun_time \in [AllTasks -> Nat]
    /\ need_schedule \in [AllTasks -> BOOLEAN]
    /\ state \in [AllTasks -> {"TASK_RUNNING", "TASK_UNINTERRUPTIBLE"}]
    /\ preempt_count \in [AllTasks -> Nat]
    /\ mode \in {"task", "irq"}
    /\ jiffies \in Nat
    /\ delay \in Nat

\* No ready process is lost and none is queued twice: get_next_task and
\* insert_task_queue keep each of them running or exactly once in the queue.
NoTaskLost ==
    /\ \A i, j \in 1 .. Len(queue) : i # j => queue[i] # queue[j]
    /\ \A i \in 1 .. Len(queue) : queue[i] # now
    /\ Ready = ToSet(queue) \cup ({now} \ {Idle})

\* What running_task_count counts, and why 4/running_task_count in schedule
\* never divides by zero: the queued processes and one more.
CountIsQueuePlusOne == running_task_count = Len(queue) + 1

\* The queue is sorted by vrun_time, which the walk of insert_task_queue and
\* the choice of get_next_task both rely on.
QueueSorted ==
    \A i, j \in 1 .. Len(queue) :
        i < j => vrun_time[queue[i]] <= vrun_time[queue[j]]

\* The run queue is right: well formed, whole, counted and in order.
RunQueueRight == TypeOK /\ NoTaskLost /\ CountIsQueuePlusOne /\ QueueSorted

\* A process inside a non-preemptible section is the running one: what makes
\* spin_lock usable between processes of one processor, as nobody ever spins
\* on a lock whose holder was switched away.
SectionHolderRuns == \A t \in AllTasks : preempt_count[t] > 0 => t = now

\* A switch gives the processor to a process that has run no more than any
\* process it leaves in the queue (the purpose of vrun_time in schedule).
LeastRunFirst ==
    [][now' # now =>
         \A i \in 1 .. Len(queue') : vrun_time[now'] <= vrun_time[queue'[i]]]_vars

\* Two ready processes never drift apart: none is passed over for longer than
\* the slice schedule hands out while two are ready, and the time by which the
\* schedule after it is put off (BootJiffies is at most 4: a child starts with
\* the time of the boot process).
LargestSlice == 6
LagBounded ==
    \A s, t \in Ready : vrun_time[s] - vrun_time[t] <= LargestSlice + 2 * MaxDelay

\* An overdrawn slice is never replaced: schedule refills a slice only when it
\* is exactly 0, so once it has jumped over 0 (a slice of 3, or a schedule put
\* off by one more second) every later second asks for a schedule.
OverdrawnForEver ==
    [][CPU_exec_task_jiffies < 0 => CPU_exec_task_jiffies' < 0]_vars

-----------------------------------------------------------------------------
(* What the scheduler promises, whatever its policy.                       *)

\* No policy of the run queue loses a ready process or runs one that is not
\* ready: schedule, get_next_task and insert_task_queue implement TaskPool.
TaskPool == INSTANCE TaskPool WITH running <- now, ready <- ToSet(queue)

ImplementsTaskPool == TaskPool!Spec

=============================================================================
