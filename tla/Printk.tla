------------------------------- MODULE Printk -------------------------------
(***************************************************************************)
(* color_printk (kernel/printk.c) called by a process, by the interrupts   *)
(* that arrive meanwhile and by the soft interrupts they run.  All calls   *)
(* format into the one printk_buf.  A call made with interrupts enabled    *)
(* holds printk_lock, and preempt_count is up while it does; a call made   *)
(* with interrupts disabled takes no lock.                                 *)
(*                                                                         *)
(* Three callers print inside an interrupt: disk_handler and schedule, with *)
(* interrupts disabled, the latter only when preempt_count is 0 (driver/   *)
(* disk.c, kernel/schedule.c, kernel/mtask.c), and do_timer, for which     *)
(* do_softirq has enabled interrupts (kernel/softirq.c, kernel/timer.c).   *)
(*                                                                         *)
(* The process stands for whichever is running: one that is switched away  *)
(* from has preempt_count 0, so it is in no locked section, and comes back *)
(* as it was.                                                              *)
(***************************************************************************)
EXTENDS Integers, Sequences, FiniteSets

CONSTANTS MaxDepth,    \* bound: contexts on top of each other, the process included
          TimersDue,   \* whether timers come due, so that do_timer runs
          DisksPrint   \* whether the disk interrupts, so that disk_handler runs

ASSUME PrintkAssumption ==
    /\ MaxDepth \in Nat \ {0}
    /\ TimersDue \subseteq BOOLEAN /\ DisksPrint \subseteq BOOLEAN

VARIABLES printk_lock,
          preempt_count,   \* of the running process
          printk_buf,      \* the context whose text it holds, 0 for none
          contexts,        \* the interrupted contexts, the running one last
          due,             \* whether do_timer has work in this behaviour
          disk             \* whether the disk interrupts in this behaviour

vars == <<printk_lock, preempt_count, printk_buf, contexts, due, disk>>

\* One context: where it is in color_printk, whether interrupts are enabled,
\* and whether the text it shows is its own.
Context(kind, enabled) ==
    [kind |-> kind, enabled |-> enabled, pc |-> "idle", own |-> TRUE]

Init ==
    /\ printk_lock = 1
    /\ preempt_count = 0
    /\ printk_buf = 0
    /\ contexts = <<Context("process", TRUE)>>
    /\ due \in TimersDue /\ disk \in DisksPrint

Depth == Len(contexts)
Running == contexts[Depth]
At(pc) == Running.pc = pc
GoesTo(pc) == contexts' = [contexts EXCEPT ![Depth].pc = pc]

-----------------------------------------------------------------------------
(* color_printk, by the running context.                                   *)

\* Variant: the lock is taken by interrupts too.
LocksAlways == TRUE

\* get_rflags() & 0x200
Locks == Running.enabled

\* The call: with interrupts enabled spin_lock comes first, and its first
\* instructions are preempt_disable.
Call ==
    /\ At("idle") /\ (Running.kind = "handler" => disk)
    /\ IF Locks THEN /\ preempt_count' = preempt_count + 1
                     /\ GoesTo("decrement")
                ELSE /\ GoesTo("format")
                     /\ UNCHANGED preempt_count
    /\ UNCHANGED <<printk_lock, printk_buf, due, disk>>

\* decq at 1:, reached from above or by the jump back from the wait loop.
AtDecrement == At("decrement") \/ (At("spin") /\ printk_lock > 0)

Decrement ==
    /\ AtDecrement
    /\ printk_lock' = printk_lock - 1
    /\ GoesTo(IF printk_lock' >= 0 THEN "format" ELSE "spin")
    /\ UNCHANGED <<preempt_count, printk_buf, due, disk>>

\* vsprintf into printk_buf.
Format ==
    /\ At("format")
    /\ printk_buf' = Depth
    /\ GoesTo("emit")
    /\ UNCHANGED <<printk_lock, preempt_count, due, disk>>

\* The loop that puts the characters of printk_buf on the screen.
Emit ==
    /\ At("emit")
    /\ contexts' = [contexts EXCEPT ![Depth].pc = "unlock",
                                    ![Depth].own = printk_buf = Depth]
    /\ UNCHANGED <<printk_lock, preempt_count, printk_buf, due, disk>>

\* spin_unlock: the store, then preempt_enable.
Unlock ==
    /\ At("unlock")
    /\ IF Locks THEN printk_lock' = 1 /\ GoesTo("enable")
                ELSE GoesTo("done") /\ UNCHANGED printk_lock
    /\ UNCHANGED <<preempt_count, printk_buf, due, disk>>

\* Variant: preempt_enable is forgotten.
NotEnabled == preempt_count

\* preempt_enable
Reenabled == preempt_count - 1

Enable ==
    /\ At("enable")
    /\ preempt_count' = Reenabled
    /\ GoesTo("done")
    /\ UNCHANGED <<printk_lock, printk_buf, due, disk>>

color_printk == Call \/ Decrement \/ Format \/ Emit \/ Unlock \/ Enable

-----------------------------------------------------------------------------
(* Interrupts.                                                             *)

\* An interrupt arrives where interrupts are enabled: by the process, by
\* do_softirq, or by switch_to once schedule has printed.
Interrupt ==
    /\ Running.enabled \/ (Running.kind = "schedule" /\ At("done"))
    /\ Depth < MaxDepth
    /\ contexts' = Append(contexts, Context("handler", FALSE))
    /\ UNCHANGED <<printk_lock, preempt_count, printk_buf, due, disk>>

\* The handler has nothing to print, or has printed it.
HandlerEnds == Running.kind = "handler" /\ (At("idle") \/ At("done"))

\* ret_from_intr finds a soft interrupt pending: do_softirq's sti, do_timer.
do_softirq ==
    /\ HandlerEnds /\ due
    /\ contexts' = [contexts EXCEPT ![Depth] = Context("softirq", TRUE)]
    /\ UNCHANGED <<printk_lock, preempt_count, printk_buf, due, disk>>

\* Variant: preempt_count is not looked at.
MayScheduleAlways == TRUE

\* The test of ret_from_intr before schedule.
MaySchedule == preempt_count = 0

\* The end of do_softirq, or of the handler when no soft interrupt is pending.
IntrEnds == HandlerEnds \/ (Running.kind = "softirq" /\ At("done"))

\* ret_from_intr calls schedule, which prints with interrupts disabled.
schedule ==
    /\ IntrEnds /\ MaySchedule
    /\ contexts' = [contexts EXCEPT ![Depth] = Context("schedule", FALSE)]
    /\ UNCHANGED <<printk_lock, preempt_count, printk_buf, due, disk>>

\* RESTORE_ALL, with or without a call of schedule.
Return ==
    /\ Depth > 1 /\ (IntrEnds \/ (Running.kind = "schedule" /\ At("done")))
    /\ contexts' = SubSeq(contexts, 1, Depth - 1)
    /\ UNCHANGED <<printk_lock, preempt_count, printk_buf, due, disk>>

\* The process goes on to its next print, and so does do_timer: a line of each
\* timer that is due (test_timer), then its own.
NextPrint ==
    /\ Running.kind \in {"process", "softirq"} /\ At("done")
    /\ contexts' = [contexts EXCEPT ![Depth] = Context(Running.kind, TRUE)]
    /\ UNCHANGED <<printk_lock, preempt_count, printk_buf, due, disk>>

Next == color_printk \/ Interrupt \/ do_softirq \/ schedule \/ Return \/ NextPrint

Spec == Init /\ [][Next]_vars

-----------------------------------------------------------------------------

Locked(c) == c.enabled /\ c.pc \in {"format", "emit", "unlock"}

TypeOK ==
    /\ printk_lock \in Int /\ printk_lock <= 1
    /\ preempt_count \in 0 .. MaxDepth
    /\ printk_buf \in 0 .. MaxDepth
    /\ \A i \in 1 .. Depth :
          /\ contexts[i].kind \in {"process", "handler", "softirq", "schedule"}
          /\ contexts[i].pc \in {"idle", "decrement", "spin", "format", "emit", "unlock",
                                 "enable", "done"}

\* preempt_count is the number of calls under way that took, or are taking, the
\* lock: whatever interrupts between its increments and decrements, the
\* process is preemptible again exactly when the last of them is over.
CountIsSections ==
    preempt_count = Cardinality({i \in 1 .. Depth :
        /\ contexts[i].enabled
        /\ contexts[i].pc \in {"decrement", "spin", "format", "emit", "unlock", "enable"}})

\* The words are in their bounds and the count is right.
CountRight == TypeOK /\ CountIsSections

\* Every call shows its own text: the lock keeps the contexts with interrupts
\* enabled apart, and schedule, which takes no lock, does not run inside one of
\* them because spin_lock has raised preempt_count.  disk_handler takes no lock
\* and minds no count, so where the disk interrupts, only the calls with
\* interrupts disabled are sure of their text.
OwnText == \A i \in 1 .. Depth : contexts[i].own \/ (disk /\ contexts[i].enabled)

\* The comment in color_printk (printk.c:367): interrupt functions use no spin
\* lock, so that there is no deadlock.  So no context inside an interrupt spins
\* for the lock an interrupted context holds, which cannot go on before it ends.
NoInterruptSpins ==
    \A i, j \in 1 .. Depth : i < j /\ Locked(contexts[i]) => contexts[j].pc # "spin"

\* Unless timers come due nobody spins, whatever else prints inside an interrupt:
\* what waits for the lock would wait for the context it interrupted.
SpinsOnlyForTimers == ~due => \A i \in 1 .. Depth : contexts[i].pc # "spin"

=============================================================================
