----------------------------- MODULE DiskQueue ------------------------------
(***************************************************************************)
(* The IDE driver (driver/disk.c): make_request, submit and               *)
(* wait_for_finish in the calling process, disk_handler and end_request in *)
(* the interrupt, with the request list at the level of its links.  The    *)
(* code is compiled without optimisation and runs with interrupts enabled: *)
(* a process may be interrupted between any two stores.  A process has at  *)
(* most one request, so its node carries its name.                         *)
(***************************************************************************)
EXTENDS SleepSchedule, FiniteSets

CONSTANTS ListHead,        \* disk_request.wait_queue_list
          NULL,
          Asks         \* what every process may ask of the disk: cmd and count

Nodes == Procs \cup {ListHead}

VARIABLES list_next,            \* wait_list.next of every node and of the head
          list_prev,            \* wait_list.prev
          in_using,             \* disk_request.in_using
          block_request_count,  \* disk_request.block_request_count
          cmd,                  \* node->cmd: reading and writing have the same handler
          count,                \* node->count
          loaded,               \* the count a process has read and is about to store
          node,                 \* node of a cmd_out that runs in a process
          device                \* the command at the disk and its interrupts to come

diskVars == <<list_next, list_prev, in_using, block_request_count, cmd, count,
              loaded, node, device>>

AtRest == [node |-> NULL, left |-> 0]

\* disk_init.
DiskInit ==
    /\ list_next = [n \in Nodes |-> n]
    /\ list_prev = [n \in Nodes |-> n]
    /\ in_using = NULL
    /\ block_request_count = 0
    /\ cmd = [p \in Procs |-> "none"]
    /\ count = [p \in Procs |-> 0]
    /\ loaded = [p \in Procs |-> 0]
    /\ node = [p \in Procs |-> NULL]
    /\ device = AtRest

\* Inside submit.
Submitting == {"d_next", "d_prevs_next", "d_prev", "d_heads_prev", "d_load",
               "d_store", "d_test", "d_take", "d_issue"}

-----------------------------------------------------------------------------
(* The calling process.                                                    *)

\* IDE_transfer and IDE_ioctl up to submit: the node of make_request.  The
\* window: another process is inside submit.
make_request(p) ==
    /\ At(p, "home")
    /\ \E r \in Asks[p] :
          /\ cmd' = [cmd EXCEPT ![p] = r.cmd]
          /\ count' = [count EXCEPT ![p] = r.count]
    /\ Goto(p, "d_next")
    /\ Hit("two processes in submit", \E q \in Procs : pc[q] \in Submitting)
    /\ UNCHANGED <<now, ready, state, tsk, fault, in_using, block_request_count,
                   list_next, list_prev, loaded, node, device>>

\* list_add_to_before of add_request, store by store.
ListAdd(p) ==
    /\ \/ /\ At(p, "d_next") /\ Goto(p, "d_prevs_next")
          /\ list_next' = [list_next EXCEPT ![p] = ListHead]
          /\ UNCHANGED list_prev
       \/ /\ At(p, "d_prevs_next") /\ Goto(p, "d_prev")
          /\ list_next' = [list_next EXCEPT ![list_prev[ListHead]] = p]
          /\ UNCHANGED list_prev
       \/ /\ At(p, "d_prev") /\ Goto(p, "d_heads_prev")
          /\ list_prev' = [list_prev EXCEPT ![p] = list_prev[ListHead]]
          /\ UNCHANGED list_next
       \/ /\ At(p, "d_heads_prev") /\ Goto(p, "d_load")
          /\ list_prev' = [list_prev EXCEPT ![ListHead] = p]
          /\ UNCHANGED list_next
    /\ UNCHANGED <<now, ready, state, tsk, window, fault, in_using,
                   block_request_count, cmd, count, loaded, node, device>>

\* block_request_count++ of add_request.
CountRequest(p) ==
    /\ \/ /\ At(p, "d_load") /\ Goto(p, "d_store")
          /\ loaded' = [loaded EXCEPT ![p] = block_request_count]
          /\ UNCHANGED block_request_count
       \/ /\ At(p, "d_store") /\ Goto(p, "d_test")
          /\ block_request_count' = loaded[p] + 1
          /\ loaded' = [loaded EXCEPT ![p] = 0]
    /\ UNCHANGED <<now, ready, state, tsk, window, fault, list_next, list_prev,
                   in_using, cmd, count, node, device>>

\* submit: the disk is started by the process that finds it at rest.
submit(p) ==
    /\ At(p, "d_test")
    /\ Goto(p, IF in_using = NULL THEN "d_take" ELSE "d_sleep")
    /\ UNCHANGED <<now, ready, state, tsk, window, fault, diskVars>>

\* list_del; the links that stay in n are not read again.
Unlinked(n) ==
    /\ list_prev' = [list_prev EXCEPT ![list_next[n]] = list_prev[n], ![n] = n]
    /\ list_next' = [list_next EXCEPT ![list_prev[n]] = list_next[n], ![n] = n]

\* The first half of cmd_out: the first node of the list is taken.
TakeFirst(n) ==
    /\ in_using' = n
    /\ Unlinked(n)
    /\ block_request_count' = block_request_count - 1

\* The second half: the registers of the disk.  It interrupts once for every
\* sector, or once for what it tells of itself.
Command(n) ==
    [node |-> n, left |-> IF cmd[n] = "identify" THEN 1 ELSE count[n]]

\* cmd_out in the process that submits.
CmdOutTake(p) ==
    /\ At(p, "d_take") /\ Goto(p, "d_issue")
    /\ IF list_next[ListHead] # ListHead
       THEN /\ TakeFirst(list_next[ListHead])
            /\ node' = [node EXCEPT ![p] = list_next[ListHead]]
            /\ UNCHANGED fault
       ELSE /\ fault' = "a command of no request"
            /\ UNCHANGED <<in_using, list_next, list_prev, block_request_count, node>>
    /\ UNCHANGED <<now, ready, state, tsk, window, cmd, count, loaded, device>>

CmdOutIssue(p) ==
    /\ At(p, "d_issue") /\ Goto(p, "d_sleep")
    /\ device.left = 0
    /\ device' = Command(node[p])
    /\ node' = [node EXCEPT ![p] = NULL]
    /\ UNCHANGED <<now, ready, state, tsk, window, fault, list_next, list_prev,
                   in_using, block_request_count, cmd, count, loaded>>

\* Variant: the state is left alone.
WaitReady(p) ==
    /\ At(p, "d_sleep") /\ Goto(p, "d_schedule")
    /\ UNCHANGED <<now, ready, state, tsk, window, fault, diskVars>>

\* wait_for_finish up to schedule.
wait_for_finish(p) ==
    /\ At(p, "d_sleep") /\ Goto(p, "d_schedule")
    /\ state' = [state EXCEPT ![p] = Sleeping]
    /\ UNCHANGED <<now, ready, tsk, window, fault, diskVars>>

\* The end of IDE_transfer or IDE_ioctl.
TransferReturns(p) ==
    /\ At(p, "d_back") /\ Goto(p, "home")
    /\ UNCHANGED <<now, ready, state, tsk, window, fault, diskVars>>

-----------------------------------------------------------------------------
(* The interrupt.                                                          *)

\* A sector of a longer transfer: read_handler and write_handler return early.
SectorDone(n) ==
    /\ count' = [count EXCEPT ![n] = @ - 1]
    /\ device' = [device EXCEPT !.left = @ - 1]
    /\ UNCHANGED <<scheduleVars, list_next, list_prev, in_using,
                   block_request_count, cmd, loaded, node>>

\* add_request is between two stores that a cmd_out of the interrupt breaks: it
\* has read the count, or it is to read the link to the node that cmd_out takes.
HalfAdded ==
    \E p \in Procs :
        \/ pc[p] = "d_store"
        \/ pc[p] = "d_prev" /\ list_prev[ListHead] = list_next[ListHead]

\* p has not given the processor away since it asked for its transfer.
Awake(p) == InSchedule(p)

\* Variant: the processor is not told of the process.
EndUnqueued(n) == state' = [state EXCEPT ![n] = Running] /\ UNCHANGED <<ready, fault>>

\* end_request wakes the process that owns the node.
WakeOwner(n) == state' = [state EXCEPT ![n] = Running] /\ Insert(ready, n)

\* Variants: the next command is not given out; in_using is left.
NothingNext ==
    /\ in_using' = NULL /\ device' = AtRest
    /\ UNCHANGED <<list_next, list_prev, block_request_count>>
NextUncounted ==
    IF list_next[ListHead] # ListHead
    THEN in_using' = list_next[ListHead] /\ Unlinked(list_next[ListHead])
         /\ device' = Command(list_next[ListHead]) /\ UNCHANGED block_request_count
    ELSE NothingNext

\* end_request starts the next request, when the count says there is one.
NextCommand ==
    IF block_request_count # 0 /\ list_next[ListHead] # ListHead
    THEN TakeFirst(list_next[ListHead]) /\ device' = Command(list_next[ListHead])
    ELSE /\ in_using' = NULL /\ device' = AtRest
         /\ UNCHANGED <<list_next, list_prev, block_request_count>>

\* The last interrupt of a command.  The windows: the process it wakes is not
\* asleep, or cmd_out meets a half-made add_request.
end_request(n) ==
    /\ IF block_request_count # 0 /\ list_next[ListHead] = ListHead
       THEN /\ fault' = "a command of no request"
            /\ UNCHANGED <<ready, state>>
       ELSE WakeOwner(n)
    /\ NextCommand
    /\ count' = [count EXCEPT ![n] = 0]
    /\ cmd' = [cmd EXCEPT ![n] = "none"]
    /\ IF Awake(n)
       THEN Hit("request ended before its process slept", TRUE)
       ELSE Hit("cmd_out inside add_request", block_request_count # 0 /\ HalfAdded)
    /\ UNCHANGED <<now, pc, tsk, loaded, node>>

\* disk_handler calls the handler of the request in in_using; other_handler
\* ends it at once, the two others when its count is down to 0.
disk_handler ==
    /\ GoesOn /\ device.left > 0
    /\ IF in_using = NULL
       THEN /\ fault' = "an interrupt of no request"
            /\ UNCHANGED <<now, ready, state, pc, tsk, window, diskVars>>
       ELSE IF cmd[in_using] = "identify" \/ count[in_using] = 1
            THEN end_request(in_using)
            ELSE SectorDone(in_using)

-----------------------------------------------------------------------------

\* One step of a process inside the driver.
DiskStep(p) ==
    \/ make_request(p) \/ ListAdd(p) \/ CountRequest(p) \/ submit(p)
    \/ CmdOutTake(p) \/ CmdOutIssue(p) \/ wait_for_finish(p)
    \/ ScheduleTake(p, "d_schedule", "d_switch") /\ UNCHANGED diskVars
    \/ ScheduleSwitch(p, "d_switch", "d_back") /\ UNCHANGED diskVars
    \/ TransferReturns(p)

-----------------------------------------------------------------------------

\* What is linked: everything the next links lead to from the head.
ClosedUnderNext(S) == ListHead \in S /\ \A n \in S : list_next[n] \in S
Linked == {n \in Nodes : \A S \in SUBSET Nodes : ClosedUnderNext(S) => n \in S}

\* p has asked and its request is not ended.
Unserved(p) == p \in Linked \/ in_using = p

=============================================================================
