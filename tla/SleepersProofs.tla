--------------------------- MODULE SleepersProofs ---------------------------
(***************************************************************************)
(* What Sleepers promises, for any number of processes, units and sectors. *)
(* The invariant holds until a window is hit; it names the order s of the  *)
(* driver's list, which the links only spell out, and what of it a process *)
(* inside add_request has already written.                                 *)
(***************************************************************************)
EXTENDS Sleepers, Integers, FiniteSetTheorems, WellFoundedInduction, TLAPS

(* Where a process is.                                                     *)

\* It is inside add_request and its node is linked from the front.
HalfIn == {"d_prev", "d_heads_prev", "d_load", "d_store"}
\* It has given up the processor for its transfer, or is about to.
DiskWait == {"d_schedule", "d_switch", "d_back"}
SemaWait == {"s_schedule", "s_switch", "s_back"}
Switching == {"d_switch", "s_switch"}
SleepPlaces == DiskWait \cup SemaWait \cup {"s_add"}
DiskPlaces == Submitting \cup DiskWait \cup {"d_sleep"}
SemaPlaces == InSemaphore \cup SemaWait
Places == {"home"} \cup DiskPlaces \cup SemaPlaces

Types ==
    /\ TypeOK
    /\ pc \in [Procs -> Places]
    /\ block_request_count \in Int
    /\ cmd \in [Procs -> {"none", "identify", "transfer"}]
    /\ count \in [Procs -> Int] /\ loaded \in [Procs -> Int]
    /\ node \in [Procs -> Nodes \cup {NULL}]
    /\ counter \in Int
    /\ waiting \in Seq(Procs)
    /\ waking \in [Procs -> Procs \cup {Idle}]

-----------------------------------------------------------------------------
(* schedule.                                                               *)

\* What a sleeping schedule has taken from the queue is nowhere else.
TakenRight(p) ==
    tsk[p] # Idle => /\ now = p /\ pc[p] \in Switching
                     /\ tsk[p] # p /\ tsk[p] \notin ready
                     /\ state[tsk[p]] = Running

SleepsRight(p) ==
    /\ state[p] = Running => InSchedule(p)
    /\ state[p] = Sleeping => /\ pc[p] \in SleepPlaces
                              /\ now = p => pc[p] \notin {"d_back", "s_back"}
                              /\ now # p => pc[p] # "s_add"

Sched ==
    /\ fault = "none"
    /\ now \notin ready
    /\ \A p \in ready : state[p] = Running
    /\ \A p \in Procs : TakenRight(p) /\ SleepsRight(p)

-----------------------------------------------------------------------------
(* The driver.                                                             *)

\* The node at the place i of the ring that s and the head make.
NodeAt(s, i) == IF i \in 1 .. Len(s) THEN s[i] ELSE ListHead

Once(s) == \A i, j \in 1 .. Len(s) : s[i] = s[j] => i = j
In(p, s) == \E i \in 1 .. Len(s) : s[i] = p
Somebody(places) == \E p \in Procs : pc[p] \in places
Pending(p, s) == In(p, s) \/ in_using = p

Ring(s) ==
    /\ \A i \in 0 .. Len(s) : list_next[NodeAt(s, i)] = NodeAt(s, i + 1)
    /\ \A i \in 0 .. Len(s) :
          \/ list_prev[NodeAt(s, i + 1)] = NodeAt(s, i)
          \/ i = Len(s) /\ Somebody({"d_prev", "d_heads_prev"})
          \/ i = Len(s) - 1 /\ Somebody({"d_prev"})
    /\ Somebody({"d_prev"}) => list_prev[ListHead] = NodeAt(s, Len(s) - 1)

\* The number of requests block_request_count tells of.
Counted(s) == IF Somebody(HalfIn) THEN Len(s) - 1 ELSE Len(s)

Holder(p, s) ==
    /\ pc[p] \in {"home", "d_next", "d_prevs_next"} \cup SemaPlaces => ~Pending(p, s)
    /\ pc[p] = "d_prevs_next" => list_next[p] = ListHead
    /\ pc[p] \in HalfIn => Len(s) > 0 /\ s[Len(s)] = p /\ in_using # p
    /\ pc[p] = "d_store" => loaded[p] = block_request_count
    /\ pc[p] \in {"d_test", "d_sleep"} => Pending(p, s)
    /\ pc[p] = "d_take" => in_using = NULL /\ In(p, s)
    /\ pc[p] = "d_issue" => in_using = p /\ node[p] = p /\ device = AtRest
    /\ pc[p] \in DiskWait => (Pending(p, s) <=> state[p] = Sleeping)

Asked(p, s) ==
    IF Pending(p, s) \/ pc[p] \in {"d_next", "d_prevs_next"}
    THEN \/ cmd[p] = "identify" /\ count[p] = 0
         \/ cmd[p] = "transfer" /\ count[p] \in Nat \ {0}
    ELSE cmd[p] = "none" /\ count[p] = 0

DeviceRight(s) ==
    /\ ~In(in_using, s)
    /\ in_using = NULL => /\ device = AtRest
                          /\ \A i \in 1 .. Len(s) : pc[s[i]] \in Submitting
    /\ (in_using # NULL /\ pc[in_using] # "d_issue") => device = Command(in_using)

QueueIs(s) ==
    /\ Once(s)
    /\ Ring(s)
    /\ block_request_count = Counted(s)
    /\ \A p \in Procs : Holder(p, s) /\ Asked(p, s)
    /\ DeviceRight(s)

DiskAlone ==
    \A p, q \in Procs : pc[p] \in Submitting /\ pc[q] \in Submitting => p = q

Disks == DiskAlone /\ \E s \in Seq(Procs) : QueueIs(s)

-----------------------------------------------------------------------------
(* The semaphore.                                                          *)

Waits(p) == In(p, waiting)
\* An __up has unlinked p and not yet queued it.
WokenBy(q, p) == pc[q] = "s_queue" /\ waking[q] = p
Woken(p) == \E q \in Procs : WokenBy(q, p)

Owners == holds \cup Handed

\* Where p is, with the lists and the owners.
SemaPlace(p) ==
    /\ Waits(p) => pc[p] \in SemaWait /\ state[p] = Sleeping /\ ~Woken(p)
    /\ pc[p] = "s_del" => now = p /\ waiting # <<>> /\ waking[p] = waiting[1]
    /\ pc[p] = "s_queue" => /\ waking[p] \in Procs /\ ~Waits(waking[p])
                            /\ pc[waking[p]] \in SemaWait
                            /\ state[waking[p]] = Sleeping
    /\ pc[p] \in SemaWait /\ state[p] = Sleeping => Waits(p) \/ Woken(p)
    /\ p \in holds => pc[p] \notin SemaWait \cup {"s_dec", "s_state", "s_add", "s_queue"}
    /\ pc[p] \in {"s_inc", "s_unlink", "s_del"} => p \in holds
    /\ pc[p] = "s_add" => state[p] = Sleeping

\* What p has tested still holds, unless an operation has overtaken it.
Tested(p) ==
    p \notin overtaken => /\ pc[p] = "s_dec" => counter > 0
                          /\ pc[p] \in {"s_state", "s_add"} => counter <= 0
                          /\ pc[p] = "s_inc" => waiting = <<>>
                          /\ pc[p] = "s_unlink" => waiting # <<>>

WokenOnce ==
    \A p, q \in Procs :
        (pc[p] = "s_queue" /\ pc[q] = "s_queue" /\ waking[p] = waking[q]) => p = q

UnitsRight ==
    /\ IsFiniteSet(Owners)
    /\ counter + Cardinality(Owners) = Units
    /\ ~overdrawn => counter >= 0
    /\ (~missed /\ waiting # <<>>) => counter <= 0

Semas ==
    /\ WokenOnce
    /\ Once(waiting)
    /\ \A p \in Procs : SemaPlace(p) /\ Tested(p)
    /\ UnitsRight

-----------------------------------------------------------------------------

IInv ==
    /\ Types
    /\ window = "none" => Sched /\ Disks /\ Semas

-----------------------------------------------------------------------------
(* Types.                                                                  *)

LEMMA ExceptTypes ==
    ASSUME NEW S, NEW T, NEW f \in [S -> T], NEW x, NEW v \in T
    PROVE  [f EXCEPT ![x] = v] \in [S -> T]
OBVIOUS

LEMMA InsertTypes ==
    ASSUME NEW q \in SUBSET Procs, NEW p \in Procs \cup {Idle}, Insert(q, p)
    PROVE  ready' \subseteq Procs
BY DEF Insert

LEMMA UnlinkedTypes ==
    ASSUME Types, NEW n \in Nodes, Unlinked(n)
    PROVE  list_next' \in [Nodes -> Nodes] /\ list_prev' \in [Nodes -> Nodes]
BY DEF Types, TypeOK, Unlinked

LEMMA GotoTypes ==
    ASSUME pc \in [Procs -> Places], NEW p \in Procs, NEW l \in Places, Goto(p, l)
    PROVE  pc' \in [Procs -> Places]
BY DEF Goto

LEMMA DiskTypes ==
    ASSUME Types, NEW p \in Procs, Disk(p)
    PROVE  Types'
<1> USE SleepersAssumption DEF Types, TypeOK, Disk, At, Goto, diskVars, semaphoreVars
<1> USE DEF Places, DiskPlaces, Submitting, DiskWait
<1>1. CASE make_request(p)
  <2>1. PICK r \in Asks[p] : /\ cmd' = [cmd EXCEPT ![p] = r.cmd]
                             /\ count' = [count EXCEPT ![p] = r.count]
    BY <1>1 DEF make_request
  <2>2. r.cmd \in {"none", "identify", "transfer"} /\ r.count \in Int
    BY AsksAssumption
  <2>3. cmd' \in [Procs -> {"none", "identify", "transfer"}]
    BY <2>1, <2>2, ExceptTypes
  <2>4. count' \in [Procs -> Int]
    BY <2>1, <2>2, ExceptTypes
  <2>5. pc' \in [Procs -> Places]
    BY <1>1, GotoTypes DEF make_request
  <2> QED BY <1>1, <2>3, <2>4, <2>5 DEF make_request
<1>2. CASE ListAdd(p)
  <2>1. ListHead \in Nodes /\ p \in Nodes /\ list_prev[ListHead] \in Nodes
    BY DEF Nodes
  <2>2. pc' \in [Procs -> Places]
    <3>1. \/ Goto(p, "d_prevs_next") \/ Goto(p, "d_prev")
          \/ Goto(p, "d_heads_prev") \/ Goto(p, "d_load")
      BY <1>2 DEF ListAdd
    <3> QED BY <3>1, GotoTypes
  <2>3. list_next' \in [Nodes -> Nodes] /\ list_prev' \in [Nodes -> Nodes]
    <3>1. \/ list_next' = [list_next EXCEPT ![p] = ListHead] /\ UNCHANGED list_prev
          \/ list_next' = [list_next EXCEPT ![list_prev[ListHead]] = p] /\ UNCHANGED list_prev
          \/ list_prev' = [list_prev EXCEPT ![p] = list_prev[ListHead]] /\ UNCHANGED list_next
          \/ list_prev' = [list_prev EXCEPT ![ListHead] = p] /\ UNCHANGED list_next
      BY <1>2 DEF ListAdd
    <3> QED BY <2>1, <3>1, ExceptTypes
  <2> QED BY <1>2, <2>2, <2>3 DEF ListAdd
<1>3. CASE CountRequest(p)
  <2>1. loaded[p] + 1 \in Int
    OBVIOUS
  <2>2. pc' \in [Procs -> Places]
    <3>1. Goto(p, "d_store") \/ Goto(p, "d_test")
      BY <1>3 DEF CountRequest
    <3> QED BY <3>1, GotoTypes
  <2>3. block_request_count' \in Int /\ loaded' \in [Procs -> Int]
    BY <1>3, <2>1 DEF CountRequest
  <2> QED BY <1>3, <2>2, <2>3 DEF CountRequest
<1>4. CASE submit(p)
  BY <1>4 DEF submit
<1>5. CASE CmdOutTake(p)
  <2>1. list_next[ListHead] \in Nodes /\ pc' \in [Procs -> Places]
    BY <1>5 DEF CmdOutTake, Nodes
  <2>2. list_next' \in [Nodes -> Nodes] /\ list_prev' \in [Nodes -> Nodes]
    BY <1>5, <2>1, UnlinkedTypes DEF CmdOutTake, TakeFirst
  <2>3. in_using' \in Procs \cup {NULL} /\ block_request_count' \in Int
    <3>1. block_request_count - 1 \in Int
      OBVIOUS
    <3>2. list_next[ListHead] # ListHead => list_next[ListHead] \in Procs
      BY <2>1 DEF Nodes
    <3> QED BY <1>5, <3>1, <3>2 DEF CmdOutTake, TakeFirst
  <2>4. node' \in [Procs -> Nodes \cup {NULL}]
    BY <1>5, <2>1 DEF CmdOutTake
  <2> QED BY <1>5, <2>1, <2>2, <2>3, <2>4 DEF CmdOutTake
<1>6. CASE CmdOutIssue(p)
  BY <1>6 DEF CmdOutIssue
<1>7. CASE wait_for_finish(p)
  BY <1>7 DEF wait_for_finish
<1>8. CASE ScheduleTake(p, "d_schedule", "d_switch") /\ UNCHANGED diskVars
  BY <1>8 DEF ScheduleTake, Candidates
<1>9. CASE ScheduleSwitch(p, "d_switch", "d_back") /\ UNCHANGED diskVars
  <2>1. ready' \subseteq Procs
    BY <1>9, InsertTypes DEF ScheduleSwitch
  <2> QED BY <1>9, <2>1 DEF ScheduleSwitch
<1>10. CASE TransferReturns(p)
  BY <1>10 DEF TransferReturns
<1> QED
  BY <1>1, <1>2, <1>3, <1>4, <1>5, <1>6, <1>7, <1>8, <1>9, <1>10 DEF DiskStep

LEMMA SemaTypes ==
    ASSUME Types, window = "none" => Semas, NEW p \in Procs, Sema(p)
    PROVE  Types'
<1> USE SleepersAssumption DEF Types, TypeOK, Sema, At, Goto, diskVars, semaphoreVars
<1> USE DEF Places, SemaPlaces, InSemaphore, SemaWait, CounterChanges, ListChanges, Outdates
<1>1. CASE semaphore_down(p)
  BY <1>1 DEF semaphore_down
<1>2. CASE atomic_dec(p)
  BY <1>2 DEF atomic_dec
<1>3. CASE DownState(p)
  BY <1>3 DEF DownState
<1>4. CASE DownAdd(p)
  BY <1>4 DEF DownAdd
<1>5. CASE ScheduleTake(p, "s_schedule", "s_switch") /\ UNCHANGED semaphoreVars
  BY <1>5 DEF ScheduleTake, Candidates
<1>6. CASE ScheduleSwitch(p, "s_switch", "s_back") /\ UNCHANGED semaphoreVars
  <2>1. ready' \subseteq Procs
    BY <1>6, InsertTypes DEF ScheduleSwitch
  <2> QED BY <1>6, <2>1 DEF ScheduleSwitch
<1>7. CASE DownReturns(p)
  BY <1>7 DEF DownReturns
<1>8. CASE semaphore_up(p)
  BY <1>8 DEF semaphore_up
<1>9. CASE atomic_inc(p)
  BY <1>9 DEF atomic_inc
<1>10. CASE UpFirst(p)
  <2>1. waiting # <<>> => Head(waiting) \in Procs
    OBVIOUS
  <2>2. waking' \in [Procs -> Procs \cup {Idle}]
    <3>1. CASE waiting # <<>>
      <4>1. waking' = [waking EXCEPT ![p] = Head(waiting)]
        BY <1>10, <3>1 DEF UpFirst
      <4> QED BY <2>1, <3>1, <4>1
    <3>2. CASE waiting = <<>>
      BY <1>10, <3>2 DEF UpFirst
    <3> QED BY <3>1, <3>2
  <2> QED BY <1>10, <2>2 DEF UpFirst
<1>11. CASE UpUnlink(p)
  <2>1. waiting # <<>>
    BY <1>11 DEF UpUnlink, GoesOn, Semas, SemaPlace
  <2>2. waiting' \in Seq(Procs)
    BY <1>11, <2>1 DEF UpUnlink
  <2> QED BY <1>11, <2>2 DEF UpUnlink
<1>12. CASE UpQueue(p)
  <2>1. ready' \subseteq Procs
    BY <1>12, InsertTypes DEF UpQueue
  <2> QED BY <1>12, <2>1 DEF UpQueue
<1> QED
  BY <1>1, <1>2, <1>3, <1>4, <1>5, <1>6, <1>7, <1>8, <1>9, <1>10, <1>11, <1>12
     DEF SemaphoreStep

LEMMA InterruptTypes ==
    ASSUME Types, Interrupt
    PROVE  Types'
<1> USE SleepersAssumption DEF Types, TypeOK, Interrupt, diskVars, scheduleVars, semaphoreVars
<1>1. CASE in_using = NULL
  BY <1>1 DEF disk_handler
<1>2. CASE in_using # NULL /\ SectorDone(in_using)
  BY <1>2 DEF SectorDone
<1>3. CASE in_using # NULL /\ end_request(in_using)
  <2>1. ready' \subseteq Procs /\ state' \in [Procs -> {Running, Sleeping}]
    BY <1>3, InsertTypes DEF end_request, WakeOwner
  <2>2. /\ list_next' \in [Nodes -> Nodes] /\ list_prev' \in [Nodes -> Nodes]
        /\ in_using' \in Procs \cup {NULL} /\ block_request_count' \in Int
    <3>1. list_next[ListHead] \in Nodes
      BY DEF Nodes
    <3>2. CASE block_request_count # 0 /\ list_next[ListHead] # ListHead
      <4>1. TakeFirst(list_next[ListHead])
        BY <1>3, <3>2 DEF end_request, NextCommand
      <4>2. list_next' \in [Nodes -> Nodes] /\ list_prev' \in [Nodes -> Nodes]
        BY <3>1, <4>1, UnlinkedTypes DEF TakeFirst
      <4> QED BY <3>1, <3>2, <4>1, <4>2 DEF TakeFirst, Nodes
    <3>3. CASE ~(block_request_count # 0 /\ list_next[ListHead] # ListHead)
      BY <1>3, <3>3 DEF end_request, NextCommand
    <3> QED BY <3>2, <3>3
  <2>3. /\ cmd' \in [Procs -> {"none", "identify", "transfer"}]
        /\ count' \in [Procs -> Int]
    <3>1. /\ cmd' = [cmd EXCEPT ![in_using] = "none"]
          /\ count' = [count EXCEPT ![in_using] = 0]
      BY <1>3 DEF end_request
    <3>2. cmd' \in [Procs -> {"none", "identify", "transfer"}]
      BY <3>1
    <3>3. count' \in [Procs -> Int]
      BY <3>1, ExceptTypes
    <3> QED BY <3>2, <3>3
  <2> QED BY <1>3, <2>1, <2>2, <2>3 DEF end_request
<1> QED BY <1>1, <1>2, <1>3 DEF disk_handler

LEMMA TickTypes ==
    ASSUME Types, Tick
    PROVE  Types'
<1> USE SleepersAssumption DEF Types, TypeOK, Tick, Preempt, diskVars, semaphoreVars
<1>1. ready' \subseteq Procs
  BY InsertTypes
<1>2. now' \in Procs \cup {Idle}
  BY DEF Candidates
<1> QED BY <1>1, <1>2

LEMMA TypesStep ==
    ASSUME IInv, [Next]_vars
    PROVE  Types'
<1>2. Types /\ (window = "none" => Semas)
  BY DEF IInv
<1>1. CASE UNCHANGED vars
  BY <1>1, <1>2 DEF vars, scheduleVars, diskVars, semaphoreVars, Types, TypeOK
<1> QED
  BY <1>1, <1>2, DiskTypes, SemaTypes, InterruptTypes, TickTypes, SleepersAssumption
     DEF Next

-----------------------------------------------------------------------------
(* schedule: nobody is lost.                                               *)

\* Who runs outside the places where a process sleeps, or behind its
\* schedule, is not asleep and has taken nobody from the queue.
LEMMA RunsHere ==
    ASSUME Types, Sched, NEW p \in Procs, now = p,
           pc[p] \notin SleepPlaces \/ pc[p] \in {"d_back", "s_back"}
    PROVE  state[p] = Running /\ \A q \in Procs : tsk[q] = Idle
<1>1. state[p] = Running
  BY DEF Types, TypeOK, Sched, SleepsRight
<1>2. tsk[p] = Idle
  BY DEF Sched, TakenRight, Switching, SleepPlaces, DiskWait, SemaWait
<1>3. \A q \in Procs : q # p => tsk[q] = Idle
  BY DEF Sched, TakenRight
<1> QED BY <1>1, <1>2, <1>3

\* While such a process runs its own code nothing changes but its place.
LEMMA SchedPlain ==
    ASSUME Types, Sched, NEW p \in Procs, NEW l, now = p, state[p] = Running,
           \A q \in Procs : tsk[q] = Idle,
           Goto(p, l), UNCHANGED <<now, ready, state, tsk, fault>>
    PROVE  Sched'
BY DEF Types, TypeOK, Sched, TakenRight, SleepsRight, InSchedule, Goto, Running, Sleeping

\* It goes to sleep, with interrupts enabled, before its schedule.
LEMMA SchedSleeps ==
    ASSUME Types, Sched, NEW p \in Procs, NEW l \in {"d_schedule", "s_add"},
           now = p, \A q \in Procs : tsk[q] = Idle, Goto(p, l),
           state' = [state EXCEPT ![p] = Sleeping],
           UNCHANGED <<now, ready, tsk, fault>>
    PROVE  Sched'
<1> USE SleepersAssumption DEF Types, TypeOK, Goto
<1>1. fault' = "none" /\ now' \notin ready'
  BY DEF Sched
<1>2. \A q \in ready' : state'[q] = Running
  BY DEF Sched
<1>3. ASSUME NEW q \in Procs PROVE TakenRight(q)' /\ SleepsRight(q)'
  <2>1. TakenRight(q)'
    BY DEF TakenRight
  <2>2. CASE q = p
    BY <2>1, <2>2 DEF SleepsRight, SleepPlaces, DiskWait, Running, Sleeping
  <2>3. CASE q # p
    <3>1. state'[q] = state[q] /\ pc'[q] = pc[q] /\ (InSchedule(q)' <=> InSchedule(q))
      BY <2>3 DEF InSchedule
    <3>2. SleepsRight(q)'
      BY <3>1 DEF Sched, SleepsRight
    <3> QED BY <2>1, <3>2
  <2> QED BY <2>2, <2>3
<1> QED BY <1>1, <1>2, <1>3 DEF Sched

LEMMA SchedTake ==
    ASSUME Types, Sched, NEW p \in Procs, NEW l \in {"d_schedule", "s_schedule"},
           NEW m \in Switching, ScheduleTake(p, l, m)
    PROVE  Sched'
<1> USE SleepersAssumption DEF Types, TypeOK
<1>0. now = p /\ pc[p] = l
  BY DEF ScheduleTake, At
<1>1. \A q \in Procs : tsk[q] = Idle
  BY <1>0 DEF Sched, TakenRight, Switching
<1>2. PICK t \in Candidates : tsk' = [tsk EXCEPT ![p] = t] /\ ready' = ready \ {t}
  BY DEF ScheduleTake
<1>3. t # Idle => t \in ready /\ t \in Procs /\ t # p /\ state[t] = Running
  BY <1>0, <1>2 DEF Candidates, Sched
<1>4. pc' = [pc EXCEPT ![p] = m] /\ UNCHANGED <<now, state, fault>>
  BY DEF ScheduleTake, Goto
<1>5. fault' = "none" /\ now' \notin ready'
  BY <1>2, <1>4 DEF Sched
<1>6. \A q \in ready' : state'[q] = Running
  BY <1>2, <1>4 DEF Sched
<1>7. ASSUME NEW q \in Procs PROVE TakenRight(q)' /\ SleepsRight(q)'
  <2>1. TakenRight(q)'
    BY <1>0, <1>1, <1>2, <1>3, <1>4 DEF TakenRight
  <2>2. state'[q] = Running => InSchedule(q)'
    <3>1. ASSUME state'[q] = Running PROVE InSchedule(q)
      BY <1>4, <3>1 DEF Sched, SleepsRight
    <3>2. CASE q = t
      <4>1. tsk'[p] = q /\ q # p
        BY <1>2, <1>3, <3>2
      <4> QED BY <4>1 DEF InSchedule
    <3>3. CASE q # t
      <4>1. q \in ready => q \in ready'
        BY <1>2, <3>3
      <4> QED BY <1>1, <1>4, <3>1, <4>1 DEF InSchedule
    <3> QED BY <3>2, <3>3
  <2>3. state'[q] = Sleeping => /\ pc'[q] \in SleepPlaces
                                /\ now' = q => pc'[q] \notin {"d_back", "s_back"}
                                /\ now' # q => pc'[q] # "s_add"
    BY <1>0, <1>4 DEF Sched, SleepsRight, SleepPlaces, Switching, DiskWait, SemaWait
  <2> QED BY <2>1, <2>2, <2>3 DEF SleepsRight
<1> QED BY <1>5, <1>6, <1>7 DEF Sched

LEMMA SchedSwitch ==
    ASSUME Types, Sched, NEW p \in Procs, NEW l \in Switching,
           NEW m \in {"d_back", "s_back"}, ScheduleSwitch(p, l, m)
    PROVE  Sched'
<1> USE SleepersAssumption DEF Types, TypeOK
<1>0. now = p /\ pc[p] = l /\ p \notin ready
  BY DEF ScheduleSwitch, At, Sched
<1>1. \A q \in Procs : q # p => tsk[q] = Idle
  BY <1>0 DEF Sched, TakenRight
<1> DEFINE t == tsk[p]
<1>2. t # Idle => t \in Procs /\ t # p /\ t \notin ready /\ state[t] = Running
  BY DEF Sched, TakenRight
<1>3. /\ pc' = [pc EXCEPT ![p] = m] /\ UNCHANGED state
      /\ tsk' = [tsk EXCEPT ![p] = Idle]
  BY DEF ScheduleSwitch, Goto
<1>4. \/ state[p] = Sleeping /\ now' = t /\ ready' = ready /\ fault' = fault
      \/ state[p] = Running /\ now' = t /\ ready' = ready \cup {p} /\ fault' = fault
      \/ state[p] = Running /\ now' = p /\ ready' = ready \cup ({t} \ {Idle}) /\ fault' = fault
  BY <1>0, <1>2 DEF ScheduleSwitch, Insert
<1>5. fault' = "none" /\ now' \notin ready'
  BY <1>0, <1>2, <1>4 DEF Sched
<1>6. \A q \in ready' : state'[q] = Running
  BY <1>2, <1>3, <1>4 DEF Sched
<1>7. ASSUME NEW q \in Procs PROVE TakenRight(q)' /\ SleepsRight(q)'
  <2>1. TakenRight(q)'
    BY <1>1, <1>3 DEF TakenRight
  <2>2. state'[q] = Running => InSchedule(q)'
    <3>1. ASSUME state'[q] = Running PROVE q = p \/ q \in ready \/ q = t
      <4>1. InSchedule(q)
        BY <1>3, <3>1 DEF Sched, SleepsRight
      <4>2. \A r \in Procs \ {q} : tsk[r] = q => r = p
        BY <1>1
      <4> QED BY <1>0, <4>1, <4>2 DEF InSchedule
    <3>2. state'[q] = Running => q = now' \/ q \in ready'
      BY <1>2, <1>3, <1>4, <3>1 DEF Running, Sleeping
    <3> QED BY <3>2 DEF InSchedule
  <2>3. state'[q] = Sleeping => /\ pc'[q] \in SleepPlaces
                                /\ now' = q => pc'[q] \notin {"d_back", "s_back"}
                                /\ now' # q => pc'[q] # "s_add"
    <3>1. CASE q = p
      BY <1>2, <1>3, <1>4, <3>1 DEF SleepPlaces, DiskWait, SemaWait, Running, Sleeping
    <3>2. CASE q # p
      <4>1. state'[q] = Sleeping => now' # q
        BY <1>2, <1>3, <1>4, <3>2 DEF Running, Sleeping
      <4> QED BY <1>0, <1>3, <3>2, <4>1 DEF Sched, SleepsRight
    <3> QED BY <3>1, <3>2
  <2> QED BY <2>1, <2>2, <2>3 DEF SleepsRight
<1> QED BY <1>5, <1>6, <1>7 DEF Sched

\* The schedule of an interrupt; what it might lose is behind a window.
LEMMA SchedTick ==
    ASSUME Types, Sched, Tick, window' = "none"
    PROVE  Sched'
<1> USE SleepersAssumption DEF Types, TypeOK
<1>1. PICK t \in Candidates :
          /\ now' = t
          /\ IF now # Idle /\ state[now] = Running
             THEN Insert(ready \ {t}, now)
             ELSE ready' = ready \ {t} /\ UNCHANGED fault
  BY DEF Tick, Preempt
<1>2. t # Idle => t \in ready /\ t \in Procs /\ t # now /\ state[t] = Running
  BY <1>1 DEF Candidates, Sched
<1>3. UNCHANGED <<state, pc, tsk>>
  BY DEF Tick, Preempt
<1>4. now # Idle => tsk[now] = Idle /\ pc[now] # "s_add"
  BY DEF Tick, Preempt, Hit
<1>5. \A q \in Procs : tsk[q] = Idle
  BY <1>4 DEF Sched, TakenRight
<1>6. /\ fault' = fault
      /\ ready' = IF now # Idle /\ state[now] = Running
                  THEN (ready \ {t}) \cup {now} ELSE ready \ {t}
  BY <1>1, <1>2 DEF Insert, Sched
<1>7. fault' = "none" /\ now' \notin ready'
  BY <1>1, <1>2, <1>6 DEF Sched
<1>8. \A q \in ready' : state'[q] = Running
  BY <1>3, <1>6 DEF Sched
<1>9. ASSUME NEW q \in Procs PROVE TakenRight(q)' /\ SleepsRight(q)'
  <2>1. TakenRight(q)'
    BY <1>3, <1>5 DEF TakenRight
  <2>2. state'[q] = Running => InSchedule(q)'
    <3>1. ASSUME state'[q] = Running PROVE q = now \/ q \in ready
      BY <1>3, <1>5, <3>1 DEF Sched, SleepsRight, InSchedule
    <3>2. state'[q] = Running => q = now' \/ q \in ready'
      BY <1>1, <1>3, <1>6, <3>1
    <3> QED BY <3>2 DEF InSchedule
  <2>3. state'[q] = Sleeping => /\ pc'[q] \in SleepPlaces
                                /\ now' = q => pc'[q] \notin {"d_back", "s_back"}
                                /\ now' # q => pc'[q] # "s_add"
    <3>1. state'[q] = Sleeping => now' # q
      BY <1>1, <1>2, <1>3 DEF Running, Sleeping
    <3>2. state'[q] = Sleeping => pc[q] \in SleepPlaces /\ pc[q] # "s_add"
      BY <1>3, <1>4 DEF Sched, SleepsRight, Running, Sleeping
    <3> QED BY <1>3, <3>1, <3>2
  <2> QED BY <2>1, <2>2, <2>3 DEF SleepsRight
<1> QED BY <1>7, <1>8, <1>9 DEF Sched

\* A process that sleeps and is not in schedule any more is woken; the
\* process that runs may leave a place where it does not sleep.
LEMMA SchedWakes ==
    ASSUME Types, Sched, NEW q \in Procs, state[q] = Sleeping, now # q,
           state' = [state EXCEPT ![q] = Running], Insert(ready, q),
           UNCHANGED <<now, tsk>>,
           \/ UNCHANGED pc
           \/ \E p \in Procs : /\ now = p /\ state[p] = Running /\ Goto(p, "home")
                               /\ \A r \in Procs : tsk[r] = Idle
    PROVE  Sched'
<1> USE SleepersAssumption DEF Types, TypeOK
<1>1. q \notin ready
  BY DEF Sched, Running, Sleeping
<1>2. ready' = ready \cup {q} /\ fault' = fault
  BY <1>1 DEF Insert
<1>3. fault' = "none" /\ now' \notin ready'
  BY <1>2 DEF Sched
<1>4. \A r \in ready' : state'[r] = Running
  BY <1>2 DEF Sched
<1>5. ASSUME NEW r \in Procs PROVE TakenRight(r)' /\ SleepsRight(r)'
  <2>1. tsk[r] # Idle => tsk[r] # q
    BY DEF Sched, TakenRight, Running, Sleeping
  <2>2. TakenRight(r)'
    <3>1. tsk'[r] = tsk[r] /\ now' = now
      OBVIOUS
    <3>2. tsk[r] # Idle => pc'[r] = pc[r]
      OBVIOUS
    <3>3. tsk[r] # Idle => tsk[r] \notin ready'
      BY <1>2, <2>1 DEF Sched, TakenRight
    <3>4. tsk[r] # Idle => tsk[r] \in Procs /\ state'[tsk[r]] = Running
      BY <2>1 DEF Sched, TakenRight
    <3> QED BY <3>1, <3>2, <3>3, <3>4 DEF Sched, TakenRight
  <2>3. state'[r] = Running => InSchedule(r)'
    <3>1. CASE r = q
      BY <1>2, <3>1 DEF InSchedule
    <3>2. CASE r # q
      <4>1. state'[r] = state[r]
        BY <3>2
      <4>2. InSchedule(r) => InSchedule(r)'
        BY <1>2 DEF InSchedule
      <4> QED BY <4>1, <4>2 DEF Sched, SleepsRight
    <3> QED BY <3>1, <3>2
  <2>4. state'[r] = Sleeping => /\ state[r] = Sleeping /\ pc'[r] = pc[r]
    BY DEF Goto, Running, Sleeping
  <2> QED BY <2>2, <2>3, <2>4 DEF Sched, SleepsRight
<1> QED BY <1>3, <1>4, <1>5 DEF Sched

-----------------------------------------------------------------------------
(* The semaphore: no unit is made or lost, however the operations overlap.  *)

LEMMA HandedIs ==
    ASSUME Types
    PROVE  Handed = {p \in Procs : pc[p] \in SemaWait /\ ~Waits(p)}
BY DEF Handed, SemaWait, Waits, In

\* A step that leaves the semaphore alone, of a process and of the others.
SemaSame(q) ==
    \/ pc'[q] = pc[q] /\ state'[q] = state[q]
    \/ pc'[q] \notin SemaPlaces /\ pc[q] \notin SemaPlaces
    \/ pc'[q] \in SemaWait /\ pc[q] \in SemaWait /\ state'[q] = state[q]

LEMMA SemaStill ==
    ASSUME Types, Types', Semas, UNCHANGED semaphoreVars, \A q \in Procs : SemaSame(q),
           \A q \in Procs : pc[q] = "s_del" => now' = now
    PROVE  Semas' /\ Owners' = Owners /\ overdrawn' = overdrawn
<1>1. /\ counter' = counter /\ waiting' = waiting /\ waking' = waking /\ holds' = holds
      /\ overtaken' = overtaken /\ overdrawn' = overdrawn /\ missed' = missed
  BY DEF semaphoreVars
<1>2. \A q \in Procs : /\ pc'[q] \in SemaWait <=> pc[q] \in SemaWait
                       /\ pc[q] \in SemaWait \cup {"s_add"} => state'[q] = state[q]
                       /\ \A l \in InSemaphore : pc'[q] = l <=> pc[q] = l
  BY DEF SemaSame, SemaPlaces, InSemaphore, SemaWait
<1>3. WokenOnce'
  BY <1>1, <1>2 DEF Semas, WokenOnce, InSemaphore
<1>4. Once(waiting)'
  BY <1>1 DEF Semas, Once
<1>5. ASSUME NEW q \in Procs PROVE SemaPlace(q)' /\ Tested(q)'
  <2>1. Waits(q)' <=> Waits(q)
    BY <1>1 DEF Waits, In
  <2>2. Woken(q)' <=> Woken(q)
    BY <1>1, <1>2 DEF Woken, WokenBy, InSemaphore
  <2>3. waking'[q] = waking[q] /\ (\A r \in Procs : Waits(r)' <=> Waits(r))
    BY <1>1 DEF Waits, In
  <2>4. SemaPlace(q) /\ Tested(q)
    BY DEF Semas
  <2>5. SemaPlace(q)'
    BY <1>1, <1>2, <2>1, <2>2, <2>3, <2>4 DEF SemaPlace, InSemaphore
  <2>6. Tested(q)'
    BY <1>1, <1>2, <2>4 DEF Tested, InSemaphore
  <2> QED BY <2>5, <2>6
<1>6. Owners' = Owners
  <2>1. Handed' = Handed
    BY <1>1, <1>2, HandedIs DEF Handed, SemaWait
  <2> QED BY <1>1, <2>1 DEF Owners
<1>7. UnitsRight'
  BY <1>1, <1>6 DEF Semas, UnitsRight
<1> QED BY <1>1, <1>3, <1>4, <1>5, <1>6, <1>7 DEF Semas

\* A step that changes what q has tested has overtaken q.
StillTested(q) ==
    q \notin overtaken' =>
        /\ q \notin overtaken
        /\ pc[q] \in {"s_dec", "s_state", "s_add"} => counter' = counter
        /\ pc[q] \in {"s_inc", "s_unlink"} => waiting' = waiting

\* What a step of p inside the semaphore leaves of another process.
LEMMA SemaOthers ==
    ASSUME Types, Semas, NEW p \in Procs, now = p, NEW l, Goto(p, l),
           pc[p] # "s_queue", l # "s_queue", pc[p] \notin SemaWait \/ state[p] = Running,
           \A r \in Procs \ {p} : /\ state'[r] = state[r] /\ waking'[r] = waking[r]
                                  /\ (Waits(r)' <=> Waits(r)),
           holds' \ {p} = holds \ {p},
           NEW q \in Procs \ {p}, StillTested(q)
    PROVE  SemaPlace(q)' /\ Tested(q)'
<1>1. /\ \A r \in Procs \ {p} : pc'[r] = pc[r]
      /\ pc'[p] = l /\ (q \in holds' <=> q \in holds)
  BY DEF Types, Goto
<1>2. Woken(q)' <=> Woken(q)
  BY <1>1 DEF Woken, WokenBy
<1>3. SemaPlace(q) /\ Tested(q)
  BY DEF Semas
<1>4. pc[q] # "s_del"
  BY <1>3 DEF SemaPlace
<1>5. Tested(q)'
  BY <1>1, <1>3 DEF Tested, StillTested
<1>6. pc[q] = "s_queue" => waking[q] \in Procs \ {p}
  BY <1>3 DEF SemaPlace, Running, Sleeping
<1>7. SemaPlace(q)'
  BY <1>1, <1>2, <1>3, <1>4, <1>6 DEF SemaPlace
<1> QED BY <1>5, <1>7

\* The step of p as a whole.
LEMMA SemaMoves ==
    ASSUME Types, Semas, NEW p \in Procs, now = p, NEW l, Goto(p, l),
           pc[p] # "s_queue", l # "s_queue", pc[p] \notin SemaWait \/ state[p] = Running,
           \A r \in Procs \ {p} : /\ state'[r] = state[r] /\ waking'[r] = waking[r]
                                  /\ (Waits(r)' <=> Waits(r)) /\ StillTested(r),
           holds' \ {p} = holds \ {p},
           SemaPlace(p)', Tested(p)', Once(waiting)', UnitsRight'
    PROVE  Semas'
<1>1. /\ \A r \in Procs \ {p} : pc'[r] = pc[r]
      /\ pc'[p] = l
  BY DEF Types, Goto
<1>2. WokenOnce'
  BY <1>1 DEF Semas, WokenOnce
<1>3. \A q \in Procs \ {p} : SemaPlace(q)' /\ Tested(q)'
  BY SemaOthers
<1> QED BY <1>2, <1>3 DEF Semas

\* A process begins an operation.
LEMMA SemaBegins ==
    ASSUME Types, Sched, Semas, NEW p \in Procs, now = p, now' = now, pc[p] = "home",
           NEW l \in {"s_dec", "s_state", "s_inc", "s_unlink"}, Goto(p, l),
           UNCHANGED <<state, semaphoreVars>>,
           l \in {"s_dec", "s_state"} => p \notin holds /\ (l = "s_dec" <=> counter > 0),
           l \in {"s_inc", "s_unlink"} => p \in holds /\ (l = "s_inc" <=> waiting = <<>>)
    PROVE  Semas' /\ Owners' = Owners
<1>1. /\ counter' = counter /\ waiting' = waiting /\ waking' = waking /\ holds' = holds
      /\ overtaken' = overtaken /\ overdrawn' = overdrawn /\ missed' = missed
      /\ state' = state
  BY DEF semaphoreVars
<1>2. /\ pc'[p] = l
      /\ \A q \in Procs \ {p} : pc'[q] = pc[q]
  BY DEF Types, Goto
<1>3. Once(waiting)'
  BY <1>1 DEF Semas, Once
<1>4. \A q \in Procs : Waits(q)' <=> Waits(q)
  BY <1>1 DEF Waits, In
<1>5. \A q \in Procs : StillTested(q)
  BY <1>1 DEF StillTested
<1>6. Tested(p)'
  BY <1>1, <1>2 DEF Tested, Types
<1>7. SemaPlace(p)'
  <2>1. ~Waits(p)
    BY DEF Semas, SemaPlace, SemaWait
  <2> QED BY <1>1, <1>2, <1>4, <2>1 DEF SemaPlace, SemaWait
<1>8. Owners' = Owners
  <2>1. Handed' = Handed
    BY <1>1, <1>2 DEF Handed
  <2> QED BY <1>1, <2>1 DEF Owners
<1>9. UnitsRight'
  BY <1>1, <1>8 DEF Semas, UnitsRight
<1>10. pc[p] # "s_queue" /\ l # "s_queue" /\ pc[p] \notin SemaWait
  BY DEF SemaWait
<1>11. Semas'
  BY <1>1, <1>3, <1>4, <1>5, <1>6, <1>7, <1>9, <1>10, SemaMoves
<1> QED BY <1>8, <1>11

\* The counter of free units and the owners stay in step.
LEMMA UnitTaken ==
    ASSUME Types, Types', UnitsRight, NEW p, p \notin Owners,
           counter' = counter - 1, waiting' = waiting, missed' = missed,
           Owners' = Owners \cup {p}, Units \in Nat, counter <= 0 => overdrawn',
           overdrawn => overdrawn'
    PROVE  /\ UnitsRight'
           /\ counter <= 0 <=> Cardinality(Owners) >= Units
<1>1. IsFiniteSet(Owners) /\ Cardinality(Owners) \in Nat
  BY FS_CardinalityType DEF UnitsRight
<1>2. IsFiniteSet(Owners \cup {p}) /\ Cardinality(Owners \cup {p}) = Cardinality(Owners) + 1
  BY <1>1, FS_AddElement
<1> HIDE DEF Owners
<1>3. counter \in Int
  BY DEF Types
<1> QED BY <1>1, <1>2, <1>3 DEF UnitsRight

LEMMA UnitGivenBack ==
    ASSUME Types, UnitsRight, NEW p, p \in Owners,
           counter' = counter + 1, waiting' = waiting, overdrawn' = overdrawn,
           Owners' = Owners \ {p}, missed => missed', waiting # <<>> => missed'
    PROVE  UnitsRight'
<1>1. IsFiniteSet(Owners) /\ Cardinality(Owners) \in Nat
  BY FS_CardinalityType DEF UnitsRight
<1>2. IsFiniteSet(Owners \ {p}) /\ Cardinality(Owners \ {p}) = Cardinality(Owners) - 1
  BY <1>1, FS_RemoveElement
<1> HIDE DEF Owners
<1>3. counter \in Int
  BY DEF Types
<1> QED BY <1>1, <1>2, <1>3 DEF UnitsRight

LEMMA UnitHandedOver ==
    ASSUME UnitsRight, NEW p, NEW q, p \in Owners, q \notin Owners, waiting # <<>>,
           counter' = counter, overdrawn' = overdrawn, missed' = missed,
           Owners' = (Owners \ {p}) \cup {q}
    PROVE  UnitsRight'
<1>1. IsFiniteSet(Owners) /\ Cardinality(Owners) \in Nat
  BY FS_CardinalityType DEF UnitsRight
<1>2. IsFiniteSet(Owners \ {p}) /\ Cardinality(Owners \ {p}) = Cardinality(Owners) - 1
  BY <1>1, FS_RemoveElement
<1>3. q \notin Owners \ {p}
  OBVIOUS
<1>4. /\ IsFiniteSet((Owners \ {p}) \cup {q})
      /\ Cardinality((Owners \ {p}) \cup {q}) = Cardinality(Owners)
  BY <1>1, <1>2, <1>3, FS_AddElement
<1> HIDE DEF Owners
<1> QED BY <1>1, <1>4 DEF UnitsRight

\* atomic_dec: the pool gives p a unit, or tells that it had none.
LEMMA SemaDec ==
    ASSUME Types, Types', Sched, Semas, NEW p \in Procs, atomic_dec(p)
    PROVE  /\ Semas'
           /\ p \notin Owners /\ Owners' = Owners \cup {p}
           /\ overdrawn' = (overdrawn \/ Cardinality(Owners) >= Units)
<1>1. /\ now = p /\ pc[p] = "s_dec" /\ Goto(p, "home") /\ counter' = counter - 1
      /\ holds' = holds \cup {p} /\ waiting' = waiting /\ waking' = waking
      /\ state' = state /\ missed' = missed
      /\ overtaken' = (overtaken \ {p}) \cup
                      {q \in Procs \ {p} : pc[q] \in {"s_dec", "s_state", "s_add"}}
      /\ overdrawn' = (overdrawn \/ (p \in overtaken /\ counter <= 0))
  BY DEF atomic_dec, At, CounterChanges, Outdates
<1>2. /\ pc'[p] = "home"
      /\ \A q \in Procs \ {p} : pc'[q] = pc[q]
  BY <1>1 DEF Types, Goto
<1>3. SemaPlace(p) /\ Tested(p) /\ Once(waiting) /\ UnitsRight
  BY DEF Semas
<1>4. ~Waits(p) /\ p \notin holds
  BY <1>1, <1>3 DEF SemaPlace, SemaWait
<1>5. counter <= 0 => p \in overtaken
  BY <1>1, <1>3 DEF Tested, Types
<1>6. Once(waiting)'
  BY <1>1, <1>3 DEF Once
<1>7. \A q \in Procs : Waits(q)' <=> Waits(q)
  BY <1>1 DEF Waits, In
<1>8. \A q \in Procs \ {p} : StillTested(q)
  BY <1>1 DEF StillTested
<1>9. p \notin Owners /\ Owners' = Owners \cup {p}
  <2>1. p \notin Handed /\ Handed' = Handed
    BY <1>1, <1>2 DEF Handed
  <2> QED BY <1>1, <1>4, <2>1 DEF Owners
<1>10. /\ UnitsRight'
       /\ counter <= 0 <=> Cardinality(Owners) >= Units
  BY <1>1, <1>3, <1>5, <1>9, UnitTaken, SleepersAssumption
<1>11. overdrawn' = (overdrawn \/ Cardinality(Owners) >= Units)
  BY <1>1, <1>5, <1>10
<1>12. SemaPlace(p)' /\ Tested(p)'
  BY <1>1, <1>2, <1>4, <1>7 DEF SemaPlace, Tested, SemaWait
<1>13. Semas'
  <2>1. "home" # "s_queue" /\ pc[p] # "s_queue" /\ pc[p] \notin SemaWait
    BY <1>1 DEF SemaWait
  <2>2. holds' \ {p} = holds \ {p}
    BY <1>1
  <2> QED BY <1>1, <1>6, <1>7, <1>8, <1>10, <1>12, <2>1, <2>2, SemaMoves
<1> QED BY <1>9, <1>11, <1>13

\* atomic_inc: p gives its unit back to the pool.
LEMMA SemaInc ==
    ASSUME Types, Types', Sched, Semas, NEW p \in Procs, atomic_inc(p)
    PROVE  /\ Semas'
           /\ p \in Owners /\ Owners' = Owners \ {p}
<1>1. /\ now = p /\ pc[p] = "s_inc" /\ Goto(p, "home") /\ counter' = counter + 1
      /\ holds' = holds \ {p} /\ waiting' = waiting /\ waking' = waking
      /\ state' = state /\ overdrawn' = overdrawn
      /\ overtaken' = (overtaken \ {p}) \cup
                      {q \in Procs \ {p} : pc[q] \in {"s_dec", "s_state", "s_add"}}
      /\ missed' = (missed \/ (p \in overtaken /\ waiting # <<>>))
  BY DEF atomic_inc, At, CounterChanges, Outdates
<1>2. /\ pc'[p] = "home"
      /\ \A q \in Procs \ {p} : pc'[q] = pc[q]
  BY <1>1 DEF Types, Goto
<1>3. SemaPlace(p) /\ Tested(p) /\ Once(waiting) /\ UnitsRight
  BY DEF Semas
<1>4. ~Waits(p) /\ p \in holds
  BY <1>1, <1>3 DEF SemaPlace, SemaWait
<1>5. waiting # <<>> => p \in overtaken
  BY <1>1, <1>3 DEF Tested
<1>6. Once(waiting)'
  BY <1>1, <1>3 DEF Once
<1>7. \A q \in Procs : Waits(q)' <=> Waits(q)
  BY <1>1 DEF Waits, In
<1>8. \A q \in Procs \ {p} : StillTested(q)
  BY <1>1 DEF StillTested
<1>9. p \in Owners /\ Owners' = Owners \ {p}
  <2>1. p \notin Handed /\ Handed' = Handed
    BY <1>1, <1>2 DEF Handed
  <2> QED BY <1>1, <1>4, <2>1 DEF Owners
<1>10. UnitsRight'
  <2>1. (missed => missed') /\ (waiting # <<>> => missed')
    BY <1>1, <1>5
  <2> QED BY <1>1, <1>3, <1>9, <2>1, UnitGivenBack
<1>11. SemaPlace(p)' /\ Tested(p)'
  BY <1>1, <1>2, <1>4, <1>7 DEF SemaPlace, Tested, SemaWait
<1>12. Semas'
  <2>1. "home" # "s_queue" /\ pc[p] # "s_queue" /\ pc[p] \notin SemaWait
    BY <1>1 DEF SemaWait
  <2>2. holds' \ {p} = holds \ {p}
    BY <1>1
  <2> QED BY <1>1, <1>6, <1>7, <1>8, <1>10, <1>11, <2>1, <2>2, SemaMoves
<1> QED BY <1>9, <1>12

LEMMA SemaDownState ==
    ASSUME Types, Sched, Semas, NEW p \in Procs, DownState(p)
    PROVE  Semas' /\ Owners' = Owners
<1>1. /\ now = p /\ pc[p] = "s_state" /\ Goto(p, "s_add") /\ counter' = counter
      /\ holds' = holds /\ waiting' = waiting /\ waking' = waking
      /\ overtaken' = overtaken /\ overdrawn' = overdrawn /\ missed' = missed
      /\ state' = [state EXCEPT ![p] = Sleeping]
  BY DEF DownState, At, semaphoreVars
<1>2. /\ pc'[p] = "s_add" /\ state'[p] = Sleeping
      /\ \A q \in Procs \ {p} : pc'[q] = pc[q] /\ state'[q] = state[q]
  BY <1>1 DEF Types, TypeOK, Goto
<1>3. SemaPlace(p) /\ Tested(p) /\ Once(waiting) /\ UnitsRight
  BY DEF Semas
<1>4. ~Waits(p) /\ p \notin holds
  BY <1>1, <1>3 DEF SemaPlace, SemaWait
<1>5. Once(waiting)'
  BY <1>1, <1>3 DEF Once
<1>6. \A q \in Procs : (Waits(q)' <=> Waits(q)) /\ StillTested(q)
  BY <1>1 DEF Waits, In, StillTested
<1>7. SemaPlace(p)' /\ Tested(p)'
  BY <1>1, <1>2, <1>3, <1>4, <1>6 DEF SemaPlace, Tested, SemaWait
<1>8. Owners' = Owners
  <2>1. Handed' = Handed
    BY <1>1, <1>2 DEF Handed
  <2> QED BY <1>1, <2>1 DEF Owners
<1>9. UnitsRight'
  BY <1>1, <1>3, <1>8 DEF UnitsRight
<1>10. Semas'
  <2>1. "s_add" # "s_queue" /\ pc[p] # "s_queue" /\ pc[p] \notin SemaWait
    BY <1>1 DEF SemaWait
  <2> QED BY <1>1, <1>2, <1>5, <1>6, <1>7, <1>9, <2>1, SemaMoves
<1> QED BY <1>8, <1>10

\* __down puts p at the end of the list.
LEMMA SemaDownAdd ==
    ASSUME Types, Sched, Semas, NEW p \in Procs, DownAdd(p)
    PROVE  Semas' /\ Owners' = Owners
<1>1. /\ now = p /\ pc[p] = "s_add" /\ Goto(p, "s_schedule") /\ counter' = counter
      /\ holds' = holds /\ waiting' = Append(waiting, p) /\ waking' = waking
      /\ state' = state /\ overdrawn' = overdrawn
      /\ overtaken' = (overtaken \ {p}) \cup
                      {q \in Procs \ {p} : pc[q] \in {"s_inc", "s_unlink"}}
      /\ missed' = (missed \/ (p \in overtaken /\ counter > 0))
  BY DEF DownAdd, At, ListChanges, Outdates
<1>2. /\ pc'[p] = "s_schedule"
      /\ \A q \in Procs \ {p} : pc'[q] = pc[q]
  BY <1>1 DEF Types, Goto
<1>3. SemaPlace(p) /\ Tested(p) /\ Once(waiting) /\ UnitsRight
  BY DEF Semas
<1>4. ~Waits(p) /\ p \notin holds /\ state[p] = Sleeping
  BY <1>1, <1>3 DEF SemaPlace, SemaWait
<1>5. counter > 0 => p \in overtaken
  BY <1>1, <1>3 DEF Tested, Types
<1>6. /\ Len(waiting') = Len(waiting) + 1 /\ Len(waiting) \in Nat
      /\ waiting'[Len(waiting) + 1] = p
      /\ \A i \in 1 .. Len(waiting) : waiting'[i] = waiting[i]
  BY <1>1 DEF Types
<1>7. Once(waiting)'
  BY <1>3, <1>4, <1>6 DEF Once, Waits, In
<1>8. Waits(p)'
  <2>1. Len(waiting) + 1 \in 1 .. Len(waiting')
    BY <1>6
  <2> QED BY <1>6, <2>1 DEF Waits, In
<1>9. \A q \in Procs \ {p} : Waits(q)' <=> Waits(q)
  <2> TAKE q \in Procs \ {p}
  <2>1. ASSUME Waits(q) PROVE Waits(q)'
    <3>1. PICK i \in 1 .. Len(waiting) : waiting[i] = q
      BY <2>1 DEF Waits, In
    <3>2. i \in 1 .. Len(waiting') /\ waiting'[i] = q
      BY <1>6, <3>1
    <3> QED BY <3>2 DEF Waits, In
  <2>2. ASSUME Waits(q)' PROVE Waits(q)
    <3>1. PICK i \in 1 .. Len(waiting') : waiting'[i] = q
      BY <2>2 DEF Waits, In
    <3>2. i \in 1 .. Len(waiting) /\ waiting[i] = q
      BY <1>6, <3>1
    <3> QED BY <3>2 DEF Waits, In
  <2> QED BY <2>1, <2>2
<1>10. \A q \in Procs \ {p} : StillTested(q)
  BY <1>1 DEF StillTested
<1>11. SemaPlace(p)' /\ Tested(p)'
  <2>1. ~Woken(p)'
    <3>1. ASSUME NEW r \in Procs, pc'[r] = "s_queue", waking'[r] = p PROVE FALSE
      <4>1. SemaPlace(r) /\ pc[r] = "s_queue" /\ waking[r] = p
        BY <1>1, <1>2, <3>1 DEF Semas
      <4> QED BY <1>1, <4>1 DEF SemaPlace, SemaWait
    <3> QED BY <3>1 DEF Woken, WokenBy
  <2> QED BY <1>1, <1>2, <1>4, <1>8, <2>1 DEF SemaPlace, Tested, SemaWait
<1>12. Owners' = Owners
  <2>1. Handed = {q \in Procs \ {p} : pc[q] \in SemaWait /\ ~Waits(q)}
    BY <1>1, HandedIs DEF SemaWait
  <2>2. Handed' = {q \in Procs : pc'[q] \in SemaWait /\ ~Waits(q)'}
    BY DEF Handed, SemaWait, Waits, In
  <2>3. Handed' = {q \in Procs \ {p} : pc'[q] \in SemaWait /\ ~Waits(q)'}
    BY <1>8, <2>2
  <2>4. Handed' = Handed
    BY <1>2, <1>9, <2>1, <2>3
  <2> QED BY <1>1, <2>4 DEF Owners
<1>13. UnitsRight'
  <2>1. (missed => missed') /\ (counter > 0 => missed') /\ counter \in Int
    BY <1>1, <1>5 DEF Types
  <2> QED BY <1>1, <1>3, <1>12, <2>1 DEF UnitsRight
<1>14. Semas'
  <2>1. "s_schedule" # "s_queue" /\ pc[p] # "s_queue" /\ pc[p] \notin SemaWait
    BY <1>1 DEF SemaWait
  <2> QED BY <1>1, <1>7, <1>9, <1>10, <1>11, <1>13, <2>1, SemaMoves
<1> QED BY <1>12, <1>14

\* p comes back from its schedule with the unit it was handed.
LEMMA SemaReturns ==
    ASSUME Types, Sched, Semas, NEW p \in Procs, DownReturns(p)
    PROVE  Semas' /\ Owners' = Owners
<1>1. /\ now = p /\ pc[p] = "s_back" /\ Goto(p, "home") /\ counter' = counter
      /\ holds' = holds \cup {p} /\ waiting' = waiting /\ waking' = waking
      /\ overtaken' = overtaken /\ overdrawn' = overdrawn /\ missed' = missed
      /\ state' = state
  BY DEF DownReturns, At
<1>2. /\ pc'[p] = "home"
      /\ \A q \in Procs \ {p} : pc'[q] = pc[q]
  BY <1>1 DEF Types, Goto
<1>3. SemaPlace(p) /\ Once(waiting) /\ UnitsRight
  BY DEF Semas
<1>4. state[p] = Running
  BY <1>1, RunsHere
<1>5. ~Waits(p)
  BY <1>1, <1>3, <1>4 DEF SemaPlace, Running, Sleeping
<1>6. Once(waiting)'
  BY <1>1, <1>3 DEF Once
<1>7. \A q \in Procs : (Waits(q)' <=> Waits(q)) /\ StillTested(q)
  BY <1>1 DEF Waits, In, StillTested
<1>8. SemaPlace(p)' /\ Tested(p)'
  BY <1>1, <1>2, <1>5, <1>7 DEF SemaPlace, Tested, SemaWait
<1>9. Owners' = Owners
  <2>1. Handed = {q \in Procs : pc[q] \in SemaWait /\ ~Waits(q)}
    BY HandedIs
  <2>2. Handed' = {q \in Procs : pc'[q] \in SemaWait /\ ~Waits(q)'}
    BY DEF Handed, SemaWait, Waits, In
  <2>3. p \in Handed
    BY <1>1, <1>5, <2>1 DEF SemaWait
  <2>4. Handed' = Handed \ {p}
    BY <1>2, <1>7, <2>1, <2>2 DEF SemaWait
  <2> QED BY <1>1, <2>3, <2>4 DEF Owners
<1>10. UnitsRight'
  BY <1>1, <1>3, <1>9 DEF UnitsRight
<1>11. Semas'
  <2>1. "home" # "s_queue" /\ pc[p] # "s_queue"
    BY <1>1
  <2>2. holds' \ {p} = holds \ {p}
    BY <1>1
  <2> QED BY <1>1, <1>4, <1>6, <1>7, <1>8, <1>10, <2>1, <2>2, SemaMoves
<1> QED BY <1>9, <1>11

\* __up reads the first entry of the list; there is one as long as no window
\* is hit.
LEMMA SemaFirst ==
    ASSUME Types, Sched, Semas, NEW p \in Procs, UpFirst(p), window' = "none"
    PROVE  Semas' /\ Owners' = Owners /\ fault' = fault
<1>1. /\ now = p /\ now' = p /\ pc[p] = "s_unlink" /\ Goto(p, "s_del") /\ counter' = counter
      /\ holds' = holds /\ waiting' = waiting
      /\ overtaken' = overtaken /\ overdrawn' = overdrawn /\ missed' = missed
      /\ state' = state
  BY DEF UpFirst, At
<1>2. /\ pc'[p] = "s_del"
      /\ \A q \in Procs \ {p} : pc'[q] = pc[q]
  BY <1>1 DEF Types, Goto
<1>3. SemaPlace(p) /\ Tested(p) /\ Once(waiting) /\ UnitsRight
  BY DEF Semas
<1>4. ~Waits(p) /\ p \in holds
  BY <1>1, <1>3 DEF SemaPlace, SemaWait
<1>5. waiting # <<>>
  <2>1. ~(waiting = <<>> /\ p \in overtaken)
    BY DEF UpFirst, Hit
  <2> QED BY <1>1, <1>3, <2>1 DEF Tested
<1>6. waking' = [waking EXCEPT ![p] = Head(waiting)] /\ fault' = fault
  BY <1>5 DEF UpFirst
<1>7. waking'[p] = waiting[1] /\ \A q \in Procs \ {p} : waking'[q] = waking[q]
  BY <1>5, <1>6 DEF Types
<1>8. Once(waiting)'
  BY <1>1, <1>3 DEF Once
<1>9. \A q \in Procs : (Waits(q)' <=> Waits(q)) /\ StillTested(q)
  BY <1>1 DEF Waits, In, StillTested
<1>10. SemaPlace(p)' /\ Tested(p)'
  BY <1>1, <1>2, <1>4, <1>5, <1>7, <1>9 DEF SemaPlace, Tested, SemaWait
<1>11. Owners' = Owners
  <2>1. Handed' = Handed
    BY <1>1, <1>2 DEF Handed
  <2> QED BY <1>1, <2>1 DEF Owners
<1>12. UnitsRight'
  BY <1>1, <1>3, <1>11 DEF UnitsRight
<1>13. Semas'
  <2>1. "s_del" # "s_queue" /\ pc[p] # "s_queue" /\ pc[p] \notin SemaWait
    BY <1>1 DEF SemaWait
  <2> QED BY <1>1, <1>7, <1>8, <1>9, <1>10, <1>12, <2>1, SemaMoves
<1> QED BY <1>6, <1>11, <1>13

\* __up: the first process that waits has the unit of p.
LEMMA SemaUnlink ==
    ASSUME Types, Sched, Semas, NEW p \in Procs, UpUnlink(p)
    PROVE  /\ Semas'
           /\ \E h \in Procs : /\ p \in Owners /\ h \notin Owners
                               /\ Owners' = (Owners \ {p}) \cup {h}
<1>1. /\ now = p /\ pc[p] = "s_del" /\ Goto(p, "s_queue") /\ counter' = counter
      /\ holds' = holds \ {p} /\ state' = state /\ waking' = waking
      /\ waiting' = Tail(waiting) /\ overdrawn' = overdrawn /\ missed' = missed
      /\ overtaken' = (overtaken \ {p}) \cup
                      {q \in Procs \ {p} : pc[q] \in {"s_inc", "s_unlink"}}
  BY DEF UpUnlink, At, ListChanges, Outdates
<1>2. /\ pc'[p] = "s_queue"
      /\ \A q \in Procs \ {p} : pc'[q] = pc[q]
  BY <1>1 DEF Types, Goto
<1>3. SemaPlace(p) /\ Once(waiting) /\ UnitsRight
  BY DEF Semas
<1>4. ~Waits(p) /\ p \in holds /\ waiting # <<>> /\ waking[p] = waiting[1]
  BY <1>1, <1>3 DEF SemaPlace, SemaWait
<1>5. PICK h \in Procs : h = waiting[1]
  BY <1>4 DEF Types
<1>6. /\ Len(waiting) \in Nat \ {0} /\ Len(waiting') = Len(waiting) - 1
      /\ \A i \in 1 .. Len(waiting) - 1 : waiting'[i] = waiting[i + 1]
  BY <1>1, <1>4 DEF Types
<1>7. Once(waiting)'
  BY <1>3, <1>6 DEF Once
<1>8. Waits(h) /\ ~Waits(h)'
  <2>1. 1 \in 1 .. Len(waiting)
    BY <1>6
  <2>2. Waits(h)
    BY <1>5, <2>1 DEF Waits, In
  <2>3. ASSUME NEW i \in 1 .. Len(waiting'), waiting'[i] = h PROVE FALSE
    <3>1. i + 1 \in 1 .. Len(waiting) /\ waiting[i + 1] = h /\ i + 1 # 1
      BY <1>6, <2>3
    <3> QED BY <1>3, <1>5, <2>1, <3>1 DEF Once
  <2> QED BY <2>2, <2>3 DEF Waits, In
<1>9. \A q \in Procs \ {h} : Waits(q)' <=> Waits(q)
  <2> TAKE q \in Procs \ {h}
  <2>1. ASSUME Waits(q) PROVE Waits(q)'
    <3>1. PICK i \in 1 .. Len(waiting) : waiting[i] = q
      BY <2>1 DEF Waits, In
    <3>2. i # 1
      BY <1>5, <3>1
    <3>3. i - 1 \in 1 .. Len(waiting') /\ waiting'[i - 1] = q
      BY <1>6, <3>1, <3>2
    <3> QED BY <3>3 DEF Waits, In
  <2>2. ASSUME Waits(q)' PROVE Waits(q)
    <3>1. PICK i \in 1 .. Len(waiting') : waiting'[i] = q
      BY <2>2 DEF Waits, In
    <3>2. i + 1 \in 1 .. Len(waiting) /\ waiting[i + 1] = q
      BY <1>6, <3>1
    <3> QED BY <3>2 DEF Waits, In
  <2> QED BY <2>1, <2>2
<1>10. pc[h] \in SemaWait /\ state[h] = Sleeping /\ h # p /\ h \notin holds /\ ~Woken(h)
  <2>1. SemaPlace(h)
    BY DEF Semas
  <2> QED BY <1>1, <1>8, <2>1 DEF SemaPlace, SemaWait
<1>11. \A q \in Procs : pc[q] = "s_queue" => waking[q] # h
  BY <1>10 DEF Woken, WokenBy
<1>12. WokenOnce'
  BY <1>1, <1>2, <1>4, <1>5, <1>11 DEF Semas, WokenOnce
<1>13. ASSUME NEW q \in Procs PROVE SemaPlace(q)' /\ Tested(q)'
  <2>1. Woken(q)' <=> q = h \/ Woken(q)
    <3>1. \A r \in Procs : WokenBy(r, q)' <=> (r = p /\ q = h) \/ WokenBy(r, q)
      BY <1>1, <1>2, <1>4, <1>5 DEF WokenBy
    <3> QED BY <3>1 DEF Woken
  <2>2. SemaPlace(q) /\ Tested(q)
    BY DEF Semas
  <2>3. CASE q = p
    BY <1>1, <1>2, <1>4, <1>5, <1>8, <1>9, <1>10, <2>3 DEF SemaPlace, Tested, SemaWait
  <2>4. CASE q = h
    BY <1>1, <1>2, <1>8, <1>10, <2>1, <2>4 DEF SemaPlace, Tested, SemaWait
  <2>5. CASE q # p /\ q # h
    <3>1. pc'[q] = pc[q] /\ pc[q] # "s_del"
      BY <1>1, <1>2, <2>2, <2>5 DEF SemaPlace
    <3>2. Tested(q)'
      BY <1>1, <2>2, <2>5, <3>1 DEF Tested
    <3>3. pc[q] = "s_queue" => /\ waking[q] \in Procs \ {p, h}
                               /\ pc'[waking[q]] = pc[waking[q]]
      BY <1>1, <1>2, <1>11, <2>2 DEF SemaPlace, SemaWait
    <3>4. SemaPlace(q)'
      BY <1>1, <1>9, <2>1, <2>2, <2>5, <3>1, <3>3 DEF SemaPlace
    <3> QED BY <3>2, <3>4
  <2> QED BY <2>3, <2>4, <2>5
<1>14. p \in Owners /\ h \notin Owners /\ Owners' = (Owners \ {p}) \cup {h}
  <2>1. Handed = {q \in Procs : pc[q] \in SemaWait /\ ~Waits(q)}
    BY HandedIs
  <2>2. Handed' = {q \in Procs : pc'[q] \in SemaWait /\ ~Waits(q)'}
    BY DEF Handed, SemaWait, Waits, In
  <2>3. h \notin Handed /\ p \notin Handed
    BY <1>1, <1>8, <2>1 DEF SemaWait
  <2>4. Handed' = Handed \cup {h}
    BY <1>1, <1>2, <1>8, <1>9, <1>10, <2>1, <2>2 DEF SemaWait
  <2> QED BY <1>1, <1>4, <1>10, <2>3, <2>4 DEF Owners
<1>15. UnitsRight'
  BY <1>1, <1>3, <1>4, <1>14, UnitHandedOver
<1> QED BY <1>7, <1>12, <1>13, <1>14, <1>15 DEF Semas

\* __up: the process it has unlinked is queued.
LEMMA SemaQueue ==
    ASSUME Types, Sched, Semas, NEW p \in Procs, UpQueue(p)
    PROVE  Semas' /\ Owners' = Owners
<1>1. /\ now = p /\ pc[p] = "s_queue" /\ Goto(p, "home") /\ counter' = counter
      /\ holds' = holds /\ waiting' = waiting /\ waking' = [waking EXCEPT ![p] = Idle]
      /\ overtaken' = overtaken /\ overdrawn' = overdrawn /\ missed' = missed
      /\ state' = [state EXCEPT ![waking[p]] = Running]
  BY DEF UpQueue, At
<1>2. /\ pc'[p] = "home"
      /\ \A q \in Procs \ {p} : pc'[q] = pc[q] /\ waking'[q] = waking[q]
  BY <1>1 DEF Types, Goto
<1>3. SemaPlace(p) /\ Once(waiting) /\ UnitsRight
  BY DEF Semas
<1>4. PICK w \in Procs : w = waking[p]
  BY <1>1, <1>3 DEF SemaPlace
<1>5. /\ ~Waits(p) /\ p \notin holds
      /\ ~Waits(w) /\ pc[w] \in SemaWait /\ w # p /\ w \notin holds
  <2>1. SemaPlace(w)
    BY DEF Semas
  <2> QED BY <1>1, <1>3, <1>4, <2>1 DEF SemaPlace, SemaWait
<1>6. /\ state'[w] = Running
      /\ \A q \in Procs \ {w} : state'[q] = state[q]
  BY <1>1, <1>4 DEF Types, TypeOK
<1>7. Once(waiting)'
  BY <1>1, <1>3 DEF Once
<1>8. WokenOnce'
  BY <1>2 DEF Semas, WokenOnce
<1>9. \A q \in Procs : Waits(q)' <=> Waits(q)
  BY <1>1 DEF Waits, In
<1>10. \A q \in Procs \ {p} : pc[q] = "s_queue" => waking[q] # w
  BY <1>1, <1>4 DEF Semas, WokenOnce
<1>11. ASSUME NEW q \in Procs PROVE SemaPlace(q)' /\ Tested(q)'
  <2>1. Woken(q)' <=> Woken(q) /\ q # w
    <3>1. \A r \in Procs : WokenBy(r, q)' <=> r # p /\ WokenBy(r, q)
      BY <1>2 DEF WokenBy
    <3>2. WokenBy(p, q) <=> q = w
      BY <1>1, <1>4 DEF WokenBy
    <3>3. \A r \in Procs \ {p} : ~WokenBy(r, w)
      BY <1>10 DEF WokenBy
    <3> QED BY <3>1, <3>2, <3>3 DEF Woken
  <2>2. SemaPlace(q) /\ Tested(q)
    BY DEF Semas
  <2>3. CASE q = p
    BY <1>1, <1>2, <1>5, <1>9, <2>3 DEF SemaPlace, Tested, SemaWait
  <2>4. CASE q = w
    BY <1>1, <1>2, <1>5, <1>6, <1>9, <2>1, <2>4
       DEF SemaPlace, Tested, SemaWait, Running, Sleeping
  <2>5. CASE q # p /\ q # w
    <3>1. pc'[q] = pc[q] /\ pc[q] # "s_del"
      BY <1>1, <1>2, <2>2, <2>5 DEF SemaPlace
    <3>2. Tested(q)'
      BY <1>1, <2>2, <3>1 DEF Tested
    <3>3. pc[q] = "s_queue" => waking[q] \in Procs \ {p, w}
      BY <1>1, <1>10, <2>2, <2>5 DEF SemaPlace, SemaWait
    <3>4. SemaPlace(q)'
      BY <1>1, <1>2, <1>6, <1>9, <2>1, <2>2, <2>5, <3>1, <3>3 DEF SemaPlace
    <3> QED BY <3>2, <3>4
  <2> QED BY <2>3, <2>4, <2>5
<1>12. Owners' = Owners
  <2>1. Handed' = Handed
    BY <1>1, <1>2 DEF Handed
  <2> QED BY <1>1, <2>1 DEF Owners
<1>13. UnitsRight'
  BY <1>1, <1>3, <1>12 DEF UnitsRight
<1> QED BY <1>7, <1>8, <1>11, <1>12, <1>13 DEF Semas

-----------------------------------------------------------------------------
(* The driver: its list keeps its order.                                   *)

Outside == {"home"} \cup SemaPlaces

\* A step that leaves the driver's variables alone, of a process.
DiskSame(q) ==
    \/ pc'[q] = pc[q] /\ state'[q] = state[q]
    \/ pc'[q] \in Outside /\ pc[q] \in Outside
    \/ pc'[q] \in DiskWait /\ pc[q] \in DiskWait /\ state'[q] = state[q]
    \/ pc'[q] \in Outside /\ pc[q] \in DiskWait /\ state[q] = Running
    \/ pc'[q] = "d_schedule" /\ pc[q] = "d_sleep" /\ state'[q] = Sleeping
    \/ pc'[q] = "d_sleep" /\ pc[q] = "d_test" /\ in_using # NULL
    \/ pc'[q] = "d_take" /\ pc[q] = "d_test" /\ in_using = NULL

LEMMA DiskStill ==
    ASSUME Types, Types', Disks, UNCHANGED diskVars, \A q \in Procs : DiskSame(q)
    PROVE  Disks'
<1>1. /\ list_next' = list_next /\ list_prev' = list_prev /\ in_using' = in_using
      /\ block_request_count' = block_request_count /\ cmd' = cmd /\ count' = count
      /\ loaded' = loaded /\ node' = node /\ device' = device
  BY DEF diskVars
<1>2. ASSUME NEW q \in Procs
      PROVE  /\ pc'[q] \in Submitting => pc[q] \in Submitting
             /\ \A l \in HalfIn \cup {"d_next", "d_prevs_next", "d_issue"} :
                    pc'[q] = l <=> pc[q] = l
             /\ pc'[q] \in Outside => pc[q] \in Outside \/ (pc[q] \in DiskWait /\ state[q] = Running)
             /\ pc'[q] = "d_test" => pc[q] = "d_test"
             /\ pc'[q] = "d_sleep" => pc[q] \in {"d_test", "d_sleep"}
             /\ pc'[q] = "d_take" => pc[q] = "d_take" \/ (pc[q] = "d_test" /\ in_using = NULL)
             /\ pc'[q] \in DiskWait => \/ pc[q] \in DiskWait /\ state'[q] = state[q]
                                       \/ pc[q] = "d_sleep" /\ state'[q] = Sleeping
             /\ pc[q] \in Submitting => pc'[q] \in Submitting \/ in_using # NULL
  BY DEF DiskSame, Outside, SemaPlaces, InSemaphore, SemaWait, Submitting, HalfIn, DiskWait
<1>3. DiskAlone'
  BY <1>2 DEF Disks, DiskAlone
<1>4. PICK s \in Seq(Procs) : QueueIs(s)
  BY DEF Disks
<1>5. /\ Somebody({"d_prev"})' <=> Somebody({"d_prev"})
      /\ Somebody({"d_prev", "d_heads_prev"})' <=> Somebody({"d_prev", "d_heads_prev"})
      /\ Somebody(HalfIn)' <=> Somebody(HalfIn)
  BY <1>2 DEF Somebody, HalfIn
<1>6. Once(s) /\ Ring(s)' /\ (block_request_count = Counted(s))'
  BY <1>1, <1>4, <1>5 DEF QueueIs, Ring, Counted
<1>7. ASSUME NEW q \in Procs PROVE Holder(q, s)' /\ Asked(q, s)'
  <2>1. Pending(q, s)' <=> Pending(q, s)
    BY <1>1 DEF Pending
  <2>2. Holder(q, s) /\ Asked(q, s)
    BY <1>4 DEF QueueIs
  <2>3. Asked(q, s)'
    BY <1>1, <1>2, <2>1, <2>2 DEF Asked
  <2>4. pc[q] \in HalfIn => in_using # q
    BY <2>2 DEF Holder
  <2>5. pc'[q] \in {"home", "d_next", "d_prevs_next"} \cup SemaPlaces => ~Pending(q, s)
    <3>1. pc[q] \in Outside => ~Pending(q, s)
      BY <2>2 DEF Holder, Outside
    <3>2. pc[q] \in DiskWait /\ state[q] = Running => ~Pending(q, s)
      BY <2>2 DEF Holder, Running, Sleeping
    <3>3. pc[q] \in {"d_next", "d_prevs_next"} => ~Pending(q, s)
      BY <2>2 DEF Holder
    <3> QED BY <1>2, <3>1, <3>2, <3>3 DEF Outside
  <2>6. /\ pc'[q] = "d_prevs_next" => list_next[q] = ListHead
        /\ pc'[q] \in HalfIn => Len(s) > 0 /\ s[Len(s)] = q /\ in_using # q
        /\ pc'[q] = "d_store" => loaded[q] = block_request_count
        /\ pc'[q] = "d_issue" => in_using = q /\ node[q] = q /\ device = AtRest
    BY <1>2, <2>2 DEF Holder, HalfIn
  <2>7. pc'[q] \in {"d_test", "d_sleep"} => Pending(q, s)
    BY <1>2, <2>2 DEF Holder
  <2>8. pc'[q] = "d_take" => in_using = NULL /\ In(q, s)
    <3>1. pc[q] = "d_test" /\ in_using = NULL => In(q, s)
      BY <2>2, SleepersAssumption DEF Holder, Pending, Nodes
    <3> QED BY <1>2, <2>2, <3>1 DEF Holder
  <2>9. pc'[q] \in DiskWait => (Pending(q, s) <=> state'[q] = Sleeping)
    BY <1>2, <2>2 DEF Holder
  <2>10. Holder(q, s)'
    BY <1>1, <2>1, <2>5, <2>6, <2>7, <2>8, <2>9 DEF Holder
  <2> QED BY <2>3, <2>10
<1>8. DeviceRight(s)'
  <2>1. DeviceRight(s) /\ (in_using # NULL => in_using \in Procs)
    BY <1>4 DEF QueueIs, Types, TypeOK
  <2>2. \A i \in 1 .. Len(s) : s[i] \in Procs
    BY <1>4
  <2>3. in_using # NULL => (pc'[in_using] = "d_issue" <=> pc[in_using] = "d_issue")
    BY <1>2, <2>1
  <2>4. in_using = NULL => \A i \in 1 .. Len(s) : pc'[s[i]] \in Submitting
    BY <1>2, <2>1, <2>2 DEF DeviceRight
  <2>5. Command(in_using)' = Command(in_using)
    BY <1>1 DEF Command
  <2> QED BY <1>1, <2>1, <2>3, <2>4, <2>5 DEF DeviceRight
<1>9. QueueIs(s)'
  BY <1>6, <1>7, <1>8 DEF QueueIs, Once
<1> QED BY <1>3, <1>4, <1>9 DEF Disks

\* The place of a node in a tail.
LEMMA TailNodes ==
    ASSUME NEW s \in Seq(Procs), Len(s) > 0
    PROVE  /\ Tail(s) \in Seq(Procs) /\ Len(Tail(s)) = Len(s) - 1
           /\ \A i \in 1 .. Len(s) : NodeAt(Tail(s), i) = NodeAt(s, i + 1)
           /\ \A p \in Procs : In(p, s) <=> p = s[1] \/ In(p, Tail(s))
           /\ Once(s) => Once(Tail(s)) /\ ~In(s[1], Tail(s))
<1>1. /\ Tail(s) \in Seq(Procs) /\ Len(Tail(s)) = Len(s) - 1 /\ Len(s) \in Nat
      /\ \A i \in 1 .. Len(s) - 1 : Tail(s)[i] = s[i + 1]
  OBVIOUS
<1> DEFINE t == Tail(s)
<1> HIDE DEF t
<1>2. /\ t \in Seq(Procs) /\ Len(t) = Len(s) - 1
      /\ \A i \in 1 .. Len(s) - 1 : t[i] = s[i + 1]
  BY <1>1 DEF t
<1>3. ASSUME NEW i \in 1 .. Len(s) PROVE NodeAt(t, i) = NodeAt(s, i + 1)
  BY <1>1, <1>2 DEF NodeAt
<1>4. ASSUME NEW p \in Procs PROVE In(p, s) <=> p = s[1] \/ In(p, t)
  <2>1. ASSUME NEW i \in 1 .. Len(s), s[i] = p, p # s[1] PROVE In(p, t)
    <3>1. i - 1 \in 1 .. Len(t) /\ t[i - 1] = p
      BY <1>1, <1>2, <2>1
    <3> QED BY <3>1 DEF In
  <2>2. ASSUME NEW i \in 1 .. Len(t), t[i] = p PROVE In(p, s)
    <3>1. i + 1 \in 1 .. Len(s) /\ s[i + 1] = p
      BY <1>1, <1>2, <2>2
    <3> QED BY <3>1 DEF In
  <2>3. In(s[1], s)
    BY <1>1 DEF In
  <2> QED BY <2>1, <2>2, <2>3 DEF In
<1>5. ASSUME Once(s) PROVE Once(t) /\ ~In(s[1], t)
  <2>1. Once(t)
    BY <1>1, <1>2, <1>5 DEF Once
  <2>2. ASSUME NEW i \in 1 .. Len(t), t[i] = s[1] PROVE FALSE
    <3>1. i + 1 \in 1 .. Len(s) /\ 1 \in 1 .. Len(s) /\ s[i + 1] = s[1] /\ i + 1 # 1
      BY <1>1, <1>2, <2>2
    <3> QED BY <1>5, <3>1 DEF Once
  <2> QED BY <2>1, <2>2 DEF In
<1> QED BY <1>2, <1>3, <1>4, <1>5 DEF t

\* The nodes of a ring differ.
LEMMA RingNodes ==
    ASSUME NEW s \in Seq(Procs), Once(s)
    PROVE  /\ \A i \in 0 .. Len(s) + 1 : NodeAt(s, i) \in Nodes
           /\ \A i \in 1 .. Len(s) : NodeAt(s, i) = s[i] /\ s[i] \in Procs /\ s[i] # ListHead
           /\ \A i, j \in 1 .. Len(s) + 1 : NodeAt(s, i) = NodeAt(s, j) => i = j
           /\ NodeAt(s, 0) = ListHead /\ NodeAt(s, Len(s) + 1) = ListHead
           /\ Len(s) \in Nat
<1>1. Len(s) \in Nat /\ \A i \in 1 .. Len(s) : s[i] \in Procs
  OBVIOUS
<1>2. \A i \in 1 .. Len(s) : s[i] # ListHead
  BY <1>1, SleepersAssumption
<1> QED BY <1>1, <1>2 DEF NodeAt, Nodes, Once

\* list_del of the first node of the ring.
LEMMA RingLosesFirst ==
    ASSUME Types, NEW s \in Seq(Procs), Once(s), Ring(s), Len(s) > 0,
           Somebody({"d_prev"}) => Len(s) > 2,
           Somebody({"d_prev"})' <=> Somebody({"d_prev"}),
           Somebody({"d_prev", "d_heads_prev"})' <=> Somebody({"d_prev", "d_heads_prev"}),
           Unlinked(s[1])
    PROVE  /\ Ring(Tail(s))' /\ list_next[ListHead] = s[1]
           /\ \A q \in Procs \ {s[1]} : list_next'[q] = list_next[q]
<1> DEFINE t == Tail(s)
<1> HIDE DEF t
<1>1. /\ t \in Seq(Procs) /\ Len(t) = Len(s) - 1 /\ Len(s) \in Nat
      /\ \A i \in 1 .. Len(s) : NodeAt(t, i) = NodeAt(s, i + 1)
  BY TailNodes DEF t
<1>2. NodeAt(s, 1) = s[1] /\ s[1] \in Procs /\ s[1] # ListHead
  <2>1. 1 \in 1 .. Len(s)
    BY <1>1
  <2> QED BY <2>1, RingNodes
<1>3. list_next[ListHead] = s[1] /\ list_next[s[1]] = NodeAt(s, 2)
  <2>1. 0 \in 0 .. Len(s) /\ 1 \in 0 .. Len(s) /\ 0 + 1 = 1 /\ 1 + 1 = 2
    BY <1>1
  <2> QED BY <1>2, <2>1, RingNodes DEF Ring
<1>4. list_prev[s[1]] = ListHead
  <2>1. /\ 0 \in 0 .. Len(s) /\ 0 + 1 = 1 /\ 0 # Len(s)
        /\ Somebody({"d_prev"}) => 0 # Len(s) - 1
    BY <1>1
  <2> QED BY <1>2, <2>1, RingNodes DEF Ring
<1>5. NodeAt(s, 2) \in Nodes /\ NodeAt(s, 2) # s[1] /\ s[1] \in Nodes /\ ListHead \in Nodes
  <2>1. 2 \in 0 .. Len(s) + 1 /\ 2 \in 1 .. Len(s) + 1 /\ 1 \in 1 .. Len(s) + 1
    BY <1>1
  <2> QED BY <1>2, <2>1, RingNodes DEF Nodes
<1>6. /\ list_next'[ListHead] = NodeAt(s, 2)
      /\ \A n \in Nodes : n # ListHead /\ n # s[1] => list_next'[n] = list_next[n]
      /\ list_prev'[NodeAt(s, 2)] = ListHead
      /\ \A n \in Nodes : n # NodeAt(s, 2) /\ n # s[1] => list_prev'[n] = list_prev[n]
  BY <1>2, <1>3, <1>4, <1>5 DEF Unlinked, Types, TypeOK
<1>7. ASSUME NEW i \in 0 .. Len(t)
      PROVE  list_next'[NodeAt(t, i)] = NodeAt(t, i + 1)
  <2>1. CASE i = 0
    <3>1. NodeAt(t, 0) = ListHead
      BY DEF NodeAt
    <3>2. 1 \in 1 .. Len(s) /\ 0 + 1 = 1 /\ 1 + 1 = 2
      BY <1>1
    <3> QED BY <1>1, <1>6, <2>1, <3>1, <3>2
  <2>2. CASE i # 0
    <3>1. /\ i \in 1 .. Len(s) /\ i + 1 \in 1 .. Len(s) /\ i + 1 \in 0 .. Len(s)
          /\ i + 1 \in 1 .. Len(s) + 1 /\ 1 \in 1 .. Len(s) + 1 /\ i + 1 # 1
      BY <1>1, <2>2
    <3>2. NodeAt(s, i + 1) \in Nodes /\ NodeAt(s, i + 1) # ListHead /\ NodeAt(s, i + 1) # s[1]
      BY <1>2, <3>1, RingNodes DEF Nodes
    <3>3. list_next'[NodeAt(s, i + 1)] = NodeAt(s, (i + 1) + 1)
      BY <1>6, <3>1, <3>2 DEF Ring
    <3> QED BY <1>1, <3>1, <3>3
  <2> QED BY <2>1, <2>2
<1>8. ASSUME NEW i \in 0 .. Len(t)
      PROVE  \/ list_prev'[NodeAt(t, i + 1)] = NodeAt(t, i)
             \/ i = Len(t) /\ Somebody({"d_prev", "d_heads_prev"})'
             \/ i = Len(t) - 1 /\ Somebody({"d_prev"})'
  <2>1. CASE i = 0
    <3>1. NodeAt(t, 0) = ListHead
      BY DEF NodeAt
    <3>2. 1 \in 1 .. Len(s) /\ 0 + 1 = 1 /\ 1 + 1 = 2
      BY <1>1
    <3> QED BY <1>1, <1>6, <2>1, <3>1, <3>2
  <2>2. CASE i # 0
    <3>1. /\ i \in 1 .. Len(s) /\ i + 1 \in 1 .. Len(s) /\ i + 1 \in 0 .. Len(s)
          /\ (i + 1) + 1 \in 1 .. Len(s) + 1 /\ 1 \in 1 .. Len(s) + 1
          /\ (i + 1) + 1 \in 0 .. Len(s) + 1
          /\ 2 \in 1 .. Len(s) + 1 /\ (i + 1) + 1 # 1 /\ (i + 1) + 1 # 2
      BY <1>1, <2>2
    <3>2. /\ NodeAt(s, (i + 1) + 1) \in Nodes /\ NodeAt(s, (i + 1) + 1) # s[1]
          /\ NodeAt(s, (i + 1) + 1) # NodeAt(s, 2)
      BY <1>2, <3>1, RingNodes
    <3>3. \/ list_prev'[NodeAt(s, (i + 1) + 1)] = NodeAt(s, i + 1)
          \/ i + 1 = Len(s) /\ Somebody({"d_prev", "d_heads_prev"})
          \/ i + 1 = Len(s) - 1 /\ Somebody({"d_prev"})
      BY <1>6, <3>1, <3>2 DEF Ring
    <3>4. (i + 1 = Len(s) => i = Len(t)) /\ (i + 1 = Len(s) - 1 => i = Len(t) - 1)
      BY <1>1
    <3> QED BY <1>1, <3>1, <3>3, <3>4
  <2> QED BY <2>1, <2>2
<1>11. ASSUME Somebody({"d_prev"}) PROVE list_prev'[ListHead] = NodeAt(t, Len(t) - 1)
  <2>1. /\ 2 \in 1 .. Len(s) /\ Len(s) - 1 - 1 \in 1 .. Len(s)
        /\ (Len(t) - 1) + 1 = Len(s) - 1 /\ Len(t) - 1 = Len(s) - 1 - 1
    BY <1>1, <1>11
  <2>2. NodeAt(s, 2) # ListHead
    BY <2>1, RingNodes
  <2>3. list_prev'[ListHead] = list_prev[ListHead]
    BY <1>2, <1>5, <1>6, <2>2
  <2>4. list_prev[ListHead] = NodeAt(s, Len(s) - 1)
    BY <1>11 DEF Ring
  <2>5. NodeAt(t, Len(t) - 1) = NodeAt(s, (Len(t) - 1) + 1)
    BY <1>1, <2>1
  <2> QED BY <2>1, <2>3, <2>4, <2>5
<1>9. Ring(t)'
  BY <1>7, <1>8, <1>11 DEF Ring
<1>10. \A q \in Procs \ {s[1]} : list_next'[q] = list_next[q]
  BY <1>6, SleepersAssumption DEF Nodes
<1> QED BY <1>3, <1>9, <1>10 DEF t


\* Only p is inside submit, before and after its step.
LEMMA OneInside ==
    ASSUME Types, NEW p \in Procs, NEW l, Goto(p, l),
           \A q \in Procs \ {p} : pc[q] \notin Submitting
    PROVE  /\ DiskAlone'
           /\ pc'[p] = l /\ \A q \in Procs \ {p} : pc'[q] = pc[q]
           /\ \A P \in SUBSET Submitting : /\ Somebody(P) <=> pc[p] \in P
                                           /\ Somebody(P)' <=> l \in P
<1>1. pc'[p] = l /\ \A q \in Procs \ {p} : pc'[q] = pc[q]
  BY DEF Types, Goto
<1>2. DiskAlone'
  BY <1>1 DEF DiskAlone
<1>3. ASSUME NEW P \in SUBSET Submitting
      PROVE  (Somebody(P) <=> pc[p] \in P) /\ (Somebody(P)' <=> l \in P)
  BY <1>1 DEF Somebody
<1> QED BY <1>1, <1>2, <1>3

\* A process outside submit whose request is where it was; r is the new order.
LEMMA DiskOthers ==
    ASSUME NEW s, NEW r, NEW q \in Procs, Holder(q, s), Asked(q, s),
           pc[q] \notin Submitting, pc'[q] = pc[q], state'[q] = state[q],
           Pending(q, r)' <=> Pending(q, s), cmd'[q] = cmd[q], count'[q] = count[q]
    PROVE  Holder(q, r)' /\ Asked(q, r)'
<1>1. Holder(q, r)'
  BY DEF Holder, Submitting, HalfIn, SemaPlaces, InSemaphore, SemaWait, DiskWait
<1>2. Asked(q, r)'
  BY DEF Asked
<1> QED BY <1>1, <1>2

\* The disk goes on with its request while p adds another.
LEMMA DeviceStill ==
    ASSUME Types, NEW s \in Seq(Procs), DeviceRight(s), NEW r \in Seq(Procs),
           NEW p \in Procs, NEW l \in Submitting, Goto(p, l), in_using # p,
           UNCHANGED <<in_using, device>>,
           \A q \in Procs \ {p} : cmd'[q] = cmd[q] /\ count'[q] = count[q],
           \A q \in Procs : In(q, r) => q = p \/ In(q, s)
    PROVE  DeviceRight(r)'
<1>1. in_using \in Procs \cup {NULL} /\ NULL \notin Procs
  BY SleepersAssumption DEF Types, TypeOK, Nodes
<1>2. \A i \in 1 .. Len(r) : r[i] \in Procs
  OBVIOUS
<1>3. ~In(in_using, r)
  BY <1>1, <1>2 DEF DeviceRight, In
<1>4. in_using # NULL => pc'[in_using] = pc[in_using] /\ Command(in_using)' = Command(in_using)
  BY <1>1 DEF Types, Goto, Command
<1>5. ASSUME in_using = NULL, NEW i \in 1 .. Len(r) PROVE pc'[r[i]] \in Submitting
  <2>1. r[i] = p \/ In(r[i], s)
    BY <1>2 DEF In
  <2>2. CASE r[i] = p
    BY <2>2 DEF Types, Goto
  <2>3. CASE r[i] # p
    <3>1. pc[r[i]] \in Submitting
      BY <1>5, <2>1, <2>3 DEF DeviceRight, In
    <3> QED BY <1>2, <2>3, <3>1 DEF Types, Goto
  <2> QED BY <2>2, <2>3
<1> QED BY <1>3, <1>4, <1>5 DEF DeviceRight

LEMMA DiskMakes ==
    ASSUME Types, Sched, Disks, NEW p \in Procs, make_request(p), window' = "none"
    PROVE  Disks'
<1>1. /\ pc[p] = "home" /\ Goto(p, "d_next") /\ state' = state
      /\ list_next' = list_next /\ list_prev' = list_prev /\ in_using' = in_using
      /\ block_request_count' = block_request_count
      /\ loaded' = loaded /\ node' = node /\ device' = device
  BY DEF make_request, At
<1>2. \A q \in Procs : pc[q] \notin Submitting
  BY DEF make_request, Hit
<1>3. PICK s \in Seq(Procs) : QueueIs(s)
  BY DEF Disks
<1>4. /\ DiskAlone' /\ pc'[p] = "d_next" /\ (\A q \in Procs \ {p} : pc'[q] = pc[q])
      /\ \A P \in SUBSET Submitting : Somebody(P) <=> pc[p] \in P
      /\ \A P \in SUBSET Submitting : Somebody(P)' <=> "d_next" \in P
  BY <1>1, <1>2, OneInside
<1>5. Holder(p, s) /\ Asked(p, s)
  BY <1>3 DEF QueueIs
<1>6. ~Pending(p, s) /\ count[p] = 0
  BY <1>1, <1>5 DEF Holder, Asked
<1>7. \A q \in Procs : Pending(q, s)' <=> Pending(q, s)
  BY <1>1 DEF Pending
<1>8. /\ \A q \in Procs \ {p} : cmd'[q] = cmd[q] /\ count'[q] = count[q]
      /\ \/ cmd'[p] = "identify" /\ count'[p] = 0
         \/ cmd'[p] = "transfer" /\ count'[p] \in Nat \ {0}
  <2>1. PICK r \in Asks[p] : /\ cmd' = [cmd EXCEPT ![p] = r.cmd]
                             /\ count' = [count EXCEPT ![p] = r.count]
    BY DEF make_request
  <2>2. cmd'[p] = r.cmd /\ count'[p] = r.count
    BY <2>1 DEF Types
  <2>3. \/ r.cmd = "identify" /\ r.count = 0
        \/ r.cmd = "transfer" /\ r.count \in Nat \ {0}
    BY AsksAssumption
  <2> QED BY <2>1, <2>2, <2>3 DEF Types
<1>9. ASSUME NEW q \in Procs PROVE Holder(q, s)' /\ Asked(q, s)'
  <2>1. CASE q = p
    BY <1>4, <1>6, <1>7, <1>8, <2>1 DEF Holder, Asked, HalfIn, DiskWait
  <2>2. CASE q # p
    <3>1. Holder(q, s) /\ Asked(q, s)
      BY <1>3 DEF QueueIs
    <3> QED BY <1>1, <1>2, <1>4, <1>7, <1>8, <2>2, <3>1, DiskOthers
  <2> QED BY <2>1, <2>2
<1>10. Ring(s)' /\ (block_request_count = Counted(s))'
  <2>1. /\ {"d_prev"} \in SUBSET Submitting /\ {"d_prev", "d_heads_prev"} \in SUBSET Submitting
        /\ HalfIn \in SUBSET Submitting
    BY DEF HalfIn, Submitting
  <2>2. ~Somebody({"d_prev"})' /\ ~Somebody({"d_prev", "d_heads_prev"})' /\ ~Somebody(HalfIn)'
    BY <1>4, <2>1 DEF HalfIn
  <2>3. ~Somebody({"d_prev"}) /\ ~Somebody({"d_prev", "d_heads_prev"}) /\ ~Somebody(HalfIn)
    BY <1>1, <1>4, <2>1 DEF HalfIn
  <2> QED BY <1>1, <1>3, <2>2, <2>3 DEF QueueIs, Ring, Counted
<1>11. DeviceRight(s)'
  <2>1. in_using # p
    BY <1>6 DEF Pending
  <2>2. "d_next" \in Submitting
    BY DEF Submitting
  <2> QED BY <1>1, <1>3, <1>8, <2>1, <2>2, DeviceStill DEF QueueIs
<1> QED BY <1>3, <1>4, <1>9, <1>10, <1>11 DEF Disks, QueueIs, Once


\* A step of add_request: the order r has at most p more than s.
LEMMA DiskInside ==
    ASSUME Types, DiskAlone, NEW s \in Seq(Procs), QueueIs(s), NEW r \in Seq(Procs),
           NEW p \in Procs, NEW l \in Submitting,
           pc[p] \in Submitting, Goto(p, l), in_using # p,
           UNCHANGED <<state, in_using, cmd, count, device>>,
           \A q \in Procs \ {p} : In(q, r) <=> In(q, s),
           pc[p] \in {"d_next", "d_prevs_next"} \/ In(p, s),
           l = "d_prevs_next" \/ In(p, r),
           Once(r), Ring(r)', (block_request_count = Counted(r))', Holder(p, r)'
    PROVE  Disks'
<1>1. \A q \in Procs \ {p} : pc[q] \notin Submitting
  BY DEF DiskAlone
<1>2. DiskAlone' /\ pc'[p] = l /\ \A q \in Procs \ {p} : pc'[q] = pc[q]
  BY <1>1, OneInside
<1>3. ASSUME NEW q \in Procs PROVE Holder(q, r)' /\ Asked(q, r)'
  <2>1. Holder(q, s) /\ Asked(q, s)
    BY DEF QueueIs
  <2>2. CASE q = p
    <3>1. Asked(p, r)'
      <4>1. In(p, r)' <=> In(p, r)
        BY DEF In
      <4> QED BY <1>2, <2>1, <2>2, <4>1 DEF Asked, Pending
    <3> QED BY <2>2, <3>1
  <2>3. CASE q # p
    <3>1. Pending(q, r)' <=> Pending(q, s)
      BY <2>3 DEF Pending, In
    <3> QED BY <1>1, <1>2, <2>1, <2>3, <3>1, DiskOthers
  <2> QED BY <2>2, <2>3
<1>4. DeviceRight(r)'
  BY DeviceStill DEF QueueIs
<1>5. QueueIs(r)'
  BY <1>3, <1>4 DEF QueueIs, Once
<1> QED BY <1>2, <1>5 DEF Disks

\* The places of add_request, and who is there.
LEMMA Inside ==
    ASSUME Types, Disks, NEW p \in Procs, pc[p] \in Submitting, NEW l, Goto(p, l)
    PROVE  /\ \E s \in Seq(Procs) : QueueIs(s) /\ Holder(p, s) /\ Ring(s) /\ Once(s)
           /\ DiskAlone /\ pc'[p] = l /\ \A q \in Procs \ {p} : pc'[q] = pc[q]
           /\ Somebody({"d_prev"}) <=> pc[p] = "d_prev"
           /\ Somebody({"d_prev", "d_heads_prev"}) <=> pc[p] \in {"d_prev", "d_heads_prev"}
           /\ Somebody(HalfIn) <=> pc[p] \in HalfIn
           /\ Somebody({"d_prev"})' <=> l = "d_prev"
           /\ Somebody({"d_prev", "d_heads_prev"})' <=> l \in {"d_prev", "d_heads_prev"}
           /\ Somebody(HalfIn)' <=> l \in HalfIn
<1>1. DiskAlone /\ \A q \in Procs \ {p} : pc[q] \notin Submitting
  BY DEF Disks, DiskAlone
<1>2. /\ {"d_prev"} \in SUBSET Submitting /\ {"d_prev", "d_heads_prev"} \in SUBSET Submitting
      /\ HalfIn \in SUBSET Submitting
  BY DEF HalfIn, Submitting
<1>3. \E s \in Seq(Procs) : QueueIs(s) /\ Holder(p, s) /\ Ring(s) /\ Once(s)
  BY DEF Disks, QueueIs
<1> QED BY <1>1, <1>2, <1>3, OneInside

LEMMA DiskAddNext ==
    ASSUME Types, Disks, NEW p \in Procs, pc[p] = "d_next", Goto(p, "d_prevs_next"),
           list_next' = [list_next EXCEPT ![p] = ListHead],
           UNCHANGED <<state, list_prev, in_using, block_request_count, cmd, count,
                       loaded, node, device>>
    PROVE  Disks'
<1>0. "d_next" \in Submitting /\ "d_prevs_next" \in Submitting
  BY DEF Submitting
<1>1. PICK s \in Seq(Procs) : QueueIs(s) /\ Holder(p, s) /\ Ring(s) /\ Once(s)
  BY <1>0, Inside
<1>2. /\ DiskAlone /\ pc'[p] = "d_prevs_next"
      /\ ~Somebody({"d_prev"}) /\ ~Somebody({"d_prev"})'
      /\ ~Somebody({"d_prev", "d_heads_prev"}) /\ ~Somebody({"d_prev", "d_heads_prev"})'
      /\ ~Somebody(HalfIn) /\ ~Somebody(HalfIn)'
  BY <1>0, Inside DEF HalfIn
<1>3. ~Pending(p, s)
  BY <1>1 DEF Holder
<1>4. /\ list_next'[p] = ListHead
      /\ \A n \in Nodes \ {p} : list_next'[n] = list_next[n]
  BY DEF Types, TypeOK, Nodes
<1>5. \A i \in 0 .. Len(s) : NodeAt(s, i) \in Nodes \ {p}
  <2> TAKE i \in 0 .. Len(s)
  <2>1. NodeAt(s, i) = ListHead \/ (i \in 1 .. Len(s) /\ NodeAt(s, i) = s[i])
    BY DEF NodeAt
  <2>2. i \in 1 .. Len(s) => s[i] # p /\ s[i] \in Procs
    BY <1>3 DEF Pending, In
  <2> QED BY <2>1, <2>2, SleepersAssumption DEF Nodes
<1>6. Ring(s)'
  BY <1>1, <1>2, <1>4, <1>5 DEF Ring
<1>7. (block_request_count = Counted(s))'
  BY <1>1, <1>2 DEF QueueIs, Counted
<1>8. Holder(p, s)'
  <2>1. Pending(p, s)' <=> Pending(p, s)
    BY DEF Pending
  <2> QED BY <1>2, <1>3, <1>4, <2>1 DEF Holder, HalfIn, DiskWait
<1> QED BY <1>0, <1>1, <1>2, <1>3, <1>6, <1>7, <1>8, DiskInside DEF Pending

LEMMA DiskAddPrevsNext ==
    ASSUME Types, Disks, NEW p \in Procs, pc[p] = "d_prevs_next", Goto(p, "d_prev"),
           list_next' = [list_next EXCEPT ![list_prev[ListHead]] = p],
           UNCHANGED <<state, list_prev, in_using, block_request_count, cmd, count,
                       loaded, node, device>>
    PROVE  Disks'
<1>0. "d_prev" \in Submitting /\ "d_prevs_next" \in Submitting
  BY DEF Submitting
<1>1. PICK s \in Seq(Procs) : QueueIs(s) /\ Holder(p, s) /\ Ring(s) /\ Once(s)
  BY <1>0, Inside
<1>2. /\ DiskAlone /\ pc'[p] = "d_prev"
      /\ ~Somebody({"d_prev"}) /\ Somebody({"d_prev"})'
      /\ ~Somebody({"d_prev", "d_heads_prev"}) /\ Somebody({"d_prev", "d_heads_prev"})'
      /\ ~Somebody(HalfIn) /\ Somebody(HalfIn)'
  BY <1>0, Inside DEF HalfIn
<1>3. ~Pending(p, s) /\ list_next[p] = ListHead
  BY <1>1 DEF Holder
<1> DEFINE m == Len(s)
           r == Append(s, p)
<1>4. /\ m \in Nat /\ r \in Seq(Procs) /\ Len(r) = m + 1 /\ r[m + 1] = p
      /\ \A i \in 1 .. m : r[i] = s[i] /\ s[i] \in Procs
  OBVIOUS
<1> HIDE DEF r, m
<1>5. \A i \in 1 .. m : s[i] # p
  BY <1>3 DEF Pending, In, m
<1>6. Once(r)
  BY <1>1, <1>4, <1>5 DEF Once, m
<1>7. /\ \A q \in Procs \ {p} : In(q, r) <=> In(q, s)
      /\ In(p, r)
  <2>1. In(p, r)
    <3>1. m + 1 \in 1 .. Len(r)
      BY <1>4
    <3> QED BY <1>4, <3>1 DEF In
  <2>2. ASSUME NEW q \in Procs \ {p}, In(q, r) PROVE In(q, s)
    <3>1. PICK i \in 1 .. Len(r) : r[i] = q
      BY <2>2 DEF In
    <3>2. i \in 1 .. m
      BY <1>4, <3>1
    <3> QED BY <1>4, <3>1, <3>2 DEF In, m
  <2>3. ASSUME NEW q \in Procs \ {p}, In(q, s) PROVE In(q, r)
    <3>1. PICK i \in 1 .. m : s[i] = q
      BY <2>3 DEF In, m
    <3>2. i \in 1 .. Len(r) /\ r[i] = q
      BY <1>4, <3>1
    <3> QED BY <3>2 DEF In
  <2> QED BY <2>1, <2>2, <2>3
<1>8. /\ \A i \in 0 .. m : NodeAt(r, i) = NodeAt(s, i) /\ NodeAt(s, i) \in Nodes \ {p}
      /\ NodeAt(r, m + 1) = p /\ NodeAt(r, m + 2) = ListHead
  <2>1. ASSUME NEW i \in 0 .. m PROVE NodeAt(r, i) = NodeAt(s, i) /\ NodeAt(s, i) \in Nodes \ {p}
    <3>1. CASE i = 0
      BY <3>1, SleepersAssumption DEF NodeAt, Nodes
    <3>2. CASE i # 0
      <4>1. i \in 1 .. m /\ i \in 1 .. Len(r)
        BY <1>4, <3>2
      <4> QED BY <1>4, <1>5, <4>1 DEF NodeAt, Nodes, m
    <3> QED BY <3>1, <3>2
  <2>2. m + 1 \in 1 .. Len(r) /\ m + 2 \notin 1 .. Len(r)
    BY <1>4
  <2> QED BY <1>4, <2>1, <2>2 DEF NodeAt
<1>9. list_prev[ListHead] = NodeAt(s, m)
  <2>1. m \in 0 .. Len(s) /\ NodeAt(s, m + 1) = ListHead
    BY <1>4 DEF NodeAt, m
  <2> QED BY <1>1, <1>2, <2>1 DEF Ring
<1>10. /\ list_next'[NodeAt(s, m)] = p
       /\ \A n \in Nodes : n # NodeAt(s, m) => list_next'[n] = list_next[n]
  <2>1. NodeAt(s, m) \in Nodes
    BY <1>4, <1>8
  <2> QED BY <1>9, <2>1 DEF Types, TypeOK
<1>11. ASSUME NEW i \in 0 .. Len(r) PROVE list_next'[NodeAt(r, i)] = NodeAt(r, i + 1)
  <2>1. CASE i = m + 1
    <3>1. p \in Nodes /\ p # NodeAt(s, m)
      BY <1>4, <1>8 DEF Nodes
    <3>2. i + 1 = m + 2
      BY <1>4, <2>1
    <3> QED BY <1>3, <1>8, <1>10, <2>1, <3>1, <3>2
  <2>2. CASE i = m
    <3>1. m \in 0 .. m
      BY <1>4
    <3> QED BY <1>8, <1>10, <2>2, <3>1
  <2>3. CASE i # m /\ i # m + 1
    <3>1. i \in 0 .. m /\ i + 1 \in 0 .. m /\ i \in 0 .. Len(s) /\ m \in 0 .. m
      BY <1>4, <2>3 DEF m
    <3>2. NodeAt(s, i) # NodeAt(s, m)
      <4>1. CASE i = 0
        <5>1. m \in 1 .. m /\ NodeAt(s, m) = s[m] /\ s[m] \in Procs /\ NodeAt(s, 0) = ListHead
          BY <1>4, <2>3, <4>1 DEF NodeAt, m
        <5> QED BY <4>1, <5>1, SleepersAssumption
      <4>2. CASE i # 0
        <5>1. i \in 1 .. m /\ m \in 1 .. m
          BY <1>4, <3>1, <4>2
        <5> QED BY <1>1, <2>3, <5>1 DEF NodeAt, m, Once
      <4> QED BY <4>1, <4>2
    <3>3. list_next[NodeAt(s, i)] = NodeAt(s, i + 1)
      BY <1>1, <3>1 DEF Ring
    <3> QED BY <1>8, <1>10, <3>1, <3>2, <3>3
  <2> QED BY <2>1, <2>2, <2>3
<1>12. ASSUME NEW i \in 0 .. Len(r)
       PROVE  \/ list_prev'[NodeAt(r, i + 1)] = NodeAt(r, i)
              \/ i = Len(r) \/ i = Len(r) - 1
  <2>1. CASE i \in 0 .. m - 1
    <3>1. i \in 0 .. m /\ i + 1 \in 0 .. m /\ i \in 0 .. Len(s)
      BY <1>4, <2>1 DEF m
    <3>2. list_prev[NodeAt(s, i + 1)] = NodeAt(s, i)
      BY <1>1, <1>2, <3>1 DEF Ring
    <3> QED BY <1>8, <3>1, <3>2
  <2>2. CASE i \notin 0 .. m - 1
    BY <1>4, <2>2
  <2> QED BY <2>1, <2>2
<1>13. list_prev'[ListHead] = NodeAt(r, Len(r) - 1)
  <2>1. Len(r) - 1 = m /\ m \in 0 .. m
    BY <1>4
  <2> QED BY <1>8, <1>9, <2>1
<1>14. Ring(r)'
  BY <1>2, <1>11, <1>12, <1>13 DEF Ring
<1>15. (block_request_count = Counted(r))'
  <2>1. block_request_count = m
    BY <1>1, <1>2 DEF QueueIs, Counted, m
  <2> QED BY <1>2, <1>4, <2>1 DEF Counted
<1>16. in_using # p
  BY <1>3 DEF Pending
<1>17. Holder(p, r)'
  BY <1>2, <1>4, <1>16 DEF Holder, HalfIn, DiskWait, SemaPlaces, InSemaphore, SemaWait
<1> QED BY <1>0, <1>1, <1>2, <1>4, <1>6, <1>7, <1>14, <1>15, <1>16, <1>17, DiskInside


LEMMA DiskAddPrev ==
    ASSUME Types, Disks, NEW p \in Procs, pc[p] = "d_prev", Goto(p, "d_heads_prev"),
           list_prev' = [list_prev EXCEPT ![p] = list_prev[ListHead]],
           UNCHANGED <<state, list_next, in_using, block_request_count, cmd, count,
                       loaded, node, device>>
    PROVE  Disks'
<1>0. "d_prev" \in Submitting /\ "d_heads_prev" \in Submitting
  BY DEF Submitting
<1>1. PICK s \in Seq(Procs) : QueueIs(s) /\ Holder(p, s) /\ Ring(s) /\ Once(s)
  BY <1>0, Inside
<1>2. /\ DiskAlone /\ pc'[p] = "d_heads_prev"
      /\ Somebody({"d_prev"}) /\ ~Somebody({"d_prev"})'
      /\ Somebody({"d_prev", "d_heads_prev"}) /\ Somebody({"d_prev", "d_heads_prev"})'
      /\ Somebody(HalfIn) /\ Somebody(HalfIn)'
  BY <1>0, Inside DEF HalfIn
<1>3. /\ Len(s) > 0 /\ s[Len(s)] = p /\ in_using # p /\ Len(s) \in Nat
      /\ Len(s) \in 1 .. Len(s) /\ NodeAt(s, Len(s)) = p
  BY <1>1 DEF Holder, HalfIn, NodeAt
<1>4. /\ list_prev'[p] = list_prev[ListHead]
      /\ \A n \in Nodes \ {p} : list_prev'[n] = list_prev[n]
  BY DEF Types, TypeOK, Nodes
<1>5. ASSUME NEW i \in 0 .. Len(s)
      PROVE  list_prev'[NodeAt(s, i + 1)] = NodeAt(s, i) \/ i = Len(s)
  <2>1. CASE i = Len(s) - 1
    <3>1. i + 1 = Len(s)
      BY <1>3, <2>1
    <3> QED BY <1>1, <1>2, <1>3, <1>4, <2>1, <3>1 DEF Ring
  <2>2. CASE i # Len(s) - 1 /\ i # Len(s)
    <3>1. i + 1 \in 1 .. Len(s) + 1 /\ Len(s) \in 1 .. Len(s) + 1
          /\ i + 1 \in 0 .. Len(s) + 1 /\ i + 1 # Len(s)
      BY <1>3, <2>2
    <3>2. NodeAt(s, i + 1) \in Nodes \ {p}
      BY <1>1, <1>3, <3>1, RingNodes
    <3> QED BY <1>1, <1>4, <2>2, <3>2 DEF Ring
  <2> QED BY <2>1, <2>2
<1>6. Ring(s)'
  BY <1>1, <1>2, <1>5 DEF Ring
<1>7. (block_request_count = Counted(s))'
  BY <1>1, <1>2 DEF QueueIs, Counted
<1>8. Holder(p, s)' /\ In(p, s)
  BY <1>2, <1>3 DEF Holder, HalfIn, DiskWait, SemaPlaces, InSemaphore, SemaWait, In
<1> QED BY <1>0, <1>1, <1>2, <1>3, <1>6, <1>7, <1>8, DiskInside

LEMMA DiskAddHeadsPrev ==
    ASSUME Types, Disks, NEW p \in Procs, pc[p] = "d_heads_prev", Goto(p, "d_load"),
           list_prev' = [list_prev EXCEPT ![ListHead] = p],
           UNCHANGED <<state, list_next, in_using, block_request_count, cmd, count,
                       loaded, node, device>>
    PROVE  Disks'
<1>0. "d_load" \in Submitting /\ "d_heads_prev" \in Submitting
  BY DEF Submitting
<1>1. PICK s \in Seq(Procs) : QueueIs(s) /\ Holder(p, s) /\ Ring(s) /\ Once(s)
  BY <1>0, Inside
<1>2. /\ DiskAlone /\ pc'[p] = "d_load"
      /\ ~Somebody({"d_prev"}) /\ ~Somebody({"d_prev"})'
      /\ Somebody({"d_prev", "d_heads_prev"}) /\ ~Somebody({"d_prev", "d_heads_prev"})'
      /\ Somebody(HalfIn) /\ Somebody(HalfIn)'
  BY <1>0, Inside DEF HalfIn
<1>3. /\ Len(s) > 0 /\ s[Len(s)] = p /\ in_using # p /\ Len(s) \in Nat
      /\ Len(s) \in 1 .. Len(s) /\ NodeAt(s, Len(s)) = p
  BY <1>1 DEF Holder, HalfIn, NodeAt
<1>4. /\ list_prev'[ListHead] = p
      /\ \A n \in Nodes : n # ListHead => list_prev'[n] = list_prev[n]
  BY DEF Types, TypeOK, Nodes
<1>5. ASSUME NEW i \in 0 .. Len(s)
      PROVE  list_prev'[NodeAt(s, i + 1)] = NodeAt(s, i)
  <2>1. CASE i = Len(s)
    BY <1>1, <1>3, <1>4, <2>1, RingNodes
  <2>2. CASE i # Len(s)
    <3>1. i + 1 \in 1 .. Len(s) /\ i + 1 \in 0 .. Len(s) + 1
      BY <1>3, <2>2
    <3>2. NodeAt(s, i + 1) \in Nodes /\ NodeAt(s, i + 1) # ListHead
      BY <1>1, <3>1, RingNodes DEF Nodes
    <3> QED BY <1>1, <1>2, <1>4, <2>2, <3>2 DEF Ring
  <2> QED BY <2>1, <2>2
<1>6. Ring(s)'
  BY <1>1, <1>2, <1>5 DEF Ring
<1>7. (block_request_count = Counted(s))'
  BY <1>1, <1>2 DEF QueueIs, Counted
<1>8. Holder(p, s)' /\ In(p, s)
  BY <1>2, <1>3 DEF Holder, HalfIn, DiskWait, SemaPlaces, InSemaphore, SemaWait, In
<1> QED BY <1>0, <1>1, <1>2, <1>3, <1>6, <1>7, <1>8, DiskInside

\* block_request_count++, its load and its store.
LEMMA DiskCounts ==
    ASSUME Types, Disks, NEW p \in Procs, NEW l,
           \/ /\ pc[p] = "d_load" /\ l = "d_store"
              /\ loaded' = [loaded EXCEPT ![p] = block_request_count]
              /\ UNCHANGED block_request_count
           \/ /\ pc[p] = "d_store" /\ l = "d_test"
              /\ block_request_count' = loaded[p] + 1,
           Goto(p, l),
           UNCHANGED <<state, list_next, list_prev, in_using, cmd, count, node, device>>
    PROVE  Disks'
<1>0. pc[p] \in Submitting /\ l \in Submitting
  BY DEF Submitting
<1>1. PICK s \in Seq(Procs) : QueueIs(s) /\ Holder(p, s) /\ Ring(s) /\ Once(s)
  BY <1>0, Inside
<1>2. /\ DiskAlone /\ pc'[p] = l
      /\ ~Somebody({"d_prev"}) /\ ~Somebody({"d_prev"})'
      /\ ~Somebody({"d_prev", "d_heads_prev"}) /\ ~Somebody({"d_prev", "d_heads_prev"})'
      /\ Somebody(HalfIn) /\ (Somebody(HalfIn)' <=> l \in HalfIn)
  BY <1>0, Inside DEF HalfIn
<1>3. /\ Len(s) > 0 /\ s[Len(s)] = p /\ in_using # p /\ Len(s) \in Nat
      /\ Len(s) \in 1 .. Len(s)
  BY <1>1 DEF Holder, HalfIn
<1>4. In(p, s)
  BY <1>3 DEF In
<1>5. Ring(s)'
  BY <1>1, <1>2 DEF Ring
<1>6. block_request_count = Len(s) - 1
  BY <1>1, <1>2 DEF QueueIs, Counted
<1>7. (block_request_count = Counted(s))' /\ Holder(p, s)'
  <2>1. CASE pc[p] = "d_load"
    <3>1. l = "d_store" /\ loaded'[p] = block_request_count /\ UNCHANGED block_request_count
      BY <2>1 DEF Types
    <3> QED BY <1>2, <1>3, <1>6, <3>1
            DEF Counted, Holder, HalfIn, DiskWait, SemaPlaces, InSemaphore, SemaWait
  <2>2. CASE pc[p] = "d_store"
    <3>1. l = "d_test" /\ block_request_count' = block_request_count + 1
      BY <1>1, <2>2 DEF Holder
    <3>2. block_request_count' = Len(s)
      BY <1>3, <1>6, <3>1
    <3>3. Pending(p, s)'
      BY <1>4 DEF Pending, In
    <3> QED BY <1>2, <3>1, <3>2, <3>3
            DEF Counted, Holder, HalfIn, DiskWait, SemaPlaces, InSemaphore, SemaWait
  <2> QED BY <2>1, <2>2
<1> QED BY <1>0, <1>1, <1>2, <1>3, <1>4, <1>5, <1>7, DiskInside

\* cmd_out in the process that found the disk at rest: it takes its own request.
LEMMA DiskTakes ==
    ASSUME Types, Disks, NEW p \in Procs, CmdOutTake(p)
    PROVE  Disks' /\ fault' = fault
<1>0. /\ pc[p] = "d_take" /\ Goto(p, "d_issue") /\ pc[p] \in Submitting
      /\ state' = state /\ cmd' = cmd /\ count' = count /\ device' = device
      /\ p # NULL
  BY SleepersAssumption DEF CmdOutTake, At, Submitting, Nodes
<1>1. PICK s \in Seq(Procs) : QueueIs(s) /\ Holder(p, s) /\ Ring(s) /\ Once(s)
  BY <1>0, Inside
<1>2. /\ DiskAlone /\ pc'[p] = "d_issue" /\ (\A q \in Procs \ {p} : pc'[q] = pc[q])
      /\ ~Somebody({"d_prev"}) /\ ~Somebody({"d_prev"})'
      /\ ~Somebody({"d_prev", "d_heads_prev"}) /\ ~Somebody({"d_prev", "d_heads_prev"})'
      /\ ~Somebody(HalfIn) /\ ~Somebody(HalfIn)'
  BY <1>0, Inside DEF HalfIn
<1>3. in_using = NULL /\ In(p, s)
  BY <1>0, <1>1 DEF Holder
<1>4. Len(s) = 1 /\ s[1] = p /\ Len(s) > 0
  <2>1. \A i \in 1 .. Len(s) : s[i] = p
    BY <1>0, <1>1, <1>2, <1>3 DEF QueueIs, DeviceRight, DiskAlone
  <2>2. PICK k \in 1 .. Len(s) : s[k] = p
    BY <1>3 DEF In
  <2>3. \A i \in 1 .. Len(s) : i = k
    BY <1>1, <2>1, <2>2 DEF Once
  <2>4. 1 \in 1 .. Len(s) /\ Len(s) \in 1 .. Len(s)
    BY <2>2
  <2>5. k = 1 /\ k = Len(s)
    BY <2>3, <2>4
  <2> QED BY <2>2, <2>5
<1>5. list_next[ListHead] = p
  <2>1. 0 \in 0 .. Len(s) /\ NodeAt(s, 0) = ListHead /\ NodeAt(s, 0 + 1) = p
    BY <1>4 DEF NodeAt
  <2> QED BY <1>1, <2>1 DEF Ring
<1>6. /\ in_using' = p /\ Unlinked(s[1]) /\ block_request_count' = block_request_count - 1
      /\ node'[p] = p /\ fault' = fault
  <2>1. list_next[ListHead] # ListHead
    BY <1>5, SleepersAssumption
  <2> QED BY <1>4, <1>5, <2>1 DEF CmdOutTake, TakeFirst, Types
<1> DEFINE t == Tail(s)
<1>7. /\ t \in Seq(Procs) /\ Len(t) = 0 /\ Ring(t)' /\ Once(t)
      /\ \A q \in Procs : In(q, s) <=> q = p \/ In(q, t)
  <2>1. Len(s) - 1 = 0
    BY <1>4
  <2> QED BY <1>1, <1>2, <1>4, <1>6, <2>1, TailNodes, RingLosesFirst
<1> HIDE DEF t
<1>8. \A q \in Procs : ~In(q, t)
  BY <1>7 DEF In
<1>9. (block_request_count = Counted(t))'
  BY <1>1, <1>2, <1>4, <1>6, <1>7 DEF QueueIs, Counted
<1>10. \A q \in Procs : Pending(q, t)' <=> Pending(q, s)
  <2>1. \A q \in Procs : q # NULL /\ In(q, t)' = In(q, t)
    BY SleepersAssumption DEF Nodes, In
  <2> QED BY <1>3, <1>6, <1>7, <1>8, <2>1 DEF Pending
<1>11. device = AtRest
  BY <1>1, <1>3 DEF QueueIs, DeviceRight
<1>12. ASSUME NEW q \in Procs PROVE Holder(q, t)' /\ Asked(q, t)'
  <2>1. Holder(q, s) /\ Asked(q, s)
    BY <1>1 DEF QueueIs
  <2>2. CASE q = p
    <3>1. Holder(p, t)'
      BY <1>0, <1>2, <1>6, <1>11, SleepersAssumption
         DEF Holder, HalfIn, DiskWait, SemaPlaces, InSemaphore, SemaWait, AtRest
    <3>2. Asked(p, t)'
      BY <1>0, <1>3, <1>10, <2>1, <2>2 DEF Asked, Pending
    <3> QED BY <2>2, <3>1, <3>2
  <2>3. CASE q # p
    <3>1. pc[q] \notin Submitting
      BY <1>0, <1>2, <2>3 DEF DiskAlone
    <3> QED BY <1>0, <1>2, <1>10, <2>1, <2>3, <3>1, DiskOthers
  <2> QED BY <2>2, <2>3
<1>13. DeviceRight(t)'
  <2>1. ~In(p, t)'
    BY <1>8 DEF In
  <2> QED BY <1>0, <1>2, <1>6, <2>1 DEF DeviceRight
<1>14. DiskAlone'
  BY <1>0, <1>2 DEF DiskAlone
<1>15. QueueIs(t)'
  BY <1>7, <1>9, <1>12, <1>13 DEF QueueIs, Once
<1> QED BY <1>6, <1>7, <1>14, <1>15 DEF Disks

LEMMA DiskIssues ==
    ASSUME Types, Disks, NEW p \in Procs, CmdOutIssue(p)
    PROVE  Disks'
<1>0. /\ pc[p] = "d_issue" /\ Goto(p, "d_sleep") /\ pc[p] \in Submitting
      /\ state' = state /\ cmd' = cmd /\ count' = count /\ device' = Command(node[p])
      /\ list_next' = list_next /\ list_prev' = list_prev /\ in_using' = in_using
      /\ block_request_count' = block_request_count /\ loaded' = loaded
      /\ p # NULL
  BY SleepersAssumption DEF CmdOutIssue, At, Submitting, Nodes
<1>1. PICK s \in Seq(Procs) : QueueIs(s) /\ Holder(p, s) /\ Ring(s) /\ Once(s)
  BY <1>0, Inside
<1>2. /\ DiskAlone /\ pc'[p] = "d_sleep" /\ (\A q \in Procs \ {p} : pc'[q] = pc[q])
      /\ ~Somebody({"d_prev"}) /\ ~Somebody({"d_prev"})'
      /\ ~Somebody({"d_prev", "d_heads_prev"}) /\ ~Somebody({"d_prev", "d_heads_prev"})'
      /\ ~Somebody(HalfIn) /\ ~Somebody(HalfIn)'
  BY <1>0, Inside DEF HalfIn
<1>3. in_using = p /\ node[p] = p
  BY <1>0, <1>1 DEF Holder
<1>4. Ring(s)' /\ (block_request_count = Counted(s))'
  BY <1>0, <1>1, <1>2 DEF QueueIs, Ring, Counted
<1>5. \A q \in Procs : Pending(q, s)' <=> Pending(q, s)
  BY <1>0 DEF Pending
<1>6. ASSUME NEW q \in Procs PROVE Holder(q, s)' /\ Asked(q, s)'
  <2>1. Holder(q, s) /\ Asked(q, s)
    BY <1>1 DEF QueueIs
  <2>2. CASE q = p
    <3>1. Holder(p, s)'
      BY <1>2, <1>3, <1>5
         DEF Holder, HalfIn, DiskWait, SemaPlaces, InSemaphore, SemaWait, Pending
    <3>2. Asked(p, s)'
      BY <1>0, <1>3, <1>5, <2>1, <2>2 DEF Asked, Pending
    <3> QED BY <2>2, <3>1, <3>2
  <2>3. CASE q # p
    <3>1. pc[q] \notin Submitting
      BY <1>0, <1>2, <2>3 DEF DiskAlone
    <3> QED BY <1>0, <1>2, <1>5, <2>1, <2>3, <3>1, DiskOthers
  <2> QED BY <2>2, <2>3
<1>7. DeviceRight(s)'
  <2>1. Command(in_using)' = Command(in_using)
    BY <1>0 DEF Command
  <2> QED BY <1>0, <1>1, <1>3, <2>1 DEF QueueIs, DeviceRight, In
<1>8. DiskAlone'
  BY <1>0, <1>2 DEF DiskAlone, Submitting
<1>9. QueueIs(s)'
  BY <1>1, <1>4, <1>6, <1>7 DEF QueueIs, Once
<1> QED BY <1>8, <1>9 DEF Disks


\* An interrupt finds the request it belongs to, past its cmd_out.
LEMMA InterruptFinds ==
    ASSUME Types, Disks, device.left > 0
    PROVE  /\ in_using \in Procs
           /\ \E s \in Seq(Procs) :
                 /\ QueueIs(s) /\ ~In(in_using, s) /\ Asked(in_using, s)
                 /\ pc[in_using] # "d_issue" /\ device = Command(in_using)
                 /\ pc[in_using] \notin {"home", "d_next", "d_prevs_next"} \cup SemaPlaces
<1>1. PICK s \in Seq(Procs) : QueueIs(s)
  BY DEF Disks
<1>2. device # AtRest
  BY DEF AtRest
<1>3. in_using \in Procs
  BY <1>1, <1>2 DEF QueueIs, DeviceRight, Types, TypeOK
<1>4. Holder(in_using, s) /\ Asked(in_using, s) /\ DeviceRight(s)
  BY <1>1, <1>3 DEF QueueIs
<1>5. pc[in_using] # "d_issue"
  BY <1>2, <1>4 DEF Holder
<1>6. in_using # NULL
  BY <1>3, SleepersAssumption DEF Nodes
<1> QED BY <1>1, <1>3, <1>4, <1>5, <1>6 DEF DeviceRight, Holder, Pending

LEMMA DiskSector ==
    ASSUME Types, Disks, device.left > 0, SectorDone(in_using),
           cmd[in_using] # "identify", count[in_using] # 1
    PROVE  Disks'
<1>1. PICK s \in Seq(Procs) :
          /\ QueueIs(s) /\ ~In(in_using, s) /\ Asked(in_using, s)
          /\ pc[in_using] # "d_issue" /\ device = Command(in_using)
  BY InterruptFinds
<1>2. PICK n \in Procs : n = in_using
  BY InterruptFinds
<1>3. /\ now' = now /\ ready' = ready /\ state' = state /\ pc' = pc
      /\ list_next' = list_next /\ list_prev' = list_prev /\ in_using' = in_using
      /\ block_request_count' = block_request_count /\ cmd' = cmd /\ loaded' = loaded
      /\ node' = node
      /\ count' = [count EXCEPT ![n] = count[n] - 1]
      /\ device' = [device EXCEPT !.left = device.left - 1]
  BY <1>2 DEF SectorDone, scheduleVars
<1>4. cmd[n] = "transfer" /\ count[n] \in Nat \ {0} /\ count[n] # 1
  BY <1>1, <1>2 DEF Asked, Pending
<1>5. /\ count'[n] = count[n] - 1 /\ count'[n] \in Nat \ {0}
      /\ \A q \in Procs \ {n} : count'[q] = count[q]
  BY <1>3, <1>4, SleepersAssumption DEF Types
<1>6. device' = Command(n)'
  BY <1>1, <1>2, <1>3, <1>4, <1>5 DEF Command
<1>7. Ring(s)' /\ (block_request_count = Counted(s))' /\ DiskAlone'
  BY <1>1, <1>3 DEF QueueIs, Ring, Counted, Somebody, Disks, DiskAlone
<1>8. ASSUME NEW q \in Procs PROVE Holder(q, s)' /\ Asked(q, s)'
  <2>1. Holder(q, s) /\ Asked(q, s)
    BY <1>1 DEF QueueIs
  <2>2. Pending(q, s)' <=> Pending(q, s)
    BY <1>3 DEF Pending
  <2>3. pc[q] = "d_issue" => FALSE
    BY <1>1, <2>1 DEF Holder
  <2>4. Holder(q, s)'
    BY <1>3, <2>1, <2>2, <2>3 DEF Holder
  <2>5. Asked(q, s)'
    <3>1. CASE q = n
      <4>1. Pending(q, s)
        BY <1>2, <3>1 DEF Pending
      <4> QED BY <1>3, <1>4, <1>5, <2>2, <3>1, <4>1 DEF Asked
    <3>2. CASE q # n
      BY <1>3, <1>5, <2>1, <2>2, <3>2 DEF Asked
    <3> QED BY <3>1, <3>2
  <2> QED BY <2>4, <2>5
<1>9. DeviceRight(s)'
  <2>1. in_using' # NULL
    BY <1>2, <1>3, SleepersAssumption DEF Nodes
  <2>2. ~In(in_using, s)'
    BY <1>1, <1>3 DEF In
  <2> QED BY <1>2, <1>3, <1>6, <2>1, <2>2 DEF DeviceRight
<1>10. QueueIs(s)'
  BY <1>1, <1>7, <1>8, <1>9 DEF QueueIs, Once
<1> QED BY <1>7, <1>10 DEF Disks

\* What end_request finds as long as no window is hit.
LEMMA EndFinds ==
    ASSUME Types, Sched, Disks, device.left > 0, end_request(in_using), window' = "none"
    PROVE  /\ in_using \in Procs /\ state[in_using] = Sleeping /\ now # in_using
           /\ state' = [state EXCEPT ![in_using] = Running]
           /\ Insert(ready, in_using)
           /\ block_request_count # 0 => list_next[ListHead] # ListHead
           /\ UNCHANGED <<now, pc, tsk>>
           /\ \E s \in Seq(Procs) :
                 /\ QueueIs(s) /\ ~In(in_using, s) /\ pc[in_using] \in DiskWait
                 /\ block_request_count # 0 =>
                       Len(s) > 0 /\ ~HalfAdded /\ (Somebody(HalfIn) => Len(s) > 1)
<1>1. PICK s \in Seq(Procs) :
          /\ QueueIs(s) /\ ~In(in_using, s)
          /\ pc[in_using] \notin {"home", "d_next", "d_prevs_next"} \cup SemaPlaces
  BY InterruptFinds
<1>2. in_using \in Procs
  BY InterruptFinds
<1>3. ~InSchedule(in_using)
  BY DEF end_request, Hit, Awake
<1>4. state[in_using] = Sleeping /\ now # in_using
  BY <1>2, <1>3 DEF Sched, SleepsRight, InSchedule, Types, TypeOK
<1>5. pc[in_using] \in DiskWait
  BY <1>1, <1>2, <1>4 DEF Sched, SleepsRight, SleepPlaces, SemaPlaces, InSemaphore
<1>6. block_request_count # 0 => ~HalfAdded
  BY <1>3 DEF end_request, Hit, Awake
<1>7. /\ Len(s) \in Nat
      /\ block_request_count # 0 => Len(s) > 0 /\ (Somebody(HalfIn) => Len(s) > 1)
  <2>1. Somebody(HalfIn) => Len(s) > 0
    BY <1>1 DEF QueueIs, Holder, Somebody
  <2>2. block_request_count = IF Somebody(HalfIn) THEN Len(s) - 1 ELSE Len(s)
    BY <1>1 DEF QueueIs, Counted
  <2>3. Len(s) \in Nat
    OBVIOUS
  <2>4. CASE Somebody(HalfIn)
    BY <2>1, <2>2, <2>3, <2>4
  <2>5. CASE ~Somebody(HalfIn)
    BY <2>2, <2>3, <2>5
  <2> QED BY <2>4, <2>5
<1>8. block_request_count # 0 => list_next[ListHead] # ListHead
  <2> SUFFICES ASSUME block_request_count # 0 PROVE list_next[ListHead] # ListHead
    OBVIOUS
  <2>1. 0 \in 0 .. Len(s) /\ 1 \in 1 .. Len(s) /\ 0 + 1 = 1
    BY <1>7
  <2>2. list_next[ListHead] = NodeAt(s, 1)
    BY <1>1, <2>1 DEF QueueIs, Ring, NodeAt
  <2> QED BY <2>1, <2>2, SleepersAssumption DEF NodeAt
<1>9. state' = [state EXCEPT ![in_using] = Running] /\ Insert(ready, in_using)
  BY <1>8 DEF end_request, WakeOwner
<1>10. UNCHANGED <<now, pc, tsk>>
  BY DEF end_request
<1> QED BY <1>1, <1>2, <1>4, <1>5, <1>6, <1>7, <1>8, <1>9, <1>10

LEMMA DiskEnds ==
    ASSUME Types, Sched, Disks, device.left > 0, end_request(in_using), window' = "none"
    PROVE  Disks'
<1>1. PICK s \in Seq(Procs) :
          /\ QueueIs(s) /\ ~In(in_using, s) /\ pc[in_using] \in DiskWait
          /\ block_request_count # 0 =>
                Len(s) > 0 /\ ~HalfAdded /\ (Somebody(HalfIn) => Len(s) > 1)
  BY EndFinds
<1>2. PICK n \in Procs : n = in_using
  BY EndFinds
<1>3. /\ pc' = pc /\ state' = [state EXCEPT ![n] = Running]
      /\ loaded' = loaded /\ node' = node
      /\ count' = [count EXCEPT ![n] = 0] /\ cmd' = [cmd EXCEPT ![n] = "none"]
      /\ block_request_count # 0 => list_next[ListHead] # ListHead
  BY <1>2, EndFinds DEF end_request
<1>4. /\ state'[n] = Running /\ count'[n] = 0 /\ cmd'[n] = "none"
      /\ \A q \in Procs \ {n} : /\ state'[q] = state[q]
                                /\ count'[q] = count[q] /\ cmd'[q] = cmd[q]
  BY <1>3 DEF Types, TypeOK
<1>5. DiskAlone'
  BY <1>3 DEF Disks, DiskAlone
<1>6. \A P \in SUBSET Submitting : Somebody(P)' <=> Somebody(P)
  BY <1>3 DEF Somebody
<1>7. \A q \in Procs : q # NULL
  BY SleepersAssumption DEF Nodes
<1>8. \A q \in Procs : /\ Holder(q, s) /\ Asked(q, s)
                       /\ pc[q] \notin {"d_take", "d_issue"}
  <2> TAKE q \in Procs
  <2>1. Holder(q, s) /\ Asked(q, s)
    BY <1>1 DEF QueueIs
  <2>2. pc[q] # "d_take" /\ pc[q] # "d_issue"
    BY <1>1, <1>2, <1>7, <2>1 DEF Holder, DiskWait
  <2> QED BY <2>1, <2>2
<1>9. Pending(n, s)
  BY <1>2 DEF Pending
<1>10. ASSUME NEW r \in Seq(Procs),
              \A q \in Procs : Pending(q, r)' <=> q # n /\ Pending(q, s),
              NEW q \in Procs,
              pc[q] = "d_prevs_next" => list_next'[q] = list_next[q],
              pc[q] \in HalfIn => /\ Len(r) > 0 /\ r[Len(r)] = q /\ in_using' # q
                                  /\ pc[q] = "d_store" => UNCHANGED block_request_count
       PROVE  Holder(q, r)' /\ Asked(q, r)'
  <2>1. CASE q = n
    <3>1. ~Pending(n, r)' /\ pc'[n] \in DiskWait
      BY <1>1, <1>2, <1>3, <1>10
    <3>2. Asked(n, r)'
      BY <1>4, <3>1 DEF Asked, DiskWait
    <3>3. Holder(n, r)'
      BY <1>4, <3>1 DEF Holder, DiskWait, HalfIn, SemaPlaces, InSemaphore, SemaWait,
                        Running, Sleeping
    <3> QED BY <2>1, <3>2, <3>3
  <2>2. CASE q # n
    <3>1. Pending(q, r)' <=> Pending(q, s)
      BY <1>10, <2>2
    <3>2. pc'[q] = pc[q] /\ state'[q] = state[q] /\ loaded'[q] = loaded[q]
          /\ count'[q] = count[q] /\ cmd'[q] = cmd[q]
      BY <1>3, <1>4, <2>2
    <3>3. Holder(q, r)'
      BY <1>8, <1>10, <3>1, <3>2 DEF Holder, HalfIn
    <3>4. Asked(q, r)'
      BY <1>8, <3>1, <3>2 DEF Asked
    <3> QED BY <3>3, <3>4
  <2> QED BY <2>1, <2>2
<1>11. {"d_prev"} \in SUBSET Submitting /\ {"d_prev", "d_heads_prev"} \in SUBSET Submitting
       /\ HalfIn \in SUBSET Submitting
  BY DEF HalfIn, Submitting
<1>12. Once(s) /\ Ring(s) /\ block_request_count = Counted(s)
  BY <1>1 DEF QueueIs
<1>13. CASE block_request_count = 0
  <2>1. /\ in_using' = NULL /\ device' = AtRest /\ list_next' = list_next
        /\ list_prev' = list_prev /\ block_request_count' = block_request_count
    BY <1>13 DEF end_request, NextCommand
  <2>2. \A q \in Procs : Pending(q, s)' <=> q # n /\ Pending(q, s)
    BY <1>1, <1>2, <1>7, <2>1 DEF Pending
  <2>3. ASSUME NEW q \in Procs PROVE Holder(q, s)' /\ Asked(q, s)'
    <3>1. pc[q] \in HalfIn => Len(s) > 0 /\ s[Len(s)] = q /\ in_using' # q
      BY <1>7, <1>8, <2>1 DEF Holder
    <3> QED BY <1>10, <2>1, <2>2, <3>1
  <2>4. Ring(s)' /\ (block_request_count = Counted(s))'
    BY <1>6, <1>11, <1>12, <2>1 DEF Ring, Counted
  <2>5. ASSUME NEW i \in 1 .. Len(s) PROVE pc'[s[i]] \in Submitting
    <3>1. Somebody(HalfIn) /\ Len(s) = 1
      BY <1>12, <1>13, <2>5 DEF Counted
    <3>2. PICK q \in Procs : pc[q] \in HalfIn
      BY <3>1 DEF Somebody
    <3>3. s[i] = q
      BY <1>8, <2>5, <3>1, <3>2 DEF Holder
    <3> QED BY <1>3, <1>11, <3>2, <3>3
  <2>6. DeviceRight(s)'
    <3>1. ~In(NULL, s)
      <4>1. \A i \in 1 .. Len(s) : s[i] \in Procs
        OBVIOUS
      <4> QED BY <1>7, <4>1 DEF In
    <3> QED BY <2>1, <2>5, <3>1 DEF DeviceRight, In
  <2>7. QueueIs(s)'
    BY <1>12, <2>3, <2>4, <2>6 DEF QueueIs, Once
  <2> QED BY <1>5, <2>7 DEF Disks
<1>14. CASE block_request_count # 0
  <2>1. /\ Len(s) > 0 /\ ~HalfAdded /\ (Somebody(HalfIn) => Len(s) > 1) /\ Len(s) \in Nat
        /\ 1 \in 1 .. Len(s) /\ Len(s) \in 1 .. Len(s) /\ s[1] \in Procs
    BY <1>1, <1>14
  <2>2. TakeFirst(list_next[ListHead]) /\ device' = Command(list_next[ListHead])
    BY <1>3, <1>14 DEF end_request, NextCommand
  <2>3. Somebody({"d_prev"}) => Len(s) > 2
    <3>1. Somebody({"d_prev"}) => Len(s) # 2
      <4> SUFFICES ASSUME Somebody({"d_prev"}), Len(s) = 2 PROVE FALSE
        OBVIOUS
      <4>1. list_prev[ListHead] = NodeAt(s, Len(s) - 1) /\ list_prev[ListHead] # list_next[ListHead]
        BY <1>12, <2>1 DEF Ring, HalfAdded, Somebody
      <4>2. 0 \in 0 .. Len(s) /\ NodeAt(s, 0) = ListHead /\ 0 + 1 = 1 /\ 2 - 1 = 1
        BY <2>1 DEF NodeAt
      <4>3. list_next[ListHead] = NodeAt(s, 1)
        BY <1>12, <4>2 DEF Ring
      <4> QED BY <4>1, <4>2, <4>3
    <3>2. Somebody({"d_prev"}) => Somebody(HalfIn)
      BY DEF Somebody, HalfIn
    <3> SUFFICES ASSUME Somebody({"d_prev"}) PROVE Len(s) > 2
      OBVIOUS
    <3>3. Len(s) > 1 /\ Len(s) # 2
      BY <2>1, <3>1, <3>2
    <3>4. Len(s) \in Nat /\ \A k \in Nat : (k > 1 /\ k # 2) => k > 2
      OBVIOUS
    <3> QED BY <3>3, <3>4
  <2>4. list_next[ListHead] = s[1]
    <3>1. 0 \in 0 .. Len(s) /\ NodeAt(s, 0) = ListHead /\ NodeAt(s, 0 + 1) = s[1]
      BY <2>1 DEF NodeAt
    <3> QED BY <1>12, <3>1 DEF Ring
  <2>5. in_using' = s[1] /\ Unlinked(s[1]) /\ block_request_count' = block_request_count - 1
    BY <2>2, <2>4 DEF TakeFirst
  <2> DEFINE t == Tail(s)
  <2>6. /\ Ring(t)' /\ \A q \in Procs \ {s[1]} : list_next'[q] = list_next[q]
    BY <1>6, <1>11, <1>12, <2>1, <2>3, <2>5, RingLosesFirst
  <2>7. /\ t \in Seq(Procs) /\ Len(t) = Len(s) - 1 /\ Once(t) /\ ~In(s[1], t)
        /\ \A q \in Procs : In(q, s) <=> q = s[1] \/ In(q, t)
    BY <1>12, <2>1, TailNodes
  <2>8. Len(s) > 1 => t[Len(t)] = s[Len(s)]
    BY <2>1
  <2> HIDE DEF t
  <2>9. \A q \in Procs : Pending(q, t)' <=> q # n /\ Pending(q, s)
    BY <1>1, <1>2, <2>5, <2>7 DEF Pending, In
  <2>10. ASSUME NEW q \in Procs PROVE Holder(q, t)' /\ Asked(q, t)'
    <3>1. pc[q] = "d_prevs_next" => list_next'[q] = list_next[q]
      <4>1. pc[q] = "d_prevs_next" => ~In(q, s)
        BY <1>8 DEF Holder, Pending
      <4> QED BY <2>1, <2>6, <4>1 DEF In
    <3>2. ASSUME pc[q] \in HalfIn
          PROVE  Len(t) > 0 /\ t[Len(t)] = q /\ in_using' # q /\ pc[q] # "d_store"
      <4>1. Len(s) > 1
        BY <2>1, <3>2 DEF Somebody
      <4>2. s[Len(s)] = q
        BY <1>8, <3>2 DEF Holder
      <4>3. s[1] # q
        BY <1>12, <2>1, <4>1, <4>2 DEF Once
      <4>4. pc[q] # "d_store"
        BY <2>1 DEF HalfAdded
      <4> QED BY <2>5, <2>7, <2>8, <4>1, <4>2, <4>3, <4>4
    <3> QED BY <1>10, <2>7, <2>9, <3>1, <3>2
  <2>11. (block_request_count = Counted(t))'
    BY <1>6, <1>11, <1>12, <2>1, <2>5, <2>7 DEF Counted, Types
  <2>12. DeviceRight(t)'
    <3>1. s[1] # n /\ s[1] # NULL
      BY <1>1, <1>2, <1>7, <2>1 DEF In
    <3>2. Command(s[1])' = Command(s[1])
      BY <1>4, <2>1, <3>1 DEF Command
    <3> QED BY <2>2, <2>4, <2>5, <2>7, <3>1, <3>2 DEF DeviceRight, In
  <2>13. QueueIs(t)'
    BY <2>6, <2>7, <2>10, <2>11, <2>12 DEF QueueIs, Once
  <2> QED BY <1>5, <2>7, <2>13 DEF Disks
<1> QED BY <1>13, <1>14

-----------------------------------------------------------------------------
(* Every step keeps the invariant as long as it hits no window.            *)

\* What the pool of UnitPool sees of a step.
PoolStep ==
    \/ /\ \E p \in Procs : p \notin Owners /\ Owners' = Owners \cup {p}
       /\ overdrawn' = (overdrawn \/ Cardinality(Owners) >= Units)
    \/ /\ \/ Owners' = Owners
          \/ \E p \in Procs : p \in Owners /\ Owners' = Owners \ {p}
          \/ \E p, q \in Procs : /\ p \in Owners /\ q \notin Owners
                                 /\ Owners' = (Owners \ {p}) \cup {q}
       /\ overdrawn' = overdrawn

Core == Sched /\ Disks /\ Semas

LEMMA TickStep ==
    ASSUME Types, Types', Core, Tick, window' = "none"
    PROVE  Core' /\ PoolStep
<1>1. UNCHANGED <<state, pc, diskVars, semaphoreVars>>
  BY DEF Tick, Preempt
<1>2. \A q \in Procs : DiskSame(q) /\ SemaSame(q)
  BY <1>1 DEF DiskSame, SemaSame
<1>3. \A q \in Procs : pc[q] # "s_del"
  <2>1. now # Idle => pc[now] # "s_del"
    BY DEF Tick, Preempt, Hit
  <2> QED BY <2>1, SleepersAssumption DEF Core, Semas, SemaPlace
<1>4. Sched' /\ Disks'
  BY <1>1, <1>2, SchedTick, DiskStill DEF Core
<1>5. Semas' /\ Owners' = Owners /\ overdrawn' = overdrawn
  BY <1>1, <1>2, <1>3, SemaStill DEF Core
<1> QED BY <1>4, <1>5 DEF Core, PoolStep

LEMMA InterruptStep ==
    ASSUME Types, Types', Core, Interrupt, window' = "none"
    PROVE  Core' /\ PoolStep
<1>1. UNCHANGED semaphoreVars /\ device.left > 0
  BY DEF Interrupt, disk_handler
<1>2. PICK n \in Procs : n = in_using
  BY <1>1, InterruptFinds DEF Core
<1>3. n # NULL
  BY SleepersAssumption DEF Nodes
<1>4. CASE SectorDone(in_using) /\ cmd[in_using] # "identify" /\ count[in_using] # 1
  <2>1. UNCHANGED <<now, ready, state, pc, tsk, fault>>
    BY <1>4 DEF SectorDone, scheduleVars
  <2>2. Sched'
    BY <2>1 DEF Core, Sched, TakenRight, SleepsRight, InSchedule
  <2>3. Disks'
    BY <1>1, <1>4, DiskSector DEF Core
  <2>4. \A q \in Procs : SemaSame(q)
    BY <2>1 DEF SemaSame
  <2>5. Semas' /\ Owners' = Owners /\ overdrawn' = overdrawn
    BY <1>1, <2>1, <2>4, SemaStill DEF Core
  <2> QED BY <2>2, <2>3, <2>5 DEF Core, PoolStep
<1>5. CASE end_request(in_using)
  <2>1. /\ state[n] = Sleeping /\ now # n /\ pc[n] \in DiskWait
        /\ state' = [state EXCEPT ![n] = Running]
        /\ Insert(ready, n) /\ UNCHANGED <<now, pc, tsk>>
    BY <1>1, <1>2, <1>5, EndFinds DEF Core
  <2>2. Sched'
    BY <2>1, SchedWakes DEF Core
  <2>3. Disks'
    BY <1>1, <1>5, DiskEnds DEF Core
  <2>4. pc[n] \notin SemaPlaces
    BY <2>1 DEF DiskWait, SemaPlaces, InSemaphore, SemaWait
  <2>5. \A q \in Procs : SemaSame(q)
    BY <2>1, <2>4 DEF SemaSame
  <2>6. Semas' /\ Owners' = Owners /\ overdrawn' = overdrawn
    BY <1>1, <2>1, <2>5, SemaStill DEF Core
  <2> QED BY <2>2, <2>3, <2>6 DEF Core, PoolStep
<1> QED BY <1>2, <1>3, <1>4, <1>5 DEF Interrupt, disk_handler

\* The driver's steps leave the semaphore alone.
LEMMA DiskLeavesSema ==
    ASSUME Types, Types', Semas, NEW p \in Procs, now = p, NEW l, Goto(p, l),
           UNCHANGED semaphoreVars, pc[p] \notin SemaPlaces, l \notin SemaPlaces,
           \A q \in Procs \ {p} : state'[q] = state[q]
    PROVE  Semas' /\ Owners' = Owners /\ overdrawn' = overdrawn
<1>1. \A q \in Procs : SemaSame(q)
  BY DEF Types, Goto, SemaSame
<1>2. \A q \in Procs : pc[q] # "s_del"
  BY DEF Semas, SemaPlace, SemaPlaces, InSemaphore
<1> QED BY <1>1, <1>2, SemaStill

\* A step of the driver in its own code, with its place before and after it.
LEMMA DiskMoves ==
    ASSUME NEW p \in Procs, DiskStep(p)
    PROVE  \E l \in DiskPlaces \cup {"home"} :
              /\ now = p /\ pc[p] \in DiskPlaces \cup {"home"} /\ Goto(p, l)
              /\ UNCHANGED state \/ (wait_for_finish(p) /\ l = "d_schedule")
<1> USE DEF At, DiskPlaces, Submitting, DiskWait
<1>1. CASE make_request(p)
  BY <1>1 DEF make_request
<1>2. CASE ListAdd(p)
  BY <1>2 DEF ListAdd
<1>3. CASE CountRequest(p)
  BY <1>3 DEF CountRequest
<1>4. CASE submit(p)
  BY <1>4 DEF submit
<1>5. CASE CmdOutTake(p)
  BY <1>5 DEF CmdOutTake
<1>6. CASE CmdOutIssue(p)
  BY <1>6 DEF CmdOutIssue
<1>7. CASE wait_for_finish(p)
  BY <1>7 DEF wait_for_finish
<1>8. CASE ScheduleTake(p, "d_schedule", "d_switch")
  BY <1>8 DEF ScheduleTake
<1>9. CASE ScheduleSwitch(p, "d_switch", "d_back")
  BY <1>9 DEF ScheduleSwitch
<1>10. CASE TransferReturns(p)
  BY <1>10 DEF TransferReturns
<1> QED
  BY <1>1, <1>2, <1>3, <1>4, <1>5, <1>6, <1>7, <1>8, <1>9, <1>10 DEF DiskStep

LEMMA PlacesApart ==
    /\ DiskPlaces \cap SemaPlaces = {} /\ "home" \notin DiskPlaces \cup SemaPlaces
    /\ DiskWait \subseteq DiskPlaces /\ Submitting \subseteq DiskPlaces
    /\ SemaWait \subseteq SemaPlaces /\ InSemaphore \subseteq SemaPlaces
    /\ (Submitting \cup {"d_sleep", "home"}) \cap SleepPlaces = {}
BY DEF DiskPlaces, SemaPlaces, Submitting, DiskWait, InSemaphore, SemaWait, SleepPlaces

\* One that neither schedules nor goes to sleep changes nothing of Sched.
LEMMA DiskSchedPlain ==
    ASSUME Types, Sched, NEW p \in Procs,
           \/ make_request(p) \/ ListAdd(p) \/ CountRequest(p) \/ submit(p)
           \/ (CmdOutTake(p) /\ fault' = fault) \/ CmdOutIssue(p) \/ TransferReturns(p)
    PROVE  Sched'
<1>1. /\ now = p /\ pc[p] \in Submitting \cup {"home", "d_back"}
      /\ UNCHANGED <<now, ready, state, tsk, fault>>
      /\ \E l \in Places : Goto(p, l)
  <2> USE DEF At, Submitting, Places, DiskPlaces, diskVars
  <2>1. CASE make_request(p)
    BY <2>1 DEF make_request
  <2>2. CASE ListAdd(p)
    BY <2>2 DEF ListAdd
  <2>3. CASE CountRequest(p)
    BY <2>3 DEF CountRequest
  <2>4. CASE submit(p)
    BY <2>4 DEF submit
  <2>5. CASE CmdOutTake(p) /\ fault' = fault
    BY <2>5 DEF CmdOutTake
  <2>6. CASE CmdOutIssue(p)
    BY <2>6 DEF CmdOutIssue
  <2>7. CASE TransferReturns(p)
    BY <2>7 DEF TransferReturns
  <2> QED BY <2>1, <2>2, <2>3, <2>4, <2>5, <2>6, <2>7
<1>2. pc[p] \notin SleepPlaces \/ pc[p] \in {"d_back", "s_back"}
  BY <1>1, PlacesApart
<1>3. state[p] = Running /\ \A q \in Procs : tsk[q] = Idle
  BY <1>1, <1>2, RunsHere
<1> QED BY <1>1, <1>3, SchedPlain

LEMMA DiskCore ==
    ASSUME Types, Types', Core, NEW p \in Procs, Disk(p), window' = "none"
    PROVE  Core' /\ PoolStep
<1>1. PICK l \in DiskPlaces \cup {"home"} :
          /\ now = p /\ pc[p] \in DiskPlaces \cup {"home"} /\ Goto(p, l)
          /\ UNCHANGED state \/ (wait_for_finish(p) /\ l = "d_schedule")
  BY DiskMoves DEF Disk
<1>2. \A q \in Procs \ {p} : state'[q] = state[q] /\ pc'[q] = pc[q]
  BY <1>1 DEF wait_for_finish, Goto, Types, TypeOK
<1>3. Semas' /\ Owners' = Owners /\ overdrawn' = overdrawn
  BY <1>1, <1>2, PlacesApart, DiskLeavesSema DEF Core, Disk
<1>4. pc'[p] = l
  BY <1>1 DEF Goto, Types
<1> SUFFICES Sched' /\ Disks'
  BY <1>3 DEF Core, PoolStep
<1>5. CASE make_request(p)
  BY <1>5, DiskSchedPlain, DiskMakes DEF Core
<1>6. CASE ListAdd(p)
  <2>1. Disks'
    <3>1. UNCHANGED <<state, in_using, block_request_count, cmd, count, loaded, node, device>>
      BY <1>6 DEF ListAdd
    <3>2. CASE At(p, "d_next") /\ Goto(p, "d_prevs_next")
      BY <1>6, <3>1, <3>2, DiskAddNext DEF ListAdd, At, Core
    <3>3. CASE At(p, "d_prevs_next") /\ Goto(p, "d_prev")
      BY <1>6, <3>1, <3>3, DiskAddPrevsNext DEF ListAdd, At, Core
    <3>4. CASE At(p, "d_prev") /\ Goto(p, "d_heads_prev")
      BY <1>6, <3>1, <3>4, DiskAddPrev DEF ListAdd, At, Core
    <3>5. CASE At(p, "d_heads_prev") /\ Goto(p, "d_load")
      BY <1>6, <3>1, <3>5, DiskAddHeadsPrev DEF ListAdd, At, Core
    <3> QED BY <1>6, <3>2, <3>3, <3>4, <3>5 DEF ListAdd
  <2> QED BY <1>6, <2>1, DiskSchedPlain DEF Core
<1>7. CASE CountRequest(p)
  <2>1. Disks'
    <3>1. UNCHANGED <<state, list_next, list_prev, in_using, cmd, count, node, device>>
      BY <1>7 DEF CountRequest
    <3>2. CASE At(p, "d_load") /\ Goto(p, "d_store")
      BY <1>7, <3>1, <3>2, DiskCounts DEF CountRequest, At, Core
    <3>3. CASE At(p, "d_store") /\ Goto(p, "d_test")
      BY <1>7, <3>1, <3>3, DiskCounts DEF CountRequest, At, Core
    <3> QED BY <1>7, <3>2, <3>3 DEF CountRequest
  <2> QED BY <1>7, <2>1, DiskSchedPlain DEF Core
<1>8. CASE submit(p)
  <2>1. UNCHANGED <<state, diskVars>> /\ pc[p] = "d_test"
        /\ pc'[p] = IF in_using = NULL THEN "d_take" ELSE "d_sleep"
    BY <1>8 DEF submit, At, Goto, Types
  <2>2. \A q \in Procs : DiskSame(q)
    BY <1>2, <2>1 DEF DiskSame
  <2> QED BY <1>8, <2>1, <2>2, DiskStill, DiskSchedPlain DEF Core
<1>9. CASE CmdOutTake(p)
  <2>1. Disks' /\ fault' = fault
    BY <1>9, DiskTakes DEF Core
  <2> QED BY <1>9, <2>1, DiskSchedPlain DEF Core
<1>10. CASE CmdOutIssue(p)
  BY <1>10, DiskIssues, DiskSchedPlain DEF Core
<1>11. CASE wait_for_finish(p)
  <2>1. /\ UNCHANGED <<now, ready, tsk, fault>> /\ UNCHANGED diskVars
        /\ pc[p] = "d_sleep" /\ Goto(p, "d_schedule")
        /\ state' = [state EXCEPT ![p] = Sleeping]
    BY <1>11 DEF wait_for_finish, At
  <2>2. \A q \in Procs : tsk[q] = Idle
    BY <1>1, <2>1, PlacesApart, RunsHere DEF Core
  <2>3. Sched'
    BY <1>1, <2>1, <2>2, SchedSleeps DEF Core
  <2>4. pc'[p] = "d_schedule" /\ state'[p] = Sleeping
    BY <2>1 DEF Goto, Types, TypeOK
  <2>5. \A q \in Procs : DiskSame(q)
    BY <1>2, <2>1, <2>4 DEF DiskSame
  <2> QED BY <2>1, <2>3, <2>5, DiskStill DEF Core
<1>12. CASE ScheduleTake(p, "d_schedule", "d_switch") /\ UNCHANGED diskVars
  <2>1. Sched'
    BY <1>12, SchedTake DEF Core, Switching
  <2>2. state' = state /\ pc[p] = "d_schedule" /\ pc'[p] = "d_switch"
    BY <1>12 DEF ScheduleTake, At, Goto, Types
  <2>3. \A q \in Procs : DiskSame(q)
    BY <1>2, <2>2 DEF DiskSame, DiskWait
  <2> QED BY <1>12, <2>1, <2>3, DiskStill DEF Core
<1>13. CASE ScheduleSwitch(p, "d_switch", "d_back") /\ UNCHANGED diskVars
  <2>1. Sched'
    BY <1>13, SchedSwitch DEF Core, Switching
  <2>2. state' = state /\ pc[p] = "d_switch" /\ pc'[p] = "d_back"
    BY <1>13 DEF ScheduleSwitch, At, Goto, Types
  <2>3. \A q \in Procs : DiskSame(q)
    BY <1>2, <2>2 DEF DiskSame, DiskWait
  <2> QED BY <1>13, <2>1, <2>3, DiskStill DEF Core
<1>14. CASE TransferReturns(p)
  <2>1. UNCHANGED <<state, diskVars>> /\ pc[p] = "d_back" /\ pc'[p] = "home"
    BY <1>14 DEF TransferReturns, At, Goto, Types
  <2>2. state[p] = Running
    BY <1>1, <2>1, RunsHere DEF Core
  <2>3. \A q \in Procs : DiskSame(q)
    BY <1>2, <2>1, <2>2 DEF DiskSame, DiskWait, Outside
  <2> QED BY <1>14, <2>1, <2>3, DiskStill, DiskSchedPlain DEF Core
<1> QED
  BY <1>5, <1>6, <1>7, <1>8, <1>9, <1>10, <1>11, <1>12, <1>13, <1>14 DEF Disk, DiskStep


\* The semaphore's steps leave the driver alone.
LEMMA SemaLeavesDisk ==
    ASSUME Types, Types', Disks, NEW p \in Procs, NEW l, Goto(p, l),
           UNCHANGED diskVars, pc[p] \in Outside, l \in Outside,
           \A q \in Procs : state'[q] = state[q] \/ pc[q] \in Outside
    PROVE  Disks'
<1>1. \A q \in Procs : DiskSame(q)
  BY DEF Types, Goto, DiskSame
<1> QED BY <1>1, DiskStill

LEMMA SemaCore ==
    ASSUME Types, Types', Core, NEW p \in Procs, Sema(p), window' = "none"
    PROVE  Core' /\ PoolStep
<1> USE DEF Core
<1>1. UNCHANGED diskVars
  BY DEF Sema
<1>2. ASSUME now = p, pc[p] \in ({"home", "s_back"} \cup InSemaphore) \ {"s_add"}
      PROVE  state[p] = Running /\ \A q \in Procs : tsk[q] = Idle
  <2>1. pc[p] \notin SleepPlaces \/ pc[p] \in {"d_back", "s_back"}
    BY <1>2 DEF InSemaphore, SleepPlaces, DiskWait, SemaWait
  <2> QED BY <1>2, <2>1, RunsHere
<1>3. ASSUME NEW l \in {"s_dec", "s_state", "s_inc", "s_unlink"}, At(p, "home"), Goto(p, l),
             UNCHANGED <<now, ready, state, tsk, fault, semaphoreVars>>,
             l \in {"s_dec", "s_state"} => p \notin holds /\ (l = "s_dec" <=> counter > 0),
             l \in {"s_inc", "s_unlink"} => p \in holds /\ (l = "s_inc" <=> waiting = <<>>)
      PROVE  Core' /\ PoolStep
  <2>1. now = p /\ pc[p] = "home" /\ pc[p] \in Outside /\ l \in Outside
    BY <1>3 DEF At, Outside, SemaPlaces, InSemaphore
  <2>2. Sched'
    BY <1>2, <1>3, <2>1, SchedPlain
  <2>3. Disks'
    BY <1>1, <1>3, <2>1, SemaLeavesDisk
  <2>4. UNCHANGED <<state, semaphoreVars>> /\ overdrawn' = overdrawn /\ now' = now
    BY <1>3 DEF semaphoreVars
  <2>5. Semas' /\ Owners' = Owners
    BY <1>3, <2>1, <2>4, SemaBegins
  <2> QED BY <2>2, <2>3, <2>4, <2>5 DEF PoolStep
<1>4. CASE semaphore_down(p)
  <2>1. counter > 0 \/ ~(counter > 0)
    OBVIOUS
  <2> QED BY <1>3, <1>4, <2>1 DEF semaphore_down
<1>5. CASE semaphore_up(p)
  BY <1>3, <1>5 DEF semaphore_up
<1>6. ASSUME NEW l \in Outside, pc[p] \in {"s_back", "s_dec", "s_inc", "s_unlink", "s_del"}, now = p,
             Goto(p, l), UNCHANGED <<now, ready, state, tsk>>, fault' = fault
      PROVE  Sched' /\ Disks'
  <2>1. pc[p] \in Outside /\ pc[p] \in ({"home", "s_back"} \cup InSemaphore) \ {"s_add"}
    BY <1>6 DEF Outside, SemaPlaces, InSemaphore, SemaWait
  <2>2. Sched'
    BY <1>2, <1>6, <2>1, SchedPlain
  <2>3. Disks'
    BY <1>1, <1>6, <2>1, SemaLeavesDisk
  <2> QED BY <2>2, <2>3
<1>7. CASE atomic_dec(p)
  <2>1. Sched' /\ Disks'
    BY <1>6, <1>7 DEF atomic_dec, At, Outside
  <2> QED BY <1>7, <2>1, SemaDec DEF PoolStep
<1>8. CASE atomic_inc(p)
  <2>1. Sched' /\ Disks'
    BY <1>6, <1>8 DEF atomic_inc, At, Outside
  <2> QED BY <1>8, <2>1, SemaInc DEF PoolStep, atomic_inc
<1>9. CASE DownReturns(p)
  <2>1. Sched' /\ Disks'
    BY <1>6, <1>9 DEF DownReturns, At, Outside
  <2> QED BY <1>9, <2>1, SemaReturns DEF PoolStep, DownReturns
<1>10. CASE UpUnlink(p)
  <2>1. Sched' /\ Disks'
    BY <1>6, <1>10 DEF UpUnlink, At, Outside, SemaPlaces, InSemaphore
  <2>2. overdrawn' = overdrawn
    BY <1>10 DEF UpUnlink
  <2> QED BY <1>10, <2>1, <2>2, SemaUnlink DEF PoolStep
<1>17. CASE UpFirst(p)
  <2>1. Semas' /\ Owners' = Owners /\ fault' = fault
    BY <1>17, SemaFirst
  <2>2. Sched' /\ Disks'
    BY <1>6, <1>17, <2>1 DEF UpFirst, At, Outside, SemaPlaces, InSemaphore
  <2>3. overdrawn' = overdrawn
    BY <1>17 DEF UpFirst
  <2> QED BY <2>1, <2>2, <2>3 DEF PoolStep
<1>11. CASE DownState(p)
  <2>1. /\ now = p /\ pc[p] = "s_state" /\ Goto(p, "s_add")
        /\ state' = [state EXCEPT ![p] = Sleeping]
        /\ UNCHANGED <<now, ready, tsk, fault>>
    BY <1>11 DEF DownState, At
  <2>2. Sched'
    BY <1>2, <2>1, SchedSleeps DEF InSemaphore
  <2>3. pc[p] \in Outside /\ "s_add" \in Outside
    BY <2>1 DEF Outside, SemaPlaces, InSemaphore
  <2>4. \A q \in Procs : state'[q] = state[q] \/ pc[q] \in Outside
    BY <2>1, <2>3 DEF Types, TypeOK
  <2>5. Disks'
    BY <1>1, <2>1, <2>3, <2>4, SemaLeavesDisk
  <2>6. overdrawn' = overdrawn
    BY <1>11 DEF DownState, semaphoreVars
  <2> QED BY <1>11, <2>2, <2>5, <2>6, SemaDownState DEF PoolStep
<1>12. CASE DownAdd(p)
  <2>1. /\ now = p /\ pc[p] = "s_add" /\ Goto(p, "s_schedule")
        /\ UNCHANGED <<now, ready, state, tsk, fault>>
    BY <1>12 DEF DownAdd, At
  <2>2. pc[p] \in Outside /\ "s_schedule" \in Outside
    BY <2>1 DEF Outside, SemaPlaces, InSemaphore, SemaWait
  <2>3. \A q \in Procs : tsk[q] = Idle
    BY <2>1 DEF Sched, TakenRight, Switching
  <2>4. Sched'
    <3>1. ASSUME NEW q \in Procs PROVE TakenRight(q)' /\ SleepsRight(q)'
      <4>1. TakenRight(q)'
        BY <2>1, <2>3 DEF TakenRight
      <4>2. InSchedule(q)' <=> InSchedule(q)
        BY <2>1 DEF InSchedule
      <4>3. q = p \/ pc'[q] = pc[q]
        BY <2>1 DEF Goto, Types
      <4>4. pc'[p] = "s_schedule"
        BY <2>1 DEF Goto, Types
      <4>5. SleepsRight(q)'
        BY <2>1, <4>2, <4>3, <4>4 DEF Sched, SleepsRight, SleepPlaces, SemaWait
      <4> QED BY <4>1, <4>5
    <3> QED BY <2>1, <3>1 DEF Sched
  <2>5. Disks'
    BY <1>1, <2>1, <2>2, SemaLeavesDisk
  <2>6. overdrawn' = overdrawn
    BY <1>12 DEF DownAdd
  <2> QED BY <1>12, <2>4, <2>5, <2>6, SemaDownAdd DEF PoolStep
<1>13. ASSUME NEW l \in {"s_schedule", "s_switch"}, NEW m \in SemaWait,
              now = p, pc[p] = l, Goto(p, m), UNCHANGED <<state, semaphoreVars>>
       PROVE  Disks' /\ Semas' /\ Owners' = Owners /\ overdrawn' = overdrawn
  <2>1. pc[p] \in SemaWait /\ pc[p] \in Outside /\ m \in Outside
    BY <1>13 DEF Outside, SemaPlaces, SemaWait
  <2>2. Disks'
    BY <1>1, <1>13, <2>1, SemaLeavesDisk
  <2>3. \A q \in Procs : SemaSame(q)
    BY <1>13, <2>1 DEF SemaSame, Goto, Types
  <2>4. \A q \in Procs : pc[q] # "s_del"
    BY <1>13 DEF Semas, SemaPlace
  <2>5. Semas' /\ Owners' = Owners /\ overdrawn' = overdrawn
    BY <1>13, <2>3, <2>4, SemaStill
  <2> QED BY <2>2, <2>5
<1>14. CASE ScheduleTake(p, "s_schedule", "s_switch") /\ UNCHANGED semaphoreVars
  <2>1. Sched'
    BY <1>14, SchedTake DEF Switching
  <2> QED BY <1>13, <1>14, <2>1 DEF ScheduleTake, At, SemaWait, PoolStep
<1>15. CASE ScheduleSwitch(p, "s_switch", "s_back") /\ UNCHANGED semaphoreVars
  <2>1. Sched'
    BY <1>15, SchedSwitch DEF Switching
  <2> QED BY <1>13, <1>15, <2>1 DEF ScheduleSwitch, At, SemaWait, PoolStep
<1>16. CASE UpQueue(p)
  <2>1. /\ now = p /\ pc[p] = "s_queue" /\ Goto(p, "home")
        /\ state' = [state EXCEPT ![waking[p]] = Running]
        /\ Insert(ready, waking[p]) /\ UNCHANGED <<now, tsk>>
    BY <1>16 DEF UpQueue, At
  <2>2. SemaPlace(p)
    BY DEF Semas
  <2>3. /\ waking[p] \in Procs /\ state[waking[p]] = Sleeping
        /\ pc[waking[p]] \in SemaWait /\ now # waking[p]
    BY <2>1, <2>2 DEF SemaPlace, SemaWait
  <2>4. state[p] = Running /\ \A q \in Procs : tsk[q] = Idle
    BY <1>2, <2>1 DEF InSemaphore
  <2>5. Sched'
    BY <2>1, <2>3, <2>4, SchedWakes
  <2>6. pc[p] \in Outside /\ "home" \in Outside /\ pc[waking[p]] \in Outside
    BY <2>1, <2>3 DEF Outside, SemaPlaces, InSemaphore, SemaWait
  <2>7. \A q \in Procs : state'[q] = state[q] \/ pc[q] \in Outside
    BY <2>1, <2>6 DEF Types, TypeOK
  <2>8. Disks'
    BY <1>1, <2>1, <2>6, <2>7, SemaLeavesDisk
  <2>9. overdrawn' = overdrawn
    BY <1>16 DEF UpQueue
  <2> QED BY <1>16, <2>5, <2>8, <2>9, SemaQueue DEF PoolStep
<1> QED
  BY <1>4, <1>5, <1>7, <1>8, <1>9, <1>10, <1>11, <1>12, <1>14, <1>15, <1>16, <1>17
     DEF Sema, SemaphoreStep

LEMMA NextCore ==
    ASSUME Types, Types', Core, Next, window' = "none"
    PROVE  Core' /\ PoolStep
BY TickStep, InterruptStep, DiskCore, SemaCore, SleepersAssumption DEF Next

\* Behind a window no step is left.
LEMMA WindowEnds ==
    ASSUME Next
    PROVE  window = "none"
<1>1. \A p \in Procs : Disk(p) => window = "none"
  BY DEF Disk, DiskStep, make_request, ListAdd, CountRequest, submit, CmdOutTake,
         CmdOutIssue, wait_for_finish, ScheduleTake, ScheduleSwitch, TransferReturns,
         At, GoesOn
<1>2. \A p \in Procs : Sema(p) => window = "none"
  BY DEF Sema, SemaphoreStep, semaphore_down, atomic_dec, DownState, DownAdd,
         ScheduleTake, ScheduleSwitch, DownReturns, semaphore_up, atomic_inc, UpFirst,
         UpUnlink, UpQueue, At, GoesOn
<1>3. Tick \/ Interrupt => window = "none"
  BY DEF Tick, Preempt, Interrupt, disk_handler, GoesOn
<1> QED BY <1>1, <1>2, <1>3, SleepersAssumption DEF Next

LEMMA InvInit ==
    ASSUME Init
    PROVE  IInv
<1> USE SleepersAssumption
<1>1. Types
  <2>1. TypeOK
    BY DEF Init, ScheduleInit, DiskInit, SemaphoreInit, TypeOK, Nodes
  <2> QED BY <2>1 DEF Init, ScheduleInit, DiskInit, SemaphoreInit, Types, Places, Nodes
<1>2. Sched
  BY DEF Init, ScheduleInit, Sched, TakenRight, SleepsRight, InSchedule, Running, Sleeping
<1>3. \A p \in Procs : pc[p] = "home"
  BY DEF Init, ScheduleInit
<1>4. Disks
  <2>1. DiskAlone
    BY <1>3 DEF DiskAlone, Submitting
  <2> DEFINE s == <<>>
  <2>2. s \in Seq(Procs) /\ Len(s) = 0
    OBVIOUS
  <2> HIDE DEF s
  <2>3. ~Somebody({"d_prev"}) /\ ~Somebody({"d_prev", "d_heads_prev"}) /\ ~Somebody(HalfIn)
    BY <1>3 DEF Somebody, HalfIn
  <2>4. Once(s) /\ \A p : ~In(p, s)
    BY <2>2 DEF Once, In
  <2>5. Ring(s)
    BY <2>2, <2>3 DEF Ring, NodeAt, Init, DiskInit, Nodes
  <2>6. block_request_count = Counted(s)
    BY <2>2, <2>3 DEF Counted, Init, DiskInit
  <2>7. in_using = NULL /\ device = AtRest
    BY DEF Init, DiskInit
  <2>8. ASSUME NEW p \in Procs PROVE Holder(p, s) /\ Asked(p, s)
    <3>1. ~Pending(p, s)
      BY <2>4, <2>7 DEF Pending, Nodes
    <3>2. cmd[p] = "none" /\ count[p] = 0
      BY DEF Init, DiskInit
    <3> QED BY <1>3, <3>1, <3>2 DEF Holder, Asked, HalfIn, DiskWait
  <2>9. DeviceRight(s)
    BY <2>2, <2>4, <2>7 DEF DeviceRight
  <2> QED BY <2>1, <2>2, <2>4, <2>5, <2>6, <2>8, <2>9 DEF Disks, QueueIs
<1>5. Semas
  <2>1. WokenOnce
    BY <1>3 DEF WokenOnce
  <2>2. counter = Units /\ waiting = <<>> /\ holds = {}
    BY DEF Init, SemaphoreInit
  <2>3. \A p : ~Waits(p)
    <3>1. Len(waiting) = 0
      BY <2>2
    <3> QED BY <3>1 DEF Waits, In
  <2>4. \A p \in Procs : SemaPlace(p) /\ Tested(p)
    BY <1>3, <2>2, <2>3 DEF SemaPlace, Tested, SemaWait
  <2>5. Owners = {}
    BY <1>3, <2>2 DEF Owners, Handed
  <2>6. UnitsRight
    BY <2>2, <2>5, FS_EmptySet DEF UnitsRight
  <2> QED BY <2>1, <2>2, <2>4, <2>6 DEF Semas, Once
<1> QED BY <1>1, <1>2, <1>4, <1>5 DEF IInv

LEMMA InvStep ==
    ASSUME IInv, [Next]_vars
    PROVE  IInv'
<1>1. Types'
  BY TypesStep
<1>2. CASE Next
  <2>1. window' = "none" => Core'
    BY <1>1, <1>2, NextCore, WindowEnds DEF IInv, Core
  <2> QED BY <1>1, <2>1 DEF IInv, Core
<1>3. CASE UNCHANGED vars
  <2>1. UNCHANGED <<now, ready, state, pc, tsk, window, fault, diskVars, semaphoreVars>>
    BY <1>3 DEF vars, scheduleVars
  <2>2. ASSUME window = "none" PROVE Sched' /\ Disks' /\ Semas'
    <3>1. Sched /\ Disks /\ Semas
      BY <2>2 DEF IInv
    <3>2. Sched'
      BY <2>1, <3>1 DEF Sched, TakenRight, SleepsRight, InSchedule
    <3>3. \A q \in Procs : DiskSame(q) /\ SemaSame(q)
      BY <2>1 DEF DiskSame, SemaSame
    <3> QED BY <1>1, <2>1, <3>1, <3>2, <3>3, DiskStill, SemaStill DEF IInv
  <2> QED BY <1>1, <2>1, <2>2 DEF IInv
<1> QED BY <1>2, <1>3

LEMMA InvAlways == Spec => []IInv
<1>1. Init => IInv
  BY InvInit
<1>2. IInv /\ [Next]_vars => IInv'
  BY InvStep
<1> QED BY <1>1, <1>2, PTL DEF Spec

-----------------------------------------------------------------------------
(* What is linked is what s lists.                                         *)

LEMMA LeastNatural ==
    ASSUME NEW T \in SUBSET Nat, T # {}
    PROVE  \E k \in T : \A j \in T : k <= j
<1>1. \E k \in T : \A j \in T : <<j, k>> \notin OpToRel(<, Nat)
  BY WFMin, NatLessThanWellFounded
<1>2. PICK k \in T : \A j \in T : <<j, k>> \notin OpToRel(<, Nat)
  BY <1>1
<1>3. \A j \in T : ~(j < k)
  BY <1>2 DEF OpToRel
<1> QED BY <1>3

LEMMA LinkedIs ==
    ASSUME NEW s \in Seq(Procs), QueueIs(s)
    PROVE  Linked = {ListHead} \cup {p \in Procs : In(p, s)}
<1>1. Once(s) /\ Len(s) \in Nat /\ \A i \in 0 .. Len(s) : list_next[NodeAt(s, i)] = NodeAt(s, i + 1)
  BY DEF QueueIs, Ring
<1> DEFINE R == {ListHead} \cup {p \in Procs : In(p, s)}
<1>2. \A i \in Nat : NodeAt(s, i) \in R
  <2>1. \A i \in 1 .. Len(s) : s[i] \in Procs /\ In(s[i], s)
    BY DEF In
  <2> QED BY <2>1 DEF NodeAt
<1>3. ClosedUnderNext(R) /\ R \in SUBSET Nodes
  <2>1. ASSUME NEW n \in R PROVE list_next[n] \in R
    <3>1. CASE n = ListHead
      <4>1. 0 \in 0 .. Len(s) /\ 0 + 1 \in Nat /\ NodeAt(s, 0) = ListHead
        BY <1>1 DEF NodeAt
      <4> QED BY <1>1, <1>2, <3>1, <4>1
    <3>2. CASE n # ListHead
      <4>1. PICK i \in 1 .. Len(s) : s[i] = n
        BY <3>2 DEF In
      <4>2. i \in 0 .. Len(s) /\ i + 1 \in Nat /\ NodeAt(s, i) = n
        BY <1>1, <4>1 DEF NodeAt
      <4> QED BY <1>1, <1>2, <4>2
    <3> QED BY <3>1, <3>2
  <2> QED BY <2>1 DEF ClosedUnderNext, Nodes
<1>4. Linked \subseteq R
  BY <1>3 DEF Linked
<1>5. ASSUME NEW S \in SUBSET Nodes, ClosedUnderNext(S), NEW i \in 0 .. Len(s)
      PROVE  NodeAt(s, i) \in S
  <2> DEFINE T == {j \in 0 .. Len(s) : NodeAt(s, j) \notin S}
  <2> SUFFICES ASSUME T # {} PROVE FALSE
    OBVIOUS
  <2>0. T \in SUBSET Nat
    BY <1>1
  <2> HIDE DEF T
  <2>1. PICK k \in T : \A j \in T : k <= j
    BY <2>0, LeastNatural
  <2> USE DEF T
  <2>2. k # 0
    BY <1>5, <2>1 DEF NodeAt, ClosedUnderNext
  <2>3. k - 1 \in 0 .. Len(s) /\ k - 1 \notin T /\ (k - 1) + 1 = k
    BY <1>1, <2>1, <2>2
  <2>4. NodeAt(s, k - 1) \in S
    BY <2>3
  <2> QED BY <1>1, <1>5, <2>1, <2>3, <2>4 DEF ClosedUnderNext
<1>6. R \subseteq Linked
  <2> SUFFICES ASSUME NEW n \in R PROVE n \in Linked
    OBVIOUS
  <2>1. \E i \in 0 .. Len(s) : NodeAt(s, i) = n
    <3>1. CASE n = ListHead
      <4>1. 0 \in 0 .. Len(s) /\ NodeAt(s, 0) = ListHead
        BY <1>1 DEF NodeAt
      <4> QED BY <3>1, <4>1
    <3>2. CASE n # ListHead
      <4>1. PICK i \in 1 .. Len(s) : s[i] = n
        BY <3>2 DEF In
      <4>2. i \in 0 .. Len(s) /\ NodeAt(s, i) = n
        BY <1>1, <4>1 DEF NodeAt
      <4> QED BY <4>2
    <3> QED BY <3>1, <3>2
  <2> QED BY <1>3, <1>5, <2>1 DEF Linked
<1> QED BY <1>4, <1>6

LEMMA UnservedIs ==
    ASSUME NEW s \in Seq(Procs), QueueIs(s), NEW p \in Procs
    PROVE  Unserved(p) <=> Pending(p, s)
BY LinkedIs, SleepersAssumption DEF Unserved, Pending

LEMMA LinkedCount ==
    ASSUME NEW s \in Seq(Procs), QueueIs(s)
    PROVE  Cardinality(Linked) = Len(s) + 1
<1> DEFINE D == 1 .. Len(s) + 1
           f == [i \in D |-> NodeAt(s, i)]
<1>1. Once(s) /\ Len(s) \in Nat
  BY DEF QueueIs
<1>2. IsFiniteSet(D) /\ Cardinality(D) = Len(s) + 1
  <2>1. 1 \in Int /\ Len(s) + 1 \in Int /\ (Len(s) + 1) - 1 + 1 = Len(s) + 1 /\ ~(1 > Len(s) + 1)
    BY <1>1
  <2> QED BY <2>1, FS_Interval
<1>3. f \in Injection(D, Linked)
  <2>1. \A i \in D : NodeAt(s, i) \in Linked
    BY <1>1, LinkedIs DEF NodeAt, In
  <2>2. \A i, j \in D : NodeAt(s, i) = NodeAt(s, j) => i = j
    BY <1>1, RingNodes
  <2> QED BY <2>1, <2>2 DEF Injection, IsInjective
<1>4. f \in Surjection(D, Linked)
  <2>1. \A n \in Linked : \E i \in D : f[i] = n
    <3> TAKE n \in Linked
    <3>1. CASE n = ListHead
      <4>1. Len(s) + 1 \in D /\ f[Len(s) + 1] = ListHead
        BY <1>1 DEF NodeAt
      <4> QED BY <3>1, <4>1
    <3>2. CASE n # ListHead
      <4>1. PICK i \in 1 .. Len(s) : s[i] = n
        BY <3>2, LinkedIs DEF In
      <4>2. i \in D /\ f[i] = n
        BY <1>1, <4>1 DEF NodeAt
      <4> QED BY <4>2
    <3> QED BY <3>1, <3>2
  <2> QED BY <1>3, <2>1 DEF Surjection, Injection
<1>5. f \in Bijection(D, Linked)
  BY <1>3, <1>4 DEF Bijection
<1> HIDE DEF D, f
<1> QED BY <1>2, <1>5, FS_Bijection DEF ExistsBijection

-----------------------------------------------------------------------------
(* The properties.                                                         *)

\* Until a window is hit the kernel links no entry twice and follows no pointer
\* to nothing, and no process is lost between schedule, the driver's list and
\* the semaphore's: submit, end_request, __down and __up.
THEOREM WindowsTheOnlyHarm == Spec => []OnlyWindowsHarm
<1>1. IInv => OnlyWindowsHarm
  <2> SUFFICES ASSUME IInv, window = "none", NEW p \in Procs
               PROVE  fault = "none" /\ (InSchedule(p) \/ Awaited(p))
    BY DEF OnlyWindowsHarm, Undisturbed, IInv, Sched
  <2>1. Types /\ Sched /\ Disks /\ Semas
    BY DEF IInv
  <2>2. CASE state[p] = Running
    BY <2>1, <2>2 DEF Sched, SleepsRight
  <2>3. CASE state[p] = Sleeping
    <3>1. now = p \/ pc[p] \in DiskWait \cup SemaWait
      BY <2>1, <2>3 DEF Sched, SleepsRight, SleepPlaces
    <3>2. CASE pc[p] \in DiskWait
      <4>1. PICK s \in Seq(Procs) : QueueIs(s)
        BY <2>1 DEF Disks
      <4>2. Unserved(p)
        BY <2>3, <3>2, <4>1, UnservedIs DEF QueueIs, Holder
      <4> QED BY <2>1, <3>2, <4>2 DEF Awaited, DiskWait, Sched
    <3>3. CASE pc[p] \in SemaWait
      BY <2>1, <2>3, <3>3 DEF Semas, SemaPlace, Awaited, Waits, Woken, WokenBy, In, Sched
    <3>4. CASE now = p
      BY <2>1, <3>4 DEF InSchedule, Sched
    <3> QED BY <3>1, <3>2, <3>3, <3>4
  <2> QED BY <2>1, <2>2, <2>3 DEF Types, TypeOK
<1> QED BY <1>1, InvAlways, PTL

\* When no process is inside submit, the request list goes round in both
\* directions, block_request_count is its length and the disk works for the
\* request in in_using: whatever interrupts came between the stores of
\* add_request and of cmd_out, but for those whose cmd_out meets HalfAdded, and
\* until another window is hit.
THEOREM RequestListIntact == Spec => []RequestsIntact
<1>1. IInv => RequestsIntact
  <2> SUFFICES ASSUME IInv, window = "none", \A p \in Procs : pc[p] \notin Submitting
               PROVE  /\ \A n \in Linked : list_prev[list_next[n]] = n
                      /\ block_request_count = Cardinality(Linked) - 1
                      /\ in_using \notin Linked
                      /\ device.node = in_using
                      /\ in_using = NULL => block_request_count = 0
                      /\ in_using # NULL => device.left = Command(in_using).left
    BY DEF RequestsIntact, Undisturbed, IInv, Types
  <2>1. PICK s \in Seq(Procs) : QueueIs(s)
    BY DEF IInv, Disks
  <2>2. Len(s) \in Nat /\ Once(s) /\ Ring(s) /\ DeviceRight(s) /\ block_request_count = Counted(s)
    BY <2>1 DEF QueueIs
  <2>3. ~Somebody({"d_prev"}) /\ ~Somebody({"d_prev", "d_heads_prev"}) /\ ~Somebody(HalfIn)
    BY DEF Somebody, HalfIn, Submitting
  <2>4. ASSUME NEW n \in Linked PROVE list_prev[list_next[n]] = n
    <3>1. \A i \in 0 .. Len(s) : /\ list_next[NodeAt(s, i)] = NodeAt(s, i + 1)
                                 /\ list_prev[NodeAt(s, i + 1)] = NodeAt(s, i)
      BY <2>2, <2>3 DEF Ring
    <3>2. PICK i \in 0 .. Len(s) : NodeAt(s, i) = n
      <4>1. CASE n = ListHead
        <5>1. 0 \in 0 .. Len(s) /\ NodeAt(s, 0) = ListHead
          BY <2>2 DEF NodeAt
        <5> QED BY <4>1, <5>1
      <4>2. CASE n # ListHead
        <5>1. PICK i \in 1 .. Len(s) : s[i] = n
          BY <2>1, <2>4, <4>2, LinkedIs DEF In
        <5>2. i \in 0 .. Len(s) /\ NodeAt(s, i) = n
          BY <2>2, <5>1 DEF NodeAt
        <5> QED BY <5>2
      <4> QED BY <4>1, <4>2
    <3> QED BY <3>1, <3>2
  <2>5. block_request_count = Len(s) /\ Cardinality(Linked) = Len(s) + 1
    BY <2>1, <2>2, <2>3, LinkedCount DEF Counted
  <2>6. in_using \notin Linked
    <3>1. in_using # ListHead
      BY SleepersAssumption DEF IInv, Types, TypeOK, Nodes
    <3> QED BY <2>1, <2>2, <3>1, LinkedIs DEF DeviceRight
  <2>7. in_using # NULL => device = Command(in_using)
    <3>1. in_using # NULL => in_using \in Procs /\ pc[in_using] # "d_issue"
      BY DEF IInv, Types, TypeOK, Submitting
    <3> QED BY <2>2, <3>1 DEF DeviceRight
  <2>8. in_using = NULL => Len(s) = 0 /\ device = AtRest
    <3>1. \A i \in 1 .. Len(s) : s[i] \in Procs
      OBVIOUS
    <3>2. in_using = NULL => \A i \in 1 .. Len(s) : FALSE
      BY <2>2, <3>1 DEF DeviceRight
    <3>3. Len(s) # 0 => 1 \in 1 .. Len(s)
      BY <2>2
    <3> QED BY <2>2, <3>2, <3>3 DEF DeviceRight
  <2>9. device.node = in_using
    BY <2>7, <2>8 DEF Command, AtRest
  <2> QED BY <2>2, <2>4, <2>5, <2>6, <2>7, <2>8, <2>9
<1> QED BY <1>1, InvAlways, PTL

\* wait_for_finish comes back only when end_request has ended the request of
\* its process, all sectors of it.
THEOREM TransfersServed == Spec => []ReturnsServed
<1>1. IInv => ReturnsServed
  <2> SUFFICES ASSUME IInv, window = "none", NEW p \in Procs, pc[p] = "d_back", InSchedule(p)
               PROVE  ~Unserved(p) /\ count[p] = 0
    BY DEF ReturnsServed, Undisturbed
  <2>1. Types /\ Sched
    BY DEF IInv
  <2>2. PICK s \in Seq(Procs) : QueueIs(s)
    BY DEF IInv, Disks
  <2>3. state[p] = Running
    <3>1. CASE now = p
      BY <2>1, <3>1 DEF Sched, SleepsRight, Types, TypeOK
    <3>2. CASE p \in ready
      BY <2>1, <3>2 DEF Sched
    <3>3. CASE \E q \in Procs \ {p} : tsk[q] = p
      BY <2>1, <3>3, SleepersAssumption DEF Sched, TakenRight
    <3> QED BY <3>1, <3>2, <3>3 DEF InSchedule
  <2>4. ~Pending(p, s) /\ count[p] = 0
    BY <2>2, <2>3 DEF QueueIs, Holder, Asked, DiskWait, Running, Sleeping
  <2> QED BY <2>2, <2>4, UnservedIs
<1> QED BY <1>1, InvAlways, PTL

\* However the operations of any number of processes overlap between their test
\* and their change, semaphore_down and semaphore_up make and lose no unit; a
\* counter below 0 or a process that waits beside a free unit takes an operation
\* that another one has overtaken.  Until a window is hit: a switch inside a
\* change of the list, or an __up whose only waiter another __up has taken.
THEOREM NoUnitLost == Spec => []UnitsKept
<1>1. IInv => UnitsKept
  BY DEF IInv, UnitsKept, Undisturbed, Semas, UnitsRight, Owners
<1> QED BY <1>1, InvAlways, PTL

LEMMA PoolCardinality == \A S : Pool!Cardinality(S) = Cardinality(S)
BY DEF Pool!Cardinality, Cardinality, Pool!IsFiniteSet, IsFiniteSet

\* Step by step, and however the operations overlap, the semaphore is a pool of
\* Units units that tells of a unit it did not have: atomic_dec takes one,
\* atomic_inc gives one back, the list_del of __up hands one over; no other step
\* moves one.  Behind a window the pool promises nothing.
THEOREM SemaphoreIsPool == Spec => ImplementsUnitPool
<1>1. Init => Pool!Init
  BY DEF Init, ScheduleInit, SemaphoreInit, Pool!Init, Undisturbed, Handed
<1>2. IInv /\ [Next]_vars => [Pool!Next]_<<holds \cup Handed, overdrawn, ~Undisturbed>>
  <2> SUFFICES ASSUME IInv, [Next]_vars
               PROVE  Pool!Next \/ UNCHANGED <<holds \cup Handed, overdrawn, ~Undisturbed>>
    OBVIOUS
  <2>1. CASE UNCHANGED vars
    BY <2>1 DEF vars, scheduleVars, semaphoreVars, Handed, Undisturbed
  <2>2. CASE Next /\ window' # "none"
    BY <2>2 DEF Pool!Next, Undisturbed
  <2>3. CASE Next /\ window' = "none"
    <3>1. Types' /\ Core /\ window = "none"
      BY <2>3, TypesStep, WindowEnds DEF IInv, Core
    <3>2. PoolStep
      BY <2>3, <3>1, NextCore DEF IInv
    <3>3. Undisturbed /\ Undisturbed'
      BY <2>3, <3>1 DEF Undisturbed
    <3>4. CASE Owners' = Owners /\ overdrawn' = overdrawn
      BY <3>3, <3>4 DEF Owners
    <3>5. CASE \E p \in Procs : \/ Pool!Take(p) \/ Pool!GiveBack(p)
                               \/ \E q \in Procs : Pool!HandOver(p, q)
      BY <3>3, <3>5 DEF Pool!Next
    <3>6. ASSUME NEW p \in Procs, p \notin Owners, Owners' = Owners \cup {p},
                 overdrawn' = (overdrawn \/ Cardinality(Owners) >= Units)
          PROVE  Pool!Take(p)
      BY <3>6, PoolCardinality DEF Owners, Pool!Take
    <3>7. ASSUME NEW p \in Procs, p \in Owners, Owners' = Owners \ {p},
                 overdrawn' = overdrawn
          PROVE  Pool!GiveBack(p)
      BY <3>7 DEF Owners, Pool!GiveBack
    <3>8. ASSUME NEW p \in Procs, NEW q \in Procs, p \in Owners, q \notin Owners,
                 Owners' = (Owners \ {p}) \cup {q}, overdrawn' = overdrawn
          PROVE  Pool!HandOver(p, q)
      BY <3>8 DEF Owners, Pool!HandOver
    <3> QED BY <3>2, <3>4, <3>5, <3>6, <3>7, <3>8 DEF PoolStep
  <2> QED BY <2>1, <2>2, <2>3
<1> QED BY <1>1, <1>2, InvAlways, PTL DEF Spec, ImplementsUnitPool, Pool!Spec

=============================================================================
