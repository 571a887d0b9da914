----------------------------- MODULE SoftTimer -----------------------------
(***************************************************************************)
(* Kernel timers (kernel/timer.c) run by the timer soft interrupt          *)
(* (kernel/softirq.c): the tick raises TIMER_SIRQ when the first timer is  *)
(* due (driver/PIT.c), ret_from_intr calls do_softirq (kernel/entry.S),    *)
(* and do_softirq enables interrupts before it calls do_timer.  So         *)
(* do_timer is interrupted between any two of its accesses, and as the     *)
(* TIMER_SIRQ bit is cleared only after it returns, every interrupt that   *)
(* arrives meanwhile runs do_timer again on top of it.                     *)
(*                                                                         *)
(* frames is the stack of these runs; limit is how many may be on it: 1    *)
(* stands for a machine where do_softirq is done before the next           *)
(* interrupt, 2 or more for the machine as it is.                          *)
(***************************************************************************)
EXTENDS Integers, Sequences, FiniteSets

CONSTANTS Timers,       \* the timers add_timer is called for
          Last,         \* timer_list_last
          Null,
          Expiries,     \* the values of expire_jiffies that are explored
          BootJiffies,  \* assumption: all timers are added by this second
          MaxJiffies,   \* bound: seconds of execution
          Limits        \* the nesting depths that are explored

Forever == MaxJiffies + 1   \* -1UL: later than any jiffies that is reached

ASSUME SoftTimerAssumption ==
    /\ IsFiniteSet(Timers) /\ Last \notin Timers /\ Null \notin Timers /\ Last # Null
    /\ BootJiffies \in Nat /\ MaxJiffies \in Nat
    /\ Expiries \subseteq BootJiffies + 1 .. MaxJiffies
    /\ Limits \subseteq Nat \ {0}

Nodes == Timers \cup {Last}

VARIABLES jiffies,
          timer_list_head,
          next_timer,      \* next_timer of every timer
          expire_jiffies,  \* expire_jiffies of every timer
          added,           \* the timers add_timer was called for
          softirq_status,  \* the TIMER_SIRQ bit
          frames,          \* the runs of do_softirq, the outermost first
          fired,           \* how often the function of every timer ran, up to 2
          fault,           \* what the processor stumbled over
          limit

vars == <<jiffies, timer_list_head, next_timer, expire_jiffies, added,
          softirq_status, frames, fired, fault, limit>>

\* init_timer(&timer_list_last, NULL, NULL, -1UL)
LastExpires == Forever

\* timer_init, up to the first add_timer.
Init ==
    /\ jiffies = 0
    /\ timer_list_head = Last
    /\ next_timer = [t \in Nodes |-> Null]
    /\ expire_jiffies = [t \in Nodes |-> LastExpires]
    /\ added = {}
    /\ softirq_status = FALSE
    /\ frames = <<>>
    /\ fired = [t \in Timers |-> 0]
    /\ fault = "none"
    /\ limit \in Limits

-----------------------------------------------------------------------------
(* The timer list.                                                         *)

\* The list from a node on, as the pointers give it up to the one that is NULL.
IsChain(c, node) ==
    /\ c[1] = node /\ next_timer[c[Len(c)]] = Null
    /\ \A i \in 1 .. Len(c) - 1 : next_timer[c[i]] = c[i + 1]
Chain(node) ==
    CHOOSE c \in UNION {[1 .. n -> Nodes] : n \in 1 .. Cardinality(Nodes)} : IsChain(c, node)

\* Variant: a new timer becomes the head whatever its time.
GoesFirst(e) == 0

\* How many timers the walk of add_timer passes: those that are due before e.
TimersBefore(e) ==
    LET c == Chain(timer_list_head)
    IN  CHOOSE k \in 0 .. Len(c) - 1 :
          /\ \A i \in 1 .. k : expire_jiffies[c[i]] < e
          /\ expire_jiffies[c[k + 1]] >= e

\* init_timer and add_timer, called before any timer is due: no soft interrupt
\* touches the list while the walk is under way.
add_timer(t, e) ==
    LET c == Chain(timer_list_head)
        k == TimersBefore(e)
    IN  /\ t \notin added /\ jiffies <= BootJiffies /\ frames = <<>>
        /\ added' = added \cup {t}
        /\ expire_jiffies' = [expire_jiffies EXCEPT ![t] = e]
        /\ IF k = 0 THEN timer_list_head' = t ELSE UNCHANGED timer_list_head
        /\ next_timer' = [x \in Nodes |-> IF x = t THEN c[k + 1]
                                          ELSE IF k > 0 /\ x = c[k] THEN t
                                          ELSE next_timer[x]]
        /\ UNCHANGED <<jiffies, softirq_status, frames, fired, fault, limit>>

-----------------------------------------------------------------------------
(* Interrupts.                                                             *)

MayInterrupt == fault = "none" /\ Len(frames) < limit

\* ret_from_intr: a pending soft interrupt starts do_softirq on top of whatever
\* was interrupted.
ret_from_intr(pending) ==
    frames' = IF pending THEN Append(frames, [pc |-> "while", timer |-> Null])
                         ELSE frames

\* The test PIT_handler and do_timer make on the first timer.
HeadDue(now) == expire_jiffies[timer_list_head] <= now

\* The tick of the second.  (A head that is NULL is a fault in HeadDue.)
PIT_handler ==
    /\ MayInterrupt /\ timer_list_head # Null /\ jiffies < MaxJiffies
    /\ jiffies' = jiffies + 1
    /\ softirq_status' = (softirq_status \/ HeadDue(jiffies'))
    /\ ret_from_intr(softirq_status')
    /\ UNCHANGED <<timer_list_head, next_timer, expire_jiffies, added, fired, fault, limit>>

\* Any other interrupt; without a pending soft interrupt it changes nothing here.
OtherInterrupt ==
    /\ MayInterrupt /\ softirq_status
    /\ ret_from_intr(softirq_status)
    /\ UNCHANGED <<jiffies, timer_list_head, next_timer, expire_jiffies, added,
                   softirq_status, fired, fault, limit>>

-----------------------------------------------------------------------------
(* do_softirq and do_timer: the steps of the innermost run.                *)

Top == frames[Len(frames)]

Goes(from, to) ==
    /\ fault = "none" /\ frames # <<>> /\ Top.pc = from
    /\ frames' = [frames EXCEPT ![Len(frames)].pc = to]

\* while(timer_list_head->expire_jiffies <= jiffies)
DueTest ==
    /\ timer_list_head # Null
    /\ Goes("while", IF HeadDue(jiffies) THEN "call" ELSE "clear")
    /\ UNCHANGED <<jiffies, timer_list_head, next_timer, expire_jiffies, added,
                   softirq_status, fired, fault, limit>>

\* timer_list_head->func(...): the head is read again; the function of
\* timer_list_last is NULL.
CallFunction ==
    /\ timer_list_head # Null
    /\ IF timer_list_head = Last
       THEN /\ fault' = "call of NULL"
            /\ UNCHANGED fired
       ELSE /\ fired' = [fired EXCEPT ![timer_list_head] = IF @ < 2 THEN @ + 1 ELSE @]
            /\ UNCHANGED fault
    /\ Goes("call", "delete")
    /\ UNCHANGED <<jiffies, timer_list_head, next_timer, expire_jiffies, added,
                   softirq_status, limit>>

\* del_timer(timer_list_head): the argument.
PassHead ==
    /\ fault = "none" /\ frames # <<>> /\ Top.pc = "delete"
    /\ frames' = [frames EXCEPT ![Len(frames)] = [pc |-> "compare", timer |-> timer_list_head]]
    /\ UNCHANGED <<jiffies, timer_list_head, next_timer, expire_jiffies, added,
                   softirq_status, fired, fault, limit>>

\* The tests of del_timer.  A timer that is no longer the head is searched for;
\* one that is in the list no more leads the walk past timer_list_last.
DeleteTests ==
    /\ fault = "none" /\ frames # <<>> /\ Top.pc = "compare"
    /\ LET d == Top.timer IN
       \/ /\ d = Last
          /\ Goes("compare", "while")
          /\ UNCHANGED <<fault>>
       \/ /\ d # Last /\ d = timer_list_head
          /\ Goes("compare", "unlink")
          /\ UNCHANGED <<fault>>
       \/ /\ d # Last /\ d # timer_list_head
          /\ fault' = "walk past the end"
          /\ Goes("compare", "while")
    /\ UNCHANGED <<jiffies, timer_list_head, next_timer, expire_jiffies, added,
                   softirq_status, fired, limit>>

\* Variants: the timer stays in the list; it was deleted by its function already.
HeadKept == timer_list_head
HeadRemovedTwice ==
    LET n == next_timer[timer_list_head] IN IF n = Last THEN n ELSE next_timer[n]

\* timer_list_head = timer_list_head->next_timer
HeadRemoved == next_timer[timer_list_head]

\* The next step of do_timer: its loop.
AfterUnlink == "while"

Unlink ==
    /\ timer_list_head # Null
    /\ Goes("unlink", AfterUnlink)
    /\ timer_list_head' = HeadRemoved
    /\ UNCHANGED <<jiffies, next_timer, expire_jiffies, added, softirq_status, fired,
                   fault, limit>>

\* Any access through a head that is NULL.
NullHead ==
    /\ fault = "none" /\ timer_list_head = Null
    /\ \/ frames # <<>> /\ Top.pc \in {"while", "call", "unlink"}
       \/ frames = <<>>
    /\ fault' = "access through NULL"
    /\ UNCHANGED <<jiffies, timer_list_head, next_timer, expire_jiffies, added,
                   softirq_status, frames, fired, limit>>

\* softirq_status &= ~(1 << 0), after the print that ends do_timer.  No other
\* bit is ever set, so the value stored is 0 whatever was read.
ClearStatus ==
    /\ Goes("clear", "return")
    /\ softirq_status' = FALSE
    /\ UNCHANGED <<jiffies, timer_list_head, next_timer, expire_jiffies, added,
                   fired, fault, limit>>

\* cli and the return to what was interrupted.
Return ==
    /\ fault = "none" /\ frames # <<>> /\ Top.pc = "return"
    /\ frames' = SubSeq(frames, 1, Len(frames) - 1)
    /\ UNCHANGED <<jiffies, timer_list_head, next_timer, expire_jiffies, added,
                   softirq_status, fired, fault, limit>>

do_softirq == \/ DueTest \/ CallFunction \/ PassHead \/ DeleteTests \/ Unlink
              \/ NullHead \/ ClearStatus \/ Return

-----------------------------------------------------------------------------

Next ==
    \/ \E t \in Timers, e \in Expiries : add_timer(t, e)
    \/ PIT_handler \/ OtherInterrupt
    \/ do_softirq

Spec == Init /\ [][Next]_vars

\* The PIT keeps interrupting and the processor keeps executing.
FairSpec == Spec /\ WF_vars(PIT_handler) /\ WF_vars(do_softirq)

-----------------------------------------------------------------------------

TypeOK ==
    /\ jiffies \in 0 .. MaxJiffies
    /\ timer_list_head \in Nodes \cup {Null}
    /\ next_timer \in [Nodes -> Nodes \cup {Null}]
    /\ expire_jiffies \in [Nodes -> Expiries \cup {Forever}]
    /\ added \subseteq Timers
    /\ softirq_status \in BOOLEAN
    /\ \A i \in 1 .. Len(frames) :
          /\ frames[i].pc \in {"while", "call", "delete", "compare", "unlink", "clear", "return"}
          /\ frames[i].timer \in Nodes \cup {Null}
    /\ Len(frames) <= limit
    /\ fired \in [Timers -> 0 .. 2]
    /\ fault \in {"none", "call of NULL", "walk past the end", "access through NULL"}
    /\ limit \in Limits

\* The list is in the order of the expiry times and ends with timer_list_last
\* (the comment in add_timer).
ListSorted ==
    timer_list_head # Null =>
        LET c == Chain(timer_list_head) IN
        /\ c[Len(c)] = Last
        /\ \A i \in 1 .. Len(c) - 1 : expire_jiffies[c[i]] <= expire_jiffies[c[i + 1]]
        /\ \A i \in 1 .. Len(c) - 1 : c[i] \in added

\* No tick is missed: whenever no soft interrupt is under way, nothing in the
\* list is due.  PIT_handler looks at the head only and raises one bit, which
\* nested runs clear for one another.
NoneOverdue ==
    fault = "none" /\ frames = <<>> /\ timer_list_head # Null => ~HeadDue(jiffies)

\* The list is right, in its order and its head, however the runs of do_timer
\* nest.
TimerListRight == TypeOK /\ ListSorted /\ NoneOverdue

\* When do_softirq is never interrupted, every timer is in the list until its
\* function has run, which it does once.
FiresOnce ==
    limit = 1 /\ frames = <<>> =>
        LET c == Chain(timer_list_head) IN
        \A t \in added : fired[t] = IF \E i \in 1 .. Len(c) : c[i] = t THEN 0 ELSE 1

\* When do_softirq is never interrupted, no function runs early and none before
\* that of a timer due sooner (do_timer stops at the first that is not due).
InTime ==
    [][limit = 1 =>
         \A t \in Timers : fired'[t] > fired[t] =>
             /\ expire_jiffies[t] <= jiffies
             /\ \A u \in added : expire_jiffies[u] < expire_jiffies[t] => fired[u] > 0]_vars

\* When do_softirq is never interrupted, every timer added runs its function.
EveryTimerFires ==
    \A t \in Timers : limit = 1 /\ t \in added ~> fired[t] > 0

\* timer.c:13 says of timer_list_last that it never expires: do_timer never
\* takes it for a timer that is due.
LastNeverExpires == fault # "call of NULL"

=============================================================================
