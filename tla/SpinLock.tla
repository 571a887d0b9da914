------------------------------ MODULE SpinLock ------------------------------
(***************************************************************************)
(* The spin lock of include/spinlock.h between processors: the decrement   *)
(* loop of spin_lock, the exchange of spin_trylock and the store of        *)
(* spin_unlock, one instruction per step.  The preemption count the three  *)
(* change as well is the concern of one processor's scheduler (Scheduler). *)
(*                                                                         *)
(* A lock is used with a discipline: by spin_lock only, by spin_trylock    *)
(* only, or by both.  The first two exclude each other's holders; the last *)
(* does not, as a waiter of spin_lock leaves a negative value that         *)
(* spin_trylock takes for a free lock.                                     *)
(***************************************************************************)
EXTENDS Integers, FiniteSets

CONSTANTS CPUs, Nobody, Disciplines

ASSUME SpinLockAssumption ==
    /\ IsFiniteSet(CPUs)
    /\ Nobody \notin CPUs
    /\ Disciplines \subseteq {"spin", "try", "mixed"}

VARIABLES lock,        \* the word; the code's comment: 1 unlocked, 0 locked
          pc,          \* where each processor is in spin_lock
          discipline

vars == <<lock, pc, discipline>>

\* spin_init.
Init ==
    /\ lock = 1
    /\ pc = [c \in CPUs |-> "outside"]
    /\ discipline \in Disciplines

Moves(c, from, to) == pc[c] = from /\ pc' = [pc EXCEPT ![c] = to]

\* The call of spin_lock, up to the decrement.
CallLock(c) ==
    /\ discipline \in {"spin", "mixed"}
    /\ Moves(c, "outside", "decrement")
    /\ UNCHANGED <<lock, discipline>>

\* Variants: the sign is not tested; the old value is tested.
GetsLockAlways(old) == TRUE
GetsLockAtZero(old) == old >= 0

\* jns: the decremented value is not negative.
GetsLock(old) == old - 1 >= 0

\* lock decq, then jns 3f: on to the section or to the wait.
Decrement(c) ==
    /\ pc[c] = "decrement"
    /\ lock' = lock - 1
    /\ pc' = [pc EXCEPT ![c] = IF GetsLock(lock) THEN "inside" ELSE "wait"]
    /\ UNCHANGED discipline

\* Variant: the loop does not look at the lock.
LeavesLoopAlways == TRUE

\* cmpq $0 and jle 2b: the wait loop ends.
LeavesLoop == lock > 0

Retry(c) ==
    /\ LeavesLoop
    /\ Moves(c, "wait", "decrement")
    /\ UNCHANGED <<lock, discipline>>

\* spin_trylock: the exchange with 0; what it returns is the old value, and
\* anything but 0 means the lock is taken.
spin_trylock(c) ==
    /\ discipline \in {"try", "mixed"}
    /\ pc[c] = "outside"
    /\ lock' = 0
    /\ pc' = [pc EXCEPT ![c] = IF lock # 0 THEN "inside" ELSE "outside"]
    /\ UNCHANGED discipline

\* Variant: the lock is given back with an increment.
UnlockedByIncrement == lock + 1

\* The value spin_unlock stores.
Unlocked == 1

spin_unlock(c) ==
    /\ Moves(c, "inside", "outside")
    /\ lock' = Unlocked
    /\ UNCHANGED discipline

CPU(c) == \/ CallLock(c) \/ Decrement(c) \/ Retry(c)
          \/ spin_trylock(c) \/ spin_unlock(c)

Next == \E c \in CPUs : CPU(c)

Spec == Init /\ [][Next]_vars

\* A processor that has entered spin_lock goes on executing, and a section ends.
Fairness == \A c \in CPUs : /\ WF_vars(Decrement(c))
                            /\ WF_vars(Retry(c))
                            /\ WF_vars(spin_unlock(c))

FairSpec == Spec /\ Fairness

-----------------------------------------------------------------------------

\* The word cannot run down over many attempts: each waiter takes away at most
\* one between two stores of spin_unlock, so it never gets near the bounds of
\* the 64-bit word and jns never reads a wrapped sign.
TypeOK ==
    /\ lock \in 1 - Cardinality(CPUs) .. 1
    /\ pc \in [CPUs -> {"outside", "decrement", "wait", "inside"}]
    /\ discipline \in Disciplines

Inside == {c \in CPUs : pc[c] = "inside"}

\* Two processors are never inside the section of one lock: spin_lock lets one
\* in per store of 1, and spin_trylock per exchange that finds it free.
MutualExclusion == \A c, d \in Inside : c = d

\* Whoever waits, somebody gets in: a store of spin_unlock is never missed by
\* all the waiters at once.
SomeoneEnters ==
    (\E c \in CPUs : pc[c] \in {"decrement", "wait"}) ~> (Inside # {})

\* The lock is a Mutex whose owner is the processor inside.
owner == IF Inside = {} THEN Nobody ELSE CHOOSE c \in CPUs : c \in Inside

Abstract == INSTANCE Mutex
ImplementsMutex == Abstract!Spec

=============================================================================
