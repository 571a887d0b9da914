--------------------------- MODULE SpinLockProofs ---------------------------
(***************************************************************************)
(* Theorems about SpinLock for any finite set of processors, as long as no *)
(* lock mixes spin_lock and spin_trylock (Pure).  IInv ties the word to    *)
(* the processors: 1 exactly when nobody is inside, and at most one below  *)
(* 1 for every processor inside or waiting.                                *)
(***************************************************************************)
EXTENDS SpinLock, FiniteSetTheorems, TLAPS

Pure == "mixed" \notin Disciplines

Engaged == {c \in CPUs : pc[c] \in {"inside", "wait"}}

IInv ==
    /\ lock \in Int
    /\ pc \in [CPUs -> {"outside", "decrement", "wait", "inside"}]
    /\ discipline \in Disciplines \ {"mixed"}
    /\ MutualExclusion
    /\ Inside = {} => lock = 1
    /\ Inside # {} => lock <= 0
    /\ lock >= 1 - Cardinality(Engaged)
    /\ discipline = "try" =>
         lock \in {0, 1} /\ \A c \in CPUs : pc[c] \in {"outside", "inside"}

\* Moving one processor into or out of the engaged ones.
LEMMA EngagedCount ==
    ASSUME NEW S \in SUBSET CPUs, NEW c \in CPUs, c \notin S
    PROVE  /\ Cardinality(S \cup {c}) = Cardinality(S) + 1
           /\ Cardinality(S) \in Nat
           /\ Cardinality(S \cup {c}) \in Nat
<1>1. IsFiniteSet(S)
  BY SpinLockAssumption, FS_Subset
<1> QED  BY <1>1, FS_AddElement, FS_CardinalityType

LEMMA EngagedBound ==
    /\ Cardinality(Engaged) \in Nat
    /\ Cardinality(CPUs) \in Nat
    /\ Cardinality(Engaged) <= Cardinality(CPUs)
<1>1. Engaged \subseteq CPUs
  BY DEF Engaged
<1> QED  BY <1>1, SpinLockAssumption, FS_Subset, FS_CardinalityType

LEMMA InitIInv == Pure /\ Init => IInv
<1> SUFFICES ASSUME Pure, Init PROVE IInv
  OBVIOUS
<1>1. Inside = {} /\ Engaged = {}
  BY DEF Init, Inside, Engaged
<1>2. Cardinality(Engaged) = 0
  BY <1>1, FS_EmptySet
<1> QED  BY <1>1, <1>2, SpinLockAssumption DEF Init, IInv, MutualExclusion, Pure

LEMMA DecrementStep ==
    ASSUME IInv, NEW c \in CPUs, Decrement(c)
    PROVE  IInv'
<1>1. /\ pc[c] = "decrement" /\ lock' = lock - 1 /\ discipline' = discipline
      /\ pc' = [pc EXCEPT ![c] = IF GetsLock(lock) THEN "inside" ELSE "wait"]
      /\ GetsLock(lock) <=> lock = 1
      /\ discipline # "try"
  BY DEF Decrement, GetsLock, IInv
<1>2. Engaged' = Engaged \cup {c} /\ c \notin Engaged
  BY <1>1 DEF Engaged, IInv
<1>3. lock' >= 1 - Cardinality(Engaged')
  <2>1. Engaged \in SUBSET CPUs
    BY DEF Engaged
  <2> QED  BY <1>1, <1>2, <2>1, EngagedCount DEF IInv
<1>4. CASE lock = 1
  <2>1. Inside = {} /\ Inside' = {c}
    BY <1>1, <1>4 DEF IInv, Inside
  <2> QED  BY <1>1, <1>3, <1>4, <2>1 DEF IInv, MutualExclusion
<1>5. CASE lock # 1
  <2>1. Inside # {} /\ Inside' = Inside /\ lock <= 0
    BY <1>1, <1>5 DEF IInv, Inside
  <2> QED  BY <1>1, <1>3, <1>5, <2>1 DEF IInv, MutualExclusion
<1> QED  BY <1>4, <1>5

LEMMA RetryStep ==
    ASSUME IInv, NEW c \in CPUs, Retry(c)
    PROVE  IInv'
<1>1. /\ lock = 1 /\ lock' = 1 /\ discipline' = discipline
      /\ pc[c] = "wait" /\ pc' = [pc EXCEPT ![c] = "decrement"]
      /\ Inside' = Inside
  BY DEF Retry, LeavesLoop, Moves, IInv, Inside
<1>2. Cardinality(Engaged') \in Nat
  <2>1. Engaged' \subseteq CPUs
    BY DEF Engaged
  <2> QED  BY <2>1, SpinLockAssumption, FS_Subset, FS_CardinalityType
<1> QED  BY <1>1, <1>2 DEF IInv, MutualExclusion

LEMMA TryStep ==
    ASSUME IInv, NEW c \in CPUs, spin_trylock(c)
    PROVE  IInv'
<1>1. discipline = "try" /\ discipline' = discipline /\ lock' = 0 /\ lock \in {0, 1}
  BY DEF spin_trylock, IInv
<1>2. CASE lock = 1
  <2>1. Inside = {} /\ Inside' = {c} /\ Engaged' = Engaged \cup {c} /\ c \notin Engaged
    BY <1>2 DEF spin_trylock, IInv, Inside, Engaged
  <2>2. lock' >= 1 - Cardinality(Engaged')
    <3>1. Engaged \in SUBSET CPUs
      BY DEF Engaged
    <3> QED  BY <1>1, <1>2, <2>1, <3>1, EngagedCount DEF IInv
  <2>3. pc' = [pc EXCEPT ![c] = "inside"]
    BY <1>2 DEF spin_trylock
  <2> QED  BY <1>1, <2>1, <2>2, <2>3 DEF IInv, MutualExclusion
<1>3. CASE lock = 0
  <2>1. pc' = pc
    BY <1>3 DEF spin_trylock, IInv
  <2> QED  BY <1>1, <1>3, <2>1 DEF IInv, MutualExclusion, Inside, Engaged
<1> QED  BY <1>1, <1>2, <1>3

LEMMA UnlockStep ==
    ASSUME IInv, NEW c \in CPUs, spin_unlock(c)
    PROVE  IInv'
<1>1. /\ lock' = 1 /\ discipline' = discipline
      /\ pc[c] = "inside" /\ pc' = [pc EXCEPT ![c] = "outside"]
  BY DEF spin_unlock, Unlocked, Moves
<1>2. Inside = {c} /\ Inside' = {}
  BY <1>1 DEF IInv, MutualExclusion, Inside
<1>3. Cardinality(Engaged') \in Nat
  <2>1. Engaged' \subseteq CPUs
    BY DEF Engaged
  <2> QED  BY <2>1, SpinLockAssumption, FS_Subset, FS_CardinalityType
<1> QED  BY <1>1, <1>2, <1>3 DEF IInv, MutualExclusion

LEMMA NextIInv == IInv /\ [Next]_vars => IInv'
<1> SUFFICES ASSUME IInv, [Next]_vars PROVE IInv'
  OBVIOUS
<1>1. ASSUME NEW c \in CPUs, CallLock(c) PROVE IInv'
  <2>1. /\ lock' = lock /\ discipline' = discipline /\ discipline # "try"
        /\ pc[c] = "outside" /\ pc' = [pc EXCEPT ![c] = "decrement"]
    BY <1>1 DEF CallLock, Moves
  <2>2. Inside' = Inside /\ Engaged' = Engaged
    BY <2>1 DEF IInv, Inside, Engaged
  <2> QED  BY <2>1, <2>2 DEF IInv, MutualExclusion
<1>2. CASE UNCHANGED vars
  BY <1>2 DEF vars, IInv, MutualExclusion, Inside, Engaged
<1> QED  BY <1>1, <1>2, DecrementStep, RetryStep, TryStep, UnlockStep DEF Next, CPU

-----------------------------------------------------------------------------

\* The inductive invariant holds in every reachable state.
THEOREM Invariant == Pure /\ Spec => []IInv
BY InitIInv, NextIInv, PTL DEF Spec

\* At most one processor is inside, for any number of processors.
THEOREM Exclusion == Pure /\ Spec => []MutualExclusion
<1>1. IInv => MutualExclusion
  BY DEF IInv
<1> QED  BY Invariant, <1>1, PTL

\* The word stays within the number of processors of 1.
THEOREM TypeCorrect == Pure /\ Spec => []TypeOK
<1>1. IInv => TypeOK
  BY EngagedBound DEF IInv, TypeOK
<1> QED  BY Invariant, <1>1, PTL

\* The spin lock implements Mutex, its owner the processor inside.
THEOREM Implements == Pure /\ Spec => ImplementsMutex
<1>1. Init => Abstract!Init
  BY DEF Init, Inside, owner, Abstract!Init
<1>2. ASSUME IInv, IInv', [Next]_vars PROVE [Abstract!Next]_owner
  <2>1. \A c \in CPUs : Inside = {c} => owner = c
    BY DEF owner
  <2>2. \A c \in CPUs : Inside' = {c} => owner' = c
    BY DEF owner
  <2>3. (Inside = {} => owner = Nobody) /\ (Inside' = {} => owner' = Nobody)
    BY DEF owner
  <2>4. Inside' = Inside => owner' = owner
    BY DEF owner
  <2>5. ASSUME NEW c \in CPUs, Inside = {}, Inside' = {c} PROVE Abstract!Next
    BY <2>2, <2>3, <2>5 DEF Abstract!Next, Abstract!Acquire
  <2>6. ASSUME NEW c \in CPUs, Inside = {c}, Inside' = {} PROVE Abstract!Next
    BY <2>1, <2>3, <2>6 DEF Abstract!Next, Abstract!Release
  <2>7. ASSUME NEW c \in CPUs, Decrement(c) PROVE [Abstract!Next]_owner
    <3>1. CASE lock = 1
      <4>1. Inside = {} /\ Inside' = {c}
        BY <1>2, <2>7, <3>1 DEF Decrement, GetsLock, IInv, Inside
      <4> QED  BY <4>1, <2>5
    <3>2. CASE lock # 1
      <4>1. Inside' = Inside
        BY <1>2, <2>7, <3>2 DEF Decrement, GetsLock, IInv, Inside
      <4> QED  BY <4>1, <2>4
    <3> QED  BY <3>1, <3>2
  <2>8. ASSUME NEW c \in CPUs, spin_trylock(c) PROVE [Abstract!Next]_owner
    <3>1. CASE lock = 1
      <4>1. Inside = {} /\ Inside' = {c}
        BY <1>2, <2>8, <3>1 DEF spin_trylock, IInv, Inside
      <4> QED  BY <4>1, <2>5
    <3>2. CASE lock = 0
      <4>1. Inside' = Inside
        BY <1>2, <2>8, <3>2 DEF spin_trylock, IInv, Inside
      <4> QED  BY <4>1, <2>4
    <3> QED  BY <1>2, <2>8, <3>1, <3>2 DEF spin_trylock, IInv
  <2>9. ASSUME NEW c \in CPUs, spin_unlock(c) PROVE [Abstract!Next]_owner
    <3>1. Inside = {c} /\ Inside' = {}
      BY <1>2, <2>9 DEF spin_unlock, Moves, IInv, MutualExclusion, Inside
    <3> QED  BY <3>1, <2>6
  <2>10. ASSUME NEW c \in CPUs, CallLock(c) \/ Retry(c) PROVE [Abstract!Next]_owner
    <3>1. Inside' = Inside
      BY <1>2, <2>10 DEF CallLock, Retry, Moves, IInv, Inside
    <3> QED  BY <3>1, <2>4
  <2>11. CASE UNCHANGED vars
    BY <2>11 DEF vars, owner, Inside
  <2> QED  BY <1>2, <2>7, <2>8, <2>9, <2>10, <2>11 DEF Next, CPU
<1> QED  BY Invariant, <1>1, <1>2, PTL DEF Spec, ImplementsMutex, Abstract!Spec

=============================================================================
