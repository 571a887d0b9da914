-------------------------- MODULE SchedulerProofs --------------------------
(***************************************************************************)
(* Theorems about Scheduler, for every set of processes and every bound.   *)
(* The lemmas say what the insertion and the removal do to the members,    *)
(* the length and the order of the queue; the inductive invariant IInv is  *)
(* the conjunction of the safety properties, none of which is inductive    *)
(* without the others.                                                     *)
(***************************************************************************)
EXTENDS Scheduler, SequenceTheorems, WellFoundedInduction, TLAPS

Distinct(q) == \A i, j \in 1 .. Len(q) : i # j => q[i] # q[j]
SortedBy(q, v) == \A i, j \in 1 .. Len(q) : i < j => v[q[i]] <= v[q[j]]

-----------------------------------------------------------------------------
(* Insertion.                                                              *)

\* Every non-empty set of naturals has a least element.
LEMMA LeastNatural ==
    ASSUME NEW T \in SUBSET Nat, T # {}
    PROVE  \E k \in T : \A j \in T : k <= j
<1>1. \E k \in T : \A j \in T : <<j, k>> \notin OpToRel(<, Nat)
  BY WFMin, NatLessThanWellFounded
<1>2. PICK k \in T : \A j \in T : <<j, k>> \notin OpToRel(<, Nat)
  BY <1>1
<1>3. \A j \in T : ~(j < k)
  BY <1>2 DEF OpToRel
<1> QED  BY <1>3

\* The members of a sequence are its entries.
LEMMA ToSetEntries ==
    ASSUME NEW S, NEW q \in Seq(S)
    PROVE  ToSet(q) = {q[i] : i \in 1 .. Len(q)}
<1>1. DOMAIN q = 1 .. Len(q)
  BY LenProperties
<1> QED  BY <1>1 DEF ToSet

\* The sequence InsertAt returns, entry by entry.
LEMMA InsertAtShape ==
    ASSUME NEW S, NEW q \in Seq(S), NEW t \in S, NEW k \in 1 .. Len(q) + 1
    PROVE  /\ InsertAt(q, k, t) \in Seq(S)
           /\ Len(InsertAt(q, k, t)) = Len(q) + 1
           /\ \A i \in 1 .. Len(q) + 1 :
                 InsertAt(q, k, t)[i] = IF i < k THEN q[i]
                                        ELSE IF i = k THEN t ELSE q[i - 1]
<1> DEFINE A == SubSeq(q, 1, k - 1) \o <<t>>
           B == SubSeq(q, k, Len(q))
<1>1. /\ SubSeq(q, 1, k - 1) \in Seq(S)
      /\ Len(SubSeq(q, 1, k - 1)) = k - 1
      /\ \A i \in 1 .. k - 1 : SubSeq(q, 1, k - 1)[i] = q[i]
  BY SubSeqProperties
<1>2. /\ B \in Seq(S)
      /\ Len(B) = Len(q) - k + 1
      /\ \A i \in 1 .. Len(q) - k + 1 : B[i] = q[k + i - 1]
  BY SubSeqProperties
<1>3. /\ A \in Seq(S)
      /\ Len(A) = k
      /\ \A i \in 1 .. k : A[i] = IF i < k THEN q[i] ELSE t
  BY <1>1
<1>4. InsertAt(q, k, t) = A \o B
  BY DEF InsertAt
<1> HIDE DEF A, B
<1>5. /\ A \o B \in Seq(S)
      /\ Len(A \o B) = Len(A) + Len(B)
      /\ \A i \in 1 .. Len(A) + Len(B) :
            (A \o B)[i] = IF i <= Len(A) THEN A[i] ELSE B[i - Len(A)]
  BY <1>2, <1>3, ConcatProperties
<1> QED  BY <1>2, <1>3, <1>4, <1>5

\* insert_task_queue finds a place: after entries with a smaller run time,
\* before an entry with none smaller.
LEMMA InsertPlace ==
    ASSUME NEW q \in Seq(Tasks), NEW v \in [AllTasks -> Nat], NEW t \in Tasks
    PROVE  \E k \in 1 .. Len(q) + 1 :
              /\ insert_task_queue(q, v, t) = InsertAt(q, k, t)
              /\ \A i \in 1 .. k - 1 : v[q[i]] < v[t]
              /\ k <= Len(q) => v[q[k]] >= v[t]
<1> DEFINE Stops(k) == k <= Len(q) => v[q[k]] >= v[t]
           T == {k \in 1 .. Len(q) + 1 : Stops(k)}
<1>1. T \in SUBSET Nat /\ T # {}
  <2>1. Len(q) + 1 \in T
    OBVIOUS
  <2> QED  BY <2>1
<1>2. PICK k \in T : \A j \in T : k <= j
  BY <1>1, LeastNatural
<1>3. \A i \in 1 .. k - 1 : v[q[i]] < v[t]
  <2> TAKE i \in 1 .. k - 1
  <2>1. i \notin T /\ i \in 1 .. Len(q)
    BY <1>2
  <2>2. q[i] \in AllTasks /\ t \in AllTasks
    BY <2>1 DEF AllTasks
  <2> QED  BY <2>1, <2>2
<1>4. t # Idle
  BY SchedulerAssumption
<1>5. \E p \in 1 .. Len(q) + 1 :
         /\ \A i \in 1 .. p - 1 : v[q[i]] < v[t]
         /\ p <= Len(q) => v[q[p]] >= v[t]
  BY <1>2, <1>3
<1>6. /\ InsertPosition(q, v, t) \in 1 .. Len(q) + 1
      /\ \A i \in 1 .. InsertPosition(q, v, t) - 1 : v[q[i]] < v[t]
      /\ InsertPosition(q, v, t) <= Len(q) => v[q[InsertPosition(q, v, t)]] >= v[t]
  BY <1>5 DEF InsertPosition
<1> QED  BY <1>4, <1>6 DEF insert_task_queue

\* Inserting a process adds it to the members and one to the length, and
\* keeps the entries distinct and sorted.
LEMMA InsertTask ==
    ASSUME NEW q \in Seq(Tasks), NEW v \in [AllTasks -> Nat], NEW t \in Tasks
    PROVE  LET r == insert_task_queue(q, v, t) IN
           /\ r \in Seq(Tasks)
           /\ Len(r) = Len(q) + 1
           /\ ToSet(r) = ToSet(q) \cup {t}
           /\ Distinct(q) /\ t \notin ToSet(q) => Distinct(r)
           /\ SortedBy(q, v) => SortedBy(r, v)
<1> DEFINE r == insert_task_queue(q, v, t)
<1>1. PICK k \in 1 .. Len(q) + 1 :
         /\ r = InsertAt(q, k, t)
         /\ \A i \in 1 .. k - 1 : v[q[i]] < v[t]
         /\ k <= Len(q) => v[q[k]] >= v[t]
  BY InsertPlace
<1>2. /\ r \in Seq(Tasks)
      /\ Len(r) = Len(q) + 1
      /\ \A i \in 1 .. Len(q) + 1 :
            r[i] = IF i < k THEN q[i] ELSE IF i = k THEN t ELSE q[i - 1]
  <2>1. /\ InsertAt(q, k, t) \in Seq(Tasks)
        /\ Len(InsertAt(q, k, t)) = Len(q) + 1
        /\ \A i \in 1 .. Len(q) + 1 :
              InsertAt(q, k, t)[i] = IF i < k THEN q[i]
                                     ELSE IF i = k THEN t ELSE q[i - 1]
    BY InsertAtShape
  <2> QED  BY <1>1, <2>1
<1> HIDE DEF r
<1> DEFINE old(i) == IF i < k THEN i ELSE i - 1
<1>3. /\ Len(q) \in Nat /\ k \in 1 .. Len(r) /\ r[k] = t
      /\ \A i \in 1 .. Len(r) : i # k => old(i) \in 1 .. Len(q) /\ r[i] = q[old(i)]
      /\ \A i, j \in 1 .. Len(r) : i # k /\ j # k /\ i < j => old(i) < old(j)
      /\ \A j \in 1 .. Len(q) :
            \E i \in 1 .. Len(r) : i # k /\ old(i) = j
  <2>1. Len(q) \in Nat /\ k \in 1 .. Len(r) /\ r[k] = t
    BY <1>2
  <2>2. ASSUME NEW i \in 1 .. Len(r), i # k
        PROVE  old(i) \in 1 .. Len(q) /\ r[i] = q[old(i)]
    BY <1>2, <2>1, <2>2
  <2>3. \A i, j \in 1 .. Len(r) : i # k /\ j # k /\ i < j => old(i) < old(j)
    BY <2>1
  <2>4. ASSUME NEW j \in 1 .. Len(q)
        PROVE  \E i \in 1 .. Len(r) : i # k /\ old(i) = j
    <3>1. CASE j < k
      BY <3>1, <1>2, <2>1
    <3>2. CASE j >= k
      <4>1. j + 1 \in 1 .. Len(r) /\ j + 1 # k /\ old(j + 1) = j
        BY <3>2, <1>2, <2>1
      <4> QED  BY <4>1
    <3> QED  BY <3>1, <3>2, <2>1
  <2> QED  BY <2>1, <2>2, <2>3, <2>4
<1>4. ToSet(r) = ToSet(q) \cup {t}
  <2>1. ToSet(r) = {r[i] : i \in 1 .. Len(r)} /\ ToSet(q) = {q[i] : i \in 1 .. Len(q)}
    BY <1>2, ToSetEntries
  <2>2. ASSUME NEW x \in ToSet(r) PROVE x \in ToSet(q) \cup {t}
    <3>1. PICK i \in 1 .. Len(r) : x = r[i]
      BY <2>1, <2>2
    <3>2. CASE i = k
      BY <3>1, <3>2, <1>3
    <3>3. CASE i # k
      <4>1. old(i) \in 1 .. Len(q) /\ r[i] = q[old(i)]
        BY <3>3, <1>3
      <4> HIDE DEF old
      <4> QED  BY <3>1, <4>1, <2>1
    <3> QED  BY <3>2, <3>3
  <2>3. ASSUME NEW j \in 1 .. Len(q) PROVE q[j] \in ToSet(r)
    <3>1. PICK i \in 1 .. Len(r) : i # k /\ old(i) = j
      BY <1>3
    <3>2. r[i] = q[j]
      BY <3>1, <1>3
    <3> QED  BY <3>2, <2>1
  <2>4. t \in ToSet(r)
    BY <1>3, <2>1
  <2> QED  BY <2>1, <2>2, <2>3, <2>4
<1> HIDE DEF old
<1>5. ASSUME Distinct(q), t \notin ToSet(q) PROVE Distinct(r)
  <2>1. \A i \in 1 .. Len(q) : q[i] # t
    BY <1>5, ToSetEntries
  <2>2. ASSUME NEW i \in 1 .. Len(r), NEW j \in 1 .. Len(r), i < j
        PROVE  r[i] # r[j]
    <3>1. \A n \in 1 .. Len(r) : n # k => r[n] # t
      <4> TAKE n \in 1 .. Len(r)
      <4> HAVE n # k
      <4>1. old(n) \in 1 .. Len(q) /\ r[n] = q[old(n)]
        BY <1>3
      <4> QED  BY <4>1, <2>1
    <3>3. CASE i = k
      <4>1. j # k /\ r[i] = t
        BY <3>3, <2>2, <1>3
      <4> QED  BY <4>1, <3>1
    <3>4. CASE j = k
      <4>1. i # k /\ r[j] = t
        BY <3>4, <2>2, <1>3
      <4> QED  BY <4>1, <3>1
    <3>2. CASE i # k /\ j # k
      <4>1. /\ old(i) \in 1 .. Len(q) /\ old(j) \in 1 .. Len(q)
            /\ old(i) < old(j) /\ r[i] = q[old(i)] /\ r[j] = q[old(j)]
        BY <3>2, <2>2, <1>3
      <4>2. old(i) # old(j)
        BY <4>1
      <4> QED  BY <4>1, <4>2, <1>5 DEF Distinct
    <3> QED  BY <3>2, <3>3, <3>4
  <2>3. \A i, j \in 1 .. Len(r) : i # j => i < j \/ j < i
    BY <1>2
  <2> QED  BY <2>2, <2>3 DEF Distinct
<1>6. ASSUME SortedBy(q, v) PROVE SortedBy(r, v)
  <2>1. \A i \in 1 .. Len(q) : v[q[i]] \in Nat
    BY DEF AllTasks
  <2>2. v[t] \in Nat
    BY DEF AllTasks
  <2>3. \A i \in 1 .. Len(q) : i >= k => v[t] <= v[q[i]]
    <3> TAKE i \in 1 .. Len(q)
    <3> HAVE i >= k
    <3>1. k \in 1 .. Len(q) /\ v[t] <= v[q[k]]
      BY <1>1, <1>3, <2>1, <2>2
    <3>2. i = k \/ v[q[k]] <= v[q[i]]
      BY <3>1, <1>6 DEF SortedBy
    <3> QED  BY <3>1, <3>2, <2>1, <2>2
  <2>4. \A i \in 1 .. Len(q) : i < k => v[q[i]] <= v[t]
    BY <1>1, <2>1, <2>2
  <2>5. ASSUME NEW i \in 1 .. Len(r), NEW j \in 1 .. Len(r), i < j
        PROVE  v[r[i]] <= v[r[j]]
    <3>1. CASE i = k
      <4>1. old(j) \in 1 .. Len(q) /\ r[j] = q[old(j)] /\ old(j) >= k
        BY <3>1, <2>5, <1>3 DEF old
      <4> QED  BY <3>1, <4>1, <2>3, <1>3
    <3>2. CASE j = k
      <4>1. old(i) \in 1 .. Len(q) /\ r[i] = q[old(i)] /\ old(i) < k
        BY <3>2, <2>5, <1>3 DEF old
      <4> QED  BY <3>2, <4>1, <2>4, <1>3
    <3>3. CASE i # k /\ j # k
      <4>1. /\ old(i) \in 1 .. Len(q) /\ old(j) \in 1 .. Len(q)
            /\ old(i) < old(j) /\ r[i] = q[old(i)] /\ r[j] = q[old(j)]
        BY <3>3, <2>5, <1>3
      <4> QED  BY <4>1, <1>6 DEF SortedBy
    <3> QED  BY <3>1, <3>2, <3>3
  <2> QED  BY <2>5 DEF SortedBy
<1> QED  BY <1>2, <1>4, <1>5, <1>6 DEF r

\* The idle process is never inserted and never counted.
LEMMA InsertIdle ==
    ASSUME NEW q, NEW v, NEW n
    PROVE  insert_task_queue(q, v, Idle) = q /\ CountAfterInsert(n, Idle) = n
BY DEF insert_task_queue, CountAfterInsert

-----------------------------------------------------------------------------
(* Removal.                                                                *)

\* get_next_task on a queue that is not empty takes its first entry.
LEMMA NextOfQueue ==
    ASSUME queue \in Seq(Tasks), queue # <<>>, vrun_time \in [AllTasks -> Nat]
    PROVE  /\ NextTask \in Tasks
           /\ QueueAfterNext \in Seq(Tasks)
           /\ Len(QueueAfterNext) = Len(queue) - 1
           /\ ToSet(queue) = ToSet(QueueAfterNext) \cup {NextTask}
           /\ Distinct(queue) => Distinct(QueueAfterNext) /\ NextTask \notin ToSet(QueueAfterNext)
           /\ SortedBy(queue, vrun_time) =>
                /\ SortedBy(QueueAfterNext, vrun_time)
                /\ \A i \in 1 .. Len(QueueAfterNext) :
                      vrun_time[NextTask] <= vrun_time[QueueAfterNext[i]]
<1> DEFINE r == QueueAfterNext
<1>1. /\ NextTask = queue[1]
      /\ queue[1] \in Tasks
      /\ r \in Seq(Tasks)
      /\ Len(r) = Len(queue) - 1
      /\ \A i \in 1 .. Len(r) : r[i] = queue[i + 1]
  BY HeadTailProperties DEF NextTask, QueueAfterNext
<1>2. Len(queue) \in Nat \ {0}
  BY EmptySeq
<1> HIDE DEF r
<1>3. /\ 1 \in 1 .. Len(queue)
      /\ \A i \in 1 .. Len(r) : i + 1 \in 1 .. Len(queue) /\ i + 1 # 1 /\ 1 < i + 1
      /\ \A i \in 1 .. Len(queue) : i = 1 \/ \E j \in 1 .. Len(r) : i = j + 1
      /\ \A i, j \in 1 .. Len(r) : (i < j => i + 1 < j + 1) /\ (i # j => i + 1 # j + 1)
  <2>1. \A i \in 1 .. Len(queue) : i = 1 \/ (i - 1 \in 1 .. Len(r) /\ i = (i - 1) + 1)
    BY <1>1, <1>2
  <2> QED  BY <1>1, <1>2, <2>1
<1>4. ToSet(queue) = ToSet(r) \cup {NextTask}
  <2>1. ToSet(r) = {r[i] : i \in 1 .. Len(r)} /\ ToSet(queue) = {queue[i] : i \in 1 .. Len(queue)}
    BY <1>1, ToSetEntries
  <2>2. ASSUME NEW x \in ToSet(queue) PROVE x \in ToSet(r) \cup {NextTask}
    <3>1. PICK i \in 1 .. Len(queue) : x = queue[i]
      BY <2>1
    <3>2. CASE i = 1
      BY <3>1, <3>2, <1>1
    <3>3. ASSUME NEW j \in 1 .. Len(r), i = j + 1 PROVE x \in ToSet(r)
      BY <3>1, <3>3, <1>1, <2>1
    <3> QED  BY <3>2, <3>3, <1>3
  <2>3. \A x \in ToSet(r) \cup {NextTask} : x \in ToSet(queue)
    BY <1>1, <1>3, <2>1
  <2> QED  BY <2>2, <2>3
<1>5. ASSUME Distinct(queue) PROVE Distinct(r) /\ NextTask \notin ToSet(r)
  <2>1. \A i, j \in 1 .. Len(r) : i # j => queue[i + 1] # queue[j + 1]
    BY <1>3, <1>5 DEF Distinct
  <2>2. \A i \in 1 .. Len(r) : queue[i + 1] # queue[1]
    BY <1>3, <1>5 DEF Distinct
  <2>3. ToSet(r) = {r[i] : i \in 1 .. Len(r)}
    BY <1>1, ToSetEntries
  <2> QED  BY <1>1, <2>1, <2>2, <2>3 DEF Distinct
<1>6. ASSUME SortedBy(queue, vrun_time)
      PROVE  /\ SortedBy(r, vrun_time)
             /\ \A i \in 1 .. Len(r) : vrun_time[NextTask] <= vrun_time[r[i]]
  <2>1. \A i, j \in 1 .. Len(r) :
           i < j => vrun_time[queue[i + 1]] <= vrun_time[queue[j + 1]]
    BY <1>3, <1>6 DEF SortedBy
  <2>2. \A i \in 1 .. Len(r) : vrun_time[queue[1]] <= vrun_time[queue[i + 1]]
    BY <1>3, <1>6 DEF SortedBy
  <2> QED  BY <1>1, <2>1, <2>2 DEF SortedBy
<1> QED  BY <1>1, <1>4, <1>5, <1>6 DEF r

-----------------------------------------------------------------------------
(* The inductive invariant.                                                *)

IInv ==
    /\ TypeOK
    /\ NoTaskLost
    /\ CountIsQueuePlusOne
    /\ QueueSorted
    /\ SectionHolderRuns

\* The properties of the queue in the words of the lemmas.
LEMMA QueueFacts ==
    ASSUME TypeOK
    PROVE  /\ NoTaskLost <=> /\ Distinct(queue)
                             /\ now \notin ToSet(queue)
                             /\ Ready = ToSet(queue) \cup ({now} \ {Idle})
           /\ QueueSorted <=> SortedBy(queue, vrun_time)
<1>1. ToSet(queue) = {queue[i] : i \in 1 .. Len(queue)}
  BY ToSetEntries DEF TypeOK
<1> QED  BY <1>1 DEF NoTaskLost, QueueSorted, Distinct, SortedBy

LEMMA InitIInv == Init => IInv
<1> SUFFICES ASSUME Init PROVE IInv
  OBVIOUS
<1>1. TypeOK
  BY SchedulerAssumption DEF Init, TypeOK, AllTasks
<1>2. Len(queue) = 0 /\ ToSet(queue) = {}
  <2>1. queue \in Seq(Tasks) /\ Len(queue) = 0
    BY DEF Init
  <2>2. ToSet(queue) = {queue[i] : i \in 1 .. Len(queue)}
    BY <2>1, ToSetEntries
  <2> QED  BY <2>1, <2>2
<1>3. Ready = {} /\ now = Idle
  BY DEF Init, Ready, AllTasks
<1>4. NoTaskLost /\ QueueSorted
  BY <1>2, <1>3 DEF NoTaskLost, QueueSorted
<1>5. CountIsQueuePlusOne /\ SectionHolderRuns
  BY <1>2 DEF Init, CountIsQueuePlusOne, SectionHolderRuns
<1> QED  BY <1>1, <1>4, <1>5 DEF IInv

\* do_fork queues a process that was nowhere.
LEMMA ForkStep ==
    ASSUME IInv, NEW t \in Tasks, do_fork(t)
    PROVE  IInv'
<1> USE SchedulerAssumption
<1>1. /\ t \notin ToSet(queue) /\ t # now /\ t # Idle
      /\ queue' = insert_task_queue(queue, vrun_time', t)
      /\ vrun_time' \in [AllTasks -> Nat] /\ queue \in Seq(Tasks)
  BY QueueFacts DEF IInv, TypeOK, do_fork, Ready, AllTasks
<1>2. SortedBy(queue, vrun_time')
  <2>1. \A i \in 1 .. Len(queue) : queue[i] # t
    BY <1>1, ToSetEntries
  <2>2. \A i \in 1 .. Len(queue) : vrun_time'[queue[i]] = vrun_time[queue[i]]
    BY <1>1, <2>1 DEF IInv, TypeOK, do_fork, AllTasks
  <2> QED  BY <2>2 DEF IInv, QueueSorted, SortedBy
<1>3. Distinct(queue)
  BY QueueFacts DEF IInv
<1>4. /\ queue' \in Seq(Tasks)
      /\ Len(queue') = Len(queue) + 1
      /\ ToSet(queue') = ToSet(queue) \cup {t}
      /\ Distinct(queue')
      /\ SortedBy(queue', vrun_time')
  BY <1>1, <1>2, <1>3, InsertTask
<1>5. running_task_count' = running_task_count + 1
  BY <1>1 DEF do_fork, CountAfterInsert
<1>6. TypeOK'
  BY <1>1, <1>4, <1>5 DEF IInv, TypeOK, do_fork, AllTasks
<1>7. Ready' = Ready \cup {t} /\ now' = now
  BY <1>1 DEF IInv, TypeOK, do_fork, Ready, AllTasks
<1>8. /\ now' \notin ToSet(queue')
      /\ Ready' = ToSet(queue') \cup ({now'} \ {Idle})
  BY <1>1, <1>4, <1>7, QueueFacts DEF IInv
<1>9. NoTaskLost' /\ QueueSorted'
  <2>1. ToSet(queue') = {queue'[i] : i \in 1 .. Len(queue')}
    BY <1>4, ToSetEntries
  <2> QED  BY <1>4, <1>8, <2>1 DEF NoTaskLost, QueueSorted, Distinct, SortedBy
<1>10. CountIsQueuePlusOne'
  BY <1>4, <1>5 DEF IInv, TypeOK, CountIsQueuePlusOne
<1>11. SectionHolderRuns'
  BY <1>1 DEF IInv, TypeOK, SectionHolderRuns, do_fork, AllTasks
<1> QED  BY <1>6, <1>9, <1>10, <1>11 DEF IInv

\* A tick changes the run time of the running process only, which is not queued.
LEMMA TickStep ==
    ASSUME IInv, PIT_handler
    PROVE  IInv'
<1>1. TypeOK'
  <2>1. /\ CPU_exec_task_jiffies' \in Int
        /\ vrun_time' \in [AllTasks -> Nat]
        /\ need_schedule' \in [AllTasks -> BOOLEAN]
    BY DEF IInv, TypeOK, PIT_handler
  <2>2. jiffies' \in Nat /\ delay' \in Nat
    BY DEF IInv, TypeOK, PIT_handler
  <2> QED  BY <2>1, <2>2 DEF IInv, TypeOK, PIT_handler
<1>2. /\ queue' = queue /\ now' = now /\ Ready' = Ready
      /\ preempt_count' = preempt_count /\ running_task_count' = running_task_count
  BY DEF PIT_handler, Ready
<1>3. NoTaskLost' /\ CountIsQueuePlusOne' /\ SectionHolderRuns'
  BY <1>2 DEF IInv, NoTaskLost, CountIsQueuePlusOne, SectionHolderRuns
<1>4. QueueSorted'
  <2>1. \A i \in 1 .. Len(queue) : queue[i] \in AllTasks /\ queue[i] # now
    BY DEF IInv, TypeOK, NoTaskLost, AllTasks
  <2>2. \A i \in 1 .. Len(queue) : vrun_time'[queue[i]] = vrun_time[queue[i]]
    BY <2>1 DEF IInv, TypeOK, PIT_handler
  <2> QED  BY <1>2, <2>2 DEF IInv, QueueSorted
<1> QED  BY <1>1, <1>3, <1>4 DEF IInv

\* What get_next_task leaves and what schedule makes of it.  The queue is
\* split once; the lemmas about schedule only use these facts.
LEMMA NextFacts ==
    ASSUME IInv
    PROVE  /\ NextTask \in AllTasks
           /\ NextTask = Idle <=> queue = <<>>
           /\ QueueAfterNext \in Seq(Tasks)
           /\ CountAfterNext = Len(QueueAfterNext) + 1
           /\ ToSet(queue) = ToSet(QueueAfterNext) \cup ({NextTask} \ {Idle})
           /\ Distinct(QueueAfterNext)
           /\ NextTask \notin ToSet(QueueAfterNext)
           /\ SortedBy(QueueAfterNext, vrun_time)
           /\ \A i \in 1 .. Len(QueueAfterNext) :
                 vrun_time[NextTask] <= vrun_time[QueueAfterNext[i]]
           /\ Idle \notin ToSet(queue)
<1> USE SchedulerAssumption
<1>1. /\ queue \in Seq(Tasks) /\ vrun_time \in [AllTasks -> Nat]
      /\ Distinct(queue) /\ SortedBy(queue, vrun_time)
      /\ running_task_count = Len(queue) + 1
  BY QueueFacts DEF IInv, TypeOK, CountIsQueuePlusOne
<1>2. Idle \notin ToSet(queue)
  BY <1>1, ToSetEntries
<1>3. CASE queue = <<>>
  <2>1. /\ NextTask = Idle /\ QueueAfterNext = <<>> /\ CountAfterNext = running_task_count
        /\ QueueAfterNext = queue
    BY <1>3 DEF NextTask, QueueAfterNext, CountAfterNext
  <2>2. Len(queue) = 0
    BY <1>3
  <2>3. NextTask \in AllTasks
    BY <2>1 DEF AllTasks
  <2>4. ToSet(queue) = ToSet(QueueAfterNext) \cup ({NextTask} \ {Idle})
    BY <2>1
  <2> QED  BY <1>1, <1>2, <1>3, <2>1, <2>2, <2>3, <2>4
<1>4. CASE queue # <<>>
  <2>1. /\ NextTask \in Tasks
        /\ QueueAfterNext \in Seq(Tasks)
        /\ Len(QueueAfterNext) = Len(queue) - 1
        /\ ToSet(queue) = ToSet(QueueAfterNext) \cup {NextTask}
        /\ Distinct(QueueAfterNext) /\ NextTask \notin ToSet(QueueAfterNext)
        /\ SortedBy(QueueAfterNext, vrun_time)
        /\ \A i \in 1 .. Len(QueueAfterNext) :
              vrun_time[NextTask] <= vrun_time[QueueAfterNext[i]]
    BY <1>1, <1>4, NextOfQueue
  <2>2. NextTask # Idle /\ NextTask \in AllTasks
    BY <2>1 DEF AllTasks
  <2>3. CountAfterNext = running_task_count - 1
    BY <1>4 DEF CountAfterNext
  <2>4. CountAfterNext = Len(QueueAfterNext) + 1
    BY <1>1, <2>1, <2>3
  <2> QED  BY <1>2, <1>4, <2>1, <2>2, <2>4
<1> QED  BY <1>3, <1>4

\* Putting a process, or the idle process, back into what get_next_task left.
LEMMA PutBack ==
    ASSUME IInv, NEW t \in AllTasks, t \notin ToSet(QueueAfterNext)
    PROVE  LET r == insert_task_queue(QueueAfterNext, vrun_time, t) IN
           /\ r \in Seq(Tasks)
           /\ CountAfterInsert(CountAfterNext, t) = Len(r) + 1
           /\ ToSet(r) = ToSet(QueueAfterNext) \cup ({t} \ {Idle})
           /\ Distinct(r)
           /\ SortedBy(r, vrun_time)
<1> DEFINE r == insert_task_queue(QueueAfterNext, vrun_time, t)
<1> USE SchedulerAssumption
<1>1. CASE t = Idle
  <2>1. r = QueueAfterNext /\ CountAfterInsert(CountAfterNext, t) = CountAfterNext
    BY <1>1, InsertIdle
  <2> QED  BY <1>1, <2>1, NextFacts
<1>2. CASE t # Idle
  <2>1. t \in Tasks /\ vrun_time \in [AllTasks -> Nat]
    BY <1>2 DEF AllTasks, IInv, TypeOK
  <2>2. /\ r \in Seq(Tasks)
        /\ Len(r) = Len(QueueAfterNext) + 1
        /\ ToSet(r) = ToSet(QueueAfterNext) \cup {t}
        /\ Distinct(r)
        /\ SortedBy(r, vrun_time)
    BY <2>1, InsertTask, NextFacts
  <2>3. CountAfterInsert(CountAfterNext, t) = Len(r) + 1
    BY <1>2, <2>2, NextFacts DEF CountAfterInsert
  <2> QED  BY <1>2, <2>2, <2>3
<1> QED  BY <1>1, <1>2

\* The queue part of the invariant in the next state, from facts of its value.
LEMMA QueuePart ==
    ASSUME NEW r \in Seq(Tasks), queue' = r,
           Distinct(r), SortedBy(r, vrun_time'), now' \notin ToSet(r),
           Ready' = ToSet(r) \cup ({now'} \ {Idle}),
           running_task_count' = Len(r) + 1
    PROVE  NoTaskLost' /\ QueueSorted' /\ CountIsQueuePlusOne'
<1>1. ToSet(r) = {r[i] : i \in 1 .. Len(r)}
  BY ToSetEntries
<1> QED  BY <1>1 DEF NoTaskLost, QueueSorted, CountIsQueuePlusOne, Distinct, SortedBy

\* A refill divides by a count that is never 0.
LEMMA RefillInt ==
    ASSUME NEW n \in Nat \ {0}, NEW c \in Int
    PROVE  Refill(c, n) \in Int
<1>1. 4 \div n \in Int
  OBVIOUS
<1> QED  BY <1>1 DEF Refill

\* A switch: the queue after it, when the running process stays ready.
LEMMA SwitchStep ==
    ASSUME IInv, ScheduleSwitch
    PROVE  IInv'
<1> USE SchedulerAssumption
<1> DEFINE rest == QueueAfterNext
           r == insert_task_queue(rest, vrun_time, now)
<1>1. /\ now \in AllTasks /\ preempt_count[now] = 0 /\ now' = NextTask
      /\ vrun_time' = vrun_time /\ state' = state /\ preempt_count' = preempt_count
      /\ Ready' = Ready
  BY DEF IInv, TypeOK, ScheduleSwitch, MaySchedule, Ready
<1>2. /\ now \notin ToSet(queue)
      /\ Ready = ToSet(queue) \cup ({now} \ {Idle})
  BY QueueFacts DEF IInv
<1>3. now \notin ToSet(rest) /\ (queue # <<>> => NextTask # now)
  BY <1>2, NextFacts
<1>4. /\ queue' \in Seq(Tasks)
      /\ running_task_count' = Len(queue') + 1
      /\ ToSet(queue') = ToSet(rest) \cup ({now} \ {Idle})
      /\ Distinct(queue')
      /\ SortedBy(queue', vrun_time')
  <2>1. CASE state[now] = "TASK_RUNNING"
    <3>1. queue' = r /\ running_task_count' = CountAfterInsert(CountAfterNext, now)
      BY <2>1 DEF ScheduleSwitch
    <3> QED  BY <1>1, <1>3, <3>1, PutBack
  <2>2. CASE state[now] # "TASK_RUNNING"
    <3>1. queue' = rest /\ running_task_count' = CountAfterNext
      BY <2>2 DEF ScheduleSwitch
    <3>2. now = Idle
      BY <1>1, <1>2, <2>2 DEF Ready, AllTasks
    <3> QED  BY <1>1, <3>1, <3>2, NextFacts
  <2> QED  BY <2>1, <2>2
<1>5. now' \notin ToSet(queue')
  BY <1>1, <1>3, <1>4, NextFacts
<1>6. Ready' = ToSet(queue') \cup ({now'} \ {Idle})
  BY <1>1, <1>2, <1>4, NextFacts
<1>7. NoTaskLost' /\ QueueSorted' /\ CountIsQueuePlusOne'
  BY <1>4, <1>5, <1>6, QueuePart
<1>8. TypeOK'
  <2>1. running_task_count' \in Nat \ {0} /\ now' \in AllTasks
    BY <1>1, <1>4, NextFacts
  <2>2. CPU_exec_task_jiffies' \in Int
    BY <2>1, RefillInt DEF IInv, TypeOK, ScheduleSwitch
  <2> QED  BY <1>4, <2>1, <2>2 DEF IInv, TypeOK, ScheduleSwitch
<1>9. SectionHolderRuns'
  <2>1. \A t \in AllTasks : ~(preempt_count'[t] > 0)
    BY <1>1 DEF IInv, TypeOK, SectionHolderRuns
  <2> QED  BY <2>1 DEF SectionHolderRuns
<1> QED  BY <1>7, <1>8, <1>9 DEF IInv

LEMMA KeepStep ==
    ASSUME IInv, ScheduleKeep
    PROVE  IInv'
<1> USE SchedulerAssumption
<1> DEFINE r == insert_task_queue(QueueAfterNext, vrun_time, NextTask)
<1>1. /\ now' = now /\ vrun_time' = vrun_time /\ preempt_count' = preempt_count
      /\ Ready' = Ready /\ queue' = r
      /\ running_task_count' = CountAfterInsert(CountAfterNext, NextTask)
  BY DEF ScheduleKeep, Ready
<1>2. /\ r \in Seq(Tasks)
      /\ CountAfterInsert(CountAfterNext, NextTask) = Len(r) + 1
      /\ ToSet(r) = ToSet(queue)
      /\ Distinct(r)
      /\ SortedBy(r, vrun_time)
  BY NextFacts, PutBack
<1>3. now' \notin ToSet(r) /\ Ready' = ToSet(r) \cup ({now'} \ {Idle})
  BY <1>1, <1>2, QueueFacts DEF IInv
<1> HIDE DEF r
<1>4. NoTaskLost' /\ QueueSorted' /\ CountIsQueuePlusOne'
  BY <1>1, <1>2, <1>3, QueuePart
<1>5. TypeOK'
  <2>1. running_task_count' \in Nat \ {0} /\ queue' \in Seq(Tasks)
    BY <1>1, <1>2
  <2>2. CPU_exec_task_jiffies' \in Int
    BY <2>1, RefillInt DEF IInv, TypeOK, ScheduleKeep
  <2> QED  BY <2>1, <2>2 DEF IInv, TypeOK, ScheduleKeep
<1>6. SectionHolderRuns'
  BY <1>1 DEF IInv, SectionHolderRuns
<1> QED  BY <1>4, <1>5, <1>6 DEF IInv

-----------------------------------------------------------------------------
(* The theorems.                                                           *)

LEMMA NextIInv == IInv /\ [Next]_vars => IInv'
<1> SUFFICES ASSUME IInv, [Next]_vars PROVE IInv'
  OBVIOUS
<1>1. CASE \E t \in Tasks : do_fork(t)
  BY <1>1, ForkStep
<1>2. CASE task_init
  <2>1. TypeOK' /\ Ready' = Ready
    BY <1>2, SchedulerAssumption DEF IInv, TypeOK, task_init, Ready, AllTasks
  <2> QED  BY <1>2, <2>1 DEF IInv, task_init, NoTaskLost, CountIsQueuePlusOne,
                             QueueSorted, SectionHolderRuns
<1>3. CASE preempt_disable
  <2>1. TypeOK' /\ Ready' = Ready
    BY <1>3 DEF IInv, TypeOK, preempt_disable, Ready
  <2>2. SectionHolderRuns'
    BY <1>3 DEF IInv, TypeOK, preempt_disable, SectionHolderRuns
  <2> QED  BY <1>3, <2>1, <2>2 DEF IInv, preempt_disable, NoTaskLost,
                                   CountIsQueuePlusOne, QueueSorted
<1>4. CASE preempt_enable
  <2>1. TypeOK' /\ Ready' = Ready
    BY <1>4 DEF IInv, TypeOK, preempt_enable, Ready
  <2>2. SectionHolderRuns'
    BY <1>4 DEF IInv, TypeOK, preempt_enable, SectionHolderRuns
  <2> QED  BY <1>4, <2>1, <2>2 DEF IInv, preempt_enable, NoTaskLost,
                                   CountIsQueuePlusOne, QueueSorted
<1>5. CASE PIT_handler
  BY <1>5, TickStep
<1>6. CASE OtherInterrupt \/ do_softirq \/ RESTORE_ALL
  BY <1>6 DEF IInv, OtherInterrupt, do_softirq, RESTORE_ALL, TypeOK, NoTaskLost, Ready,
              CountIsQueuePlusOne, QueueSorted, SectionHolderRuns
<1>7. CASE ScheduleSwitch
  BY <1>7, SwitchStep
<1>8. CASE ScheduleKeep
  BY <1>8, KeepStep
<1>9. CASE init
  BY <1>9 DEF IInv, init, TypeOK, NoTaskLost, Ready, CountIsQueuePlusOne,
              QueueSorted, SectionHolderRuns
<1>10. CASE UNCHANGED vars
  BY <1>10 DEF IInv, vars, TypeOK, NoTaskLost, Ready, CountIsQueuePlusOne,
               QueueSorted, SectionHolderRuns
<1> QED  BY <1>1, <1>2, <1>3, <1>4, <1>5, <1>6, <1>7, <1>8, <1>9, <1>10 DEF Next, schedule

\* The inductive invariant holds in every reachable state.
THEOREM Invariant == Spec => []IInv
BY InitIInv, NextIInv, PTL DEF Spec

\* Every variable keeps its type; running_task_count, which schedule divides
\* by, is never 0.
THEOREM TypeCorrect == Spec => []TypeOK
<1>1. IInv => TypeOK
  BY DEF IInv
<1> QED  BY Invariant, <1>1, PTL

\* get_next_task and insert_task_queue keep every ready process running or
\* queued, exactly once.
THEOREM NoTaskIsLost == Spec => []NoTaskLost
<1>1. IInv => NoTaskLost
  BY DEF IInv
<1> QED  BY Invariant, <1>1, PTL

\* running_task_count is always one more than the length of the queue.
THEOREM CountCorrect == Spec => []CountIsQueuePlusOne
<1>1. IInv => CountIsQueuePlusOne
  BY DEF IInv
<1> QED  BY Invariant, <1>1, PTL

\* The run queue stays sorted by vrun_time.
THEOREM SortedCorrect == Spec => []QueueSorted
<1>1. IInv => QueueSorted
  BY DEF IInv
<1> QED  BY Invariant, <1>1, PTL

\* The whole of what the runs check of the run queue.
THEOREM RunQueueCorrect == Spec => []RunQueueRight
<1>1. IInv => RunQueueRight
  BY DEF IInv, RunQueueRight
<1> QED  BY Invariant, <1>1, PTL

\* A process inside a non-preemptible section is never switched away.
THEOREM HolderRuns == Spec => []SectionHolderRuns
<1>1. IInv => SectionHolderRuns
  BY DEF IInv
<1> QED  BY Invariant, <1>1, PTL

\* schedule leaves nobody ready that has run less than who runs after it.
LEMMA NobodyHasLess ==
    ASSUME IInv, schedule
    PROVE  \A x \in ToSet(queue') : vrun_time[now'] <= vrun_time[x]
<1> USE SchedulerAssumption
<1>1. /\ now \in AllTasks /\ NextTask \in AllTasks
      /\ vrun_time \in [AllTasks -> Nat]
      /\ now \notin ToSet(QueueAfterNext) /\ NextTask \notin ToSet(QueueAfterNext)
  BY NextFacts, QueueFacts DEF IInv, TypeOK
<1>2. \A x \in ToSet(QueueAfterNext) :
         x \in AllTasks /\ vrun_time[NextTask] <= vrun_time[x]
  <2>1. QueueAfterNext \in Seq(Tasks)
    BY NextFacts
  <2>2. ToSet(QueueAfterNext) =
           {QueueAfterNext[i] : i \in 1 .. Len(QueueAfterNext)}
    BY <2>1, ToSetEntries
  <2> QED  BY <2>1, <2>2, NextFacts DEF AllTasks
<1>3. CASE ScheduleSwitch /\ state[now] = "TASK_RUNNING"
  <2>1. now' = NextTask /\ vrun_time[NextTask] <= vrun_time[now]
    BY <1>1, <1>3 DEF ScheduleSwitch, SwitchWanted
  <2>2. ToSet(queue') = ToSet(QueueAfterNext) \cup ({now} \ {Idle})
    BY <1>1, <1>3, PutBack DEF ScheduleSwitch
  <2> QED  BY <1>2, <2>1, <2>2
<1>4. CASE ScheduleSwitch /\ state[now] # "TASK_RUNNING"
  BY <1>2, <1>4 DEF ScheduleSwitch
<1>5. CASE ScheduleKeep
  <2>1. now' = now /\ vrun_time[now] <= vrun_time[NextTask]
    BY <1>1, <1>5 DEF ScheduleKeep, SwitchWanted
  <2>2. ToSet(queue') = ToSet(QueueAfterNext) \cup ({NextTask} \ {Idle})
    BY <1>1, <1>5, PutBack DEF ScheduleKeep
  <2> QED  BY <1>1, <1>2, <2>1, <2>2
<1> QED  BY <1>3, <1>4, <1>5 DEF schedule

\* A switch never leaves a process behind that has run less.
THEOREM LeastRunIsFirst == Spec => LeastRunFirst
<1>1. ASSUME IInv, IInv', [Next]_vars, now' # now
      PROVE  \A i \in 1 .. Len(queue') : vrun_time[now'] <= vrun_time[queue'[i]]
  <2>1. schedule
    BY <1>1 DEF Next, vars, do_fork, task_init, init, preempt_disable, preempt_enable,
                PIT_handler, OtherInterrupt, do_softirq, RESTORE_ALL
  <2>2. ToSet(queue') = {queue'[i] : i \in 1 .. Len(queue')}
    <3>1. queue' \in Seq(Tasks)
      BY <1>1 DEF IInv, TypeOK
    <3> QED  BY <3>1, ToSetEntries
  <2> QED  BY <1>1, <2>1, <2>2, NobodyHasLess
<1>2. IInv /\ IInv' /\ [Next]_vars =>
        [now' # now => \A i \in 1 .. Len(queue') :
                          vrun_time[now'] <= vrun_time[queue'[i]]]_vars
  BY <1>1
<1> QED  BY Invariant, <1>2, PTL DEF Spec, LeastRunFirst

\* schedule refills a slice at 0 only, and the tick charges 2: below 0 the
\* slice stays below 0.
THEOREM OverdrawnStays == Spec => OverdrawnForEver
<1>1. ASSUME IInv, [Next]_vars, CPU_exec_task_jiffies < 0
      PROVE  CPU_exec_task_jiffies' < 0
  <2>1. CPU_exec_task_jiffies \in Int
    BY <1>1 DEF IInv, TypeOK
  <2> QED  BY <1>1, <2>1 DEF Next, vars, do_fork, task_init, init, preempt_disable, preempt_enable,
                             PIT_handler, OtherInterrupt, do_softirq, RESTORE_ALL, schedule,
                             ScheduleSwitch, ScheduleKeep, Refill
<1>2. IInv /\ [Next]_vars =>
        [CPU_exec_task_jiffies < 0 => CPU_exec_task_jiffies' < 0]_vars
  BY <1>1
<1> QED  BY Invariant, <1>2, PTL DEF Spec, OverdrawnForEver

-----------------------------------------------------------------------------
(* How far two ready processes drift apart.  LagBounded is not inductive:  *)
(* it needs how much of the slice the running process has left and how     *)
(* long a schedule has been put off (SecondsLeft), that a slice is at most *)
(* LargestSlice while anybody waits for it (SharedOut), and, for do_fork,  *)
(* how far the boot process has run ahead of the children it has made      *)
(* before (BootAhead).                                                     *)

\* Nobody has run for longer than the machine, and no schedule is put off for
\* longer than assumed.
Charged ==
    /\ delay <= MaxDelay
    /\ \A t \in AllTasks : vrun_time[t] <= 2 * jiffies

\* The boot process uses up the slice of schedule_init before anybody else runs.
FirstSlice ==
    \/ vrun_time[Idle] >= 4
    \/ /\ now = Idle
       /\ vrun_time[Idle] \in {0, 2}
       /\ CPU_exec_task_jiffies = 4 - vrun_time[Idle]
       /\ \A t \in AllTasks : ~need_schedule[t] /\ vrun_time[t] <= vrun_time[Idle]

\* The idle process is only asked to schedule when its slice is used up.
IdleAsked == need_schedule[Idle] => now = Idle /\ CPU_exec_task_jiffies <= 0

\* While a process waits for the running one, the slice is a shared one.
SharedOut == now \in Tasks /\ queue # <<>> => CPU_exec_task_jiffies <= LargestSlice

\* The boot process, while it runs: in its first slice, put off after it, or
\* back from processes that have run as long as it had.
BootAhead ==
    now = Idle =>
        \/ vrun_time[Idle] <= 2
        \/ need_schedule[Idle] /\ vrun_time[Idle] <= 4 + 2 * delay
        \/ /\ jiffies >= 2
           /\ \A t \in Ready : vrun_time[Idle] - vrun_time[t] <= 2 * jiffies - 4

\* The running process, asked to schedule, is ahead of the others by no more
\* than a slice and the delay; not asked, or with a slice that is not over, it
\* has k seconds left, after which it is not ahead of them by more than a slice.
SecondsLeft ==
    now \in Tasks =>
        /\ need_schedule[now] =>
              \A t \in Ready : vrun_time[now] - vrun_time[t] <= LargestSlice + 2 * delay
        /\ ~need_schedule[now] \/ CPU_exec_task_jiffies > 0 =>
              \E k \in Nat \ {0} :
                 /\ CPU_exec_task_jiffies <= 2 * k
                 /\ \A t \in Ready \ {now} :
                       vrun_time[now] - vrun_time[t] + 2 * k <= LargestSlice

FInv ==
    /\ Charged
    /\ FirstSlice
    /\ IdleAsked
    /\ SharedOut
    /\ BootAhead
    /\ SecondsLeft
    /\ LagBounded

LEMMA InitFInv == Init => FInv
<1> SUFFICES ASSUME Init PROVE FInv
  OBVIOUS
<1>1. Ready = {} /\ now = Idle /\ now \notin Tasks
  BY SchedulerAssumption DEF Init, Ready, AllTasks
<1>2. Idle \in AllTasks /\ MaxDelay \in Nat
  BY SchedulerAssumption DEF AllTasks
<1> QED  BY <1>1, <1>2 DEF Init, FInv, Charged, FirstSlice, IdleAsked, SharedOut, BootAhead,
                           SecondsLeft, LagBounded, AllTasks

\* A child starts where the boot process is, in the first BootJiffies seconds.
LEMMA ForkLag ==
    ASSUME BootJiffies <= 4, IInv, FInv, NEW t \in Tasks, do_fork(t)
    PROVE  FInv'
<1> USE SchedulerAssumption DEF LargestSlice
<1>1. /\ now = Idle /\ now \notin Tasks /\ t # Idle /\ jiffies <= 4 /\ jiffies \in Nat
      /\ delay \in Nat /\ MaxDelay \in Nat /\ delay <= MaxDelay
      /\ UNCHANGED <<now, CPU_exec_task_jiffies, jiffies, delay>>
      /\ t \in AllTasks /\ Idle \in AllTasks
  BY DEF do_fork, IInv, TypeOK, FInv, Charged, AllTasks
<1>2. /\ vrun_time \in [AllTasks -> Nat] /\ vrun_time' \in [AllTasks -> Nat]
      /\ vrun_time'[t] = vrun_time[Idle]
      /\ \A s \in AllTasks \ {t} : vrun_time'[s] = vrun_time[s]
      /\ need_schedule'[t] = need_schedule[Idle]
      /\ \A s \in AllTasks \ {t} : need_schedule'[s] = need_schedule[s]
      /\ Ready' = Ready \cup {t} /\ Ready \subseteq Tasks /\ Tasks \subseteq AllTasks
      /\ need_schedule \in [AllTasks -> BOOLEAN]
  BY <1>1 DEF do_fork, IInv, TypeOK, Ready, AllTasks
<1>3. Charged'
  BY <1>1, <1>2 DEF FInv, Charged
<1>4. FirstSlice'
  <2>1. CASE vrun_time[Idle] >= 4
    BY <2>1, <1>1, <1>2 DEF FirstSlice
  <2>2. CASE ~(vrun_time[Idle] >= 4)
    <3>1. /\ vrun_time[Idle] \in {0, 2}
          /\ CPU_exec_task_jiffies = 4 - vrun_time[Idle]
          /\ \A s \in AllTasks : ~need_schedule[s] /\ vrun_time[s] <= vrun_time[Idle]
      BY <2>2 DEF FInv, FirstSlice
    <3>2. \A s \in AllTasks : ~need_schedule'[s] /\ vrun_time'[s] <= vrun_time'[Idle]
      BY <3>1, <1>1, <1>2
    <3> QED  BY <3>1, <3>2, <1>1, <1>2 DEF FirstSlice
  <2> QED  BY <2>1, <2>2
<1>5. IdleAsked' /\ SharedOut' /\ SecondsLeft'
  BY <1>1, <1>2 DEF FInv, IdleAsked, SharedOut, SecondsLeft
<1>6. BootAhead'
  <2>1. CASE vrun_time[Idle] <= 2
    BY <2>1, <1>1, <1>2 DEF BootAhead
  <2>2. CASE need_schedule[Idle] /\ vrun_time[Idle] <= 4 + 2 * delay
    BY <2>2, <1>1, <1>2 DEF BootAhead
  <2>3. CASE /\ jiffies >= 2
             /\ \A s \in Ready : vrun_time[Idle] - vrun_time[s] <= 2 * jiffies - 4
    <3>1. \A s \in Ready' : vrun_time'[Idle] - vrun_time'[s] <= 2 * jiffies' - 4
      BY <2>3, <1>1, <1>2
    <3> QED  BY <3>1, <2>3, <1>1 DEF BootAhead
  <2> QED  BY <2>1, <2>2, <2>3, <1>1 DEF FInv, BootAhead
<1>7. LagBounded'
  <2>1. \A s \in Ready : vrun_time[Idle] - vrun_time[s] <= 6 + 2 * MaxDelay
    <3>1. \A s \in Ready : vrun_time[s] \in Nat /\ vrun_time[Idle] \in Nat
      BY <1>1, <1>2
    <3> QED  BY <1>1, <3>1 DEF FInv, BootAhead
  <2>2. \A s \in Ready : vrun_time[s] - vrun_time[Idle] <= 6 + 2 * MaxDelay
    <3>1. \A s \in Ready : /\ vrun_time[s] \in Nat /\ vrun_time[Idle] \in Nat
                           /\ vrun_time[s] <= 8
      BY <1>1, <1>2 DEF FInv, Charged
    <3>2. vrun_time[Idle] >= 4 \/ \A s \in Ready : vrun_time[s] <= vrun_time[Idle]
      BY <1>2 DEF FInv, FirstSlice
    <3> QED  BY <1>1, <3>1, <3>2
  <2>3. \A r, s \in Ready : vrun_time[r] - vrun_time[s] <= 6 + 2 * MaxDelay
    BY DEF FInv, LagBounded
  <2>4. \A r, s \in Ready' : vrun_time'[r] - vrun_time'[s] <= 6 + 2 * MaxDelay
    <3> TAKE r, s \in Ready'
    <3>1. /\ r # t => r \in Ready /\ vrun_time'[r] = vrun_time[r]
          /\ s # t => s \in Ready /\ vrun_time'[s] = vrun_time[s]
          /\ r = t => vrun_time'[r] = vrun_time[Idle]
          /\ s = t => vrun_time'[s] = vrun_time[Idle]
          /\ vrun_time[Idle] \in Nat
      BY <1>1, <1>2
    <3> QED  BY <3>1, <2>1, <2>2, <2>3, <1>1
  <2> QED  BY <2>4 DEF LagBounded
<1> QED  BY <1>3, <1>4, <1>5, <1>6, <1>7 DEF FInv

\* A tick: a second less of the slice, or of what the delay allows.
LEMMA TickLag ==
    ASSUME IInv, FInv, PIT_handler
    PROVE  FInv'
<1> USE SchedulerAssumption DEF LargestSlice
<1>1. /\ now' = now /\ queue' = queue /\ Ready' = Ready
      /\ now \in AllTasks /\ Idle \in AllTasks /\ Ready \subseteq AllTasks
      /\ jiffies \in Nat /\ jiffies' = jiffies + 1
      /\ delay \in Nat /\ MaxDelay \in Nat /\ delay <= MaxDelay
      /\ CPU_exec_task_jiffies \in Int
      /\ CPU_exec_task_jiffies' = CPU_exec_task_jiffies - 2
  BY DEF PIT_handler, IInv, TypeOK, FInv, Charged, Ready, AllTasks
<1>2. /\ vrun_time \in [AllTasks -> Nat] /\ vrun_time' \in [AllTasks -> Nat]
      /\ vrun_time'[now] = vrun_time[now] + 2
      /\ \A s \in AllTasks \ {now} : vrun_time'[s] = vrun_time[s]
  BY <1>1 DEF PIT_handler, IInv, TypeOK
<1>3. /\ need_schedule[now] => delay < MaxDelay /\ delay' = delay + 1
      /\ ~need_schedule[now] => delay' = 0
      /\ delay' \in Nat /\ delay' <= MaxDelay
  BY <1>1 DEF PIT_handler
<1>4. /\ need_schedule'[now] <=> need_schedule[now] \/ CPU_exec_task_jiffies' <= 0
      /\ \A s \in AllTasks \ {now} : need_schedule'[s] = need_schedule[s]
      /\ need_schedule \in [AllTasks -> BOOLEAN]
      /\ need_schedule' \in [AllTasks -> BOOLEAN]
  BY <1>1 DEF PIT_handler, IInv, TypeOK
<1>5. Charged'
  <2>1. \A s \in AllTasks : vrun_time'[s] <= 2 * jiffies'
    <3> TAKE s \in AllTasks
    <3>1. vrun_time[s] \in Nat /\ vrun_time[s] <= 2 * jiffies
      BY <1>2 DEF FInv, Charged
    <3> QED  BY <3>1, <1>1, <1>2
  <2> QED  BY <2>1, <1>3 DEF Charged
<1>6. FirstSlice'
  <2>1. CASE vrun_time[Idle] >= 4
    <3>1. vrun_time[Idle] \in Nat /\ vrun_time'[Idle] \in Nat
      BY <1>1, <1>2
    <3>2. vrun_time'[Idle] >= 4
      BY <2>1, <3>1, <1>1, <1>2
    <3> QED  BY <3>2 DEF FirstSlice
  <2>2. CASE ~(vrun_time[Idle] >= 4)
    <3>1. /\ now = Idle /\ vrun_time[Idle] \in {0, 2}
          /\ CPU_exec_task_jiffies = 4 - vrun_time[Idle]
          /\ \A s \in AllTasks : ~need_schedule[s] /\ vrun_time[s] <= vrun_time[Idle]
      BY <2>2 DEF FInv, FirstSlice
    <3>2. CASE vrun_time[Idle] = 2
      <4>1. vrun_time'[Idle] >= 4
        BY <3>1, <3>2, <1>2
      <4> QED  BY <4>1 DEF FirstSlice
    <3>3. CASE vrun_time[Idle] = 0
      <4>1. /\ vrun_time'[Idle] = 2 /\ CPU_exec_task_jiffies' = 2 /\ ~need_schedule[now]
        BY <3>1, <3>3, <1>1, <1>2
      <4>2. \A s \in AllTasks : ~need_schedule'[s]
        BY <3>1, <4>1, <1>4
      <4>3. \A s \in AllTasks : vrun_time'[s] <= 2
        <5> TAKE s \in AllTasks
        <5>1. vrun_time[s] \in Nat /\ vrun_time[s] <= 0
          BY <3>1, <3>3, <1>2
        <5> QED  BY <5>1, <1>2
      <4> QED  BY <3>1, <4>1, <4>2, <4>3, <1>1 DEF FirstSlice
    <3> QED  BY <3>1, <3>2, <3>3
  <2> QED  BY <2>1, <2>2
<1>7. IdleAsked'
  <2>1. CASE now = Idle
    BY <2>1, <1>1, <1>4 DEF FInv, IdleAsked
  <2>2. CASE now # Idle
    BY <2>2, <1>1, <1>4 DEF FInv, IdleAsked
  <2> QED  BY <2>1, <2>2
<1>8. SharedOut'
  BY <1>1 DEF FInv, SharedOut
<1>9. BootAhead'
  <2> SUFFICES ASSUME now = Idle PROVE BootAhead'
    BY <1>1 DEF BootAhead
  <2>1. vrun_time[Idle] \in Nat /\ vrun_time'[Idle] = vrun_time[Idle] + 2
    BY <1>1, <1>2
  <2>2. CASE vrun_time[Idle] <= 2
    <3>1. /\ vrun_time[Idle] \in {0, 2} /\ ~need_schedule[Idle]
          /\ CPU_exec_task_jiffies = 4 - vrun_time[Idle]
      BY <2>1, <2>2, <1>1 DEF FInv, FirstSlice
    <3>2. CASE vrun_time[Idle] = 0
      BY <3>2, <2>1 DEF BootAhead
    <3>3. CASE vrun_time[Idle] = 2
      <4>1. need_schedule'[Idle] /\ vrun_time'[Idle] <= 4 + 2 * delay'
        BY <3>1, <3>3, <2>1, <1>1, <1>3, <1>4
      <4> QED  BY <4>1 DEF BootAhead
    <3> QED  BY <3>1, <3>2, <3>3
  <2>3. CASE need_schedule[Idle] /\ vrun_time[Idle] <= 4 + 2 * delay
    <3>1. need_schedule'[Idle] /\ vrun_time'[Idle] <= 4 + 2 * delay'
      BY <2>3, <2>1, <1>1, <1>3, <1>4
    <3> QED  BY <3>1 DEF BootAhead
  <2>4. CASE /\ jiffies >= 2
             /\ \A s \in Ready : vrun_time[Idle] - vrun_time[s] <= 2 * jiffies - 4
    <3>1. \A s \in Ready : vrun_time'[Idle] - vrun_time'[s] <= 2 * jiffies' - 4
      <4> TAKE s \in Ready
      <4>1. /\ vrun_time[s] \in Nat /\ s # Idle /\ vrun_time'[s] = vrun_time[s]
            /\ vrun_time[Idle] - vrun_time[s] <= 2 * jiffies - 4
        BY <2>4, <1>1, <1>2 DEF Ready
      <4> QED  BY <4>1, <2>1, <1>1
    <3>2. jiffies' >= 2
      BY <2>4, <1>1
    <3> QED  BY <3>1, <3>2, <1>1 DEF BootAhead
  <2> QED  BY <2>2, <2>3, <2>4 DEF FInv, BootAhead
<1>10. SecondsLeft'
  <2> SUFFICES ASSUME now \in Tasks PROVE SecondsLeft'
    BY <1>1 DEF SecondsLeft
  <2>1. vrun_time[now] \in Nat /\ vrun_time'[now] = vrun_time[now] + 2
    BY <1>1, <1>2
  <2>2. \A s \in Ready \ {now} : vrun_time[s] \in Nat /\ vrun_time'[s] = vrun_time[s]
    BY <1>1, <1>2
  <2>3. CASE need_schedule[now]
    <3>1. \A s \in Ready : vrun_time[now] - vrun_time[s] <= 6 + 2 * delay
      BY <2>3 DEF FInv, SecondsLeft
    <3>2. \A s \in Ready : vrun_time'[now] - vrun_time'[s] <= 6 + 2 * delay'
      BY <3>1, <2>1, <2>2, <2>3, <1>1, <1>3
    <3>3. need_schedule'[now]
      BY <2>3, <1>4
    <3>4. ASSUME CPU_exec_task_jiffies' > 0
          PROVE  \E m \in Nat \ {0} :
                    /\ CPU_exec_task_jiffies' <= 2 * m
                    /\ \A s \in Ready \ {now} :
                          vrun_time'[now] - vrun_time'[s] + 2 * m <= 6
      <4>1. PICK k \in Nat \ {0} :
               /\ CPU_exec_task_jiffies <= 2 * k
               /\ \A s \in Ready \ {now} : vrun_time[now] - vrun_time[s] + 2 * k <= 6
        BY <3>4, <1>1 DEF FInv, SecondsLeft
      <4>2. k - 1 \in Nat \ {0} /\ CPU_exec_task_jiffies' <= 2 * (k - 1)
        BY <3>4, <4>1, <1>1
      <4>3. \A s \in Ready \ {now} :
               vrun_time'[now] - vrun_time'[s] + 2 * (k - 1) <= 6
        BY <4>1, <2>1, <2>2
      <4> QED  BY <4>2, <4>3
    <3> QED  BY <3>2, <3>3, <3>4, <1>1 DEF SecondsLeft
  <2>4. CASE ~need_schedule[now]
    <3>1. PICK k \in Nat \ {0} :
             /\ CPU_exec_task_jiffies <= 2 * k
             /\ \A s \in Ready \ {now} : vrun_time[now] - vrun_time[s] + 2 * k <= 6
      BY <2>4 DEF FInv, SecondsLeft
    <3>2. \A s \in Ready : vrun_time'[now] - vrun_time'[s] <= 6 + 2 * delay'
      <4> TAKE s \in Ready
      <4>1. CASE s = now
        BY <4>1, <2>1, <1>3
      <4>2. CASE s # now
        <5>1. vrun_time[now] - vrun_time[s] + 2 * k <= 6
          BY <4>2, <3>1
        <5> QED  BY <4>2, <5>1, <2>1, <2>2, <1>3
      <4> QED  BY <4>1, <4>2
    <3>3. ASSUME ~need_schedule'[now] \/ CPU_exec_task_jiffies' > 0
          PROVE  \E m \in Nat \ {0} :
                    /\ CPU_exec_task_jiffies' <= 2 * m
                    /\ \A s \in Ready \ {now} :
                          vrun_time'[now] - vrun_time'[s] + 2 * m <= 6
      <4>1. CPU_exec_task_jiffies' > 0
        BY <3>3, <1>1, <1>4
      <4>2. k - 1 \in Nat \ {0} /\ CPU_exec_task_jiffies' <= 2 * (k - 1)
        BY <4>1, <3>1, <1>1
      <4>3. \A s \in Ready \ {now} :
               vrun_time'[now] - vrun_time'[s] + 2 * (k - 1) <= 6
        BY <3>1, <2>1, <2>2
      <4> QED  BY <4>2, <4>3
    <3> QED  BY <3>2, <3>3, <1>1 DEF SecondsLeft
  <2> QED  BY <2>3, <2>4
<1>11. LagBounded'
  <2>1. \A r, s \in Ready : vrun_time[r] - vrun_time[s] <= 6 + 2 * MaxDelay
    BY DEF FInv, LagBounded
  <2>2. \A s \in Ready : /\ vrun_time[s] \in Nat /\ vrun_time'[s] \in Nat
                         /\ vrun_time'[s] >= vrun_time[s]
                         /\ s # now => vrun_time'[s] = vrun_time[s]
    BY <1>1, <1>2
  <2>3. \A s \in Ready : now \in Ready => vrun_time'[now] - vrun_time'[s] <= 6 + 2 * MaxDelay
    <3> TAKE s \in Ready
    <3> HAVE now \in Ready
    <3>1. now \in Tasks
      BY DEF Ready
    <3>2. CASE s = now
      BY <3>2, <2>2, <1>1
    <3>3. CASE s # now /\ need_schedule'[now]
      <4>1. vrun_time'[now] - vrun_time'[s] <= 6 + 2 * delay'
        BY <3>1, <3>3, <1>1, <1>10 DEF SecondsLeft
      <4> QED  BY <4>1, <2>2, <1>1, <1>3
    <3>4. CASE s # now /\ ~need_schedule'[now]
      <4>1. PICK k \in Nat \ {0} : vrun_time'[now] - vrun_time'[s] + 2 * k <= 6
        BY <3>1, <3>4, <1>1, <1>10 DEF SecondsLeft
      <4> QED  BY <4>1, <2>2, <1>1, <1>3
    <3> QED  BY <3>2, <3>3, <3>4
  <2>4. \A r, s \in Ready : vrun_time'[r] - vrun_time'[s] <= 6 + 2 * MaxDelay
    <3> TAKE r, s \in Ready
    <3>1. CASE r = now
      BY <3>1, <2>3
    <3>2. CASE r # now
      BY <3>2, <2>1, <2>2, <1>1
    <3> QED  BY <3>1, <3>2
  <2> QED  BY <2>4, <1>1 DEF LagBounded
<1> QED  BY <1>5, <1>6, <1>7, <1>8, <1>9, <1>10, <1>11 DEF FInv

\* A slice that is shared is at most LargestSlice.
LEMMA RefillShared ==
    ASSUME NEW n \in Nat, n >= 2, NEW c \in Int, c <= LargestSlice
    PROVE  Refill(c, n) <= LargestSlice
<1>1. 4 \div n \in Int /\ 4 \div n <= 2
  <2>1. CASE n \in {2, 3, 4}
    BY <2>1
  <2>2. CASE n > 4
    BY <2>2
  <2> QED  BY <2>1, <2>2
<1> QED  BY <1>1 DEF Refill, LargestSlice

\* After a schedule nobody has run less than the running process, and its
\* slice, if anybody waits for it, is a shared one.
LEMMA ScheduleLag ==
    ASSUME IInv, IInv', FInv, schedule
    PROVE  FInv'
<1> USE SchedulerAssumption
<1>1. /\ need_schedule[now] /\ need_schedule' = [need_schedule EXCEPT ![now] = FALSE]
      /\ CPU_exec_task_jiffies' = Refill(CPU_exec_task_jiffies, running_task_count')
      /\ delay' = 0 /\ UNCHANGED <<vrun_time, state, jiffies>> /\ Ready' = Ready
      /\ running_task_count' = Len(queue') + 1
  BY DEF schedule, ScheduleSwitch, ScheduleKeep, MaySchedule, Ready, IInv, CountIsQueuePlusOne
<1>2. /\ now \in AllTasks /\ now' \in AllTasks /\ Idle \in AllTasks /\ Ready \subseteq Tasks
      /\ vrun_time \in [AllTasks -> Nat] /\ need_schedule \in [AllTasks -> BOOLEAN]
      /\ queue \in Seq(Tasks) /\ queue' \in Seq(Tasks) /\ jiffies \in Nat
      /\ CPU_exec_task_jiffies \in Int /\ CPU_exec_task_jiffies' \in Int
      /\ MaxDelay \in Nat /\ Tasks \subseteq AllTasks /\ Idle \notin Tasks
  BY DEF IInv, TypeOK, Ready, AllTasks
<1>3. vrun_time[Idle] >= 4 /\ jiffies >= 2
  <2>1. vrun_time[Idle] >= 4
    BY <1>1, <1>2 DEF FInv, FirstSlice
  <2>2. vrun_time[Idle] <= 2 * jiffies
    BY <1>2 DEF FInv, Charged
  <2> QED  BY <1>2, <2>1, <2>2
<1>4. \A t \in Ready : vrun_time[now'] <= vrun_time[t]
  <2>1. Ready' = ToSet(queue') \cup ({now'} \ {Idle})
    BY DEF IInv, NoTaskLost
  <2> QED  BY <1>1, <1>2, <2>1, NobodyHasLess
<1>5. SharedOut'
  <2> SUFFICES ASSUME now' \in Tasks, queue' # <<>>
               PROVE  CPU_exec_task_jiffies' <= LargestSlice
    BY DEF SharedOut, LargestSlice
  <2>1. running_task_count' \in Nat /\ running_task_count' >= 2
    BY <1>1, <1>2, EmptySeq
  <2>2. CPU_exec_task_jiffies <= LargestSlice
    <3>1. CASE now = Idle
      BY <3>1, <1>1, <1>2 DEF FInv, IdleAsked, LargestSlice
    <3>2. CASE now # Idle /\ queue # <<>>
      BY <3>2, <1>2 DEF FInv, SharedOut, AllTasks
    <3>3. CASE now # Idle /\ queue = <<>>
      <4>1. NextTask = Idle /\ QueueAfterNext = <<>>
        BY <3>3 DEF NextTask, QueueAfterNext
      <4>2. ~ScheduleSwitch
        BY <4>1, <1>2 DEF ScheduleSwitch
      <4>3. ~ScheduleKeep
        BY <4>1, InsertIdle DEF ScheduleKeep
      <4> QED  BY <4>2, <4>3 DEF schedule
    <3> QED  BY <3>1, <3>2, <3>3
  <2> QED  BY <1>1, <1>2, <2>1, <2>2, RefillShared
<1>6. Charged'
  BY <1>1, <1>2 DEF FInv, Charged
<1>7. FirstSlice'
  BY <1>1, <1>3 DEF FirstSlice
<1>8. IdleAsked'
  BY <1>1, <1>2 DEF FInv, IdleAsked
<1>9. BootAhead'
  <2> SUFFICES ASSUME now' = Idle PROVE BootAhead'
    BY DEF BootAhead
  <2>1. \A t \in Ready : vrun_time[Idle] - vrun_time[t] <= 2 * jiffies - 4
    <3> TAKE t \in Ready
    <3>1. vrun_time[t] \in Nat /\ vrun_time[Idle] \in Nat /\ vrun_time[Idle] <= vrun_time[t]
      BY <1>2, <1>4
    <3> QED  BY <3>1, <1>2, <1>3
  <2> QED  BY <2>1, <1>1, <1>3 DEF BootAhead
<1>10. SecondsLeft'
  <2> SUFFICES ASSUME now' \in Tasks PROVE SecondsLeft'
    BY DEF SecondsLeft
  <2>1. \A t \in Ready : /\ vrun_time[t] \in Nat /\ vrun_time[now'] \in Nat
                         /\ vrun_time[now'] <= vrun_time[t]
    BY <1>2, <1>4
  <2>2. \A t \in Ready : vrun_time[now'] - vrun_time[t] <= LargestSlice + 2 * delay'
    BY <2>1, <1>1 DEF LargestSlice
  <2>3. \E k \in Nat \ {0} :
           /\ CPU_exec_task_jiffies' <= 2 * k
           /\ \A t \in Ready \ {now'} : vrun_time[now'] - vrun_time[t] + 2 * k <= LargestSlice
    <3>1. CASE queue' = <<>>
      <4>1. Len(queue') = 0
        BY <3>1
      <4>2. ToSet(queue') = {queue'[i] : i \in 1 .. Len(queue')}
        BY <1>2, ToSetEntries
      <4>3. Ready' = ToSet(queue') \cup ({now'} \ {Idle})
        BY DEF IInv, NoTaskLost
      <4>4. Ready \ {now'} = {}
        BY <4>1, <4>2, <4>3, <1>1
      <4>5. CASE CPU_exec_task_jiffies' <= 2
        <5>1. 1 \in Nat \ {0} /\ CPU_exec_task_jiffies' <= 2 * 1
          BY <4>5
        <5> QED  BY <4>4, <5>1
      <4>6. CASE CPU_exec_task_jiffies' > 2
        <5>1. \A c \in Int : c > 2 => c \in Nat \ {0} /\ c <= 2 * c
          OBVIOUS
        <5>2. /\ CPU_exec_task_jiffies' \in Nat \ {0}
              /\ CPU_exec_task_jiffies' <= 2 * CPU_exec_task_jiffies'
          BY <4>6, <5>1, <1>2
        <5> QED  BY <4>4, <5>2
      <4> QED  BY <4>5, <4>6, <1>2
    <3>2. CASE queue' # <<>>
      <4>1. CPU_exec_task_jiffies' <= 2 * 3
        BY <3>2, <1>5 DEF SharedOut, LargestSlice
      <4>2. \A t \in Ready \ {now'} : vrun_time[now'] - vrun_time[t] + 2 * 3 <= LargestSlice
        BY <2>1 DEF LargestSlice
      <4> QED  BY <4>1, <4>2
    <3> QED  BY <3>1, <3>2
  <2> QED  BY <2>2, <2>3, <1>1 DEF SecondsLeft
<1>11. LagBounded'
  BY <1>1 DEF FInv, LagBounded
<1> QED  BY <1>5, <1>6, <1>7, <1>8, <1>9, <1>10, <1>11 DEF FInv

\* init takes back a schedule that nothing but the fork has asked for.
LEMMA InitLag ==
    ASSUME IInv, FInv, init
    PROVE  FInv'
<1> USE SchedulerAssumption
<1>1. /\ now \in Tasks /\ now # Idle /\ now \in AllTasks /\ Idle \in AllTasks
      /\ CPU_exec_task_jiffies > 0 /\ Ready' = Ready
      /\ UNCHANGED <<now, queue, CPU_exec_task_jiffies, vrun_time, jiffies, delay>>
      /\ need_schedule' = [need_schedule EXCEPT ![now] = FALSE]
      /\ need_schedule \in [AllTasks -> BOOLEAN]
  BY DEF init, IInv, TypeOK, Ready, AllTasks
<1>2. ~need_schedule'[now] /\ need_schedule'[Idle] = need_schedule[Idle]
  BY <1>1
<1>3. Charged' /\ SharedOut' /\ BootAhead' /\ LagBounded' /\ IdleAsked'
  BY <1>1, <1>2 DEF FInv, Charged, SharedOut, BootAhead, LagBounded, IdleAsked
<1>4. FirstSlice'
  BY <1>1 DEF FInv, FirstSlice
<1>5. SecondsLeft'
  BY <1>1, <1>2 DEF FInv, SecondsLeft
<1> QED  BY <1>3, <1>4, <1>5 DEF FInv

LEMMA NextFInv == BootJiffies <= 4 /\ IInv /\ IInv' /\ FInv /\ [Next]_vars => FInv'
<1> SUFFICES ASSUME BootJiffies <= 4, IInv, IInv', FInv, [Next]_vars PROVE FInv'
  OBVIOUS
<1>1. CASE \E t \in Tasks : do_fork(t)
  BY <1>1, ForkLag
<1>2. CASE PIT_handler
  BY <1>2, TickLag
<1>3. CASE schedule
  BY <1>3, ScheduleLag
<1>4. CASE \/ task_init \/ preempt_disable \/ preempt_enable
           \/ OtherInterrupt \/ do_softirq \/ RESTORE_ALL \/ UNCHANGED vars
  <2>1. /\ UNCHANGED <<now, queue, CPU_exec_task_jiffies, vrun_time, need_schedule,
                       jiffies, delay>>
        /\ Ready' = Ready
    BY <1>4, SchedulerAssumption DEF task_init, preempt_disable, preempt_enable,
       OtherInterrupt, do_softirq, RESTORE_ALL, vars, Ready, IInv, TypeOK, AllTasks
  <2> QED  BY <2>1 DEF FInv, Charged, FirstSlice, IdleAsked, SharedOut, BootAhead,
                       SecondsLeft, LagBounded
<1>5. CASE init
  BY <1>5, InitLag
<1> QED  BY <1>1, <1>2, <1>3, <1>4, <1>5 DEF Next

\* Two ready processes never differ by more than a slice and the delays, if
\* do_fork is called in the first four seconds only.
THEOREM LagIsBounded == ASSUME BootJiffies <= 4 PROVE Spec => []LagBounded
<1>1. Init => FInv
  BY InitFInv
<1>2. IInv /\ IInv' /\ FInv /\ [Next]_vars => FInv'
  BY NextFInv
<1>3. FInv => LagBounded
  BY DEF FInv
<1> QED  BY Invariant, <1>1, <1>2, <1>3, PTL DEF Spec

-----------------------------------------------------------------------------
(* The refinement.                                                         *)

\* Every step of the scheduler starts a process, dispatches one or changes
\* nothing that TaskPool sees.
LEMMA PoolStep ==
    ASSUME IInv, IInv', Next
    PROVE  TaskPool!Next \/ UNCHANGED <<now, ToSet(queue)>>
<1> USE SchedulerAssumption
<1>1. CASE \E t \in Tasks : do_fork(t)
  <2>1. PICK t \in Tasks : do_fork(t)
    BY <1>1
  <2>2. /\ queue \in Seq(Tasks) /\ vrun_time' \in [AllTasks -> Nat]
        /\ queue' = insert_task_queue(queue, vrun_time', t)
        /\ now' = now
    BY <2>1 DEF IInv, TypeOK, do_fork
  <2>3. ToSet(queue') = ToSet(queue) \cup {t}
    BY <2>2, InsertTask
  <2>4. t \notin ToSet(queue) /\ t # now
    BY <2>1, QueueFacts DEF IInv, do_fork, Ready
  <2>5. TaskPool!Start(t)
    BY <2>2, <2>3, <2>4 DEF TaskPool!Start
  <2> QED  BY <2>5 DEF TaskPool!Next
<1>2. CASE ScheduleSwitch
  <2>1. /\ now' = NextTask /\ now \in AllTasks /\ NextTask \in AllTasks
        /\ now \notin ToSet(queue)
        /\ Ready = ToSet(queue) \cup ({now} \ {Idle})
    BY <1>2, NextFacts, QueueFacts DEF ScheduleSwitch, IInv, TypeOK
  <2>2. ToSet(queue') = ToSet(QueueAfterNext) \cup ({now} \ {Idle})
    <3>1. now \notin ToSet(QueueAfterNext)
      BY <2>1, NextFacts
    <3>2. CASE state[now] = "TASK_RUNNING"
      BY <1>2, <2>1, <3>1, <3>2, PutBack DEF ScheduleSwitch
    <3>3. CASE state[now] # "TASK_RUNNING"
      <4>1. now = Idle
        BY <2>1, <3>3 DEF Ready
      <4>2. queue' = QueueAfterNext
        BY <1>2, <3>3 DEF ScheduleSwitch
      <4> QED  BY <4>1, <4>2
    <3> QED  BY <3>2, <3>3
  <2>3. CASE queue = <<>>
    <3>1. NextTask = Idle
      BY <2>3, NextFacts
    <3>2. ToSet(queue) = {}
      <4>1. queue \in Seq(Tasks) /\ Len(queue) = 0
        BY <2>3 DEF IInv, TypeOK
      <4>2. ToSet(queue) = {queue[i] : i \in 1 .. Len(queue)}
        BY <4>1, ToSetEntries
      <4> QED  BY <4>1, <4>2
    <3>3. ToSet(QueueAfterNext) = {}
      BY <3>2, NextFacts
    <3>4. TaskPool!DispatchIdle
      BY <2>1, <2>2, <3>1, <3>2, <3>3 DEF TaskPool!DispatchIdle
    <3> QED  BY <3>4 DEF TaskPool!Next
  <2>4. CASE queue # <<>>
    <3>1. /\ NextTask \in Tasks /\ NextTask # Idle
          /\ ToSet(queue) = ToSet(QueueAfterNext) \cup {NextTask}
          /\ NextTask \notin ToSet(QueueAfterNext)
          /\ Idle \notin ToSet(queue)
      BY <2>1, <2>4, NextFacts DEF AllTasks
    <3>2. ToSet(queue') = (ToSet(queue) \cup {now}) \ {NextTask, Idle}
      BY <2>1, <2>2, <3>1
    <3>3. TaskPool!Dispatch(NextTask)
      BY <2>1, <3>1, <3>2 DEF TaskPool!Dispatch
    <3> QED  BY <3>1, <3>3 DEF TaskPool!Next
  <2> QED  BY <2>3, <2>4
<1>3. CASE ScheduleKeep
  <2>1. queue' = insert_task_queue(QueueAfterNext, vrun_time, NextTask) /\ now' = now
    BY <1>3 DEF ScheduleKeep
  <2>2. ToSet(queue') = ToSet(queue)
    BY <2>1, NextFacts, PutBack
  <2> QED  BY <2>1, <2>2
<1>4. CASE ~(\E t \in Tasks : do_fork(t)) /\ ~schedule
  <2>1. now' = now /\ queue' = queue
    BY <1>4 DEF Next, task_init, init, preempt_disable, preempt_enable, PIT_handler,
                OtherInterrupt, do_softirq, RESTORE_ALL
  <2> QED  BY <2>1
<1> QED  BY <1>1, <1>2, <1>3, <1>4 DEF schedule

\* The scheduler implements TaskPool: it never loses a ready process, never
\* duplicates one and only dispatches processes that are ready.
THEOREM Implements == Spec => ImplementsTaskPool
<1>1. Init => TaskPool!Init
  <2>1. Init => IInv
    BY InitIInv
  <2>2. ASSUME Init PROVE ToSet(queue) = {}
    <3>1. queue \in Seq(Tasks) /\ Len(queue) = 0
      BY <2>2 DEF Init
    <3>2. ToSet(queue) = {queue[i] : i \in 1 .. Len(queue)}
      BY <3>1, ToSetEntries
    <3> QED  BY <3>1, <3>2
  <2> QED  BY <2>2 DEF Init, TaskPool!Init
<1>2. IInv /\ IInv' /\ [Next]_vars => [TaskPool!Next]_<<now, ToSet(queue)>>
  <2>1. UNCHANGED vars => UNCHANGED <<now, ToSet(queue)>>
    BY DEF vars
  <2> QED  BY <2>1, PoolStep
<1> QED  BY Invariant, <1>1, <1>2, PTL DEF Spec, ImplementsTaskPool, TaskPool!Spec

=============================================================================
