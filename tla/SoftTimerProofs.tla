-------------------------- MODULE SoftTimerProofs --------------------------
(***************************************************************************)
(* Theorems about SoftTimer, for any finite set of timers, any expiry      *)
(* times and any depth of nesting.  do_timer moves the head along a list   *)
(* whose links stay as add_timer left them: the proofs keep that list and  *)
(* the place of the head in it.                                            *)
(***************************************************************************)
EXTENDS SoftTimer, FiniteSetTheorems, WellFoundedInduction, TLAPS

PCs == {"while", "call", "delete", "compare", "unlink", "clear", "return"}

\* A run of do_softirq at one of these places looks at the head again before it ends.
Looping == {"while", "call", "delete", "compare", "unlink"}

Frames == [pc : PCs, timer : Nodes \cup {Null}]

\* s is the list as add_timer has made it, with the timers that del_timer has taken
\* off in front: del_timer moves the head and leaves the links alone.
IsOrder(s) ==
    /\ s \in Seq(Nodes) /\ Len(s) >= 1
    /\ s[Len(s)] = Last /\ next_timer[Last] = Null
    /\ \A i \in 1 .. Len(s) - 1 : s[i] \in added /\ next_timer[s[i]] = s[i + 1]
    /\ \A i, j \in 1 .. Len(s) : s[i] = s[j] => i = j
    /\ \A i, j \in 1 .. Len(s) : i <= j => expire_jiffies[s[i]] <= expire_jiffies[s[j]]
    /\ \A t \in added : \E i \in 1 .. Len(s) - 1 : s[i] = t

\* The function of the head has run and its timer is still the head.
Midway == frames # <<>> /\ Top.pc \in {"delete", "compare", "unlink"}

\* The head is the entry j of the order s; without nesting exactly the functions of
\* the timers before it have run.
HeadAt(s, j) ==
    /\ timer_list_head = s[j]
    /\ jiffies <= BootJiffies => j = 1
    /\ limit = 1 => \A i \in 1 .. Len(s) - 1 :
                       fired[s[i]] = IF i < j \/ (i = j /\ Midway) THEN 1 ELSE 0

\* Nothing is due before the last add_timer; a timer not yet added has not run.
Quiet ==
    /\ jiffies <= BootJiffies => /\ frames = <<>> /\ softirq_status = FALSE
                                 /\ timer_list_head # Null
    /\ \A t \in added : expire_jiffies[t] \in Expiries
    /\ expire_jiffies[Last] = Forever
    /\ \A t \in Timers \ added : fired[t] = 0

\* While the head is due some run of do_timer will look at it.
SomeoneLooks ==
    fault = "none" /\ timer_list_head # Null /\ HeadDue(jiffies) =>
        \E i \in 1 .. Len(frames) : frames[i].pc \in Looping

\* Without nesting the test of the while still holds in its body, and del_timer
\* deletes the timer whose function has run.
Alone ==
    limit = 1 =>
        /\ fault = "none" /\ timer_list_head # Null
        /\ frames # <<>> /\ Top.pc \in {"call", "delete", "compare", "unlink"} => HeadDue(jiffies)
        /\ frames # <<>> /\ Top.pc \in {"compare", "unlink"} => Top.timer = timer_list_head

Ordered ==
    \E s \in Seq(Nodes) :
        IsOrder(s) /\ (timer_list_head = Null \/ \E j \in 1 .. Len(s) : HeadAt(s, j))

IInv ==
    /\ TypeOK /\ frames \in Seq(Frames)
    /\ Quiet
    /\ SomeoneLooks
    /\ Alone
    /\ Ordered

-----------------------------------------------------------------------------
(* Sequences and numbers.                                                  *)

LEMMA LeastNatural ==
    ASSUME NEW T \in SUBSET Nat, T # {}
    PROVE  \E k \in T : \A j \in T : k <= j
<1>1. \E k \in T : \A j \in T : <<j, k>> \notin OpToRel(<, Nat)
  BY WFMin, NatLessThanWellFounded
<1>2. PICK k \in T : \A j \in T : <<j, k>> \notin OpToRel(<, Nat)
  BY <1>1
<1>3. \A j \in T : ~(j < k)
  BY <1>2 DEF OpToRel
<1> QED  BY <1>3

LEMMA NodeFacts ==
    /\ IsFiniteSet(Nodes) /\ Cardinality(Nodes) \in Nat
    /\ Last \in Nodes /\ Null \notin Nodes
<1>1. IsFiniteSet(Nodes)
  BY SoftTimerAssumption, FS_AddElement DEF Nodes
<1> QED  BY <1>1, FS_CardinalityType, SoftTimerAssumption DEF Nodes

LEMMA TimeFacts ==
    /\ BootJiffies \in Nat /\ MaxJiffies \in Nat /\ Forever \in Nat /\ Forever > MaxJiffies
    /\ \A e \in Expiries : e \in Nat /\ e > BootJiffies /\ e <= MaxJiffies
    /\ Expiries \cup {Forever} \subseteq Nat
<1> QED  BY SoftTimerAssumption DEF Forever

\* The list from an entry of the order on is the rest of the order.
LEMMA ChainIs ==
    ASSUME TypeOK, NEW s, IsOrder(s), NEW j \in 1 .. Len(s)
    PROVE  /\ Chain(s[j]) = [i \in 1 .. Len(s) - j + 1 |-> s[j + i - 1]]
           /\ Len(Chain(s[j])) = Len(s) - j + 1
<1> DEFINE m == Len(s) - j + 1
           rest == [i \in 1 .. m |-> s[j + i - 1]]
           All == UNION {[1 .. n -> Nodes] : n \in 1 .. Cardinality(Nodes)}
<1>1. /\ s \in Seq(Nodes) /\ Len(s) \in Nat /\ j \in 1 .. Len(s) /\ m \in 1 .. Len(s)
      /\ \A i \in 1 .. Len(s) : s[i] \in Nodes
  BY DEF IsOrder
<1>2. rest \in [1 .. m -> Nodes] /\ Len(rest) = m
  BY <1>1
<1>3. m <= Cardinality(Nodes)
  <2>1. \A a, b \in 1 .. m : rest[a] = rest[b] => a = b
    BY <1>1 DEF IsOrder
  <2>2. rest \in Injection(1 .. m, Nodes)
    BY <1>2, <2>1 DEF Injection, IsInjective
  <2>3. Cardinality(1 .. m) <= Cardinality(Nodes)
    BY <2>2, NodeFacts, FS_Injection
  <2>4. Cardinality(1 .. m) = m
    BY <1>1, FS_Interval
  <2> QED  BY <2>3, <2>4
<1>4. rest \in All
  BY <1>1, <1>2, <1>3, NodeFacts
<1>5. IsChain(rest, s[j])
  <2>1. rest[1] = s[j] /\ rest[m] = Last /\ Len(rest) = m
    <3>1. 1 \in 1 .. m /\ m \in 1 .. m /\ j + 1 - 1 = j /\ j + m - 1 = Len(s)
      BY <1>1
    <3>2. rest[1] = s[j + 1 - 1] /\ rest[m] = s[j + m - 1]
      BY <3>1
    <3>3. s[Len(s)] = Last
      BY DEF IsOrder
    <3> HIDE DEF rest, m
    <3> QED  BY <3>1, <3>2, <3>3, <1>2
  <2>2. ASSUME NEW i \in 1 .. m - 1
        PROVE  next_timer[rest[i]] = rest[i + 1]
    <3>1. j + i - 1 \in 1 .. Len(s) - 1 /\ (j + i - 1) + 1 = j + (i + 1) - 1
      BY <1>1
    <3>2. next_timer[s[j + i - 1]] = s[(j + i - 1) + 1]
      BY <3>1 DEF IsOrder
    <3>3. rest[i] = s[j + i - 1] /\ rest[i + 1] = s[j + (i + 1) - 1]
      BY <1>1
    <3> QED  BY <3>1, <3>2, <3>3
  <2> QED  BY <2>1, <2>2 DEF IsOrder, IsChain
<1>6. ASSUME NEW c \in All, IsChain(c, s[j])
      PROVE  c = rest
  <2>1. PICK n \in 1 .. Cardinality(Nodes) : c \in [1 .. n -> Nodes]
    OBVIOUS
  <2>2. n \in Nat /\ n >= 1 /\ Len(c) = n /\ m \in Nat /\ m >= 1
    BY <1>1, <2>1, NodeFacts
  <2>3. \A k \in 1 .. n : k <= m => c[k] = rest[k]
    <3> DEFINE T == {k \in 1 .. n : k <= m /\ c[k] # rest[k]}
    <3> SUFFICES ASSUME T # {} PROVE FALSE
      OBVIOUS
    <3>1. T \in SUBSET Nat
      BY <2>2
    <3>2. PICK k \in T : \A i \in T : k <= i
      BY <3>1, LeastNatural
    <3>3. k \in 1 .. n /\ k <= m /\ c[k] # rest[k]
      OBVIOUS
    <3>4. k # 1
      BY <1>5, <1>6, <3>3 DEF IsChain
    <3>5. k - 1 \in 1 .. n - 1 /\ k - 1 \in 1 .. m - 1 /\ k - 1 \notin T
      BY <2>2, <3>2, <3>3, <3>4
    <3>6. c[k - 1] = rest[k - 1]
      BY <2>2, <3>5
    <3>7. (k - 1) + 1 = k
      BY <2>2, <3>3
    <3>8. c[k] = next_timer[c[k - 1]]
      BY <1>6, <2>2, <3>5, <3>7 DEF IsChain
    <3>9. rest[k] = next_timer[rest[k - 1]]
      BY <1>2, <1>5, <3>5, <3>7 DEF IsChain
    <3> QED  BY <3>3, <3>6, <3>8, <3>9
  <2>4. n = m
    <3>1. CASE n < m
      <4>1. n \in 1 .. m - 1 /\ n + 1 \in 1 .. m /\ c[n] = rest[n]
        BY <2>2, <2>3, <3>1
      <4>2. next_timer[c[n]] = Null /\ next_timer[rest[n]] = rest[n + 1]
        BY <1>2, <1>5, <1>6, <2>2, <4>1 DEF IsChain
      <4> QED  BY <1>2, <4>1, <4>2, NodeFacts
    <3>2. CASE m < n
      <4>1. m \in 1 .. n - 1 /\ m + 1 \in 1 .. n /\ c[m] = rest[m]
        BY <2>2, <2>3, <3>2
      <4>2. next_timer[rest[m]] = Null /\ next_timer[c[m]] = c[m + 1]
        BY <1>2, <1>5, <1>6, <2>2, <4>1 DEF IsChain
      <4> QED  BY <2>1, <4>1, <4>2, NodeFacts
    <3> QED  BY <2>2, <3>1, <3>2
  <2> QED  BY <1>2, <2>1, <2>3, <2>4
<1>7. Chain(s[j]) = rest
  BY <1>4, <1>5, <1>6 DEF Chain
<1> QED  BY <1>2, <1>7

-----------------------------------------------------------------------------
(* The start, and the call of add_timer.                                   *)

LEMMA InitIInv == Init => IInv
<1> SUFFICES ASSUME Init PROVE IInv
  OBVIOUS
<1>1. TypeOK /\ frames \in Seq(Frames)
  <2>1. /\ jiffies = 0 /\ timer_list_head \in Nodes \cup {Null}
        /\ added \subseteq Timers /\ softirq_status \in BOOLEAN
    BY NodeFacts DEF Init
  <2>2. /\ next_timer \in [Nodes -> Nodes \cup {Null}]
        /\ expire_jiffies \in [Nodes -> Expiries \cup {Forever}]
        /\ fired \in [Timers -> 0 .. 2]
    BY DEF Init, LastExpires
  <2>3. frames \in Seq(Frames) /\ Len(frames) = 0
    BY DEF Init
  <2>4. limit \in Limits /\ limit \in Nat
    BY SoftTimerAssumption DEF Init
  <2> QED  BY <2>1, <2>2, <2>3, <2>4, TimeFacts DEF Init, TypeOK
<1>2. Quiet /\ SomeoneLooks /\ Alone
  BY NodeFacts, TimeFacts DEF Init, Quiet, SomeoneLooks, Alone, HeadDue, LastExpires, Nodes
<1>3. Ordered
  <2> DEFINE s == <<Last>>
  <2>1. s \in Seq(Nodes) /\ Len(s) = 1 /\ s[1] = Last
    BY NodeFacts
  <2>2. IsOrder(s)
    BY <2>1, NodeFacts, TimeFacts DEF Init, IsOrder, LastExpires
  <2>3. HeadAt(s, 1)
    BY <2>1 DEF Init, HeadAt
  <2> QED  BY <2>1, <2>2, <2>3 DEF Ordered
<1> QED  BY <1>1, <1>2, <1>3 DEF IInv

\* Where the walk of add_timer stops in the order s.
LEMMA WalkStops ==
    ASSUME IInv, NEW s, IsOrder(s), timer_list_head = s[1], NEW e \in Expiries
    PROVE  /\ Len(Chain(timer_list_head)) = Len(s)
           /\ \A i \in 1 .. Len(s) : Chain(timer_list_head)[i] = s[i]
           /\ TimersBefore(e) \in 0 .. Len(s) - 1
           /\ \A i \in 1 .. TimersBefore(e) : expire_jiffies[s[i]] < e
           /\ expire_jiffies[s[TimersBefore(e) + 1]] >= e
<1> DEFINE c == Chain(timer_list_head)
           T == {i \in 1 .. Len(s) : expire_jiffies[s[i]] >= e}
<1>1. /\ Len(s) \in Nat /\ Len(s) >= 1 /\ s[Len(s)] = Last
      /\ \A i \in 1 .. Len(s) : s[i] \in Nodes
  BY DEF IsOrder
<1>2. Len(c) = Len(s) /\ \A i \in 1 .. Len(s) : c[i] = s[i]
  <2>1. 1 \in 1 .. Len(s) /\ Len(s) - 1 + 1 = Len(s)
    BY <1>1
  <2>2. c = [i \in 1 .. Len(s) |-> s[1 + i - 1]] /\ Len(c) = Len(s)
    BY ZenonT(30), <2>1, ChainIs DEF IInv
  <2> QED  BY <1>1, <2>2
<1>3. e \in Nat /\ \A i \in 1 .. Len(s) : expire_jiffies[s[i]] \in Nat
  BY <1>1, TimeFacts DEF IInv, TypeOK
<1>4. Len(s) \in T
  BY <1>1, <1>3, TimeFacts DEF IInv, Quiet
<1>5. PICK m \in T : \A i \in T : m <= i
  <2>1. T \in SUBSET Nat /\ T # {}
    BY <1>1, <1>4
  <2> QED  BY <2>1, LeastNatural
<1>6. \A i \in 1 .. m - 1 : expire_jiffies[s[i]] < e
  BY <1>1, <1>3, <1>5
<1> DEFINE P(k) == /\ \A i \in 1 .. k : expire_jiffies[c[i]] < e
                   /\ expire_jiffies[c[k + 1]] >= e
<1>7. m - 1 \in 0 .. Len(c) - 1 /\ (m - 1) + 1 = m /\ P(m - 1)
  BY <1>1, <1>2, <1>5, <1>6
<1>8. TimersBefore(e) = CHOOSE k \in 0 .. Len(c) - 1 : P(k)
  BY DEF TimersBefore
<1>9. TimersBefore(e) \in 0 .. Len(c) - 1 /\ P(TimersBefore(e))
  BY <1>7, <1>8
<1> QED  BY <1>1, <1>2, <1>9

LEMMA AddStep ==
    ASSUME IInv, NEW t \in Timers, NEW e \in Expiries, add_timer(t, e)
    PROVE  IInv'
<1>1. /\ t \notin added /\ jiffies <= BootJiffies /\ frames = <<>>
      /\ added' = added \cup {t}
      /\ expire_jiffies' = [expire_jiffies EXCEPT ![t] = e]
      /\ UNCHANGED <<jiffies, softirq_status, frames, fired, fault, limit>>
  BY DEF add_timer
<1>2. t \in Nodes /\ t # Last /\ t # Null
  BY SoftTimerAssumption DEF Nodes
<1>3. PICK s \in Seq(Nodes) : IsOrder(s) /\ timer_list_head = s[1] /\ HeadAt(s, 1)
  <2>1. timer_list_head # Null
    BY <1>1 DEF IInv, Quiet
  <2>2. PICK s \in Seq(Nodes) : IsOrder(s) /\ \E j \in 1 .. Len(s) : HeadAt(s, j)
    BY <2>1 DEF IInv, Ordered
  <2>3. PICK j \in 1 .. Len(s) : HeadAt(s, j)
    BY <2>2
  <2>4. j = 1
    BY <1>1, <2>3 DEF HeadAt
  <2> QED  BY <2>2, <2>3, <2>4 DEF HeadAt
<1> DEFINE n == Len(s)
<1>4. /\ n \in Nat /\ n >= 1 /\ s[n] = Last /\ next_timer[Last] = Null
      /\ \A i \in 1 .. n : s[i] \in Nodes
      /\ \A i \in 1 .. n - 1 : s[i] \in added /\ next_timer[s[i]] = s[i + 1]
  BY <1>3 DEF IsOrder
<1>5. PICK k \in 0 .. n - 1 :
         /\ timer_list_head' = IF k = 0 THEN t ELSE timer_list_head
         /\ next_timer' = [x \in Nodes |-> IF x = t THEN s[k + 1]
                                           ELSE IF k > 0 /\ x = s[k] THEN t
                                           ELSE next_timer[x]]
         /\ \A i \in 1 .. k : expire_jiffies[s[i]] < e
         /\ expire_jiffies[s[k + 1]] >= e
  <2> DEFINE c == Chain(timer_list_head)
             m == TimersBefore(e)
  <2>1. /\ m \in 0 .. n - 1
        /\ \A i \in 1 .. n : c[i] = s[i]
        /\ \A i \in 1 .. m : expire_jiffies[s[i]] < e
        /\ expire_jiffies[s[m + 1]] >= e
    BY <1>3, WalkStops
  <2>2. /\ timer_list_head' = IF m = 0 THEN t ELSE timer_list_head
        /\ next_timer' = [x \in Nodes |-> IF x = t THEN c[m + 1]
                                          ELSE IF m > 0 /\ x = c[m] THEN t
                                          ELSE next_timer[x]]
    BY DEF add_timer
  <2>3. c[m + 1] = s[m + 1] /\ (m > 0 => c[m] = s[m])
    <3>1. m + 1 \in 1 .. n /\ (m > 0 => m \in 1 .. n)
      BY <1>4, <2>1
    <3> QED  BY <2>1, <3>1
  <2>4. next_timer' = [x \in Nodes |-> IF x = t THEN s[m + 1]
                                       ELSE IF m > 0 /\ x = s[m] THEN t
                                       ELSE next_timer[x]]
    BY <2>2, <2>3
  <2> QED  BY <2>1, <2>2, <2>4
<1>6. \A i \in 1 .. n : s[i] # t
  BY <1>1, <1>2, <1>4
<1>7. /\ expire_jiffies \in [Nodes -> Nat] /\ expire_jiffies[Last] = Forever
      /\ e \in Nat /\ e > BootJiffies /\ jiffies \in Nat
  <2>1. expire_jiffies \in [Nodes -> Expiries \cup {Forever}]
    BY DEF IInv, TypeOK
  <2>2. expire_jiffies \in [Nodes -> Nat]
    BY <2>1, TimeFacts
  <2>3. e \in Nat /\ e > BootJiffies
    BY TimeFacts
  <2>4. jiffies \in Nat
    <3>1. jiffies \in 0 .. MaxJiffies
      BY DEF IInv, TypeOK
    <3> QED  BY <3>1, TimeFacts
  <2> QED  BY <2>2, <2>3, <2>4 DEF IInv, Quiet
<1>8. PICK r \in Seq(Nodes) :
         /\ Len(r) = n + 1
         /\ \A i \in 1 .. n + 1 : r[i] = IF i <= k THEN s[i] ELSE IF i = k + 1 THEN t ELSE s[i - 1]
  <2> DEFINE q == [i \in 1 .. n + 1 |-> IF i <= k THEN s[i] ELSE IF i = k + 1 THEN t ELSE s[i - 1]]
  <2>1. q \in Seq(Nodes) /\ Len(q) = n + 1
    BY <1>2, <1>4, <1>5
  <2> QED  BY <2>1
<1>9. /\ n \in Nat /\ k \in Nat /\ k < n
      /\ \A i \in 1 .. k : r[i] = s[i]
      /\ r[k + 1] = t
      /\ \A i \in k + 2 .. n + 1 : r[i] = s[i - 1]
      /\ \A i \in 1 .. n + 1 : r[i] = IF i <= k THEN s[i] ELSE IF i = k + 1 THEN t ELSE s[i - 1]
  <2>1. n \in Nat /\ k \in Nat /\ k < n
    BY <1>4, <1>5
  <2>2. \A i \in 1 .. k : i \in 1 .. n + 1 /\ i <= k
    BY <2>1
  <2>3. k + 1 \in 1 .. n + 1 /\ ~(k + 1 <= k)
    BY <2>1
  <2>4. \A i \in k + 2 .. n + 1 : i \in 1 .. n + 1 /\ ~(i <= k) /\ i # k + 1
    BY <2>1
  <2> QED  BY <1>8, <2>1, <2>2, <2>3, <2>4
<1>10. IsOrder(r)'
  <2>1. r[n + 1] = Last /\ next_timer'[Last] = Null
    <3>1. r[n + 1] = s[n]
      BY <1>4, <1>5, <1>9
    <3>2. k > 0 => s[k] # Last
      BY <1>3, <1>4, <1>5 DEF IsOrder
    <3> QED  BY <1>2, <1>4, <1>5, <3>1, <3>2, NodeFacts
  <2>2. ASSUME NEW i \in 1 .. n
        PROVE  r[i] \in added' /\ next_timer'[r[i]] = r[i + 1]
    <3>1. CASE i < k
      <4>0. i \in 1 .. n - 1 /\ i \in 1 .. k /\ i + 1 \in 1 .. k /\ k \in 1 .. n /\ i # k
        BY <1>9, <3>1
      <4>1. i \in 1 .. n - 1 /\ r[i] = s[i] /\ r[i + 1] = s[i + 1] /\ k \in 1 .. n /\ i # k
        BY <1>9, <4>0
      <4>2. s[i] # s[k] /\ s[i] # t
        BY <1>3, <1>5, <1>6, <4>1 DEF IsOrder
      <4> QED  BY <1>1, <1>4, <1>5, <4>1, <4>2
    <3>2. CASE i = k
      <4>1. i \in 1 .. n - 1 /\ r[i] = s[i] /\ r[i + 1] = t /\ k > 0
        BY <1>4, <1>5, <1>9, <3>2
      <4> QED  BY <1>1, <1>4, <1>5, <1>6, <3>2, <4>1
    <3>3. CASE i = k + 1
      <4>1. r[i] = t /\ r[i + 1] = s[k + 1]
        BY <1>4, <1>5, <1>9, <3>3
      <4> QED  BY <1>1, <1>2, <1>5, <4>1
    <3>4. CASE i > k + 1
      <4>0. /\ i - 1 \in 1 .. n - 1 /\ i \in k + 2 .. n + 1 /\ i + 1 \in k + 2 .. n + 1
            /\ (i - 1) + 1 = (i + 1) - 1
        BY <1>9, <3>4
      <4>1. i - 1 \in 1 .. n - 1 /\ r[i] = s[i - 1] /\ r[i + 1] = s[(i - 1) + 1]
        BY <1>9, <4>0
      <4>2. k > 0 => s[k] # s[i - 1]
        BY <1>3, <1>4, <1>5, <3>4 DEF IsOrder
      <4>3. s[i - 1] # t
        BY <1>4, <1>6, <4>1
      <4> QED  BY <1>1, <1>4, <1>5, <4>1, <4>2, <4>3
    <3> QED  BY <1>4, <1>5, <3>1, <3>2, <3>3, <3>4
  <2>3. ASSUME NEW a \in 1 .. n + 1, NEW b \in 1 .. n + 1, r[a] = r[b]
        PROVE  a = b
    <3>1. \A i, j \in 1 .. n : s[i] = s[j] => i = j
      BY <1>3 DEF IsOrder
    <3>2. CASE a <= k
      <4>1. a \in 1 .. k /\ a \in 1 .. n /\ r[a] = s[a]
        BY <1>9, <3>2
      <4>2. b # k + 1
        BY <1>6, <1>9, <2>3, <4>1
      <4>3. CASE b <= k
        <5>1. b \in 1 .. k /\ b \in 1 .. n
          BY <1>9, <4>3
        <5> QED  BY <1>9, <2>3, <3>1, <4>1, <5>1
      <4>4. CASE b > k + 1
        <5>1. b \in k + 2 .. n + 1 /\ b - 1 \in 1 .. n /\ a # b - 1
          BY <1>9, <3>2, <4>4
        <5> QED  BY <1>9, <2>3, <3>1, <4>1, <5>1
      <4> QED  BY <1>9, <4>2, <4>3, <4>4
    <3>3. CASE a = k + 1
      <4>1. CASE b <= k
        <5>1. b \in 1 .. k /\ b \in 1 .. n
          BY <1>9, <4>1
        <5> QED  BY <1>6, <1>9, <2>3, <3>3, <5>1
      <4>2. CASE b > k + 1
        <5>1. b \in k + 2 .. n + 1 /\ b - 1 \in 1 .. n
          BY <1>9, <4>2
        <5> QED  BY <1>6, <1>9, <2>3, <3>3, <5>1
      <4> QED  BY <1>9, <3>3, <4>1, <4>2
    <3>4. CASE a > k + 1
      <4>1. a \in k + 2 .. n + 1 /\ a - 1 \in 1 .. n /\ r[a] = s[a - 1]
        BY <1>9, <3>4
      <4>2. b # k + 1
        BY <1>6, <1>9, <2>3, <4>1
      <4>3. CASE b <= k
        <5>1. b \in 1 .. k /\ b \in 1 .. n /\ b # a - 1
          BY <1>9, <3>4, <4>3
        <5> QED  BY <1>9, <2>3, <3>1, <4>1, <5>1
      <4>4. CASE b > k + 1
        <5>1. b \in k + 2 .. n + 1 /\ b - 1 \in 1 .. n
          BY <1>9, <4>4
        <5>2. a - 1 = b - 1
          BY <1>9, <2>3, <3>1, <4>1, <5>1
        <5> QED  BY <1>9, <5>2
      <4> QED  BY <1>9, <4>2, <4>3, <4>4
    <3> QED  BY <1>9, <3>2, <3>3, <3>4
  <2>4. ASSUME NEW a \in 1 .. n + 1, NEW b \in 1 .. n + 1, a <= b
        PROVE  expire_jiffies'[r[a]] <= expire_jiffies'[r[b]]
    <3>1. \A i, j \in 1 .. n : i <= j => expire_jiffies[s[i]] <= expire_jiffies[s[j]]
      BY <1>3 DEF IsOrder
    <3>2. \A i \in 1 .. n : expire_jiffies'[s[i]] = expire_jiffies[s[i]] /\ expire_jiffies[s[i]] \in Nat
      BY <1>1, <1>4, <1>6, <1>7
    <3>3. expire_jiffies'[t] = e
      BY <1>1, <1>2, <1>7
    <3>4. \A i \in k + 1 .. n : e <= expire_jiffies[s[i]]
      <4> TAKE i \in k + 1 .. n
      <4>1. i \in 1 .. n /\ k + 1 \in 1 .. n
        BY <1>4, <1>5
      <4>2. expire_jiffies[s[k + 1]] <= expire_jiffies[s[i]]
        BY <3>1, <4>1
      <4> QED  BY <1>5, <1>7, <3>2, <4>1, <4>2
    <3>5. CASE a <= k /\ b <= k
      <4>1. a \in 1 .. n /\ b \in 1 .. n /\ r[a] = s[a] /\ r[b] = s[b]
        BY <1>4, <1>5, <1>9, <3>5
      <4> QED  BY <2>4, <3>1, <3>2, <4>1
    <3>6. CASE a <= k /\ b = k + 1
      <4>1. a \in 1 .. n /\ a \in 1 .. k /\ r[a] = s[a] /\ r[b] = t
        BY <1>4, <1>5, <1>9, <3>6
      <4>2. expire_jiffies[s[a]] < e /\ expire_jiffies[s[a]] \in Nat
        BY <1>5, <3>2, <4>1
      <4> QED  BY <1>7, <3>2, <3>3, <4>1, <4>2
    <3>7. CASE a <= k /\ b > k + 1
      <4>1. a \in 1 .. n /\ b - 1 \in 1 .. n /\ a <= b - 1 /\ r[a] = s[a] /\ r[b] = s[b - 1]
        BY <1>4, <1>5, <1>9, <3>7
      <4> QED  BY <3>1, <3>2, <4>1
    <3>8. CASE a = k + 1 /\ b = k + 1
      <4>1. r[a] = t /\ r[b] = t
        BY <1>4, <1>5, <1>9, <3>8
      <4> QED  BY <1>7, <3>3, <4>1
    <3>9. CASE a = k + 1 /\ b > k + 1
      <4>0. b - 1 \in k + 1 .. n /\ b - 1 \in 1 .. n /\ b \in k + 2 .. n + 1
        BY <1>9, <3>9
      <4>1. b - 1 \in k + 1 .. n /\ b - 1 \in 1 .. n /\ r[a] = t /\ r[b] = s[b - 1]
        BY <1>9, <3>9, <4>0
      <4> QED  BY <3>2, <3>3, <3>4, <4>1
    <3>10. CASE a > k + 1
      <4>1. a - 1 \in 1 .. n /\ b - 1 \in 1 .. n /\ a - 1 <= b - 1 /\ r[a] = s[a - 1] /\ r[b] = s[b - 1]
        BY <1>4, <1>5, <1>9, <2>4, <3>10
      <4> QED  BY <3>1, <3>2, <4>1
    <3> QED  BY <1>4, <1>5, <2>4, <3>5, <3>6, <3>7, <3>8, <3>9, <3>10
  <2>5. ASSUME NEW u \in added'
        PROVE  \E i \in 1 .. n : r[i] = u
    <3>1. CASE u = t
      <4>1. k + 1 \in 1 .. n /\ r[k + 1] = t
        BY <1>9
      <4> QED  BY <3>1, <4>1
    <3>2. CASE u # t
      <4>1. PICK i \in 1 .. n - 1 : s[i] = u
        BY <1>1, <1>3, <2>5, <3>2 DEF IsOrder
      <4>2. CASE i <= k
        BY <1>4, <1>5, <1>9, <4>1, <4>2
      <4>3. CASE i > k
        <5>1. i + 1 \in 1 .. n /\ i + 1 \in 1 .. n + 1 /\ ~(i + 1 <= k) /\ i + 1 # k + 1 /\ (i + 1) - 1 = i
          BY <1>4, <1>5, <4>1, <4>3
        <5>2. r[i + 1] = s[i]
          BY <1>9, <5>1
        <5> QED  BY <4>1, <5>1, <5>2
      <4> QED  BY <1>4, <1>5, <4>1, <4>2, <4>3
    <3> QED  BY <3>1, <3>2
  <2>6. r \in Seq(Nodes) /\ Len(r) = n + 1 /\ Len(r) - 1 = n /\ Len(r) >= 1
    BY <1>4, <1>8
  <2>7. \A i \in 1 .. Len(r) - 1 : r[i] \in added' /\ next_timer'[r[i]] = r[i + 1]
    BY <2>2, <2>6
  <2>8. \A a, b \in 1 .. Len(r) : r[a] = r[b] => a = b
    BY <2>3, <2>6
  <2>9. \A a, b \in 1 .. Len(r) : a <= b => expire_jiffies'[r[a]] <= expire_jiffies'[r[b]]
    BY <2>4, <2>6
  <2>10. \A u \in added' : \E i \in 1 .. Len(r) - 1 : r[i] = u
    BY <2>5, <2>6
  <2> QED  BY <2>1, <2>6, <2>7, <2>8, <2>9, <2>10 DEF IsOrder
<1>11. HeadAt(r, 1)'
  <2>1. r[1] = IF k = 0 THEN t ELSE s[1]
    BY <1>4, <1>5, <1>9
  <2>2. ASSUME limit = 1, NEW i \in 1 .. n
        PROVE  fired[r[i]] = 0
    <3>1. \A m \in 1 .. n - 1 : fired[s[m]] = 0
      BY <1>1, <1>3, <1>4, <2>2 DEF HeadAt, Midway
    <3>2. fired[t] = 0
      BY <1>1 DEF IInv, Quiet
    <3>3. r[i] = t \/ \E m \in 1 .. n - 1 : r[i] = s[m]
      BY SMTT(30), <1>4, <1>5, <1>9
    <3> QED  BY <3>1, <3>2, <3>3
  <2>3. ~Midway'
    BY <1>1 DEF Midway
  <2>4. timer_list_head' = r[1]
    BY <1>3, <1>5, <2>1
  <2> QED  BY <1>1, <1>4, <1>8, <2>2, <2>3, <2>4 DEF HeadAt
<1>12. Ordered'
  <2>1. 1 \in 1 .. Len(r)
    BY <1>4, <1>8
  <2> QED  BY <1>8, <1>10, <1>11, <2>1 DEF Ordered
<1>13. TypeOK' /\ (frames \in Seq(Frames))'
  <2>1. next_timer' \in [Nodes -> Nodes \cup {Null}]
    <3>1. s[k + 1] \in Nodes
      BY <1>4, <1>5
    <3> QED  BY <1>2, <1>5, <3>1 DEF IInv, TypeOK
  <2>2. timer_list_head' \in Nodes \cup {Null}
    BY <1>2, <1>5 DEF IInv, TypeOK
  <2>3. expire_jiffies' \in [Nodes -> Expiries \cup {Forever}]
    BY <1>1 DEF IInv, TypeOK
  <2> QED  BY <1>1, <2>1, <2>2, <2>3 DEF IInv, TypeOK
<1>14. Quiet'
  <2>1. timer_list_head' # Null
    BY <1>1, <1>2, <1>5 DEF IInv, Quiet
  <2>2. \A u \in added' : expire_jiffies'[u] \in Expiries
    BY <1>1, <1>2 DEF IInv, Quiet, TypeOK, Nodes
  <2>3. expire_jiffies'[Last] = Forever
    BY <1>1, <1>2, <1>7, NodeFacts
  <2> QED  BY <1>1, <2>1, <2>2, <2>3 DEF IInv, Quiet
<1>15. expire_jiffies'[timer_list_head'] > jiffies
  <2>1. timer_list_head' \in added' \cup {Last}
    <3>1. s[1] \in added \cup {Last}
      BY <1>4
    <3> QED  BY <1>1, <1>3, <1>5, <3>1
  <2>2. \A x \in added' \cup {Last} : expire_jiffies'[x] \in Nat /\ expire_jiffies'[x] > BootJiffies
    BY <1>14, TimeFacts DEF Quiet
  <2> QED  BY <1>1, <1>7, <2>1, <2>2, TimeFacts
<1>16. SomeoneLooks'
  <2>1. expire_jiffies'[timer_list_head'] \in Nat
    <3>1. expire_jiffies' \in [Nodes -> Expiries \cup {Forever}]
      BY <1>13 DEF TypeOK
    <3>2. timer_list_head' \in Nodes
      BY <1>2, <1>3, <1>4, <1>5
    <3> QED  BY <3>1, <3>2, TimeFacts
  <2>2. jiffies' = jiffies
    BY <1>1
  <2>3. ~HeadDue(jiffies)'
    BY <1>7, <1>15, <2>1, <2>2 DEF HeadDue
  <2> QED  BY <2>3 DEF SomeoneLooks
<1>17. Alone'
  BY <1>1, <1>2, <1>5 DEF IInv, Alone
<1> QED  BY <1>12, <1>13, <1>14, <1>16, <1>17 DEF IInv

-----------------------------------------------------------------------------
(* Interrupts and do_softirq.                                              *)

\* A step that leaves the list alone keeps the order and the place of the head.
LEMMA OrderedStill ==
    ASSUME IInv, jiffies' <= BootJiffies => jiffies <= BootJiffies,
           UNCHANGED <<timer_list_head, next_timer, expire_jiffies, added, fired, limit>>,
           limit = 1 => (Midway' <=> Midway)
    PROVE  Ordered'
<1>1. PICK s \in Seq(Nodes) : IsOrder(s) /\ (timer_list_head = Null \/ \E j \in 1 .. Len(s) : HeadAt(s, j))
  BY DEF IInv, Ordered
<1>2. IsOrder(s)'
  BY <1>1 DEF IsOrder
<1>3. ASSUME NEW j \in 1 .. Len(s), HeadAt(s, j)
      PROVE  HeadAt(s, j)'
  <2>1. timer_list_head' = s[j] /\ (jiffies' <= BootJiffies => j = 1)
    BY <1>3 DEF HeadAt
  <2>2. ASSUME limit' = 1, NEW i \in 1 .. Len(s) - 1
        PROVE  fired'[s[i]] = IF i < j \/ (i = j /\ Midway') THEN 1 ELSE 0
    BY <1>3, <2>2 DEF HeadAt
  <2> QED  BY <2>1, <2>2 DEF HeadAt
<1> QED  BY <1>1, <1>2, <1>3 DEF Ordered

\* The frames of a step of the innermost run.
LEMMA GoesFacts ==
    ASSUME IInv, NEW from, NEW to \in PCs, Goes(from, to)
    PROVE  /\ fault = "none" /\ frames # <<>> /\ Top.pc = from
           /\ Len(frames) \in Nat \ {0} /\ Len(frames') = Len(frames) /\ frames' # <<>>
           /\ frames' \in Seq(Frames)
           /\ Top'.pc = to /\ Top'.timer = Top.timer
           /\ \A i \in 1 .. Len(frames) - 1 : frames'[i] = frames[i]
<1>1. frames \in Seq(Frames) /\ frames # <<>> /\ fault = "none" /\ Top.pc = from
  BY DEF IInv, Goes
<1>2. Len(frames) \in Nat \ {0} /\ \A i \in 1 .. Len(frames) : frames[i] \in Frames
  BY <1>1
<1>3. frames' = [frames EXCEPT ![Len(frames)].pc = to]
  BY DEF Goes
<1>4. [frames[Len(frames)] EXCEPT !.pc = to] \in Frames
  BY <1>2 DEF Frames
<1>5. Len(frames') = Len(frames) /\ frames' \in Seq(Frames)
  BY <1>1, <1>2, <1>3, <1>4
<1>6. frames'[Len(frames)] = [frames[Len(frames)] EXCEPT !.pc = to]
  BY <1>1, <1>2, <1>3
<1>7. Top'.pc = to /\ Top'.timer = Top.timer
  BY <1>2, <1>5, <1>6 DEF Top, Frames
<1> QED  BY <1>1, <1>2, <1>3, <1>5, <1>7

\* A Looping frame below stays; the rest is about the innermost one.
LEMMA LooksStill ==
    ASSUME IInv, NEW from, NEW to \in PCs, Goes(from, to),
           UNCHANGED <<jiffies, timer_list_head, expire_jiffies, fault>>,
           \/ to \in Looping
           \/ from \notin Looping
           \/ ~HeadDue(jiffies)
    PROVE  SomeoneLooks'
<1> SUFFICES ASSUME fault' = "none", timer_list_head' # Null, HeadDue(jiffies)'
             PROVE  \E i \in 1 .. Len(frames') : frames'[i].pc \in Looping
  BY DEF SomeoneLooks
<1>1. HeadDue(jiffies)
  BY DEF HeadDue
<1>2. PICK i \in 1 .. Len(frames) : frames[i].pc \in Looping
  BY <1>1 DEF IInv, SomeoneLooks
<1>3. CASE i = Len(frames)
  <2>1. from \in Looping
    BY <1>2, <1>3, GoesFacts DEF Top
  <2>2. frames'[Len(frames')].pc \in Looping /\ Len(frames') \in 1 .. Len(frames')
    BY <1>1, <2>1, GoesFacts DEF Top
  <2> QED  BY <2>2
<1>4. CASE i # Len(frames)
  <2>1. i \in 1 .. Len(frames) - 1 /\ i \in 1 .. Len(frames')
    BY <1>2, <1>4, GoesFacts
  <2>2. frames'[i] = frames[i]
    BY <2>1, GoesFacts
  <2> QED  BY <1>2, <2>1, <2>2
<1> QED  BY <1>3, <1>4

\* A state in which a run is under way is later than the last add_timer.
LEMMA AfterBoot ==
    ASSUME IInv, frames # <<>> \/ softirq_status
    PROVE  ~(jiffies <= BootJiffies)
<1> QED  BY DEF IInv, Quiet, TypeOK

\* limit = 1 leaves room for one frame.
LEMMA OneFrame ==
    ASSUME IInv, limit = 1, MayInterrupt
    PROVE  frames = <<>>
<1>1. frames \in Seq(Frames) /\ Len(frames) < 1
  BY DEF IInv, MayInterrupt
<1> QED  BY <1>1

LEMMA TypeOfFrames ==
    ASSUME frames' \in Seq(Frames)
    PROVE  \A i \in 1 .. Len(frames') :
              /\ frames'[i].pc \in {"while", "call", "delete", "compare", "unlink", "clear", "return"}
              /\ frames'[i].timer \in Nodes \cup {Null}
<1> TAKE i \in 1 .. Len(frames')
<1>1. frames'[i] \in Frames
  OBVIOUS
<1> QED  BY <1>1 DEF Frames, PCs

LEMMA InterruptStep ==
    ASSUME IInv, PIT_handler \/ OtherInterrupt
    PROVE  IInv'
<1> DEFINE new == [pc |-> "while", timer |-> Null]
<1>1. /\ MayInterrupt
      /\ UNCHANGED <<timer_list_head, next_timer, expire_jiffies, added, fired, fault, limit>>
      /\ jiffies \in Nat /\ jiffies' \in Nat /\ jiffies' >= jiffies /\ jiffies' <= MaxJiffies
  <2>1. jiffies \in 0 .. MaxJiffies /\ MaxJiffies \in Nat
    BY TimeFacts DEF IInv, TypeOK
  <2> QED  BY <2>1 DEF PIT_handler, OtherInterrupt
<1>2. /\ frames' = IF softirq_status' THEN Append(frames, new) ELSE frames
      /\ softirq_status' \in BOOLEAN
  BY DEF PIT_handler, OtherInterrupt, ret_from_intr, IInv, TypeOK
<1>3. frames \in Seq(Frames) /\ new \in Frames /\ Len(frames) < limit /\ limit \in Nat
  <2>1. limit \in Limits
    BY DEF IInv, TypeOK
  <2> QED  BY <1>1, <2>1, SoftTimerAssumption DEF IInv, MayInterrupt, Frames, PCs
<1>4. /\ frames' \in Seq(Frames) /\ Len(frames') <= limit
      /\ \A i \in 1 .. Len(frames) : i \in 1 .. Len(frames') /\ frames'[i] = frames[i]
      /\ softirq_status' => /\ Len(frames') = Len(frames) + 1 /\ frames' # <<>>
                            /\ frames'[Len(frames')] = new
  <2>1. CASE softirq_status'
    BY <1>2, <1>3, <2>1
  <2>2. CASE ~softirq_status'
    BY <1>2, <1>3, <2>2
  <2> QED  BY <2>1, <2>2
<1>5. TypeOK' /\ (frames \in Seq(Frames))'
  <2>1. jiffies' \in 0 .. MaxJiffies
    BY <1>1, TimeFacts
  <2>2. Len(frames') <= limit'
    BY <1>1, <1>4
  <2> QED  BY <1>1, <1>2, <1>4, <2>1, <2>2, TypeOfFrames DEF IInv, TypeOK
<1>6. softirq_status' => ~(jiffies' <= BootJiffies)
  <2>1. CASE OtherInterrupt
    BY <1>1, <2>1, AfterBoot DEF OtherInterrupt
  <2>2. CASE PIT_handler /\ jiffies <= BootJiffies
    <3>1. softirq_status = FALSE /\ timer_list_head # Null
      BY <2>2 DEF IInv, Quiet
    <3>2. softirq_status' => expire_jiffies[timer_list_head] <= jiffies'
      BY <2>2, <3>1 DEF PIT_handler, HeadDue
    <3>3. PICK s \in Seq(Nodes) : IsOrder(s) /\ \E j \in 1 .. Len(s) : HeadAt(s, j)
      BY <3>1 DEF IInv, Ordered
    <3>4. timer_list_head \in added \cup {Last}
      <4>1. PICK j \in 1 .. Len(s) : timer_list_head = s[j]
        BY <3>3 DEF HeadAt
      <4>2. j = Len(s) \/ j \in 1 .. Len(s) - 1
        BY <3>3
      <4> QED  BY <3>3, <4>1, <4>2 DEF IsOrder
    <3>5. /\ expire_jiffies[timer_list_head] \in Nat
          /\ \/ expire_jiffies[timer_list_head] > BootJiffies
             \/ expire_jiffies[timer_list_head] > jiffies'
      <4>1. CASE timer_list_head \in added
        <5>1. expire_jiffies[timer_list_head] \in Expiries
          BY <4>1 DEF IInv, Quiet
        <5> QED  BY <5>1, TimeFacts
      <4>2. CASE timer_list_head = Last
        <5>1. expire_jiffies[timer_list_head] = Forever
          BY <4>2 DEF IInv, Quiet
        <5> QED  BY <1>1, <5>1, TimeFacts
      <4> QED  BY <3>4, <4>1, <4>2
    <3> QED  BY <1>1, <3>2, <3>5, TimeFacts
  <2>3. CASE ~(jiffies <= BootJiffies)
    BY <1>1, <2>3, TimeFacts
  <2> QED  BY <2>1, <2>2, <2>3
<1>7. Quiet'
  BY <1>1, <1>2, <1>6, TimeFacts DEF IInv, Quiet
<1>8. SomeoneLooks'
  <2> SUFFICES ASSUME fault' = "none", timer_list_head' # Null, HeadDue(jiffies)'
               PROVE  \E i \in 1 .. Len(frames') : frames'[i].pc \in Looping
    BY DEF SomeoneLooks
  <2>1. CASE softirq_status'
    <3>1. Len(frames') \in 1 .. Len(frames') /\ new.pc \in Looping
      BY <1>3, <1>4, <2>1 DEF Looping
    <3> QED  BY <1>4, <2>1, <3>1
  <2>2. CASE ~softirq_status'
    <3>1. HeadDue(jiffies)
      BY <1>1, <2>2 DEF PIT_handler, OtherInterrupt, HeadDue
    <3>2. PICK i \in 1 .. Len(frames) : frames[i].pc \in Looping
      BY <1>1, <3>1 DEF IInv, SomeoneLooks
    <3> QED  BY <1>4, <3>2
  <2> QED  BY <2>1, <2>2
<1>9. limit = 1 => frames = <<>>
  BY <1>1, OneFrame
<1>10. Alone'
  <2> SUFFICES ASSUME limit = 1
               PROVE  /\ fault' = "none" /\ timer_list_head' # Null
                      /\ frames' # <<>> => Top'.pc = "while"
    BY <1>1 DEF Alone
  <2>1. fault' = "none" /\ timer_list_head' # Null
    BY <1>1 DEF IInv, Alone
  <2>2. ASSUME frames' # <<>> PROVE Top'.pc = "while"
    <3>1. softirq_status'
      BY <1>2, <1>9, <2>2
    <3> QED  BY <1>4, <3>1 DEF Top
  <2> QED  BY <2>1, <2>2
<1>11. Ordered'
  <2>1. limit = 1 => ~Midway /\ ~Midway'
    <3> SUFFICES ASSUME limit = 1 PROVE ~Midway /\ ~Midway'
      OBVIOUS
    <3>1. ~Midway
      BY <1>9 DEF Midway
    <3>2. CASE softirq_status'
      BY <1>4, <3>2 DEF Midway, Top
    <3>3. CASE ~softirq_status'
      BY <1>2, <1>9, <3>3 DEF Midway
    <3> QED  BY <3>1, <3>2, <3>3
  <2>2. jiffies' <= BootJiffies => jiffies <= BootJiffies
    BY <1>1, TimeFacts
  <2> QED  BY <1>1, <2>1, <2>2, OrderedStill
<1> QED  BY <1>5, <1>7, <1>8, <1>10, <1>11 DEF IInv

\* A step of do_timer that only moves its frame on.
LEMMA QuietStill ==
    ASSUME IInv, frames # <<>>,
           UNCHANGED <<jiffies, expire_jiffies, added, fired>>
    PROVE  Quiet'
<1> QED  BY AfterBoot DEF IInv, Quiet

LEMMA DueTestStep ==
    ASSUME IInv, DueTest
    PROVE  IInv'
<1> DEFINE to == IF HeadDue(jiffies) THEN "call" ELSE "clear"
<1>1. /\ timer_list_head # Null /\ Goes("while", to) /\ to \in PCs
      /\ UNCHANGED <<jiffies, timer_list_head, next_timer, expire_jiffies, added,
                     softirq_status, fired, fault, limit>>
  BY DEF DueTest, PCs
<1>2. /\ frames # <<>> /\ Top.pc = "while" /\ frames' # <<>> /\ Top'.pc = to
      /\ frames' \in Seq(Frames) /\ Len(frames') = Len(frames)
  BY <1>1, GoesFacts
<1>3. TypeOK'
  BY <1>1, <1>2, TypeOfFrames DEF IInv, TypeOK
<1>4. Quiet'
  BY <1>1, <1>2, QuietStill
<1>5. SomeoneLooks'
  BY <1>1, LooksStill DEF Looping
<1>6. Alone'
  BY <1>1, <1>2 DEF IInv, Alone, HeadDue
<1>7. Ordered'
  BY <1>1, <1>2, OrderedStill DEF Midway
<1> QED  BY <1>2, <1>3, <1>4, <1>5, <1>6, <1>7 DEF IInv

LEMMA CallStep ==
    ASSUME IInv, CallFunction
    PROVE  IInv'
<1>1. /\ timer_list_head # Null /\ Goes("call", "delete") /\ "delete" \in PCs
      /\ UNCHANGED <<jiffies, timer_list_head, next_timer, expire_jiffies, added,
                     softirq_status, limit>>
      /\ IF timer_list_head = Last
         THEN fault' = "call of NULL" /\ UNCHANGED fired
         ELSE fired' = [fired EXCEPT ![timer_list_head] = IF @ < 2 THEN @ + 1 ELSE @] /\ UNCHANGED fault
  BY DEF CallFunction, PCs
<1>2. /\ frames # <<>> /\ Top.pc = "call" /\ frames' # <<>> /\ Top'.pc = "delete"
      /\ frames' \in Seq(Frames) /\ Len(frames') = Len(frames)
  BY <1>1, GoesFacts
<1>3. fired' \in [Timers -> 0 .. 2]
  <2>1. CASE timer_list_head = Last
    BY <1>1, <2>1 DEF IInv, TypeOK
  <2>2. CASE timer_list_head # Last
    <3>1. timer_list_head \in Timers /\ fired[timer_list_head] \in 0 .. 2
      BY <1>1, <2>2 DEF IInv, TypeOK, Nodes
    <3>2. (IF fired[timer_list_head] < 2 THEN fired[timer_list_head] + 1 ELSE fired[timer_list_head]) \in 0 .. 2
      BY <3>1
    <3> QED  BY <1>1, <2>2, <3>1, <3>2 DEF IInv, TypeOK
  <2> QED  BY <2>1, <2>2
<1>4. TypeOK'
  BY <1>1, <1>2, <1>3, TypeOfFrames DEF IInv, TypeOK
<1>5. PICK s \in Seq(Nodes) : IsOrder(s) /\ \E j \in 1 .. Len(s) : HeadAt(s, j)
  BY <1>1 DEF IInv, Ordered
<1>6. PICK j \in 1 .. Len(s) : HeadAt(s, j)
  BY <1>5
<1>7. Len(s) \in Nat /\ timer_list_head = s[j] /\ (timer_list_head # Last => j \in 1 .. Len(s) - 1)
  BY <1>5, <1>6 DEF IsOrder, HeadAt
<1>8. timer_list_head # Last => timer_list_head \in added /\ timer_list_head \in Timers
  BY <1>5, <1>7 DEF IsOrder, IInv, TypeOK
<1>9. ~(jiffies <= BootJiffies)
  BY <1>2, AfterBoot
<1>10. Quiet'
  <2>1. ASSUME NEW t \in Timers \ added
        PROVE  fired'[t] = 0
    BY <1>1, <1>8 DEF IInv, Quiet, TypeOK
  <2> QED  BY <1>1, <1>9, <2>1 DEF IInv, Quiet
<1>11. SomeoneLooks'
  <2>1. CASE timer_list_head = Last
    BY <1>1, <2>1 DEF SomeoneLooks
  <2>2. CASE timer_list_head # Last
    BY <1>1, <2>2, LooksStill DEF Looping
  <2> QED  BY <2>1, <2>2
<1>12. limit = 1 => timer_list_head # Last
  <2> SUFFICES ASSUME limit = 1 PROVE timer_list_head # Last
    OBVIOUS
  <2>1. expire_jiffies[timer_list_head] <= jiffies
    BY <1>2 DEF IInv, Alone, HeadDue
  <2>2. jiffies \in Nat /\ jiffies <= MaxJiffies
    <3>1. jiffies \in 0 .. MaxJiffies
      BY DEF IInv, TypeOK
    <3> QED  BY <3>1, TimeFacts
  <2>3. expire_jiffies[Last] = Forever
    BY DEF IInv, Quiet
  <2> QED  BY <2>1, <2>2, <2>3, TimeFacts
<1>13. Alone'
  BY <1>1, <1>2, <1>12 DEF IInv, Alone, HeadDue
<1>14. Ordered'
  <2>1. IsOrder(s)'
    BY <1>1, <1>5 DEF IsOrder
  <2>2. ASSUME limit = 1, NEW i \in 1 .. Len(s) - 1
        PROVE  fired'[s[i]] = IF i < j \/ (i = j /\ Midway') THEN 1 ELSE 0
    <3>1. ~Midway /\ Midway'
      BY <1>2 DEF Midway
    <3>2. /\ fired[s[i]] = IF i < j THEN 1 ELSE 0
          /\ fired[s[j]] = 0
      BY <1>6, <1>7, <1>12, <2>2, <3>1 DEF HeadAt
    <3>3. fired' = [fired EXCEPT ![s[j]] = 1]
      <4>1. (IF fired[s[j]] < 2 THEN fired[s[j]] + 1 ELSE fired[s[j]]) = 1
        BY <3>2
      <4> QED  BY <1>1, <1>7, <1>12, <2>2, <4>1
    <3>4. s[i] \in Timers /\ s[j] \in Timers /\ (s[i] = s[j] <=> i = j)
      <4>1. s[j] \in Timers /\ j \in 1 .. Len(s) /\ i \in 1 .. Len(s)
        BY <1>7, <1>8, <1>12, <2>2
      <4>2. s[i] \in added /\ added \subseteq Timers
        BY <1>5, <2>2 DEF IsOrder, IInv, TypeOK
      <4>3. s[i] = s[j] => i = j
        BY <1>5, <4>1 DEF IsOrder
      <4> QED  BY <4>1, <4>2, <4>3
    <3> QED  BY <1>7, <3>1, <3>2, <3>3, <3>4 DEF IInv, TypeOK
  <2>3. HeadAt(s, j)'
    BY <1>1, <1>6, <1>9, <2>2 DEF HeadAt
  <2> QED  BY <2>1, <2>3 DEF Ordered
<1> QED  BY <1>2, <1>4, <1>10, <1>11, <1>13, <1>14 DEF IInv

LEMMA PassStep ==
    ASSUME IInv, PassHead
    PROVE  IInv'
<1> DEFINE new == [pc |-> "compare", timer |-> timer_list_head]
<1>1. /\ fault = "none" /\ frames # <<>> /\ Top.pc = "delete"
      /\ frames' = [frames EXCEPT ![Len(frames)] = new]
      /\ UNCHANGED <<jiffies, timer_list_head, next_timer, expire_jiffies, added,
                     softirq_status, fired, fault, limit>>
  BY DEF PassHead
<1>2. frames \in Seq(Frames) /\ new \in Frames /\ Len(frames) \in Nat \ {0}
  BY <1>1 DEF IInv, TypeOK, Frames, PCs
<1>3. /\ frames' \in Seq(Frames) /\ Len(frames') = Len(frames) /\ frames' # <<>>
      /\ frames'[Len(frames)] = new
      /\ \A i \in 1 .. Len(frames) - 1 : frames'[i] = frames[i]
  BY <1>1, <1>2
<1>4. Top' = new
  BY <1>2, <1>3 DEF Top
<1>5. TypeOK'
  BY <1>1, <1>3, TypeOfFrames DEF IInv, TypeOK
<1>6. Quiet'
  BY <1>1, QuietStill
<1>7. SomeoneLooks'
  <2> SUFFICES \E i \in 1 .. Len(frames') : frames'[i].pc \in Looping
    BY DEF SomeoneLooks
  <2>1. Len(frames') \in 1 .. Len(frames')
    BY <1>2, <1>3
  <2> QED  BY <1>3, <2>1 DEF Looping
<1>8. Alone'
  BY <1>1, <1>4 DEF IInv, Alone, HeadDue
<1>9. Ordered'
  BY <1>1, <1>3, <1>4, OrderedStill DEF Midway
<1> QED  BY <1>3, <1>5, <1>6, <1>7, <1>8, <1>9 DEF IInv

LEMMA DeleteStep ==
    ASSUME IInv, DeleteTests
    PROVE  IInv'
<1>1. /\ frames # <<>> /\ Top.pc = "compare" /\ frames' # <<>>
      /\ frames' \in Seq(Frames) /\ Len(frames') = Len(frames)
      /\ UNCHANGED <<jiffies, timer_list_head, next_timer, expire_jiffies, added,
                     softirq_status, fired, limit>>
  <2>1. Goes("compare", "while") \/ Goes("compare", "unlink")
    BY DEF DeleteTests
  <2>2. "while" \in PCs /\ "unlink" \in PCs
    BY DEF PCs
  <2>3. UNCHANGED <<jiffies, timer_list_head, next_timer, expire_jiffies, added,
                    softirq_status, fired, limit>>
    BY DEF DeleteTests
  <2> QED  BY <2>1, <2>2, <2>3, GoesFacts
<1>2. TypeOK'
  BY <1>1, TypeOfFrames DEF DeleteTests, IInv, TypeOK
<1>3. Quiet'
  BY <1>1, QuietStill
<1>4. CASE Top.timer = timer_list_head /\ timer_list_head # Last
  <2>1. Goes("compare", "unlink") /\ UNCHANGED fault /\ "unlink" \in PCs
    BY <1>4 DEF DeleteTests, PCs
  <2>2. Top'.pc = "unlink" /\ Top'.timer = Top.timer
    BY <2>1, GoesFacts
  <2>3. SomeoneLooks'
    BY <1>1, <2>1, LooksStill DEF Looping
  <2>4. Alone'
    BY <1>1, <1>4, <2>1, <2>2 DEF IInv, Alone, HeadDue
  <2>5. Ordered'
    BY <1>1, <2>2, OrderedStill DEF Midway
  <2> QED  BY <1>1, <1>2, <1>3, <2>3, <2>4, <2>5 DEF IInv
<1>5. CASE ~(Top.timer = timer_list_head /\ timer_list_head # Last)
  <2>1. Goes("compare", "while") /\ "while" \in PCs
    BY <1>5 DEF DeleteTests, PCs
  <2>2. limit # 1
    <3> SUFFICES ASSUME limit = 1 PROVE FALSE
      OBVIOUS
    <3>1. HeadDue(jiffies) /\ Top.timer = timer_list_head
      BY <1>1 DEF IInv, Alone
    <3>2. timer_list_head = Last
      BY <1>5, <3>1
    <3>3. Forever <= jiffies /\ jiffies \in 0 .. MaxJiffies
      BY <3>1, <3>2 DEF HeadDue, IInv, Quiet, TypeOK
    <3> QED  BY <3>3, TimeFacts
  <2>3. SomeoneLooks'
    <3> SUFFICES \E i \in 1 .. Len(frames') : frames'[i].pc \in Looping
      BY DEF SomeoneLooks
    <3>1. Top'.pc = "while" /\ Len(frames') \in 1 .. Len(frames')
      BY <1>1, <2>1, GoesFacts
    <3> QED  BY <3>1 DEF Looping, Top
  <2>4. Alone'
    BY <1>1, <2>2 DEF Alone
  <2>5. Ordered'
    BY <1>1, <2>2, OrderedStill
  <2> QED  BY <1>1, <1>2, <1>3, <2>3, <2>4, <2>5 DEF IInv
<1> QED  BY <1>4, <1>5

LEMMA UnlinkStep ==
    ASSUME IInv, Unlink
    PROVE  IInv'
<1>1. /\ timer_list_head # Null /\ Goes("unlink", "while") /\ "while" \in PCs
      /\ timer_list_head' = next_timer[timer_list_head]
      /\ UNCHANGED <<jiffies, next_timer, expire_jiffies, added, softirq_status, fired,
                     fault, limit>>
  BY DEF Unlink, PCs, AfterUnlink, HeadRemoved
<1>2. /\ frames # <<>> /\ Top.pc = "unlink" /\ frames' # <<>> /\ Top'.pc = "while"
      /\ frames' \in Seq(Frames) /\ Len(frames') = Len(frames) /\ Len(frames) \in Nat \ {0}
      /\ fault = "none"
  BY <1>1, GoesFacts
<1>3. TypeOK'
  BY <1>1, <1>2, TypeOfFrames DEF IInv, TypeOK
<1>4. ~(jiffies <= BootJiffies)
  BY <1>2, AfterBoot
<1>5. Quiet'
  BY <1>1, <1>4 DEF IInv, Quiet
<1>6. SomeoneLooks'
  <2>1. Len(frames') \in 1 .. Len(frames') /\ frames'[Len(frames')].pc = "while"
    BY <1>2 DEF Top
  <2> QED  BY <2>1 DEF SomeoneLooks, Looping
<1>7. PICK s \in Seq(Nodes) : IsOrder(s) /\ \E j \in 1 .. Len(s) : HeadAt(s, j)
  BY <1>1 DEF IInv, Ordered
<1>8. PICK j \in 1 .. Len(s) : HeadAt(s, j)
  BY <1>7
<1>9. Len(s) \in Nat /\ timer_list_head = s[j] /\ s[Len(s)] = Last
  BY <1>7, <1>8 DEF IsOrder, HeadAt
<1>10. IsOrder(s)'
  BY <1>1, <1>7 DEF IsOrder
<1>11. limit = 1 => timer_list_head # Last
  <2> SUFFICES ASSUME limit = 1, timer_list_head = Last PROVE FALSE
    OBVIOUS
  <2>1. expire_jiffies[Last] <= jiffies /\ expire_jiffies[Last] = Forever /\ jiffies \in 0 .. MaxJiffies
    BY <1>2 DEF IInv, Alone, HeadDue, Quiet, TypeOK
  <2> QED  BY <2>1, TimeFacts
<1>12. CASE j = Len(s)
  <2>1. timer_list_head' = Null /\ limit # 1
    BY <1>1, <1>7, <1>9, <1>11, <1>12 DEF IsOrder
  <2> QED  BY <1>1, <1>2, <1>3, <1>5, <1>6, <1>10, <2>1 DEF IInv, Alone, Ordered
<1>13. CASE j # Len(s)
  <2>1. j \in 1 .. Len(s) - 1 /\ j + 1 \in 1 .. Len(s)
    BY <1>9, <1>13
  <2>2. timer_list_head' = s[j + 1] /\ s[j + 1] \in Nodes
    BY <1>1, <1>7, <1>9, <2>1 DEF IsOrder
  <2>3. ASSUME limit = 1, NEW i \in 1 .. Len(s) - 1
        PROVE  fired[s[i]] = IF i < j + 1 \/ (i = j + 1 /\ Midway') THEN 1 ELSE 0
    <3>1. Midway /\ ~Midway'
      BY <1>2 DEF Midway
    <3>2. fired[s[i]] = IF i < j \/ i = j THEN 1 ELSE 0
      BY <1>8, <2>3, <3>1 DEF HeadAt
    <3> QED  BY <1>9, <2>1, <3>1, <3>2
  <2>4. HeadAt(s, j + 1)'
    BY <1>1, <1>4, <2>2, <2>3 DEF HeadAt
  <2>5. Ordered'
    BY <1>10, <2>1, <2>4 DEF Ordered
  <2>6. Alone'
    BY <1>1, <1>2, <2>2, NodeFacts DEF IInv, Alone
  <2> QED  BY <1>2, <1>3, <1>5, <1>6, <2>5, <2>6 DEF IInv
<1> QED  BY <1>12, <1>13

LEMMA NullStep ==
    ASSUME IInv, NullHead
    PROVE  IInv'
<1>1. /\ timer_list_head = Null /\ fault' = "access through NULL"
      /\ UNCHANGED <<jiffies, timer_list_head, next_timer, expire_jiffies, added,
                     softirq_status, frames, fired, limit>>
  BY DEF NullHead
<1>2. limit # 1
  BY <1>1 DEF IInv, Alone
<1>3. TypeOK' /\ (frames \in Seq(Frames))' /\ Quiet' /\ SomeoneLooks' /\ Alone'
  BY <1>1, <1>2 DEF IInv, TypeOK, Quiet, SomeoneLooks, Alone
<1>4. Ordered'
  BY <1>1, <1>2, OrderedStill
<1> QED  BY <1>3, <1>4 DEF IInv

LEMMA ClearStep ==
    ASSUME IInv, ClearStatus
    PROVE  IInv'
<1>1. /\ Goes("clear", "return") /\ "return" \in PCs /\ softirq_status' = FALSE
      /\ UNCHANGED <<jiffies, timer_list_head, next_timer, expire_jiffies, added,
                     fired, fault, limit>>
  BY DEF ClearStatus, PCs
<1>2. /\ frames # <<>> /\ Top.pc = "clear" /\ frames' # <<>> /\ Top'.pc = "return"
      /\ frames' \in Seq(Frames) /\ Len(frames') = Len(frames)
  BY <1>1, GoesFacts
<1>3. TypeOK'
  BY <1>1, <1>2, TypeOfFrames DEF IInv, TypeOK
<1>4. Quiet'
  BY <1>1, <1>2, QuietStill
<1>5. SomeoneLooks'
  BY <1>1, LooksStill DEF Looping
<1>6. Alone'
  BY <1>1, <1>2 DEF IInv, Alone
<1>7. Ordered'
  BY <1>1, <1>2, OrderedStill DEF Midway
<1> QED  BY <1>2, <1>3, <1>4, <1>5, <1>6, <1>7 DEF IInv

LEMMA ReturnStep ==
    ASSUME IInv, Return
    PROVE  IInv'
<1>1. /\ frames # <<>> /\ Top.pc = "return"
      /\ frames' = SubSeq(frames, 1, Len(frames) - 1)
      /\ UNCHANGED <<jiffies, timer_list_head, next_timer, expire_jiffies, added,
                     softirq_status, fired, fault, limit>>
  BY DEF Return
<1>2. frames \in Seq(Frames) /\ Len(frames) \in Nat \ {0} /\ limit \in Nat /\ Len(frames) <= limit
  <2>1. frames \in Seq(Frames) /\ limit \in Limits /\ Len(frames) <= limit
    BY DEF IInv, TypeOK
  <2>2. Len(frames) \in Nat \ {0}
    BY <1>1, <2>1
  <2> QED  BY <2>1, <2>2, SoftTimerAssumption
<1>3. /\ frames' \in Seq(Frames) /\ Len(frames') = Len(frames) - 1
      /\ \A i \in 1 .. Len(frames) - 1 : frames'[i] = frames[i]
  <2> DEFINE m == Len(frames) - 1
  <2>1. m \in 0 .. Len(frames)
    BY <1>2
  <2>2. frames' = [i \in 1 .. m |-> frames[i]]
    BY <1>1, <1>2, <2>1
  <2>3. \A i \in 1 .. m : frames[i] \in Frames
    BY <1>2, <2>1
  <2> QED  BY <2>1, <2>2, <2>3
<1>4. TypeOK'
  <2>1. Len(frames') <= limit'
    BY <1>1, <1>2, <1>3
  <2> QED  BY <1>1, <1>3, <2>1, TypeOfFrames DEF IInv, TypeOK
<1>5. Quiet'
  BY <1>1, QuietStill
<1>6. SomeoneLooks'
  <2> SUFFICES ASSUME fault' = "none", timer_list_head' # Null, HeadDue(jiffies)'
               PROVE  \E i \in 1 .. Len(frames') : frames'[i].pc \in Looping
    BY DEF SomeoneLooks
  <2>1. PICK i \in 1 .. Len(frames) : frames[i].pc \in Looping
    BY <1>1 DEF IInv, SomeoneLooks, HeadDue
  <2>2. i # Len(frames)
    BY <1>1, <2>1 DEF Looping, Top
  <2> QED  BY <1>2, <1>3, <2>1, <2>2
<1>7. limit = 1 => frames' = <<>>
  BY <1>2, <1>3
<1>8. Alone'
  BY <1>1, <1>7 DEF IInv, Alone
<1>9. Ordered'
  <2>1. limit = 1 => ~Midway /\ ~Midway'
    BY <1>1, <1>7 DEF Midway
  <2> QED  BY <1>1, <2>1, OrderedStill
<1> QED  BY <1>3, <1>4, <1>5, <1>6, <1>8, <1>9 DEF IInv

-----------------------------------------------------------------------------

\* IInv is inductive: it holds at first and every step keeps it.
LEMMA Invariance == Spec => []IInv
<1>1. IInv /\ [Next]_vars => IInv'
  <2> SUFFICES ASSUME IInv, [Next]_vars PROVE IInv'
    OBVIOUS
  <2>1. ASSUME NEW t \in Timers, NEW e \in Expiries, add_timer(t, e) PROVE IInv'
    BY <2>1, AddStep
  <2>2. CASE PIT_handler \/ OtherInterrupt
    BY <2>2, InterruptStep
  <2>3. CASE do_softirq
    BY <2>3, DueTestStep, CallStep, PassStep, DeleteStep, UnlinkStep, NullStep, ClearStep,
       ReturnStep DEF do_softirq
  <2>4. CASE UNCHANGED vars
    <3>1. UNCHANGED <<jiffies, timer_list_head, next_timer, expire_jiffies, added,
                      softirq_status, frames, fired, fault, limit>>
      BY <2>4 DEF vars
    <3>2. TypeOK' /\ (frames \in Seq(Frames))' /\ Quiet' /\ SomeoneLooks' /\ Alone'
      BY <3>1 DEF IInv, TypeOK, Quiet, SomeoneLooks, HeadDue, Alone, Top
    <3>3. Ordered'
      BY <3>1, OrderedStill DEF Midway, Top
    <3> QED  BY <3>2, <3>3 DEF IInv
  <2> QED  BY <2>1, <2>2, <2>3, <2>4 DEF Next
<1> QED  BY InitIInv, <1>1, PTL DEF Spec

\* From any place of the head the rest of the list is in order, and while a run is
\* under way or nothing is due, no timer in it waits for a tick that was missed.
THEOREM TimerListCorrect == Spec => []TimerListRight
<1>1. IInv => TimerListRight
  <2> SUFFICES ASSUME IInv PROVE TimerListRight
    OBVIOUS
  <2>1. ListSorted
    <3> SUFFICES ASSUME timer_list_head # Null
                 PROVE  LET c == Chain(timer_list_head) IN
                        /\ c[Len(c)] = Last
                        /\ \A i \in 1 .. Len(c) - 1 : expire_jiffies[c[i]] <= expire_jiffies[c[i + 1]]
                        /\ \A i \in 1 .. Len(c) - 1 : c[i] \in added
      BY DEF ListSorted
    <3>1. PICK s \in Seq(Nodes) : IsOrder(s) /\ \E j \in 1 .. Len(s) : timer_list_head = s[j]
      BY DEF IInv, Ordered, HeadAt
    <3>2. PICK j \in 1 .. Len(s) : timer_list_head = s[j]
      BY <3>1
    <3> DEFINE c == Chain(timer_list_head)
    <3>3. c = [i \in 1 .. Len(s) - j + 1 |-> s[j + i - 1]] /\ Len(c) = Len(s) - j + 1
      BY <3>1, <3>2, ChainIs DEF IInv
    <3>4. Len(s) \in Nat /\ Len(c) \in 1 .. Len(s)
      BY <3>1, <3>3
    <3>5. c[Len(c)] = Last
      BY <3>1, <3>3, <3>4 DEF IsOrder
    <3>6. ASSUME NEW i \in 1 .. Len(c) - 1
          PROVE  c[i] \in added /\ expire_jiffies[c[i]] <= expire_jiffies[c[i + 1]]
      <4>1. /\ j + i - 1 \in 1 .. Len(s) - 1 /\ j + i - 1 \in 1 .. Len(s)
            /\ j + (i + 1) - 1 \in 1 .. Len(s) /\ j + i - 1 <= j + (i + 1) - 1
        BY <3>3, <3>4
      <4>2. c[i] = s[j + i - 1] /\ c[i + 1] = s[j + (i + 1) - 1]
        BY <3>3, <3>4
      <4> QED  BY <3>1, <4>1, <4>2 DEF IsOrder
    <3> HIDE DEF c
    <3>7. /\ c[Len(c)] = Last
          /\ \A i \in 1 .. Len(c) - 1 : expire_jiffies[c[i]] <= expire_jiffies[c[i + 1]]
          /\ \A i \in 1 .. Len(c) - 1 : c[i] \in added
      BY <3>5, <3>6
    <3> QED  BY <3>7 DEF c
  <2>2. NoneOverdue
    BY DEF IInv, SomeoneLooks, NoneOverdue
  <2> QED  BY <2>1, <2>2 DEF IInv, TimerListRight
<1> QED  BY Invariance, <1>1, PTL

\* When do_softirq is never interrupted, the timers that have left the list are
\* exactly those whose function has run, each once.
THEOREM FiresOnceCorrect == Spec => []FiresOnce
<1>1. IInv => FiresOnce
  <2> SUFFICES ASSUME IInv, limit = 1, frames = <<>>
               PROVE  LET c == Chain(timer_list_head) IN
                      \A t \in added : fired[t] = IF \E i \in 1 .. Len(c) : c[i] = t THEN 0 ELSE 1
    BY DEF FiresOnce
  <2>1. timer_list_head # Null /\ ~Midway
    BY DEF IInv, Alone, Midway
  <2>2. PICK s \in Seq(Nodes) : IsOrder(s) /\ \E j \in 1 .. Len(s) : HeadAt(s, j)
    BY <2>1 DEF IInv, Ordered
  <2>3. PICK j \in 1 .. Len(s) : HeadAt(s, j)
    BY <2>2
  <2> DEFINE c == Chain(timer_list_head)
  <2>4. /\ c = [i \in 1 .. Len(s) - j + 1 |-> s[j + i - 1]] /\ Len(c) = Len(s) - j + 1
        /\ Len(s) \in Nat
    <3>1. timer_list_head = s[j]
      BY <2>3 DEF HeadAt
    <3> QED  BY <2>2, <3>1, ChainIs DEF IInv
  <2>5. ASSUME NEW t \in added
        PROVE  fired[t] = IF \E i \in 1 .. Len(c) : c[i] = t THEN 0 ELSE 1
    <3>1. PICK m \in 1 .. Len(s) - 1 : s[m] = t
      BY <2>2 DEF IsOrder
    <3>2. fired[t] = IF m < j THEN 1 ELSE 0
      BY <2>1, <2>3, <3>1 DEF HeadAt
    <3>3. ASSUME m >= j PROVE \E i \in 1 .. Len(c) : c[i] = t
      <4>1. m - j + 1 \in 1 .. Len(c) /\ j + (m - j + 1) - 1 = m
        BY <2>4, <3>1, <3>3
      <4>2. c[m - j + 1] = s[m]
        BY <2>4, <4>1
      <4> QED  BY <3>1, <4>1, <4>2
    <3>4. ASSUME m < j, NEW i \in 1 .. Len(c) PROVE c[i] # t
      <4>1. c[i] = s[j + i - 1] /\ j + i - 1 \in 1 .. Len(s) /\ j + i - 1 # m /\ m \in 1 .. Len(s)
        BY <2>4, <3>1, <3>4
      <4> QED  BY <2>2, <3>1, <4>1 DEF IsOrder
    <3>5. CASE m < j
      BY <3>2, <3>4, <3>5
    <3>6. CASE ~(m < j)
      <4>1. m >= j
        BY <2>4, <3>1, <3>6
      <4>2. \E i \in 1 .. Len(c) : c[i] = t
        BY <3>3, <4>1
      <4> QED  BY <3>2, <3>6, <4>2
    <3> QED  BY <3>5, <3>6
  <2> HIDE DEF c
  <2>6. \A t \in added : fired[t] = IF \E i \in 1 .. Len(c) : c[i] = t THEN 0 ELSE 1
    BY <2>5
  <2> QED  BY <2>6 DEF c
<1> QED  BY Invariance, <1>1, PTL

\* When do_softirq is never interrupted, do_timer runs a function only when its
\* time has come and those of all timers due sooner have run.
THEOREM InTimeCorrect == Spec => InTime
<1>1. IInv /\ [Next]_vars =>
        (limit = 1 =>
           \A t \in Timers : fired'[t] > fired[t] =>
               /\ expire_jiffies[t] <= jiffies
               /\ \A u \in added : expire_jiffies[u] < expire_jiffies[t] => fired[u] > 0)
  <2> SUFFICES ASSUME IInv, [Next]_vars, limit = 1, NEW t \in Timers, fired'[t] > fired[t]
               PROVE  /\ expire_jiffies[t] <= jiffies
                      /\ \A u \in added : expire_jiffies[u] < expire_jiffies[t] => fired[u] > 0
    OBVIOUS
  <2>1. fired[t] \in 0 .. 2
    BY DEF IInv, TypeOK
  <2>2. fired' # fired
    BY <2>1
  <2>3. CallFunction
    BY <2>2 DEF Next, vars, add_timer, PIT_handler, OtherInterrupt, do_softirq, DueTest, PassHead,
                DeleteTests, Unlink, NullHead, ClearStatus, Return
  <2>4. timer_list_head = t
    <3>1. fired' = [fired EXCEPT ![timer_list_head] = IF @ < 2 THEN @ + 1 ELSE @]
      BY <2>2, <2>3 DEF CallFunction
    <3>2. timer_list_head # t => fired'[t] = fired[t]
      BY <3>1 DEF IInv, TypeOK
    <3> QED  BY <2>1, <3>2
  <2>5. expire_jiffies[t] <= jiffies
    BY <2>3, <2>4 DEF CallFunction, Goes, IInv, Alone, HeadDue
  <2>6. PICK s \in Seq(Nodes) : IsOrder(s) /\ \E j \in 1 .. Len(s) : HeadAt(s, j)
    BY DEF IInv, Ordered, Alone
  <2>7. PICK j \in 1 .. Len(s) : HeadAt(s, j)
    BY <2>6
  <2>8. ASSUME NEW u \in added, expire_jiffies[u] < expire_jiffies[t]
        PROVE  fired[u] > 0
    <3>1. PICK m \in 1 .. Len(s) - 1 : s[m] = u
      BY <2>6 DEF IsOrder
    <3>2. s[j] = t /\ Len(s) \in Nat /\ m \in 1 .. Len(s)
      BY <2>4, <2>6, <2>7 DEF HeadAt
    <3>3. expire_jiffies[u] \in Nat /\ expire_jiffies[t] \in Nat
      BY TimeFacts, <2>4 DEF IInv, TypeOK, Nodes
    <3>4. ~(j <= m)
      BY <2>6, <2>8, <3>1, <3>2, <3>3 DEF IsOrder
    <3>5. fired[s[m]] = IF m < j \/ (m = j /\ Midway) THEN 1 ELSE 0
      BY <2>7 DEF HeadAt
    <3> QED  BY <3>1, <3>2, <3>4, <3>5
  <2> QED  BY <2>5, <2>8
<1> QED  BY Invariance, <1>1, PTL DEF Spec, InTime

=============================================================================
