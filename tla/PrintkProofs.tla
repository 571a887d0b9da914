---------------------------- MODULE PrintkProofs ----------------------------
(***************************************************************************)
(* Theorems about Printk for any depth of nested interrupts.  The lock     *)
(* keeps the printing contexts with interrupts enabled apart; those with   *)
(* interrupts disabled print in one go, on top of everything; and schedule *)
(* prints only when nothing below it is in a locked section.  Together     *)
(* they say whose text the buffer holds.                                   *)
(***************************************************************************)
EXTENDS Printk, FiniteSetTheorems, SequenceTheorems, TLAPS

ContextRecords ==
    [kind : {"process", "handler", "softirq", "schedule"},
     enabled : BOOLEAN,
     pc : {"idle", "decrement", "spin", "format", "emit", "unlock", "enable", "done"},
     own : BOOLEAN]

InSection(c) ==
    c.enabled /\ c.pc \in {"decrement", "spin", "format", "emit", "unlock", "enable"}

Sections == {i \in 1 .. Depth : InSection(contexts[i])}

Typed ==
    /\ contexts \in Seq(ContextRecords)
    /\ Depth >= 1 /\ Depth <= MaxDepth
    /\ printk_lock \in Int /\ printk_lock <= 1
    /\ preempt_count \in Int
    /\ printk_buf \in 0 .. MaxDepth
    /\ due \in BOOLEAN /\ disk \in BOOLEAN

\* The kinds of contexts, and where those that are interrupted can stand.
Kinds ==
    \A i \in 1 .. Depth :
        /\ contexts[i].kind = "process" <=> i = 1
        /\ contexts[i].enabled <=> contexts[i].kind \in {"process", "softirq"}
        /\ ~contexts[i].enabled => contexts[i].pc \notin {"decrement", "spin", "enable"}
        /\ i < Depth => contexts[i].enabled \/ (contexts[i].kind = "schedule" /\ contexts[i].pc = "done")
        /\ ~due => contexts[i].kind # "softirq"
        /\ (~disk /\ contexts[i].kind = "handler") => contexts[i].pc = "idle"

\* The word is 1 when nobody has the lock, and one context has it at most.
LockHeld ==
    /\ printk_lock = 1 <=> \A i \in 1 .. Depth : ~Locked(contexts[i])
    /\ \A i, j \in 1 .. Depth : Locked(contexts[i]) /\ Locked(contexts[j]) => i = j

\* Nothing below a schedule is in a section.
ScheduleAlone ==
    \A i, j \in 1 .. Depth :
        contexts[i].kind = "schedule" /\ j < i => ~InSection(contexts[j])

\* Whoever is about to show the buffer has filled it last.
BufferOwned ==
    \A i \in 1 .. Depth :
        contexts[i].pc = "emit" /\ (~contexts[i].enabled \/ ~disk) => printk_buf = i

SectionsCounted == preempt_count = Cardinality(Sections)

IInv ==
    /\ Typed
    /\ Kinds
    /\ LockHeld
    /\ ScheduleAlone
    /\ BufferOwned
    /\ SectionsCounted
    /\ OwnText
    /\ SpinsOnlyForTimers

-----------------------------------------------------------------------------
(* What the steps do to the stack of contexts.                             *)

\* Only the running context changes, to c.
Replaces(c) ==
    /\ contexts' \in Seq(ContextRecords)
    /\ Depth' = Depth
    /\ contexts'[Depth] = c
    /\ \A i \in 1 .. Depth : i # Depth => contexts'[i] = contexts[i]

LEMMA ReplaceTop ==
    ASSUME Typed, NEW c \in ContextRecords, contexts' = [contexts EXCEPT ![Depth] = c]
    PROVE  Replaces(c)
<1>1. Depth \in 1 .. Len(contexts)
  BY DEF Typed, Depth
<1>2. /\ contexts' \in Seq(ContextRecords)
      /\ Len(contexts') = Len(contexts)
      /\ \A j \in 1 .. Len(contexts) : contexts'[j] = IF j = Depth THEN c ELSE contexts[j]
  BY <1>1, ExceptSeq DEF Typed
<1> QED  BY <1>1, <1>2 DEF Replaces, Depth

LEMMA TopType ==
    ASSUME Typed
    PROVE  /\ Depth \in Nat \ {0}
           /\ Running = contexts[Depth]
           /\ \A i \in 1 .. Depth : contexts[i] \in ContextRecords
<1> QED  BY ElementOfSeq, LenProperties DEF Typed, Depth, Running

\* The running context goes to another place.
LEMMA GoesToTop ==
    ASSUME Typed, NEW p \in {"idle", "decrement", "spin", "format", "emit", "unlock", "enable", "done"},
           GoesTo(p)
    PROVE  Replaces([Running EXCEPT !.pc = p])
<1>1. Running \in ContextRecords
  BY TopType
<1>2. [Running EXCEPT !.pc = p] \in ContextRecords
  BY <1>1 DEF ContextRecords
<1>3. contexts' = [contexts EXCEPT ![Depth] = [Running EXCEPT !.pc = p]]
  BY DEF GoesTo, Running
<1> QED  BY <1>2, <1>3, ReplaceTop

\* A section is entered or left by the running context alone.
LEMMA CountChange ==
    ASSUME Typed, SectionsCounted, NEW t \in Nat
    PROVE  /\ IsFiniteSet(Sections)
           /\ preempt_count \in Nat
           /\ preempt_count = 0 => Sections = {}
           /\ t \notin Sections => Cardinality(Sections \cup {t}) = preempt_count + 1
           /\ t \in Sections => Cardinality(Sections \ {t}) = preempt_count - 1
<1>1. IsFiniteSet(1 .. Depth) /\ Sections \subseteq 1 .. Depth
  BY TopType, FS_Interval DEF Sections
<1>2. IsFiniteSet(Sections)
  BY <1>1, FS_Subset
<1> QED
  BY <1>2, FS_CardinalityType, FS_EmptySet, FS_AddElement, FS_RemoveElement DEF SectionsCounted

-----------------------------------------------------------------------------

LEMMA InitIInv == Init => IInv
<1> SUFFICES ASSUME Init PROVE IInv
  OBVIOUS
<1> DEFINE c == Context("process", TRUE)
<1>1. c \in ContextRecords /\ contexts = <<c>>
  BY DEF Init, Context, ContextRecords
<1>2. c.kind = "process" /\ c.enabled = TRUE /\ c.pc = "idle" /\ c.own = TRUE
  BY DEF Context
<1> HIDE DEF c
<1>3. Len(<<c>>) = 1 /\ <<c>> \in Seq(ContextRecords) /\ <<c>>[1] = c
  BY <1>1
<1>4. Depth = 1 /\ contexts \in Seq(ContextRecords) /\ contexts[1] = c
  BY <1>1, <1>3 DEF Depth
<1>5. \A i \in 1 .. Depth : i = 1 /\ contexts[i] = c
  BY <1>4
<1>6. Typed
  <2>1. due \in BOOLEAN /\ disk \in BOOLEAN
    BY PrintkAssumption DEF Init
  <2>2. printk_lock = 1 /\ preempt_count = 0 /\ printk_buf = 0
    BY DEF Init
  <2>3. MaxDepth \in Nat /\ MaxDepth >= 1
    BY PrintkAssumption
  <2> QED  BY <1>4, <2>1, <2>2, <2>3 DEF Typed
<1>7. SectionsCounted
  <2>1. Sections = {}
    BY <1>2, <1>5 DEF Sections, InSection
  <2> QED  BY <2>1, FS_EmptySet DEF Init, SectionsCounted
<1>8. Kinds /\ LockHeld /\ ScheduleAlone
  BY <1>2, <1>4, <1>5 DEF Init, Kinds, LockHeld, Locked, ScheduleAlone
<1>9. BufferOwned /\ OwnText /\ SpinsOnlyForTimers
  BY <1>2, <1>5 DEF BufferOwned, OwnText, SpinsOnlyForTimers
<1> QED  BY <1>6, <1>7, <1>8, <1>9 DEF IInv

-----------------------------------------------------------------------------
(* Steps of color_printk: the running context stays what it is and goes to *)
(* another place.                                                          *)

\* What such a step keeps, wherever it goes.
LEMMA MoveKeeps ==
    ASSUME IInv, NEW c \in ContextRecords, Replaces(c), UNCHANGED <<due, disk>>,
           c.kind = Running.kind, c.enabled = Running.enabled,
           ~c.enabled => c.pc \notin {"decrement", "spin", "enable"},
           (~disk /\ c.kind = "handler") => c.pc = "idle"
    PROVE  Kinds' /\ ScheduleAlone'
<1>1. Depth \in Nat \ {0} /\ Depth' = Depth /\ Running = contexts[Depth]
  BY TopType DEF IInv, Replaces
<1>2. \A i \in 1 .. Depth : i # Depth => contexts'[i] = contexts[i]
  BY DEF Replaces
<1>3. contexts'[Depth] = c
  BY DEF Replaces
<1>4. Kinds'
  <2> SUFFICES ASSUME NEW i \in 1 .. Depth
               PROVE  /\ contexts'[i].kind = "process" <=> i = 1
                      /\ contexts'[i].enabled <=> contexts'[i].kind \in {"process", "softirq"}
                      /\ ~contexts'[i].enabled => contexts'[i].pc \notin {"decrement", "spin", "enable"}
                      /\ i < Depth => contexts'[i].enabled \/ (contexts'[i].kind = "schedule" /\ contexts'[i].pc = "done")
                      /\ ~due' => contexts'[i].kind # "softirq"
                      /\ (~disk' /\ contexts'[i].kind = "handler") => contexts'[i].pc = "idle"
    BY <1>1 DEF Kinds
  <2>1. CASE i = Depth
    BY <1>1, <1>3, <2>1 DEF IInv, Kinds
  <2>2. CASE i # Depth
    BY <1>1, <1>2, <2>2 DEF IInv, Kinds
  <2> QED  BY <2>1, <2>2
<1>5. ScheduleAlone'
  <2> SUFFICES ASSUME NEW i \in 1 .. Depth, NEW j \in 1 .. Depth,
                      contexts'[i].kind = "schedule", j < i
               PROVE  ~InSection(contexts'[j])
    BY <1>1 DEF ScheduleAlone, InSection
  <2>1. contexts'[j] = contexts[j] /\ contexts[i].kind = "schedule"
    BY <1>1, <1>2, <1>3
  <2> QED  BY <2>1 DEF IInv, ScheduleAlone
<1> QED  BY <1>4, <1>5

\* preempt_count changes with the running context's being in a section.
LEMMA MoveCounts ==
    ASSUME Typed, SectionsCounted, NEW c, Replaces(c),
           \/ InSection(c) /\ ~InSection(Running) /\ preempt_count' = preempt_count + 1
           \/ ~InSection(c) /\ InSection(Running) /\ preempt_count' = preempt_count - 1
           \/ (InSection(c) <=> InSection(Running)) /\ preempt_count' = preempt_count
    PROVE  SectionsCounted'
<1>1. Depth \in Nat /\ Depth \in 1 .. Depth /\ Depth' = Depth /\ Running = contexts[Depth]
  BY TopType DEF Replaces
<1>2. \A i \in 1 .. Depth : contexts'[i] = IF i = Depth THEN c ELSE contexts[i]
  BY DEF Replaces
<1>3. Sections' = {i \in 1 .. Depth : InSection(contexts'[i])}
  BY <1>1 DEF Sections, InSection
<1>4. Depth \in Sections <=> InSection(Running)
  BY <1>1 DEF Sections
<1>5. Sections' = IF InSection(c) THEN Sections \cup {Depth} ELSE Sections \ {Depth}
  BY <1>1, <1>2, <1>3 DEF Sections
<1>6. CASE InSection(c) /\ ~InSection(Running)
  BY <1>1, <1>4, <1>5, <1>6, CountChange DEF SectionsCounted
<1>7. CASE ~InSection(c) /\ InSection(Running)
  BY <1>1, <1>4, <1>5, <1>7, CountChange DEF SectionsCounted
<1>8. CASE InSection(c) <=> InSection(Running)
  <2>1. Sections' = Sections
    BY <1>4, <1>5, <1>8
  <2> QED  BY <2>1, <1>8 DEF SectionsCounted
<1> QED  BY <1>6, <1>7, <1>8

\* The lock is not touched.
LEMMA MoveLock ==
    ASSUME Typed, LockHeld, NEW c, Replaces(c), UNCHANGED printk_lock,
           Locked(c) <=> Locked(Running)
    PROVE  LockHeld'
<1>1. Depth' = Depth /\ Running = contexts[Depth]
  BY TopType DEF Replaces
<1>2. \A i \in 1 .. Depth : Locked(contexts'[i]) <=> Locked(contexts[i])
  BY <1>1 DEF Replaces
<1> QED  BY <1>1, <1>2 DEF LockHeld, Locked

\* The rest is about the text: nobody else is about to show the buffer.
LEMMA MoveText ==
    ASSUME IInv, NEW c, Replaces(c), UNCHANGED <<due, disk, printk_buf>>,
           c.kind = Running.kind, c.enabled = Running.enabled,
           c.own = Running.own, c.pc = "emit" => Running.pc = "emit", ~due => c.pc # "spin"
    PROVE  BufferOwned' /\ OwnText' /\ SpinsOnlyForTimers'
<1>1. Depth \in 1 .. Depth /\ Depth' = Depth /\ Running = contexts[Depth]
  BY TopType DEF Replaces, IInv
<1>2. \A i \in 1 .. Depth : contexts'[i] = IF i = Depth THEN c ELSE contexts[i]
  BY DEF Replaces
<1>3. \A i \in 1 .. Depth : /\ contexts'[i].enabled = contexts[i].enabled
                            /\ contexts'[i].own = contexts[i].own
                            /\ contexts'[i].pc = "emit" => contexts[i].pc = "emit"
                            /\ ~due => contexts'[i].pc # "spin"
  BY <1>1, <1>2 DEF IInv, SpinsOnlyForTimers
<1>4. BufferOwned'
  BY <1>1, <1>3 DEF IInv, BufferOwned
<1>5. OwnText'
  BY <1>1, <1>3 DEF IInv, OwnText
<1>6. SpinsOnlyForTimers'
  BY <1>1, <1>3 DEF SpinsOnlyForTimers
<1> QED  BY <1>4, <1>5, <1>6

\* What the running context is, as far as the steps below need it.
LEMMA RunningFacts ==
    ASSUME IInv
    PROVE  /\ Running \in ContextRecords
           /\ Depth \in 1 .. Depth /\ Depth \in 0 .. MaxDepth
           /\ Running = contexts[Depth]
           /\ Running.enabled <=> Running.kind \in {"process", "softirq"}
           /\ ~Running.enabled => Running.pc \notin {"decrement", "spin", "enable"}
           /\ ~due => Running.kind # "softirq"
           /\ (~disk /\ Running.kind = "handler") => Running.pc = "idle"
<1> QED  BY TopType, PrintkAssumption DEF IInv, Kinds, Typed

LEMMA CallStep == IInv /\ Call => IInv'
<1> SUFFICES ASSUME IInv, Call PROVE IInv'
  OBVIOUS
<1> DEFINE p == IF Running.enabled THEN "decrement" ELSE "format"
           c == [Running EXCEPT !.pc = p]
<1>1. /\ Running.pc = "idle" /\ (Running.kind = "handler" => disk) /\ GoesTo(p)
      /\ preempt_count' = IF Running.enabled THEN preempt_count + 1 ELSE preempt_count
      /\ UNCHANGED <<printk_lock, printk_buf, due, disk>>
  BY DEF Call, At, Locks
<1>2. Replaces(c)
  BY <1>1, GoesToTop DEF IInv
<1>3. /\ c \in ContextRecords /\ c.pc = p /\ c.kind = Running.kind
      /\ c.enabled = Running.enabled /\ c.own = Running.own
  BY RunningFacts DEF ContextRecords
<1> HIDE DEF c
<1>4. Kinds' /\ ScheduleAlone'
  BY <1>1, <1>2, <1>3, MoveKeeps, RunningFacts
<1>5. SectionsCounted'
  BY <1>1, <1>2, <1>3, MoveCounts, RunningFacts DEF IInv, InSection
<1>6. LockHeld'
  BY <1>1, <1>2, <1>3, MoveLock, RunningFacts DEF IInv, Locked
<1>7. BufferOwned' /\ OwnText' /\ SpinsOnlyForTimers'
  BY <1>1, <1>2, <1>3, MoveText, RunningFacts
<1>8. Typed'
  BY <1>1, <1>2 DEF IInv, Typed, Replaces
<1> QED  BY <1>4, <1>5, <1>6, <1>7, <1>8 DEF IInv

\* One decrement gets the lock exactly when nobody has it; otherwise the context
\* waits, which without timers would mean waiting for itself.
LEMMA DecrementStep == IInv /\ Decrement => IInv'
<1> SUFFICES ASSUME IInv, Decrement PROVE IInv'
  OBVIOUS
<1> DEFINE p == IF printk_lock = 1 THEN "format" ELSE "spin"
           c == [Running EXCEPT !.pc = p]
<1>1. /\ Running.pc \in {"decrement", "spin"} /\ Running.enabled
      /\ printk_lock \in Int /\ printk_lock <= 1 /\ printk_lock' = printk_lock - 1
      /\ GoesTo(p)
      /\ UNCHANGED <<preempt_count, printk_buf, due, disk>>
  BY RunningFacts DEF Decrement, AtDecrement, At, IInv, Typed
<1>2. Replaces(c)
  BY <1>1, GoesToTop DEF IInv
<1>3. /\ c \in ContextRecords /\ c.pc = p /\ c.kind = Running.kind
      /\ c.enabled = Running.enabled /\ c.own = Running.own
  BY RunningFacts DEF ContextRecords
<1> HIDE DEF c
<1>4. Kinds' /\ ScheduleAlone'
  BY <1>1, <1>2, <1>3, MoveKeeps, RunningFacts
<1>5. SectionsCounted'
  BY <1>1, <1>2, <1>3, MoveCounts, RunningFacts DEF IInv, InSection
<1>6. /\ Depth' = Depth
      /\ \A i \in 1 .. Depth : contexts'[i] = IF i = Depth THEN c ELSE contexts[i]
  BY <1>2 DEF Replaces
<1>7. ~Locked(Running) /\ (Locked(c) <=> printk_lock = 1)
  BY <1>1, <1>3 DEF Locked
<1>8. LockHeld'
  <2>1. CASE printk_lock = 1
    <3>1. \A i \in 1 .. Depth : Locked(contexts'[i]) <=> i = Depth
      BY <1>6, <1>7, <2>1 DEF IInv, LockHeld
    <3> QED  BY <1>1, <1>6, <2>1, <3>1, RunningFacts DEF LockHeld, Locked
  <2>2. CASE printk_lock # 1
    <3>1. \A i \in 1 .. Depth : Locked(contexts'[i]) <=> Locked(contexts[i])
      BY <1>6, <1>7, <2>2, RunningFacts
    <3> QED  BY <1>1, <1>6, <2>2, <3>1 DEF IInv, LockHeld, Locked
  <2> QED  BY <2>1, <2>2
<1>9. ~due => p = "format"
  <2> SUFFICES ASSUME ~due, printk_lock # 1 PROVE FALSE
    OBVIOUS
  <2>1. Depth = 1
    BY <1>1, RunningFacts DEF IInv, Kinds
  <2> QED  BY <1>7, <2>1, RunningFacts DEF IInv, LockHeld
<1>10. BufferOwned' /\ OwnText' /\ SpinsOnlyForTimers'
  BY <1>1, <1>2, <1>3, <1>9, MoveText, RunningFacts
<1>11. Typed'
  BY <1>1, <1>2 DEF IInv, Typed, Replaces
<1> QED  BY <1>4, <1>5, <1>8, <1>10, <1>11 DEF IInv

\* Nobody else is about to show the buffer when a context fills it.
LEMMA FormatStep == IInv /\ Format => IInv'
<1> SUFFICES ASSUME IInv, Format PROVE IInv'
  OBVIOUS
<1> DEFINE c == [Running EXCEPT !.pc = "emit"]
<1>1. /\ Running.pc = "format" /\ GoesTo("emit") /\ printk_buf' = Depth
      /\ UNCHANGED <<printk_lock, preempt_count, due, disk>>
  BY DEF Format, At
<1>2. Replaces(c)
  BY <1>1, GoesToTop DEF IInv
<1>3. /\ c \in ContextRecords /\ c.pc = "emit" /\ c.kind = Running.kind
      /\ c.enabled = Running.enabled /\ c.own = Running.own
  BY RunningFacts DEF ContextRecords
<1> HIDE DEF c
<1>4. Kinds' /\ ScheduleAlone'
  BY <1>1, <1>2, <1>3, MoveKeeps, RunningFacts
<1>5. SectionsCounted'
  BY <1>1, <1>2, <1>3, MoveCounts, RunningFacts DEF IInv, InSection
<1>6. LockHeld'
  BY <1>1, <1>2, <1>3, MoveLock, RunningFacts DEF IInv, Locked
<1>7. /\ Depth' = Depth
      /\ \A i \in 1 .. Depth : contexts'[i] = IF i = Depth THEN c ELSE contexts[i]
  BY <1>2 DEF Replaces
<1>8. BufferOwned'
  <2> SUFFICES ASSUME NEW i \in 1 .. Depth, i # Depth, contexts[i].pc = "emit",
                      ~contexts[i].enabled \/ ~disk
               PROVE  FALSE
    BY <1>1, <1>7 DEF BufferOwned
  <2>1. contexts[i].enabled /\ ~disk /\ i < Depth
    BY RunningFacts DEF IInv, Kinds
  <2>2. Locked(contexts[i]) /\ InSection(contexts[i])
    BY <2>1 DEF Locked, InSection
  <2>3. CASE Running.enabled
    BY <1>1, <2>2, <2>3, RunningFacts DEF IInv, LockHeld, Locked
  <2>4. CASE ~Running.enabled
    BY <1>1, <2>1, <2>2, <2>4, RunningFacts DEF IInv, ScheduleAlone, ContextRecords
  <2> QED  BY <2>3, <2>4
<1>9. OwnText' /\ SpinsOnlyForTimers'
  <2>1. \A i \in 1 .. Depth : /\ contexts'[i].enabled = contexts[i].enabled
                              /\ contexts'[i].own = contexts[i].own
                              /\ contexts'[i].pc = "spin" => contexts[i].pc = "spin"
    BY <1>3, <1>7, RunningFacts
  <2> QED  BY <1>1, <1>7, <2>1 DEF IInv, OwnText, SpinsOnlyForTimers
<1>10. Typed'
  BY <1>1, <1>2, RunningFacts DEF IInv, Typed, Replaces
<1> QED  BY <1>4, <1>5, <1>6, <1>8, <1>9, <1>10 DEF IInv

\* What is shown is the context's own, as the buffer is still its own.
LEMMA EmitStep == IInv /\ Emit => IInv'
<1> SUFFICES ASSUME IInv, Emit PROVE IInv'
  OBVIOUS
<1> DEFINE c == [Running EXCEPT !.pc = "unlock", !.own = printk_buf = Depth]
<1>1. /\ Running.pc = "emit"
      /\ contexts' = [contexts EXCEPT ![Depth] = c]
      /\ UNCHANGED <<printk_lock, preempt_count, printk_buf, due, disk>>
  BY DEF Emit, At, Running
<1>2. /\ c \in ContextRecords /\ c.pc = "unlock" /\ c.kind = Running.kind
      /\ c.enabled = Running.enabled /\ c.own = (printk_buf = Depth)
  BY RunningFacts DEF ContextRecords
<1>3. Replaces(c)
  BY <1>1, <1>2, ReplaceTop DEF IInv
<1> HIDE DEF c
<1>4. Kinds' /\ ScheduleAlone'
  BY <1>1, <1>2, <1>3, MoveKeeps, RunningFacts
<1>5. SectionsCounted'
  BY <1>1, <1>2, <1>3, MoveCounts, RunningFacts DEF IInv, InSection
<1>6. LockHeld'
  BY <1>1, <1>2, <1>3, MoveLock, RunningFacts DEF IInv, Locked
<1>7. /\ Depth' = Depth
      /\ \A i \in 1 .. Depth : contexts'[i] = IF i = Depth THEN c ELSE contexts[i]
  BY <1>3 DEF Replaces
<1>8. c.own \/ (disk /\ c.enabled)
  BY <1>1, <1>2, RunningFacts DEF IInv, BufferOwned
<1>9. BufferOwned' /\ OwnText' /\ SpinsOnlyForTimers'
  BY <1>1, <1>2, <1>7, <1>8 DEF IInv, BufferOwned, OwnText, SpinsOnlyForTimers
<1>10. Typed'
  BY <1>1, <1>3 DEF IInv, Typed, Replaces
<1> QED  BY <1>4, <1>5, <1>6, <1>9, <1>10 DEF IInv

LEMMA UnlockStep == IInv /\ Unlock => IInv'
<1> SUFFICES ASSUME IInv, Unlock PROVE IInv'
  OBVIOUS
<1> DEFINE p == IF Running.enabled THEN "enable" ELSE "done"
           c == [Running EXCEPT !.pc = p]
<1>1. /\ Running.pc = "unlock" /\ GoesTo(p)
      /\ printk_lock' = IF Running.enabled THEN 1 ELSE printk_lock
      /\ UNCHANGED <<preempt_count, printk_buf, due, disk>>
  BY DEF Unlock, At, Locks
<1>2. Replaces(c)
  BY <1>1, GoesToTop DEF IInv
<1>3. /\ c \in ContextRecords /\ c.pc = p /\ c.kind = Running.kind
      /\ c.enabled = Running.enabled /\ c.own = Running.own
  BY RunningFacts DEF ContextRecords
<1> HIDE DEF c
<1>4. Kinds' /\ ScheduleAlone'
  BY <1>1, <1>2, <1>3, MoveKeeps, RunningFacts
<1>5. SectionsCounted'
  BY <1>1, <1>2, <1>3, MoveCounts, RunningFacts DEF IInv, InSection
<1>6. /\ Depth' = Depth
      /\ \A i \in 1 .. Depth : contexts'[i] = IF i = Depth THEN c ELSE contexts[i]
  BY <1>2 DEF Replaces
<1>7. LockHeld'
  <2>1. CASE Running.enabled
    <3>1. Locked(contexts[Depth]) /\ ~Locked(c)
      BY <1>1, <1>3, <2>1, RunningFacts DEF Locked
    <3>2. \A i \in 1 .. Depth : ~Locked(contexts'[i])
      BY <1>6, <3>1, RunningFacts DEF IInv, LockHeld
    <3> QED  BY <1>1, <1>6, <2>1, <3>2 DEF LockHeld, Locked
  <2>2. CASE ~Running.enabled
    BY <1>1, <1>2, <1>3, <2>2, MoveLock DEF IInv, Locked
  <2> QED  BY <2>1, <2>2
<1>8. BufferOwned' /\ OwnText' /\ SpinsOnlyForTimers'
  BY <1>1, <1>2, <1>3, MoveText, RunningFacts
<1>9. Typed'
  BY <1>1, <1>2 DEF IInv, Typed, Replaces
<1> QED  BY <1>4, <1>5, <1>7, <1>8, <1>9 DEF IInv

LEMMA EnableStep == IInv /\ Enable => IInv'
<1> SUFFICES ASSUME IInv, Enable PROVE IInv'
  OBVIOUS
<1> DEFINE c == [Running EXCEPT !.pc = "done"]
<1>1. /\ Running.pc = "enable" /\ Running.enabled /\ GoesTo("done")
      /\ preempt_count' = preempt_count - 1
      /\ UNCHANGED <<printk_lock, printk_buf, due, disk>>
  BY RunningFacts DEF Enable, At, Reenabled
<1>2. Replaces(c)
  BY <1>1, GoesToTop DEF IInv
<1>3. /\ c \in ContextRecords /\ c.pc = "done" /\ c.kind = Running.kind
      /\ c.enabled = Running.enabled /\ c.own = Running.own
  BY RunningFacts DEF ContextRecords
<1> HIDE DEF c
<1>4. Kinds' /\ ScheduleAlone'
  BY <1>1, <1>2, <1>3, MoveKeeps, RunningFacts
<1>5. SectionsCounted'
  BY <1>1, <1>2, <1>3, MoveCounts, RunningFacts DEF IInv, InSection
<1>6. LockHeld'
  BY <1>1, <1>2, <1>3, MoveLock, RunningFacts DEF IInv, Locked
<1>7. BufferOwned' /\ OwnText' /\ SpinsOnlyForTimers'
  BY <1>1, <1>2, <1>3, MoveText, RunningFacts
<1>8. Typed'
  BY <1>1, <1>2 DEF IInv, Typed, Replaces
<1> QED  BY <1>4, <1>5, <1>6, <1>7, <1>8 DEF IInv

-----------------------------------------------------------------------------
(* Interrupts: the running context is replaced, covered or uncovered.      *)

LEMMA Fresh ==
    ASSUME NEW k \in {"process", "handler", "softirq", "schedule"}, NEW e \in BOOLEAN
    PROVE  /\ Context(k, e) \in ContextRecords
           /\ Context(k, e).kind = k /\ Context(k, e).enabled = e
           /\ Context(k, e).pc = "idle" /\ Context(k, e).own = TRUE
           /\ ~Locked(Context(k, e)) /\ ~InSection(Context(k, e))
<1> QED  BY DEF Context, ContextRecords, Locked, InSection

\* Whoever can be replaced or uncovered is in no section and has no lock.
LEMMA EndsOutside ==
    ASSUME IInv, Running.pc \in {"idle", "done"} \/ ~Running.enabled
    PROVE  ~InSection(Running) /\ ~Locked(Running)
<1> QED  BY RunningFacts DEF InSection, Locked

\* The running context gives way to a new one: the next print of the process, a
\* soft interrupt after its handler, or schedule, which begins where the count is 0.
LEMMA Begins ==
    ASSUME IInv, Running.pc \in {"idle", "done"},
           NEW k \in {"process", "softirq", "schedule"}, NEW e \in BOOLEAN,
           contexts' = [contexts EXCEPT ![Depth] = Context(k, e)],
           k = "process" <=> Depth = 1, e <=> k # "schedule", k = "softirq" => due,
           k = "schedule" => preempt_count = 0,
           UNCHANGED <<printk_lock, preempt_count, printk_buf, due, disk>>
    PROVE  IInv'
<1> DEFINE c == Context(k, e)
<1>1. /\ c \in ContextRecords /\ c.kind = k /\ c.enabled = e /\ c.pc = "idle" /\ c.own = TRUE
      /\ ~Locked(c) /\ ~InSection(c)
  BY Fresh
<1>2. Replaces(c)
  BY <1>1, ReplaceTop DEF IInv
<1> HIDE DEF c
<1>3. /\ Depth \in Nat \ {0} /\ Depth' = Depth
      /\ contexts' \in Seq(ContextRecords)
      /\ \A i \in 1 .. Depth : contexts'[i] = IF i = Depth THEN c ELSE contexts[i]
  BY <1>2, TopType DEF Replaces, IInv
<1>4. Running = contexts[Depth] /\ ~Locked(Running) /\ ~InSection(Running)
  BY EndsOutside, RunningFacts
<1>5. Typed'
  BY <1>2 DEF IInv, Typed, Replaces
<1>6. Kinds'
  BY <1>1, <1>3 DEF IInv, Kinds
<1>7. LockHeld'
  BY <1>1, <1>2, <1>4, MoveLock DEF IInv
<1>8. SectionsCounted'
  BY <1>1, <1>2, <1>4, MoveCounts DEF IInv
<1>9. ScheduleAlone'
  <2> SUFFICES ASSUME NEW i \in 1 .. Depth, NEW j \in 1 .. Depth,
                      contexts'[i].kind = "schedule", j < i
               PROVE  ~InSection(contexts'[j])
    BY <1>3 DEF ScheduleAlone, InSection
  <2>1. contexts'[j] = contexts[j]
    BY <1>3
  <2>2. CASE i = Depth
    <3>1. Sections = {}
      BY <1>1, <1>3, <2>2, CountChange DEF IInv
    <3> QED  BY <2>1, <3>1 DEF Sections
  <2>3. CASE i # Depth
    BY <1>3, <2>1, <2>3 DEF IInv, ScheduleAlone
  <2> QED  BY <2>2, <2>3
<1>10. BufferOwned' /\ OwnText' /\ SpinsOnlyForTimers'
  BY <1>1, <1>3 DEF IInv, BufferOwned, OwnText, SpinsOnlyForTimers
<1> QED  BY <1>5, <1>6, <1>7, <1>8, <1>9, <1>10 DEF IInv

LEMMA InterruptStep == IInv /\ Interrupt => IInv'
<1> SUFFICES ASSUME IInv, Interrupt PROVE IInv'
  OBVIOUS
<1> DEFINE c == Context("handler", FALSE)
<1>1. /\ c \in ContextRecords /\ c.kind = "handler" /\ c.enabled = FALSE /\ c.pc = "idle"
      /\ c.own = TRUE /\ ~Locked(c) /\ ~InSection(c)
  BY Fresh
<1>2. /\ contexts' = Append(contexts, c) /\ Depth < MaxDepth
      /\ Running.enabled \/ (Running.kind = "schedule" /\ Running.pc = "done")
      /\ UNCHANGED <<printk_lock, preempt_count, printk_buf, due, disk>>
  BY DEF Interrupt, At
<1> HIDE DEF c
<1>3. Depth \in Nat \ {0} /\ Running = contexts[Depth]
  BY TopType DEF IInv
<1>4. /\ contexts' \in Seq(ContextRecords)
      /\ Depth' = Depth + 1 /\ contexts'[Depth + 1] = c
      /\ \A i \in 1 .. Depth : contexts'[i] = contexts[i]
  BY <1>1, <1>2, AppendProperties DEF IInv, Typed, Depth
<1>5. Typed'
  BY <1>2, <1>3, <1>4, PrintkAssumption DEF IInv, Typed
<1>6. \A i \in 1 .. Depth' : i = Depth + 1 \/ i \in 1 .. Depth
  BY <1>3, <1>4
<1>7. Kinds'
  <2> SUFFICES ASSUME NEW i \in 1 .. Depth'
               PROVE  /\ contexts'[i].kind = "process" <=> i = 1
                      /\ contexts'[i].enabled <=> contexts'[i].kind \in {"process", "softirq"}
                      /\ ~contexts'[i].enabled => contexts'[i].pc \notin {"decrement", "spin", "enable"}
                      /\ i < Depth' => contexts'[i].enabled \/ (contexts'[i].kind = "schedule" /\ contexts'[i].pc = "done")
                      /\ ~due' => contexts'[i].kind # "softirq"
                      /\ (~disk' /\ contexts'[i].kind = "handler") => contexts'[i].pc = "idle"
    BY DEF Kinds
  <2>1. CASE i = Depth + 1
    <3>1. contexts'[i] = c /\ i # 1 /\ ~(i < Depth')
      BY <1>3, <1>4, <2>1
    <3> QED  BY <1>1, <3>1
  <2>2. CASE i \in 1 .. Depth
    <3>1. contexts'[i] = contexts[i] /\ (i < Depth \/ i = Depth)
      BY <1>3, <1>4, <2>2
    <3>2. contexts[i].enabled \/ (contexts[i].kind = "schedule" /\ contexts[i].pc = "done")
      BY <1>2, <1>3, <2>2, <3>1 DEF IInv, Kinds
    <3> QED  BY <1>2, <2>2, <3>1, <3>2 DEF IInv, Kinds
  <2> QED  BY <1>6, <2>1, <2>2
<1>8. LockHeld'
  <2>1. \A i \in 1 .. Depth' : Locked(contexts'[i]) <=> i \in 1 .. Depth /\ Locked(contexts[i])
    BY <1>1, <1>3, <1>4, <1>6
  <2>2. \A i \in 1 .. Depth : i \in 1 .. Depth'
    BY <1>3, <1>4
  <2>3. printk_lock' = 1 <=> \A i \in 1 .. Depth' : ~Locked(contexts'[i])
    BY <1>2, <2>1, <2>2 DEF IInv, LockHeld
  <2>4. \A i, j \in 1 .. Depth' : Locked(contexts'[i]) /\ Locked(contexts'[j]) => i = j
    BY <2>1 DEF IInv, LockHeld
  <2> QED  BY <2>3, <2>4 DEF LockHeld, Locked
<1>9. ScheduleAlone'
  <2> SUFFICES ASSUME NEW i \in 1 .. Depth', NEW j \in 1 .. Depth',
                      contexts'[i].kind = "schedule", j < i
               PROVE  ~InSection(contexts'[j])
    BY DEF ScheduleAlone, InSection
  <2>1. i \in 1 .. Depth
    BY <1>1, <1>4, <1>6
  <2>2. j \in 1 .. Depth
    BY <1>3, <2>1
  <2> QED  BY <1>4, <2>1, <2>2 DEF IInv, ScheduleAlone
<1>10. SectionsCounted'
  <2>1. \A i \in 1 .. Depth' : InSection(contexts'[i]) <=> i \in 1 .. Depth /\ InSection(contexts[i])
    BY <1>1, <1>3, <1>4, <1>6
  <2>2. \A i \in 1 .. Depth : i \in 1 .. Depth'
    BY <1>3, <1>4
  <2>3. Sections' = {i \in 1 .. Depth' : InSection(contexts'[i])}
    BY DEF Sections, InSection
  <2>4. Sections' = Sections
    BY <2>1, <2>2, <2>3 DEF Sections
  <2> QED  BY <1>2, <2>4 DEF IInv, SectionsCounted
<1>11. BufferOwned' /\ OwnText' /\ SpinsOnlyForTimers'
  BY <1>1, <1>2, <1>4, <1>6 DEF IInv, BufferOwned, OwnText, SpinsOnlyForTimers
<1> QED  BY <1>5, <1>7, <1>8, <1>9, <1>10, <1>11 DEF IInv

LEMMA ReturnStep == IInv /\ Return => IInv'
<1> SUFFICES ASSUME IInv, Return PROVE IInv'
  OBVIOUS
<1>1. /\ Depth > 1 /\ contexts' = SubSeq(contexts, 1, Depth - 1)
      /\ Running.pc \in {"idle", "done"}
      /\ UNCHANGED <<printk_lock, preempt_count, printk_buf, due, disk>>
  BY DEF Return, IntrEnds, HandlerEnds, At
<1>2. /\ Depth \in Nat \ {0} /\ Running = contexts[Depth]
      /\ ~InSection(contexts[Depth]) /\ ~Locked(contexts[Depth])
  BY <1>1, TopType, EndsOutside DEF IInv
<1>3. /\ contexts' \in Seq(ContextRecords)
      /\ Len(contexts') = IF 1 <= Depth - 1 THEN Depth - 1 - 1 + 1 ELSE 0
      /\ \A i \in 1 .. Depth - 1 - 1 + 1 : contexts'[i] = contexts[1 + i - 1]
  <2>1. \A i \in 1 .. Depth - 1 : contexts[i] \in ContextRecords
    BY <1>2, TopType DEF IInv
  <2> QED  BY <1>1, <1>2, <2>1, SubSeqProperties
<1>4. /\ Depth' = Depth - 1
      /\ \A i \in 1 .. Depth' : contexts'[i] = contexts[i] /\ i \in 1 .. Depth /\ i < Depth
      /\ \A i \in 1 .. Depth : i = Depth \/ i \in 1 .. Depth'
  BY <1>1, <1>2, <1>3 DEF Depth
<1>5. Typed'
  BY <1>1, <1>2, <1>3, <1>4, PrintkAssumption DEF IInv, Typed
<1>6. Kinds'
  BY <1>1, <1>2, <1>4 DEF IInv, Kinds
<1>7. LockHeld'
  <2>1. printk_lock' = 1 <=> \A i \in 1 .. Depth' : ~Locked(contexts'[i])
    BY <1>1, <1>2, <1>4 DEF IInv, LockHeld
  <2>2. \A i, j \in 1 .. Depth' : Locked(contexts'[i]) /\ Locked(contexts'[j]) => i = j
    BY <1>4 DEF IInv, LockHeld
  <2> QED  BY <2>1, <2>2 DEF LockHeld, Locked
<1>8. ScheduleAlone'
  <2>1. \A i, j \in 1 .. Depth' : contexts'[i].kind = "schedule" /\ j < i => ~InSection(contexts'[j])
    BY <1>4 DEF IInv, ScheduleAlone
  <2> QED  BY <2>1 DEF ScheduleAlone, InSection
<1>9. SectionsCounted'
  <2>1. Sections' = {i \in 1 .. Depth' : InSection(contexts'[i])}
    BY DEF Sections, InSection
  <2>2. Sections' = Sections
    BY <1>2, <1>4, <2>1 DEF Sections
  <2> QED  BY <1>1, <2>2 DEF IInv, SectionsCounted
<1>10. BufferOwned' /\ OwnText' /\ SpinsOnlyForTimers'
  BY <1>1, <1>4 DEF IInv, BufferOwned, OwnText, SpinsOnlyForTimers
<1> QED  BY <1>5, <1>6, <1>7, <1>8, <1>9, <1>10 DEF IInv

-----------------------------------------------------------------------------

\* Whatever the interrupts do, and however deep they nest, the parts of IInv hold.
THEOREM Invariance == Spec => []IInv
<1>1. IInv /\ [Next]_vars => IInv'
  <2> SUFFICES ASSUME IInv, [Next]_vars PROVE IInv'
    OBVIOUS
  <2>1. CASE color_printk
    BY <2>1, CallStep, DecrementStep, FormatStep, EmitStep, UnlockStep, EnableStep DEF color_printk
  <2>2. CASE Interrupt
    BY <2>2, InterruptStep
  <2>3. CASE do_softirq
    <3>1. /\ Depth # 1 /\ Running.pc \in {"idle", "done"} /\ due
          /\ contexts' = [contexts EXCEPT ![Depth] = Context("softirq", TRUE)]
          /\ UNCHANGED <<printk_lock, preempt_count, printk_buf, due, disk>>
      BY <2>3, RunningFacts DEF do_softirq, HandlerEnds, At, IInv, Kinds
    <3> QED  BY <3>1, Begins
  <2>4. CASE schedule
    <3>1. /\ Depth # 1 /\ Running.pc \in {"idle", "done"} /\ preempt_count = 0
          /\ contexts' = [contexts EXCEPT ![Depth] = Context("schedule", FALSE)]
          /\ UNCHANGED <<printk_lock, preempt_count, printk_buf, due, disk>>
      BY <2>4, RunningFacts DEF schedule, MaySchedule, IntrEnds, HandlerEnds, At, IInv, Kinds
    <3> QED  BY <3>1, Begins
  <2>5. CASE Return
    BY <2>5, ReturnStep
  <2>6. CASE NextPrint
    <3>1. /\ Running.kind \in {"process", "softirq"} /\ Running.pc = "done"
          /\ contexts' = [contexts EXCEPT ![Depth] = Context(Running.kind, TRUE)]
          /\ UNCHANGED <<printk_lock, preempt_count, printk_buf, due, disk>>
      BY <2>6 DEF NextPrint, At
    <3>2. /\ Running.kind = "process" <=> Depth = 1
          /\ Running.kind = "softirq" => due
      BY <3>1, RunningFacts DEF IInv, Kinds
    <3>3. CASE Depth = 1
      <4>1. contexts' = [contexts EXCEPT ![Depth] = Context("process", TRUE)]
        BY <3>1, <3>2, <3>3
      <4> QED  BY <3>1, <3>3, <4>1, Begins
    <3>4. CASE Depth # 1
      <4>1. contexts' = [contexts EXCEPT ![Depth] = Context("softirq", TRUE)]
        BY <3>1, <3>2, <3>4
      <4> QED  BY <3>1, <3>2, <3>4, <4>1, Begins
    <3> QED  BY <3>3, <3>4
  <2>7. CASE UNCHANGED vars
    BY <2>7 DEF vars, IInv, Typed, Kinds, LockHeld, ScheduleAlone, BufferOwned, SectionsCounted,
                Sections, OwnText, SpinsOnlyForTimers, Depth, InSection, Locked
  <2> QED  BY <2>1, <2>2, <2>3, <2>4, <2>5, <2>6, <2>7 DEF Next
<1> QED  BY InitIInv, <1>1, PTL DEF Spec

\* Every call of color_printk shows its own text, but for those that the disk
\* interrupts.
THEOREM TextIsOwn == Spec => []OwnText
<1>1. IInv => OwnText
  BY DEF IInv
<1> QED  BY Invariance, <1>1, PTL

\* Nobody spins on printk_lock unless timers come due.
THEOREM NobodySpins == Spec => []SpinsOnlyForTimers
<1>1. IInv => SpinsOnlyForTimers
  BY DEF IInv
<1> QED  BY Invariance, <1>1, PTL

\* preempt_count is the number of calls under way with the lock, taken or wanted:
\* never negative, never more than the contexts there are.
THEOREM CountCorrect == Spec => []CountRight
<1>1. IInv => CountRight
  <2> SUFFICES ASSUME IInv PROVE CountRight
    OBVIOUS
  <2>1. Depth \in Nat \ {0} /\ \A i \in 1 .. Depth : contexts[i] \in ContextRecords
    BY TopType DEF IInv
  <2>2. Cardinality(Sections) <= Cardinality(1 .. Depth) /\ Cardinality(1 .. Depth) = Depth
    BY <2>1, FS_Interval, FS_Subset DEF Sections
  <2>3. preempt_count \in 0 .. MaxDepth
    <3>1. Typed /\ SectionsCounted /\ 0 \in Nat
      BY DEF IInv
    <3>2. preempt_count \in Nat
      BY <3>1, CountChange
    <3>3. preempt_count <= Depth /\ Depth <= MaxDepth /\ MaxDepth \in Nat
      BY <2>2, <3>1, PrintkAssumption DEF Typed, SectionsCounted
    <3> QED  BY <2>1, <3>2, <3>3
  <2>4. CountIsSections
    BY DEF IInv, SectionsCounted, Sections, InSection, CountIsSections
  <2>5. TypeOK
    BY <2>1, <2>3 DEF IInv, Typed, TypeOK, ContextRecords
  <2> QED  BY <2>4, <2>5 DEF CountRight
<1> QED  BY Invariance, <1>1, PTL

=============================================================================
