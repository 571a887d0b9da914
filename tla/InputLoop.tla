----------------------------- MODULE InputLoop -----------------------------
(***************************************************************************)
(* The keyboard and the mouse: their interrupt handlers put bytes into two *)
(* ring buffers (keyboard_handler, mouse_handler), and the endless loop at *)
(* the end of KaliKernel takes them out (analysis_keycode,               *)
(* analysis_mousecode).  A handler runs with interrupts disabled, so in    *)
(* one step, between any two accesses of the loop; count-- is a load and a *)
(* store, so an interrupt between the two is not counted.                  *)
(*                                                                         *)
(* The bytes the keyboard sends are those of a script, a sequence of       *)
(* strokes [key, down, codes].                                             *)
(* The n-th byte the mouse sends is the number n: number 0 is the          *)
(* acknowledgement 0xFA, then every three numbers are a packet.            *)
(***************************************************************************)
EXTENDS Integers, Sequences, SequencesExt

CONSTANTS KB_BUF_SIZE,
          Scripts,      \* the scripts of the keyboard that are explored
          MouseBytes    \* bound: bytes the mouse sends

\* What the keyboard sends in the course of a script.
CodesSent(strokes) == FlattenSeq([i \in DOMAIN strokes |-> strokes[i].codes])

ASSUME InputLoopAssumption ==
    /\ KB_BUF_SIZE \in Nat \ {0}
    /\ MouseBytes \in Nat
    /\ \A strokes \in Scripts : /\ \A i \in DOMAIN strokes : strokes[i].down \in BOOLEAN
                                /\ CodesSent(strokes) \in Seq(Nat)

Devices == {"keyboard", "mouse"}

VARIABLES script,
          sent, taken,    \* of each device: bytes put in and taken out, ever
          buf, p_head, p_tail, count,      \* the ring buffer of each device
          device, step,   \* the device the loop looks at; where it is in the loop
          ret, loaded,    \* get_scancode's ret; its register in count--
          sequence,       \* the codes analysis_keycode has read of this key
          modifiers,      \* shift_l, ctrl_r, ...: the names of those that are 1
          misread,        \* history: names whose state a sequence misread may have spoilt
          mouse_count, packet,
          overrun         \* of each device: bytes have been written over unread ones

handled == <<script, sent, buf, p_head, overrun>>
vars == <<handled, taken, p_tail, count, device, step, ret, loaded, sequence,
          modifiers, misread, mouse_count, packet>>

\* The bytes a device sends in this behaviour.
Stream(d) ==
    IF d = "keyboard" THEN CodesSent(script)
                      ELSE [i \in 1 .. MouseBytes |-> i - 1]

Unread(d) == sent[d] - taken[d]

\* keyboard_init, mouse_init.
Init ==
    /\ script \in Scripts
    /\ sent = [d \in Devices |-> 0] /\ taken = [d \in Devices |-> 0]
    /\ buf = [d \in Devices |-> [i \in 0 .. KB_BUF_SIZE - 1 |-> 0]]
    /\ p_head = [d \in Devices |-> 0] /\ p_tail = [d \in Devices |-> 0]
    /\ count = [d \in Devices |-> 0]
    /\ device = "keyboard" /\ step = "test"
    /\ ret = 0 /\ loaded = 0
    /\ sequence = <<>> /\ modifiers = {} /\ misread = {}
    /\ mouse_count = 0 /\ packet = <<0, 0, 0>>
    /\ overrun = [d \in Devices |-> FALSE]

-----------------------------------------------------------------------------
(* The ring buffers.                                                       *)

\* The pointer before it is used: one past the end becomes the start.
Wrapped(p) == IF p = KB_BUF_SIZE THEN 0 ELSE p

\* keyboard_handler, mouse_handler.
Handler(d) ==
    LET p == Wrapped(p_head[d]) IN
    /\ sent[d] < Len(Stream(d))
    /\ buf' = [buf EXCEPT ![d][p] = Stream(d)[sent[d] + 1]]
    /\ count' = [count EXCEPT ![d] = @ + 1]
    /\ p_head' = [p_head EXCEPT ![d] = p + 1]
    /\ sent' = [sent EXCEPT ![d] = @ + 1]
    /\ overrun' = [overrun EXCEPT ![d] = @ \/ Unread(d) = KB_BUF_SIZE]
    /\ UNCHANGED <<script, taken, p_tail, device, step, ret, loaded, sequence,
                   modifiers, misread, mouse_count, packet>>

\* while(!count)
HasByte == count[device] # 0

\* get_scancode, get_mousecode: the wait, and the read at the tail.
Read ==
    LET p == Wrapped(p_tail[device]) IN
    /\ step = "get" /\ HasByte
    /\ ret' = buf[device][p]
    /\ p_tail' = [p_tail EXCEPT ![device] = p]
    /\ step' = "load"
    /\ UNCHANGED <<handled, taken, count, device, loaded, sequence, modifiers,
                   misread, mouse_count, packet>>

\* count--: the load.
Load ==
    /\ step = "load"
    /\ loaded' = count[device]
    /\ step' = "store"
    /\ UNCHANGED <<handled, taken, p_tail, count, device, ret, sequence, modifiers,
                   misread, mouse_count, packet>>

\* Variant: the byte stays counted.
CountKept == loaded

CountAfterTake == loaded - 1

\* count--: the store, and p_tail++.
Taken ==
    /\ step = "store"
    /\ count' = [count EXCEPT ![device] = CountAfterTake]
    /\ p_tail' = [p_tail EXCEPT ![device] = @ + 1]
    /\ taken' = [taken EXCEPT ![device] = @ + 1]
    /\ UNCHANGED <<handled, ret, loaded>>

-----------------------------------------------------------------------------
(* analysis_keycode.                                                       *)

pausebreak_scode == <<\hE1, \h1D, \h45, \hE1, \h9D, \hC5>>
PrintScreenMake == <<\hE0, \h2A, \hE0, \h37>>
PrintScreenBreak == <<\hE0, \hB7, \hE0, \hAA>>

\* Variant: the code of the right ctrl key is waited behind as well.
ContinuesMore(s) == s \in {<<\hE0>>, <<\hE0, \h2A>>, <<\hE0, \hB7>>, <<\hE0, \h1D>>}

\* analysis_keycode asks for another code after s: s is the beginning of one of
\* the three long sequences.
Continues(s) ==
    \E whole \in {pausebreak_scode, PrintScreenMake, PrintScreenBreak} :
        Len(s) < Len(whole) /\ s = SubSeq(whole, 1, Len(s))

\* Whose make code this is, after E0 or alone.
ExtendedKey == [c \in {\h1D, \h38} |-> IF c = \h1D THEN "ctrl_r" ELSE "alt_r"]
PlainKey == [c \in {\h2A, \h36, \h1D, \h38} |->
                CASE c = \h2A -> "shift_l" [] c = \h36 -> "shift_r"
                  [] c = \h1D -> "ctrl_l"  [] c = \h38 -> "alt_l"]

\* x & 0x7F is the key, x & FLAG_BREAK whether it is released.
Applied(keys, x, old) ==
    IF x % 128 \notin DOMAIN keys THEN old
    ELSE IF x < 128 THEN old \cup {keys[x % 128]} ELSE old \ {keys[x % 128]}

\* Variant: the fake shift of the print screen key is taken for a shift.
ModifiersFakeShift(s, old) ==
    IF s[1] = \hE0 THEN Applied([c \in {\h1D, \h38, \h2A} |->
                            IF c = \h2A THEN "shift_l" ELSE ExtendedKey[c]], s[2], old)
                   ELSE Applied(PlainKey, s[1], old)

\* The modifiers after the codes s.  What begins like the print screen key and
\* goes on otherwise leaves key = 0, and its second code is taken as a plain one.
ModifiersAfter(s, old) ==
    IF s \in {pausebreak_scode, PrintScreenMake, PrintScreenBreak} THEN old
    ELSE IF s[1] = \hE0
    THEN IF s[2] \in {\h2A, \hB7} THEN Applied(PlainKey, s[2], old)
                                  ELSE Applied(ExtendedKey, s[2], old)
    ELSE Applied(PlainKey, s[1], old)

\* The control keys whose states keyboard.c:11 declares.
Names == {"shift_l", "shift_r", "ctrl_l", "ctrl_r", "alt_l", "alt_r"}

\* How many codes the first i strokes of the script are.
End(i) == Len(CodesSent(SubSeq(script, 1, i)))

\* s is misread: it begins like the print screen key and goes on otherwise, so
\* that codes which mean something else are taken for the rest of it.
Broken(s) == /\ Len(s) > 2 /\ s[1] = \hE0 /\ s[2] \in {\h2A, \hB7}
             /\ s \notin {PrintScreenMake, PrintScreenBreak}

\* misread after the sequence s, the last code of which is the n-th sent.  A
\* misread sequence spoils the shift it may set and the keys of every stroke it
\* takes codes of, and all keys when it ends inside a stroke; a stroke that is
\* read as it was sent makes its key good again.
MisreadAfter(s, n) ==
    IF Broken(s)
    THEN misread \cup
            (IF \E i \in DOMAIN script : End(i) = n
             THEN {"shift_l"} \cup {k \in Names : \E i \in DOMAIN script :
                      script[i].key = k /\ End(i - 1) < n /\ n - Len(s) < End(i)}
             ELSE Names)
    ELSE misread \ {k \in Names : \E i \in DOMAIN script :
                        script[i].key = k /\ End(i) = n /\ script[i].codes = s}

analysis_keycode ==
    /\ device = "keyboard" /\ Taken
    /\ LET s == Append(sequence, ret) IN
       IF Continues(s)
       THEN /\ sequence' = s /\ step' = "get"
            /\ UNCHANGED <<device, modifiers, misread>>
       ELSE /\ sequence' = <<>> /\ step' = "test"
            /\ device' = "mouse"
            /\ modifiers' = ModifiersAfter(s, modifiers)
            /\ misread' = MisreadAfter(s, taken["keyboard"] + 1)
    /\ UNCHANGED <<mouse_count, packet>>

-----------------------------------------------------------------------------
(* analysis_mousecode.                                                     *)

\* Variant: every packet is taken to begin with an acknowledgement.
CountFromZero == IF mouse_count = 3 THEN 0 ELSE mouse_count + 1

\* mouse_count: the byte of the packet that comes next.
NextMouseCount == IF mouse_count = 3 THEN 1 ELSE mouse_count + 1

analysis_mousecode ==
    /\ device = "mouse" /\ Taken
    /\ mouse_count' = NextMouseCount
    /\ packet' = IF mouse_count = 0 THEN packet ELSE [packet EXCEPT ![mouse_count] = ret]
    /\ step' = "test" /\ device' = "keyboard"
    /\ UNCHANGED <<sequence, modifiers, misread>>

\* The loop of KaliKernel: if(p_kb->count) ... if(p_mouse->count) ...
Test ==
    /\ step = "test"
    /\ IF count[device] # 0
       THEN step' = "get" /\ UNCHANGED device
       ELSE /\ device' = IF device = "keyboard" THEN "mouse" ELSE "keyboard"
            /\ UNCHANGED step
    /\ UNCHANGED <<handled, taken, p_tail, count, ret, loaded, sequence, modifiers,
                   misread, mouse_count, packet>>

Loop == Test \/ Read \/ Load \/ analysis_keycode \/ analysis_mousecode

Next == (\E d \in Devices : Handler(d)) \/ Loop

Spec == Init /\ [][Next]_vars

\* The processor keeps executing the loop, and the devices send what they have
\* to send.
FairSpec == Spec /\ WF_vars(Loop) /\ \A d \in Devices : WF_vars(Handler(d))

-----------------------------------------------------------------------------

TypeOK ==
    /\ script \in Scripts
    /\ \A d \in Devices :
          /\ sent[d] \in 0 .. Len(Stream(d)) /\ taken[d] \in Nat
          /\ DOMAIN buf[d] = 0 .. KB_BUF_SIZE - 1
          /\ p_head[d] \in 0 .. KB_BUF_SIZE /\ p_tail[d] \in 0 .. KB_BUF_SIZE
    /\ count \in [Devices -> Nat]
    /\ overrun \in [Devices -> BOOLEAN]
    /\ device \in Devices /\ step \in {"test", "get", "load", "store"}
    /\ loaded \in Nat /\ mouse_count \in 0 .. 3 /\ Len(packet) = 3

\* The loop never takes a byte that was not put in: count is at most the number
\* of unread bytes, although an interrupt inside count-- makes it less.
CountNeverAhead == \A d \in Devices : count[d] <= Unread(d)

\* While no byte was written over, what is read is what was sent, in order:
\* two pointers that wrap on their own, and a count, stay in step.
ReadInOrder ==
    step \in {"load", "store"} /\ ~overrun[device] => ret = Stream(device)[taken[device] + 1]

\* Both ring buffers give what was put in, no more and in order.
BuffersFaithful == TypeOK /\ CountNeverAhead /\ ReadInOrder

\* The modifiers that are down after the first n codes of the script.
HeldAfter(n) ==
    {k \in Names : \E i \in DOMAIN script :
        /\ script[i].key = k /\ script[i].down /\ End(i) <= n
        /\ \A j \in i + 1 .. Len(script) : End(j) <= n => script[j].key # k}

\* The comment in keyboard.c:11: shift_l ... alt_r are the states of the control
\* keys.  Whenever the codes so far are analysed and none was lost, each of them
\* that is not spoilt says whether its key is held.  A key is spoilt by nothing
\* but a sequence that begins like the print screen key and goes on otherwise.
ModifiersAreHeld ==
    sequence = <<>> /\ ~overrun["keyboard"] =>
        \A k \in Names \ misread : k \in modifiers <=> k \in HeldAfter(taken["keyboard"])

\* A packet of the mouse is never put together of bytes of two packets, however
\* bytes arrive between the steps of the loop, unless some were written over.
PacketsWhole ==
    mouse_count = 1 /\ taken["mouse"] > 1 /\ ~overrun["mouse"] =>
        \A i \in 1 .. 3 : packet[i] = taken["mouse"] - 4 + i

\* get_scancode in the middle of a key, with a code in the buffer that an
\* interrupt inside count-- has left uncounted.
WaitsForUncounted ==
    device = "keyboard" /\ step = "get" /\ count[device] = 0 /\ Unread(device) > 0

\* The mouse is served: the loop gets on to it unless the keyboard's codes were
\* written over, or it waits for one it already has.
MouseServed ==
    count["mouse"] > 0 ~>
        (count["mouse"] = 0 \/ overrun["keyboard"] \/ WaitsForUncounted)

=============================================================================
