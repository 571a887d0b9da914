-------------------------- MODULE InputLoopProofs --------------------------
(***************************************************************************)
(* Theorems about InputLoop, for buffers of any size and any scripts.  The *)
(* two pointers of a buffer wrap on their own; what keeps them in step is  *)
(* that the head is as many slots behind the tail as bytes are unread.     *)
(***************************************************************************)
EXTENDS InputLoop, SequenceTheorems, TLAPS

\* The slot k places behind the slot t, for k up to the size of the buffer.
Slot(t, k) == IF t + k < KB_BUF_SIZE THEN t + k ELSE t + k - KB_BUF_SIZE

Typed ==
    /\ script \in Scripts
    /\ sent \in [Devices -> Nat] /\ taken \in [Devices -> Nat]
    /\ \A d \in Devices : sent[d] <= Len(Stream(d))
    /\ buf \in [Devices -> [0 .. KB_BUF_SIZE - 1 -> Int]]
    /\ p_head \in [Devices -> 0 .. KB_BUF_SIZE] /\ p_tail \in [Devices -> 0 .. KB_BUF_SIZE]
    /\ count \in [Devices -> Nat]
    /\ overrun \in [Devices -> BOOLEAN]
    /\ device \in Devices /\ step \in {"test", "get", "load", "store"}
    /\ ret \in Int /\ loaded \in Nat /\ mouse_count \in 0 .. 3
    /\ packet \in Seq(Int) /\ Len(packet) = 3

\* The byte being taken is one of the unread ones, in memory and in the register.
TakesUnread ==
    /\ CountNeverAhead
    /\ step = "load" => count[device] >= 1
    /\ step = "store" => loaded >= 1 /\ loaded <= Unread(device)
    /\ step \in {"load", "store"} => p_tail[device] < KB_BUF_SIZE

\* The unread bytes of d, from the tail on.
RingHolds(d) ==
    /\ Unread(d) <= KB_BUF_SIZE
    /\ Wrapped(p_head[d]) = Slot(Wrapped(p_tail[d]), Unread(d))
    /\ \A k \in 0 .. Unread(d) - 1 :
          buf[d][Slot(Wrapped(p_tail[d]), k)] = Stream(d)[taken[d] + k + 1]

RingsHold == \A d \in Devices : ~overrun[d] => RingHolds(d)

\* The packet under way: its bytes so far are the last ones taken.
PacketUnderWay ==
    ~overrun["mouse"] =>
        /\ mouse_count = 0 => taken["mouse"] = 0
        /\ mouse_count = 1 => \/ taken["mouse"] = 1
                              \/ \A i \in 1 .. 3 : packet[i] = taken["mouse"] - 4 + i
        /\ mouse_count = 2 => packet[1] = taken["mouse"] - 1
        /\ mouse_count = 3 => packet[1] = taken["mouse"] - 2 /\ packet[2] = taken["mouse"] - 1

IInv ==
    /\ Typed
    /\ TakesUnread
    /\ RingsHold
    /\ ReadInOrder
    /\ PacketUnderWay

-----------------------------------------------------------------------------

LEMMA StreamType ==
    ASSUME script \in Scripts, NEW d \in Devices
    PROVE  /\ Stream(d) \in Seq(Int) /\ Len(Stream(d)) \in Nat
           /\ \A i \in 1 .. Len(Stream(d)) : Stream(d)[i] \in Int
           /\ d = "mouse" => \A i \in 1 .. Len(Stream(d)) : Stream(d)[i] = i - 1
<1>1. CASE d = "keyboard"
  <2>1. Stream(d) \in Seq(Nat)
    BY <1>1, InputLoopAssumption DEF Stream
  <2>2. Stream(d) \in Seq(Int)
    BY <2>1
  <2> QED  BY <1>1, <2>2, ElementOfSeq, LenProperties
<1>2. CASE d = "mouse"
  <2>1. Stream(d) = [i \in 1 .. MouseBytes |-> i - 1] /\ MouseBytes \in Nat
    BY <1>2, InputLoopAssumption DEF Stream
  <2>2. Stream(d) \in Seq(Int) /\ Len(Stream(d)) = MouseBytes
    BY <2>1
  <2> QED  BY <2>1, <2>2
<1> QED  BY <1>1, <1>2 DEF Devices

LEMMA SizeType == KB_BUF_SIZE \in Nat \ {0}
<1> QED  BY InputLoopAssumption

LEMMA SlotFacts ==
    ASSUME NEW t \in 0 .. KB_BUF_SIZE - 1, NEW k \in 0 .. KB_BUF_SIZE
    PROVE  /\ Slot(t, k) \in 0 .. KB_BUF_SIZE - 1
           /\ Slot(t, 0) = t
           /\ k < KB_BUF_SIZE => Wrapped(Slot(t, k) + 1) = Slot(t, k + 1)
           /\ k < KB_BUF_SIZE => Slot(Wrapped(t + 1), k) = Slot(t, k + 1)
           /\ \A j \in 0 .. KB_BUF_SIZE - 1 : k < KB_BUF_SIZE /\ j # k => Slot(t, j) # Slot(t, k)
<1> DEFINE n == KB_BUF_SIZE
<1>1. n \in Nat \ {0} /\ t \in 0 .. n - 1 /\ k \in 0 .. n
  BY SizeType
<1>2. Slot(t, k) \in 0 .. n - 1 /\ Slot(t, 0) = t
  BY <1>1 DEF Slot
<1>3. k < n => Wrapped(Slot(t, k) + 1) = Slot(t, k + 1)
  BY <1>1 DEF Slot, Wrapped
<1>4. k < n => Slot(Wrapped(t + 1), k) = Slot(t, k + 1)
  BY <1>1 DEF Slot, Wrapped
<1>5. \A j \in 0 .. n - 1 : k < n /\ j # k => Slot(t, j) # Slot(t, k)
  BY <1>1 DEF Slot
<1> QED  BY <1>2, <1>3, <1>4, <1>5

LEMMA WrappedType ==
    ASSUME NEW p \in 0 .. KB_BUF_SIZE
    PROVE  /\ Wrapped(p) \in 0 .. KB_BUF_SIZE - 1
           /\ Wrapped(p) + 1 \in 0 .. KB_BUF_SIZE
           /\ Wrapped(Wrapped(p)) = Wrapped(p)
<1> QED  BY SizeType DEF Wrapped

LEMMA InitIInv == Init => IInv
<1> SUFFICES ASSUME Init PROVE IInv
  OBVIOUS
<1>1. KB_BUF_SIZE \in Nat \ {0} /\ script \in Scripts
  BY SizeType DEF Init
<1>2. <<0, 0, 0>> \in Seq(Int) /\ Len(<<0, 0, 0>>) = 3
  OBVIOUS
<1>3. Typed
  BY <1>1, <1>2, StreamType DEF Init, Typed, Devices
<1>4. TakesUnread
  BY <1>1 DEF Init, TakesUnread, CountNeverAhead, Unread, Devices
<1>5. RingsHold
  BY <1>1 DEF Init, RingsHold, RingHolds, Unread, Slot, Wrapped
<1>6. ReadInOrder /\ PacketUnderWay
  BY DEF Init, ReadInOrder, PacketUnderWay, Devices
<1> QED  BY <1>3, <1>4, <1>5, <1>6 DEF IInv

-----------------------------------------------------------------------------
(* A handler puts a byte in, at any place of the loop.                     *)

LEMMA HandlerStep ==
    ASSUME IInv, NEW d \in Devices, Handler(d)
    PROVE  IInv'
<1> DEFINE n == KB_BUF_SIZE
           p == Wrapped(p_head[d])
           byte == Stream(d)[sent[d] + 1]
<1>1. /\ sent[d] < Len(Stream(d))
      /\ buf' = [buf EXCEPT ![d][p] = byte]
      /\ count' = [count EXCEPT ![d] = @ + 1]
      /\ p_head' = [p_head EXCEPT ![d] = p + 1]
      /\ sent' = [sent EXCEPT ![d] = @ + 1]
      /\ overrun' = [overrun EXCEPT ![d] = @ \/ Unread(d) = n]
      /\ UNCHANGED <<script, taken, p_tail, device, step, ret, loaded, sequence,
                     modifiers, mouse_count, packet>>
  BY DEF Handler
<1>2. /\ Typed /\ n \in Nat \ {0} /\ p \in 0 .. n - 1 /\ p + 1 \in 0 .. n
      /\ script \in Scripts /\ sent[d] \in Nat /\ byte \in Int /\ Len(Stream(d)) \in Nat
  <2>1. /\ Typed /\ script \in Scripts /\ sent[d] \in Nat /\ p_head[d] \in 0 .. n
    BY DEF IInv, Typed
  <2>2. n \in Nat \ {0} /\ p \in 0 .. n - 1 /\ p + 1 \in 0 .. n
    BY <2>1, SizeType, WrappedType
  <2>3. Len(Stream(d)) \in Nat /\ \A i \in 1 .. Len(Stream(d)) : Stream(d)[i] \in Int
    BY <2>1, StreamType
  <2>4. byte \in Int
    BY <1>1, <2>1, <2>3
  <2> QED  BY <2>1, <2>2, <2>3, <2>4
<1> HIDE DEF p, byte
<1>3. \A e \in Devices : Stream(e)' = Stream(e)
  BY <1>1 DEF Stream
<1>4. \A e \in Devices :
        /\ sent'[e] = IF e = d THEN sent[e] + 1 ELSE sent[e]
        /\ count'[e] = IF e = d THEN count[e] + 1 ELSE count[e]
        /\ p_head'[e] = IF e = d THEN p + 1 ELSE p_head[e]
        /\ overrun[e] => overrun'[e]
        /\ e = d /\ Unread(d) = n => overrun'[e]
        /\ \A q \in 0 .. n - 1 : buf'[e][q] = IF e = d /\ q = p THEN byte ELSE buf[e][q]
  BY <1>1, <1>2 DEF Typed
<1>5. Typed'
  <2>1. buf' \in [Devices -> [0 .. n - 1 -> Int]]
    BY <1>1, <1>2 DEF Typed
  <2>2. /\ sent' \in [Devices -> Nat] /\ count' \in [Devices -> Nat]
        /\ p_head' \in [Devices -> 0 .. n] /\ overrun' \in [Devices -> BOOLEAN]
    <3>1. sent' \in [Devices -> Nat] /\ count' \in [Devices -> Nat]
      <4>1. sent \in [Devices -> Nat] /\ count \in [Devices -> Nat]
        BY <1>2 DEF Typed
      <4> QED  BY <1>1, <4>1
    <3>2. p_head' \in [Devices -> 0 .. n]
      BY <1>1, <1>2 DEF Typed
    <3> DEFINE b == overrun[d] \/ Unread(d) = n
    <3>3. overrun' = [overrun EXCEPT ![d] = b] /\ b \in BOOLEAN
      BY <1>1
    <3> HIDE DEF b
    <3>4. overrun' \in [Devices -> BOOLEAN]
      BY <1>2, <3>3 DEF Typed
    <3> QED  BY <3>1, <3>2, <3>4
  <2>3. \A e \in Devices : sent'[e] <= Len(Stream(e)')
    BY <1>1, <1>2, <1>3, <1>4 DEF Typed
  <2> QED  BY <1>1, <1>2, <2>1, <2>2, <2>3 DEF Typed
<1>6. TakesUnread'
  <2>1. \A e \in Devices : sent[e] \in Nat /\ taken[e] \in Nat /\ count[e] \in Nat
    BY <1>2 DEF Typed
  <2>2. /\ \A e \in Devices : count[e] <= sent[e] - taken[e]
        /\ step = "load" => count[device] >= 1
        /\ step = "store" => loaded >= 1 /\ loaded <= sent[device] - taken[device]
        /\ step \in {"load", "store"} => p_tail[device] < n
        /\ device \in Devices /\ loaded \in Nat
    BY <1>2 DEF IInv, TakesUnread, CountNeverAhead, Unread, Typed
  <2> QED  BY <1>1, <1>4, <2>1, <2>2 DEF TakesUnread, CountNeverAhead, Unread
<1>7. RingsHold'
  <2> SUFFICES ASSUME NEW e \in Devices, ~overrun'[e] PROVE RingHolds(e)'
    BY DEF RingsHold
  <2> DEFINE t == Wrapped(p_tail[e])
             u == sent[e] - taken[e]
  <2>1. /\ t \in 0 .. n - 1 /\ u \in Int /\ u <= n
        /\ Wrapped(p_head[e]) = Slot(t, u)
        /\ \A k \in 0 .. u - 1 : buf[e][Slot(t, k)] = Stream(e)[taken[e] + k + 1]
        /\ u >= 0 /\ (e = d => u < n)
    <3>1. RingHolds(e)
      BY <1>4 DEF IInv, RingsHold
    <3>2. p_tail[e] \in 0 .. n /\ sent[e] \in Nat /\ taken[e] \in Nat /\ count[e] \in Nat
      BY <1>2 DEF Typed
    <3>3. t \in 0 .. n - 1
      BY <3>2, WrappedType
    <3>4. u >= 0
      BY <3>2 DEF IInv, TakesUnread, CountNeverAhead, Unread
    <3>5. e = d => u # n
      BY <1>4 DEF Unread
    <3> QED  BY <1>2, <3>1, <3>2, <3>3, <3>4, <3>5 DEF RingHolds, Unread
  <2> HIDE DEF t
  <2>2. Wrapped(p_tail'[e]) = t
    BY <1>1 DEF t, Wrapped
  <2>3. CASE e # d
    <3>1. sent'[e] - taken'[e] = u /\ Wrapped(p_head'[e]) = Slot(t, u) /\ taken'[e] = taken[e]
      BY <1>1, <1>4, <2>1, <2>3 DEF Wrapped
    <3>2. \A k \in 0 .. u - 1 : Slot(t, k) \in 0 .. n - 1
      <4> SUFFICES ASSUME NEW k \in 0 .. u - 1 PROVE Slot(t, k) \in 0 .. n - 1
        OBVIOUS
      <4>1. k \in 0 .. n
        BY <1>2, <2>1
      <4> QED  BY <2>1, <4>1, SlotFacts
    <3>3. \A k \in 0 .. u - 1 : buf'[e][Slot(t, k)] = Stream(e)'[taken'[e] + k + 1]
      BY <1>3, <1>4, <2>1, <2>3, <3>1, <3>2
    <3> QED  BY <2>1, <2>2, <3>1, <3>3 DEF RingHolds, Unread, Slot, Wrapped
  <2>4. CASE e = d
    <3>1. /\ sent'[e] - taken'[e] = u + 1 /\ taken'[e] = taken[e] /\ p = Slot(t, u)
          /\ byte = Stream(e)[taken[e] + u + 1] /\ u \in 0 .. n - 1
      <4>1. taken[e] \in Nat /\ sent[e] \in Nat
        BY <1>2 DEF Typed
      <4>2. sent'[e] = sent[e] + 1 /\ taken'[e] = taken[e]
        BY <1>1, <1>4, <2>4
      <4>3. p = Slot(t, u)
        BY <2>1, <2>4 DEF p
      <4>4. byte = Stream(e)[sent[e] + 1] /\ taken[e] + u + 1 = sent[e] + 1
        BY <2>4, <4>1 DEF byte
      <4>5. u \in 0 .. n - 1 /\ sent'[e] - taken'[e] = u + 1
        BY <1>2, <2>1, <2>4, <4>1, <4>2
      <4> QED  BY <4>2, <4>3, <4>4, <4>5
    <3>2. Wrapped(p_head'[e]) = Slot(t, u + 1)
      <4>1. p_head'[e] = Slot(t, u) + 1 /\ u \in 0 .. n /\ u < n
        BY <1>2, <1>4, <2>4, <3>1
      <4>2. Wrapped(Slot(t, u) + 1) = Slot(t, u + 1)
        BY <2>1, <4>1, SlotFacts
      <4> QED  BY <4>1, <4>2
    <3>3. \A k \in 0 .. u : Slot(t, k) \in 0 .. n - 1 /\ (k < u => Slot(t, k) # p)
      <4> SUFFICES ASSUME NEW k \in 0 .. u
                   PROVE  Slot(t, k) \in 0 .. n - 1 /\ (k < u => Slot(t, k) # p)
        OBVIOUS
      <4>1. k \in 0 .. n - 1 /\ k \in 0 .. n /\ u \in 0 .. n /\ u < n
        BY <1>2, <3>1
      <4>2. Slot(t, k) \in 0 .. n - 1
        BY <2>1, <4>1, SlotFacts
      <4>3. \A j \in 0 .. n - 1 : j # u => Slot(t, j) # Slot(t, u)
        BY <2>1, <4>1, SlotFacts
      <4> QED  BY <3>1, <4>1, <4>2, <4>3
    <3>4. \A k \in 0 .. u : buf'[e][Slot(t, k)] = Stream(e)[taken[e] + k + 1]
      <4> SUFFICES ASSUME NEW k \in 0 .. u
                   PROVE  buf'[e][Slot(t, k)] = Stream(e)[taken[e] + k + 1]
        OBVIOUS
      <4>1. CASE k = u
        BY <1>4, <2>4, <3>1, <3>3, <4>1
      <4>2. CASE k < u
        BY <1>4, <2>1, <2>4, <3>3, <4>2
      <4> QED  BY <2>1, <4>1, <4>2
    <3>5. u + 1 <= n /\ \A k \in 0 .. u + 1 - 1 : k \in 0 .. u
      BY <1>2, <3>1
    <3>6. \A k \in 0 .. u + 1 - 1 : buf'[e][Slot(t, k)] = Stream(e)'[taken'[e] + k + 1]
      BY <1>3, <3>1, <3>4, <3>5
    <3> QED  BY <2>2, <3>1, <3>2, <3>5, <3>6 DEF RingHolds, Unread, Slot, Wrapped
  <2> QED  BY <2>3, <2>4
<1>8. ReadInOrder'
  <2>1. device \in Devices
    BY <1>2 DEF Typed
  <2> QED  BY <1>1, <1>3, <1>4, <2>1 DEF IInv, ReadInOrder
<1>9. PacketUnderWay'
  BY <1>1, <1>4 DEF IInv, PacketUnderWay, Devices
<1> QED  BY <1>5, <1>6, <1>7, <1>8, <1>9 DEF IInv

-----------------------------------------------------------------------------
(* The loop takes bytes out.                                               *)

\* Nothing is put in or taken out.
LEMMA RingsKept ==
    ASSUME RingsHold, UNCHANGED <<handled, taken>>,
           \A d \in Devices : Wrapped(p_tail'[d]) = Wrapped(p_tail[d])
    PROVE  RingsHold'
<1>1. UNCHANGED <<script, sent, buf, p_head, overrun, taken>>
  BY DEF handled
<1>2. \A d \in Devices : Stream(d)' = Stream(d) /\ Unread(d)' = Unread(d)
  BY <1>1 DEF Stream, Unread
<1> SUFFICES ASSUME NEW d \in Devices, ~overrun'[d] PROVE RingHolds(d)'
  BY DEF RingsHold
<1>3. RingHolds(d)
  BY <1>1 DEF RingsHold
<1> QED  BY <1>1, <1>2, <1>3 DEF RingHolds, Slot, Wrapped

LEMMA TestStep == IInv /\ Test => IInv'
<1> SUFFICES ASSUME IInv, Test PROVE IInv'
  OBVIOUS
<1>1. /\ step' \in {"test", "get"} /\ device' \in Devices
      /\ UNCHANGED <<handled, taken, p_tail, count, ret, loaded, sequence, modifiers,
                     mouse_count, packet>>
  BY DEF Test, IInv, Typed, Devices
<1>2. Typed'
  BY <1>1 DEF IInv, Typed, handled, Stream
<1>3. TakesUnread'
  BY <1>1 DEF IInv, TakesUnread, CountNeverAhead, Unread, handled
<1>4. RingsHold'
  BY <1>1, RingsKept DEF IInv
<1>5. ReadInOrder' /\ PacketUnderWay'
  BY <1>1 DEF IInv, ReadInOrder, PacketUnderWay, handled
<1> QED  BY <1>2, <1>3, <1>4, <1>5 DEF IInv

LEMMA ReadStep == IInv /\ Read => IInv'
<1> SUFFICES ASSUME IInv, Read PROVE IInv'
  OBVIOUS
<1> DEFINE n == KB_BUF_SIZE
           p == Wrapped(p_tail[device])
<1>1. /\ step = "get" /\ count[device] # 0 /\ ret' = buf[device][p]
      /\ p_tail' = [p_tail EXCEPT ![device] = p] /\ step' = "load"
      /\ UNCHANGED <<handled, taken, count, device, loaded, sequence, modifiers,
                     mouse_count, packet>>
  BY DEF Read, HasByte
<1>2. /\ n \in Nat \ {0} /\ device \in Devices /\ p \in 0 .. n - 1 /\ p \in 0 .. n
      /\ Wrapped(p) = p
  <2>1. device \in Devices /\ p_tail[device] \in 0 .. n
    BY DEF IInv, Typed
  <2> QED  BY <2>1, SizeType, WrappedType
<1>3. p_tail \in [Devices -> 0 .. n] /\ buf \in [Devices -> [0 .. n - 1 -> Int]]
  BY DEF IInv, Typed
<1>4. \A d \in Devices : Wrapped(p_tail'[d]) = Wrapped(p_tail[d])
  BY <1>1, <1>2, <1>3
<1>5. p_tail'[device] = p
  BY <1>1, <1>2, <1>3
<1> HIDE DEF p
<1>6. p_tail' \in [Devices -> 0 .. n] /\ ret' \in Int
  BY <1>1, <1>2, <1>3
<1>7. Typed'
  BY <1>1, <1>6 DEF IInv, Typed, handled, Stream
<1>8. sent[device] \in Nat /\ taken[device] \in Nat /\ count[device] \in Nat
  BY DEF IInv, Typed
<1>9. TakesUnread'
  <2>1. CountNeverAhead'
    BY <1>1 DEF IInv, TakesUnread, CountNeverAhead, Unread, handled
  <2>2. count'[device] >= 1 /\ p_tail'[device] < n /\ device' = device /\ step' = "load"
    BY <1>1, <1>2, <1>5, <1>8
  <2> QED  BY <2>1, <2>2 DEF TakesUnread
<1>10. RingsHold'
  BY <1>1, <1>4, RingsKept DEF IInv
<1>11. ReadInOrder'
  <2> SUFFICES ASSUME ~overrun[device] PROVE ret' = Stream(device)[taken[device] + 1]
    BY <1>1 DEF ReadInOrder, handled, Stream
  <2>1. RingHolds(device) /\ count[device] <= Unread(device)
    BY <1>2 DEF IInv, RingsHold, TakesUnread, CountNeverAhead
  <2>2. 0 \in 0 .. Unread(device) - 1
    BY <1>1, <1>8, <2>1 DEF Unread
  <2>3. buf[device][Slot(p, 0)] = Stream(device)[taken[device] + 0 + 1]
    BY <2>1, <2>2 DEF RingHolds, p
  <2>4. Slot(p, 0) = p
    BY <1>2, SlotFacts
  <2> QED  BY <1>1, <1>8, <2>3, <2>4
<1>12. PacketUnderWay'
  BY <1>1 DEF IInv, PacketUnderWay, handled
<1> QED  BY <1>7, <1>9, <1>10, <1>11, <1>12 DEF IInv

LEMMA LoadStep == IInv /\ Load => IInv'
<1> SUFFICES ASSUME IInv, Load PROVE IInv'
  OBVIOUS
<1>1. /\ step = "load" /\ loaded' = count[device] /\ step' = "store"
      /\ UNCHANGED <<handled, taken, p_tail, count, device, ret, sequence, modifiers,
                     mouse_count, packet>>
  BY DEF Load
<1>2. /\ device \in Devices /\ count[device] \in Nat /\ count[device] >= 1
      /\ count[device] <= Unread(device) /\ p_tail[device] < KB_BUF_SIZE
  BY <1>1 DEF IInv, Typed, TakesUnread, CountNeverAhead
<1>3. Typed'
  BY <1>1, <1>2 DEF IInv, Typed, handled, Stream
<1>4. TakesUnread'
  BY <1>1, <1>2 DEF IInv, TakesUnread, CountNeverAhead, Unread, handled
<1>5. RingsHold'
  BY <1>1, RingsKept DEF IInv
<1>6. ReadInOrder' /\ PacketUnderWay'
  BY <1>1 DEF IInv, ReadInOrder, PacketUnderWay, handled, Stream
<1> QED  BY <1>3, <1>4, <1>5, <1>6 DEF IInv

\* What both analysing functions do to the buffer and its count.
LEMMA TakenKeeps ==
    ASSUME IInv, Taken, step' \in {"test", "get"}, device' \in Devices,
           mouse_count' \in 0 .. 3, packet' \in Seq(Int), Len(packet') = 3
    PROVE  Typed' /\ TakesUnread' /\ RingsHold' /\ ReadInOrder'
<1> DEFINE n == KB_BUF_SIZE
           d == device
<1>1. /\ step = "store"
      /\ count' = [count EXCEPT ![d] = loaded - 1]
      /\ p_tail' = [p_tail EXCEPT ![d] = @ + 1]
      /\ taken' = [taken EXCEPT ![d] = @ + 1]
      /\ UNCHANGED <<script, sent, buf, p_head, overrun, ret, loaded>>
  BY DEF Taken, handled, CountAfterTake
<1>2. /\ d \in Devices /\ n \in Nat \ {0} /\ loaded \in Nat /\ loaded >= 1
      /\ loaded <= Unread(d) /\ p_tail[d] \in 0 .. n - 1 /\ taken[d] \in Nat /\ sent[d] \in Nat
  <2>1. d \in Devices /\ loaded \in Nat /\ p_tail[d] \in 0 .. n /\ taken[d] \in Nat /\ sent[d] \in Nat
    BY DEF IInv, Typed
  <2>2. loaded >= 1 /\ loaded <= Unread(d) /\ p_tail[d] < n
    BY <1>1 DEF IInv, TakesUnread
  <2> QED  BY <2>1, <2>2, SizeType
<1>3. /\ count \in [Devices -> Nat] /\ taken \in [Devices -> Nat]
      /\ p_tail \in [Devices -> 0 .. n]
  BY DEF IInv, Typed
<1> HIDE DEF d
<1>4. /\ count' \in [Devices -> Nat] /\ taken' \in [Devices -> Nat]
      /\ p_tail' \in [Devices -> 0 .. n]
  BY <1>1, <1>2, <1>3
<1>5. \A e \in Devices :
        /\ count'[e] = IF e = d THEN loaded - 1 ELSE count[e]
        /\ taken'[e] = IF e = d THEN taken[d] + 1 ELSE taken[e]
        /\ p_tail'[e] = IF e = d THEN p_tail[d] + 1 ELSE p_tail[e]
  BY <1>1, <1>3
<1>6. \A e \in Devices : Stream(e)' = Stream(e)
  BY <1>1 DEF Stream
<1>7. Typed'
  <2>1. \A e \in Devices : sent'[e] <= Len(Stream(e)')
    BY <1>1, <1>6 DEF IInv, Typed
  <2> QED  BY <1>1, <1>4, <2>1 DEF IInv, Typed
<1>8. TakesUnread'
  <2>1. \A e \in Devices : count[e] <= sent[e] - taken[e]
    BY DEF IInv, TakesUnread, CountNeverAhead, Unread
  <2>2. \A e \in Devices : count'[e] <= sent'[e] - taken'[e]
    BY <1>1, <1>2, <1>5, <2>1 DEF Unread
  <2> QED  BY <2>2 DEF TakesUnread, CountNeverAhead, Unread
<1>9. RingsHold'
  <2> SUFFICES ASSUME NEW e \in Devices, ~overrun'[e] PROVE RingHolds(e)'
    BY DEF RingsHold
  <2>1. RingHolds(e)
    BY <1>1 DEF IInv, RingsHold
  <2>2. CASE e # d
    <3>1. p_tail'[e] = p_tail[e] /\ taken'[e] = taken[e]
      BY <1>5, <2>2
    <3> QED  BY <1>1, <1>6, <2>1, <3>1 DEF RingHolds, Unread, Slot, Wrapped
  <2>3. CASE e = d
    <3> DEFINE t == p_tail[d]
               u == sent[d] - taken[d]
    <3>1. /\ t \in 0 .. n - 1 /\ u \in 1 .. n /\ Wrapped(t) = t
          /\ Wrapped(p_head[d]) = Slot(t, u)
          /\ \A k \in 0 .. u - 1 : buf[d][Slot(t, k)] = Stream(d)[taken[d] + k + 1]
      <4>1. Wrapped(t) = t
        BY <1>2 DEF Wrapped
      <4> QED  BY <1>2, <2>1, <2>3, <4>1 DEF RingHolds, Unread
    <3>2. Wrapped(p_tail'[e]) = Wrapped(t + 1)
      BY <1>5, <2>3
    <3>3. \A k \in 0 .. n - 1 : Slot(Wrapped(t + 1), k) = Slot(t, k + 1)
      <4> SUFFICES ASSUME NEW k \in 0 .. n - 1
                   PROVE  Slot(Wrapped(t + 1), k) = Slot(t, k + 1)
        OBVIOUS
      <4>1. k \in 0 .. n /\ k < n
        BY <1>2
      <4> HIDE DEF t
      <4> QED  BY <3>1, <4>1, SlotFacts
    <3>4. sent'[e] - taken'[e] = u - 1 /\ taken'[e] = taken[d] + 1 /\ u - 1 \in 0 .. n - 1
      BY SMTT(30), <1>1, <1>2, <1>5, <2>3, <3>1
    <3>5. Wrapped(p_head'[e]) = Slot(Wrapped(t + 1), u - 1)
      BY <1>1, <2>3, <3>1, <3>3, <3>4
    <3>6. \A k \in 0 .. u - 1 - 1 :
             buf'[e][Slot(Wrapped(t + 1), k)] = Stream(e)'[taken'[e] + k + 1]
      <4> SUFFICES ASSUME NEW k \in 0 .. u - 1 - 1
                   PROVE  buf'[e][Slot(Wrapped(t + 1), k)] = Stream(e)'[taken'[e] + k + 1]
        OBVIOUS
      <4>1. k \in 0 .. n - 1 /\ k + 1 \in 0 .. u - 1 /\ taken'[e] + k + 1 = taken[d] + (k + 1) + 1
        <5>1. taken[d] \in Int /\ k \in Int
          BY <1>2
        <5>2. u \in Int /\ u <= n /\ 0 <= k /\ k <= u - 1 - 1 /\ n \in Int
          BY <1>2, <3>1
        <5> HIDE DEF u
        <5>3. k \in 0 .. n - 1 /\ k + 1 \in 0 .. u - 1
          BY <5>1, <5>2
        <5>4. taken'[e] = taken[d] + 1
          BY <3>4
        <5>5. taken'[e] + k + 1 = taken[d] + (k + 1) + 1
          BY <5>1, <5>4
        <5> QED  BY <5>3, <5>5
      <4>2. buf[d][Slot(t, k + 1)] = Stream(d)[taken[d] + (k + 1) + 1]
        BY <3>1, <4>1
      <4> QED  BY <1>1, <1>6, <2>3, <3>3, <4>1, <4>2
    <3>7. u - 1 <= n
      BY <1>2, <3>4
    <3> HIDE DEF t, u
    <3> QED  BY <3>2, <3>4, <3>5, <3>6, <3>7 DEF RingHolds, Unread, Slot, Wrapped
  <2> QED  BY <2>2, <2>3
<1>10. ReadInOrder'
  BY DEF ReadInOrder
<1> QED  BY <1>7, <1>8, <1>9, <1>10

LEMMA KeycodeStep == IInv /\ analysis_keycode => IInv'
<1> SUFFICES ASSUME IInv, analysis_keycode PROVE IInv'
  OBVIOUS
<1>1. /\ device = "keyboard" /\ Taken /\ step' \in {"test", "get"} /\ device' \in Devices
      /\ UNCHANGED <<mouse_count, packet>>
  BY DEF analysis_keycode, Devices
<1>2. Typed' /\ TakesUnread' /\ RingsHold' /\ ReadInOrder'
  BY <1>1, TakenKeeps DEF IInv, Typed
<1>3. taken'["mouse"] = taken["mouse"] /\ UNCHANGED overrun
  BY <1>1 DEF Taken, handled, IInv, Typed, Devices
<1>4. PacketUnderWay'
  BY <1>1, <1>3 DEF IInv, PacketUnderWay
<1> QED  BY <1>2, <1>4 DEF IInv

LEMMA MousecodeStep == IInv /\ analysis_mousecode => IInv'
<1> SUFFICES ASSUME IInv, analysis_mousecode PROVE IInv'
  OBVIOUS
<1> DEFINE m == taken["mouse"]
<1>1. /\ device = "mouse" /\ Taken /\ step = "store" /\ step' = "test" /\ device' = "keyboard"
      /\ mouse_count' = IF mouse_count = 3 THEN 1 ELSE mouse_count + 1
      /\ packet' = IF mouse_count = 0 THEN packet ELSE [packet EXCEPT ![mouse_count] = ret]
  BY DEF analysis_mousecode, NextMouseCount, Taken
<1>2. /\ mouse_count \in 0 .. 3 /\ packet \in Seq(Int) /\ Len(packet) = 3 /\ ret \in Int
      /\ m \in Nat /\ sent["mouse"] \in Nat /\ "mouse" \in Devices
  BY DEF IInv, Typed, Devices
<1>3. /\ packet' \in Seq(Int) /\ Len(packet') = 3
      /\ \A i \in 1 .. 3 : packet'[i] = IF i = mouse_count THEN ret ELSE packet[i]
  <2>1. CASE mouse_count = 0
    BY <1>1, <1>2, <2>1
  <2>2. CASE mouse_count # 0
    <3> DEFINE s == [packet EXCEPT ![mouse_count] = ret]
    <3>1. mouse_count \in 1 .. Len(packet) /\ packet' = s
      BY <1>1, <1>2, <2>2
    <3> DEFINE Bytes == Int
    <3>2. packet \in Seq(Bytes) /\ ret \in Bytes
      BY <1>2
    <3> HIDE DEF Bytes
    <3>3. /\ s \in Seq(Bytes) /\ Len(s) = Len(packet)
          /\ \A j \in 1 .. Len(packet) : s[j] = IF j = mouse_count THEN ret ELSE packet[j]
      BY <3>1, <3>2, ExceptSeq
    <3> HIDE DEF s
    <3> USE DEF Bytes
    <3> QED  BY <1>2, <3>1, <3>3
  <2> QED  BY <2>1, <2>2
<1>4. Typed' /\ TakesUnread' /\ RingsHold' /\ ReadInOrder'
  BY <1>1, <1>2, <1>3, TakenKeeps DEF Devices
<1>5. taken'["mouse"] = m + 1 /\ UNCHANGED overrun
  BY <1>1, <1>2 DEF Taken, handled, IInv, Typed
<1>6. ~overrun["mouse"] => ret = m
  <2> SUFFICES ASSUME ~overrun["mouse"] PROVE ret = m
    OBVIOUS
  <2>1. ret = Stream("mouse")[m + 1]
    BY <1>1 DEF IInv, ReadInOrder
  <2>2. /\ sent["mouse"] <= Len(Stream("mouse")) /\ script \in Scripts
        /\ loaded >= 1 /\ loaded <= Unread("mouse") /\ loaded \in Nat
    BY <1>1, <1>2 DEF IInv, Typed, TakesUnread
  <2>3. /\ Len(Stream("mouse")) \in Nat
        /\ \A i \in 1 .. Len(Stream("mouse")) : Stream("mouse")[i] = i - 1
    BY <1>2, <2>2, StreamType
  <2>4. m + 1 \in 1 .. Len(Stream("mouse"))
    BY <1>2, <2>2, <2>3 DEF Unread
  <2> QED  BY <1>2, <2>1, <2>3, <2>4
<1> HIDE DEF m
<1>7. PacketUnderWay'
  <2> SUFFICES ASSUME ~overrun["mouse"]
               PROVE  /\ mouse_count' = 0 => m + 1 = 0
                      /\ mouse_count' = 1 => \/ m + 1 = 1
                                             \/ \A i \in 1 .. 3 : packet'[i] = m + 1 - 4 + i
                      /\ mouse_count' = 2 => packet'[1] = m + 1 - 1
                      /\ mouse_count' = 3 => packet'[1] = m + 1 - 2 /\ packet'[2] = m + 1 - 1
    BY <1>2, <1>5 DEF PacketUnderWay
  <2>1. ret = m
    BY <1>6
  <2>2. /\ mouse_count = 0 => m = 0
        /\ mouse_count = 2 => packet[1] = m - 1
        /\ mouse_count = 3 => packet[1] = m - 2 /\ packet[2] = m - 1
    BY DEF IInv, PacketUnderWay, m
  <2>3. mouse_count' = 1 => m + 1 = 1 \/ \A i \in 1 .. 3 : packet'[i] = m + 1 - 4 + i
    <3>1. CASE mouse_count = 0
      BY <1>2, <2>2, <3>1
    <3>2. CASE mouse_count = 3
      <4>1. packet'[1] = m - 2 /\ packet'[2] = m - 1 /\ packet'[3] = m
        BY <1>3, <2>1, <2>2, <3>2
      <4> QED  BY <1>2, <4>1
    <3> QED  BY <1>1, <1>2, <3>1, <3>2
  <2>4. mouse_count' = 2 => packet'[1] = m
    BY <1>1, <1>2, <1>3, <2>1
  <2>5. mouse_count' = 3 => packet'[1] = m - 1 /\ packet'[2] = m
    BY <1>1, <1>2, <1>3, <2>1, <2>2
  <2> QED  BY <1>1, <1>2, <2>3, <2>4, <2>5
<1> QED  BY <1>4, <1>7 DEF IInv

-----------------------------------------------------------------------------

\* The parts of IInv hold for buffers of any size and any scripts.
THEOREM Invariance == Spec => []IInv
<1>1. IInv /\ [Next]_vars => IInv'
  <2> SUFFICES ASSUME IInv, [Next]_vars PROVE IInv'
    OBVIOUS
  <2>1. CASE \E d \in Devices : Handler(d)
    BY <2>1, HandlerStep
  <2>2. CASE Loop
    BY <2>2, TestStep, ReadStep, LoadStep, KeycodeStep, MousecodeStep DEF Loop
  <2>3. CASE UNCHANGED vars
    <3>1. UNCHANGED <<handled, taken, p_tail, count, device, step, ret, loaded, mouse_count, packet>>
      BY <2>3 DEF vars
    <3>2. Typed'
      BY <3>1 DEF handled, IInv, Typed, Stream
    <3>3. TakesUnread'
      BY <3>1 DEF handled, IInv, TakesUnread, CountNeverAhead, Unread
    <3>4. RingsHold'
      <4>1. \A d \in Devices : Wrapped(p_tail'[d]) = Wrapped(p_tail[d])
        BY <3>1 DEF Wrapped
      <4> QED  BY <3>1, <4>1, RingsKept DEF IInv
    <3>5. ReadInOrder' /\ PacketUnderWay'
      BY <3>1 DEF handled, IInv, ReadInOrder, Stream, PacketUnderWay
    <3> QED  BY <3>2, <3>3, <3>4, <3>5 DEF IInv
  <2> QED  BY <2>1, <2>2, <2>3 DEF Next
<1> QED  BY InitIInv, <1>1, PTL DEF Spec

\* Both ring buffers give what was put in, in order and never more of it.
THEOREM BuffersCorrect == Spec => []BuffersFaithful
<1>1. IInv => BuffersFaithful
  <2> SUFFICES ASSUME IInv PROVE BuffersFaithful
    OBVIOUS
  <2>1. \A d \in Devices : sent[d] \in Nat /\ sent[d] <= Len(Stream(d)) /\ Len(Stream(d)) \in Nat
    BY StreamType DEF IInv, Typed
  <2>2. TypeOK
    BY <2>1 DEF IInv, Typed, TypeOK
  <2> QED  BY <2>2 DEF IInv, TakesUnread, BuffersFaithful
<1> QED  BY Invariance, <1>1, PTL

\* No packet of the mouse is put together of the bytes of two.
THEOREM PacketsCorrect == Spec => []PacketsWhole
<1>1. IInv => PacketsWhole
  BY SMTT(30) DEF IInv, Typed, PacketUnderWay, PacketsWhole, Devices
<1> QED  BY Invariance, <1>1, PTL

=============================================================================
