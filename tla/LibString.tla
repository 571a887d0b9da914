----------------------------- MODULE LibString -----------------------------
(***************************************************************************)
(* The memory and string functions of include/lib.h.  A memory is a        *)
(* function from addresses to bytes (signed chars; 0 ends a string).  A    *)
(* function that writes gives the memory it leaves; what it returns is left *)
(* out, for its assembly moves the register of an operand it declares as   *)
(* unchanged.  memset and memcpy move 8 bytes at a time and then a tail: a *)
(* sequence of blocks, each read as a whole before it is written.          *)
(***************************************************************************)
EXTENDS Integers, Sequences, FiniteSets, SequencesExt

CONSTANTS AddressBits,   \* bits of an address (64)
          UserEnd        \* what verify_area compares with

\* The three tests of Count after the quadwords.
Rest(Count) ==
    (IF (Count \div 4) % 2 = 1 THEN <<4>> ELSE <<>>) \o
    (IF (Count \div 2) % 2 = 1 THEN <<2>> ELSE <<>>) \o
    (IF Count % 2 = 1 THEN <<1>> ELSE <<>>)

Quads(Count) == [i \in 1 .. Count \div 8 |-> 8]
Single(Count) == [i \in 1 .. Count |-> 1]

\* Blocks of these widths, one after the other: offset and width of each.
Areas(widths) ==
    [i \in DOMAIN widths |->
        [at |-> FoldLeft(+, 0, SubSeq(widths, 1, i - 1)), width |-> widths[i]]]

Inside(a, start, area) == a - start \in area.at .. area.at + area.width - 1

CopyBlocks(mem, From, To, widths) ==
    FoldLeft(LAMBDA m, area : [a \in DOMAIN m |->
                IF Inside(a, To, area) THEN m[From + (a - To)] ELSE m[a]],
             mem, Areas(widths))

memset(mem, Address, C, Count) ==
    FoldLeft(LAMBDA m, area : [a \in DOMAIN m |-> IF Inside(a, Address, area) THEN C ELSE m[a]],
             mem, Areas(Quads(Count) \o Rest(Count)))

memcpy(mem, From, To, Num) == CopyBlocks(mem, From, To, Quads(Num) \o Rest(Num))

-----------------------------------------------------------------------------
(* Strings; two areas that are given do not overlap.                       *)

\* repne scasb with 0.
strlen(mem, String) ==
    CHOOSE n \in 0 .. Cardinality(DOMAIN mem) :
        /\ mem[String + n] = 0
        /\ \A k \in 0 .. n - 1 : mem[String + k] # 0

strcpy(mem, Dest, Src) == CopyBlocks(mem, Src, Dest, Single(strlen(mem, Src) + 1))

\* At the terminator al is 0, and rep stosb stores it in what is left.
strncpy(mem, Dest, Src, Count) ==
    [a \in DOMAIN mem |->
        IF a - Dest \notin 0 .. Count - 1 THEN mem[a]
        ELSE IF \E k \in 0 .. a - Dest : mem[Src + k] = 0 THEN 0 ELSE mem[Src + (a - Dest)]]

strcat(mem, Dest, Src) ==
    CopyBlocks(mem, Src, Dest + strlen(mem, Dest), Single(strlen(mem, Src) + 1))

\* cmps and scas leave the flags of second - first.
Order(first, second) == IF first = second THEN 0 ELSE IF second < first THEN 1 ELSE -1

\* The first of the places that stop a comparison of n bytes, or the last byte.
FirstOf(n, stops) ==
    IF stops = {} THEN n - 1 ELSE CHOOSE k \in stops : \A h \in stops : k <= h

\* repe cmpsb; with a Count of 0 the flags are those of earlier code.
memcmp(mem, FirstPart, SecondPart, Count) ==
    LET differ == {k \in 0 .. Count - 1 : mem[FirstPart + k] # mem[SecondPart + k]}
        at == FirstOf(Count, differ)
    IN  Order(mem[FirstPart + at], mem[SecondPart + at])

strncmp(mem, FirstPart, SecondPart, Count) ==
    LET ends == {k \in 0 .. Count - 1 : \/ mem[FirstPart + k] # mem[SecondPart + k]
                                        \/ mem[SecondPart + k] = 0}
        at == FirstOf(Count, ends)
    IN  IF Count = 0 THEN 0 ELSE Order(mem[FirstPart + at], mem[SecondPart + at])

strcmp(mem, FirstPart, SecondPart) ==
    strncmp(mem, FirstPart, SecondPart, strlen(mem, FirstPart) + 1)

-----------------------------------------------------------------------------
(* Copies from and to a process; the sum of address and size wraps.        *)

verify_area(addr, size) == (addr + size) % 2 ^ AddressBits <= UserEnd

\* Both copies leave the count of the last rep in size: 0 is returned whether
\* they copy or refuse.
copy_from_user(mem, from, to, size) ==
    [mem |-> IF verify_area(from, size)
             THEN CopyBlocks(mem, from, to, Quads(size) \o Single(size % 8)) ELSE mem,
     returns |-> 0]
copy_to_user(mem, from, to, size) ==
    [mem |-> IF verify_area(to, size)
             THEN CopyBlocks(mem, from, to, Quads(size) \o Single(size % 8)) ELSE mem,
     returns |-> 0]
strncpy_from_user(mem, from, to, size) ==
    IF verify_area(from, size) THEN [mem |-> strncpy(mem, to, from, size), returns |-> size]
    ELSE [mem |-> mem, returns |-> 0]
strnlen_user(mem, src, maxlen) ==
    LET size == strlen(mem, src)
    IN  IF ~ verify_area(src, size) THEN 0 ELSE IF size <= maxlen THEN size ELSE maxlen

-----------------------------------------------------------------------------
(* What the callers rely on, over small memories.                          *)

Text(mem, at) == [k \in 1 .. strlen(mem, at) |-> mem[at + k - 1]]

\* The order of strings: the shorter of two that agree comes first.
Before(s, t) ==
    \E k \in 0 .. Len(s) : /\ k <= Len(t) /\ SubSeq(s, 1, k) = SubSeq(t, 1, k)
                           /\ IF k = Len(s) THEN k < Len(t)
                              ELSE k < Len(t) /\ s[k + 1] < t[k + 1]
Compared(s, t) == IF Before(s, t) THEN -1 ELSE IF Before(t, s) THEN 1 ELSE 0
Cut(s, n) == SubSeq(s, 1, IF n < Len(s) THEN n ELSE Len(s))

\* Every byte of the area, and no other, is written, for every count up to
\* three quadwords; a copy downwards may overlap.
AreasExact ==
    LET mem == [a \in 0 .. 55 |-> a]
    IN  \A n \in 0 .. 24, from \in {0, 3, 25}, to \in {0, 1, 29} :
            /\ memset(mem, to, -1, n) =
                   [a \in 0 .. 55 |-> IF a - to \in 0 .. n - 1 THEN -1 ELSE a]
            /\ to <= from \/ to >= from + n =>
                   memcpy(mem, from, to, n) =
                       [a \in 0 .. 55 |-> IF a - to \in 0 .. n - 1 THEN from + (a - to) ELSE a]

\* Two strings of up to two characters, at 0 and 3, and room for both at 6.
\* A character from 128 up is negative and would come before the terminator.
SmallMemories ==
    {mem \in [0 .. 10 -> {0, 1, 2}] : mem[2] = 0 /\ mem[5] = 0 /\ \A a \in 6 .. 10 : mem[a] = 1}

StringsAgree(mem) ==
    LET s == Text(mem, 0)
        t == Text(mem, 3)
        copied == strcpy(mem, 6, 0)
        joined == strcat(copied, 6, 3)
    IN  /\ strcmp(mem, 0, 3) = Compared(s, t)
        /\ Text(copied, 6) = s /\ Text(joined, 6) = s \o t
        /\ \A n \in 0 .. 3 :
              LET part == strncpy(mem, 6, 0, n)
              IN  /\ strncmp(mem, 0, 3, n) = Compared(Cut(s, n), Cut(t, n))
                  /\ \A k \in 0 .. 4 :
                        part[6 + k] = IF k >= n THEN 1 ELSE IF k < Len(s) THEN s[k + 1] ELSE 0
                  /\ n > 0 => memcmp(mem, 0, 3, n) =
                        Compared([k \in 1 .. n |-> mem[k - 1]], [k \in 1 .. n |-> mem[k + 2]])
                  /\ strnlen_user(mem, 0, n) = Len(Cut(s, n))
                  /\ strncpy_from_user(mem, 0, 6, n).mem = part

\* An area is copied when it ends in front of UserEnd, unless its end wraps.
UserCopiesAgree ==
    LET mem == [a \in 0 .. 55 |-> a]
    IN  \A n \in 0 .. 24, from \in {3, 12, 25} :
            from + n < 2 ^ AddressBits =>
                /\ copy_from_user(mem, from, 0, n).mem =
                      IF from + n <= UserEnd THEN memcpy(mem, from, 0, n) ELSE mem
                /\ copy_to_user(mem, 30, from, n).mem =
                      IF from + n <= UserEnd THEN memcpy(mem, 30, from, n) ELSE mem

\* The memory and string functions of lib.h do what their comments say.
StringFunctionsExact ==
    AreasExact /\ UserCopiesAgree /\ \A mem \in SmallMemories : StringsAgree(mem)

=============================================================================
