------------------------------ MODULE FatNames ------------------------------
(***************************************************************************)
(* How FAT32_lookup (kernel/fat32.c) compares a name with the entries of   *)
(* one cluster of a directory, and what those entries are called.  A name  *)
(* is a sequence of characters; the sizes of the name fields are           *)
(* parameters, so that small ones show every case.  The members of DIR_Attr *)
(* and DIR_NTRes the comparison looks at are fields of their own.          *)
(***************************************************************************)
EXTENDS Integers, Sequences, FiniteSets, SequencesExt

CONSTANTS BaseLength,   \* characters of the base name in DIR_Name (8)
          ExtLength,    \* characters of the extension in DIR_Name (3)
          Chunk         \* characters of one long entry: LDIR_Name1, 2 and 3 (13)

\* The characters by the case of the switch that takes them; Plus32 is what
\* adding 32 makes of a letter.
Letters == {"A", "B", "a", "b"}
Digits == {"0"}
Space == " "
Dot == "."
NUL == "NUL"
Pad == "0xffff"
Plus32 == [c \in Letters |-> CASE c = "A" -> "a" [] c = "B" -> "b"
                               [] c = "a" -> "0x81" [] c = "b" -> "0x82"]

\* DIR_Name[0] of an entry that is not in use.
Unused == {"0xe5", "0x00", "0x05"}

\* What lies at index j of the name in its buffer; behind the terminator lies
\* what the memory held before, slack.
CharAt(name, j, slack) ==
    IF j < Len(name) THEN name[j + 1] ELSE IF j = Len(name) THEN NUL ELSE slack

-----------------------------------------------------------------------------
(* Long names: the entries before entry i, from i - 1 downwards.  Before   *)
(* the first entry of the buffer lies whatever the memory in front of it   *)
(* holds: the entry before.                                                *)

EntryAt(entries, i, before) == IF i > 0 THEN entries[i] ELSE before

\* The k-th entry in front of i belongs to the run of long entries.
LongRun(entries, i, before, k) ==
    \A h \in 1 .. k : /\ i - h >= 0
                      /\ EntryAt(entries, i - h, before).long
                      /\ EntryAt(entries, i - h, before).ord # "0xe5"

\* Its characters are those of the name, its terminator and the padding.
ChunkAgrees(entries, i, before, k, name) ==
    \A x \in 1 .. Chunk :
        LET j == (k - 1) * Chunk + x - 1
        IN  EntryAt(entries, i - k, before).chars[x] =
                (IF j <= Len(name) THEN CharAt(name, j, NUL) ELSE Pad)

\* Variant: one chunk is enough.
NeedOne(name) == 1

\* The comparison ends after the chunk that reaches the length of the name.
ChunksNeeded(name) == (Len(name) + Chunk - 1) \div Chunk

\* "found", "fail", or "short" when the long entries do not decide.
LongCompare(entries, i, before, name) ==
    LET seen == {k \in 1 .. ChunksNeeded(name) : LongRun(entries, i, before, k)}
    IN  IF \E k \in seen : ~ChunkAgrees(entries, i, before, k, name) THEN "fail"
        ELSE IF ChunksNeeded(name) \in seen THEN "found" ELSE "short"

-----------------------------------------------------------------------------
(* Short names.  A fold over the characters of the entry gives the index j *)
(* reached in the name, or Fail.                                           *)

Fail == -1

\* One character of the base name.
BaseStep(e, name, slack, j, c) ==
    LET here == CharAt(name, j, slack)
        Same(d) == IF j < Len(name) /\ d = here THEN j + 1 ELSE Fail
    IN  CASE j = Fail -> Fail
          [] j # Fail /\ c = Space /\ ~e.dir ->
                IF here = Dot THEN j ELSE IF here = Space THEN j + 1 ELSE Fail
          [] j # Fail /\ c = Space /\ e.dir ->
                IF j = Len(name) THEN j ELSE Same(Space)
          [] j # Fail /\ c \in Letters -> Same(IF e.lowerBase THEN Plus32[c] ELSE c)
          [] j # Fail /\ c \in Digits -> Same(c)
          [] OTHER -> j + 1

\* One character of the extension.
ExtStep(e, name, slack, j, c) ==
    LET want == IF c \in Letters /\ e.lowerExt THEN Plus32[c] ELSE c
    IN  IF /\ j # Fail
           /\ c \in Letters \cup Digits \cup {Space}
           /\ want = CharAt(name, j, slack)
        THEN j + 1 ELSE Fail

\* A directory is compared by its base name alone; a file's extension starts
\* one character behind the base name, whatever that character is.
ShortCompare(e, name, slack) ==
    LET base == FoldLeft(LAMBDA j, c : BaseStep(e, name, slack, j, c), 0, e.base)
    IN  IF base = Fail \/ e.dir THEN base # Fail
        ELSE FoldLeft(LAMBDA j, c : ExtStep(e, name, slack, j, c), base + 1, e.ext)
                 # Fail

-----------------------------------------------------------------------------

\* The scan takes entry i for the name.
Taken(entries, i, before, name, slack) ==
    /\ ~entries[i].long
    /\ entries[i].base[1] \notin Unused
    /\ LET long == LongCompare(entries, i, before, name)
       IN  long = "found" \/ (long = "short" /\ ShortCompare(entries[i], name, slack))

\* The first entry that is taken, or 0.
Scan(entries, before, name, slack) ==
    LET taken == {i \in 1 .. Len(entries) : Taken(entries, i, before, name, slack)}
    IN  IF taken = {} THEN 0
        ELSE CHOOSE i \in taken : \A k \in taken : i <= k

-----------------------------------------------------------------------------
(* What the entries are called, for comparison: no part of the code.       *)

TrimSpaces(s) == SelectSeq(s, LAMBDA c : c # Space)
Cased(s, lower) ==
    [x \in 1 .. Len(s) |-> IF lower /\ s[x] \in Letters THEN Plus32[s[x]] ELSE s[x]]

ShortName(e) ==
    LET base == Cased(TrimSpaces(e.base), e.lowerBase)
        ext == Cased(TrimSpaces(e.ext), e.lowerExt)
    IN  IF ext = <<>> THEN base ELSE base \o <<Dot>> \o ext

\* The number of long entries right in front of entry i, and their characters.
RunLength(entries, i) ==
    Cardinality({k \in 1 .. i - 1 : \A h \in 1 .. k : entries[i - h].long})
LongName(entries, i) ==
    SelectSeq(FlattenSeq([k \in 1 .. RunLength(entries, i) |-> entries[i - k].chars]),
              LAMBDA c : c \notin {NUL, Pad})

\* Entry i is called name.
Called(entries, i, name) ==
    /\ ~entries[i].long /\ entries[i].base[1] \notin Unused
    /\ name = IF RunLength(entries, i) > 0 THEN LongName(entries, i)
                                           ELSE ShortName(entries[i])

\* The names and entries the comparison is exact for.  Otherwise: a base name
\* with another character than letters and digits passes for any other; the
\* character between a full base name and the extension is not looked at, nor
\* is what follows the extension or the name of a directory; a name that ends
\* with a full base name is compared with what lies behind it; an extension
\* that is not full is not found; a long name that fills its chunks is found
\* by its beginnings; too few long entries leave the decision to the short
\* name; before the first entry of a cluster lies other memory.
Plain(entries, i, name) ==
    LET e == entries[i]
    IN  /\ \A x \in 1 .. Len(name) : name[x] # Space
        /\ IF RunLength(entries, i) > 0
           THEN Len(name) % Chunk # 0 /\ ChunksNeeded(name) <= RunLength(entries, i)
           ELSE /\ i > 1
                /\ \A x \in 2 .. BaseLength : e.base[x - 1] = Space => e.base[x] = Space
                /\ \A x \in 1 .. BaseLength : e.base[x] \in Letters \cup Digits \cup {Space}
                /\ IF e.dir
                   THEN Len(name) <= BaseLength /\ TrimSpaces(e.ext) = <<>>
                   ELSE /\ Space \notin Range(e.base) =>
                              /\ Len(name) # BaseLength
                              /\ Len(name) > BaseLength => name[BaseLength + 1] = Dot
                        /\ Len(name) <= Len(ShortName(e))
                        /\ Space \notin Range(e.ext)

=============================================================================
