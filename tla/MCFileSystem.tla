---------------------------- MODULE MCFileSystem ----------------------------
(* FileSystem on a small volume: names of 3 and 1 characters, long entries *)
(* of 3, two FAT entries to a sector, two copies of the FAT.               *)
EXTENDS FileSystem

CONSTANTS p1, p2

MCProcs == {p1, p2}

MCEnd == 90

File(base, ext, first) ==
    [long |-> FALSE, base |-> base, ext |-> ext, dir |-> FALSE, lowerBase |-> FALSE,
     lowerExt |-> FALSE, first |-> first, top |-> first % 2, size |-> 0]
Dir(base, first) == [File(base, <<" ">>, first) EXCEPT !.dir = TRUE]
Long(chars) == [long |-> TRUE, ord |-> "1", chars |-> chars]
Free == File(<<"0xe5", " ", " ">>, <<" ">>, 0)

\* The root directory takes clusters 2 and 3, directory A cluster 4.
MCDirectories ==
    [c \in 2 .. 7 |->
        CASE c = 2 -> << Long(<<"b", "A", "NUL">>), File(<<"B", "0", " ">>, <<"A">>, 6),
                         Dir(<<"A", " ", " ">>, 4), Free >>
          [] c = 3 -> << Free, [File(<<"B", "B", " ">>, <<"A">>, 5) EXCEPT !.lowerBase = TRUE],
                         Long(<<"b", "NUL", "0xffff">>), Long(<<"A", "0", "A">>) >>
          [] c = 4 -> << Dir(<<".", " ", " ">>, 4), Dir(<<".", ".", " ">>, 0),
                         File(<<"0", "0", "0">>, <<"B">>, 7), Free >>
          [] OTHER -> << Free, Free, Free, Free >>]

MCFat(e) == [top |-> e % 2, value |-> IF e = 2 THEN 3 ELSE IF e < 2 THEN 0 ELSE MCEnd]
MCFatSector(s) == [x \in {0, 1} |-> MCFat(2 * s + x)]

MCBoot == [BPB_SecPerClus |-> 2, BPB_RsvdSecCnt |-> 2, BPB_FATSz32 |-> 4,
           BPB_NumFATs |-> 2, BPB_RootClus |-> 2]

MCVolume ==
    [s \in 0 .. 22 |->
        CASE s = 0 -> [start_LBA |-> 1]
          [] s = 1 -> MCBoot
          [] s = 2 -> [start_LBA |-> 0]
          [] s \in 3 .. 10 -> MCFatSector((s - 3) % 4)
          [] OTHER -> SubSeq(MCDirectories[(s - 7) \div 2],
                             2 * ((s - 11) % 2) + 1, 2 * ((s - 11) % 2) + 2)]

MCPaths ==
    {<<>>,
     << <<"b", "A">> >>,                          \* by its long name
     << <<"A">>, <<"0", "0", "0", ".", "B">> >>,   \* in a directory
     << <<"b", "A">>, <<"A">> >>,                  \* through a file
     << <<"A">>, <<"a", "a">> >>,                  \* not there; taken for ".."
     << <<"b", "b", ".", "A">> >>,                 \* in the second cluster
     << <<"B", "0", ".", "A">> >>}                 \* by the short name of a long one

MCFatWrites == {<<6, 7>>, <<7, 5>>, <<6, 5>>}
MCBefore == {Free, Long(<<"0", "NUL", "0xffff">>)}

-----------------------------------------------------------------------------
(* The comparison against what the entries are called, over every short    *)
(* entry and name of a few characters, alone or behind long entries.       *)

Shorts ==
    {[long |-> FALSE, base |-> b, ext |-> e, dir |-> d, lowerBase |-> l, lowerExt |-> FALSE] :
        b \in [1 .. 3 -> {"A", "0", " "}], e \in [1 .. 1 -> {"A", " "}],
        d \in BOOLEAN, l \in BOOLEAN}
Runs == {<<Free>>, <<Long(<<"A", "NUL", "0xffff">>)>>, <<Long(<<"0", "A", "NUL">>)>>,
         <<Long(<<"A", "0", "0">>), Long(<<"A", "A", "0">>)>>,
         <<Long(<<"A", "NUL", "0xffff">>), Long(<<"A", "A", "0">>)>>}
Names == UNION {[1 .. n -> {"A", "a", "0", "."}] : n \in 1 .. 3}
         \cup UNION {[1 .. n -> {"A", "0", "."}] : n \in 4 .. 5}

\* Looked at once, before the volume is mounted.
\* FAT32_lookup takes an entry exactly when it is called by the name that is
\* looked up, whatever lies behind the name: long names over several entries,
\* padded short names, the flags for lower case and the extension together.
ComparisonExact ==
    types = <<>> => \A run \in Runs, e \in Shorts, name \in Names :
        LET entries == Append(run, e)
            i == Len(entries)
        IN  Plain(entries, i, name) =>
                \A slack \in Slack :
                    Taken(entries, i, Free, name, slack) <=> Called(entries, i, name)

=============================================================================
