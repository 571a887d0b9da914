----------------------------- MODULE PageAlloc -----------------------------
(***************************************************************************)
(* Physical memory in pages of 2M (kernel/memory.c): the zones init_memory *)
(* finds in the memory map of the BIOS, the bit map, and the counts of     *)
(* zones and pages that alloc_pages, free_pages, page_init and page_clean  *)
(* keep.                                                                   *)
(*                                                                         *)
(* A record m holds all of this: the operators take the one before and     *)
(* give the one after.  A page is its number.  Every caller asks for       *)
(* ZONE_NORMAL, which is the first zone, as both zone indices stay 0.      *)
(***************************************************************************)
EXTENDS Integers, Sequences, FiniteSets, SequencesExt

CONSTANTS PAGE_2M_SIZE,  \* size of a page, in the unit of the memory map
          WORD,          \* bits of a word of bits_map: 64
          PoolPages,     \* how many pages slab_init sets aside
          Machines       \* the machines that are explored

RAM == 1     \* the type of usable memory

\* PAGE_2M_ALIGN of the start of a range; the end rounded down.
FirstPage(e) == (e.address + PAGE_2M_SIZE - 1) \div PAGE_2M_SIZE
EndPage(e) == (e.address + e.length) \div PAGE_2M_SIZE

\* A machine is its memory map (e820) and the page in which end_of_struct lies
\* after slab_init (last_page), which is not the start of a page.
\* Zones are the usable ranges of at least a page; page 0 is in none of them
\* (the comment in init_memory), and the last page of the map is not memory,
\* as on a PC, where the map ends with the BIOS.
MapPages(machine) == EndPage(Last(machine.e820))
Zones(machine) ==
    LET usable == SelectSeq(machine.e820, LAMBDA e : e.type = RAM /\ EndPage(e) > FirstPage(e))
    IN  [i \in DOMAIN usable |-> [start |-> FirstPage(usable[i]), end |-> EndPage(usable[i])]]

ZonePages(zone) == zone.start .. zone.end - 1

ASSUME PageAllocAssumption ==
    /\ PAGE_2M_SIZE \in Nat \ {0} /\ WORD \in Nat \ {0} /\ PoolPages \in Nat
    /\ \A machine \in Machines :
          /\ machine.e820 # <<>>
          /\ Zones(machine) \in Seq([start : Nat, end : Nat]) /\ Zones(machine) # <<>>
          /\ MapPages(machine) \in Nat /\ MapPages(machine) % WORD = 0
          /\ \A i \in DOMAIN Zones(machine) :
                Zones(machine)[i].start > 0 /\ Zones(machine)[i].end < MapPages(machine)
          /\ \A i, j \in DOMAIN Zones(machine) :
                i < j => Zones(machine)[i].end <= Zones(machine)[j].start
          /\ machine.last_page \in Nat
          /\ 1 .. machine.last_page + PoolPages \subseteq ZonePages(Zones(machine)[1])

VARIABLE machine

Pages == 0 .. MapPages(machine) - 1
zones == Zones(machine)
Null == -1

\* page->zone_struct
ZoneOf(page) == CHOOSE z \in DOMAIN zones : page \in ZonePages(zones[z])

-----------------------------------------------------------------------------

\* The pages of the kernel, of the descriptors slab_init lays out behind it, and of
\* the sixteen pools.
KernelPages == 1 .. machine.last_page + PoolPages

\* The pages that no zone has.
Unzoned == {p \in Pages : \A z \in DOMAIN zones : p \notin ZonePages(zones[z])}

\* init_memory and slab_init: the bit of a page is cleared when a zone has it, then
\* the kernel's pages are marked, counted and initialised one by one.  bits_map is
\* the set of the pages whose bit is 1; page 0 has a reference of its own.
InitialMemory ==
    LET marked(z) == Cardinality(KernelPages \cap ZonePages(zones[z]))
    IN  [bits_map |-> Unzoned \cup KernelPages,
         page_using_count |-> [z \in DOMAIN zones |-> marked(z)],
         page_free_count |-> [z \in DOMAIN zones |-> Cardinality(ZonePages(zones[z])) - marked(z)],
         reference_count |-> [p \in Pages |-> IF p \in KernelPages \cup {0} THEN 1 ELSE 0],
         total_pages_link |-> [z \in DOMAIN zones |-> marked(z)]]

\* A page without references, or a shared one (none is), gets one more.
page_init(m, page) ==
    IF m.reference_count[page] # 0 THEN m
    ELSE [m EXCEPT !.reference_count[page] = @ + 1,
                   !.total_pages_link[ZoneOf(page)] = @ + 1]

page_clean(m, page) ==
    [m EXCEPT !.reference_count[page] = @ - 1, !.total_pages_link[ZoneOf(page)] = @ - 1]

-----------------------------------------------------------------------------

Block(page, number) == page .. page + number - 1

\* The pages alloc_pages tries: all whose bit is in a word of the zone's, so that
\* the last word may lead it beyond the zone.
TriedPages(zone) == zone.start .. ((zone.end + WORD - 1) \div WORD) * WORD - 1

\* Variant: the window is one bit wide.
FreeAtStart(m, page, number) == page \notin m.bits_map

\* The number bits from page on are 0.  Beyond the map nothing is read but behind
\* its last page, whose bit is 1.
FreeBlock(m, page, number) == Block(page, number) \cap m.bits_map = {}

\* The zone is searched at all.
Enough(m, number) == m.page_free_count[1] >= number

\* alloc_pages(ZONE_NORMAL, number): the first free block, or NULL.  The counts are
\* those of the zone searched, whatever zone the block is in.
alloc_pages(m, number) ==
    LET fit == {p \in TriedPages(zones[1]) : FreeBlock(m, p, number)}
        page == CHOOSE p \in fit : \A q \in fit : p <= q
    IN  IF ~Enough(m, number) \/ fit = {}
        THEN [mem |-> m, page |-> Null]
        ELSE [mem |-> [m EXCEPT !.bits_map = @ \cup Block(page, number),
                                !.page_using_count[1] = @ + number,
                                !.page_free_count[1] = @ - number],
              page |-> page]

InBlock(z, page, number) == Cardinality(Block(page, number) \cap ZonePages(zones[z]))

\* free_pages: the counts are those of the zone each page is in.
free_pages(m, page, number) ==
    [m EXCEPT !.bits_map = @ \ Block(page, number),
              !.page_using_count = [z \in DOMAIN zones |-> @[z] - InBlock(z, page, number)],
              !.page_free_count = [z \in DOMAIN zones |-> @[z] + InBlock(z, page, number)]]

=============================================================================
