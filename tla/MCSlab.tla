------------------------------- MODULE MCSlab -------------------------------
(* Slab with three sizes: objects for maps and caches, descriptors, and    *)
(* large ones, and a cache of slab_create.  A page is two units, a word of *)
(* the bit map eight pages.                                                *)
EXTENDS Slab

CONSTANTS small, descriptors, large, cache

Entry(address, length, type) == [address |-> address, length |-> length, type |-> type]

\* One zone of the pages 1 .. 8, two words.
OneZone == [e820 |-> <<Entry(0, 1, RAM), Entry(1, 17, RAM), Entry(18, 14, 2)>>, last_page |-> 2]

\* Two zones in one word, with a page between that is no memory: 1 .. 12 and 14 .. 15.
TwoZones == [e820 |-> <<Entry(2, 24, RAM), Entry(26, 2, 3), Entry(28, 5, RAM), Entry(33, 15, 2)>>,
             last_page |-> 6]

MCMachines == {OneZone, TwoZones}
MCMaxHeld == [m \in MCMachines |-> IF m = OneZone THEN 4 ELSE 3]
MCSizes == {small, descriptors, large}
MCInPage == {small, descriptors}
MCCaches == {cache}
MCCount == [o \in MCSizes \cup MCCaches |-> 2]
MCCreatedCount == [o \in MCSizes |-> 2]
MCPoolPage == [o \in MCSizes |-> CASE o = small -> 1 [] o = descriptors -> 2 [] o = large -> 3]
MCMapSize == [o \in MCSizes \cup MCCaches |-> small]
MCNumbers == {1, 2}

=============================================================================
