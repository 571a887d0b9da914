----------------------------- MODULE SlabProofs -----------------------------
(***************************************************************************)
(* Proofs about Slab, for any machine, any sizes and any number of caches  *)
(* and objects: the books stay right, everything has one owner, the pools  *)
(* stay, and the allocator implements Heap.                                *)
(***************************************************************************)
EXTENDS Slab, FiniteSetTheorems, SequenceTheorems, WellFoundedInduction, TLAPS

-----------------------------------------------------------------------------
(* What holds of the memory between two calls, and within a call between   *)
(* the steps of it: Good.  U are the objects of kmalloc that somebody but  *)
(* a slab has, B the pages that somebody but a slab has.                   *)

ObjectType == [page : Int, index : Nat]
SlabType == [color_map : SUBSET Nat, using_count : Int, free_count : Int, color_count : Nat,
             descriptor : ObjectType, map : ObjectType]
MemType ==
    [bits_map : SUBSET Pages,
     page_using_count : [DOMAIN zones -> Int], page_free_count : [DOMAIN zones -> Int],
     reference_count : [Pages -> 0 .. 1], total_pages_link : [DOMAIN zones -> Int],
     list : [Owners -> Seq(Pages)],
     total_free : [Owners -> Int], total_using : [Owners -> Int],
     slab : [Pages -> SlabType],
     fault : BOOLEAN]

\* The pages, of which S are slabs and B have other owners.
PagesFor(m, S, B) ==
    /\ m.bits_map = Reserved \cup S \cup B
    /\ Reserved \cap S = {} /\ Reserved \cap B = {} /\ S \cap B = {}
    /\ \A p \in S \cup 0 .. machine.last_page : m.reference_count[p] = 1

\* The counts of the zones.
Linked(m) ==
    \A z \in DOMAIN zones : m.total_pages_link[z]
                  = Cardinality({p \in ZonePages(zones[z]) : m.reference_count[p] = 1})
ZoneCounts(m) ==
    /\ \A z \in DOMAIN zones : m.page_free_count[z] + m.page_using_count[z]
                                  = Cardinality(ZonePages(zones[z]))
    /\ Sum(m.page_free_count) = Sum([z \in DOMAIN zones |-> Cardinality(ZonePages(zones[z]) \ m.bits_map)])

PagesRight(m, S, B) == PagesFor(m, S, B) /\ Linked(m) /\ ZoneCounts(m)

\* A page is once on one list, and every size has its pool.
Distinct(list) == \A i, j \in DOMAIN list : list[i] = list[j] => i = j

Listed(m) ==
    /\ \A o \in Owners : Distinct(m.list[o])
    /\ \A o, n \in Owners : o # n => SlabsOf(m, o) \cap SlabsOf(m, n) = {}
    /\ \A size \in Sizes : m.list[size] # <<>>

\* The counts of a slab.
MapRight(s, o) ==
    /\ s.color_map \subseteq 0 .. s.color_count - 1
    /\ s.free_count = s.color_count - Cardinality(s.color_map)
    /\ o \in Sizes => s.using_count = Cardinality(s.color_map)
MapsRight(m) ==
    /\ \A o \in Owners : \A p \in SlabsOf(m, o) : MapRight(m.slab[p], o)
    /\ \A p \in Pages : m.slab[p].color_map \subseteq 0 .. m.slab[p].color_count - 1

\* Where a slab has its descriptor and its map: those of InPage, and the pools, in
\* place; the others in slabs of sizes that are InPage, which ends the circle.
Shape(m, o, p) ==
    IF m.slab[p].descriptor = InPlace
    THEN o \in Sizes /\ (o \in InPage \/ p = Head(m.list[o]))
    ELSE /\ o \notin InPage
         /\ m.slab[p].descriptor.page \in SlabsOf(m, DescSize)
         /\ m.slab[p].map.page \in SlabsOf(m, MapSize[o])
Shapes(m) == \A o \in Owners : \A p \in SlabsOf(m, o) : Shape(m, o, p)

\* An object that kmalloc gave out is in U or a part of one slab.
Used(m) == UNION {InUse(m, size) : size \in Sizes}
Owned(m, U) ==
    /\ Used(m) = U \cup PartsIn(m)
    /\ U \cap PartsIn(m) = {}
    /\ \A p, q \in Outside(m), j, k \in {1, 2} : Part(m, p, j) = Part(m, q, k) => p = q /\ j = k

\* The counts of a size or cache.
Counted(m) ==
    \A o \in Owners : /\ m.total_free[o] = Cardinality(Unused(m, o))
                      /\ m.total_using[o] = Cardinality(InUse(m, o))

SlabsRight(m, U) == Listed(m) /\ MapsRight(m) /\ Shapes(m) /\ Owned(m, U) /\ Counted(m)

Good(m, U, B) ==
    machine \in Machines /\ m \in MemType /\ PagesRight(m, Slabs(m), B) /\ SlabsRight(m, U)

\* A memory that is good for some owners, as after a fault.
Sound(m) == Good(m, Used(m) \ PartsIn(m), m.bits_map \ (Reserved \cup Slabs(m)))

\* The using_count of a cache's pool is Count[s] too high: it never looks empty.
PoolCounts(m, s) ==
    \A p \in SlabsOf(m, s) : m.slab[p].using_count = Cardinality(m.slab[p].color_map)
                                + IF p = Head(m.list[s]) THEN Count[s] ELSE 0

MadeObjects == {made[s] : s \in Made}

\* Who has what, as long as nothing has gone wrong.
Owning ==
    /\ Good(mem, objects \cup MadeObjects, BlockPages)
    /\ objects \cap MadeObjects = {}
    /\ \A s, t \in Made : made[s] = made[t] => s = t
    /\ \A s \in Caches : InUse(mem, s) = cached[s]
    /\ \A b, c \in blocks : b # c => Block(b[1], b[2]) \cap Block(c[1], c[2]) = {}
    /\ blocks \subseteq Pages \X Numbers
    /\ \A s \in Caches : (mem.list[s] = <<>> <=> s \notin Made) /\ PoolCounts(mem, s)

\* The inductive invariant.
IInv ==
    /\ machine \in Machines
    /\ made \in [Caches -> ObjectType] /\ cached \in [Caches -> SUBSET ObjectType]
    /\ mem.fault => Sound(mem)
    /\ ~mem.fault => Owning

-----------------------------------------------------------------------------
(* Lists.                                                                  *)

\* list_add_to_before the pool.
LEMMA AppendFacts ==
    ASSUME NEW S, NEW s \in Seq(S), NEW x \in S
    PROVE  /\ Append(s, x) \in Seq(S) /\ Append(s, x) # <<>>
           /\ ToSet(Append(s, x)) = ToSet(s) \cup {x}
           /\ Distinct(s) /\ x \notin ToSet(s) => Distinct(Append(s, x))
           /\ s # <<>> => Head(Append(s, x)) = Head(s)
           /\ s = <<>> => Head(Append(s, x)) = x
<1> DEFINE t == Append(s, x)
           n == Len(s)
<1>1. /\ t \in Seq(S) /\ Len(t) = n + 1 /\ n \in Nat /\ DOMAIN s = 1 .. n /\ DOMAIN t = 1 .. n + 1
      /\ \A i \in 1 .. n : t[i] = s[i]
      /\ t[n + 1] = x
  OBVIOUS
<1>2. t # <<>> /\ Head(t) = t[1] /\ (s # <<>> => Head(s) = s[1] /\ 1 \in 1 .. n) /\ (s = <<>> => n = 0)
  BY <1>1
<1> HIDE DEF t, n
<1>3. 1 .. n + 1 = (1 .. n) \cup {n + 1} /\ n + 1 \notin 1 .. n
  BY <1>1
<1>4. ToSet(t) = ToSet(s) \cup {x}
  BY <1>1, <1>3 DEF ToSet
<1>5. Distinct(s) /\ x \notin ToSet(s) => Distinct(t)
  BY <1>1, <1>3 DEF Distinct, ToSet
<1> QED  BY <1>1, <1>2, <1>4, <1>5 DEF t

\* list_add_to_behind the pool.
LEMMA BehindFacts ==
    ASSUME NEW S, NEW s \in Seq(S), s # <<>>, NEW x \in S
    PROVE  LET t == <<Head(s), x>> \o Tail(s)
           IN  /\ t \in Seq(S) /\ t # <<>>
               /\ ToSet(t) = ToSet(s) \cup {x}
               /\ Distinct(s) /\ x \notin ToSet(s) => Distinct(t)
               /\ Head(t) = Head(s)
<1> DEFINE t == <<Head(s), x>> \o Tail(s)
           n == Len(s)
<1>1. /\ n \in Nat /\ n >= 1 /\ DOMAIN s = 1 .. n /\ Head(s) = s[1] /\ Head(s) \in S
      /\ Tail(s) \in Seq(S) /\ Len(Tail(s)) = n - 1
      /\ \A i \in 1 .. n - 1 : Tail(s)[i] = s[i + 1]
  OBVIOUS
<1>2. /\ t \in Seq(S) /\ Len(t) = n + 1 /\ DOMAIN t = 1 .. n + 1
      /\ t[1] = s[1] /\ t[2] = x
      /\ \A i \in 3 .. n + 1 : t[i] = Tail(s)[i - 2]
  BY <1>1
<1>3. \A i \in 3 .. n + 1 : t[i] = s[i - 1]
  <2> HIDE DEF t, n
  <2> SUFFICES ASSUME NEW i \in 3 .. n + 1 PROVE t[i] = s[i - 1]
    OBVIOUS
  <2>1. i - 2 \in 1 .. n - 1 /\ (i - 2) + 1 = i - 1
    BY <1>1
  <2> QED  BY <1>1, <1>2, <2>1
<1>4. t # <<>> /\ Head(t) = t[1]
  BY <1>1, <1>2
<1> HIDE DEF t, n
<1>5. ToSet(t) = ToSet(s) \cup {x}
  <2>1. ASSUME NEW y \in ToSet(t) PROVE y \in ToSet(s) \cup {x}
    <3>1. PICK i \in 1 .. n + 1 : y = t[i]
      BY <1>2 DEF ToSet
    <3>2. i = 1 \/ i = 2 \/ (i \in 3 .. n + 1 /\ i - 1 \in 1 .. n)
      BY <1>1
    <3>3. 1 \in 1 .. n
      BY <1>1
    <3> QED  BY <1>1, <1>2, <1>3, <3>1, <3>2, <3>3 DEF ToSet
  <2>2. ASSUME NEW y \in ToSet(s) PROVE y \in ToSet(t)
    <3>1. PICK i \in 1 .. n : y = s[i]
      BY <1>1 DEF ToSet
    <3>2. CASE i = 1
      BY <3>1, <3>2, <1>1, <1>2 DEF ToSet
    <3>3. CASE i # 1
      <4>1. i + 1 \in 3 .. n + 1 /\ i + 1 \in 1 .. n + 1 /\ (i + 1) - 1 = i
        BY <1>1, <3>3
      <4> QED  BY <3>1, <4>1, <1>2, <1>3 DEF ToSet
    <3> QED  BY <3>2, <3>3
  <2>3. x \in ToSet(t)
    BY <1>1, <1>2 DEF ToSet
  <2> QED  BY <2>1, <2>2, <2>3
<1>6. Distinct(s) /\ x \notin ToSet(s) => Distinct(t)
  <2> SUFFICES ASSUME Distinct(s), x \notin ToSet(s), NEW i \in 1 .. n + 1, NEW j \in 1 .. n + 1,
                      t[i] = t[j]
               PROVE  i = j
    BY <1>2 DEF Distinct
  <2> DEFINE old(k) == IF k = 1 THEN 1 ELSE k - 1
  <2>1. \A k \in 1 .. n + 1 : k # 2 => old(k) \in 1 .. n /\ t[k] = s[old(k)]
    BY <1>1, <1>2, <1>3
  <2>2. \A k \in 1 .. n : s[k] # x
    BY <1>1 DEF ToSet
  <2>3. i = 2 <=> j = 2
    BY <1>2, <2>1, <2>2
  <2>4. i # 2 => old(i) = old(j)
    BY <1>1, <2>1, <2>3 DEF Distinct
  <2> QED  BY <2>3, <2>4
<1> QED  BY <1>2, <1>4, <1>1, <1>5, <1>6 DEF t

\* list_del.
LEMMA WithoutFacts ==
    ASSUME NEW S, NEW s \in Seq(S), Distinct(s), NEW x \in ToSet(s)
    PROVE  /\ Without(s, x) \in Seq(S) /\ Distinct(Without(s, x))
           /\ ToSet(Without(s, x)) = ToSet(s) \ {x}
           /\ x # Head(s) => Without(s, x) # <<>> /\ Head(Without(s, x)) = Head(s)
           /\ x = Head(s) => Without(s, x) = Tail(s)
<1> DEFINE n == Len(s)
           k == CHOOSE i \in DOMAIN s : s[i] = x
           a == SubSeq(s, 1, k - 1)
           b == SubSeq(s, k + 1, n)
           t == a \o b
<1>1. n \in Nat /\ DOMAIN s = 1 .. n
  OBVIOUS
<1>2. k \in 1 .. n /\ s[k] = x
  BY <1>1 DEF ToSet
<1>3. \A i \in 1 .. n : s[i] = x => i = k
  BY <1>1, <1>2 DEF Distinct
<1>4. Without(s, x) = t
  BY DEF Without, RemoveAt
<1> HIDE DEF k, n
<1>5. /\ a \in Seq(S) /\ Len(a) = k - 1 /\ \A i \in 1 .. k - 1 : a[i] = s[i]
      /\ b \in Seq(S) /\ Len(b) = n - k /\ \A i \in 1 .. n - k : b[i] = s[k + i]
  <2>1. a \in Seq(S) /\ Len(a) = k - 1 /\ \A i \in 1 .. k - 1 : a[i] = s[i]
    BY <1>1, <1>2, SubSeqProperties DEF n
  <2>2. b \in Seq(S) /\ Len(b) = n - k /\ \A i \in 1 .. n - k : b[i] = s[k + 1 + i - 1]
    <3>1. /\ k + 1 \in Int /\ n \in Int /\ n - (k + 1) + 1 = n - k
          /\ (IF k + 1 <= n THEN n - (k + 1) + 1 ELSE 0) = n - k
          /\ \A i \in k + 1 .. n : i \in 1 .. n
      BY <1>1, <1>2
    <3>2. \A i \in 1 .. n : s[i] \in S
      BY DEF n
    <3>3. /\ b \in Seq(S) /\ Len(b) = IF k + 1 <= n THEN n - (k + 1) + 1 ELSE 0
          /\ \A i \in 1 .. n - (k + 1) + 1 : b[i] = s[k + 1 + i - 1]
      <4> HIDE DEF n
      <4> QED  BY <3>1, <3>2, SubSeqProperties DEF b
    <3> QED  BY <3>1, <3>3
  <2>3. \A i \in 1 .. n - k : k + 1 + i - 1 = k + i
    BY <1>1, <1>2
  <2> QED  BY <2>1, <2>2, <2>3
<1> HIDE DEF a, b
<1>6. /\ t \in Seq(S) /\ Len(t) = n - 1 /\ DOMAIN t = 1 .. n - 1
      /\ \A i \in 1 .. n - 1 : t[i] = IF i < k THEN s[i] ELSE s[i + 1]
  <2>1. t \in Seq(S) /\ Len(t) = (k - 1) + (n - k)
        /\ \A i \in 1 .. Len(t) : t[i] = IF i <= k - 1 THEN a[i] ELSE b[i - (k - 1)]
    <3>1. /\ t \in Seq(S) /\ Len(t) = Len(a) + Len(b)
          /\ \A i \in 1 .. Len(a) + Len(b) : t[i] = IF i <= Len(a) THEN a[i] ELSE b[i - Len(a)]
      BY <1>5, ConcatProperties
    <3> HIDE DEF t
    <3> QED  BY <1>5, <3>1
  <2>2. Len(t) = n - 1 /\ DOMAIN t = 1 .. n - 1
    BY <2>1, <1>1, <1>2
  <2> HIDE DEF t
  <2>3. ASSUME NEW i \in 1 .. n - 1
        PROVE  t[i] = IF i < k THEN s[i] ELSE s[i + 1]
    <3>1. CASE i < k
      <4>1. i <= k - 1 /\ i \in 1 .. k - 1
        BY <3>1, <1>1, <1>2
      <4> QED  BY <2>1, <2>2, <3>1, <4>1, <1>5
    <3>2. CASE ~(i < k)
      <4>1. ~(i <= k - 1) /\ i - (k - 1) \in 1 .. n - k /\ k + (i - (k - 1)) = i + 1
        BY <3>2, <1>1, <1>2
      <4> QED  BY <2>1, <2>2, <3>2, <4>1, <1>5
    <3> QED  BY <3>1, <3>2
  <2> QED  BY <2>1, <2>2, <2>3
<1> HIDE DEF t
<1>7. ToSet(t) = ToSet(s) \ {x}
  <2>1. ASSUME NEW y \in ToSet(t) PROVE y \in ToSet(s) \ {x}
    <3>1. PICK i \in 1 .. n - 1 : y = t[i]
      BY <1>6 DEF ToSet
    <3>2. i \in 1 .. n /\ i + 1 \in 1 .. n /\ (i < k => i # k) /\ (~(i < k) => i + 1 # k)
      BY <1>1, <1>2
    <3> QED  BY <1>1, <1>3, <1>6, <3>1, <3>2 DEF ToSet
  <2>2. ASSUME NEW y \in ToSet(s) \ {x} PROVE y \in ToSet(t)
    <3>1. PICK i \in 1 .. n : y = s[i]
      BY <1>1 DEF ToSet
    <3>2. i # k
      BY <3>1, <1>2
    <3>3. CASE i < k
      <4>1. i \in 1 .. n - 1
        BY <1>1, <1>2, <3>3
      <4> QED  BY <1>6, <3>1, <3>3, <4>1 DEF ToSet
    <3>4. CASE i > k
      <4>1. i - 1 \in 1 .. n - 1 /\ ~(i - 1 < k) /\ (i - 1) + 1 = i
        BY <1>1, <1>2, <3>4
      <4> QED  BY <1>6, <3>1, <4>1 DEF ToSet
    <3> QED  BY <3>2, <3>3, <3>4, <1>2
  <2> QED  BY <2>1, <2>2
<1>8. Distinct(t)
  <2> SUFFICES ASSUME NEW i \in 1 .. n - 1, NEW j \in 1 .. n - 1, t[i] = t[j] PROVE i = j
    BY <1>6 DEF Distinct
  <2> DEFINE old(l) == IF l < k THEN l ELSE l + 1
  <2>1. \A l \in 1 .. n - 1 : old(l) \in 1 .. n /\ t[l] = s[old(l)]
    BY <1>1, <1>2, <1>6
  <2>2. old(i) = old(j)
    BY <2>1, <1>1 DEF Distinct
  <2> QED  BY <2>2, <1>2
<1>9. x # Head(s) => t # <<>> /\ Head(t) = Head(s)
  <2>1. Head(s) = s[1]
    BY <1>1, <1>2
  <2>2. ASSUME x # Head(s) PROVE t # <<>> /\ Head(t) = Head(s)
    <3>1. 1 < k /\ n - 1 >= 1
      BY <1>1, <1>2, <2>1, <2>2
    <3>2. t # <<>> /\ Head(t) = t[1]
      BY <1>6, <3>1, <1>1
    <3> QED  BY <1>1, <1>6, <2>1, <3>1, <3>2
  <2> QED  BY <2>2
<1>10. x = Head(s) => t = Tail(s)
  <2> SUFFICES ASSUME x = Head(s) PROVE t = Tail(s)
    OBVIOUS
  <2>1. s # <<>> /\ n >= 1 /\ 1 \in 1 .. n /\ Head(s) = s[1]
    BY <1>1, <1>2 DEF n
  <2>2. k = 1
    BY <1>3, <2>1
  <2>3. /\ Tail(s) \in Seq(S) /\ Len(Tail(s)) = n - 1
        /\ \A i \in 1 .. n - 1 : Tail(s)[i] = s[i + 1]
    BY <2>1 DEF n
  <2>4. \A i \in 1 .. n - 1 : t[i] = s[i + 1]
    BY <1>1, <1>6, <2>2
  <2> QED  BY <1>6, <2>3, <2>4, SeqEqual
<1> QED  BY <1>4, <1>6, <1>7, <1>8, <1>9, <1>10

\* The pool is on its list.
LEMMA WhenHead ==
    ASSUME NEW S, NEW s \in Seq(S), s # <<>>
    PROVE  Head(s) \in ToSet(s) /\ Head(s) \in S /\ ToSet(s) # {}
<1>1. 1 \in DOMAIN s /\ Head(s) = s[1] /\ Head(s) \in S
  OBVIOUS
<1> QED  BY <1>1 DEF ToSet

-----------------------------------------------------------------------------
(* The machine.                                                            *)

\* The assumption, of the machine at hand.
LEMMA MachineFacts ==
    ASSUME machine \in Machines
    PROVE  /\ zones \in Seq([start : Nat, end : Nat]) /\ 1 \in DOMAIN zones /\ Len(zones) \in Nat
           /\ DOMAIN zones = 1 .. Len(zones)
           /\ MapPages(machine) \in Nat /\ MapPages(machine) % WORD = 0
           /\ \A z \in DOMAIN zones : /\ zones[z].start \in Nat /\ zones[z].end \in Nat
                                      /\ zones[z].start > 0 /\ zones[z].end < MapPages(machine)
           /\ \A y, z \in DOMAIN zones : y < z => zones[y].end <= zones[z].start
           /\ machine.last_page \in Nat /\ PoolPages \in Nat
           /\ 1 .. machine.last_page + PoolPages \subseteq ZonePages(zones[1])
<1>1. /\ zones \in Seq([start : Nat, end : Nat]) /\ zones # <<>>
      /\ MapPages(machine) \in Nat /\ MapPages(machine) % WORD = 0
      /\ \A z \in DOMAIN zones : zones[z].start > 0 /\ zones[z].end < MapPages(machine)
      /\ \A y, z \in DOMAIN zones : y < z => zones[y].end <= zones[z].start
      /\ machine.last_page \in Nat /\ PoolPages \in Nat
      /\ 1 .. machine.last_page + PoolPages \subseteq ZonePages(zones[1])
  BY PageAllocAssumption DEF zones
<1> HIDE DEF zones
<1>2. 1 \in DOMAIN zones /\ Len(zones) \in Nat /\ DOMAIN zones = 1 .. Len(zones)
  BY <1>1
<1>3. ASSUME NEW z \in DOMAIN zones PROVE zones[z].start \in Nat /\ zones[z].end \in Nat
  <2>1. zones[z] \in [start : Nat, end : Nat]
    BY <1>1, <1>2, ElementOfSeq
  <2> QED  BY <2>1
<1> QED  BY <1>1, <1>2, <1>3

\* The zones are disjoint; what is in none is reserved, the last page among it.
LEMMA ZoneFacts ==
    ASSUME machine \in Machines
    PROVE  /\ Pages \subseteq Nat /\ IsFiniteSet(Pages)
           /\ \A z \in DOMAIN zones : /\ ZonePages(zones[z]) \subseteq Pages
                                      /\ IsFiniteSet(ZonePages(zones[z]))
                                      /\ 0 \notin ZonePages(zones[z])
           /\ \A y, z \in DOMAIN zones : \A p : p \in ZonePages(zones[y]) /\ p \in ZonePages(zones[z]) => y = z
           /\ Reserved \subseteq Pages /\ IsFiniteSet(DOMAIN zones)
           /\ \A p \in Pages \ Reserved : \E z \in DOMAIN zones : p \in ZonePages(zones[z])
           /\ MapPages(machine) - 1 \in Reserved /\ MapPages(machine) > 0
<1> HIDE DEF zones
<1>1. Pages \subseteq Nat /\ IsFiniteSet(Pages)
  <2>1. Pages = 0 .. MapPages(machine) - 1 /\ 0 \in Int /\ MapPages(machine) - 1 \in Int
    BY MachineFacts DEF Pages
  <2> QED  BY <2>1, FS_Interval
<1>2. ASSUME NEW z \in DOMAIN zones
      PROVE  /\ ZonePages(zones[z]) \subseteq Pages /\ IsFiniteSet(ZonePages(zones[z]))
             /\ 0 \notin ZonePages(zones[z]) /\ MapPages(machine) - 1 \notin ZonePages(zones[z])
  <2>1. /\ zones[z].start \in Nat /\ zones[z].end \in Nat /\ MapPages(machine) \in Nat
        /\ zones[z].start > 0 /\ zones[z].end < MapPages(machine)
    BY MachineFacts
  <2>2. /\ ZonePages(zones[z]) \subseteq Pages
        /\ 0 \notin ZonePages(zones[z]) /\ MapPages(machine) - 1 \notin ZonePages(zones[z])
    BY <2>1 DEF ZonePages, Pages
  <2> QED  BY <2>2, <1>1, FS_Subset
<1>3. ASSUME NEW y \in DOMAIN zones, NEW z \in DOMAIN zones, NEW p,
             p \in ZonePages(zones[y]), p \in ZonePages(zones[z])
      PROVE  y = z
  <2>1. /\ zones[z].start \in Nat /\ zones[z].end \in Nat
        /\ zones[y].start \in Nat /\ zones[y].end \in Nat
        /\ y < z => zones[y].end <= zones[z].start
        /\ z < y => zones[z].end <= zones[y].start
        /\ y \in Int /\ z \in Int
    BY MachineFacts
  <2> QED  BY <2>1, <1>3 DEF ZonePages
<1>4. 1 .. machine.last_page \subseteq ZonePages(zones[1])
  BY MachineFacts
<1>5. Reserved \subseteq Pages
  BY <1>2, <1>4, MachineFacts DEF Reserved, Unzoned
<1>6. \A p \in Pages \ Reserved : \E z \in DOMAIN zones : p \in ZonePages(zones[z])
  BY DEF Reserved, Unzoned
<1>7. MapPages(machine) > 0 /\ MapPages(machine) - 1 \in Pages
  BY MachineFacts DEF Pages
<1>8. MapPages(machine) - 1 \in Reserved
  BY <1>2, <1>7 DEF Reserved, Unzoned
<1>9. IsFiniteSet(DOMAIN zones)
  BY MachineFacts, FS_Interval
<1> QED  BY <1>1, <1>2, <1>3, <1>5, <1>6, <1>7, <1>8, <1>9

-----------------------------------------------------------------------------
(* Sums and numbers.                                                       *)

\* A set of numbers has a least one: what the searches of the model choose.
LEMMA LeastNatural ==
    ASSUME NEW T \in SUBSET Nat, T # {}
    PROVE  \E k \in T : \A j \in T : k <= j
<1>1. PICK k \in T : \A j \in T : <<j, k>> \notin OpToRel(<, Nat)
  BY WFMin, NatLessThanWellFounded
<1>2. \A j \in T : ~(j < k)
  BY <1>1 DEF OpToRel
<1> QED  BY <1>2

\* A sum is the last of its partial sums.
PartialSums(g, f, n) ==
    g \in [0 .. n -> Int] /\ g[0] = 0 /\ \A k \in 1 .. n : g[k] = g[k - 1] + f[k]

\* They exist, which the recursive definition of Sum does not say by itself.
LEMMA SumIs ==
    ASSUME NEW n \in Nat, NEW f \in [1 .. n -> Int]
    PROVE  \E g : PartialSums(g, f, n) /\ Sum(f) = g[n]
<1> DEFINE R(g, k) == g = [i \in 0 .. k |-> IF i = 0 THEN 0 ELSE g[i - 1] + f[i]]
           T == {k \in 0 .. n : ~\E g : R(g, k)}
<1>1. T = {}
  <2> SUFFICES ASSUME T # {} PROVE FALSE
    OBVIOUS
  <2>1. PICK k \in T : \A j \in T : k <= j
    <3>1. T \in SUBSET Nat
      OBVIOUS
    <3> HIDE DEF T
    <3> QED  BY <3>1, LeastNatural
  <2>2. k # 0
    <3>1. R([i \in 0 .. 0 |-> 0], 0)
      OBVIOUS
    <3>2. ~\E g : R(g, k)
      BY <2>1
    <3> HIDE DEF R, T
    <3> QED  BY <3>1, <3>2
  <2>3. k \in 1 .. n /\ k - 1 \in 0 .. n /\ k - 1 \notin T
    <3>1. k \in 0 .. n
      BY <2>1
    <3> HIDE DEF T
    <3> QED  BY <2>1, <2>2, <3>1
  <2>4. PICK g : R(g, k - 1)
    BY <2>3
  <2> DEFINE h == [i \in 0 .. k |-> IF i = k THEN g[k - 1] + f[k] ELSE g[i]]
  <2>5. R(h, k)
    <3>1. ASSUME NEW i \in 0 .. k
          PROVE  h[i] = IF i = 0 THEN 0 ELSE h[i - 1] + f[i]
      <4>1. CASE i = k
        <5>1. k - 1 \in 0 .. k /\ k - 1 # k /\ i # 0
          BY <2>3, <4>1
        <5> QED  BY <4>1, <5>1
      <4>2. CASE i # k
        <5>1. i \in 0 .. k - 1 /\ (i # 0 => i - 1 \in 0 .. k /\ i - 1 # k)
          BY <2>3, <4>2
        <5>2. g[i] = IF i = 0 THEN 0 ELSE g[i - 1] + f[i]
          BY <2>4, <5>1
        <5> QED  BY <4>2, <5>1, <5>2
      <4> QED  BY <4>1, <4>2
    <3>2. h = [i \in 0 .. k |-> h[i]]
      OBVIOUS
    <3> HIDE DEF h
    <3> QED  BY <3>1, <3>2
  <2> HIDE DEF h, R
  <2> QED  BY <2>1, <2>5
<1>2. Len(f) = n
  OBVIOUS
<1> DEFINE g == CHOOSE h : R(h, n)
<1>3. R(g, n)
  <2>1. n \in 0 .. n /\ n \notin T
    <3>1. n \in 0 .. n
      OBVIOUS
    <3> HIDE DEF T
    <3> QED  BY <3>1, <1>1
  <2>2. \E h : R(h, n)
    BY <2>1
  <2> HIDE DEF R
  <2> QED  BY <2>2
<1>4. Sum(f) = g[n]
  BY <1>2 DEF Sum
<1> HIDE DEF g
<1>5. g[0] = 0 /\ \A k \in 1 .. n : g[k] = g[k - 1] + f[k]
  BY <1>3
<1>6. \A k \in 0 .. n : g[k] \in Int
  <2> DEFINE S == {k \in 0 .. n : g[k] \notin Int}
  <2> SUFFICES ASSUME S # {} PROVE FALSE
    OBVIOUS
  <2>1. PICK k \in S : \A j \in S : k <= j
    <3>1. S \in SUBSET Nat
      OBVIOUS
    <3> HIDE DEF S
    <3> QED  BY <3>1, LeastNatural
  <2>2. k \in 1 .. n /\ k - 1 \in 0 .. n /\ k - 1 \notin S
    BY <1>5, <2>1
  <2> QED  BY <1>5, <2>1, <2>2
<1>7. g \in [0 .. n -> Int]
  BY <1>3, <1>6
<1> QED  BY <1>4, <1>5, <1>7 DEF PartialSums

\* Two sums add up.
LEMMA SumPlus ==
    ASSUME NEW n \in Nat, NEW f \in [1 .. n -> Int], NEW d \in [1 .. n -> Int],
           NEW h \in [1 .. n -> Int], \A k \in 1 .. n : h[k] = f[k] + d[k]
    PROVE  Sum(h) = Sum(f) + Sum(d) /\ Sum(f) \in Int /\ Sum(d) \in Int
<1>1. PICK a : PartialSums(a, f, n) /\ Sum(f) = a[n]
  BY SumIs
<1>2. PICK b : PartialSums(b, d, n) /\ Sum(d) = b[n]
  BY SumIs
<1>3. PICK c : PartialSums(c, h, n) /\ Sum(h) = c[n]
  BY SumIs
<1> DEFINE T == {k \in 0 .. n : c[k] # a[k] + b[k]}
<1>4. T = {}
  <2> SUFFICES ASSUME T # {} PROVE FALSE
    OBVIOUS
  <2>1. PICK k \in T : \A j \in T : k <= j
    <3>1. T \in SUBSET Nat
      OBVIOUS
    <3> HIDE DEF T
    <3> QED  BY <3>1, LeastNatural
  <2>2. k \in 1 .. n /\ k - 1 \in 0 .. n /\ k - 1 \notin T
    BY <1>1, <1>2, <1>3, <2>1 DEF PartialSums
  <2>3. c[k - 1] = a[k - 1] + b[k - 1]
    BY <2>2
  <2>4. c[k] = c[k - 1] + (f[k] + d[k]) /\ a[k] = a[k - 1] + f[k] /\ b[k] = b[k - 1] + d[k]
    BY <1>1, <1>2, <1>3, <2>2 DEF PartialSums
  <2>5. /\ a[k - 1] \in Int /\ b[k - 1] \in Int /\ f[k] \in Int /\ d[k] \in Int
    BY <1>1, <1>2, <2>2 DEF PartialSums
  <2>6. c[k] # a[k] + b[k]
    BY <2>1
  <2> HIDE DEF T
  <2> QED  BY <2>3, <2>4, <2>5, <2>6
<1>5. n \in 0 .. n /\ n \notin T
  BY <1>4
<1>6. c[n] = a[n] + b[n]
  BY <1>5
<1>7. a[n] \in Int /\ b[n] \in Int
  BY <1>1, <1>2, <1>5 DEF PartialSums
<1> QED  BY <1>1, <1>2, <1>3, <1>6, <1>7

\* The same, in one word.
Termwise(n, f, d, h) ==
    /\ n \in Nat /\ f \in [1 .. n -> Int] /\ d \in [1 .. n -> Int] /\ h \in [1 .. n -> Int]
    /\ \A k \in 1 .. n : h[k] = f[k] + d[k]

LEMMA SumTermwise ==
    ASSUME NEW n, NEW f, NEW d, NEW h, Termwise(n, f, d, h)
    PROVE  Sum(h) = Sum(f) + Sum(d) /\ Sum(f) \in Int /\ Sum(d) \in Int
<1> USE DEF Termwise
<1> QED  BY SumPlus

\* A sum with one term.
LEMMA SumOne ==
    ASSUME NEW n \in Nat, NEW d \in [1 .. n -> Int], NEW k \in 1 .. n,
           \A i \in 1 .. n : i # k => d[i] = 0
    PROVE  Sum(d) = d[k]
<1>1. PICK g : PartialSums(g, d, n) /\ Sum(d) = g[n]
  BY SumIs
<1> DEFINE T == {i \in 0 .. n : g[i] # IF i < k THEN 0 ELSE d[k]}
<1>2. T = {}
  <2> SUFFICES ASSUME T # {} PROVE FALSE
    OBVIOUS
  <2>1. PICK i \in T : \A j \in T : i <= j
    <3>1. T \in SUBSET Nat
      OBVIOUS
    <3> HIDE DEF T
    <3> QED  BY <3>1, LeastNatural
  <2>0. i \in 0 .. n /\ g[i] # IF i < k THEN 0 ELSE d[k]
    BY <2>1
  <2>2. i \in 1 .. n /\ i - 1 \in 0 .. n /\ i - 1 \notin T
    <3>1. g[0] = 0 /\ 0 < k
      BY <1>1 DEF PartialSums
    <3>2. i # 0
      <4> HIDE DEF T
      <4> QED  BY <2>0, <3>1
    <3>3. i \in 1 .. n /\ i - 1 \in 0 .. n /\ ~(i <= i - 1)
      BY <2>0, <3>2
    <3> HIDE DEF T
    <3> QED  BY <2>1, <3>3
  <2>3. g[i] = g[i - 1] + d[i] /\ g[i - 1] = IF i - 1 < k THEN 0 ELSE d[k]
    BY <1>1, <2>2 DEF PartialSums
  <2>4. d[k] \in Int
    OBVIOUS
  <2>5. CASE i = k
    BY <2>0, <2>2, <2>3, <2>4, <2>5
  <2>6. CASE i # k
    <3>1. d[i] = 0 /\ (i - 1 < k <=> i < k)
      BY <2>2, <2>6
    <3> QED  BY <2>0, <2>3, <2>4, <3>1
  <2> QED  BY <2>5, <2>6
<1>3. n \in 0 .. n /\ ~(n < k)
  OBVIOUS
<1> QED  BY <1>1, <1>2, <1>3

\* A set cut into disjoint pieces.
LEMMA SumOfPieces ==
    ASSUME NEW n \in Nat, NEW Z, NEW X, IsFiniteSet(X),
           \A y, z \in 1 .. n : y # z => Z[y] \cap Z[z] = {},
           \A x \in X : \E z \in 1 .. n : x \in Z[z]
    PROVE  Sum([z \in 1 .. n |-> Cardinality(X \cap Z[z])]) = Cardinality(X)
<1> DEFINE f == [z \in 1 .. n |-> Cardinality(X \cap Z[z])]
           Upto(k) == {x \in X : \E z \in 1 .. k : x \in Z[z]}
<1>1. f \in [1 .. n -> Int]
  <2>1. ASSUME NEW z \in 1 .. n PROVE Cardinality(X \cap Z[z]) \in Int
    <3>1. IsFiniteSet(X \cap Z[z])
      BY FS_Intersection
    <3> QED  BY <3>1, FS_CardinalityType
  <2> QED  BY <2>1
<1>2. \A z \in 1 .. n : f[z] = Cardinality(X \cap Z[z])
  OBVIOUS
<1> HIDE DEF f
<1>3. PICK g : PartialSums(g, f, n) /\ Sum(f) = g[n]
  BY <1>1, SumIs
<1> DEFINE T == {k \in 0 .. n : g[k] # Cardinality(Upto(k))}
<1>4. T = {}
  <2> SUFFICES ASSUME T # {} PROVE FALSE
    OBVIOUS
  <2>1. PICK k \in T : \A j \in T : k <= j
    <3>1. T \in SUBSET Nat
      OBVIOUS
    <3> HIDE DEF T
    <3> QED  BY <3>1, LeastNatural
  <2>0. g[k] # Cardinality(Upto(k))
    BY <2>1
  <2>2. k # 0
    <3>1. Upto(0) = {}
      OBVIOUS
    <3> HIDE DEF Upto
    <3> QED  BY <1>3, <2>0, <3>1, FS_EmptySet DEF PartialSums
  <2>3. k \in 1 .. n /\ k - 1 \in 0 .. n /\ k - 1 \notin T
    BY <2>1, <2>2
  <2>4. g[k] = g[k - 1] + Cardinality(X \cap Z[k]) /\ g[k - 1] = Cardinality(Upto(k - 1))
    BY <1>2, <1>3, <2>3 DEF PartialSums
  <2> DEFINE P == Upto(k - 1)
             Q == X \cap Z[k]
  <2>5. Upto(k) = P \cup Q
    <3>1. \A z : z \in 1 .. k <=> z \in 1 .. k - 1 \/ z = k
      BY <2>3
    <3> QED  BY <3>1
  <2>6. P \cap Q = {}
    <3>1. \A z \in 1 .. k - 1 : z \in 1 .. n /\ z # k
      BY <2>3
    <3> QED  BY <2>3, <3>1
  <2>7. IsFiniteSet(P) /\ IsFiniteSet(Q)
    BY FS_Subset
  <2> HIDE DEF P, Q, Upto, T
  <2>8. Cardinality(P \cup Q) = Cardinality(P) + Cardinality(Q) - 0
    BY <2>6, <2>7, FS_Union, FS_EmptySet
  <2>9. Cardinality(P) \in Nat /\ Cardinality(Q) \in Nat
    BY <2>7, FS_CardinalityType
  <2>10. g[k] = Cardinality(P) + Cardinality(Q)
    BY <2>4 DEF P, Q
  <2> QED  BY <2>0, <2>5, <2>8, <2>9, <2>10
<1>5. Upto(n) = X
  OBVIOUS
<1>6. n \in 0 .. n
  OBVIOUS
<1> QED  BY <1>3, <1>4, <1>5, <1>6 DEF f

\* A number rounded up to whole words.
LEMMA RoundUp ==
    ASSUME NEW a \in Nat, NEW w \in Nat \ {0}, NEW n \in Nat, n % w = 0, a <= n
    PROVE  /\ ((a + w - 1) \div w) * w \in Nat
           /\ ((a + w - 1) \div w) * w <= n
           /\ ((a + w - 1) \div w) * w >= a
<1> DEFINE q == n \div w
           d == (a + w - 1) \div w
           r == (a + w - 1) % w
<1>1. /\ q \in Nat /\ n = q * w
      /\ d \in Nat /\ r \in 0 .. w - 1 /\ a + w - 1 = d * w + r
  OBVIOUS
<1> HIDE DEF q, d, r
<1>2. d * w \in Nat /\ q * w \in Nat
  BY <1>1
<1>3. d * w <= q * w + w - 1
  BY <1>1, <1>2
<1>4. d <= q
  <2> SUFFICES ASSUME d >= q + 1 PROVE FALSE
    BY <1>1
  <2>1. PICK e \in Nat : d = q + 1 + e
    <3>1. d - (q + 1) \in Nat /\ d = q + 1 + (d - (q + 1))
      BY <1>1
    <3> QED  BY <3>1
  <2>2. d * w = q * w + w + e * w /\ e * w >= 0
    BY <1>1, <2>1
  <2> QED  BY <1>2, <1>3, <2>2
<1>5. d * w <= q * w
  <2>1. PICK e \in Nat : q = d + e
    <3>1. q - d \in Nat /\ q = d + (q - d)
      BY <1>1, <1>4
    <3> QED  BY <3>1
  <2>2. q * w = d * w + e * w /\ e * w >= 0
    BY <1>1, <2>1
  <2> QED  BY <1>2, <2>2
<1>6. d * w >= a
  <2>1. \A x \in Nat : a + w - 1 = x + r => x >= a
    <3>1. r <= w - 1
      BY <1>1
    <3> QED  BY <1>1, <3>1
  <2> QED  BY <1>1, <1>2, <2>1
<1> QED  BY <1>1, <1>2, <1>5, <1>6 DEF d

-----------------------------------------------------------------------------
(* The pages.                                                              *)

\* The half of a memory that the functions on pages do not touch, and the half that
\* the functions on slabs do not.
SameSlabs(m, n) ==
    /\ n.list = m.list /\ n.total_free = m.total_free /\ n.total_using = m.total_using
    /\ n.slab = m.slab

SamePages(m, n) ==
    /\ n.bits_map = m.bits_map /\ n.page_using_count = m.page_using_count
    /\ n.page_free_count = m.page_free_count /\ n.reference_count = m.reference_count
    /\ n.total_pages_link = m.total_pages_link

\* With the slabs all that is said of them stays.
LEMMA SlabsStayRight ==
    ASSUME NEW m, NEW n, SameSlabs(m, n)
    PROVE  /\ Slabs(n) = Slabs(m) /\ Used(n) = Used(m) /\ PartsIn(n) = PartsIn(m)
           /\ \A o : /\ SlabsOf(n, o) = SlabsOf(m, o) /\ InUse(n, o) = InUse(m, o)
                     /\ Unused(n, o) = Unused(m, o)
           /\ \A U : SlabsRight(m, U) => SlabsRight(n, U)
<1>1. \A o : SlabsOf(n, o) = SlabsOf(m, o)
  BY DEF SlabsOf, SameSlabs
<1>2. Slabs(n) = Slabs(m)
  BY <1>1 DEF Slabs
<1>3. ASSUME NEW o
      PROVE  InUse(n, o) = InUse(m, o) /\ Unused(n, o) = Unused(m, o)
  <2>1. SlabsOf(n, o) = SlabsOf(m, o) /\ n.slab = m.slab
    BY <1>1 DEF SameSlabs
  <2>2. InUse(n, o) = InUse(m, o)
    BY <2>1 DEF InUse
  <2>3. Unused(n, o) = Unused(m, o)
    BY <2>1 DEF Unused
  <2> QED  BY <2>2, <2>3
<1>4. Used(n) = Used(m)
  BY <1>3 DEF Used
<1>5. Outside(n) = Outside(m) /\ \A p, k : Part(n, p, k) = Part(m, p, k)
  BY <1>2 DEF Outside, Part, SameSlabs
<1>6. PartsIn(n) = PartsIn(m)
  BY <1>5 DEF PartsIn
<1>7. ASSUME NEW U, SlabsRight(m, U) PROVE SlabsRight(n, U)
  <2>1. Listed(n)
    BY <1>7, <1>1 DEF SlabsRight, Listed, SameSlabs
  <2>2. MapsRight(n)
    BY <1>7, <1>1 DEF SlabsRight, MapsRight, SameSlabs
  <2>3. Shapes(n)
    BY <1>7, <1>1 DEF SlabsRight, Shapes, Shape, SameSlabs
  <2>4. Owned(n, U)
    BY <1>7, <1>4, <1>5, <1>6 DEF SlabsRight, Owned
  <2>5. Counted(n)
    BY <1>7, <1>3 DEF SlabsRight, Counted, SameSlabs
  <2> QED  BY <2>1, <2>2, <2>3, <2>4, <2>5 DEF SlabsRight
<1> QED  BY <1>1, <1>2, <1>3, <1>4, <1>6, <1>7

\* The same for the pages.
LEMMA PagesStayRight ==
    ASSUME NEW m, NEW n, SamePages(m, n), NEW S, NEW B, PagesRight(m, S, B)
    PROVE  PagesRight(n, S, B)
BY DEF SamePages, PagesRight, PagesFor, Linked, ZoneCounts

\* The free pages of each zone, and how many of a set of pages each zone has.
FreeCounts(bits) == [z \in DOMAIN zones |-> Cardinality(ZonePages(zones[z]) \ bits)]
Pieces(X) == [z \in DOMAIN zones |-> Cardinality(X \cap ZonePages(zones[z]))]

\* No page of a set is missed, and none is counted twice.
LEMMA PiecesFacts ==
    ASSUME machine \in Machines, NEW X \in SUBSET Pages, X \cap Reserved = {}
    PROVE  /\ Pieces(X) \in [DOMAIN zones -> Nat]
           /\ Sum(Pieces(X)) = Cardinality(X)
<1> DEFINE Z == [z \in DOMAIN zones |-> ZonePages(zones[z])]
           n == Len(zones)
<1>1. n \in Nat /\ DOMAIN zones = 1 .. n
  BY MachineFacts
<1> HIDE DEF zones, n
<1>2. IsFiniteSet(X)
  BY ZoneFacts, FS_Subset
<1>3. \A z \in DOMAIN zones : Z[z] = ZonePages(zones[z])
  OBVIOUS
<1> HIDE DEF Z
<1>4. \A y, z \in 1 .. n : y # z => Z[y] \cap Z[z] = {}
  BY <1>1, <1>3, ZoneFacts
<1>5. \A x \in X : \E z \in 1 .. n : x \in Z[z]
  BY <1>1, <1>3, ZoneFacts
<1>6. Sum([z \in 1 .. n |-> Cardinality(X \cap Z[z])]) = Cardinality(X)
  BY <1>1, <1>2, <1>4, <1>5, SumOfPieces
<1>7. Pieces(X) = [z \in 1 .. n |-> Cardinality(X \cap Z[z])]
  BY <1>1, <1>3 DEF Pieces
<1>8. \A z \in DOMAIN zones : Cardinality(X \cap ZonePages(zones[z])) \in Nat
  BY <1>2, FS_Intersection, FS_CardinalityType
<1> QED  BY <1>6, <1>7, <1>8 DEF Pieces

\* Pages that are taken leave the zones with less by their number.
LEMMA FreeCountsFacts ==
    ASSUME machine \in Machines, NEW bits \in SUBSET Pages, NEW X \in SUBSET Pages,
           X \cap Reserved = {}, X \cap bits = {}
    PROVE  /\ FreeCounts(bits) \in [DOMAIN zones -> Nat]
           /\ FreeCounts(bits \cup X) \in [DOMAIN zones -> Nat]
           /\ Sum(FreeCounts(bits)) = Sum(FreeCounts(bits \cup X)) + Cardinality(X)
           /\ Sum(FreeCounts(bits \cup X)) \in Int
<1> DEFINE f(z) == ZonePages(zones[z]) \ bits
           g(z) == ZonePages(zones[z]) \ (bits \cup X)
           x(z) == X \cap ZonePages(zones[z])
           n == Len(zones)
<1>1. n \in Nat /\ DOMAIN zones = 1 .. n
  BY MachineFacts
<1> HIDE DEF zones, n
<1>2. ASSUME NEW z \in DOMAIN zones
      PROVE  /\ Cardinality(f(z)) \in Nat /\ Cardinality(g(z)) \in Nat
             /\ Cardinality(f(z)) = Cardinality(g(z)) + Cardinality(x(z))
  <2>1. IsFiniteSet(ZonePages(zones[z])) /\ IsFiniteSet(X)
    BY ZoneFacts, FS_Subset
  <2>2. IsFiniteSet(f(z)) /\ IsFiniteSet(g(z)) /\ IsFiniteSet(x(z))
    BY <2>1, FS_Subset, FS_Difference, FS_Intersection
  <2>3. f(z) = g(z) \cup x(z) /\ g(z) \cap x(z) = {}
    OBVIOUS
  <2> HIDE DEF f, g, x
  <2>4. Cardinality(f(z)) \in Nat /\ Cardinality(g(z)) \in Nat /\ Cardinality(x(z)) \in Nat
    BY <2>2, FS_CardinalityType
  <2>5. Cardinality(f(z)) = Cardinality(g(z)) + Cardinality(x(z)) - 0
    BY <2>2, <2>3, FS_Union, FS_EmptySet
  <2> QED  BY <2>4, <2>5
<1>3. /\ FreeCounts(bits) \in [DOMAIN zones -> Nat]
      /\ FreeCounts(bits \cup X) \in [DOMAIN zones -> Nat]
      /\ \A z \in DOMAIN zones : /\ FreeCounts(bits)[z] = Cardinality(f(z))
                                 /\ FreeCounts(bits \cup X)[z] = Cardinality(g(z))
                                 /\ Pieces(X)[z] = Cardinality(x(z))
  BY <1>2 DEF FreeCounts, Pieces
<1>4. Pieces(X) \in [DOMAIN zones -> Nat] /\ Sum(Pieces(X)) = Cardinality(X)
  BY PiecesFacts
<1> HIDE DEF f, g, x
<1>5. /\ FreeCounts(bits) \in [1 .. n -> Int] /\ FreeCounts(bits \cup X) \in [1 .. n -> Int]
      /\ Pieces(X) \in [1 .. n -> Int]
  <2>1. \A D, c : c \in [D -> Nat] => c \in [D -> Int]
    OBVIOUS
  <2> QED  BY <1>1, <1>3, <1>4, <2>1
<1>6. \A z \in 1 .. n : FreeCounts(bits)[z] = FreeCounts(bits \cup X)[z] + Pieces(X)[z]
  BY <1>1, <1>2, <1>3
<1>7. /\ Sum(FreeCounts(bits)) = Sum(FreeCounts(bits \cup X)) + Sum(Pieces(X))
      /\ Sum(FreeCounts(bits \cup X)) \in Int
  <2>1. Termwise(n, FreeCounts(bits \cup X), Pieces(X), FreeCounts(bits))
    BY <1>1, <1>5, <1>6 DEF Termwise
  <2> QED  BY <2>1, SumTermwise
<1> QED  BY <1>3, <1>4, <1>7

\* What the zones' counts say, in these terms.
LEMMA ZoneCountsIs ==
    ASSUME NEW m
    PROVE  ZoneCounts(m) <=>
             /\ \A z \in DOMAIN zones : m.page_free_count[z] + m.page_using_count[z]
                                           = Cardinality(ZonePages(zones[z]))
             /\ Sum(m.page_free_count) = Sum(FreeCounts(m.bits_map))
BY DEF ZoneCounts, FreeCounts

\* A block has the number of pages that is asked for.
LEMMA BlockFacts ==
    ASSUME NEW page \in Nat, NEW number \in Nat \ {0}
    PROVE  /\ IsFiniteSet(Block(page, number)) /\ Cardinality(Block(page, number)) = number
           /\ page \in Block(page, number) /\ Block(page, 1) = {page}
<1>1. page + number - 1 \in Int /\ page <= page + number - 1 /\ (page + number - 1) - page + 1 = number
  OBVIOUS
<1>2. page \in Block(page, number) /\ Block(page, 1) = {page}
  BY DEF Block
<1>3. Block(page, number) = page .. page + number - 1 /\ page \in Int
  BY DEF Block
<1>4. /\ IsFiniteSet(Block(page, number))
      /\ Cardinality(Block(page, number))
            = IF page > page + number - 1 THEN 0 ELSE (page + number - 1) - page + 1
  BY <1>1, <1>3, FS_Interval
<1> QED  BY <1>1, <1>2, <1>4

\* What alloc_pages does, with S and B as before the call.
AllocRight(m, r, number, S, B) ==
    \/ /\ r.page = Null /\ r.mem = m
       /\ Len(zones) = 1 /\ number = 1 => ZonePages(zones[1]) \subseteq m.bits_map
    \/ /\ r.page \in Pages /\ r.page # Null /\ r.mem \in MemType
       /\ Block(r.page, number) \subseteq Pages /\ Block(r.page, number) \cap m.bits_map = {}
       /\ r.mem.bits_map = m.bits_map \cup Block(r.page, number)
       /\ r.mem.reference_count = m.reference_count
       /\ SameSlabs(m, r.mem) /\ PagesRight(r.mem, S, B \cup Block(r.page, number))

\* The search may leave the zone, but not the map: the bit of its last page is 1.
LEMMA FirstFit ==
    ASSUME machine \in Machines, NEW m \in MemType, MapPages(machine) - 1 \in m.bits_map,
           NEW number \in Nat \ {0}, NEW page \in TriedPages(zones[1]), FreeBlock(m, page, number)
    PROVE  page \in Pages /\ Block(page, number) \subseteq Pages
<1> DEFINE a == zones[1].end
           last == ((a + WORD - 1) \div WORD) * WORD
           top == MapPages(machine)
<1>1. /\ zones[1].start \in Nat /\ a \in Nat /\ a < top /\ top \in Nat /\ top % WORD = 0
      /\ WORD \in Nat \ {0}
  BY MachineFacts, PageAllocAssumption
<1> HIDE DEF zones, a, top
<1>2. last \in Nat /\ last <= top
  <2>1. a <= top
    BY <1>1
  <2> QED  BY <1>1, <2>1, RoundUp
<1>3. page \in zones[1].start .. last - 1
  BY DEF TriedPages, a
<1> HIDE DEF last
<1>4. page \in Nat /\ page <= top - 1
  BY <1>1, <1>2, <1>3
<1>5. top - 1 \notin Block(page, number)
  BY DEF FreeBlock, top
<1>6. page + number - 1 < top - 1
  BY <1>1, <1>4, <1>5 DEF Block
<1>7. Block(page, number) \subseteq 0 .. top - 1
  BY <1>1, <1>4, <1>6 DEF Block
<1> QED  BY <1>1, <1>4, <1>7 DEF Pages, top

\* alloc_pages gives pages that were free, keeps the counts right, and fails with one
\* zone and one page only when there is none.
LEMMA AllocPagesRight ==
    ASSUME machine \in Machines, NEW m \in MemType, NEW S, NEW B, PagesRight(m, S, B),
           NEW number \in Nat \ {0}
    PROVE  AllocRight(m, alloc_pages(m, number), number, S, B)
<1> DEFINE fit == {p \in TriedPages(zones[1]) : FreeBlock(m, p, number)}
           page == CHOOSE p \in fit : \A q \in fit : p <= q
           block == Block(page, number)
           n == [m EXCEPT !.bits_map = @ \cup block,
                          !.page_using_count[1] = @ + number,
                          !.page_free_count[1] = @ - number]
           r == alloc_pages(m, number)
<1>1. r = IF ~Enough(m, number) \/ fit = {} THEN [mem |-> m, page |-> Null]
          ELSE [mem |-> n, page |-> page]
  BY DEF alloc_pages
<1> HIDE DEF r, zones
<1>2. /\ 1 \in DOMAIN zones /\ zones[1].start \in Nat /\ zones[1].end \in Nat /\ Len(zones) \in Nat
      /\ DOMAIN zones = 1 .. Len(zones) /\ WORD \in Nat \ {0} /\ MapPages(machine) \in Nat
      /\ MapPages(machine) % WORD = 0 /\ zones[1].end < MapPages(machine)
  BY MachineFacts, PageAllocAssumption
<1>3. MapPages(machine) - 1 \in m.bits_map
  BY ZoneFacts DEF PagesRight, PagesFor
<1>4. /\ m.bits_map \subseteq Pages /\ m.page_using_count \in [DOMAIN zones -> Int]
      /\ m.page_free_count \in [DOMAIN zones -> Int]
      /\ m.page_free_count[1] \in Int /\ m.page_using_count[1] \in Int
  BY <1>2 DEF MemType
<1>5. CASE fit # {} /\ Enough(m, number)
  <2>1. page \in fit
    <3>1. fit \in SUBSET Nat
      BY <1>2, <1>3, FirstFit, ZoneFacts
    <3> HIDE DEF fit
    <3>2. \E k \in fit : \A j \in fit : k <= j
      BY <1>5, <3>1, LeastNatural
    <3> QED  BY <3>2
  <2>2. page \in Pages /\ block \subseteq Pages /\ block \cap m.bits_map = {} /\ page \in Nat
    BY <2>1, <1>3, FirstFit, ZoneFacts DEF FreeBlock
  <2> HIDE DEF page, fit
  <2>3. page # Null
    BY <2>2 DEF Null
  <2>4. IsFiniteSet(block) /\ Cardinality(block) = number
    BY <2>2, BlockFacts
  <2> HIDE DEF block
  <2>5. n \in MemType /\ SameSlabs(m, n) /\ n.reference_count = m.reference_count
    <3> DEFINE f == [m.page_free_count EXCEPT ![1] = @ - number]
               u == [m.page_using_count EXCEPT ![1] = @ + number]
    <3>0. m.bits_map \cup block \in SUBSET Pages
      BY <1>4, <2>2
    <3>1. f \in [DOMAIN zones -> Int] /\ u \in [DOMAIN zones -> Int]
      <4>1. m.page_free_count[1] - number \in Int /\ m.page_using_count[1] + number \in Int
        BY <1>4
      <4>2. \A D, g, i, y : g \in [D -> Int] /\ y \in Int => [g EXCEPT ![i] = y] \in [D -> Int]
        OBVIOUS
      <4> HIDE DEF n
      <4> QED  BY <1>4, <4>1, <4>2
    <3>2. n = [m EXCEPT !.bits_map = m.bits_map \cup block, !.page_using_count = u,
                        !.page_free_count = f]
      BY DEF MemType
    <3> HIDE DEF n, f, u
    <3> QED  BY <3>0, <3>1, <3>2 DEF MemType, SameSlabs
  <2>6. /\ n.bits_map = m.bits_map \cup block /\ n.total_pages_link = m.total_pages_link
        /\ n.page_free_count = [m.page_free_count EXCEPT ![1] = @ - number]
        /\ n.page_using_count = [m.page_using_count EXCEPT ![1] = @ + number]
    BY DEF MemType
  <2> HIDE DEF n
  <2>7. block \cap Reserved = {} /\ block \cap S = {}
    BY <2>2 DEF PagesRight, PagesFor
  <2>8. PagesFor(n, S, B \cup block)
    BY <2>5, <2>6, <2>7 DEF PagesRight, PagesFor
  <2>9. Linked(n)
    BY <2>5, <2>6 DEF PagesRight, Linked
  <2>10. ZoneCounts(n)
    <3> DEFINE d == [z \in DOMAIN zones |-> IF z = 1 THEN 0 - number ELSE 0]
               k == Len(zones)
    <3>1. /\ d \in [1 .. k -> Int] /\ d[1] = 0 - number /\ 1 \in 1 .. k
          /\ \A z \in 1 .. k : z # 1 => d[z] = 0
      BY <1>2
    <3>2. \A z \in 1 .. k : n.page_free_count[z] = m.page_free_count[z] + d[z]
      <4> SUFFICES ASSUME NEW z \in DOMAIN zones
                   PROVE  n.page_free_count[z] = m.page_free_count[z] + d[z]
        BY <1>2
      <4>1. m.page_free_count[z] \in Int
        BY <1>4
      <4>2. n.page_free_count[z] = IF z = 1 THEN m.page_free_count[z] - number ELSE m.page_free_count[z]
        BY <1>4, <2>6
      <4>3. d[z] = IF z = 1 THEN 0 - number ELSE 0
        OBVIOUS
      <4> HIDE DEF d
      <4> QED  BY <4>1, <4>2, <4>3
    <3> HIDE DEF d, k
    <3>3. k \in Nat /\ DOMAIN zones = 1 .. k
      BY <1>2 DEF k
    <3>4. Sum(d) = 0 - number
      BY <3>1, <3>3, SumOne
    <3>5. m.page_free_count \in [1 .. k -> Int] /\ n.page_free_count \in [1 .. k -> Int]
      BY <1>4, <2>5, <3>3 DEF MemType
    <3>6. /\ Sum(n.page_free_count) = Sum(m.page_free_count) + Sum(d)
          /\ Sum(m.page_free_count) \in Int
      <4>1. Termwise(k, m.page_free_count, d, n.page_free_count)
        BY <3>1, <3>2, <3>3, <3>5 DEF Termwise
      <4> QED  BY <4>1, SumTermwise
    <3>7. /\ Sum(FreeCounts(m.bits_map)) = Sum(FreeCounts(m.bits_map \cup block)) + number
          /\ Sum(FreeCounts(m.bits_map \cup block)) \in Int
      BY <1>4, <2>2, <2>4, <2>7, FreeCountsFacts
    <3>8. Sum(m.page_free_count) = Sum(FreeCounts(m.bits_map))
      BY ZoneCountsIs DEF PagesRight
    <3>9. Sum(n.page_free_count) = Sum(FreeCounts(n.bits_map))
      BY <2>6, <3>4, <3>6, <3>7, <3>8
    <3>10. ASSUME NEW z \in DOMAIN zones
           PROVE  n.page_free_count[z] + n.page_using_count[z] = Cardinality(ZonePages(zones[z]))
      <4>1. m.page_free_count[z] + m.page_using_count[z] = Cardinality(ZonePages(zones[z]))
        BY DEF PagesRight, ZoneCounts
      <4>2. m.page_free_count[z] \in Int /\ m.page_using_count[z] \in Int
        BY <1>4
      <4>3. /\ n.page_free_count[z] = IF z = 1 THEN m.page_free_count[z] - number ELSE m.page_free_count[z]
            /\ n.page_using_count[z] = IF z = 1 THEN m.page_using_count[z] + number ELSE m.page_using_count[z]
        BY <1>4, <2>6
      <4> QED  BY <4>1, <4>2, <4>3
    <3> QED  BY <3>9, <3>10, ZoneCountsIs
  <2>11. r.mem = n /\ r.page = page
    BY <1>1, <1>5
  <2> QED  BY <2>2, <2>3, <2>5, <2>6, <2>8, <2>9, <2>10, <2>11 DEF AllocRight, PagesRight, block, r
<1>6. CASE ~(fit # {} /\ Enough(m, number))
  <2>1. r.page = Null /\ r.mem = m
    BY <1>1, <1>6
  <2>2. ASSUME Len(zones) = 1, number = 1
        PROVE  ZonePages(zones[1]) \subseteq m.bits_map
    <3>1. CASE ~Enough(m, number)
      <4> DEFINE c == FreeCounts(m.bits_map)
                 free == ZonePages(zones[1]) \ m.bits_map
      <4>1. m.page_free_count[1] < 1
        BY <1>4, <2>2, <3>1 DEF Enough
      <4>2. Sum(m.page_free_count) = Sum(c)
        BY ZoneCountsIs DEF PagesRight
      <4>3. c \in [DOMAIN zones -> Nat] /\ c[1] = Cardinality(free)
        <5>1. {} \in SUBSET Pages /\ {} \cap Reserved = {} /\ {} \cap m.bits_map = {}
          OBVIOUS
        <5>2. c \in [DOMAIN zones -> Nat]
          BY <1>4, <5>1, FreeCountsFacts
        <5> QED  BY <1>2, <5>2 DEF FreeCounts
      <4>4. c \in [1 .. 1 -> Int] /\ m.page_free_count \in [1 .. 1 -> Int]
        BY <1>2, <1>4, <2>2, <4>3
      <4> HIDE DEF c
      <4>5. Sum(c) = c[1] /\ Sum(m.page_free_count) = m.page_free_count[1]
        <5>1. 1 \in Nat /\ 1 \in 1 .. 1 /\ \A i \in 1 .. 1 : i = 1
          OBVIOUS
        <5> QED  BY <4>4, <5>1, SumOne
      <4>6. IsFiniteSet(free)
        BY <1>2, ZoneFacts, FS_Difference
      <4>7. Cardinality(free) = 0
        <5>1. Cardinality(free) \in Nat
          BY <4>6, FS_CardinalityType
        <5> QED  BY <1>4, <4>1, <4>2, <4>3, <4>5, <5>1
      <4> QED  BY <4>6, <4>7, FS_EmptySet
    <3>2. CASE fit = {}
      <4> SUFFICES ASSUME NEW p \in ZonePages(zones[1]) PROVE p \in m.bits_map
        OBVIOUS
      <4>1. p \in TriedPages(zones[1]) /\ p \in Nat
        <5> DEFINE a == zones[1].end
                   q == (a + WORD - 1) \div WORD
        <5>1. a \in Nat
          BY <1>2
        <5>2. q * WORD >= a /\ q * WORD \in Nat
          <6> HIDE DEF a
          <6>1. a <= MapPages(machine)
            BY <1>2 DEF a
          <6> QED  BY <1>2, <5>1, <6>1, RoundUp
        <5> HIDE DEF q, a
        <5>3. p \in zones[1].start .. a - 1
          BY DEF ZonePages, a
        <5>4. p \in zones[1].start .. q * WORD - 1
          BY <1>2, <5>1, <5>2, <5>3
        <5> QED  BY <1>2, <5>3, <5>4 DEF TriedPages, q, a
      <4>2. Block(p, 1) = {p}
        BY <4>1, BlockFacts
      <4>3. ~FreeBlock(m, p, 1)
        BY <2>2, <3>2, <4>1
      <4> QED  BY <4>2, <4>3 DEF FreeBlock
    <3> QED  BY <1>6, <3>1, <3>2
  <2> QED  BY <2>1, <2>2 DEF AllocRight, r
<1> QED  BY <1>5, <1>6

\* A function on pages leaves the slabs alone, and the pages right.
PagesOnly(m, n, S, B) == n \in MemType /\ SameSlabs(m, n) /\ PagesRight(n, S, B)

\* free_pages gives pages back that had an owner.
LEMMA FreePagesRight ==
    ASSUME machine \in Machines, NEW m \in MemType, NEW S, NEW B, PagesRight(m, S, B),
           NEW page \in Nat, NEW number \in Nat \ {0}, Block(page, number) \subseteq B
    PROVE  LET n == free_pages(m, page, number)
           IN  /\ PagesOnly(m, n, S, B \ Block(page, number))
               /\ n.reference_count = m.reference_count
               /\ n.bits_map = m.bits_map \ Block(page, number)
<1> DEFINE block == Block(page, number)
           u == [z \in DOMAIN zones |-> m.page_using_count[z] - InBlock(z, page, number)]
           f == [z \in DOMAIN zones |-> m.page_free_count[z] + InBlock(z, page, number)]
           bits == m.bits_map \ block
           n == [m EXCEPT !.bits_map = bits, !.page_using_count = u, !.page_free_count = f]
           d == Pieces(block)
           k == Len(zones)
<1>1. free_pages(m, page, number) = n
  BY DEF free_pages, MemType
<1>2. /\ m.bits_map \subseteq Pages /\ m.page_using_count \in [DOMAIN zones -> Int]
      /\ m.page_free_count \in [DOMAIN zones -> Int]
  BY DEF MemType
<1>3. block \subseteq m.bits_map /\ block \subseteq Pages /\ block \cap Reserved = {} /\ block \cap S = {}
  BY <1>2 DEF PagesRight, PagesFor
<1>4. d \in [DOMAIN zones -> Nat] /\ Sum(d) = Cardinality(block)
  BY <1>3, PiecesFacts
<1>5. \A z \in DOMAIN zones : d[z] = InBlock(z, page, number)
  BY DEF Pieces, InBlock
<1>6. k \in Nat /\ DOMAIN zones = 1 .. k
  BY MachineFacts
<1> HIDE DEF zones, d, k
<1>7. /\ u \in [DOMAIN zones -> Int] /\ f \in [DOMAIN zones -> Int]
      /\ \A z \in DOMAIN zones : /\ u[z] = m.page_using_count[z] - d[z]
                                 /\ f[z] = m.page_free_count[z] + d[z]
  <2>1. ASSUME NEW z \in DOMAIN zones
        PROVE  /\ m.page_using_count[z] - InBlock(z, page, number) \in Int
               /\ m.page_free_count[z] + InBlock(z, page, number) \in Int
    <3>1. m.page_using_count[z] \in Int /\ m.page_free_count[z] \in Int /\ d[z] \in Nat
      BY <1>2, <1>4
    <3> QED  BY <1>5, <3>1
  <2> QED  BY <1>5, <2>1
<1> HIDE DEF u, f, block
<1>8. bits \in SUBSET Pages
  BY <1>2
<1>9. /\ n \in MemType /\ SameSlabs(m, n) /\ n.reference_count = m.reference_count
      /\ n.bits_map = bits /\ n.page_using_count = u /\ n.page_free_count = f
      /\ n.total_pages_link = m.total_pages_link
  <2> HIDE DEF bits
  <2> QED  BY <1>7, <1>8 DEF MemType, SameSlabs
<1> HIDE DEF n
<1>10. PagesFor(n, S, B \ block)
  <2>1. bits = Reserved \cup S \cup (B \ block)
    BY <1>3 DEF PagesRight, PagesFor
  <2> HIDE DEF bits
  <2> QED  BY <1>9, <2>1 DEF PagesRight, PagesFor
<1>11. Linked(n)
  BY <1>9 DEF PagesRight, Linked
<1>12. ZoneCounts(n)
  <2>1. d \in [1 .. k -> Int] /\ m.page_free_count \in [1 .. k -> Int] /\ f \in [1 .. k -> Int]
    <3>1. \A D, c : c \in [D -> Nat] => c \in [D -> Int]
      OBVIOUS
    <3> QED  BY <1>2, <1>4, <1>6, <1>7, <3>1
  <2>2. Sum(f) = Sum(m.page_free_count) + Sum(d)
    <3>1. \A z \in 1 .. k : f[z] = m.page_free_count[z] + d[z]
      BY <1>6, <1>7
    <3>2. Termwise(k, m.page_free_count, d, f)
      BY <1>6, <2>1, <3>1 DEF Termwise
    <3> QED  BY <3>2, SumTermwise
  <2>3. Sum(FreeCounts(bits)) = Sum(FreeCounts(m.bits_map)) + Cardinality(block)
    <3>1. bits \cup block = m.bits_map /\ block \cap bits = {}
      BY <1>3
    <3> HIDE DEF bits
    <3> QED  BY <1>3, <1>8, <3>1, FreeCountsFacts
  <2>4. Sum(m.page_free_count) = Sum(FreeCounts(m.bits_map))
    BY ZoneCountsIs DEF PagesRight
  <2>5. Sum(n.page_free_count) = Sum(FreeCounts(n.bits_map))
    BY <1>4, <1>9, <2>2, <2>3, <2>4
  <2>6. ASSUME NEW z \in DOMAIN zones
        PROVE  n.page_free_count[z] + n.page_using_count[z] = Cardinality(ZonePages(zones[z]))
    <3>1. m.page_free_count[z] + m.page_using_count[z] = Cardinality(ZonePages(zones[z]))
      BY DEF PagesRight, ZoneCounts
    <3>2. m.page_free_count[z] \in Int /\ m.page_using_count[z] \in Int /\ d[z] \in Nat
      BY <1>2, <1>4
    <3>3. \A a, b, c \in Int : (a + c) + (b - c) = a + b
      OBVIOUS
    <3> QED  BY <1>7, <1>9, <3>1, <3>2, <3>3
  <2> QED  BY <2>5, <2>6, ZoneCountsIs
<1> QED  BY <1>1, <1>9, <1>10, <1>11, <1>12 DEF PagesRight, PagesOnly, block, bits

\* A page that a zone has is in one zone.
LEMMA ZoneOfFacts ==
    ASSUME machine \in Machines, NEW page \in Pages \ Reserved
    PROVE  ZoneOf(page) \in DOMAIN zones /\ page \in ZonePages(zones[ZoneOf(page)])
<1>1. \E z \in DOMAIN zones : page \in ZonePages(zones[z])
  BY ZoneFacts
<1> HIDE DEF zones
<1> QED  BY <1>1 DEF ZoneOf

\* The pages that have a reference from the start are reserved.
LEMMA NotLow ==
    ASSUME machine \in Machines, NEW page \in Pages \ Reserved
    PROVE  page \notin 0 .. machine.last_page
<1>1. 0 \in Reserved
  BY ZoneFacts, MachineFacts DEF Reserved, Unzoned, Pages
<1>2. \A p \in 0 .. machine.last_page : p = 0 \/ p \in 1 .. machine.last_page
  BY MachineFacts
<1> QED  BY <1>1, <1>2 DEF Reserved

\* The references of a zone follow those of its pages.
LEMMA Relinked ==
    ASSUME machine \in Machines, NEW m \in MemType, NEW n, NEW page \in Pages \ Reserved,
           NEW d \in {-1, 1}, m.reference_count[page] = IF d = 1 THEN 0 ELSE 1, Linked(m),
           n.reference_count = [m.reference_count EXCEPT ![page] = @ + d],
           n.total_pages_link = [m.total_pages_link EXCEPT ![ZoneOf(page)] = @ + d]
    PROVE  Linked(n)
<1> DEFINE y == ZoneOf(page)
<1>1. /\ y \in DOMAIN zones /\ page \in ZonePages(zones[y])
      /\ \A z \in DOMAIN zones : page \in ZonePages(zones[z]) => z = y
  BY ZoneOfFacts, ZoneFacts
<1> HIDE DEF zones, y
<1>2. /\ m.reference_count \in [Pages -> 0 .. 1] /\ m.total_pages_link \in [DOMAIN zones -> Int]
      /\ n.total_pages_link = [m.total_pages_link EXCEPT ![y] = @ + d]
  BY DEF MemType, y
<1>3. n.reference_count[page] = m.reference_count[page] + d
      /\ \A p \in Pages : p # page => n.reference_count[p] = m.reference_count[p]
  BY <1>2
<1> SUFFICES ASSUME NEW z \in DOMAIN zones
             PROVE  n.total_pages_link[z]
                      = Cardinality({p \in ZonePages(zones[z]) : n.reference_count[p] = 1})
  BY DEF Linked
<1> DEFINE a == {p \in ZonePages(zones[z]) : m.reference_count[p] = 1}
           b == {p \in ZonePages(zones[z]) : n.reference_count[p] = 1}
<1>4. /\ ZonePages(zones[z]) \subseteq Pages /\ IsFiniteSet(ZonePages(zones[z]))
  BY ZoneFacts
<1>5. IsFiniteSet(a) /\ m.total_pages_link[z] = Cardinality(a)
  BY <1>4, FS_Subset DEF Linked
<1>6. CASE z # y
  <2>1. a = b
    BY <1>1, <1>3, <1>4, <1>6
  <2>2. n.total_pages_link[z] = m.total_pages_link[z]
    BY <1>2, <1>6
  <2> QED  BY <1>5, <2>1, <2>2
<1>7. CASE z = y
  <2>1. n.total_pages_link[z] = m.total_pages_link[z] + d
    BY <1>2, <1>7
  <2>2. CASE d = 1
    <3>1. b = a \cup {page} /\ page \notin a
      BY <1>1, <1>3, <1>4, <1>7, <2>2
    <3> HIDE DEF a, b
    <3>2. Cardinality(b) = Cardinality(a) + 1
      BY <1>5, <3>1, FS_AddElement
    <3> QED  BY <1>5, <2>1, <2>2, <3>2 DEF b
  <2>3. CASE d = -1
    <3>1. b = a \ {page} /\ page \in a
      BY <1>1, <1>3, <1>4, <1>7, <2>3
    <3> HIDE DEF a, b
    <3>2. Cardinality(b) = Cardinality(a) - 1
      BY <1>5, <3>1, FS_RemoveElement
    <3>3. \A c \in Int : c + -1 = c - 1
      OBVIOUS
    <3>4. Cardinality(a) \in Int
      BY <1>5, FS_CardinalityType
    <3> QED  BY <1>5, <2>1, <2>3, <3>2, <3>3, <3>4 DEF b
  <2> QED  BY <2>2, <2>3
<1> QED  BY <1>6, <1>7

\* One page has so many references after a call, the others what they had.
ReferenceAt(m, n, page, count) ==
    /\ n.bits_map = m.bits_map /\ n.reference_count[page] = count
    /\ \A p \in Pages : p # page => n.reference_count[p] = m.reference_count[p]

\* page_init, of a page alloc_pages gave: a reference one failing slab_malloc forgot
\* is used again.
LEMMA PageInitRight ==
    ASSUME machine \in Machines, NEW m \in MemType, NEW S \in SUBSET Pages, NEW B, PagesRight(m, S, B),
           NEW page \in Pages \ Reserved
    PROVE  /\ PagesOnly(m, page_init(m, page), S, B)
           /\ ReferenceAt(m, page_init(m, page), page, 1)
<1> DEFINE r == [m.reference_count EXCEPT ![page] = @ + 1]
           t == [m.total_pages_link EXCEPT ![ZoneOf(page)] = @ + 1]
           n == [m EXCEPT !.reference_count = r, !.total_pages_link = t]
<1>1. m.reference_count \in [Pages -> 0 .. 1] /\ m.total_pages_link \in [DOMAIN zones -> Int]
      /\ m.reference_count[page] \in 0 .. 1
  BY DEF MemType
<1>2. CASE m.reference_count[page] # 0
  <2>1. page_init(m, page) = m /\ m.reference_count[page] = 1
    BY <1>1, <1>2 DEF page_init
  <2> QED  BY <2>1 DEF PagesOnly, SameSlabs, ReferenceAt
<1>3. CASE m.reference_count[page] = 0
  <2>1. page_init(m, page) = n
    BY <1>3 DEF page_init, MemType
  <2>2. r \in [Pages -> 0 .. 1]
    BY <1>1, <1>3
  <2>3. t \in [DOMAIN zones -> Int]
    <3>1. ZoneOf(page) \in DOMAIN zones
      BY ZoneOfFacts
    <3>2. m.total_pages_link[ZoneOf(page)] + 1 \in Int
      BY <1>1, <3>1
    <3>3. \A D, g, i, y : g \in [D -> Int] /\ y \in Int => [g EXCEPT ![i] = y] \in [D -> Int]
      OBVIOUS
    <3> QED  BY <1>1, <3>2, <3>3
  <2>4. r[page] = 1 /\ \A p \in Pages : p # page => r[p] = m.reference_count[p]
    BY <1>1, <1>3
  <2>5. /\ n.reference_count = [m.reference_count EXCEPT ![page] = @ + 1]
        /\ n.total_pages_link = [m.total_pages_link EXCEPT ![ZoneOf(page)] = @ + 1]
    BY DEF MemType
  <2>6. /\ n \in MemType /\ SameSlabs(m, n) /\ n.bits_map = m.bits_map
        /\ n.reference_count = r
        /\ n.page_free_count = m.page_free_count /\ n.page_using_count = m.page_using_count
    <3> HIDE DEF r, t
    <3> QED  BY <2>2, <2>3 DEF MemType, SameSlabs
  <2> HIDE DEF r, t, n
  <2>7. Linked(n)
    <3>1. 1 \in {-1, 1} /\ m.reference_count[page] = IF 1 = 1 THEN 0 ELSE 1
      BY <1>3
    <3>2. Linked(m)
      BY DEF PagesRight
    <3> QED  BY <2>5, <3>1, <3>2, Relinked
  <2>8. PagesFor(n, S, B)
    <3>1. PagesFor(m, S, B)
      BY DEF PagesRight
    <3>2. \A p \in S \cup 0 .. machine.last_page : p \in Pages
      BY MachineFacts, ZoneFacts, NotLow DEF Pages, ZonePages
    <3> QED  BY <2>4, <2>6, <3>1, <3>2 DEF PagesFor
  <2>9. ZoneCounts(n)
    BY <2>6 DEF PagesRight, ZoneCounts
  <2> QED  BY <2>1, <2>4, <2>6, <2>7, <2>8, <2>9 DEF PagesOnly, PagesRight, ReferenceAt
<1> QED  BY <1>1, <1>2, <1>3

\* page_clean, of a page with one reference.
LEMMA PageCleanRight ==
    ASSUME machine \in Machines, NEW m \in MemType, NEW S \in SUBSET Pages, NEW B, PagesRight(m, S, B),
           NEW page \in B, m.reference_count[page] = 1
    PROVE  /\ PagesOnly(m, page_clean(m, page), S, B)
           /\ ReferenceAt(m, page_clean(m, page), page, 0)
<1> DEFINE r == [m.reference_count EXCEPT ![page] = @ + -1]
           t == [m.total_pages_link EXCEPT ![ZoneOf(page)] = @ + -1]
           n == [m EXCEPT !.reference_count = r, !.total_pages_link = t]
<1>1. /\ m.reference_count \in [Pages -> 0 .. 1] /\ m.total_pages_link \in [DOMAIN zones -> Int]
      /\ m.bits_map \subseteq Pages
  BY DEF MemType
<1>2. page \in Pages \ Reserved /\ page \notin S
  BY <1>1 DEF PagesRight, PagesFor
<1>3. ZoneOf(page) \in DOMAIN zones /\ page \notin 0 .. machine.last_page
  BY <1>2, ZoneOfFacts, NotLow
<1>4. page_clean(m, page) = n
  <2>1. \A c \in Int : c - 1 = c + -1
    OBVIOUS
  <2>2. /\ m.reference_count[page] - 1 = m.reference_count[page] + -1
        /\ m.total_pages_link[ZoneOf(page)] - 1 = m.total_pages_link[ZoneOf(page)] + -1
    BY <1>1, <1>2, <1>3, <2>1
  <2> QED  BY <2>2 DEF page_clean, MemType
<1>5. r \in [Pages -> 0 .. 1] /\ r[page] = 0
      /\ \A p \in Pages : p # page => r[p] = m.reference_count[p]
  BY <1>1, <1>2
<1>6. t \in [DOMAIN zones -> Int]
  <2>1. m.total_pages_link[ZoneOf(page)] + -1 \in Int
    BY <1>1, <1>3
  <2>2. \A D, g, i, y : g \in [D -> Int] /\ y \in Int => [g EXCEPT ![i] = y] \in [D -> Int]
    OBVIOUS
  <2> QED  BY <1>1, <2>1, <2>2
<1>7. /\ n.reference_count = [m.reference_count EXCEPT ![page] = @ + -1]
      /\ n.total_pages_link = [m.total_pages_link EXCEPT ![ZoneOf(page)] = @ + -1]
  BY DEF MemType
<1>8. /\ n \in MemType /\ SameSlabs(m, n) /\ n.bits_map = m.bits_map
      /\ n.reference_count = r
      /\ n.page_free_count = m.page_free_count /\ n.page_using_count = m.page_using_count
  <2> HIDE DEF r, t
  <2> QED  BY <1>5, <1>6 DEF MemType, SameSlabs
<1> HIDE DEF r, t, n
<1>9. Linked(n)
  <2>1. -1 \in {-1, 1} /\ m.reference_count[page] = IF -1 = 1 THEN 0 ELSE 1
    OBVIOUS
  <2>2. Linked(m)
    BY DEF PagesRight
  <2> QED  BY <1>2, <1>7, <2>1, <2>2, Relinked
<1>10. PagesFor(n, S, B)
  <2>1. PagesFor(m, S, B)
    BY DEF PagesRight
  <2>2. \A p \in S \cup 0 .. machine.last_page : p \in Pages /\ p # page
    BY <1>2, <1>3, MachineFacts, ZoneFacts, SMTT(30) DEF Pages, ZonePages
  <2> QED  BY <1>5, <1>8, <2>1, <2>2, SMTT(30) DEF PagesFor
<1>11. ZoneCounts(n)
  BY <1>8 DEF PagesRight, ZoneCounts
<1> QED  BY <1>4, <1>5, <1>8, <1>9, <1>10, <1>11 DEF PagesOnly, PagesRight, ReferenceAt

-----------------------------------------------------------------------------
(* The objects of slabs.                                                   *)

Cell(page, index) == [page |-> page, index |-> index]

\* The indices of a slab whose bit is 0.
Spaces(s) == (0 .. s.color_count - 1) \ s.color_map

\* The objects of a slab are as many as their indices.
LEMMA CellsFacts ==
    ASSUME NEW page, NEW I, IsFiniteSet(I)
    PROVE  IsFiniteSet(Cells(page, I)) /\ Cardinality(Cells(page, I)) = Cardinality(I)
<1> DEFINE f == [i \in I |-> Cell(page, i)]
<1>1. \A i \in I : f[i] \in Cells(page, I)
  BY DEF Cell, Cells
<1>2. \A i, j \in I : f[i] = f[j] => i = j
  BY DEF Cell
<1>3. \A x \in Cells(page, I) : \E i \in I : f[i] = x
  BY DEF Cell, Cells
<1>4. f \in Bijection(I, Cells(page, I))
  <2>1. f \in [I -> Cells(page, I)]
    BY <1>1
  <2> HIDE DEF f
  <2> QED  BY <1>2, <1>3, <2>1 DEF Bijection, Injection, Surjection, IsInjective
<1> HIDE DEF f
<1>5. ExistsBijection(I, Cells(page, I))
  BY <1>4 DEF ExistsBijection
<1> QED  BY <1>5, FS_Bijection

\* There are finitely many objects on finitely many pages.
LEMMA AllCellsFinite ==
    ASSUME NEW P, IsFiniteSet(P), NEW I, \A p \in P : IsFiniteSet(I[p])
    PROVE  IsFiniteSet(UNION {Cells(p, I[p]) : p \in P})
<1> DEFINE f == [p \in P |-> Cells(p, I[p])]
           T == {Cells(p, I[p]) : p \in P}
<1>1. f \in Surjection(P, T)
  BY DEF Surjection
<1>2. IsFiniteSet(T)
  <2> HIDE DEF f, T
  <2> QED  BY <1>1, FS_Surjection
<1>3. \A s \in T : IsFiniteSet(s)
  BY CellsFacts
<1> HIDE DEF T
<1> QED  BY <1>2, <1>3, FS_UNION DEF T

\* What is where in a memory.
LEMMA MemFacts ==
    ASSUME machine \in Machines, NEW m \in MemType
    PROVE  /\ m.bits_map \subseteq Pages
           /\ m.total_free \in [Owners -> Int] /\ m.total_using \in [Owners -> Int]
           /\ m.fault \in BOOLEAN /\ m.slab \in [Pages -> SlabType]
           /\ \A o \in Owners : /\ m.list[o] \in Seq(Pages)
                                /\ SlabsOf(m, o) \subseteq Pages /\ IsFiniteSet(SlabsOf(m, o))
                                /\ m.total_free[o] \in Int /\ m.total_using[o] \in Int
           /\ Slabs(m) \subseteq Pages
           /\ \A p \in Pages : /\ m.slab[p].color_map \subseteq Nat
                               /\ m.slab[p].using_count \in Int /\ m.slab[p].free_count \in Int
                               /\ m.slab[p].color_count \in Nat
                               /\ m.slab[p].descriptor \in ObjectType /\ m.slab[p].map \in ObjectType
<1>1. /\ m.bits_map \subseteq Pages
      /\ m.total_free \in [Owners -> Int] /\ m.total_using \in [Owners -> Int]
      /\ m.fault \in BOOLEAN /\ m.slab \in [Pages -> SlabType] /\ m.list \in [Owners -> Seq(Pages)]
  BY DEF MemType
<1>2. ASSUME NEW o \in Owners
      PROVE  /\ m.list[o] \in Seq(Pages) /\ SlabsOf(m, o) \subseteq Pages /\ IsFiniteSet(SlabsOf(m, o))
             /\ m.total_free[o] \in Int /\ m.total_using[o] \in Int
  <2>1. m.list[o] \in Seq(Pages)
    BY <1>1
  <2>2. \A i \in DOMAIN m.list[o] : m.list[o][i] \in Pages
    BY <2>1
  <2>3. SlabsOf(m, o) \subseteq Pages
    BY <2>2 DEF SlabsOf, ToSet
  <2> QED  BY <1>1, <2>1, <2>3, ZoneFacts, FS_Subset
<1>3. Slabs(m) \subseteq Pages
  BY <1>2 DEF Slabs
<1>4. ASSUME NEW p \in Pages
      PROVE  /\ m.slab[p].color_map \subseteq Nat
             /\ m.slab[p].using_count \in Int /\ m.slab[p].free_count \in Int
             /\ m.slab[p].color_count \in Nat
             /\ m.slab[p].descriptor \in ObjectType /\ m.slab[p].map \in ObjectType
  <2>1. m.slab[p] \in SlabType
    BY <1>1
  <2> QED  BY <2>1 DEF SlabType
<1> QED  BY <1>1, <1>2, <1>3, <1>4

\* Which objects are in use, and which are not.
LEMMA CellFacts ==
    ASSUME NEW m
    PROVE  \A o, x :
             /\ x \in InUse(m, o) <=>
                   \E p \in SlabsOf(m, o) : \E i \in m.slab[p].color_map : x = Cell(p, i)
             /\ x \in Unused(m, o) <=>
                   \E p \in SlabsOf(m, o) : \E i \in Spaces(m.slab[p]) : x = Cell(p, i)
BY DEF InUse, Unused, Cells, Cell, Spaces

\* An object in use has its bit in the map of its slab; UnusedCell: one that is not has none.
LEMMA UsedCell ==
    ASSUME NEW m, NEW o, NEW x \in InUse(m, o)
    PROVE  \E p \in SlabsOf(m, o) : \E i \in m.slab[p].color_map : x = Cell(p, i)
BY DEF InUse, Cells, Cell

LEMMA UnusedCell ==
    ASSUME NEW m, NEW o, NEW x \in Unused(m, o)
    PROVE  \E p \in SlabsOf(m, o) : \E i \in Spaces(m.slab[p]) : x = Cell(p, i)
BY DEF Unused, Cells, Cell, Spaces

\* The objects of a size or cache can be counted.
LEMMA CellsFinite ==
    ASSUME machine \in Machines, NEW m \in MemType, MapsRight(m), NEW o \in Owners
    PROVE  IsFiniteSet(InUse(m, o)) /\ IsFiniteSet(Unused(m, o))
<1>1. IsFiniteSet(SlabsOf(m, o)) /\ SlabsOf(m, o) \subseteq Pages
  BY MemFacts
<1>2. ASSUME NEW p \in SlabsOf(m, o)
      PROVE  /\ IsFiniteSet(m.slab[p].color_map)
             /\ IsFiniteSet((0 .. m.slab[p].color_count - 1) \ m.slab[p].color_map)
  <2>1. m.slab[p].color_map \subseteq 0 .. m.slab[p].color_count - 1
    BY DEF MapsRight, MapRight
  <2>2. IsFiniteSet(0 .. m.slab[p].color_count - 1)
    <3>1. m.slab[p].color_count - 1 \in Int /\ 0 \in Int
      BY <1>1, MemFacts
    <3> QED  BY <3>1, FS_Interval
  <2> QED  BY <2>1, <2>2, FS_Subset, FS_Difference
<1> DEFINE used == [p \in SlabsOf(m, o) |-> m.slab[p].color_map]
           unused == [p \in SlabsOf(m, o) |-> (0 .. m.slab[p].color_count - 1) \ m.slab[p].color_map]
<1>3. \A p \in SlabsOf(m, o) : IsFiniteSet(used[p]) /\ IsFiniteSet(unused[p])
  BY <1>2
<1>4. /\ InUse(m, o) = UNION {Cells(p, used[p]) : p \in SlabsOf(m, o)}
      /\ Unused(m, o) = UNION {Cells(p, unused[p]) : p \in SlabsOf(m, o)}
  BY DEF InUse, Unused
<1> HIDE DEF used, unused
<1>5. /\ IsFiniteSet(UNION {Cells(p, used[p]) : p \in SlabsOf(m, o)})
      /\ IsFiniteSet(UNION {Cells(p, unused[p]) : p \in SlabsOf(m, o)})
  BY <1>1, <1>3, AllCellsFinite
<1> QED  BY <1>4, <1>5

-----------------------------------------------------------------------------
(* The functions on slabs, by what they change.                            *)

\* A slab is on a list that was not.
Added(m, n, o, page, slab) ==
    /\ n \in MemType /\ SamePages(m, n)
    /\ n.slab = [m.slab EXCEPT ![page] = slab]
    /\ n.total_free[o] = m.total_free[o] + slab.color_count
    /\ \A x \in Owners \ {o} : n.list[x] = m.list[x] /\ n.total_free[x] = m.total_free[x]
    /\ n.total_using = m.total_using
    /\ SlabsOf(n, o) = SlabsOf(m, o) \cup {page}
    /\ n.list[o] # <<>>
    /\ Distinct(m.list[o]) /\ page \notin SlabsOf(m, o) => Distinct(n.list[o])
    /\ Head(n.list[o]) = IF m.list[o] = <<>> THEN page ELSE Head(m.list[o])

\* A slab has left its list.
Removed(m, n, o, page) ==
    /\ n \in MemType /\ SamePages(m, n)
    /\ n.slab = [m.slab EXCEPT ![page] = NoSlab]
    /\ n.total_free[o] = m.total_free[o] - m.slab[page].color_count
    /\ \A x \in Owners \ {o} : n.list[x] = m.list[x] /\ n.total_free[x] = m.total_free[x]
    /\ n.total_using = m.total_using
    /\ SlabsOf(n, o) = SlabsOf(m, o) \ {page}
    /\ Distinct(n.list[o])
    /\ page # Head(m.list[o]) => n.list[o] # <<>> /\ Head(n.list[o]) = Head(m.list[o])
    /\ page = Head(m.list[o]) => n.list[o] = Tail(m.list[o])

\* A value in a function of integers.
LEMMA CountChanged ==
    ASSUME NEW D, NEW f \in [D -> Int], NEW i \in D, NEW y \in Int
    PROVE  /\ [f EXCEPT ![i] = y] \in [D -> Int] /\ [f EXCEPT ![i] = y][i] = y
           /\ \A x \in D \ {i} : [f EXCEPT ![i] = y][x] = f[x]
OBVIOUS

\* What list_add_to_before and list_add_to_behind do to a list and its counts.
LEMMA AddSlabAdds ==
    ASSUME machine \in Machines, NEW m \in MemType, NEW o \in Owners, NEW page \in Pages,
           NEW slab \in SlabType
    PROVE  /\ Added(m, AddSlab(m, o, page, slab), o, page, slab)
           /\ m.list[o] # <<>> => Added(m, AddSlabBehind(m, o, page, slab), o, page, slab)
<1>1. /\ m.total_free \in [Owners -> Int] /\ m.total_free[o] \in Int
      /\ m.slab \in [Pages -> SlabType] /\ m.list[o] \in Seq(Pages) /\ m.list \in [Owners -> Seq(Pages)]
      /\ slab.color_count \in Nat
  <2>1. m.list \in [Owners -> Seq(Pages)]
    BY DEF MemType
  <2> QED  BY <2>1, MemFacts DEF SlabType
<1> DEFINE f == [m.total_free EXCEPT ![o] = m.total_free[o] + slab.color_count]
           b == [m.slab EXCEPT ![page] = slab]
           n(l) == [m EXCEPT !.list = [m.list EXCEPT ![o] = l], !.total_free = f, !.slab = b]
<1>2. /\ AddSlab(m, o, page, slab) = n(Append(m.list[o], page))
      /\ AddSlabBehind(m, o, page, slab) = n(<<Head(m.list[o]), page>> \o Tail(m.list[o]))
  BY DEF AddSlab, AddSlabBehind, MemType
<1>3. /\ f \in [Owners -> Int] /\ f[o] = m.total_free[o] + slab.color_count
      /\ \A x \in Owners \ {o} : f[x] = m.total_free[x]
  <2>1. m.total_free[o] + slab.color_count \in Int
    BY <1>1
  <2> QED  BY <1>1, <2>1, CountChanged
<1>4. b \in [Pages -> SlabType]
  BY <1>1
<1>5. ASSUME NEW l \in Seq(Pages), l # <<>>, ToSet(l) = SlabsOf(m, o) \cup {page},
             Distinct(m.list[o]) /\ page \notin SlabsOf(m, o) => Distinct(l),
             Head(l) = IF m.list[o] = <<>> THEN page ELSE Head(m.list[o])
      PROVE  Added(m, n(l), o, page, slab)
  <2> DEFINE k == [m.list EXCEPT ![o] = l]
  <2>1. k \in [Owners -> Seq(Pages)] /\ k[o] = l /\ \A x \in Owners \ {o} : k[x] = m.list[x]
    BY <1>1
  <2> DEFINE r == n(l)
  <2>2. /\ r \in MemType /\ SamePages(m, r)
        /\ r.list = k /\ r.total_free = f /\ r.slab = b /\ r.total_using = m.total_using
    <3> HIDE DEF k, f, b
    <3> QED  BY <1>3, <1>4, <2>1 DEF MemType, SamePages
  <2> HIDE DEF k, f, r
  <2>3. SlabsOf(r, o) = ToSet(l)
    BY <2>1, <2>2 DEF SlabsOf
  <2>4. Added(m, r, o, page, slab)
    BY <1>3, <1>5, <2>1, <2>2, <2>3 DEF Added
  <2> QED  BY <2>4 DEF r, f
<1> HIDE DEF n
<1>6. Added(m, AddSlab(m, o, page, slab), o, page, slab)
  <2> DEFINE l == Append(m.list[o], page)
  <2>1. /\ l \in Seq(Pages) /\ l # <<>> /\ ToSet(l) = SlabsOf(m, o) \cup {page}
        /\ Distinct(m.list[o]) /\ page \notin SlabsOf(m, o) => Distinct(l)
        /\ Head(l) = IF m.list[o] = <<>> THEN page ELSE Head(m.list[o])
    BY <1>1, AppendFacts DEF SlabsOf
  <2>2. AddSlab(m, o, page, slab) = n(l)
    BY <1>2
  <2> HIDE DEF l
  <2> QED  BY <1>5, <2>1, <2>2
<1>7. ASSUME m.list[o] # <<>> PROVE Added(m, AddSlabBehind(m, o, page, slab), o, page, slab)
  <2> DEFINE l == <<Head(m.list[o]), page>> \o Tail(m.list[o])
  <2>1. /\ l \in Seq(Pages) /\ l # <<>> /\ ToSet(l) = SlabsOf(m, o) \cup {page}
        /\ Distinct(m.list[o]) /\ page \notin SlabsOf(m, o) => Distinct(l)
        /\ Head(l) = IF m.list[o] = <<>> THEN page ELSE Head(m.list[o])
    BY <1>1, <1>7, BehindFacts DEF SlabsOf
  <2>2. AddSlabBehind(m, o, page, slab) = n(l)
    BY <1>2
  <2> HIDE DEF l
  <2> QED  BY <1>5, <2>1, <2>2
<1> QED  BY <1>6, <1>7

\* What list_del does.
LEMMA UnlistedRemoves ==
    ASSUME machine \in Machines, NEW m \in MemType, NEW o \in Owners, Distinct(m.list[o]),
           NEW page \in SlabsOf(m, o)
    PROVE  Removed(m, Unlisted(m, o, page), o, page)
<1>1. /\ m.total_free \in [Owners -> Int] /\ m.total_free[o] \in Int
      /\ m.slab \in [Pages -> SlabType] /\ m.list[o] \in Seq(Pages) /\ m.list \in [Owners -> Seq(Pages)]
      /\ page \in Pages /\ m.slab[page].color_count \in Nat
  <2>1. m.list \in [Owners -> Seq(Pages)]
    BY DEF MemType
  <2>2. page \in Pages
    BY MemFacts
  <2> QED  BY <2>1, <2>2, MemFacts
<1> DEFINE l == Without(m.list[o], page)
           k == [m.list EXCEPT ![o] = l]
           f == [m.total_free EXCEPT ![o] = m.total_free[o] - m.slab[page].color_count]
           b == [m.slab EXCEPT ![page] = NoSlab]
           n == [m EXCEPT !.list = k, !.total_free = f, !.slab = b]
<1>2. Unlisted(m, o, page) = n
  BY DEF Unlisted, MemType
<1>3. /\ f \in [Owners -> Int] /\ f[o] = m.total_free[o] - m.slab[page].color_count
      /\ \A x \in Owners \ {o} : f[x] = m.total_free[x]
  <2>1. m.total_free[o] - m.slab[page].color_count \in Int
    BY <1>1
  <2> QED  BY <1>1, <2>1, CountChanged
<1>4. b \in [Pages -> SlabType]
  <2>1. NoSlab \in SlabType
    BY DEF NoSlab, SlabType, ObjectType, NoObject, Null
  <2> QED  BY <1>1, <2>1
<1>5. /\ l \in Seq(Pages) /\ Distinct(l) /\ ToSet(l) = SlabsOf(m, o) \ {page}
      /\ page # Head(m.list[o]) => l # <<>> /\ Head(l) = Head(m.list[o])
      /\ page = Head(m.list[o]) => l = Tail(m.list[o])
  BY <1>1, WithoutFacts DEF SlabsOf
<1> HIDE DEF l
<1>6. k \in [Owners -> Seq(Pages)] /\ k[o] = l /\ \A x \in Owners \ {o} : k[x] = m.list[x]
  BY <1>1, <1>5
<1>7. /\ n \in MemType /\ SamePages(m, n)
      /\ n.list = k /\ n.total_free = f /\ n.slab = b /\ n.total_using = m.total_using
  <2> HIDE DEF k, f, b
  <2> QED  BY <1>3, <1>4, <1>6 DEF MemType, SamePages
<1> HIDE DEF k, f, n
<1>8. SlabsOf(n, o) = SlabsOf(m, o) \ {page}
  BY <1>5, <1>6, <1>7 DEF SlabsOf
<1> QED  BY <1>2, <1>3, <1>5, <1>6, <1>7, <1>8 DEF Removed

\* A slab with other bits, one more or one less of them set, and the counts.
Turn(s, bits, d) ==
    [s EXCEPT !.color_map = bits, !.using_count = @ + d, !.free_count = @ - d]

\* The same in the memory, field by field as Take and PutBack do it, and at once.
TurnOne(m, o, page, bits, d) ==
    [m EXCEPT !.slab[page].color_map = bits,
              !.slab[page].using_count = @ + d,
              !.slab[page].free_count = @ - d,
              !.total_free[o] = @ - d,
              !.total_using[o] = @ + d]
TurnAll(m, o, page, bits, d) ==
    [m EXCEPT !.slab = [m.slab EXCEPT ![page] = Turn(m.slab[page], bits, d)],
              !.total_free = [m.total_free EXCEPT ![o] = @ - d],
              !.total_using = [m.total_using EXCEPT ![o] = @ + d]]

Fields(T1, T2, T3, T4, T5, P, O, L, F) ==
    [bits_map : T1, page_using_count : T2, page_free_count : T3, reference_count : T4,
     total_pages_link : T5, list : L, total_free : [O -> Int], total_using : [O -> Int],
     slab : [P -> SlabType], fault : F]

\* The fields set one by one, as Take and PutBack do it, and at once.
SetOne(m, o, page, bits, using, free, total, used) ==
    [m EXCEPT !.slab[page].color_map = bits,
              !.slab[page].using_count = using,
              !.slab[page].free_count = free,
              !.total_free[o] = total,
              !.total_using[o] = used]
SetAll(m, o, page, bits, using, free, total, used) ==
    [m EXCEPT !.slab = [m.slab EXCEPT ![page] =
                          [m.slab[page] EXCEPT !.color_map = bits,
                                               !.using_count = using, !.free_count = free]],
              !.total_free = [m.total_free EXCEPT ![o] = total],
              !.total_using = [m.total_using EXCEPT ![o] = used]]

LEMMA SetFieldByField ==
    ASSUME NEW T1, NEW T2, NEW T3, NEW T4, NEW T5, NEW P, NEW O, NEW L, NEW F,
           NEW m \in Fields(T1, T2, T3, T4, T5, P, O, L, F),
           NEW o \in O, NEW page \in P, NEW bits, NEW using, NEW free, NEW total, NEW used
    PROVE  SetOne(m, o, page, bits, using, free, total, used) = SetAll(m, o, page, bits, using, free, total, used)
<1> DEFINE With(y) == [m EXCEPT !.slab = [m.slab EXCEPT ![page] = y]]
           s1 == [m.slab[page] EXCEPT !.color_map = bits]
           s2 == [s1 EXCEPT !.using_count = using]
           s3 == [s2 EXCEPT !.free_count = free]
           m1 == [m EXCEPT !.slab[page].color_map = bits]
           m2 == [m1 EXCEPT !.slab[page].using_count = using]
           m3 == [m2 EXCEPT !.slab[page].free_count = free]
           m4 == [m3 EXCEPT !.total_free[o] = total]
           n4 == [With(s3) EXCEPT !.total_free = [m.total_free EXCEPT ![o] = total]]
<1>1. SetOne(m, o, page, bits, using, free, total, used) = [m4 EXCEPT !.total_using[o] = used]
  BY DEF SetOne
<1>2. SetAll(m, o, page, bits, using, free, total, used) =
        [n4 EXCEPT !.total_using = [m.total_using EXCEPT ![o] = used]]
  BY DEF SetAll
<1>3. /\ \A y : With(y).slab[page] = y /\ With(y).total_free = m.total_free
      /\ \A y, z : [With(y) EXCEPT !.slab = [With(y).slab EXCEPT ![page] = z]] = With(z)
  BY DEF Fields
<1>4. n4.total_using = m.total_using
  BY DEF Fields
<1>5. m1 = With(s1)
  OBVIOUS
<1> HIDE DEF With, m1, s1
<1>6. m2 = With(s2)
  <2>1. m1.slab[page] = s1
    BY <1>3, <1>5
  <2> QED  BY <1>3, <1>5, <2>1
<1> HIDE DEF m2, s2
<1>7. m3 = With(s3)
  <2>1. m2.slab[page] = s2
    BY <1>3, <1>6
  <2> QED  BY <1>3, <1>6, <2>1
<1> HIDE DEF m3, s3
<1>8. m4 = n4
  BY <1>3, <1>7
<1> HIDE DEF m4, n4
<1> QED  BY <1>1, <1>2, <1>4, <1>8

LEMMA TurnIs ==
    ASSUME NEW m, NEW o, NEW page, NEW bits, NEW d
    PROVE  /\ TurnOne(m, o, page, bits, d) =
                SetOne(m, o, page, bits, m.slab[page].using_count + d, m.slab[page].free_count - d,
                       m.total_free[o] - d, m.total_using[o] + d)
           /\ TurnAll(m, o, page, bits, d) =
                SetAll(m, o, page, bits, m.slab[page].using_count + d, m.slab[page].free_count - d,
                       m.total_free[o] - d, m.total_using[o] + d)
BY DEF TurnOne, TurnAll, Turn, SetOne, SetAll

\* The order of the stores does not matter.
LEMMA FieldByField ==
    ASSUME NEW T1, NEW T2, NEW T3, NEW T4, NEW T5, NEW P, NEW O, NEW L, NEW F,
           NEW m \in Fields(T1, T2, T3, T4, T5, P, O, L, F),
           NEW o \in O, NEW page \in P, NEW bits, NEW d
    PROVE  TurnOne(m, o, page, bits, d) = TurnAll(m, o, page, bits, d)
BY TurnIs, SetFieldByField

Turned(m, n, o, page, bits, d) ==
    /\ n \in MemType /\ SamePages(m, n) /\ n.list = m.list
    /\ n.slab = [m.slab EXCEPT ![page] = Turn(m.slab[page], bits, d)]
    /\ n.total_free[o] = m.total_free[o] - d
    /\ n.total_using[o] = m.total_using[o] + d
    /\ \A x \in Owners \ {o} : /\ n.total_free[x] = m.total_free[x]
                               /\ n.total_using[x] = m.total_using[x]

\* What turning over a bit, and the counts with it, leaves of the memory.
LEMMA TurnedMemory ==
    ASSUME machine \in Machines, NEW m \in MemType, NEW o \in Owners, NEW page \in Pages,
           NEW bits \in SUBSET Nat, NEW d \in Int
    PROVE  Turned(m, TurnOne(m, o, page, bits, d), o, page, bits, d)
<1> DEFINE f == [m.total_free EXCEPT ![o] = @ - d]
           u == [m.total_using EXCEPT ![o] = @ + d]
           b == [m.slab EXCEPT ![page] = Turn(m.slab[page], bits, d)]
           n == [m EXCEPT !.slab = b, !.total_free = f, !.total_using = u]
<1>1. TurnOne(m, o, page, bits, d) = n
  <2>1. m \in Fields(SUBSET Pages, [DOMAIN zones -> Int], [DOMAIN zones -> Int],
                     [Pages -> 0 .. 1], [DOMAIN zones -> Int], Pages, Owners,
                     [Owners -> Seq(Pages)], BOOLEAN)
    BY DEF MemType, Fields
  <2>2. TurnOne(m, o, page, bits, d) = TurnAll(m, o, page, bits, d)
    BY <2>1, FieldByField
  <2> QED  BY <2>2 DEF TurnAll
<1>2. /\ m.total_free \in [Owners -> Int] /\ m.total_using \in [Owners -> Int]
      /\ m.total_free[o] \in Int /\ m.total_using[o] \in Int /\ m.slab \in [Pages -> SlabType]
      /\ m.slab[page] \in SlabType
  BY MemFacts
<1>3. /\ f \in [Owners -> Int] /\ f[o] = m.total_free[o] - d
      /\ \A x \in Owners \ {o} : f[x] = m.total_free[x]
  <2>1. m.total_free[o] - d \in Int
    BY <1>2
  <2> QED  BY <1>2, <2>1, CountChanged
<1>4. /\ u \in [Owners -> Int] /\ u[o] = m.total_using[o] + d
      /\ \A x \in Owners \ {o} : u[x] = m.total_using[x]
  <2>1. m.total_using[o] + d \in Int
    BY <1>2
  <2> QED  BY <1>2, <2>1, CountChanged
<1>5. b \in [Pages -> SlabType]
  <2>1. Turn(m.slab[page], bits, d) \in SlabType
    <3>1. \A s \in SlabType : s.using_count + d \in Int /\ s.free_count - d \in Int
      BY DEF SlabType
    <3>2. Turn(m.slab[page], bits, d)
             = [m.slab[page] EXCEPT !.color_map = bits, !.using_count = m.slab[page].using_count + d,
                                    !.free_count = m.slab[page].free_count - d]
      BY <1>2 DEF Turn, SlabType
    <3>3. m.slab[page].using_count + d \in Int /\ m.slab[page].free_count - d \in Int
      BY <1>2, <3>1
    <3> DEFINE v == m.slab[page]
               x == v.using_count + d
               y == v.free_count - d
    <3>4. v \in SlabType /\ x \in Int /\ y \in Int
          /\ Turn(v, bits, d) = [v EXCEPT !.color_map = bits, !.using_count = x, !.free_count = y]
      BY <1>2, <3>2, <3>3
    <3> HIDE DEF v, x, y
    <3>5. Turn(v, bits, d) \in SlabType
      BY <3>4 DEF SlabType
    <3> QED  BY <3>5 DEF v
  <2> QED  BY <1>2, <2>1
<1>6. /\ n \in MemType /\ SamePages(m, n) /\ n.list = m.list
      /\ n.slab = b /\ n.total_free = f /\ n.total_using = u
  <2> HIDE DEF f, u, b
  <2> QED  BY <1>3, <1>4, <1>5 DEF MemType, SamePages
<1> HIDE DEF f, u, n
<1> QED  BY <1>1, <1>3, <1>4, <1>6 DEF Turned

\* The sizes and caches.
LEMMA NamesFacts ==
    /\ Owners = Sizes \cup Caches /\ Sizes \cap Caches = {} /\ InPage \subseteq Sizes
    /\ DescSize \in InPage /\ CacheSize \in InPage
    /\ \A o \in Owners : /\ MapSize[o] \in Sizes /\ Count[o] \in Nat /\ Count[o] > 0
                         /\ o \in Sizes \/ o \in Caches
    /\ \A size \in Sizes : /\ size \in Owners /\ MapSize[size] \in InPage
                           /\ CreatedCount[size] \in Nat /\ CreatedCount[size] > 0
    /\ \A s \in Caches : s \in Owners /\ s \notin Sizes
BY SlabAssumption DEF Owners

\* The objects a slab with its descriptor elsewhere needs.
PartsOf(slab) == IF slab.descriptor = InPlace THEN {} ELSE {slab.descriptor, slab.map}

\* A slab without an object in use.
Fresh(slab, o) ==
    /\ slab \in SlabType /\ slab.color_map = {} /\ slab.free_count = slab.color_count
    /\ o \in Sizes => slab.using_count = 0

\* Its descriptor and its map are two objects somebody has, where Shape wants them.
PartsReady(m, o, slab, U) ==
    IF slab.descriptor = InPlace THEN o \in InPage
    ELSE /\ o \notin InPage
         /\ slab.descriptor.page \in SlabsOf(m, DescSize)
         /\ slab.map.page \in SlabsOf(m, MapSize[o])
         /\ PartsOf(slab) \subseteq U /\ slab.descriptor # slab.map

\* A fresh slab on a list takes its descriptor and its map from their owners.
LEMMA AddedRight ==
    ASSUME machine \in Machines, NEW m \in MemType, NEW n, NEW o \in Owners,
           NEW page \in Pages, page \notin Slabs(m), NEW slab, Fresh(slab, o),
           Added(m, n, o, page, slab), NEW U, SlabsRight(m, U), PartsReady(m, o, slab, U)
    PROVE  /\ SlabsRight(n, U \ PartsOf(slab))
           /\ Slabs(n) = Slabs(m) \cup {page}
           /\ \A x \in Owners : InUse(n, x) = InUse(m, x)
<1> DEFINE c == slab.color_count
<1>1. n \in MemType /\ c \in Nat /\ slab.color_map = {} /\ slab.free_count = c /\ slab \in SlabType
  BY DEF Added, Fresh, SlabType
<1>2. /\ n.slab[page] = slab
      /\ \A p \in Pages : p # page => n.slab[p] = m.slab[p]
  BY MemFacts DEF Added
<1>3. \A x \in Owners : SlabsOf(m, x) \subseteq Pages /\ page \notin SlabsOf(m, x)
  BY MemFacts DEF Slabs
<1>4. /\ SlabsOf(n, o) = SlabsOf(m, o) \cup {page}
      /\ \A x \in Owners : x # o => SlabsOf(n, x) = SlabsOf(m, x) /\ n.list[x] = m.list[x]
  BY DEF Added, SlabsOf
<1>5. Slabs(n) = Slabs(m) \cup {page}
  BY <1>4 DEF Slabs
<1>6. ASSUME NEW x \in Owners PROVE InUse(n, x) = InUse(m, x)
  <2>1. \A p \in SlabsOf(m, x) : n.slab[p] = m.slab[p] /\ p # page
    BY <1>2, <1>3
  <2>2. \A p \in SlabsOf(n, x) : p \in SlabsOf(m, x) \/ n.slab[p].color_map = {}
    BY <1>1, <1>2, <1>4
  <2>3. SlabsOf(m, x) \subseteq SlabsOf(n, x)
    BY <1>4
  <2>4. ASSUME NEW y PROVE y \in InUse(n, x) <=> y \in InUse(m, x)
    BY <2>1, <2>2, <2>3, CellFacts
  <2> QED  BY <2>4
<1>7. /\ Unused(n, o) = Unused(m, o) \cup Cells(page, 0 .. c - 1)
      /\ Unused(m, o) \cap Cells(page, 0 .. c - 1) = {}
      /\ \A x \in Owners : x # o => Unused(n, x) = Unused(m, x)
  <2>1. Spaces(slab) = 0 .. c - 1
    BY <1>1 DEF Spaces
  <2>2. \A x \in Owners : \A p \in SlabsOf(m, x) : n.slab[p] = m.slab[p] /\ p # page
    BY <1>2, <1>3
  <2>3. ASSUME NEW x \in Owners, x # o, NEW y PROVE y \in Unused(n, x) <=> y \in Unused(m, x)
    BY <1>4, <2>2, <2>3, CellFacts
  <2>4. ASSUME NEW y \in Unused(n, o) PROVE y \in Unused(m, o) \/ y \in Cells(page, 0 .. c - 1)
    <3>1. PICK p \in SlabsOf(n, o) : \E i \in Spaces(n.slab[p]) : y = Cell(p, i)
      BY UnusedCell
    <3>2. CASE p = page
      BY <1>2, <2>1, <3>1, <3>2 DEF Cells, Cell
    <3>3. CASE p # page
      BY <1>4, <2>2, <3>1, <3>3, CellFacts
    <3> QED  BY <3>2, <3>3
  <2>5. ASSUME NEW y \in Unused(m, o) PROVE y \in Unused(n, o) /\ y \notin Cells(page, 0 .. c - 1)
    <3>1. PICK p \in SlabsOf(m, o) : \E i \in Spaces(m.slab[p]) : y = Cell(p, i)
      BY UnusedCell
    <3>2. p # page /\ p \in SlabsOf(n, o) /\ n.slab[p] = m.slab[p]
      BY <1>4, <2>2
    <3>3. y \in Unused(n, o)
      BY <3>1, <3>2, CellFacts
    <3>4. y.page = p /\ \A w \in Cells(page, 0 .. c - 1) : w.page = page
      BY <3>1 DEF Cells, Cell
    <3> QED  BY <3>2, <3>3, <3>4
  <2>6. ASSUME NEW y \in Cells(page, 0 .. c - 1) PROVE y \in Unused(n, o)
    <3>1. PICK i \in 0 .. c - 1 : y = Cell(page, i)
      BY DEF Cells, Cell
    <3>2. page \in SlabsOf(n, o) /\ i \in Spaces(n.slab[page])
      BY <1>2, <1>4, <2>1
    <3> QED  BY <3>1, <3>2, CellFacts
  <2> QED  BY <2>3, <2>4, <2>5, <2>6
<1>8. Counted(n)
  <2>1. Counted(m) /\ MapsRight(m)
    BY DEF SlabsRight
  <2>2. n.total_free[o] = Cardinality(Unused(n, o))
    <3>1. IsFiniteSet(0 .. c - 1) /\ Cardinality(0 .. c - 1) = c
      <4>1. 0 \in Int /\ c - 1 \in Int /\ (IF 0 > c - 1 THEN 0 ELSE (c - 1) - 0 + 1) = c
        BY <1>1
      <4> HIDE DEF c
      <4> QED  BY <4>1, FS_Interval
    <3> DEFINE X == Unused(m, o)
               Y == Cells(page, 0 .. c - 1)
    <3>2. IsFiniteSet(Y) /\ Cardinality(Y) = c
      BY <3>1, CellsFacts
    <3>3. IsFiniteSet(X)
      BY <2>1, CellsFinite
    <3>4. X \cap Y = {} /\ Unused(n, o) = X \cup Y
      BY <1>7
    <3> HIDE DEF X, Y
    <3>5. Cardinality(X \cup Y) = Cardinality(X) + Cardinality(Y) - 0
      BY <3>2, <3>3, <3>4, FS_Union, FS_EmptySet
    <3>6. Cardinality(X) \in Nat
      BY <3>3, FS_CardinalityType
    <3>7. n.total_free[o] = m.total_free[o] + c /\ m.total_free[o] = Cardinality(X)
      BY <2>1 DEF Added, Counted, X
    <3> QED  BY <1>1, <3>2, <3>4, <3>5, <3>6, <3>7
  <2>3. \A x \in Owners : x # o => n.total_free[x] = m.total_free[x]
    BY DEF Added
  <2>4. n.total_using = m.total_using
    BY DEF Added
  <2> QED  BY <1>6, <1>7, <2>1, <2>2, <2>3, <2>4 DEF Counted
<1>9. Listed(n)
  <2>1. Listed(m)
    BY DEF SlabsRight
  <2>2. Distinct(n.list[o]) /\ n.list[o] # <<>>
    BY <1>3, <2>1 DEF Added, Listed
  <2>3. \A x, y \in Owners : x # y => SlabsOf(n, x) \cap SlabsOf(n, y) = {}
    BY <1>3, <1>4, <2>1 DEF Listed
  <2> QED  BY <1>4, <2>1, <2>2, <2>3, NamesFacts DEF Listed
<1>10. MapsRight(n)
  <2>1. MapsRight(m)
    BY DEF SlabsRight
  <2>2. MapRight(slab, o) /\ slab.color_map \subseteq 0 .. slab.color_count - 1
    <3>1. \A k \in Nat : k = k - 0
      OBVIOUS
    <3> QED  BY <1>1, <3>1, FS_EmptySet DEF Fresh, MapRight
  <2>3. \A p \in Pages : n.slab[p].color_map \subseteq 0 .. n.slab[p].color_count - 1
    BY <1>2, <2>1, <2>2 DEF MapsRight
  <2>4. ASSUME NEW x \in Owners, NEW p \in SlabsOf(n, x) PROVE MapRight(n.slab[p], x)
    <3>1. CASE p = page
      BY <1>2, <1>3, <1>4, <2>2, <3>1
    <3>2. CASE p # page
      BY <1>2, <1>3, <1>4, <2>1, <3>2 DEF MapsRight
    <3> QED  BY <3>1, <3>2
  <2> QED  BY <2>3, <2>4 DEF MapsRight
<1>11. Shapes(n)
  <2>1. Shapes(m) /\ Listed(m)
    BY DEF SlabsRight
  <2>2. \A x \in Owners : SlabsOf(m, x) \subseteq SlabsOf(n, x)
    BY <1>4
  <2>3. \A size \in Sizes : Head(n.list[size]) = Head(m.list[size])
    BY <1>4, <2>1, NamesFacts DEF Added, Listed
  <2>4. ASSUME NEW x \in Owners, NEW p \in SlabsOf(n, x) PROVE Shape(n, x, p)
    <3>1. DescSize \in Owners /\ MapSize[x] \in Owners
      BY NamesFacts
    <3>2. CASE p = page
      <4>1. x = o
        BY <1>3, <1>4, <3>2
      <4> QED  BY <1>2, <2>2, <3>1, <3>2, <4>1, NamesFacts DEF Shape, PartsReady
    <3>3. CASE p # page
      <4>1. p \in SlabsOf(m, x) /\ n.slab[p] = m.slab[p]
        BY <1>2, <1>3, <1>4, <3>3
      <4>2. Shape(m, x, p)
        BY <2>1, <4>1 DEF Shapes
      <4> QED  BY <2>2, <2>3, <3>1, <4>1, <4>2 DEF Shape
    <3> QED  BY <3>2, <3>3
  <2> QED  BY <2>4 DEF Shapes
<1>12. Owned(n, U \ PartsOf(slab))
  <2>1. Owned(m, U)
    BY DEF SlabsRight
  <2>2. Used(n) = Used(m)
    BY <1>6, NamesFacts DEF Used
  <2>3. /\ \A p \in Slabs(m) : n.slab[p] = m.slab[p] /\ p # page
        /\ \A p \in Slabs(m), k \in {1, 2} : Part(n, p, k) = Part(m, p, k)
    BY <1>2, <1>3, MemFacts DEF Part, Slabs
  <2>4. CASE slab.descriptor = InPlace
    <3>1. Outside(n) = Outside(m) /\ PartsOf(slab) = {}
      BY <1>2, <1>5, <2>3, <2>4 DEF Outside, PartsOf
    <3>2. Outside(m) \subseteq Slabs(m)
      BY DEF Outside
    <3>3. PartsIn(n) = PartsIn(m)
      BY <2>3, <3>1, <3>2 DEF PartsIn
    <3> QED  BY <2>1, <2>2, <2>3, <3>1, <3>2, <3>3 DEF Owned
  <2>5. CASE slab.descriptor # InPlace
    <3>1. Outside(n) = Outside(m) \cup {page} /\ Outside(m) \subseteq Slabs(m)
      BY <1>2, <1>5, <2>3, <2>5 DEF Outside
    <3>2. Part(n, page, 1) = slab.descriptor /\ Part(n, page, 2) = slab.map
      BY <1>2 DEF Part
    <3>3. /\ PartsOf(slab) = {slab.descriptor, slab.map} /\ PartsOf(slab) \subseteq U
          /\ slab.descriptor # slab.map
      BY <2>5 DEF PartsOf, PartsReady
    <3>4. PartsIn(n) = PartsIn(m) \cup PartsOf(slab)
      <4>1. ASSUME NEW y \in PartsIn(n) PROVE y \in PartsIn(m) \cup PartsOf(slab)
        BY <2>3, <3>1, <3>2, <3>3 DEF PartsIn
      <4>2. ASSUME NEW y \in PartsIn(m) \cup PartsOf(slab) PROVE y \in PartsIn(n)
        BY <2>3, <3>1, <3>2, <3>3 DEF PartsIn
      <4> QED  BY <4>1, <4>2
    <3>5. \A p \in Outside(m), k \in {1, 2} : Part(n, p, k) \in PartsIn(m)
                                              /\ Part(n, p, k) \notin PartsOf(slab)
      BY <2>1, <2>3, <3>1, <3>3 DEF Owned, PartsIn
    <3>6. ASSUME NEW p \in Outside(n), NEW q \in Outside(n), NEW j \in {1, 2}, NEW k \in {1, 2},
                 Part(n, p, j) = Part(n, q, k)
          PROVE  p = q /\ j = k
      <4>1. CASE p = page /\ q = page
        BY <3>2, <3>3, <3>6, <4>1
      <4>2. CASE p # page /\ q # page
        BY <2>1, <2>3, <3>1, <3>6, <4>2 DEF Owned
      <4>3. CASE p = page /\ q # page
        BY <3>1, <3>2, <3>3, <3>5, <3>6, <4>3
      <4>4. CASE p # page /\ q = page
        BY <3>1, <3>2, <3>3, <3>5, <3>6, <4>4
      <4> QED  BY <4>1, <4>2, <4>3, <4>4
    <3>7. Used(n) = (U \ PartsOf(slab)) \cup PartsIn(n) /\ (U \ PartsOf(slab)) \cap PartsIn(n) = {}
      BY <2>1, <2>2, <3>3, <3>4 DEF Owned
    <3> QED  BY <3>6, <3>7 DEF Owned
  <2> QED  BY <2>4, <2>5
<1> QED  BY <1>5, <1>6, <1>8, <1>9, <1>10, <1>11, <1>12 DEF SlabsRight

\* A part of a slab is in use, so the slab it is in is not empty.
LEMMA PartsUsed ==
    ASSUME NEW m, NEW U, Owned(m, U), NEW p \in Outside(m), NEW k \in {1, 2}
    PROVE  m.slab[Part(m, p, k).page].color_map # {}
<1>1. Part(m, p, k) \in Used(m)
  BY DEF Owned, PartsIn
<1>2. PICK size \in Sizes : Part(m, p, k) \in InUse(m, size)
  BY <1>1 DEF Used
<1>3. PICK q \in SlabsOf(m, size) : \E i \in m.slab[q].color_map : Part(m, p, k) = Cell(q, i)
  BY <1>2, UsedCell
<1>4. Part(m, p, k).page = q
  BY <1>3 DEF Cell
<1> QED  BY <1>3, <1>4

\* An empty slab that leaves its list leaves its descriptor and its map to the caller.
LEMMA RemovedRight ==
    ASSUME machine \in Machines, NEW m \in MemType, NEW n, NEW o \in Owners,
           NEW page \in SlabsOf(m, o), m.slab[page].color_map = {},
           o \in Sizes => page # Head(m.list[o]),
           Removed(m, n, o, page), NEW U, SlabsRight(m, U)
    PROVE  /\ SlabsRight(n, U \cup PartsOf(m.slab[page]))
           /\ Slabs(n) = Slabs(m) \ {page}
           /\ \A x \in Owners : InUse(n, x) = InUse(m, x)
<1> DEFINE slab == m.slab[page]
           c == slab.color_count
<1>1. n \in MemType /\ c \in Nat /\ page \in Pages
  BY MemFacts DEF Removed
<1>2. /\ n.slab[page] = NoSlab
      /\ \A p \in Pages : p # page => n.slab[p] = m.slab[p]
  BY <1>1, MemFacts DEF Removed
<1>3. /\ \A x \in Owners : SlabsOf(m, x) \subseteq Pages
      /\ \A x \in Owners : x # o => page \notin SlabsOf(m, x)
  BY MemFacts DEF SlabsRight, Listed
<1>4. /\ SlabsOf(n, o) = SlabsOf(m, o) \ {page}
      /\ \A x \in Owners : x # o => SlabsOf(n, x) = SlabsOf(m, x) /\ n.list[x] = m.list[x]
  BY DEF Removed, SlabsOf
<1>5. /\ \A x \in Owners : page \notin SlabsOf(n, x)
      /\ \A x \in Owners : \A p \in SlabsOf(n, x) : p \in SlabsOf(m, x) /\ n.slab[p] = m.slab[p]
      /\ \A x \in Owners : \A p \in SlabsOf(m, x) : p # page => p \in SlabsOf(n, x)
  BY <1>2, <1>3, <1>4
<1>6. Slabs(n) = Slabs(m) \ {page}
  BY <1>3, <1>4 DEF Slabs
<1>7. ASSUME NEW x \in Owners PROVE InUse(n, x) = InUse(m, x)
  <2>1. ASSUME NEW y PROVE y \in InUse(n, x) <=> y \in InUse(m, x)
    BY <1>5, CellFacts
  <2> QED  BY <2>1
<1>8. /\ Unused(m, o) = Unused(n, o) \cup Cells(page, 0 .. c - 1)
      /\ Unused(n, o) \cap Cells(page, 0 .. c - 1) = {}
      /\ \A x \in Owners : x # o => Unused(n, x) = Unused(m, x)
  <2>1. Spaces(slab) = 0 .. c - 1
    BY DEF Spaces
  <2>2. ASSUME NEW x \in Owners, x # o, NEW y PROVE y \in Unused(n, x) <=> y \in Unused(m, x)
    BY <1>4, <1>5, <2>2, CellFacts
  <2>3. ASSUME NEW y \in Unused(m, o) PROVE y \in Unused(n, o) \/ y \in Cells(page, 0 .. c - 1)
    <3>1. PICK p \in SlabsOf(m, o) : \E i \in Spaces(m.slab[p]) : y = Cell(p, i)
      BY UnusedCell
    <3>2. CASE p = page
      BY <2>1, <3>1, <3>2 DEF Cells, Cell
    <3>3. CASE p # page
      BY <1>5, <3>1, <3>3, CellFacts
    <3> QED  BY <3>2, <3>3
  <2>4. ASSUME NEW y \in Unused(n, o) PROVE y \in Unused(m, o) /\ y \notin Cells(page, 0 .. c - 1)
    <3>1. PICK p \in SlabsOf(n, o) : \E i \in Spaces(n.slab[p]) : y = Cell(p, i)
      BY UnusedCell
    <3>2. p # page /\ p \in SlabsOf(m, o) /\ n.slab[p] = m.slab[p]
      BY <1>5
    <3>3. y \in Unused(m, o)
      BY <3>1, <3>2, CellFacts
    <3>4. y.page = p /\ \A w \in Cells(page, 0 .. c - 1) : w.page = page
      BY <3>1 DEF Cells, Cell
    <3> QED  BY <3>2, <3>3, <3>4
  <2>5. ASSUME NEW y \in Cells(page, 0 .. c - 1) PROVE y \in Unused(m, o)
    <3>1. PICK i \in 0 .. c - 1 : y = Cell(page, i)
      BY DEF Cells, Cell
    <3>2. i \in Spaces(m.slab[page])
      BY <2>1, <3>1
    <3> QED  BY <3>1, <3>2, CellFacts
  <2> QED  BY <2>2, <2>3, <2>4, <2>5
<1>9. MapsRight(n)
  <2>1. MapsRight(m)
    BY DEF SlabsRight
  <2>2. \A p \in Pages : n.slab[p].color_map \subseteq 0 .. n.slab[p].color_count - 1
    BY <1>2, <2>1 DEF MapsRight, NoSlab
  <2>3. ASSUME NEW x \in Owners, NEW p \in SlabsOf(n, x) PROVE MapRight(n.slab[p], x)
    BY <1>5, <2>1 DEF MapsRight
  <2> QED  BY <2>2, <2>3 DEF MapsRight
<1>10. Counted(n)
  <2>1. Counted(m)
    BY DEF SlabsRight
  <2>2. n.total_free[o] = Cardinality(Unused(n, o))
    <3>1. IsFiniteSet(0 .. c - 1) /\ Cardinality(0 .. c - 1) = c
      <4>1. 0 \in Int /\ c - 1 \in Int /\ (IF 0 > c - 1 THEN 0 ELSE (c - 1) - 0 + 1) = c
        BY <1>1
      <4> HIDE DEF c
      <4> QED  BY <4>1, FS_Interval
    <3> DEFINE X == Unused(n, o)
               Y == Cells(page, 0 .. c - 1)
    <3>2. IsFiniteSet(Y) /\ Cardinality(Y) = c
      BY <3>1, CellsFacts
    <3>3. IsFiniteSet(X)
      BY <1>1, <1>9, CellsFinite
    <3>4. X \cap Y = {} /\ Unused(m, o) = X \cup Y
      BY <1>8
    <3> HIDE DEF X, Y
    <3>5. Cardinality(X \cup Y) = Cardinality(X) + Cardinality(Y) - 0
      BY <3>2, <3>3, <3>4, FS_Union, FS_EmptySet
    <3>6. Cardinality(X) \in Nat
      BY <3>3, FS_CardinalityType
    <3>7. n.total_free[o] = m.total_free[o] - c /\ m.total_free[o] = Cardinality(X \cup Y)
      BY <2>1, <3>4 DEF Removed, Counted
    <3>8. \A a, b \in Nat : (a + b - 0) - b = a
      OBVIOUS
    <3>9. n.total_free[o] = Cardinality(X)
      <4> HIDE DEF c
      <4> QED  BY <1>1, <3>2, <3>5, <3>6, <3>7, <3>8
    <3> QED  BY <3>9 DEF X
  <2>3. \A x \in Owners : x # o => n.total_free[x] = m.total_free[x]
    BY DEF Removed
  <2>4. n.total_using = m.total_using
    BY DEF Removed
  <2> QED  BY <1>7, <1>8, <2>1, <2>2, <2>3, <2>4 DEF Counted
<1>11. /\ \A size \in Sizes : n.list[size] # <<>> /\ Head(n.list[size]) = Head(m.list[size])
  BY <1>4, NamesFacts DEF Removed, SlabsRight, Listed
<1>12. Listed(n)
  <2>1. Listed(m)
    BY DEF SlabsRight
  <2>2. Distinct(n.list[o])
    BY DEF Removed
  <2>3. ASSUME NEW x \in Owners, NEW y \in Owners, x # y
        PROVE  SlabsOf(n, x) \cap SlabsOf(n, y) = {}
    BY <1>5, <2>1, <2>3 DEF Listed
  <2> QED  BY <1>4, <1>11, <2>1, <2>2, <2>3 DEF Listed
<1>13. Owned(m, U)
  BY DEF SlabsRight
<1>14. Shapes(n)
  <2>1. Shapes(m)
    BY DEF SlabsRight
  <2>2. ASSUME NEW x \in Owners, NEW p \in SlabsOf(n, x) PROVE Shape(n, x, p)
    <3>1. DescSize \in Owners /\ MapSize[x] \in Owners
      BY NamesFacts
    <3>2. p \in SlabsOf(m, x) /\ n.slab[p] = m.slab[p] /\ Shape(m, x, p)
      BY <1>5, <2>1 DEF Shapes
    <3>3. CASE m.slab[p].descriptor = InPlace
      BY <1>11, <3>2, <3>3 DEF Shape
    <3>4. CASE m.slab[p].descriptor # InPlace
      <4>1. p \in Outside(m)
        BY <3>2, <3>4 DEF Outside, Slabs
      <4>2. m.slab[p].descriptor.page # page /\ m.slab[p].map.page # page
        BY <1>13, <4>1, PartsUsed DEF Part
      <4> QED  BY <1>5, <3>1, <3>2, <3>4, <4>2 DEF Shape
    <3> QED  BY <3>3, <3>4
  <2> QED  BY <2>2 DEF Shapes
<1>15. Owned(n, U \cup PartsOf(slab))
  <2>1. Used(n) = Used(m)
    BY <1>7, NamesFacts DEF Used
  <2>2. /\ \A p \in Slabs(n) : n.slab[p] = m.slab[p] /\ p # page
        /\ \A p \in Slabs(n), k \in {1, 2} : Part(n, p, k) = Part(m, p, k)
    BY <1>5 DEF Part, Slabs
  <2>3. Outside(n) = Outside(m) \ {page}
    BY <1>6, <2>2 DEF Outside
  <2>4. Outside(n) \subseteq Slabs(n) /\ page \in Slabs(m)
    BY DEF Outside, Slabs
  <2>5. PartsOf(slab) = IF page \in Outside(m) THEN {Part(m, page, 1), Part(m, page, 2)} ELSE {}
    BY <2>4 DEF PartsOf, Outside, Part
  <2>6. PartsIn(m) = PartsIn(n) \cup PartsOf(slab)
    <3>1. ASSUME NEW y \in PartsIn(m) PROVE y \in PartsIn(n) \cup PartsOf(slab)
      <4>1. PICK p \in Outside(m), k \in {1, 2} : y = Part(m, p, k)
        BY DEF PartsIn
      <4> QED  BY <2>2, <2>3, <2>4, <2>5, <4>1 DEF PartsIn
    <3>2. ASSUME NEW y \in PartsIn(n) \cup PartsOf(slab) PROVE y \in PartsIn(m)
      BY <2>2, <2>3, <2>4, <2>5 DEF PartsIn
    <3> QED  BY <3>1, <3>2
  <2>7. PartsOf(slab) \cap PartsIn(n) = {}
    <3> SUFFICES ASSUME NEW y \in PartsOf(slab), y \in PartsIn(n) PROVE FALSE
      OBVIOUS
    <3>1. PICK p \in Outside(n), k \in {1, 2} : y = Part(n, p, k)
      BY DEF PartsIn
    <3>2. PICK j \in {1, 2} : page \in Outside(m) /\ y = Part(m, page, j)
      BY <2>5
    <3>3. p \in Outside(m) /\ p # page /\ Part(n, p, k) = Part(m, p, k)
      BY <2>2, <2>3, <2>4, <3>1
    <3>4. Part(m, p, k) = Part(m, page, j)
      BY <3>1, <3>2, <3>3
    <3> QED  BY <1>13, <3>2, <3>3, <3>4 DEF Owned
  <2>8. \A p, q \in Outside(n), j, k \in {1, 2} : Part(n, p, j) = Part(n, q, k) => p = q /\ j = k
    BY <1>13, <2>2, <2>3, <2>4 DEF Owned
  <2> QED  BY <1>13, <2>1, <2>6, <2>7, <2>8 DEF Owned
<1> QED  BY <1>6, <1>7, <1>9, <1>10, <1>12, <1>14, <1>15 DEF SlabsRight

\* With one object more or less in use.
With(X, x, d) == IF d = 1 THEN X \cup {x} ELSE X \ {x}

\* The index of an object to take, or of one somebody has.
Turnable(m, page, index, d) ==
    \/ d = 1 /\ index \in Spaces(m.slab[page])
    \/ d = -1 /\ index \in m.slab[page].color_map

\* One step of Take or PutBack; an object that goes back was its owner's.
Turning(m, n, o, page, index, d, U) ==
    /\ page \in SlabsOf(m, o) /\ d \in {-1, 1} /\ Turnable(m, page, index, d)
    /\ Turned(m, n, o, page, With(m.slab[page].color_map, index, d), d)
    /\ d = -1 /\ o \in Sizes => Cell(page, index) \in U

\* What that does to who has what.
TurnedTo(m, n, o, x, d) ==
    /\ Slabs(n) = Slabs(m)
    /\ InUse(n, o) = With(InUse(m, o), x, d)
    /\ d = 1 => x \notin InUse(m, o)
    /\ \A y \in Owners : y # o => InUse(n, y) = InUse(m, y) /\ x \notin InUse(n, y)

\* With its bit turned an object changes hands: between the slab and its owner, or
\* between the slab and the cache.
LEMMA TurnedRight ==
    ASSUME machine \in Machines, NEW m \in MemType, NEW n, NEW o \in Owners,
           NEW page, NEW index, NEW d, NEW U, SlabsRight(m, U), Turning(m, n, o, page, index, d, U)
    PROVE  /\ SlabsRight(n, IF o \in Sizes THEN With(U, Cell(page, index), d) ELSE U)
           /\ TurnedTo(m, n, o, Cell(page, index), d)
<1> DEFINE x == Cell(page, index)
           s == m.slab[page]
           bits == With(s.color_map, index, d)
           V == IF o \in Sizes THEN With(U, x, d) ELSE U
<1>0. /\ page \in SlabsOf(m, o) /\ d \in {-1, 1} /\ Turnable(m, page, index, d)
      /\ Turned(m, n, o, page, bits, d) /\ (d = -1 /\ o \in Sizes => x \in U)
  BY DEF Turning
<1>1. page \in Pages /\ n \in MemType /\ s \in SlabType /\ s.color_count \in Nat
  BY <1>0, MemFacts DEF Turned
<1>2. /\ n.slab[page] = Turn(s, bits, d)
      /\ \A p \in Pages : p # page => n.slab[p] = m.slab[p]
  BY <1>0, <1>1, MemFacts DEF Turned
<1>3. /\ n.slab[page].color_map = bits /\ n.slab[page].color_count = s.color_count
      /\ n.slab[page].descriptor = s.descriptor /\ n.slab[page].map = s.map
      /\ n.slab[page].using_count = s.using_count + d /\ n.slab[page].free_count = s.free_count - d
  BY <1>1, <1>2 DEF Turn, SlabType
<1>4. /\ n.list = m.list /\ \A y : SlabsOf(n, y) = SlabsOf(m, y)
      /\ Slabs(n) = Slabs(m)
  BY <1>0 DEF Turned, SlabsOf, Slabs
<1>5. \A p \in Pages : /\ n.slab[p].descriptor = m.slab[p].descriptor /\ n.slab[p].map = m.slab[p].map
                       /\ n.slab[p].color_count = m.slab[p].color_count
  BY <1>2, <1>3
<1>6. \A y \in Owners : SlabsOf(m, y) \subseteq Pages /\ (y # o => page \notin SlabsOf(m, y))
  BY <1>0, MemFacts DEF SlabsRight, Listed
<1>7. s.color_map \subseteq 0 .. s.color_count - 1 /\ MapRight(s, o) /\ MapsRight(m)
  <2>1. MapsRight(m)
    BY DEF SlabsRight
  <2>2. MapRight(s, o)
    BY <1>0, <2>1 DEF MapsRight
  <2> QED  BY <2>1, <2>2 DEF MapRight
<1>8. index \in 0 .. s.color_count - 1 /\ (index \in s.color_map <=> d = -1)
  BY <1>0, <1>7 DEF Turnable, Spaces
<1> HIDE DEF s
<1>9. IsFiniteSet(s.color_map) /\ IsFiniteSet(bits) /\ Cardinality(bits) = Cardinality(s.color_map) + d
      /\ bits \subseteq 0 .. s.color_count - 1
  <2>1. IsFiniteSet(s.color_map)
    <3>1. 0 \in Int /\ s.color_count - 1 \in Int
      BY <1>1
    <3> QED  BY <1>7, <3>1, FS_Interval, FS_Subset
  <2>2. Cardinality(s.color_map) \in Nat
    BY <2>1, FS_CardinalityType
  <2>3. CASE d = 1
    <3>1. bits = s.color_map \cup {index} /\ index \notin s.color_map
      BY <1>8, <2>3 DEF With
    <3> QED  BY <1>7, <1>8, <2>1, <2>3, <3>1, FS_AddElement
  <2>4. CASE d = -1
    <3>1. bits = s.color_map \ {index} /\ index \in s.color_map
      BY <1>8, <2>4 DEF With
    <3>2. Cardinality(bits) = Cardinality(s.color_map) - 1 /\ IsFiniteSet(bits)
      BY <2>1, <3>1, FS_RemoveElement
    <3>3. \A c \in Nat : c - 1 = c + -1
      OBVIOUS
    <3> QED  BY <1>7, <2>1, <2>2, <2>4, <3>1, <3>2, <3>3
  <2> QED  BY <1>0, <2>3, <2>4
<1>10. ASSUME NEW y \in Owners, y # o
       PROVE  InUse(n, y) = InUse(m, y) /\ Unused(n, y) = Unused(m, y) /\ x \notin InUse(n, y)
  <2>1. \A p \in SlabsOf(m, y) : n.slab[p] = m.slab[p] /\ p # page
    BY <1>2, <1>6, <1>10
  <2>2. ASSUME NEW z PROVE z \in InUse(n, y) <=> z \in InUse(m, y)
    BY <1>4, <2>1, CellFacts
  <2>3. ASSUME NEW z PROVE z \in Unused(n, y) <=> z \in Unused(m, y)
    BY <1>4, <2>1, CellFacts
  <2>4. x \notin InUse(n, y)
    <3> SUFFICES ASSUME x \in InUse(n, y) PROVE FALSE
      OBVIOUS
    <3>1. PICK p \in SlabsOf(n, y) : \E i \in n.slab[p].color_map : x = Cell(p, i)
      BY UsedCell
    <3>2. p = page
      BY <3>1 DEF Cell
    <3> QED  BY <1>4, <2>1, <3>1, <3>2
  <2> QED  BY <2>2, <2>3, <2>4
<1>11. /\ x \in InUse(m, o) <=> d = -1
       /\ x \in Unused(m, o) <=> d = 1
  <2>1. ASSUME NEW p, NEW i, x = Cell(p, i) PROVE p = page /\ i = index
    BY <2>1 DEF Cell
  <2>2. x \in InUse(m, o) <=> index \in s.color_map
    BY <1>0, <2>1, CellFacts DEF s
  <2>3. x \in Unused(m, o) <=> index \in Spaces(s)
    BY <1>0, <2>1, CellFacts DEF s
  <2> QED  BY <1>0, <1>8, <2>2, <2>3 DEF Spaces
<1>12. InUse(n, o) = With(InUse(m, o), x, d)
  <2>1. ASSUME NEW z PROVE z \in InUse(n, o) <=> z \in With(InUse(m, o), x, d)
    <3>1. ASSUME z \in InUse(n, o) PROVE z \in With(InUse(m, o), x, d)
      <4>1. PICK p \in SlabsOf(n, o) : \E i \in n.slab[p].color_map : z = Cell(p, i)
        BY <3>1, UsedCell
      <4>2. PICK i \in n.slab[p].color_map : z = Cell(p, i)
        BY <4>1
      <4>3. p \in SlabsOf(m, o) /\ p \in Pages
        BY <1>4, <1>6
      <4>4. z = x => p = page /\ i = index
        BY <4>2 DEF Cell
      <4>5. p # page \/ i # index => i \in m.slab[p].color_map
        BY <1>2, <1>3, <4>2, <4>3 DEF With, s
      <4>6. p = page /\ i = index => d = 1 /\ z = x
        BY <1>3, <4>2 DEF With
      <4>7. i \in m.slab[p].color_map => z \in InUse(m, o)
        BY <4>2, <4>3, CellFacts
      <4> QED  BY <4>4, <4>5, <4>6, <4>7 DEF With
    <3>2. ASSUME z \in With(InUse(m, o), x, d) PROVE z \in InUse(n, o)
      <4>1. CASE z = x
        <5>1. d = 1
          BY <3>2, <4>1 DEF With
        <5>2. index \in n.slab[page].color_map /\ page \in SlabsOf(n, o)
          BY <1>0, <1>3, <1>4, <5>1 DEF With
        <5> QED  BY <4>1, <5>2, CellFacts
      <4>2. CASE z # x
        <5>1. z \in InUse(m, o)
          BY <3>2, <4>2 DEF With
        <5>2. PICK p \in SlabsOf(m, o) : \E i \in m.slab[p].color_map : z = Cell(p, i)
          BY <5>1, UsedCell
        <5>3. PICK i \in m.slab[p].color_map : z = Cell(p, i)
          BY <5>2
        <5>4. i \in n.slab[p].color_map
          BY <1>2, <1>3, <1>6, <4>2, <5>3 DEF With, s
        <5> QED  BY <1>4, <5>3, <5>4, CellFacts
      <4> QED  BY <4>1, <4>2
    <3> QED  BY <3>1, <3>2
  <2> QED  BY <2>1
<1>13. Unused(n, o) = With(Unused(m, o), x, 0 - d)
  <2>1. ASSUME NEW z PROVE z \in Unused(n, o) <=> z \in With(Unused(m, o), x, 0 - d)
    <3>0. (0 - d = 1 <=> d = -1) /\ \A p \in SlabsOf(m, o) : p # page => Spaces(n.slab[p]) = Spaces(m.slab[p])
      BY <1>0, <1>2, <1>6
    <3>3. Spaces(n.slab[page]) = With(Spaces(s), index, 0 - d)
      BY <1>0, <1>3, <1>8, <3>0 DEF Spaces, With
    <3>1. ASSUME z \in Unused(n, o) PROVE z \in With(Unused(m, o), x, 0 - d)
      <4>1. PICK p \in SlabsOf(n, o) : \E i \in Spaces(n.slab[p]) : z = Cell(p, i)
        BY <3>1, UnusedCell
      <4>2. PICK i \in Spaces(n.slab[p]) : z = Cell(p, i)
        BY <4>1
      <4>3. p \in SlabsOf(m, o) /\ p \in Pages
        BY <1>4, <1>6
      <4>4. z = x => p = page /\ i = index
        BY <4>2 DEF Cell
      <4>5. p # page \/ i # index => i \in Spaces(m.slab[p])
        BY <3>0, <3>3, <4>2, <4>3 DEF With, s
      <4>6. p = page /\ i = index => d = -1 /\ z = x
        BY <3>0, <3>3, <4>2 DEF With
      <4>7. i \in Spaces(m.slab[p]) => z \in Unused(m, o)
        BY <4>2, <4>3, CellFacts
      <4> QED  BY <3>0, <4>4, <4>5, <4>6, <4>7 DEF With
    <3>2. ASSUME z \in With(Unused(m, o), x, 0 - d) PROVE z \in Unused(n, o)
      <4>1. CASE z = x
        <5>1. 0 - d = 1
          BY <3>2, <4>1 DEF With
        <5>2. index \in Spaces(n.slab[page]) /\ page \in SlabsOf(n, o)
          BY <1>0, <1>4, <3>3, <5>1 DEF With
        <5> QED  BY <4>1, <5>2, CellFacts
      <4>2. CASE z # x
        <5>1. z \in Unused(m, o)
          BY <3>2, <4>2 DEF With
        <5>2. PICK p \in SlabsOf(m, o) : \E i \in Spaces(m.slab[p]) : z = Cell(p, i)
          BY <5>1, UnusedCell
        <5>3. PICK i \in Spaces(m.slab[p]) : z = Cell(p, i)
          BY <5>2
        <5>4. i \in Spaces(n.slab[p])
          BY <3>0, <3>3, <4>2, <5>3 DEF With, s
        <5> QED  BY <1>4, <5>3, <5>4, CellFacts
      <4> QED  BY <4>1, <4>2
    <3> QED  BY <3>1, <3>2
  <2> QED  BY <2>1
<1>14. \A X : IsFiniteSet(X) =>
          /\ d = 1 /\ x \notin X => Cardinality(With(X, x, d)) = Cardinality(X) + d
          /\ d = -1 /\ x \in X => Cardinality(With(X, x, d)) = Cardinality(X) + d
          /\ d = 1 /\ x \in X => Cardinality(With(X, x, 0 - d)) = Cardinality(X) - d
          /\ d = -1 /\ x \notin X => Cardinality(With(X, x, 0 - d)) = Cardinality(X) - d
  <2> SUFFICES ASSUME NEW X, IsFiniteSet(X)
               PROVE  /\ d = 1 /\ x \notin X => Cardinality(With(X, x, d)) = Cardinality(X) + d
                      /\ d = -1 /\ x \in X => Cardinality(With(X, x, d)) = Cardinality(X) + d
                      /\ d = 1 /\ x \in X => Cardinality(With(X, x, 0 - d)) = Cardinality(X) - d
                      /\ d = -1 /\ x \notin X => Cardinality(With(X, x, 0 - d)) = Cardinality(X) - d
    OBVIOUS
  <2>1. Cardinality(X) \in Nat
    BY FS_CardinalityType
  <2>2. x \notin X => Cardinality(X \cup {x}) = Cardinality(X) + 1
    BY FS_AddElement
  <2>3. x \in X => Cardinality(X \ {x}) = Cardinality(X) - 1
    BY FS_RemoveElement
  <2>4. \A c \in Nat : c + -1 = c - 1 /\ c - -1 = c + 1
    OBVIOUS
  <2>5. 0 - 1 # 1 /\ 0 - -1 = 1 /\ -1 # 1
    OBVIOUS
  <2> QED  BY <2>1, <2>2, <2>3, <2>4, <2>5 DEF With
<1>15. Counted(n)
  <2>1. Counted(m) /\ IsFiniteSet(InUse(m, o)) /\ IsFiniteSet(Unused(m, o))
    BY <1>7, CellsFinite DEF SlabsRight
  <2>2. /\ Cardinality(InUse(n, o)) = Cardinality(InUse(m, o)) + d
        /\ Cardinality(Unused(n, o)) = Cardinality(Unused(m, o)) - d
    <3>1. (d = 1 /\ x \notin InUse(m, o)) \/ (d = -1 /\ x \in InUse(m, o))
      BY <1>0, <1>11
    <3>2. (d = 1 /\ x \in Unused(m, o)) \/ (d = -1 /\ x \notin Unused(m, o))
      BY <1>0, <1>11
    <3> HIDE DEF x
    <3> QED  BY <1>12, <1>13, <1>14, <2>1, <3>1, <3>2
  <2>3. n.total_using[o] = m.total_using[o] + d /\ n.total_free[o] = m.total_free[o] - d
    BY <1>0 DEF Turned
  <2>4. \A y \in Owners : y # o => n.total_free[y] = m.total_free[y] /\ n.total_using[y] = m.total_using[y]
    BY <1>0 DEF Turned
  <2> QED  BY <1>10, <2>1, <2>2, <2>3, <2>4 DEF Counted
<1>16. Listed(n)
  BY <1>4 DEF SlabsRight, Listed
<1>17. MapsRight(n)
  <2>1. MapRight(n.slab[page], o)
    <3>1. /\ s.using_count \in Int /\ s.free_count \in Int /\ Cardinality(s.color_map) \in Nat
          /\ s.color_count \in Nat
      BY <1>1, <1>9, FS_CardinalityType DEF SlabType
    <3>2. d \in Int /\ \A a, b, c \in Int : (a - b) - c = a - (b + c)
      BY <1>0
    <3> QED  BY <1>3, <1>7, <1>9, <3>1, <3>2 DEF MapRight
  <2>2. \A p \in Pages : n.slab[p].color_map \subseteq 0 .. n.slab[p].color_count - 1
    BY <1>2, <1>3, <1>7, <1>9 DEF MapsRight
  <2>3. ASSUME NEW y \in Owners, NEW p \in SlabsOf(n, y) PROVE MapRight(n.slab[p], y)
    <3>1. CASE p = page
      BY <1>4, <1>6, <2>1, <3>1
    <3>2. CASE p # page
      BY <1>2, <1>4, <1>6, <1>7, <3>2 DEF MapsRight
    <3> QED  BY <3>1, <3>2
  <2> QED  BY <2>2, <2>3 DEF MapsRight
<1>18. Shapes(n)
  <2>1. ASSUME NEW y \in Owners, NEW p \in SlabsOf(n, y) PROVE Shape(n, y, p)
    <3>1. Shape(m, y, p) /\ p \in Pages
      BY <1>4, <1>6 DEF SlabsRight, Shapes
    <3> QED  BY <1>4, <1>5, <3>1 DEF Shape
  <2> QED  BY <2>1 DEF Shapes
<1>19. Owned(n, V)
  <2>1. Owned(m, U)
    BY DEF SlabsRight
  <2>2. Slabs(m) \subseteq Pages
    BY MemFacts
  <2>3. Outside(n) = Outside(m) /\ \A p \in Outside(m), k \in {1, 2} : Part(n, p, k) = Part(m, p, k)
    BY <1>4, <1>5, <2>2 DEF Outside, Part
  <2>4. PartsIn(n) = PartsIn(m)
    BY <2>3 DEF PartsIn
  <2>5. Used(n) = IF o \in Sizes THEN With(Used(m), x, d) ELSE Used(m)
    <3>1. CASE o \notin Sizes
      <4>1. \A size \in Sizes : InUse(n, size) = InUse(m, size)
        BY <1>10, <3>1, NamesFacts
      <4> QED  BY <3>1, <4>1 DEF Used
    <3>2. CASE o \in Sizes
      <4>1. \A size \in Sizes : size # o => InUse(n, size) = InUse(m, size) /\ x \notin InUse(m, size)
        BY <1>10, NamesFacts
      <4>2. ASSUME NEW z PROVE z \in Used(n) <=> z \in With(Used(m), x, d)
        <5> HIDE DEF x
        <5> QED  BY <1>12, <3>2, <4>1 DEF Used, With
      <4> QED  BY <3>2, <4>2
    <3> QED  BY <3>1, <3>2
  <2>6. o \in Sizes => (x \in Used(m) <=> d = -1)
    <3>1. ASSUME o \in Sizes, d = 1 PROVE x \notin Used(m)
      BY <1>10, <1>11, <3>1, NamesFacts DEF Used
    <3>2. ASSUME o \in Sizes, d = -1 PROVE x \in Used(m)
      BY <1>11, <3>2 DEF Used
    <3> QED  BY <1>0, <3>1, <3>2
  <2>7. Used(n) = V \cup PartsIn(n) /\ V \cap PartsIn(n) = {}
    <3> HIDE DEF x
    <3>1. CASE o \notin Sizes
      BY <2>1, <2>4, <2>5, <3>1 DEF Owned
    <3>2. CASE o \in Sizes /\ d = 1
      BY <2>1, <2>4, <2>5, <2>6, <3>2 DEF Owned, With
    <3>3. CASE o \in Sizes /\ d = -1
      <4>1. x \in U
        BY <1>0, <3>3
      <4> QED  BY <2>1, <2>4, <2>5, <3>3, <4>1 DEF Owned, With
    <3> QED  BY <1>0, <3>1, <3>2, <3>3
  <2>8. \A p, q \in Outside(n), j, k \in {1, 2} : Part(n, p, j) = Part(n, q, k) => p = q /\ j = k
    BY <2>1, <2>3 DEF Owned
  <2> QED  BY <2>7, <2>8 DEF Owned
<1>20. SlabsRight(n, V)
  BY <1>15, <1>16, <1>17, <1>18, <1>19 DEF SlabsRight
<1> QED  BY <1>0, <1>4, <1>10, <1>11, <1>12, <1>20 DEF TurnedTo

-----------------------------------------------------------------------------
(* The steps a call is made of keep the memory good.                       *)

\* What a step, or a call, leaves alone: the pools of the sizes, the caches C, the
\* references of the pages B.
Kept(m, n, C, B) ==
    /\ \A size \in Sizes : Head(n.list[size]) = Head(m.list[size])
    /\ \A s \in C : n.list[s] = m.list[s] /\ \A p \in SlabsOf(m, s) : n.slab[p] = m.slab[p]
    /\ \A p \in B : n.reference_count[p] = m.reference_count[p]

\* kmalloc only adds slabs and pages, kfree only removes slabs.
Grown(m, n) == (\A o \in Owners : SlabsOf(m, o) \subseteq SlabsOf(n, o)) /\ m.bits_map \subseteq n.bits_map
Shrunk(m, n) == \A o \in Owners : SlabsOf(n, o) \subseteq SlabsOf(m, o)

\* What two calls keep, both together keep.
LEMMA KeptThrough ==
    ASSUME NEW m, NEW n, NEW k, NEW C, NEW B, NEW A, Kept(m, n, C, B), Kept(n, k, C, A), B \subseteq A
    PROVE  Kept(m, k, C, B)
BY DEF Kept, SlabsOf

\* What Good says, part by part.
LEMMA GoodFacts ==
    ASSUME NEW m, NEW U, NEW B, Good(m, U, B)
    PROVE  /\ machine \in Machines /\ m \in MemType
           /\ PagesRight(m, Slabs(m), B) /\ SlabsRight(m, U)
           /\ m.bits_map = Reserved \cup Slabs(m) \cup B /\ m.bits_map \subseteq Pages
           /\ Slabs(m) \subseteq Pages \ Reserved /\ B \subseteq Pages \ Reserved /\ Slabs(m) \cap B = {}
           /\ \A o \in Owners : SlabsOf(m, o) \subseteq Slabs(m)
           /\ \A p \in Slabs(m) : m.reference_count[p] = 1
           /\ Listed(m) /\ MapsRight(m) /\ Shapes(m) /\ Owned(m, U) /\ Counted(m) /\ U \subseteq Used(m)
<1>1. machine \in Machines /\ m \in MemType /\ PagesRight(m, Slabs(m), B) /\ SlabsRight(m, U)
  BY DEF Good
<1>2. m.bits_map \subseteq Pages
  BY <1>1, MemFacts
<1>3. /\ m.bits_map = Reserved \cup Slabs(m) \cup B /\ \A p \in Slabs(m) : m.reference_count[p] = 1
      /\ Slabs(m) \subseteq Pages \ Reserved /\ B \subseteq Pages \ Reserved /\ Slabs(m) \cap B = {}
  BY <1>1, <1>2 DEF PagesRight, PagesFor
<1>4. \A o \in Owners : SlabsOf(m, o) \subseteq Slabs(m)
  BY DEF Slabs
<1>5. /\ Listed(m) /\ MapsRight(m) /\ Shapes(m) /\ Owned(m, U) /\ Counted(m)
  BY <1>1 DEF SlabsRight
<1>6. U \subseteq Used(m)
  BY <1>5 DEF Owned
<1> QED  BY <1>1, <1>2, <1>3, <1>4, <1>5, <1>6

\* With the same slabs, a step on pages.
LEMMA PagesOnlyGood ==
    ASSUME NEW m, NEW n, NEW U, NEW B, NEW A, Good(m, U, B), PagesOnly(m, n, Slabs(m), A)
    PROVE  Good(n, U, A)
<1>1. machine \in Machines /\ SlabsRight(m, U) /\ n \in MemType /\ SameSlabs(m, n)
      /\ PagesRight(n, Slabs(m), A)
  BY DEF Good, PagesOnly
<1>2. Slabs(n) = Slabs(m) /\ SlabsRight(n, U)
  BY <1>1, SlabsStayRight
<1> QED  BY <1>1, <1>2 DEF Good

LEMMA SameSlabsKept ==
    ASSUME NEW m, NEW n, NEW C, NEW B, SameSlabs(m, n),
           \A p \in B : n.reference_count[p] = m.reference_count[p]
    PROVE  Kept(m, n, C, B) /\ Shrunk(m, n) /\ (m.bits_map \subseteq n.bits_map => Grown(m, n))
BY DEF SameSlabs, Kept, Shrunk, Grown, SlabsOf

\* alloc_pages: the pages it gives had no owner.
GaveBlock(m, r, number, U, B) ==
    \/ /\ r.page = Null /\ r.mem = m
       /\ Len(zones) = 1 /\ number = 1 => ZonePages(zones[1]) \subseteq m.bits_map
    \/ /\ r.page \in Pages /\ r.page # Null
       /\ Block(r.page, number) \subseteq Pages /\ Block(r.page, number) \cap m.bits_map = {}
       /\ r.mem.bits_map = m.bits_map \cup Block(r.page, number)
       /\ r.mem.reference_count = m.reference_count
       /\ SameSlabs(m, r.mem) /\ Good(r.mem, U, B \cup Block(r.page, number))

\* alloc_pages: a block of pages nobody had, or nothing.
LEMMA AllocGood ==
    ASSUME NEW m, NEW U, NEW B, Good(m, U, B), NEW number \in Nat \ {0}
    PROVE  GaveBlock(m, alloc_pages(m, number), number, U, B)
<1> DEFINE r == alloc_pages(m, number)
<1>1. AllocRight(m, r, number, Slabs(m), B)
  BY GoodFacts, AllocPagesRight
<1> HIDE DEF r
<1>2. r.mem \in MemType /\ SameSlabs(m, r.mem)
           /\ PagesRight(r.mem, Slabs(m), B \cup Block(r.page, number))
         => Good(r.mem, U, B \cup Block(r.page, number))
  BY PagesOnlyGood DEF PagesOnly
<1>3. GaveBlock(m, r, number, U, B)
  BY <1>1, <1>2 DEF AllocRight, GaveBlock
<1> QED  BY <1>3 DEF r

\* The page that alloc_pages(m, 1) gave, after page_init.
LEMMA InitGood ==
    ASSUME NEW m, NEW U, NEW B, Good(m, U, B), NEW page \in B
    PROVE  LET n == page_init(m, page)
           IN  /\ Good(n, U, B) /\ SameSlabs(m, n) /\ n.bits_map = m.bits_map
               /\ n.reference_count[page] = 1
               /\ \A p \in Pages : p # page => n.reference_count[p] = m.reference_count[p]
<1> DEFINE n == page_init(m, page)
<1>1. page \in Pages \ Reserved /\ Slabs(m) \in SUBSET Pages
  BY GoodFacts
<1>2. PagesOnly(m, n, Slabs(m), B) /\ ReferenceAt(m, n, page, 1)
  BY <1>1, GoodFacts, PageInitRight
<1> HIDE DEF n
<1>3. Good(n, U, B)
  BY <1>2, PagesOnlyGood
<1> QED  BY <1>2, <1>3 DEF n, PagesOnly, ReferenceAt

\* The page of a slab that has gone.
LEMMA ReturnGood ==
    ASSUME NEW m, NEW U, NEW B, Good(m, U, B), NEW page \in B, m.reference_count[page] = 1
    PROVE  LET n == ReturnPage(m, page)
           IN  /\ Good(n, U, B \ {page}) /\ SameSlabs(m, n)
               /\ \A p \in Pages : p # page => n.reference_count[p] = m.reference_count[p]
<1> DEFINE k == page_clean(m, page)
           n == free_pages(k, page, 1)
<1>1. page \in Pages \ Reserved /\ Slabs(m) \in SUBSET Pages /\ page \in Nat
  BY GoodFacts, ZoneFacts
<1>2. Block(page, 1) = {page}
  BY <1>1, BlockFacts
<1>3. PagesOnly(m, k, Slabs(m), B) /\ ReferenceAt(m, k, page, 0)
  BY <1>1, GoodFacts, PageCleanRight
<1> HIDE DEF k
<1>4. Good(k, U, B) /\ Slabs(k) = Slabs(m) /\ k \in MemType
  BY <1>3, PagesOnlyGood, SlabsStayRight DEF PagesOnly
<1>5. /\ PagesOnly(k, n, Slabs(k), B \ Block(page, 1)) /\ n.reference_count = k.reference_count
  <2>1. PagesRight(k, Slabs(k), B) /\ machine \in Machines
    BY <1>4, GoodFacts
  <2>2. Block(page, 1) \subseteq B /\ 1 \in Nat \ {0}
    BY <1>2
  <2>3. Slabs(k) = Slabs(m) /\ k \in MemType
    BY <1>4
  <2> QED  BY <1>1, <2>1, <2>2, <2>3, FreePagesRight
<1> HIDE DEF n
<1>6. Good(n, U, B \ {page})
  BY <1>2, <1>4, <1>5, PagesOnlyGood
<1>7. SameSlabs(m, n)
  BY <1>3, <1>5 DEF PagesOnly, SameSlabs
<1>8. \A p \in Pages : p # page => n.reference_count[p] = m.reference_count[p]
  BY <1>3, <1>5 DEF ReferenceAt
<1> QED  BY <1>6, <1>7, <1>8 DEF ReturnPage, n, k

\* A block that goes back without page_clean.
LEMMA FreeGood ==
    ASSUME NEW m, NEW U, NEW B, Good(m, U, B), NEW page \in Nat, NEW number \in Nat \ {0},
           Block(page, number) \subseteq B
    PROVE  LET n == free_pages(m, page, number)
           IN  /\ Good(n, U, B \ Block(page, number)) /\ SameSlabs(m, n)
               /\ n.reference_count = m.reference_count
<1> DEFINE n == free_pages(m, page, number)
<1>1. PagesOnly(m, n, Slabs(m), B \ Block(page, number)) /\ n.reference_count = m.reference_count
  BY GoodFacts, FreePagesRight
<1> HIDE DEF n
<1>2. Good(n, U, B \ Block(page, number))
  BY <1>1, PagesOnlyGood
<1> QED  BY <1>1, <1>2 DEF n, PagesOnly

\* A page that becomes a slab.
LEMMA AddedGood ==
    ASSUME NEW m, NEW n, NEW U, NEW B, Good(m, U, B), NEW o \in Owners, NEW page \in B,
           m.reference_count[page] = 1, NEW slab, Fresh(slab, o), PartsReady(m, o, slab, U),
           Added(m, n, o, page, slab)
    PROVE  /\ Good(n, U \ PartsOf(slab), B \ {page})
           /\ \A x \in Owners : InUse(n, x) = InUse(m, x)
           /\ \A C \in SUBSET Caches : o \notin C => Kept(m, n, C, B)
           /\ Grown(m, n)
<1>1. /\ page \in Pages /\ page \notin Slabs(m) /\ machine \in Machines /\ m \in MemType
      /\ page \notin Reserved
  BY GoodFacts
<1>2. /\ SlabsRight(n, U \ PartsOf(slab)) /\ Slabs(n) = Slabs(m) \cup {page}
      /\ \A x \in Owners : InUse(n, x) = InUse(m, x)
  <2>1. SlabsRight(m, U)
    BY GoodFacts
  <2> QED  BY <1>1, <2>1, AddedRight
<1>3. n \in MemType /\ SamePages(m, n)
  BY DEF Added
<1>4. PagesRight(m, Slabs(n), B \ {page})
  <2>1. PagesRight(m, Slabs(m), B)
    BY GoodFacts
  <2>2. PagesFor(m, Slabs(n), B \ {page})
    BY <1>1, <1>2, <2>1 DEF PagesRight, PagesFor
  <2> QED  BY <2>1, <2>2 DEF PagesRight
<1>5. PagesRight(n, Slabs(n), B \ {page})
  BY <1>3, <1>4, PagesStayRight
<1>6. Good(n, U \ PartsOf(slab), B \ {page})
  BY <1>1, <1>2, <1>3, <1>5 DEF Good
<1>7. /\ SlabsOf(n, o) = SlabsOf(m, o) \cup {page}
      /\ \A x \in Owners : x # o => SlabsOf(n, x) = SlabsOf(m, x) /\ n.list[x] = m.list[x]
  BY DEF Added, SlabsOf
<1>8. \A p \in Pages : p # page => n.slab[p] = m.slab[p]
  BY <1>1, MemFacts DEF Added
<1>9. \A size \in Sizes : Head(n.list[size]) = Head(m.list[size])
  BY <1>7, GoodFacts, NamesFacts DEF Added, Listed
<1>10. ASSUME NEW C \in SUBSET Caches, o \notin C PROVE Kept(m, n, C, B)
  <2>1. ASSUME NEW s \in C
        PROVE  n.list[s] = m.list[s] /\ \A p \in SlabsOf(m, s) : n.slab[p] = m.slab[p]
    <3>1. s \in Owners /\ s # o
      BY <1>10, NamesFacts
    <3>2. \A p \in SlabsOf(m, s) : p \in Pages /\ p # page
      BY <1>1, <3>1, GoodFacts
    <3> QED  BY <1>7, <1>8, <3>1, <3>2
  <2>2. n.reference_count = m.reference_count
    BY <1>3 DEF SamePages
  <2> QED  BY <1>9, <2>1, <2>2 DEF Kept
<1>11. Grown(m, n)
  BY <1>3, <1>7 DEF Grown, SamePages
<1> QED  BY <1>2, <1>6, <1>10, <1>11

\* An empty slab that leaves its list.
LEMMA RemovedGood ==
    ASSUME NEW m, NEW U, NEW B, Good(m, U, B), NEW o \in Owners, NEW page \in SlabsOf(m, o),
           m.slab[page].color_map = {}, o \in Sizes => page # Head(m.list[o])
    PROVE  LET n == Unlisted(m, o, page)
           IN  /\ Removed(m, n, o, page)
               /\ Good(n, U \cup PartsOf(m.slab[page]), B \cup {page})
               /\ n.reference_count[page] = 1 /\ page \in Pages /\ page \notin B
               /\ \A x \in Owners : InUse(n, x) = InUse(m, x)
               /\ \A C \in SUBSET Caches : o \notin C => Kept(m, n, C, B)
               /\ Shrunk(m, n)
<1> DEFINE n == Unlisted(m, o, page)
           V == U \cup PartsOf(m.slab[page])
<1>1. machine \in Machines /\ m \in MemType /\ Distinct(m.list[o])
  BY GoodFacts DEF Listed
<1>2. Removed(m, n, o, page)
  BY <1>1, UnlistedRemoves
<1> HIDE DEF n
<1>3. /\ SlabsRight(n, V) /\ Slabs(n) = Slabs(m) \ {page}
      /\ \A x \in Owners : InUse(n, x) = InUse(m, x)
  <2>1. SlabsRight(m, U)
    BY GoodFacts
  <2> QED  BY <1>1, <1>2, <2>1, RemovedRight
<1>4. page \in Slabs(m) /\ page \in Pages /\ page \notin B /\ m.reference_count[page] = 1
      /\ page \notin Reserved
  BY GoodFacts
<1>5. n \in MemType /\ SamePages(m, n) /\ n.reference_count = m.reference_count
  BY <1>2 DEF Removed, SamePages
<1>6. PagesRight(m, Slabs(n), B \cup {page})
  <2>1. PagesRight(m, Slabs(m), B)
    BY GoodFacts
  <2>2. PagesFor(m, Slabs(n), B \cup {page})
    BY <1>3, <1>4, <2>1 DEF PagesRight, PagesFor
  <2> QED  BY <2>1, <2>2 DEF PagesRight
<1>7. PagesRight(n, Slabs(n), B \cup {page})
  BY <1>5, <1>6, PagesStayRight
<1>8. Good(n, V, B \cup {page})
  BY <1>1, <1>3, <1>5, <1>7 DEF Good
<1>9. /\ SlabsOf(n, o) = SlabsOf(m, o) \ {page}
      /\ \A x \in Owners : x # o => SlabsOf(n, x) = SlabsOf(m, x) /\ n.list[x] = m.list[x]
  BY <1>2 DEF Removed, SlabsOf
<1>10. \A p \in Pages : p # page => n.slab[p] = m.slab[p]
  BY <1>1, <1>2, MemFacts DEF Removed
<1>11. \A size \in Sizes : Head(n.list[size]) = Head(m.list[size])
  BY <1>2, <1>9, NamesFacts DEF Removed
<1>12. ASSUME NEW C \in SUBSET Caches, o \notin C PROVE Kept(m, n, C, B)
  <2>1. ASSUME NEW s \in C
        PROVE  n.list[s] = m.list[s] /\ \A p \in SlabsOf(m, s) : n.slab[p] = m.slab[p]
    <3>1. s \in Owners /\ s # o
      BY <1>12, NamesFacts
    <3>2. \A p \in SlabsOf(m, s) : p \in Pages /\ p # page
      BY <3>1, GoodFacts DEF Listed
    <3> QED  BY <1>9, <1>10, <3>1, <3>2
  <2> QED  BY <1>5, <1>11, <2>1 DEF Kept
<1>13. Shrunk(m, n)
  BY <1>9 DEF Shrunk
<1> QED  BY <1>2, <1>3, <1>4, <1>5, <1>8, <1>12, <1>13 DEF n

\* An object that changes hands.
LEMMA TurnedGood ==
    ASSUME NEW m, NEW n, NEW U, NEW B, Good(m, U, B), NEW o \in Owners, NEW page, NEW index, NEW d,
           Turning(m, n, o, page, index, d, U)
    PROVE  /\ Good(n, IF o \in Sizes THEN With(U, Cell(page, index), d) ELSE U, B)
           /\ TurnedTo(m, n, o, Cell(page, index), d)
           /\ \A C \in SUBSET Caches : o \notin C => Kept(m, n, C, B)
           /\ Grown(m, n) /\ Shrunk(m, n)
<1> DEFINE V == IF o \in Sizes THEN With(U, Cell(page, index), d) ELSE U
<1>0. page \in SlabsOf(m, o) /\ Turned(m, n, o, page, With(m.slab[page].color_map, index, d), d)
  BY DEF Turning
<1>1. machine \in Machines /\ m \in MemType /\ SlabsRight(m, U) /\ PagesRight(m, Slabs(m), B)
  BY GoodFacts
<1>2. SlabsRight(n, V) /\ TurnedTo(m, n, o, Cell(page, index), d) /\ Slabs(n) = Slabs(m)
  <2>1. Turning(m, n, o, page, index, d, U)
    OBVIOUS
  <2>2. /\ SlabsRight(n, IF o \in Sizes THEN With(U, Cell(page, index), d) ELSE U)
        /\ TurnedTo(m, n, o, Cell(page, index), d)
    BY <1>1, <2>1, TurnedRight
  <2> QED  BY <2>2 DEF TurnedTo
<1> HIDE DEF V
<1>3. n \in MemType /\ SamePages(m, n) /\ n.list = m.list
  BY <1>0 DEF Turned
<1>4. PagesRight(n, Slabs(n), B)
  BY <1>1, <1>2, <1>3, PagesStayRight
<1>5. Good(n, V, B)
  BY <1>1, <1>2, <1>3, <1>4 DEF Good
<1>6. \A p \in Pages : p # page => n.slab[p] = m.slab[p]
  BY <1>0, <1>1, MemFacts DEF Turned
<1>7. ASSUME NEW C \in SUBSET Caches, o \notin C PROVE Kept(m, n, C, B)
  <2>1. ASSUME NEW s \in C, NEW p \in SlabsOf(m, s) PROVE n.slab[p] = m.slab[p]
    <3>1. s \in Owners /\ s # o
      BY <1>7, NamesFacts
    <3>2. p \in Pages /\ p # page
      BY <1>0, <3>1, GoodFacts DEF Listed
    <3> QED  BY <1>6, <3>2
  <2>2. n.reference_count = m.reference_count
    BY <1>3 DEF SamePages
  <2> QED  BY <1>3, <2>1, <2>2 DEF Kept
<1>8. Grown(m, n) /\ Shrunk(m, n)
  BY <1>3 DEF Grown, Shrunk, SlabsOf, SamePages
<1> QED  BY <1>2, <1>5, <1>7, <1>8 DEF V

\* The using_count of a pool stays Count[s] too high.
LEMMA PoolTurned ==
    ASSUME machine \in Machines, NEW m \in MemType, MapsRight(m), NEW n, NEW o \in Owners,
           NEW page, NEW index, NEW d, NEW U, Turning(m, n, o, page, index, d, U), PoolCounts(m, o)
    PROVE  PoolCounts(n, o)
<1> DEFINE s == m.slab[page]
           bits == With(s.color_map, index, d)
<1>0. /\ page \in SlabsOf(m, o) /\ d \in {-1, 1} /\ Turnable(m, page, index, d)
      /\ Turned(m, n, o, page, bits, d)
  BY DEF Turning
<1>1. page \in Pages /\ s \in SlabType /\ SlabsOf(m, o) \subseteq Pages
  BY <1>0, MemFacts
<1>2. /\ n.slab[page] = Turn(s, bits, d) /\ n.list = m.list
      /\ \A p \in Pages : p # page => n.slab[p] = m.slab[p]
  BY <1>0, <1>1, MemFacts DEF Turned
<1>3. /\ n.slab[page].color_map = bits /\ n.slab[page].using_count = s.using_count + d
  BY <1>1, <1>2 DEF Turn, SlabType
<1>4. IsFiniteSet(s.color_map)
  <2>1. s.color_map \subseteq 0 .. s.color_count - 1 /\ s.color_count - 1 \in Int /\ 0 \in Int
    BY <1>0, <1>1 DEF MapsRight, SlabType
  <2> QED  BY <2>1, FS_Interval, FS_Subset
<1>5. Cardinality(bits) = Cardinality(s.color_map) + d /\ Cardinality(s.color_map) \in Nat
  <2>1. Cardinality(s.color_map) \in Nat
    BY <1>4, FS_CardinalityType
  <2>2. CASE d = 1
    <3>1. bits = s.color_map \cup {index} /\ index \notin s.color_map
      BY <1>0, <2>2 DEF With, Turnable, Spaces
    <3> QED  BY <1>4, <2>1, <2>2, <3>1, FS_AddElement
  <2>3. CASE d = -1
    <3>1. bits = s.color_map \ {index} /\ index \in s.color_map
      BY <1>0, <2>3 DEF With, Turnable
    <3>2. Cardinality(bits) = Cardinality(s.color_map) - 1
      BY <1>4, <3>1, FS_RemoveElement
    <3>3. \A c \in Nat : c - 1 = c + -1
      OBVIOUS
    <3> QED  BY <2>1, <2>3, <3>2, <3>3
  <2> QED  BY <1>0, <2>2, <2>3
<1> HIDE DEF bits, s
<1>6. ASSUME NEW p \in SlabsOf(m, o)
      PROVE  n.slab[p].using_count = Cardinality(n.slab[p].color_map)
                                     + IF p = Head(m.list[o]) THEN Count[o] ELSE 0
  <2>1. m.slab[p].using_count = Cardinality(m.slab[p].color_map)
                                + IF p = Head(m.list[o]) THEN Count[o] ELSE 0
    BY DEF PoolCounts
  <2>2. CASE p # page
    BY <1>1, <1>2, <2>1, <2>2
  <2>3. CASE p = page
    <3> DEFINE k == IF p = Head(m.list[o]) THEN Count[o] ELSE 0
    <3>1. k \in Nat /\ d \in Int
      BY <1>0, NamesFacts
    <3>2. s.using_count = Cardinality(s.color_map) + k
      BY <2>1, <2>3 DEF s
    <3>3. n.slab[p].using_count = s.using_count + d /\ n.slab[p].color_map = bits
      BY <1>3, <2>3
    <3> HIDE DEF k
    <3>4. n.slab[p].using_count = Cardinality(n.slab[p].color_map) + k
      BY <1>5, <3>1, <3>2, <3>3
    <3> QED  BY <3>4 DEF k
  <2> QED  BY <2>2, <2>3
<1> QED  BY <1>2, <1>6 DEF PoolCounts, SlabsOf

\* What Take does when the slab has an object left.
Took(m, r, o, page, U, B) ==
    /\ r.object # NoObject /\ r.object.page = page
    /\ \A y \in Owners : r.object \notin InUse(m, y)
    /\ Good(r.mem, IF o \in Sizes THEN U \cup {r.object} ELSE U, B)
    /\ InUse(r.mem, o) = InUse(m, o) \cup {r.object}
    /\ \A y \in Owners : y # o => InUse(r.mem, y) = InUse(m, y)
    /\ r.mem.list = m.list /\ r.mem.bits_map = m.bits_map
    /\ PoolCounts(m, o) => PoolCounts(r.mem, o)
    /\ \A C \in SUBSET Caches : o \notin C => Kept(m, r.mem, C, B)
    /\ Grown(m, r.mem)

\* The first object whose bit is 0 is nobody's.
LEMMA TakeGood ==
    ASSUME NEW m, NEW U, NEW B, Good(m, U, B), NEW o \in Owners, NEW page \in SlabsOf(m, o),
           Spaces(m.slab[page]) # {}
    PROVE  Took(m, Take(m, o, page), o, page, U, B)
<1> DEFINE s == m.slab[page]
           unused == Spaces(s)
           index == CHOOSE i \in unused : \A j \in unused : i <= j
           n == TurnOne(m, o, page, s.color_map \cup {index}, 1)
           x == Cell(page, index)
           r == Take(m, o, page)
<1>1. machine \in Machines /\ m \in MemType /\ MapsRight(m) /\ SlabsRight(m, U) /\ page \in Pages
  BY GoodFacts
<1>2. unused \in SUBSET Nat /\ s.color_map \in SUBSET Nat
  BY <1>1, MemFacts DEF Spaces
<1>3. index \in unused
  <2> HIDE DEF unused
  <2>1. \E k \in unused : \A j \in unused : k <= j
    <3>1. unused # {}
      BY DEF unused
    <3> QED  BY <1>2, <3>1, LeastNatural
  <2> QED  BY <2>1
<1>4. r.mem = n /\ r.object = x
  BY DEF Take, TurnOne, Spaces, Cell
<1> HIDE DEF index, n, r
<1>5. s.color_map \cup {index} \in SUBSET Nat /\ 1 \in Int
  BY <1>2, <1>3
<1>6. Turned(m, n, o, page, With(s.color_map, index, 1), 1)
  <2>1. With(s.color_map, index, 1) = s.color_map \cup {index}
    BY DEF With
  <2>2. Turned(m, n, o, page, s.color_map \cup {index}, 1)
    BY <1>1, <1>5, TurnedMemory DEF n
  <2> QED  BY <2>1, <2>2
<1>7. Turning(m, n, o, page, index, 1, U)
  BY <1>3, <1>6 DEF Turnable, Turning
<1>8. /\ Good(n, IF o \in Sizes THEN With(U, x, 1) ELSE U, B)
      /\ TurnedTo(m, n, o, x, 1)
      /\ \A C \in SUBSET Caches : o \notin C => Kept(m, n, C, B)
      /\ Grown(m, n)
  BY <1>7, TurnedGood
<1>9. /\ InUse(n, o) = With(InUse(m, o), x, 1) /\ x \notin InUse(m, o)
      /\ \A y \in Owners : y # o => InUse(n, y) = InUse(m, y) /\ x \notin InUse(n, y)
  BY <1>8 DEF TurnedTo
<1>10. PoolCounts(m, o) => PoolCounts(n, o)
  BY <1>1, <1>7, PoolTurned
<1>11. n.list = m.list /\ n.bits_map = m.bits_map
  BY <1>6 DEF Turned, SamePages
<1>12. page # Null
  BY <1>1, ZoneFacts DEF Null
<1>13. x # NoObject /\ x.page = page
  BY <1>12 DEF NoObject, Cell
<1>14. \A X : With(X, x, 1) = X \cup {x}
  BY DEF With
<1>15. \A y \in Owners : x \notin InUse(m, y)
  BY <1>9
<1> HIDE DEF x
<1>16. Took(m, r, o, page, U, B)
  BY <1>4, <1>8, <1>9, <1>10, <1>11, <1>13, <1>14, <1>15 DEF Took
<1> QED  BY <1>16 DEF r

\* What PutBack does.
Put(m, n, o, x, U, B) ==
    /\ x.page \in SlabsOf(m, o)
    /\ Good(n, IF o \in Sizes THEN U \ {x} ELSE U, B)
    /\ InUse(n, o) = InUse(m, o) \ {x}
    /\ \A y \in Owners : y # o => InUse(n, y) = InUse(m, y)
    /\ n.list = m.list
    /\ PoolCounts(m, o) => PoolCounts(n, o)
    /\ \A C \in SUBSET Caches : o \notin C => Kept(m, n, C, B)
    /\ Shrunk(m, n)

\* PutBack, in the same way.
LEMMA PutBackIs ==
    ASSUME NEW m, NEW o, NEW x
    PROVE  PutBack(m, o, x) =
             SetOne(m, o, x.page, (m.slab[x.page].color_map \ {x.index}) \cup ({x.index} \ m.slab[x.page].color_map),
                     m.slab[x.page].using_count - 1, m.slab[x.page].free_count + 1,
                       m.total_free[o] + 1, m.total_using[o] - 1)
BY DEF PutBack, SetOne

\* kfree and slab_free, up to the test whether the slab goes.
LEMMA PutBackGood ==
    ASSUME NEW m, NEW U, NEW B, Good(m, U, B), NEW o \in Owners, NEW x \in InUse(m, o),
           o \in Sizes => x \in U
    PROVE  Put(m, PutBack(m, o, x), o, x, U, B)
<1>1. PICK page \in SlabsOf(m, o) : \E i \in m.slab[page].color_map : x = Cell(page, i)
  BY UsedCell
<1>2. PICK index \in m.slab[page].color_map : x = Cell(page, index)
  BY <1>1
<1> DEFINE s == m.slab[page]
           bits == s.color_map \ {index}
           n == PutBack(m, o, x)
<1>3. machine \in Machines /\ m \in MemType /\ MapsRight(m) /\ SlabsRight(m, U) /\ page \in Pages
  BY GoodFacts
<1>4. s.color_map \in SUBSET Nat /\ bits \in SUBSET Nat /\ -1 \in Int
  BY <1>3, MemFacts
<1>5. n = TurnOne(m, o, page, bits, -1)
  <2>1. x.page = page /\ x.index = index
    BY <1>2 DEF Cell
  <2>2. (s.color_map \ {index}) \cup ({index} \ s.color_map) = bits
    OBVIOUS
  <2>3. \A c \in Int : c + -1 = c - 1 /\ c - -1 = c + 1
    OBVIOUS
  <2>4. /\ s.using_count \in Int /\ s.free_count \in Int
        /\ m.total_free[o] \in Int /\ m.total_using[o] \in Int
    BY <1>3, MemFacts
  <2>5. /\ s.using_count - 1 = s.using_count + -1 /\ s.free_count + 1 = s.free_count - -1
        /\ m.total_free[o] + 1 = m.total_free[o] - -1 /\ m.total_using[o] - 1 = m.total_using[o] + -1
    BY <2>3, <2>4
  <2>6. n = SetOne(m, o, page, bits, s.using_count - 1, s.free_count + 1,
                   m.total_free[o] + 1, m.total_using[o] - 1)
    BY <2>1, <2>2, PutBackIs
  <2>7. TurnOne(m, o, page, bits, -1) = SetOne(m, o, page, bits, s.using_count + -1, s.free_count - -1,
                                             m.total_free[o] - -1, m.total_using[o] + -1)
    BY TurnIs
  <2> QED  BY <2>5, <2>6, <2>7
<1> HIDE DEF n
<1>6. Turned(m, n, o, page, With(s.color_map, index, -1), -1)
  <2>1. With(s.color_map, index, -1) = bits
    BY DEF With
  <2>2. Turned(m, n, o, page, bits, -1)
    BY <1>3, <1>4, <1>5, TurnedMemory
  <2> QED  BY <2>1, <2>2
<1>7. Turning(m, n, o, page, index, -1, U)
  BY <1>2, <1>6 DEF Turnable, Turning
<1>8. /\ Good(n, IF o \in Sizes THEN With(U, Cell(page, index), -1) ELSE U, B)
      /\ TurnedTo(m, n, o, Cell(page, index), -1)
      /\ \A C \in SUBSET Caches : o \notin C => Kept(m, n, C, B)
      /\ Shrunk(m, n)
  BY <1>7, TurnedGood
<1>9. /\ InUse(n, o) = With(InUse(m, o), Cell(page, index), -1)
      /\ \A y \in Owners : y # o => InUse(n, y) = InUse(m, y)
  BY <1>8 DEF TurnedTo
<1>10. PoolCounts(m, o) => PoolCounts(n, o)
  BY <1>3, <1>7, PoolTurned
<1>11. n.list = m.list
  BY <1>6 DEF Turned
<1>12. \A X : With(X, x, -1) = X \ {x}
  BY DEF With
<1>13. x.page = page
  BY <1>2 DEF Cell
<1>14. Put(m, n, o, x, U, B)
  BY <1>2, <1>8, <1>9, <1>10, <1>11, <1>12, <1>13 DEF Put
<1> QED  BY <1>14 DEF n

-----------------------------------------------------------------------------
(* kmalloc and kfree for the sizes in InPage.                              *)

\* An object that is free is in an open slab: total_free and the search agree.
LEMMA TakeOpen ==
    ASSUME NEW m, NEW U, NEW B, Good(m, U, B), NEW o \in Owners
    PROVE  /\ m.total_free[o] = 0 => Unused(m, o) = {}
           /\ m.total_free[o] # 0 =>
                /\ OpenSlab(m, o) \in SlabsOf(m, o)
                /\ Took(m, Take(m, o, OpenSlab(m, o)), o, OpenSlab(m, o), U, B)
<1>1. machine \in Machines /\ m \in MemType /\ MapsRight(m) /\ Counted(m)
  BY GoodFacts
<1>2. IsFiniteSet(Unused(m, o)) /\ m.total_free[o] = Cardinality(Unused(m, o))
  BY <1>1, CellsFinite DEF Counted
<1>3. m.total_free[o] = 0 => Unused(m, o) = {}
  BY <1>2, FS_EmptySet
<1>4. ASSUME m.total_free[o] # 0
      PROVE  OpenSlab(m, o) \in SlabsOf(m, o) /\ Spaces(m.slab[OpenSlab(m, o)]) # {}
  <2> DEFINE l == m.list[o]
             open == {i \in DOMAIN l : m.slab[l[i]].free_count # 0}
             k == CHOOSE i \in open : \A j \in open : i <= j
  <2>1. ASSUME NEW p \in SlabsOf(m, o)
        PROVE  m.slab[p].free_count # 0 <=> Spaces(m.slab[p]) # {}
    <3> DEFINE s == m.slab[p]
               all == 0 .. s.color_count - 1
    <3>1. p \in Pages /\ s.color_count \in Nat
      BY <1>1, MemFacts
    <3>2. MapRight(s, o)
      BY <1>1 DEF MapsRight
    <3>3. s.color_map \subseteq all /\ s.free_count = s.color_count - Cardinality(s.color_map)
      BY <3>2 DEF MapRight
    <3>4. IsFiniteSet(all) /\ Cardinality(all) = s.color_count
      <4>1. 0 \in Int /\ s.color_count - 1 \in Int
            /\ (IF 0 > s.color_count - 1 THEN 0 ELSE (s.color_count - 1) - 0 + 1) = s.color_count
        BY <3>1
      <4> HIDE DEF s
      <4> QED  BY <4>1, FS_Interval
    <3>5. Spaces(s) = all \ s.color_map
      BY DEF Spaces
    <3> HIDE DEF s, all
    <3>6. IsFiniteSet(s.color_map) /\ Cardinality(s.color_map) \in Nat
      BY <3>3, <3>4, FS_Subset, FS_CardinalityType
    <3>7. Cardinality(s.color_map) = Cardinality(all) <=> s.color_map = all
      BY <3>3, <3>4, FS_Subset
    <3>8. Spaces(s) = {} <=> s.color_map = all
      BY <3>3, <3>5
    <3>9. \A a, b \in Nat : a - b = 0 <=> b = a
      OBVIOUS
    <3>10. s.free_count = 0 <=> Cardinality(s.color_map) = Cardinality(all)
      BY <3>1, <3>3, <3>4, <3>6, <3>9
    <3>11. s.free_count = 0 <=> Spaces(s) = {}
      BY <3>7, <3>8, <3>10
    <3> QED  BY <3>11 DEF s
  <2>2. Unused(m, o) # {}
    BY <1>2, <1>4, FS_EmptySet
  <2>3. PICK p \in SlabsOf(m, o) : Spaces(m.slab[p]) # {}
    BY <2>2, UnusedCell
  <2>4. PICK i \in DOMAIN l : l[i] = p
    BY DEF SlabsOf, ToSet
  <2>5. i \in open
    BY <2>1, <2>3, <2>4
  <2>6. open \in SUBSET Nat
    <3>1. l \in Seq(Pages)
      BY <1>1, MemFacts
    <3> HIDE DEF l
    <3>2. DOMAIN l \subseteq Nat
      BY <3>1
    <3> QED  BY <3>2
  <2>7. OpenSlab(m, o) = l[k]
    <3>1. open # {}
      BY <2>5
    <3> HIDE DEF k
    <3> QED  BY <3>1 DEF OpenSlab, k
  <2> HIDE DEF open
  <2>8. k \in open
    <3>1. \E a \in open : \A j \in open : a <= j
      BY <2>5, <2>6, LeastNatural
    <3> QED  BY <3>1
  <2> HIDE DEF k
  <2>9. k \in DOMAIN l /\ m.slab[l[k]].free_count # 0
    BY <2>8 DEF open
  <2>10. l[k] \in SlabsOf(m, o)
    BY <2>9 DEF SlabsOf, ToSet
  <2> QED  BY <2>1, <2>7, <2>9, <2>10
<1>5. m.total_free[o] # 0 => Took(m, Take(m, o, OpenSlab(m, o)), o, OpenSlab(m, o), U, B)
  BY <1>4, TakeGood
<1> QED  BY <1>3, <1>4, <1>5

\* kmalloc of an object: it gives one that had no owner, or finds everything full.
Full(m, r, size) ==
    Unused(m, size) = {} /\ (Len(zones) = 1 => ZonePages(zones[1]) \subseteq r.mem.bits_map)

Gave(m, r, size, U, B) ==
    \/ r.object = NoObject /\ Good(r.mem, U, B) /\ Full(m, r, size)
    \/ /\ r.object # NoObject /\ r.object \notin U /\ r.object.page \in SlabsOf(r.mem, size)
       /\ Good(r.mem, U \cup {r.object}, B)

Calm(m, n, B) == Kept(m, n, Caches, B) /\ Grown(m, n)

LEMMA CalmThrough ==
    ASSUME NEW m, NEW n, NEW k, NEW B, NEW A, Calm(m, n, B), Calm(n, k, A), B \subseteq A
    PROVE  Calm(m, k, B)
<1>1. Kept(m, k, Caches, B)
  BY KeptThrough DEF Calm
<1>2. Grown(m, k)
  BY DEF Calm, Grown
<1> QED  BY <1>1, <1>2 DEF Calm

\* An object of a slab with one to give.
LEMMA TookGave ==
    ASSUME NEW m, NEW U, NEW B, Good(m, U, B), NEW size \in Sizes, NEW page \in SlabsOf(m, size),
           NEW r, Took(m, r, size, page, U, B)
    PROVE  Gave(m, r, size, U, B) /\ Calm(m, r.mem, B)
<1>1. size \in Owners /\ size \notin Caches /\ Sizes \subseteq Owners
  BY NamesFacts
<1>2. r.object \notin U
  BY <1>1, GoodFacts DEF Took, Used
<1>3. r.object.page \in SlabsOf(r.mem, size)
  BY DEF Took, SlabsOf
<1>4. Calm(m, r.mem, B)
  BY <1>1 DEF Took, Calm
<1> QED  BY <1>2, <1>3, <1>4 DEF Took, Gave

\* The first object of a new slab.
LEMMA TakeFromNewGood ==
    ASSUME NEW m, NEW U, NEW B, NEW page, page \notin B, Good(m, U, B \cup {page}),
           m.reference_count[page] = 1, NEW size \in Sizes,
           NEW descriptor \in ObjectType, NEW map \in ObjectType,
           PartsReady(m, size, NewSlab(CreatedCount[size], 0, descriptor, map), U)
    PROVE  LET r == TakeFromNew(m, size, page, descriptor, map)
               V == U \ PartsOf(NewSlab(CreatedCount[size], 0, descriptor, map))
           IN  /\ r.object # NoObject /\ r.object \notin U /\ r.object.page \in SlabsOf(r.mem, size)
               /\ Good(r.mem, V \cup {r.object}, B) /\ Calm(m, r.mem, B)
<1> DEFINE slab == NewSlab(CreatedCount[size], 0, descriptor, map)
           n == AddSlab(m, size, page, slab)
           r == Take(n, size, page)
           V == U \ PartsOf(slab)
<1>1. size \in Owners /\ size \notin Caches /\ CreatedCount[size] \in Nat /\ CreatedCount[size] > 0
      /\ Caches \in SUBSET Caches
  BY NamesFacts
<1>2. Fresh(slab, size) /\ slab.color_map = {} /\ slab.color_count = CreatedCount[size] /\ slab \in SlabType
  BY <1>1 DEF Fresh, NewSlab, SlabType
<1> HIDE DEF slab
<1>3. machine \in Machines /\ m \in MemType /\ page \in Pages
  BY GoodFacts
<1>4. Added(m, n, size, page, slab)
  BY <1>1, <1>2, <1>3, AddSlabAdds
<1> HIDE DEF n
<1>5. /\ Good(n, V, (B \cup {page}) \ {page})
      /\ \A x \in Owners : InUse(n, x) = InUse(m, x)
      /\ Kept(m, n, Caches, B \cup {page}) /\ Grown(m, n)
  <2>1. PartsReady(m, size, slab, U) /\ page \in B \cup {page}
    BY DEF slab
  <2> QED  BY <1>1, <1>2, <1>4, <2>1, AddedGood
<1>6. (B \cup {page}) \ {page} = B
  OBVIOUS
<1>7. page \in SlabsOf(n, size) /\ Spaces(n.slab[page]) # {}
  <2>1. page \in SlabsOf(n, size)
    BY <1>4 DEF Added
  <2>2. n.slab[page] = slab
    BY <1>3, <1>4, MemFacts DEF Added
  <2>3. 0 \in Spaces(slab)
    BY <1>1, <1>2 DEF Spaces
  <2> QED  BY <2>1, <2>2, <2>3
<1>8. Took(n, r, size, page, V, B)
  BY <1>1, <1>5, <1>6, <1>7, TakeGood
<1> HIDE DEF r, V
<1>9. Gave(n, r, size, V, B) /\ Calm(n, r.mem, B) /\ r.object # NoObject
  BY <1>5, <1>6, <1>7, <1>8, TookGave DEF Took
<1>10. r.object \notin U
  <2>1. U \subseteq Used(m)
    BY GoodFacts
  <2>2. \A y \in Owners : r.object \notin InUse(n, y)
    BY <1>8 DEF Took
  <2> QED  BY <1>5, <2>1, <2>2, NamesFacts DEF Used
<1>11. Calm(m, n, B)
  BY <1>5 DEF Calm, Kept
<1>12. Calm(m, r.mem, B)
  BY <1>9, <1>11, CalmThrough
<1>13. TakeFromNew(m, size, page, descriptor, map) = r
  BY DEF TakeFromNew, r, n, slab
<1> QED  BY <1>9, <1>10, <1>12, <1>13 DEF Gave, V, slab

\* The page for a new slab, from alloc_pages and page_init.
LEMMA NewPage ==
    ASSUME NEW m, NEW U, NEW B, Good(m, U, B)
    PROVE  LET alloc == alloc_pages(m, 1)
               n == page_init(alloc.mem, alloc.page)
           IN  \/ /\ alloc.page = Null /\ alloc.mem = m
                  /\ Len(zones) = 1 => ZonePages(zones[1]) \subseteq m.bits_map
               \/ /\ alloc.page # Null /\ alloc.page \in Pages /\ alloc.page \notin B
                  /\ Good(n, U, B \cup {alloc.page}) /\ n.reference_count[alloc.page] = 1
                  /\ SameSlabs(m, n) /\ Calm(m, n, B)
<1> DEFINE alloc == alloc_pages(m, 1)
           page == alloc.page
           n == page_init(alloc.mem, page)
<1>1. GaveBlock(m, alloc, 1, U, B)
  BY AllocGood
<1> HIDE DEF alloc
<1>2. CASE page # Null
  <2>1. /\ page \in Pages /\ Block(page, 1) \cap m.bits_map = {}
        /\ alloc.mem.bits_map = m.bits_map \cup Block(page, 1)
        /\ alloc.mem.reference_count = m.reference_count
        /\ SameSlabs(m, alloc.mem) /\ Good(alloc.mem, U, B \cup Block(page, 1))
    BY <1>1, <1>2 DEF GaveBlock
  <2>2. Block(page, 1) = {page}
    BY <2>1, GoodFacts, ZoneFacts, BlockFacts
  <2>3. page \notin B /\ B \subseteq Pages
    BY <2>1, <2>2, GoodFacts
  <2>4. /\ Good(n, U, B \cup {page}) /\ SameSlabs(alloc.mem, n) /\ n.bits_map = alloc.mem.bits_map
        /\ n.reference_count[page] = 1
        /\ \A p \in Pages : p # page => n.reference_count[p] = alloc.mem.reference_count[p]
    <3>1. Good(alloc.mem, U, B \cup {page}) /\ page \in B \cup {page}
      BY <2>1, <2>2
    <3> QED  BY <3>1, InitGood
  <2> HIDE DEF n
  <2>5. SameSlabs(m, n)
    BY <2>1, <2>4 DEF SameSlabs
  <2>6. (\A p \in B : n.reference_count[p] = m.reference_count[p]) /\ m.bits_map \subseteq n.bits_map
    BY <2>1, <2>3, <2>4
  <2>7. Calm(m, n, B)
    BY <2>5, <2>6, SameSlabsKept DEF Calm
  <2> QED  BY <1>2, <2>1, <2>3, <2>4, <2>5, <2>7 DEF alloc, n
<1>3. CASE page = Null
  <2>1. \/ /\ alloc.mem = m /\ Len(zones) = 1 /\ 1 = 1 => ZonePages(zones[1]) \subseteq m.bits_map
        \/ page # Null
    BY <1>1 DEF GaveBlock
  <2>2. alloc.mem = m
    BY <1>1, <1>3 DEF GaveBlock
  <2> QED  BY <1>3, <2>1, <2>2 DEF alloc
<1> QED  BY <1>2, <1>3

\* kmalloc for a size in InPage.
LEMMA KmallocInPageGood ==
    ASSUME NEW m, NEW U, NEW B, Good(m, U, B), NEW size \in InPage
    PROVE  /\ Gave(m, KmallocInPage(m, size), size, U, B)
           /\ Calm(m, KmallocInPage(m, size).mem, B)
<1>1. size \in Sizes /\ size \in Owners
  BY NamesFacts
<1>2. CASE m.total_free[size] # 0
  <2> DEFINE page == OpenSlab(m, size)
             r == Take(m, size, page)
  <2>1. page \in SlabsOf(m, size) /\ Took(m, r, size, page, U, B)
    BY <1>1, <1>2, TakeOpen
  <2> HIDE DEF r, page
  <2>2. Gave(m, r, size, U, B) /\ Calm(m, r.mem, B)
    BY <1>1, <2>1, TookGave
  <2>3. KmallocInPage(m, size) = r
    BY <1>2 DEF KmallocInPage, r, page
  <2> QED  BY <2>2, <2>3
<1>3. CASE m.total_free[size] = 0
  <2> DEFINE alloc == alloc_pages(m, 1)
             page == alloc.page
             n == page_init(alloc.mem, page)
             r == TakeFromNew(n, size, page, InPlace, InPlace)
             slab == NewSlab(CreatedCount[size], 0, InPlace, InPlace)
  <2>1. Unused(m, size) = {}
    BY <1>1, <1>3, TakeOpen
  <2>2. \/ page = Null /\ alloc.mem = m /\ (Len(zones) = 1 => ZonePages(zones[1]) \subseteq m.bits_map)
        \/ /\ page # Null /\ page \in Pages /\ page \notin B
           /\ Good(n, U, B \cup {page}) /\ n.reference_count[page] = 1
           /\ SameSlabs(m, n) /\ Calm(m, n, B)
    BY NewPage
  <2>3. KmallocInPage(m, size) = IF page = Null THEN [mem |-> alloc.mem, object |-> NoObject] ELSE r
    BY <1>3 DEF KmallocInPage, GrowInPage, NoMemory
  <2>4. CASE page = Null
    <3> DEFINE f == [mem |-> m, object |-> NoObject]
    <3>1. KmallocInPage(m, size) = f /\ f.mem = m /\ f.object = NoObject
      BY <2>2, <2>3, <2>4
    <3>2. Full(m, f, size)
      BY <2>1, <2>2, <2>4 DEF Full
    <3> HIDE DEF f
    <3>3. Gave(m, f, size, U, B)
      BY <3>1, <3>2 DEF Gave
    <3>4. Calm(m, m, B)
      BY DEF Calm, Kept, Grown
    <3> QED  BY <3>1, <3>3, <3>4
  <2>5. CASE page # Null
    <3>1. /\ page \notin B /\ Good(n, U, B \cup {page}) /\ n.reference_count[page] = 1 /\ Calm(m, n, B)
      BY <2>2, <2>5
    <3>2. PartsOf(slab) = {} /\ PartsReady(n, size, slab, U) /\ InPlace \in ObjectType
      BY DEF PartsOf, PartsReady, NewSlab, InPlace, ObjectType, Null
    <3> HIDE DEF n, alloc, r
    <3>3. /\ r.object # NoObject /\ r.object \notin U /\ r.object.page \in SlabsOf(r.mem, size)
          /\ Good(r.mem, (U \ PartsOf(slab)) \cup {r.object}, B) /\ Calm(n, r.mem, B)
      BY <1>1, <3>1, <3>2, TakeFromNewGood DEF r
    <3>4. Good(r.mem, U \cup {r.object}, B)
      <4>1. (U \ PartsOf(slab)) \cup {r.object} = U \cup {r.object}
        BY <3>2
      <4> QED  BY <3>3, <4>1
    <3>5. Calm(m, r.mem, B)
      BY <3>1, <3>3, CalmThrough
    <3> QED  BY <2>3, <2>5, <3>3, <3>4, <3>5 DEF Gave
  <2> QED  BY <2>4, <2>5
<1> QED  BY <1>2, <1>3

\* An object somebody has is in one slab, of one size: the one kfree finds.
LEMMA OwnerFacts ==
    ASSUME NEW m, NEW U, NEW B, Good(m, U, B), NEW x \in U
    PROVE  /\ OwnerOf(m, x) \in Sizes /\ x \in InUse(m, OwnerOf(m, x))
           /\ x.page \in SlabsOf(m, OwnerOf(m, x))
           /\ \A size \in Sizes : x.page \in SlabsOf(m, size) => OwnerOf(m, x) = size
           /\ x \in ObjectType /\ x # InPlace /\ x # NoObject /\ x.page \in Pages
<1>1. PICK size \in Sizes : x \in InUse(m, size)
  BY GoodFacts DEF Used
<1>2. PICK page \in SlabsOf(m, size) : \E i \in m.slab[page].color_map : x = Cell(page, i)
  BY <1>1, UsedCell
<1>3. PICK i \in m.slab[page].color_map : x = Cell(page, i)
  BY <1>2
<1>4. x.page = page
  BY <1>3 DEF Cell
<1>5. \A other \in Sizes : x.page \in SlabsOf(m, other) => other = size
  BY <1>4, GoodFacts, NamesFacts DEF Listed
<1>6. OwnerOf(m, x) = size
  <2>1. OwnerOf(m, x) = CHOOSE s \in Sizes : x.page \in SlabsOf(m, s)
    BY DEF OwnerOf, SlabsOf
  <2> QED  BY <1>4, <1>5, <2>1
<1>7. page \in Pages /\ i \in Nat
  <2>1. machine \in Machines /\ m \in MemType /\ page \in Pages
    BY GoodFacts, NamesFacts
  <2> QED  BY <2>1, MemFacts
<1>8. page # Null /\ page \in Int
  BY <1>7, GoodFacts, ZoneFacts DEF Null
<1>9. x \in ObjectType /\ x # InPlace /\ x # NoObject
  BY <1>3, <1>7, <1>8 DEF Cell, ObjectType, InPlace, NoObject
<1> QED  BY <1>1, <1>4, <1>5, <1>6, <1>7, <1>9

\* A slab that goes has no object in use: its using_count says so, of a cache but for
\* the pool, whose using_count never is 0.
LEMMA SpareFacts ==
    ASSUME NEW m, NEW U, NEW B, Good(m, U, B), NEW o \in Owners, NEW page \in SlabsOf(m, o),
           m.slab[page].using_count = 0
    PROVE  /\ o \in Sizes => m.slab[page].color_map = {}
           /\ PoolCounts(m, o) => m.slab[page].color_map = {} /\ page # Head(m.list[o])
<1>1. IsFiniteSet(m.slab[page].color_map) /\ Cardinality(m.slab[page].color_map) \in Nat
  <2>1. MapRight(m.slab[page], o) /\ machine \in Machines /\ m \in MemType /\ page \in Pages
    BY GoodFacts DEF MapsRight
  <2>2. /\ m.slab[page].color_map \subseteq 0 .. m.slab[page].color_count - 1
        /\ 0 \in Int /\ m.slab[page].color_count - 1 \in Int
    BY <2>1, MemFacts DEF MapRight
  <2> QED  BY <2>2, FS_Interval, FS_Subset, FS_CardinalityType
<1>2. ASSUME o \in Sizes PROVE m.slab[page].color_map = {}
  <2>1. MapRight(m.slab[page], o)
    BY GoodFacts DEF MapsRight
  <2>2. Cardinality(m.slab[page].color_map) = 0
    BY <1>2, <2>1 DEF MapRight
  <2> QED  BY <1>1, <2>2, FS_EmptySet
<1>3. ASSUME PoolCounts(m, o) PROVE m.slab[page].color_map = {} /\ page # Head(m.list[o])
  <2> DEFINE k == IF page = Head(m.list[o]) THEN Count[o] ELSE 0
  <2>1. 0 = Cardinality(m.slab[page].color_map) + k
    BY <1>3 DEF PoolCounts
  <2>2. k \in Nat /\ (k = 0 => page # Head(m.list[o]))
    BY NamesFacts
  <2> HIDE DEF k
  <2>3. \A a, b \in Nat : 0 = a + b => a = 0 /\ b = 0
    OBVIOUS
  <2>4. Cardinality(m.slab[page].color_map) = 0 /\ k = 0
    BY <1>1, <2>1, <2>2, <2>3
  <2> QED  BY <1>1, <2>2, <2>4, FS_EmptySet
<1> QED  BY <1>2, <1>3

\* kfree of an object: it has no owner any more.
Freed(m, n, x, U, B) == Good(n, U \ {x}, B) /\ Kept(m, n, Caches, B) /\ Shrunk(m, n)

\* kfree for a size in InPage.
LEMMA KfreeInPageGood ==
    ASSUME NEW m, NEW U, NEW B, Good(m, U, B), NEW x \in U, OwnerOf(m, x) \in InPage
    PROVE  Freed(m, KfreeInPage(m, x), x, U, B)
<1> DEFINE o == OwnerOf(m, x)
           page == x.page
           k == PutBack(m, o, x)
           n == Unlisted(k, o, page)
           l == ReturnPage(n, page)
           V == U \ {x}
<1>1. o \in InPage /\ o \in Sizes /\ o \in Owners /\ o \notin Caches /\ x \in InUse(m, o)
      /\ Caches \in SUBSET Caches
  BY OwnerFacts, NamesFacts
<1>2. KfreeInPage(m, x) = IF Goes(k, o, page) THEN l ELSE k
  BY DEF KfreeInPage, SettleInPage
<1> HIDE DEF o
<1>3. Put(m, k, o, x, U, B)
  BY <1>1, PutBackGood
<1> HIDE DEF k
<1>4. /\ Good(k, V, B) /\ k.list = m.list /\ Kept(m, k, Caches, B) /\ Shrunk(m, k)
      /\ page \in SlabsOf(k, o)
  BY <1>1, <1>3 DEF Put, SlabsOf
<1> HIDE DEF V
<1>5. CASE ~Goes(k, o, page)
  BY <1>2, <1>4, <1>5 DEF Freed, V
<1>6. CASE Goes(k, o, page)
  <2>1. k.slab[page].using_count = 0 /\ page # Head(k.list[o])
    BY <1>6 DEF Goes, Spare
  <2>2. k.slab[page].color_map = {}
    BY <1>1, <1>4, <2>1, SpareFacts
  <2>3. PartsOf(k.slab[page]) = {}
    <3>1. Shape(k, o, page)
      BY <1>1, <1>4, GoodFacts DEF Shapes
    <3> QED  BY <1>1, <3>1 DEF Shape, PartsOf
  <2>4. /\ Good(n, V \cup PartsOf(k.slab[page]), B \cup {page})
        /\ n.reference_count[page] = 1 /\ page \in Pages /\ page \notin B
        /\ Kept(k, n, Caches, B) /\ Shrunk(k, n)
    <3>1. Good(k, V, B) /\ page \in SlabsOf(k, o) /\ (o \in Sizes => page # Head(k.list[o]))
          /\ o \in Owners
      BY <1>1, <1>4, <2>1
    <3> HIDE DEF page
    <3>2. /\ Good(n, V \cup PartsOf(k.slab[page]), B \cup {page})
          /\ n.reference_count[page] = 1 /\ page \in Pages /\ page \notin B
          /\ (\A C \in SUBSET Caches : o \notin C => Kept(k, n, C, B))
          /\ Shrunk(k, n)
      BY <2>2, <3>1, RemovedGood
    <3> QED  BY <1>1, <3>2
  <2> HIDE DEF n
  <2>5. Good(n, V, B \cup {page})
    <3>1. V \cup PartsOf(k.slab[page]) = V
      BY <2>3
    <3> QED  BY <2>4, <3>1
  <2>6. /\ Good(l, V, (B \cup {page}) \ {page}) /\ SameSlabs(n, l)
        /\ \A p \in Pages : p # page => l.reference_count[p] = n.reference_count[p]
    <3>1. page \in B \cup {page}
      OBVIOUS
    <3> QED  BY <2>4, <2>5, <3>1, ReturnGood
  <2> HIDE DEF l
  <2>7. (B \cup {page}) \ {page} = B
    BY <2>4
  <2>8. \A p \in B : l.reference_count[p] = n.reference_count[p]
    <3>1. B \subseteq Pages
      BY <1>4, GoodFacts
    <3> QED  BY <2>4, <2>6, <3>1
  <2>9. Kept(n, l, Caches, B) /\ Shrunk(n, l)
    BY <2>6, <2>8, SameSlabsKept
  <2>10. Kept(m, l, Caches, B)
    <3>1. Kept(m, n, Caches, B)
      BY <1>4, <2>4, KeptThrough
    <3> QED  BY <2>9, <3>1, KeptThrough
  <2>11. Shrunk(m, l)
    BY <1>4, <2>4, <2>9 DEF Shrunk
  <2> QED  BY <1>2, <1>6, <2>6, <2>7, <2>10, <2>11 DEF Freed, V
<1> QED  BY <1>5, <1>6

-----------------------------------------------------------------------------
(* kmalloc and kfree.                                                      *)

\* kmalloc_create uses a NULL descriptor or bit map: nobody is told what was taken.
LEMMA FaultGood ==
    ASSUME NEW m, NEW U, NEW B, Good(m, U, B)
    PROVE  LET n == [m EXCEPT !.fault = TRUE]
           IN  /\ Good(n, U, B) /\ n.fault /\ n.bits_map = m.bits_map
               /\ \A A : Calm(m, n, A)
<1> DEFINE n == [m EXCEPT !.fault = TRUE]
<1>1. m \in MemType
  BY GoodFacts
<1>2. /\ n \in MemType /\ n.fault /\ SamePages(m, n) /\ SameSlabs(m, n)
  BY <1>1 DEF MemType, SamePages, SameSlabs
<1> HIDE DEF n
<1>3. n.bits_map = m.bits_map /\ n.reference_count = m.reference_count
  BY <1>2 DEF SamePages
<1>4. PagesOnly(m, n, Slabs(m), B)
  BY <1>2, GoodFacts, PagesStayRight DEF PagesOnly
<1>5. Good(n, U, B)
  BY <1>4, PagesOnlyGood
<1>6. \A A : Calm(m, n, A)
  BY <1>2, <1>3, SameSlabsKept DEF Calm
<1> QED  BY <1>2, <1>3, <1>5, <1>6 DEF n

\* kmalloc of an object, or a fault.
Allocated(m, r, size, U, B) ==
    /\ Calm(m, r.mem, B)
    /\ \/ Gave(m, r, size, U, B)
       \/ /\ r.object = NoObject /\ r.mem.fault /\ Full(m, r, size)
          /\ \E V, W : Good(r.mem, V, W)

\* kmalloc_create and the object taken from its slab, or the fault.
Grew(m, r, size, U, B) ==
    /\ Calm(m, r.mem, B)
    /\ \/ /\ r.object # NoObject /\ r.object \notin U
          /\ r.object.page \in SlabsOf(r.mem, size) /\ Good(r.mem, U \cup {r.object}, B)
       \/ /\ r.object = NoObject /\ r.mem.fault /\ \E V, W : Good(r.mem, V, W)
          /\ Len(zones) = 1 => ZonePages(zones[1]) \subseteq r.mem.bits_map

\* A slab with its descriptor and its map elsewhere.
LEMMA GrowGood ==
    ASSUME NEW m, NEW U, NEW B, NEW page, page \notin B, Good(m, U, B \cup {page}),
           m.reference_count[page] = 1, NEW size \in Sizes \ InPage
    PROVE  Grew(m, GrowWithDescriptor(page, KmallocInPage(m, DescSize), size), size, U, B)
<1> DEFINE A == B \cup {page}
           d == KmallocInPage(m, DescSize)
           map == KmallocInPage(d.mem, MapSize[size])
           r == GrowWithDescriptor(page, d, size)
           U1 == U \cup Got(d.object)
           U2 == U1 \cup Got(map.object)
<1> SUFFICES Grew(m, r, size, U, B)
  OBVIOUS
<1>1. DescSize \in InPage /\ MapSize[size] \in InPage /\ size \in Owners /\ DescSize \in Owners
      /\ MapSize[size] \in Owners
  BY NamesFacts
<1>2. Gave(m, d, DescSize, U, A) /\ Calm(m, d.mem, A)
  BY <1>1, KmallocInPageGood
<1> HIDE DEF d
<1>3. Good(d.mem, U1, A)
  BY <1>2 DEF Gave, Got
<1> HIDE DEF U1
<1>4. Gave(d.mem, map, MapSize[size], U1, A) /\ Calm(d.mem, map.mem, A)
  BY <1>1, <1>3, KmallocInPageGood
<1> HIDE DEF map
<1>5. Good(map.mem, U2, A)
  BY <1>4 DEF Gave, Got
<1>6. Calm(m, map.mem, A)
  BY <1>2, <1>4, CalmThrough
<1>7. CASE NoObject \in {d.object, map.object}
  <2> DEFINE n == [map.mem EXCEPT !.fault = TRUE]
  <2>1. r.mem = n /\ r.object = NoObject
    BY <1>7 DEF GrowWithDescriptor, GrowWithBoth, NoMemory, map
  <2>2. Good(n, U2, A) /\ n.fault /\ n.bits_map = map.mem.bits_map /\ Calm(map.mem, n, B)
    BY <1>5, FaultGood
  <2> HIDE DEF n, r
  <2>3. ASSUME Len(zones) = 1 PROVE ZonePages(zones[1]) \subseteq r.mem.bits_map
    <3>1. CASE d.object = NoObject
      <4>1. ZonePages(zones[1]) \subseteq d.mem.bits_map
        BY <1>2, <2>3, <3>1 DEF Gave, Full
      <4>2. d.mem.bits_map \subseteq map.mem.bits_map
        BY <1>4 DEF Calm, Grown
      <4> QED  BY <2>1, <2>2, <4>1, <4>2
    <3>2. CASE map.object = NoObject
      <4>1. ZonePages(zones[1]) \subseteq map.mem.bits_map
        BY <1>4, <2>3, <3>2 DEF Gave, Full
      <4> QED  BY <2>1, <2>2, <4>1
    <3> QED  BY <1>7, <3>1, <3>2
  <2>4. Calm(m, n, B)
    <3>1. Calm(m, map.mem, B)
      BY <1>6 DEF Calm, Kept
    <3> QED  BY <2>2, <3>1, CalmThrough
  <2> QED  BY <2>1, <2>2, <2>3, <2>4 DEF Grew
<1>8. CASE NoObject \notin {d.object, map.object}
  <2> DEFINE slab == NewSlab(CreatedCount[size], 0, d.object, map.object)
  <2>1. /\ d.object \notin U /\ d.object.page \in SlabsOf(d.mem, DescSize) /\ U1 = U \cup {d.object}
    BY <1>2, <1>8 DEF Gave, U1, Got
  <2>2. /\ map.object \notin U1 /\ map.object.page \in SlabsOf(map.mem, MapSize[size])
        /\ U2 = U1 \cup {map.object}
    BY <1>4, <1>8 DEF Gave, Got
  <2> HIDE DEF U2
  <2>3. /\ d.object \in ObjectType /\ map.object \in ObjectType /\ d.object # InPlace
    BY <1>5, <2>1, <2>2, OwnerFacts
  <2>4. d.object.page \in SlabsOf(map.mem, DescSize)
    BY <1>1, <1>4, <2>1 DEF Calm, Grown
  <2>5. PartsOf(slab) = {d.object, map.object} /\ PartsReady(map.mem, size, slab, U2)
    BY <2>1, <2>2, <2>3, <2>4 DEF PartsOf, PartsReady, NewSlab
  <2>6. map.mem.reference_count[page] = 1
    BY <1>6 DEF Calm, Kept
  <2> DEFINE t == TakeFromNew(map.mem, size, page, d.object, map.object)
  <2>7. r = t
    BY <1>8 DEF GrowWithDescriptor, GrowWithBoth, map
  <2> HIDE DEF r
  <2>8. /\ t.object # NoObject /\ t.object \notin U2 /\ t.object.page \in SlabsOf(t.mem, size)
        /\ Good(t.mem, (U2 \ PartsOf(slab)) \cup {t.object}, B) /\ Calm(map.mem, t.mem, B)
    BY <1>5, <2>3, <2>5, <2>6, TakeFromNewGood
  <2> HIDE DEF t, slab
  <2>9. U2 \ PartsOf(slab) = U
    BY <2>1, <2>2, <2>5
  <2>10. Good(t.mem, U \cup {t.object}, B) /\ t.object \notin U
    BY <2>1, <2>2, <2>8, <2>9
  <2>11. Calm(m, t.mem, B)
    <3>1. Calm(m, map.mem, B)
      BY <1>6 DEF Calm, Kept
    <3> QED  BY <2>8, <3>1, CalmThrough
  <2> QED  BY <2>7, <2>8, <2>10, <2>11 DEF Grew
<1> QED  BY <1>7, <1>8

\* kmalloc gives an object that had no owner, finds everything full, or faults.
LEMMA KmallocGood ==
    ASSUME NEW m, NEW U, NEW B, Good(m, U, B), NEW size \in Sizes
    PROVE  Allocated(m, kmalloc(m, size), size, U, B)
<1>1. size \in Owners
  BY NamesFacts
<1>2. CASE size \in InPage
  <2>1. kmalloc(m, size) = KmallocInPage(m, size)
    BY <1>2 DEF kmalloc
  <2> QED  BY <1>2, <2>1, KmallocInPageGood DEF Allocated
<1>3. CASE size \notin InPage /\ m.total_free[size] # 0
  <2> DEFINE page == OpenSlab(m, size)
             r == Take(m, size, page)
  <2>1. page \in SlabsOf(m, size) /\ Took(m, r, size, page, U, B)
    BY <1>1, <1>3, TakeOpen
  <2>2. kmalloc(m, size) = r
    BY <1>3 DEF kmalloc
  <2> HIDE DEF page, r
  <2>3. Gave(m, r, size, U, B) /\ Calm(m, r.mem, B)
    BY <2>1, TookGave
  <2> QED  BY <2>2, <2>3 DEF Allocated
<1>4. CASE size \notin InPage /\ m.total_free[size] = 0
  <2> DEFINE alloc == alloc_pages(m, 1)
             page == alloc.page
             n == page_init(alloc.mem, page)
             r == GrowWithDescriptor(page, KmallocInPage(n, DescSize), size)
  <2>1. Unused(m, size) = {}
    BY <1>1, <1>4, TakeOpen
  <2>2. \/ /\ page = Null /\ alloc.mem = m
           /\ Len(zones) = 1 => ZonePages(zones[1]) \subseteq m.bits_map
        \/ /\ page # Null /\ page \in Pages /\ page \notin B
           /\ Good(n, U, B \cup {page}) /\ n.reference_count[page] = 1
           /\ SameSlabs(m, n) /\ Calm(m, n, B)
    BY NewPage
  <2>3. kmalloc(m, size) = IF page = Null THEN NoMemory(alloc.mem) ELSE r
    BY <1>4 DEF kmalloc, Grow
  <2>4. CASE page = Null
    <3> DEFINE q == NoMemory(alloc.mem)
    <3>1. q.mem = m /\ q.object = NoObject
      BY <2>2, <2>4 DEF NoMemory
    <3>2. kmalloc(m, size) = q
      BY <2>3, <2>4
    <3> HIDE DEF q
    <3>3. Gave(m, q, size, U, B)
      BY <2>1, <2>2, <2>4, <3>1 DEF Gave, Full
    <3>4. Calm(m, m, B)
      BY DEF Calm, Kept, Grown
    <3> QED  BY <3>1, <3>2, <3>3, <3>4 DEF Allocated
  <2>5. CASE page # Null
    <3> HIDE DEF n, page
    <3>1. Grew(n, r, size, U, B)
      BY <1>4, <2>2, <2>5, GrowGood
    <3> HIDE DEF r
    <3>2. Calm(m, r.mem, B)
      <4>1. Calm(m, n, B) /\ Calm(n, r.mem, B)
        BY <2>2, <2>5, <3>1 DEF Grew
      <4> QED  BY <4>1, CalmThrough
    <3>3. kmalloc(m, size) = r
      BY <2>3, <2>5
    <3> QED  BY <2>1, <3>1, <3>2, <3>3 DEF Grew, Allocated, Gave, Full
  <2> QED  BY <2>4, <2>5
<1> QED  BY <1>2, <1>3, <1>4

\* Where an object was, its owner is while slabs only go.
LEMMA OwnerStays ==
    ASSUME NEW m, NEW V, NEW A, Good(m, V, A), NEW n, NEW U, NEW B, Good(n, U, B), Shrunk(m, n),
           NEW x \in U, NEW size \in Sizes, x.page \in SlabsOf(m, size)
    PROVE  OwnerOf(n, x) = size
<1>1. OwnerOf(n, x) \in Sizes /\ x.page \in SlabsOf(n, OwnerOf(n, x))
  BY OwnerFacts
<1>2. x.page \in SlabsOf(m, OwnerOf(n, x)) /\ OwnerOf(n, x) \in Owners /\ size \in Owners
  BY <1>1, NamesFacts DEF Shrunk
<1> QED  BY <1>2, GoodFacts DEF Listed

\* An empty slab that is to go with its descriptor d and its map.
Dropping(m, o, page, d, map, U, B) ==
    /\ Good(m, U, B) /\ o \in Owners /\ page \in SlabsOf(m, o) /\ m.slab[page].color_map = {}
    /\ o \in Sizes => page # Head(m.list[o])
    /\ m.slab[page].descriptor = d /\ m.slab[page].map = map /\ d # InPlace

\* The slab has left its list.
Left(m, n, o, page, d, map, U, B) ==
    /\ Removed(m, n, o, page) /\ (\A y \in Owners : InUse(n, y) = InUse(m, y))
    /\ Good(n, (U \cup {d}) \cup {map}, B \cup {page})
    /\ n.reference_count[page] = 1 /\ page \in Pages /\ page \notin B
    /\ d \notin U /\ map \notin U \cup {d}
    /\ OwnerOf(n, map) = MapSize[o] /\ d.page \in SlabsOf(m, DescSize)
    /\ Kept(m, n, Caches \ {o}, B) /\ Shrunk(m, n)

\* A slab none of whose objects is in use leaves its list: what was its descriptor, map and
\* page are theirs who drop it.
LEMMA LeaveGood ==
    ASSUME NEW m, NEW o, NEW page, NEW d, NEW map, NEW U, NEW B, Dropping(m, o, page, d, map, U, B)
    PROVE  Left(m, Unlisted(m, o, page), o, page, d, map, U, B)
<1> DEFINE n == Unlisted(m, o, page)
           P == PartsOf(m.slab[page])
<1>1. /\ Good(m, U, B) /\ o \in Owners /\ page \in SlabsOf(m, o) /\ m.slab[page].color_map = {}
      /\ o \in Sizes => page # Head(m.list[o])
  BY DEF Dropping
<1>2. /\ Removed(m, n, o, page) /\ (\A y \in Owners : InUse(n, y) = InUse(m, y))
      /\ Good(n, U \cup P, B \cup {page})
      /\ n.reference_count[page] = 1 /\ page \in Pages /\ page \notin B
      /\ (\A C \in SUBSET Caches : o \notin C => Kept(m, n, C, B))
      /\ Shrunk(m, n)
  BY <1>1, RemovedGood, SMTT(30)
<1> HIDE DEF n
<1>3. P = {d, map} /\ U \cup P = (U \cup {d}) \cup {map}
  BY DEF Dropping, PartsOf
<1>4. Shape(m, o, page) /\ U \cap PartsIn(m) = {} /\ page \in Slabs(m)
      /\ \A p, q \in Outside(m), j, k \in {1, 2} : Part(m, p, j) = Part(m, q, k) => p = q /\ j = k
  BY <1>1, GoodFacts DEF Shapes, Owned
<1>5. page \in Outside(m) /\ d = Part(m, page, 1) /\ map = Part(m, page, 2)
  BY <1>4 DEF Dropping, Outside, Part
<1>6. d \in PartsIn(m) /\ map \in PartsIn(m) /\ d # map
  BY <1>4, <1>5 DEF PartsIn
<1>7. d \notin U /\ map \notin U \cup {d}
  BY <1>4, <1>6
<1>8. d.page \in SlabsOf(m, DescSize) /\ map.page \in SlabsOf(m, MapSize[o]) /\ MapSize[o] \in Sizes
  BY <1>1, <1>4, NamesFacts DEF Dropping, Shape
<1>9. OwnerOf(n, map) = MapSize[o]
  <2>1. map \in U \cup P
    BY <1>3
  <2> QED  BY <1>1, <1>2, <1>8, <2>1, OwnerStays
<1>10. Kept(m, n, Caches \ {o}, B)
  BY <1>2
<1> HIDE DEF P
<1> QED  BY <1>2, <1>3, <1>7, <1>8, <1>9, <1>10 DEF Left, n

\* Then its map goes and its page.
LEMMA LeaveWithPage ==
    ASSUME NEW m, NEW o, NEW page, NEW d, NEW map, NEW U, NEW B, Dropping(m, o, page, d, map, U, B),
           NEW n, Left(m, n, o, page, d, map, U, B),
           NEW k, Freed(n, k, map, (U \cup {d}) \cup {map}, B \cup {page})
    PROVE  LET l == ReturnPage(k, page)
           IN  /\ Good(l, U \cup {d}, B) /\ OwnerOf(l, d) = DescSize
               /\ Kept(n, l, Caches, B) /\ Shrunk(n, l)
<1> DEFINE l == ReturnPage(k, page)
           W == U \cup {d}
           A == B \cup {page}
<1>1. Good(n, W \cup {map}, A) /\ page \in Pages /\ page \notin B /\ map \notin W /\ Shrunk(m, n)
      /\ n.reference_count[page] = 1
  BY DEF Left
<1>2. Good(k, (W \cup {map}) \ {map}, A) /\ Kept(n, k, Caches, A) /\ Shrunk(n, k)
  BY DEF Freed
<1>3. Good(k, W, A)
  <2>1. (W \cup {map}) \ {map} = W
    BY <1>1
  <2> QED  BY <1>2, <2>1
<1>4. k.reference_count[page] = 1 /\ Kept(n, k, Caches, B)
  BY <1>1, <1>2 DEF Kept
<1>6. /\ Good(l, W, A \ {page}) /\ SameSlabs(k, l)
      /\ \A p \in Pages : p # page => l.reference_count[p] = k.reference_count[p]
  BY <1>3, <1>4, ReturnGood
<1> HIDE DEF l
<1>7. A \ {page} = B
  BY <1>1
<1>8. \A p \in B : l.reference_count[p] = k.reference_count[p]
  <2>1. B \subseteq Pages
    BY <1>3, GoodFacts
  <2> QED  BY <1>1, <1>6, <2>1
<1>9. Kept(k, l, Caches, B) /\ Shrunk(k, l)
  BY <1>6, <1>8, SameSlabsKept
<1>10. Kept(n, l, Caches, B) /\ Shrunk(n, l) /\ Shrunk(m, l)
  <2>1. Kept(n, l, Caches, B)
    BY <1>4, <1>9, KeptThrough
  <2>2. Shrunk(n, l)
    BY <1>2, <1>9 DEF Shrunk
  <2>3. Shrunk(m, l)
    BY <1>1, <2>2 DEF Shrunk
  <2> QED  BY <2>1, <2>2, <2>3
<1>11. Good(l, W, B)
  BY <1>6, <1>7
<1>12. OwnerOf(l, d) = DescSize
  <2>1. Good(m, U, B) /\ d.page \in SlabsOf(m, DescSize) /\ DescSize \in Sizes /\ d \in W
    BY NamesFacts DEF Dropping, Left
  <2> HIDE DEF W
  <2> QED  BY <1>10, <1>11, <2>1, OwnerStays
<1> QED  BY <1>10, <1>11, <1>12 DEF l

\* A slab that has gone with what belongs to it.
Gone(m, n, o, page, U, B) ==
    /\ Good(n, U, B) /\ Kept(m, n, Caches \ {o}, B) /\ Shrunk(m, n)
    /\ Kept(Unlisted(m, o, page), n, Caches, B)
    /\ Removed(m, Unlisted(m, o, page), o, page)
    /\ \A y \in Owners : InUse(Unlisted(m, o, page), y) = InUse(m, y)

\* Last its descriptor goes.
LEMMA LeaveWithDescriptor ==
    ASSUME NEW m, NEW o, NEW page, NEW d, NEW map, NEW U, NEW B,
           Left(m, Unlisted(m, o, page), o, page, d, map, U, B),
           NEW l, Kept(Unlisted(m, o, page), l, Caches, B), Shrunk(Unlisted(m, o, page), l),
           NEW k, Freed(l, k, d, U \cup {d}, B)
    PROVE  Gone(m, k, o, page, U, B)
<1> DEFINE n == Unlisted(m, o, page)
<1> HIDE DEF n
<1>1. /\ d \notin U /\ Kept(m, n, Caches \ {o}, B) /\ Shrunk(m, n) /\ Removed(m, n, o, page)
      /\ \A y \in Owners : InUse(n, y) = InUse(m, y)
  BY DEF Left, n
<1>2. (U \cup {d}) \ {d} = U
  BY <1>1
<1>3. Good(k, U, B) /\ Kept(l, k, Caches, B) /\ Shrunk(l, k)
  BY <1>2 DEF Freed
<1>4. Kept(n, l, Caches, B) /\ Shrunk(n, l)
  BY DEF n
<1>5. Kept(n, k, Caches, B)
  BY <1>3, <1>4, KeptThrough
<1>6. Kept(m, k, Caches \ {o}, B)
  <2>1. Kept(n, k, Caches \ {o}, B)
    BY <1>5 DEF Kept
  <2> QED  BY <1>1, <2>1, KeptThrough
<1>7. Shrunk(m, k)
  BY <1>1, <1>3, <1>4 DEF Shrunk
<1> QED  BY <1>1, <1>3, <1>5, <1>6, <1>7 DEF Gone, n

\* kfree takes the object from its owner, and a slab that it empties goes.
LEMMA KfreeGood ==
    ASSUME NEW m, NEW U, NEW B, Good(m, U, B), NEW x \in U
    PROVE  Freed(m, kfree(m, x), x, U, B)
<1> DEFINE o == OwnerOf(m, x)
           page == x.page
           k == PutBack(m, o, x)
           V == U \ {x}
<1>1. o \in Sizes /\ o \in Owners /\ o \notin Caches /\ x \in InUse(m, o) /\ Caches \in SUBSET Caches
  BY OwnerFacts, NamesFacts
<1>2. CASE o \in InPage
  BY <1>2, KfreeInPageGood DEF kfree
<1>3. CASE o \notin InPage
  <2>1. kfree(m, x) = IF Goes(k, o, page) THEN DropSlab(k, o, page) ELSE k
    BY <1>3 DEF kfree, Settle
  <2> HIDE DEF o
  <2>2. Put(m, k, o, x, U, B)
    BY <1>1, PutBackGood
  <2> HIDE DEF k
  <2>3. /\ Good(k, V, B) /\ k.list = m.list /\ Kept(m, k, Caches, B) /\ Shrunk(m, k)
        /\ page \in SlabsOf(k, o)
    BY <1>1, <2>2 DEF Put, SlabsOf
  <2> HIDE DEF V, page
  <2>4. CASE ~Goes(k, o, page)
    BY <2>1, <2>3, <2>4 DEF Freed, V
  <2>5. CASE Goes(k, o, page)
    <3> DEFINE d == k.slab[page].descriptor
               map == k.slab[page].map
               n == Unlisted(k, o, page)
               a == KfreeInPage(n, map)
               l == ReturnPage(a, page)
               b == KfreeInPage(l, d)
    <3>1. k.slab[page].using_count = 0 /\ page # Head(k.list[o])
      BY <2>5 DEF Goes, Spare
    <3>2. k.slab[page].color_map = {}
      BY <1>1, <2>3, <3>1, SpareFacts
    <3>3. d # InPlace
      <4>1. Shape(k, o, page)
        BY <1>1, <2>3, GoodFacts DEF Shapes
      <4> QED  BY <1>3, <3>1, <4>1 DEF Shape
    <3>4. Dropping(k, o, page, d, map, V, B)
      BY <1>1, <2>3, <3>1, <3>2, <3>3 DEF Dropping
    <3>5. kfree(m, x) = b
      BY <2>1, <2>5 DEF DropSlab
    <3> HIDE DEF d, map
    <3>6. Left(k, n, o, page, d, map, V, B)
      BY <3>4, LeaveGood
    <3> HIDE DEF n
    <3>7. /\ Good(n, (V \cup {d}) \cup {map}, B \cup {page}) /\ OwnerOf(n, map) \in InPage
      BY <1>1, <3>6, NamesFacts DEF Left
    <3>8. Freed(n, a, map, (V \cup {d}) \cup {map}, B \cup {page})
      <4>1. map \in (V \cup {d}) \cup {map}
        OBVIOUS
      <4> QED  BY <3>7, <4>1, KfreeInPageGood
    <3> HIDE DEF a
    <3>9. /\ Good(l, V \cup {d}, B) /\ OwnerOf(l, d) = DescSize
          /\ Kept(n, l, Caches, B) /\ Shrunk(n, l)
      BY <3>4, <3>6, <3>8, LeaveWithPage
    <3> HIDE DEF l
    <3>10. Freed(l, b, d, V \cup {d}, B)
      <4>1. d \in V \cup {d} /\ OwnerOf(l, d) \in InPage
        BY <3>9, NamesFacts
      <4> QED  BY <3>9, <4>1, KfreeInPageGood
    <3> HIDE DEF b
    <3>11. Gone(k, b, o, page, V, B)
      BY <3>6, <3>9, <3>10, LeaveWithDescriptor DEF n
    <3>12. Good(b, V, B) /\ Kept(k, b, Caches, B) /\ Shrunk(k, b)
      <4>1. Caches \ {o} = Caches
        BY <1>1
      <4> QED  BY <3>11, <4>1 DEF Gone
    <3>13. Kept(m, b, Caches, B)
      BY <2>3, <3>12, KeptThrough
    <3>14. Shrunk(m, b)
      BY <2>3, <3>12 DEF Shrunk
    <3> QED  BY <3>5, <3>12, <3>13, <3>14 DEF Freed, V
  <2> QED  BY <2>4, <2>5
<1> QED  BY <1>2, <1>3

-----------------------------------------------------------------------------
(* The caches of slab_create.                                              *)

\* Nobody can tell who owns what after a fault, but somebody does.
Faulted(m) == m.fault /\ \E V, W : Good(m, V, W)

\* A descriptor, a page and a bit map that nobody else has, or nothing.
Provided(m, p, s, U, B) ==
    /\ p.page # Null /\ p.page \in Pages /\ p.page \notin B
    /\ Good(p.mem, (U \cup {p.descriptor}) \cup {p.map}, B \cup {p.page})
    /\ p.mem.reference_count[p.page] = 1
    /\ p.descriptor \notin U /\ p.map \notin U \cup {p.descriptor}
    /\ p.descriptor.page \in SlabsOf(p.mem, DescSize) /\ p.map.page \in SlabsOf(p.mem, MapSize[s])

Partly(m, p, s, U, B) ==
    /\ Kept(m, p.mem, Caches, B)
    /\ \/ p.page = Null /\ (Faulted(p.mem) \/ Good(p.mem, U, B))
       \/ Provided(m, p, s, U, B)

\* kfree of an object that kmalloc gave before other steps.
LEMMA KfreeAfter ==
    ASSUME NEW m, NEW B, NEW n, Kept(m, n, Caches, B), NEW U, NEW x, x \notin U, Good(n, U \cup {x}, B)
    PROVE  Kept(m, kfree(n, x), Caches, B) /\ Good(kfree(n, x), U, B)
<1> DEFINE k == kfree(n, x)
<1>1. Freed(n, k, x, U \cup {x}, B)
  <2>1. x \in U \cup {x}
    OBVIOUS
  <2> QED  BY <2>1, KfreeGood
<1> HIDE DEF k
<1>2. (U \cup {x}) \ {x} = U
  OBVIOUS
<1>3. Good(k, U, B) /\ Kept(n, k, Caches, B)
  BY <1>1, <1>2 DEF Freed
<1>4. Kept(m, k, Caches, B)
  BY <1>3, KeptThrough
<1> QED  BY <1>3, <1>4 DEF k

\* The bit map, with the descriptor and the page.
LEMMA PartsWithMapGood ==
    ASSUME NEW m, NEW U, NEW B, NEW s \in Owners, NEW descriptor, descriptor \notin U,
           descriptor.page \in SlabsOf(m, DescSize), NEW page \in Pages, page \notin B, page # Null,
           m.reference_count[page] = 1, Good(m, U \cup {descriptor}, B \cup {page})
    PROVE  Partly(m, PartsWithMap(descriptor, page, kmalloc(m, MapSize[s])), s, U, B)
<1> DEFINE map == kmalloc(m, MapSize[s])
           p == PartsWithMap(descriptor, page, map)
           W == U \cup {descriptor}
           A == B \cup {page}
<1>1. MapSize[s] \in Sizes /\ DescSize \in Owners
  BY NamesFacts
<1>2. Allocated(m, map, MapSize[s], W, A)
  BY <1>1, KmallocGood
<1> HIDE DEF map, W
<1>3. Calm(m, map.mem, A)
  BY <1>2 DEF Allocated
<1>4. Kept(m, map.mem, Caches, B) /\ map.mem.reference_count[page] = 1
  BY <1>3 DEF Calm, Kept
<1>5. CASE map.mem.fault
  <2>1. p.mem = map.mem /\ p.page = Null
    BY <1>5 DEF PartsWithMap, NoParts
  <2>2. Faulted(map.mem)
    BY <1>2, <1>5 DEF Faulted, Allocated, Gave
  <2> QED  BY <1>4, <2>1, <2>2 DEF Partly, map
<1>6. CASE ~map.mem.fault
  <2>1. Gave(m, map, MapSize[s], W, A)
    BY <1>2, <1>6 DEF Allocated
  <2>2. CASE map.object = NoObject
    <3> DEFINE n == free_pages(map.mem, page, 1)
    <3>1. Good(map.mem, W, A)
      BY <2>1, <2>2 DEF Gave
    <3>2. page \in Nat /\ 1 \in Nat \ {0} /\ Block(page, 1) = {page}
      BY <3>1, GoodFacts, ZoneFacts, BlockFacts
    <3>3. Good(n, W, A \ {page}) /\ SameSlabs(map.mem, n)
          /\ n.reference_count = map.mem.reference_count
      <4>1. Block(page, 1) \subseteq A
        BY <3>2
      <4> QED  BY <3>1, <3>2, <4>1, FreeGood
    <3>4. p.mem = kfree(n, descriptor) /\ p.page = Null
      BY <1>6, <2>2 DEF PartsWithMap, NoParts
    <3> HIDE DEF n, p
    <3>5. Good(n, U \cup {descriptor}, B)
      <4>1. A \ {page} = B
        OBVIOUS
      <4> QED  BY <3>3, <4>1 DEF W
    <3>6. Kept(m, n, Caches, B)
      <4>1. Kept(map.mem, n, Caches, B)
        BY <3>3, SameSlabsKept
      <4> QED  BY <1>4, <4>1, KeptThrough
    <3>7. Kept(m, p.mem, Caches, B) /\ Good(p.mem, U, B)
      BY <3>4, <3>5, <3>6, KfreeAfter
    <3> QED  BY <3>4, <3>7 DEF Partly, p, map
  <2>3. CASE map.object # NoObject
    <3>1. /\ p.mem = map.mem /\ p.page = page /\ p.descriptor = descriptor /\ p.map = map.object
      BY <1>6, <2>3 DEF PartsWithMap
    <3>2. /\ map.object \notin W /\ map.object.page \in SlabsOf(map.mem, MapSize[s])
          /\ Good(map.mem, W \cup {map.object}, A)
      BY <2>1, <2>3 DEF Gave
    <3>3. descriptor.page \in SlabsOf(map.mem, DescSize)
      BY <1>1, <1>3 DEF Calm, Grown
    <3> HIDE DEF p
    <3>4. Provided(m, p, s, U, B)
      BY <1>4, <3>1, <3>2, <3>3 DEF Provided, W
    <3> QED  BY <1>4, <3>1, <3>4 DEF Partly, p, map
  <2> QED  BY <2>2, <2>3
<1> QED  BY <1>5, <1>6

\* All of it.
LEMMA PartsGood ==
    ASSUME NEW m, NEW U, NEW B, Good(m, U, B), NEW s \in Owners
    PROVE  Partly(m, Parts(m, s), s, U, B)
<1> DEFINE d == kmalloc(m, DescSize)
           x == d.object
           W == U \cup {x}
           alloc == alloc_pages(d.mem, 1)
           page == alloc.page
           n == page_init(alloc.mem, page)
           p == PartsWithDescriptor(d, s)
<1>1. DescSize \in Sizes /\ DescSize \in Owners
  BY NamesFacts
<1>2. Allocated(m, d, DescSize, U, B)
  BY <1>1, KmallocGood
<1> SUFFICES Partly(m, p, s, U, B)
  BY DEF Parts
<1> HIDE DEF d
<1>3. Calm(m, d.mem, B) /\ Kept(m, d.mem, Caches, B)
  BY <1>2 DEF Allocated, Calm
<1>4. CASE x = NoObject
  <2>1. p.mem = d.mem /\ p.page = Null
    BY <1>4 DEF PartsWithDescriptor, NoParts
  <2>2. Faulted(d.mem) \/ Good(d.mem, U, B)
    BY <1>2, <1>4 DEF Allocated, Gave, Faulted
  <2> HIDE DEF p
  <2> QED  BY <1>3, <2>1, <2>2 DEF Partly
<1>5. CASE x # NoObject
  <2>1. x \notin U /\ x.page \in SlabsOf(d.mem, DescSize) /\ Good(d.mem, U \cup {x}, B)
    BY <1>2, <1>5 DEF Allocated, Gave
  <2>2. p = PartsWithPage(x, alloc, s)
    BY <1>5 DEF PartsWithDescriptor
  <2> HIDE DEF p
  <2>3. \/ page = Null /\ alloc.mem = d.mem
        \/ /\ page # Null /\ page \in Pages /\ page \notin B
           /\ Good(n, U \cup {x}, B \cup {page}) /\ n.reference_count[page] = 1
           /\ SameSlabs(d.mem, n) /\ Calm(d.mem, n, B)
    BY <2>1, NewPage
  <2>4. CASE page = Null
    <3>1. p.page = Null /\ p.mem = kfree(d.mem, x)
      BY <2>2, <2>3, <2>4 DEF PartsWithPage, NoParts
    <3>2. Kept(m, p.mem, Caches, B) /\ Good(p.mem, U, B)
      BY <1>3, <2>1, <3>1, KfreeAfter
    <3> QED  BY <3>1, <3>2 DEF Partly
  <2>5. CASE page # Null
    <3>1. p = PartsWithMap(x, page, kmalloc(n, MapSize[s]))
      BY <2>2, <2>5 DEF PartsWithPage
    <3> HIDE DEF n, page
    <3>2. x.page \in SlabsOf(n, DescSize)
      BY <1>1, <2>1, <2>3, <2>5 DEF Calm, Grown
    <3> HIDE DEF x
    <3>3. Partly(n, p, s, U, B)
      BY <2>1, <2>3, <2>5, <3>1, <3>2, PartsWithMapGood
    <3>4. Kept(m, n, Caches, B)
      <4>1. Calm(d.mem, n, B)
        BY <2>3, <2>5
      <4>2. Kept(d.mem, n, Caches, B)
        BY <4>1 DEF Calm
      <4> QED  BY <1>3, <4>2, KeptThrough
    <3>5. Kept(m, p.mem, Caches, B)
      <4>1. Kept(n, p.mem, Caches, B)
        BY <3>3 DEF Partly
      <4> QED  BY <3>4, <4>1, KeptThrough
    <3>6. Provided(n, p, s, U, B) => Provided(m, p, s, U, B)
      BY DEF Provided
    <3> QED  BY <3>3, <3>5, <3>6 DEF Partly
  <2> QED  BY <2>4, <2>5
<1> QED  BY <1>4, <1>5

\* A call changes what kmalloc has and the cache s, no other.
CacheKept(m, n, s, B) == Kept(m, n, Caches \ {s}, B)

\* What a call of kmalloc or kfree leaves of a cache.
LEMMA KeptFacts ==
    ASSUME NEW m, NEW n, NEW B, Kept(m, n, Caches, B), NEW s \in Caches
    PROVE  /\ CacheKept(m, n, s, B) /\ n.list[s] = m.list[s] /\ InUse(n, s) = InUse(m, s)
           /\ PoolCounts(m, s) => PoolCounts(n, s)
<1>1. n.list[s] = m.list[s] /\ SlabsOf(n, s) = SlabsOf(m, s) /\ \A p \in SlabsOf(m, s) : n.slab[p] = m.slab[p]
  BY DEF Kept, SlabsOf
<1>2. CacheKept(m, n, s, B)
  BY DEF Kept, CacheKept
<1>3. InUse(n, s) = InUse(m, s)
  BY <1>1, CellFacts, SetExtensionality DEF InUse
<1> QED  BY <1>1, <1>2, <1>3 DEF PoolCounts

\* slab_create.
Created(m, r, s, U, B) ==
    /\ CacheKept(m, r.mem, s, B)
    /\ \/ /\ r.object = NoObject /\ r.mem.list[s] = m.list[s] /\ InUse(r.mem, s) = InUse(m, s)
          /\ Faulted(r.mem) \/ Good(r.mem, U, B)
       \/ /\ r.object # NoObject /\ r.object \notin U /\ Good(r.mem, U \cup {r.object}, B)
          /\ r.mem.list[s] # <<>> /\ PoolCounts(r.mem, s) /\ InUse(r.mem, s) = {}

\* The parts of a slab are ready for it.
Ready(p, s, slab, U, W) ==
    /\ Fresh(slab, s) /\ slab \in SlabType /\ PartsReady(p.mem, s, slab, W)
    /\ W \ PartsOf(slab) = U

\* What Parts got makes a slab.
LEMMA PartsAreReady ==
    ASSUME NEW m, NEW p, NEW s \in Caches, NEW U, NEW B, Provided(m, p, s, U, B),
           NEW count \in Int
    PROVE  Ready(p, s, NewSlab(Count[s], count, p.descriptor, p.map),
                 U, (U \cup {p.descriptor}) \cup {p.map})
<1> DEFINE slab == NewSlab(Count[s], count, p.descriptor, p.map)
           d == p.descriptor
           map == p.map
           W == (U \cup {d}) \cup {map}
<1>1. /\ Good(p.mem, W, B \cup {p.page}) /\ d \notin U /\ map \notin U \cup {d} /\ d \in W /\ map \in W
      /\ d.page \in SlabsOf(p.mem, DescSize) /\ map.page \in SlabsOf(p.mem, MapSize[s])
  BY DEF Provided
<1>2. s \in Owners /\ s \notin Sizes /\ Count[s] \in Nat /\ s \notin InPage
  BY NamesFacts
<1> HIDE DEF W
<1>3. d \in ObjectType /\ map \in ObjectType /\ d # InPlace
  BY <1>1, OwnerFacts
<1>4. /\ slab.color_map = {} /\ slab.free_count = Count[s] /\ slab.color_count = Count[s]
      /\ slab.descriptor = d /\ slab.map = map /\ slab \in SlabType
  BY <1>2, <1>3 DEF NewSlab, SlabType
<1> HIDE DEF slab, d, map
<1>5. Fresh(slab, s)
  BY <1>2, <1>4 DEF Fresh
<1>6. PartsOf(slab) = {d, map}
  BY <1>3, <1>4 DEF PartsOf
<1>7. PartsReady(p.mem, s, slab, W)
  BY <1>1, <1>2, <1>3, <1>4, <1>6 DEF PartsReady
<1>8. W \ PartsOf(slab) = U
  BY <1>1, <1>6 DEF W
<1> QED  BY <1>4, <1>5, <1>7, <1>8 DEF Ready, slab, W, d, map

\* slab_create, with all it undoes when it fails half-way.
LEMMA CreateGood ==
    ASSUME NEW m, NEW U, NEW B, Good(m, U, B), NEW s \in Caches, m.list[s] = <<>>
    PROVE  Created(m, slab_create(m, s), s, U, B)
<1> DEFINE cache == kmalloc(m, CacheSize)
           x == cache.object
           W == U \cup {x}
           p == Parts(cache.mem, s)
           r == CreateWithCache(cache, s)
<1> SUFFICES Created(m, r, s, U, B)
  BY DEF slab_create
<1>1. CacheSize \in Sizes /\ s \in Owners /\ s \notin Sizes
  BY NamesFacts
<1>2. Allocated(m, cache, CacheSize, U, B)
  BY <1>1, KmallocGood
<1> HIDE DEF cache
<1>3. Kept(m, cache.mem, Caches, B)
  BY <1>2 DEF Allocated, Calm
<1>4. CASE x = NoObject
  <2>1. r.mem = cache.mem /\ r.object = NoObject
    BY <1>4 DEF CreateWithCache, NoMemory
  <2>2. Faulted(cache.mem) \/ Good(cache.mem, U, B)
    BY <1>2, <1>4 DEF Allocated, Gave, Faulted
  <2> HIDE DEF r
  <2> QED  BY <1>3, <2>1, <2>2, KeptFacts DEF Created
<1>5. CASE x # NoObject
  <2>1. x \notin U /\ Good(cache.mem, W, B)
    BY <1>2, <1>5 DEF Allocated, Gave
  <2>2. r = CreateWithParts(x, p, s)
    BY <1>5 DEF CreateWithCache
  <2> HIDE DEF r
  <2>3. Partly(cache.mem, p, s, W, B)
    BY <1>1, <2>1, PartsGood
  <2> HIDE DEF p
  <2>4. Kept(m, p.mem, Caches, B)
    <3>1. Kept(cache.mem, p.mem, Caches, B)
      BY <2>3 DEF Partly
    <3> QED  BY <1>3, <3>1, KeptThrough
  <2>5. CASE p.mem.fault
    <3>1. r.mem = p.mem /\ r.object = NoObject
      BY <2>2, <2>5 DEF CreateWithParts, NoMemory
    <3>2. Faulted(p.mem)
      BY <2>3, <2>5 DEF Partly, Provided, Faulted
    <3> QED  BY <2>4, <3>1, <3>2, KeptFacts DEF Created
  <2>6. CASE ~p.mem.fault /\ p.page = Null
    <3>1. r.mem = kfree(p.mem, x) /\ r.object = NoObject
      BY <2>2, <2>6 DEF CreateWithParts, NoMemory
    <3>2. Good(p.mem, U \cup {x}, B)
      BY <2>3, <2>6 DEF Partly, Faulted, Provided
    <3>3. Kept(m, r.mem, Caches, B) /\ Good(r.mem, U, B)
      BY <2>1, <2>4, <3>1, <3>2, KfreeAfter
    <3> QED  BY <3>1, <3>3, KeptFacts DEF Created
  <2>7. CASE ~p.mem.fault /\ p.page # Null
    <3> DEFINE slab == NewSlab(Count[s], Count[s], p.descriptor, p.map)
               k == AddSlab(p.mem, s, p.page, slab)
               X == (W \cup {p.descriptor}) \cup {p.map}
    <3>1. r.mem = k /\ r.object = x
      BY <2>2, <2>7 DEF CreateWithParts, UsingAtFirst
    <3>2. Provided(cache.mem, p, s, W, B)
      BY <2>3, <2>7 DEF Partly
    <3>3. Count[s] \in Nat /\ Count[s] \in Int /\ Cardinality({}) = 0 /\ slab.using_count = Count[s]
          /\ slab.color_map = {}
      BY <1>1, NamesFacts, FS_EmptySet DEF NewSlab
    <3>4. /\ Fresh(slab, s) /\ slab \in SlabType /\ PartsReady(p.mem, s, slab, X)
          /\ X \ PartsOf(slab) = W
      <4> HIDE DEF W
      <4>1. Ready(p, s, slab, W, X)
        BY <3>2, <3>3, PartsAreReady
      <4> QED  BY <4>1 DEF Ready
    <3> HIDE DEF slab, W
    <3>5. /\ p.page \in Pages /\ p.page \notin B /\ Good(p.mem, X, B \cup {p.page})
          /\ p.mem.reference_count[p.page] = 1
      BY <3>2 DEF Provided
    <3> HIDE DEF X
    <3>6. Added(p.mem, k, s, p.page, slab)
      BY <1>1, <3>4, <3>5, GoodFacts, AddSlabAdds
    <3> HIDE DEF k
    <3>7. /\ Good(k, W, B) /\ \A y \in Owners : InUse(k, y) = InUse(p.mem, y)
          /\ \A C \in SUBSET Caches : s \notin C => Kept(p.mem, k, C, B \cup {p.page})
      <4>1. p.page \in B \cup {p.page} /\ (B \cup {p.page}) \ {p.page} = B
        BY <3>5
      <4>2. /\ Good(k, X \ PartsOf(slab), (B \cup {p.page}) \ {p.page})
            /\ \A y \in Owners : InUse(k, y) = InUse(p.mem, y)
            /\ \A C \in SUBSET Caches : s \notin C => Kept(p.mem, k, C, B \cup {p.page})
        BY <1>1, <3>4, <3>5, <3>6, <4>1, AddedGood
      <4> QED  BY <3>4, <4>1, <4>2
    <3>8. CacheKept(m, k, s, B)
      <4>1. Kept(p.mem, k, Caches \ {s}, B \cup {p.page})
        BY <3>7
      <4>2. Kept(m, p.mem, Caches \ {s}, B)
        BY <2>4, KeptFacts DEF CacheKept
      <4>3. B \subseteq B \cup {p.page}
        OBVIOUS
      <4> QED  BY <4>1, <4>2, <4>3, KeptThrough DEF CacheKept
    <3>9. p.mem.list[s] = <<>> /\ SlabsOf(p.mem, s) = {}
      BY <2>4, KeptFacts DEF SlabsOf, ToSet
    <3>10. SlabsOf(k, s) = {p.page} /\ Head(k.list[s]) = p.page /\ k.list[s] # <<>>
           /\ k.slab = [p.mem.slab EXCEPT ![p.page] = slab]
      BY <3>6, <3>9 DEF Added
    <3>11. k.slab[p.page] = slab
      <4>1. p.mem.slab \in [Pages -> SlabType]
        BY <3>5, GoodFacts, MemFacts
      <4> QED  BY <3>5, <3>10, <4>1
    <3>12. PoolCounts(k, s)
      <4>1. \A c \in Nat : c = 0 + c
        OBVIOUS
      <4>2. k.slab[p.page].using_count = Cardinality(k.slab[p.page].color_map) + Count[s]
        BY <3>3, <3>11, <4>1
      <4> QED  BY <3>10, <4>2 DEF PoolCounts
    <3>13. InUse(k, s) = {}
      <4>1. InUse(p.mem, s) = {}
        BY <3>9 DEF InUse
      <4> QED  BY <1>1, <3>7, <4>1
    <3>14. Good(k, U \cup {x}, B)
      BY <3>7 DEF W
    <3> QED  BY <1>5, <2>1, <3>1, <3>8, <3>10, <3>12, <3>13, <3>14 DEF Created
  <2> QED  BY <2>5, <2>6, <2>7
<1> QED  BY <1>4, <1>5

\* slab_malloc: an object of the cache that nobody has.
CacheGave(m, r, s, U, B) ==
    /\ CacheKept(m, r.mem, s, B) /\ r.mem.list[s] # <<>> /\ Head(r.mem.list[s]) = Head(m.list[s])
    /\ \/ Faulted(r.mem) /\ r.object = NoObject
       \/ /\ Good(r.mem, U, B) /\ PoolCounts(r.mem, s)
          /\ InUse(r.mem, s) = InUse(m, s) \cup Got(r.object)
          /\ r.object # NoObject =>
                r.object \notin U /\ \A c \in Caches : r.object \notin InUse(m, c)

\* The object is of a slab with one to give.
LEMMA TookCacheGave ==
    ASSUME NEW m, NEW U, NEW B, Good(m, U, B), NEW s \in Caches, NEW page, NEW r,
           Took(m, r, s, page, U, B), PoolCounts(m, s), m.list[s] # <<>>
    PROVE  CacheGave(m, r, s, U, B)
<1>1. s \in Owners /\ s \notin Sizes /\ Caches \ {s} \in SUBSET Caches
  BY NamesFacts
<1>2. Got(r.object) = {r.object}
  BY DEF Took, Got
<1>3. CacheKept(m, r.mem, s, B)
  BY <1>1 DEF Took, CacheKept
<1>4. U \subseteq Used(m)
  BY GoodFacts
<1>5. \A y \in Owners : r.object \notin InUse(m, y)
  BY DEF Took
<1>6. r.object \notin U
  BY <1>4, <1>5, NamesFacts DEF Used
<1> QED  BY <1>1, <1>2, <1>3, <1>5, <1>6, NamesFacts DEF Took, CacheGave

\* slab_malloc, with a slab for it if there is no free object.
LEMMA CacheMallocGood ==
    ASSUME NEW m, NEW U, NEW B, Good(m, U, B), NEW s \in Caches, m.list[s] # <<>>, PoolCounts(m, s)
    PROVE  CacheGave(m, slab_malloc(m, s), s, U, B)
<1>1. s \in Owners /\ s \notin Sizes
  BY NamesFacts
<1>2. CASE m.total_free[s] # 0
  <2> DEFINE page == OpenSlab(m, s)
             r == Take(m, s, page)
  <2>1. Took(m, r, s, page, U, B)
    BY <1>1, <1>2, TakeOpen
  <2>2. slab_malloc(m, s) = r
    BY <1>2 DEF slab_malloc
  <2> HIDE DEF page, r
  <2> QED  BY <2>1, <2>2, TookCacheGave
<1>3. CASE m.total_free[s] = 0
  <2> DEFINE p == Parts(m, s)
             r == MallocWithParts(p, s)
  <2>1. slab_malloc(m, s) = r
    BY <1>3 DEF slab_malloc
  <2>2. Partly(m, p, s, U, B)
    BY <1>1, PartsGood
  <2> HIDE DEF p
  <2>3. Kept(m, p.mem, Caches, B)
    BY <2>2 DEF Partly
  <2>4. /\ CacheKept(m, p.mem, s, B) /\ p.mem.list[s] = m.list[s] /\ InUse(p.mem, s) = InUse(m, s)
        /\ PoolCounts(p.mem, s)
    BY <2>3, KeptFacts
  <2>5. CASE p.page = Null
    <3>1. r.mem = p.mem /\ r.object = NoObject
      BY <2>5 DEF MallocWithParts, NoMemory
    <3> HIDE DEF r
    <3>2. Got(r.object) = {}
      BY <3>1 DEF Got
    <3>3. Faulted(p.mem) \/ Good(p.mem, U, B)
      BY <2>2, <2>5 DEF Partly, Provided
    <3> QED  BY <2>1, <2>4, <3>1, <3>2, <3>3 DEF CacheGave
  <2>6. CASE p.page # Null
    <3> DEFINE slab == NewSlab(Count[s], 0, p.descriptor, p.map)
               k == AddSlabBehind(p.mem, s, p.page, slab)
               X == (U \cup {p.descriptor}) \cup {p.map}
               t == Take(k, s, p.page)
    <3>1. r = t
      BY <2>6 DEF MallocWithParts
    <3> HIDE DEF r
    <3>2. Provided(m, p, s, U, B)
      BY <2>2, <2>6 DEF Partly
    <3>3. /\ Count[s] \in Nat /\ Count[s] > 0 /\ Cardinality({}) = 0 /\ slab.using_count = 0
          /\ slab.color_map = {} /\ slab.color_count = Count[s]
      BY <1>1, NamesFacts, FS_EmptySet DEF NewSlab
    <3>4. /\ Fresh(slab, s) /\ slab \in SlabType /\ PartsReady(p.mem, s, slab, X)
          /\ X \ PartsOf(slab) = U
      <4>1. 0 \in Int
        OBVIOUS
      <4>2. Ready(p, s, slab, U, X)
        BY <3>2, <4>1, PartsAreReady
      <4> QED  BY <4>2 DEF Ready
    <3> HIDE DEF slab
    <3>5. /\ p.page \in Pages /\ p.page \notin B /\ Good(p.mem, X, B \cup {p.page})
          /\ p.mem.reference_count[p.page] = 1
      BY <3>2 DEF Provided
    <3> HIDE DEF X
    <3>6. Added(p.mem, k, s, p.page, slab)
      BY <1>1, <2>4, <3>4, <3>5, GoodFacts, AddSlabAdds
    <3> HIDE DEF k
    <3>7. /\ Good(k, U, B) /\ \A y \in Owners : InUse(k, y) = InUse(p.mem, y)
          /\ \A C \in SUBSET Caches : s \notin C => Kept(p.mem, k, C, B \cup {p.page})
          /\ Grown(p.mem, k)
      <4>1. p.page \in B \cup {p.page} /\ (B \cup {p.page}) \ {p.page} = B
        BY <3>5
      <4>2. /\ Good(k, X \ PartsOf(slab), (B \cup {p.page}) \ {p.page})
            /\ \A y \in Owners : InUse(k, y) = InUse(p.mem, y)
            /\ \A C \in SUBSET Caches : s \notin C => Kept(p.mem, k, C, B \cup {p.page})
            /\ Grown(p.mem, k)
        BY <1>1, <3>4, <3>5, <3>6, <4>1, AddedGood
      <4> QED  BY <3>4, <4>1, <4>2
    <3>8. CacheKept(m, k, s, B)
      <4>1. Kept(p.mem, k, Caches \ {s}, B \cup {p.page})
        BY <3>7
      <4>2. Kept(m, p.mem, Caches \ {s}, B)
        BY <2>4 DEF CacheKept
      <4>3. B \subseteq B \cup {p.page}
        OBVIOUS
      <4> QED  BY <4>1, <4>2, <4>3, KeptThrough DEF CacheKept
    <3>9. /\ SlabsOf(k, s) = SlabsOf(p.mem, s) \cup {p.page} /\ k.list[s] # <<>>
          /\ Head(k.list[s]) = Head(m.list[s]) /\ k.slab = [p.mem.slab EXCEPT ![p.page] = slab]
      BY <2>4, <3>6 DEF Added
    <3>10. /\ k.slab[p.page] = slab
           /\ \A q \in SlabsOf(p.mem, s) : q # p.page => k.slab[q] = p.mem.slab[q]
      <4>1. p.mem.slab \in [Pages -> SlabType] /\ SlabsOf(p.mem, s) \subseteq Pages
        BY <1>1, <3>5, GoodFacts, MemFacts
      <4> QED  BY <3>5, <3>9, <4>1
    <3>11. p.page # Head(k.list[s])
      <4>1. Head(m.list[s]) \in SlabsOf(p.mem, s)
        <5>1. p.mem.list[s] \in Seq(Pages)
          BY <1>1, <3>5, GoodFacts, MemFacts
        <5> QED  BY <2>4, <5>1 DEF SlabsOf, ToSet
      <4>2. p.page \notin SlabsOf(p.mem, s)
        BY <1>1, <3>5, GoodFacts
      <4> QED  BY <3>9, <4>1, <4>2
    <3>12. PoolCounts(k, s)
      <4>1. k.slab[p.page].using_count = Cardinality(k.slab[p.page].color_map) + 0
        <5>1. k.slab[p.page].using_count = 0 /\ Cardinality(k.slab[p.page].color_map) = 0
          BY <3>3, <3>10
        <5> QED  BY <5>1
      <4>2. Head(k.list[s]) = Head(p.mem.list[s])
        BY <2>4, <3>9
      <4> SUFFICES ASSUME NEW q \in SlabsOf(k, s)
                   PROVE  k.slab[q].using_count = Cardinality(k.slab[q].color_map)
                                                  + IF q = Head(k.list[s]) THEN Count[s] ELSE 0
        BY DEF PoolCounts
      <4>3. CASE q = p.page
        BY <3>11, <4>1, <4>3
      <4>4. CASE q # p.page
        <5>1. q \in SlabsOf(p.mem, s) /\ k.slab[q] = p.mem.slab[q]
          BY <3>9, <3>10, <4>4
        <5>2. PoolCounts(p.mem, s)
          BY <2>4
        <5> QED  BY <4>2, <5>1, <5>2 DEF PoolCounts
      <4> QED  BY <4>3, <4>4
    <3>13. Spaces(k.slab[p.page]) # {} /\ p.page \in SlabsOf(k, s)
      <4>1. 0 \in 0 .. Count[s] - 1
        BY <3>3
      <4>2. Spaces(slab) = 0 .. Count[s] - 1
        BY <3>3 DEF Spaces
      <4> QED  BY <3>9, <3>10, <4>1, <4>2
    <3>14. Took(k, t, s, p.page, U, B)
      BY <1>1, <3>7, <3>13, TakeGood
    <3> HIDE DEF t
    <3>15. CacheGave(k, t, s, U, B)
      BY <3>7, <3>9, <3>12, <3>14, TookCacheGave
    <3>16. CacheKept(m, t.mem, s, B)
      <4>1. CacheKept(k, t.mem, s, B)
        BY <3>15 DEF CacheGave
      <4> QED  BY <3>8, <4>1, KeptThrough DEF CacheKept
    <3>17. \A c \in Caches : InUse(k, c) = InUse(m, c)
      BY <2>3, <3>7, KeptFacts, NamesFacts
    <3> QED  BY <2>1, <3>1, <3>9, <3>15, <3>16, <3>17 DEF CacheGave
  <2> QED  BY <2>5, <2>6
<1> QED  BY <1>2, <1>3

\* A slab of a cache that has no object in use, with what belongs to it.
LEMMA DropCachedGood ==
    ASSUME NEW m, NEW U, NEW B, Good(m, U, B), NEW s \in Caches, NEW page \in SlabsOf(m, s),
           m.slab[page].color_map = {}
    PROVE  Gone(m, DropCached(m, s, page), s, page, U, B)
<1> DEFINE d == m.slab[page].descriptor
           map == m.slab[page].map
           n == Unlisted(m, s, page)
           a == kfree(n, map)
           l == ReturnPage(a, page)
           b == kfree(l, d)
<1>1. s \in Owners /\ s \notin Sizes
  BY NamesFacts
<1>2. d # InPlace
  <2>1. Shape(m, s, page)
    BY <1>1, GoodFacts DEF Shapes
  <2> QED  BY <1>1, <2>1 DEF Shape
<1>3. Dropping(m, s, page, d, map, U, B)
  BY <1>1, <1>2 DEF Dropping
<1>4. DropCached(m, s, page) = b
  BY DEF DropCached
<1> HIDE DEF d, map
<1>5. Left(m, n, s, page, d, map, U, B)
  BY <1>3, LeaveGood
<1> HIDE DEF n
<1>6. Freed(n, a, map, (U \cup {d}) \cup {map}, B \cup {page})
  <2>1. Good(n, (U \cup {d}) \cup {map}, B \cup {page}) /\ map \in (U \cup {d}) \cup {map}
    BY <1>5 DEF Left
  <2> QED  BY <2>1, KfreeGood
<1> HIDE DEF a
<1>7. Good(l, U \cup {d}, B) /\ Kept(n, l, Caches, B) /\ Shrunk(n, l)
  BY <1>3, <1>5, <1>6, LeaveWithPage
<1> HIDE DEF l
<1>8. Freed(l, b, d, U \cup {d}, B)
  <2>1. d \in U \cup {d}
    OBVIOUS
  <2> QED  BY <1>7, <2>1, KfreeGood
<1> HIDE DEF b
<1>9. Gone(m, b, s, page, U, B)
  BY <1>5, <1>7, <1>8, LeaveWithDescriptor DEF n
<1> QED  BY <1>4, <1>9

\* The list of the cache then, and what is in use.
LEMMA GoneFacts ==
    ASSUME NEW m, NEW U, NEW B, Good(m, U, B), NEW s \in Caches, NEW page \in SlabsOf(m, s), NEW n,
           Gone(m, n, s, page, U, B)
    PROVE  /\ CacheKept(m, n, s, B) /\ InUse(n, s) = InUse(m, s)
           /\ page = Head(m.list[s]) => n.list[s] = Tail(m.list[s])
           /\ page # Head(m.list[s]) =>
                /\ n.list[s] # <<>> /\ Head(n.list[s]) = Head(m.list[s])
                /\ PoolCounts(m, s) => PoolCounts(n, s)
<1> DEFINE u == Unlisted(m, s, page)
<1>1. /\ Kept(m, n, Caches \ {s}, B) /\ Kept(u, n, Caches, B) /\ Removed(m, u, s, page)
      /\ \A y \in Owners : InUse(u, y) = InUse(m, y)
  BY DEF Gone
<1> HIDE DEF u
<1>2. s \in Owners /\ m.slab \in [Pages -> SlabType] /\ SlabsOf(m, s) \subseteq Pages
  BY GoodFacts, MemFacts, NamesFacts
<1>3. n.list[s] = u.list[s] /\ InUse(n, s) = InUse(u, s) /\ (PoolCounts(u, s) => PoolCounts(n, s))
  BY <1>1, KeptFacts
<1>4. ASSUME page # Head(m.list[s]), PoolCounts(m, s) PROVE PoolCounts(u, s)
  <2>1. SlabsOf(u, s) = SlabsOf(m, s) \ {page} /\ Head(u.list[s]) = Head(m.list[s])
        /\ u.slab = [m.slab EXCEPT ![page] = NoSlab]
    BY <1>1, <1>4 DEF Removed
  <2>2. \A p \in SlabsOf(u, s) : u.slab[p] = m.slab[p] /\ p \in SlabsOf(m, s)
    BY <1>2, <2>1
  <2> QED  BY <1>4, <2>1, <2>2 DEF PoolCounts
<1> QED  BY <1>1, <1>2, <1>3, <1>4 DEF Removed, CacheKept

\* slab_free.
CacheFreed(m, n, s, x, U, B) ==
    /\ Good(n, U, B) /\ CacheKept(m, n, s, B)
    /\ n.list[s] # <<>> /\ Head(n.list[s]) = Head(m.list[s]) /\ PoolCounts(n, s)
    /\ InUse(n, s) = InUse(m, s) \ {x}

\* slab_free: the using_count of the pool keeps it, whatever it holds.
LEMMA CacheFreeGood ==
    ASSUME NEW m, NEW U, NEW B, Good(m, U, B), NEW s \in Caches, NEW x \in InUse(m, s),
           PoolCounts(m, s), m.list[s] # <<>>
    PROVE  CacheFreed(m, slab_free(m, s, x), s, x, U, B)
<1> DEFINE page == x.page
           k == PutBack(m, s, x)
           n == DropCached(k, s, page)
<1>1. s \in Owners /\ s \notin Sizes
  BY NamesFacts
<1>2. slab_free(m, s, x) = IF Spare(k, s, page) THEN n ELSE k
  BY DEF slab_free, SettleCached
<1>3. Put(m, k, s, x, U, B)
  BY <1>1, PutBackGood
<1> HIDE DEF k, page
<1>4. /\ Good(k, U, B) /\ k.list = m.list /\ PoolCounts(k, s) /\ InUse(k, s) = InUse(m, s) \ {x}
      /\ CacheKept(m, k, s, B) /\ page \in SlabsOf(k, s)
  <2>1. s \notin Caches \ {s} /\ Caches \ {s} \in SUBSET Caches
    OBVIOUS
  <2> QED  BY <1>1, <1>3, <2>1 DEF Put, CacheKept, SlabsOf, page
<1>5. CASE ~Spare(k, s, page)
  BY <1>2, <1>4, <1>5 DEF CacheFreed
<1>6. CASE Spare(k, s, page)
  <2>1. k.slab[page].color_map = {} /\ page # Head(k.list[s])
    <3>1. k.slab[page].using_count = 0
      BY <1>6 DEF Spare
    <3> QED  BY <1>1, <1>4, <3>1, SpareFacts
  <2>2. Gone(k, n, s, page, U, B)
    BY <1>4, <2>1, DropCachedGood
  <2> HIDE DEF n
  <2>3. /\ CacheKept(k, n, s, B) /\ InUse(n, s) = InUse(k, s)
        /\ n.list[s] # <<>> /\ Head(n.list[s]) = Head(k.list[s]) /\ PoolCounts(n, s)
    BY <1>4, <2>1, <2>2, GoneFacts
  <2>4. Good(n, U, B)
    BY <2>2 DEF Gone
  <2>5. CacheKept(m, n, s, B)
    BY <1>4, <2>3, KeptThrough DEF CacheKept
  <2> QED  BY <1>2, <1>4, <1>6, <2>3, <2>4, <2>5 DEF CacheFreed
<1> QED  BY <1>5, <1>6

\* slab_destroy takes one slab after the other from the pool on; after k of them the
\* rest of the list is left.
Dropped(g, m, s, list, k) ==
    g = [i \in 0 .. k |-> IF i = 0 THEN m ELSE DropCached(g[i - 1], s, list[i])]

\* The walk of slab_destroy along the list is a function of the place in it.
LEMMA DroppedIs ==
    ASSUME NEW n \in Nat, NEW m, NEW s, NEW list
    PROVE  \E g : Dropped(g, m, s, list, n)
<1> DEFINE T == {k \in 0 .. n : ~\E g : Dropped(g, m, s, list, k)}
<1>1. T = {}
  <2> SUFFICES ASSUME T # {} PROVE FALSE
    OBVIOUS
  <2>1. PICK k \in T : \A j \in T : k <= j
    <3>1. T \in SUBSET Nat
      OBVIOUS
    <3> HIDE DEF T
    <3> QED  BY <3>1, LeastNatural
  <2>2. k \in 0 .. n /\ ~\E g : Dropped(g, m, s, list, k)
    BY <2>1
  <2>3. k # 0
    <3>1. Dropped([i \in 0 .. 0 |-> m], m, s, list, 0)
      BY DEF Dropped
    <3> QED  BY <2>2, <3>1
  <2>4. k \in 1 .. n /\ k - 1 \in 0 .. n /\ k - 1 \notin T
    <3> HIDE DEF T
    <3> QED  BY <2>1, <2>2, <2>3
  <2>5. PICK g : Dropped(g, m, s, list, k - 1)
    BY <2>4
  <2> DEFINE h == [i \in 0 .. k |-> IF i = k THEN DropCached(g[k - 1], s, list[k]) ELSE g[i]]
  <2>6. ASSUME NEW i \in 0 .. k
        PROVE  h[i] = IF i = 0 THEN m ELSE DropCached(h[i - 1], s, list[i])
    <3>1. CASE i = k
      <4>1. k - 1 \in 0 .. k /\ k - 1 # k /\ i # 0
        BY <2>4, <3>1
      <4> QED  BY <3>1, <4>1
    <3>2. CASE i # k
      <4>1. i \in 0 .. k - 1 /\ (i # 0 => i - 1 \in 0 .. k /\ i - 1 # k)
        BY <2>4, <3>2
      <4>2. g[i] = IF i = 0 THEN m ELSE DropCached(g[i - 1], s, list[i])
        BY <2>5, <4>1 DEF Dropped
      <4> QED  BY <3>2, <4>1, <4>2
    <3> QED  BY <3>1, <3>2
  <2>7. h = [i \in 0 .. k |-> h[i]]
    OBVIOUS
  <2> HIDE DEF h
  <2>8. Dropped(h, m, s, list, k)
    BY <2>6, <2>7 DEF Dropped
  <2> QED  BY <2>2, <2>8
<1>2. n \in 0 .. n
  OBVIOUS
<1> QED  BY <1>1, <1>2

\* The list from the i-th place on.
Rest(q, list, i) ==
    q \in Seq(Pages) /\ Len(q) = Len(list) - i /\ \A j \in 1 .. Len(q) : q[j] = list[i + j]

\* What the slabs of the cache and the struct Slab_cache leave.
PartlyGone(m, n, s, list, i, U, B) ==
    Good(n, U, B) /\ CacheKept(m, n, s, B) /\ InUse(n, s) = {} /\ Rest(n.list[s], list, i)

\* One step of that walk.
LEMMA DropNext ==
    ASSUME NEW m, NEW s \in Caches, NEW list \in Seq(Pages), NEW i \in 1 .. Len(list), NEW U, NEW B,
           NEW n, PartlyGone(m, n, s, list, i - 1, U, B)
    PROVE  PartlyGone(m, DropCached(n, s, list[i]), s, list, i, U, B)
<1> DEFINE q == n.list[s]
           page == list[i]
           k == DropCached(n, s, page)
<1>1. /\ Good(n, U, B) /\ CacheKept(m, n, s, B) /\ InUse(n, s) = {}
      /\ q \in Seq(Pages) /\ Len(q) = Len(list) - (i - 1) /\ \A j \in 1 .. Len(q) : q[j] = list[i - 1 + j]
  BY DEF PartlyGone, Rest
<1> HIDE DEF q
<1>2. 1 \in 1 .. Len(q) /\ i - 1 + 1 = i
  BY <1>1
<1>3. q[1] = page /\ Head(q) = page /\ page \in ToSet(q) /\ q # <<>>
  BY <1>1, <1>2 DEF ToSet
<1>4. page \in SlabsOf(n, s) /\ page = Head(n.list[s])
  BY <1>3 DEF SlabsOf, q
<1> HIDE DEF page
<1>5. n.slab[page].color_map = {}
  <2>1. ASSUME NEW c \in n.slab[page].color_map PROVE FALSE
    <3>1. Cell(page, c) \in InUse(n, s)
      BY <1>4, CellFacts
    <3> QED  BY <1>1, <3>1
  <2> QED  BY <2>1
<1>6. Gone(n, k, s, page, U, B)
  BY <1>1, <1>4, <1>5, DropCachedGood
<1> HIDE DEF k
<1>7. CacheKept(n, k, s, B) /\ InUse(k, s) = InUse(n, s) /\ k.list[s] = Tail(q)
  BY <1>1, <1>4, <1>6, GoneFacts DEF q
<1>8. Good(k, U, B)
  BY <1>6 DEF Gone
<1>9. CacheKept(m, k, s, B)
  BY <1>1, <1>7, KeptThrough DEF CacheKept
<1>10. Rest(Tail(q), list, i)
  <2>1. Tail(q) \in Seq(Pages) /\ Len(Tail(q)) = Len(q) - 1 /\ Len(list) \in Nat
        /\ \A j \in 1 .. Len(q) - 1 : Tail(q)[j] = q[j + 1]
    BY <1>1, <1>3
  <2>2. Len(Tail(q)) = Len(list) - i
    BY <1>1, <2>1
  <2>3. ASSUME NEW j \in 1 .. Len(Tail(q)) PROVE Tail(q)[j] = list[i + j]
    <3>1. j + 1 \in 1 .. Len(q) /\ i - 1 + (j + 1) = i + j /\ j \in 1 .. Len(q) - 1
      BY <2>1
    <3>2. q[j + 1] = list[i - 1 + (j + 1)]
      BY <1>1, <3>1
    <3> QED  BY <2>1, <3>1, <3>2
  <2> QED  BY <2>1, <2>2, <2>3 DEF Rest
<1> QED  BY <1>1, <1>7, <1>8, <1>9, <1>10 DEF PartlyGone, k, page

\* slab_destroy.
Destroyed(m, n, s, x, U, B) ==
    Good(n, U \ {x}, B) /\ CacheKept(m, n, s, B) /\ n.list[s] = <<>> /\ InUse(n, s) = {}

\* slab_destroy: every slab goes, with what belongs to it, and the struct Slab_cache.
LEMMA DestroyGood ==
    ASSUME NEW m, NEW U, NEW B, Good(m, U, B), NEW s \in Caches, m.total_using[s] = 0, made[s] \in U
    PROVE  Destroyed(m, slab_destroy(m, s), s, made[s], U, B)
<1> DEFINE list == m.list[s]
           n == Len(list)
           D == CHOOSE g : Dropped(g, m, s, list, n)
           x == made[s]
<1>1. s \in Owners /\ machine \in Machines /\ m \in MemType /\ MapsRight(m) /\ list \in Seq(Pages) /\ n \in Nat
  BY GoodFacts, NamesFacts, MemFacts
<1>2. slab_destroy(m, s) = kfree(D[n], x)
  BY DEF slab_destroy, Dropped
<1> HIDE DEF list, n
<1>3. Dropped(D, m, s, list, n)
  BY <1>1, DroppedIs
<1> HIDE DEF D
<1>4. D[0] = m /\ \A i \in 1 .. n : D[i] = DropCached(D[i - 1], s, list[i])
  <2>1. 0 \in 0 .. n /\ \A i \in 1 .. n : i \in 0 .. n /\ i # 0
    BY <1>1
  <2> QED  BY <1>3, <2>1 DEF Dropped
<1>5. InUse(m, s) = {}
  <2>1. IsFiniteSet(InUse(m, s))
    BY <1>1, CellsFinite
  <2>2. Cardinality(InUse(m, s)) = 0
    BY <1>1, GoodFacts DEF Counted
  <2> QED  BY <2>1, <2>2, FS_EmptySet
<1>6. PartlyGone(m, D[0], s, list, 0, U, B)
  <2>1. Rest(list, list, 0)
    BY <1>1 DEF Rest
  <2>2. CacheKept(m, m, s, B)
    BY DEF CacheKept, Kept
  <2> QED  BY <1>4, <1>5, <2>1, <2>2 DEF PartlyGone, list
<1>7. \A i \in 0 .. n : PartlyGone(m, D[i], s, list, i, U, B)
  <2> DEFINE T == {i \in 0 .. n : ~PartlyGone(m, D[i], s, list, i, U, B)}
  <2> SUFFICES ASSUME T # {} PROVE FALSE
    OBVIOUS
  <2>1. PICK i \in T : \A j \in T : i <= j
    <3>1. T \in SUBSET Nat
      BY <1>1
    <3> HIDE DEF T
    <3> QED  BY <3>1, LeastNatural
  <2>2. i \in 0 .. n /\ ~PartlyGone(m, D[i], s, list, i, U, B)
    BY <2>1
  <2>3. i \in 1 .. n /\ i - 1 \in 0 .. n /\ i - 1 \notin T
    <3>1. i # 0
      BY <1>6, <2>2
    <3> HIDE DEF T
    <3> QED  BY <1>1, <2>1, <2>2, <3>1
  <2>4. PartlyGone(m, D[i - 1], s, list, i - 1, U, B)
    BY <2>3
  <2>5. D[i] = DropCached(D[i - 1], s, list[i]) /\ i \in 1 .. Len(list)
    BY <1>4, <2>3 DEF n
  <2>6. PartlyGone(m, D[i], s, list, i, U, B)
    BY <1>1, <2>4, <2>5, DropNext
  <2> QED  BY <2>2, <2>6
<1>8. Good(D[n], U, B) /\ CacheKept(m, D[n], s, B) /\ InUse(D[n], s) = {} /\ D[n].list[s] = <<>>
  <2>1. PartlyGone(m, D[n], s, list, n, U, B)
    BY <1>1, <1>7
  <2>2. D[n].list[s] \in Seq(Pages) /\ Len(D[n].list[s]) = 0
    BY <1>1, <2>1 DEF PartlyGone, Rest, n
  <2>3. D[n].list[s] = <<>>
    BY <2>2
  <2> QED  BY <2>1, <2>3 DEF PartlyGone
<1> DEFINE k == kfree(D[n], x)
<1>9. Freed(D[n], k, x, U, B)
  BY <1>8, KfreeGood
<1> HIDE DEF k
<1>10. Good(k, U \ {x}, B) /\ Kept(D[n], k, Caches, B)
  BY <1>9 DEF Freed
<1>11. CacheKept(D[n], k, s, B) /\ k.list[s] = <<>> /\ InUse(k, s) = {}
  BY <1>8, <1>10, KeptFacts
<1>12. CacheKept(m, k, s, B)
  BY <1>8, <1>11, KeptThrough DEF CacheKept
<1> QED  BY <1>2, <1>10, <1>11, <1>12 DEF Destroyed, k

-----------------------------------------------------------------------------
(* The start.                                                              *)

\* The pools are the pages behind the kernel, one for each size.
PoolOf(size) == machine.last_page + PoolPage[size]

LEMMA PoolFacts ==
    ASSUME machine \in Machines
    PROVE  /\ \A size \in Sizes : PoolOf(size) \in KernelPages /\ PoolOf(size) > machine.last_page
           /\ \A a, b \in Sizes : PoolOf(a) = PoolOf(b) => a = b
           /\ KernelPages = 1 .. machine.last_page \cup {PoolOf(size) : size \in Sizes}
<1> DEFINE L == machine.last_page
           N == PoolPages
<1>1. L \in Nat /\ N \in Nat /\ (\A size \in Sizes : PoolPage[size] \in 1 .. N) /\ N = Cardinality(Sizes)
      /\ \A a, b \in Sizes : PoolPage[a] = PoolPage[b] => a = b
  BY MachineFacts, SlabAssumption, PageAllocAssumption
<1>2. KernelPages = 1 .. L + N /\ \A size : PoolOf(size) = L + PoolPage[size]
  BY DEF KernelPages, PoolOf
<1> HIDE DEF L, N
<1>3. \A size \in Sizes : PoolOf(size) \in 1 .. L + N /\ PoolOf(size) > L
  BY <1>1, <1>2
<1>4. \A a, b \in Sizes : PoolOf(a) = PoolOf(b) => a = b
  <2> SUFFICES ASSUME NEW a \in Sizes, NEW b \in Sizes, PoolOf(a) = PoolOf(b) PROVE a = b
    OBVIOUS
  <2>1. PoolPage[a] \in Int /\ PoolPage[b] \in Int /\ L + PoolPage[a] = L + PoolPage[b]
    BY <1>1, <1>2
  <2> QED  BY <1>1, <2>1
<1>5. \A k \in 1 .. N : \E size \in Sizes : PoolPage[size] = k
  <2> DEFINE f == [size \in Sizes |-> PoolPage[size]]
             T == 1 .. N
  <2>1. f \in Injection(Sizes, T)
    BY <1>1 DEF Injection, IsInjective
  <2>2. IsFiniteSet(T) /\ Cardinality(T) = N
    <3>1. 1 \in Int /\ N \in Int /\ (IF 1 > N THEN 0 ELSE N - 1 + 1) = N
      BY <1>1
    <3> QED  BY <3>1, FS_Interval
  <2> HIDE DEF f, T
  <2>3. f \in Surjection(Sizes, T)
    BY <1>1, <2>1, <2>2, FS_Injection
  <2>4. \A k \in T : \E size \in Sizes : f[size] = k
    BY <2>3 DEF Surjection
  <2> QED  BY <2>4 DEF f, T
<1>6. ASSUME NEW p \in 1 .. L + N, p \notin 1 .. L PROVE \E size \in Sizes : p = PoolOf(size)
  <2>1. p - L \in 1 .. N /\ p \in Int /\ p = L + (p - L)
    BY <1>1, <1>6
  <2>2. PICK size \in Sizes : PoolPage[size] = p - L
    BY <1>5, <2>1
  <2> QED  BY <1>2, <2>1, <2>2
<1>7. 1 .. L \subseteq 1 .. L + N
  BY <1>1
<1>8. KernelPages = 1 .. L \cup {PoolOf(size) : size \in Sizes}
  BY <1>2, <1>3, <1>6, <1>7
<1> QED  BY <1>2, <1>3, <1>4, <1>8 DEF L

\* The pages as init_memory and slab_init leave them.
LEMMA FirstPages ==
    ASSUME machine \in Machines, NEW m, m = InitialMemory
    PROVE  /\ m.bits_map = Unzoned \cup KernelPages /\ m.bits_map \subseteq Pages
           /\ m.page_using_count \in [DOMAIN zones -> Int] /\ m.page_free_count \in [DOMAIN zones -> Int]
           /\ m.reference_count \in [Pages -> 0 .. 1] /\ m.total_pages_link \in [DOMAIN zones -> Int]
           /\ \A p \in KernelPages \cup {0} : m.reference_count[p] = 1
           /\ Linked(m) /\ ZoneCounts(m)
<1> DEFINE K == KernelPages
           marked(z) == Cardinality(K \cap ZonePages(zones[z]))
<1> HIDE DEF K
<1>1. /\ m.bits_map = Unzoned \cup K
      /\ m.page_using_count = [z \in DOMAIN zones |-> marked(z)]
      /\ m.page_free_count = [z \in DOMAIN zones |-> Cardinality(ZonePages(zones[z])) - marked(z)]
      /\ m.reference_count = [p \in Pages |-> IF p \in K \cup {0} THEN 1 ELSE 0]
      /\ m.total_pages_link = [z \in DOMAIN zones |-> marked(z)]
  BY DEF InitialMemory, K
<1>2. K \subseteq ZonePages(zones[1]) /\ K \subseteq Pages /\ 0 \in Pages /\ 0 \notin K
      /\ 1 \in DOMAIN zones
  <2>1. K \subseteq ZonePages(zones[1]) /\ 1 \in DOMAIN zones
    BY MachineFacts DEF K, KernelPages
  <2>2. ZonePages(zones[1]) \subseteq Pages /\ 0 \notin ZonePages(zones[1])
    BY <2>1, ZoneFacts
  <2>3. 0 \in Pages
    BY MachineFacts, ZoneFacts DEF Pages
  <2> QED  BY <2>1, <2>2, <2>3
<1>3. ASSUME NEW z \in DOMAIN zones
      PROVE  /\ IsFiniteSet(ZonePages(zones[z])) /\ Cardinality(ZonePages(zones[z])) \in Nat
             /\ marked(z) \in Nat
             /\ Cardinality(ZonePages(zones[z]) \ m.bits_map) = Cardinality(ZonePages(zones[z])) - marked(z)
  <2> DEFINE Z == ZonePages(zones[z])
  <2>1. IsFiniteSet(Z) /\ Z \cap Unzoned = {}
    BY ZoneFacts DEF Unzoned
  <2>2. Z \ m.bits_map = Z \ K /\ Z \cap K = K \cap Z
    BY <1>1, <2>1
  <2> HIDE DEF Z
  <2>3. Cardinality(Z) \in Nat /\ IsFiniteSet(Z \cap K) /\ Cardinality(Z \cap K) \in Nat
    BY <2>1, FS_Intersection, FS_CardinalityType
  <2>4. Cardinality(Z \ K) = Cardinality(Z) - Cardinality(Z \cap K)
    BY <2>1, FS_Difference
  <2> QED  BY <2>1, <2>2, <2>3, <2>4 DEF Z
<1>4. /\ m.page_using_count \in [DOMAIN zones -> Int] /\ m.total_pages_link \in [DOMAIN zones -> Int]
      /\ m.page_free_count \in [DOMAIN zones -> Int]
  <2>1. \A z \in DOMAIN zones : /\ marked(z) \in Int
                                /\ Cardinality(ZonePages(zones[z])) - marked(z) \in Int
    <3> TAKE z \in DOMAIN zones
    <3>1. marked(z) \in Nat /\ Cardinality(ZonePages(zones[z])) \in Nat
      BY <1>3
    <3> HIDE DEF marked, zones
    <3> QED  BY <3>1
  <2> HIDE DEF marked
  <2> QED  BY <1>1, <2>1
<1>5. m.reference_count \in [Pages -> 0 .. 1] /\ \A p \in K \cup {0} : m.reference_count[p] = 1
  BY <1>1, <1>2
<1>6. m.bits_map \subseteq Pages
  BY <1>1, <1>2 DEF Unzoned
<1>7. Linked(m)
  <2>1. ASSUME NEW z \in DOMAIN zones
        PROVE  {p \in ZonePages(zones[z]) : m.reference_count[p] = 1} = K \cap ZonePages(zones[z])
    <3>1. ZonePages(zones[z]) \subseteq Pages /\ 0 \notin ZonePages(zones[z])
      BY ZoneFacts
    <3> QED  BY <1>1, <3>1
  <2> QED  BY <1>1, <2>1 DEF Linked
<1>8. ZoneCounts(m)
  <2>1. \A z \in DOMAIN zones : m.page_free_count[z] + m.page_using_count[z]
                                   = Cardinality(ZonePages(zones[z]))
    <3> TAKE z \in DOMAIN zones
    <3>1. marked(z) \in Nat /\ Cardinality(ZonePages(zones[z])) \in Nat
      BY <1>3
    <3>2. \A a, b \in Nat : (a - b) + b = a
      OBVIOUS
    <3>3. /\ m.page_free_count[z] = Cardinality(ZonePages(zones[z])) - marked(z)
          /\ m.page_using_count[z] = marked(z)
      BY <1>1
    <3> HIDE DEF marked, zones
    <3> QED  BY <3>1, <3>2, <3>3
  <2>2. m.page_free_count = [z \in DOMAIN zones |-> Cardinality(ZonePages(zones[z]) \ m.bits_map)]
    <3> HIDE DEF marked
    <3> QED  BY <1>1, <1>3
  <2> QED  BY <2>1, <2>2 DEF ZoneCounts
<1> QED  BY <1>1, <1>4, <1>5, <1>6, <1>7, <1>8 DEF K

\* The slabs as slab_init leaves them.
LEMMA FirstSlabs ==
    ASSUME Init
    PROVE  /\ mem.list = [o \in Owners |-> IF o \in Sizes THEN <<PoolOf(o)>> ELSE <<>>]
           /\ mem.total_free = [o \in Owners |-> IF o \in Sizes THEN Count[o] ELSE 0]
           /\ mem.total_using = [o \in Owners |-> 0]
           /\ mem.slab \in [Pages -> SlabType] /\ mem.fault = FALSE
           /\ \A size \in Sizes : mem.slab[PoolOf(size)] = NewSlab(Count[size], 0, InPlace, InPlace)
           /\ \A p \in Pages : mem.slab[p].color_map = {}
           /\ mem \in MemType
<1> DEFINE f == InitialMemory
           slab(p) == IF \E size \in Sizes : p = PoolOf(size)
                      THEN NewSlab(Count[CHOOSE s \in Sizes : p = PoolOf(s)], 0, InPlace, InPlace)
                      ELSE NoSlab
<1>1. /\ machine \in Machines
      /\ mem = [bits_map |-> f.bits_map,
                page_using_count |-> f.page_using_count,
                page_free_count |-> f.page_free_count,
                reference_count |-> f.reference_count,
                total_pages_link |-> f.total_pages_link,
                list |-> [o \in Owners |-> IF o \in Sizes THEN <<PoolOf(o)>> ELSE <<>>],
                total_free |-> [o \in Owners |-> IF o \in Sizes THEN Count[o] ELSE 0],
                total_using |-> [o \in Owners |-> 0],
                slab |-> [p \in Pages |-> slab(p)],
                fault |-> FALSE]
  BY DEF Init, PoolOf
<1> HIDE DEF f, slab
<1>2. /\ mem.list = [o \in Owners |-> IF o \in Sizes THEN <<PoolOf(o)>> ELSE <<>>]
      /\ mem.total_free = [o \in Owners |-> IF o \in Sizes THEN Count[o] ELSE 0]
      /\ mem.total_using = [o \in Owners |-> 0]
      /\ mem.slab = [p \in Pages |-> slab(p)] /\ mem.fault = FALSE
  BY <1>1
<1>3. KernelPages \subseteq Pages
  <2>1. KernelPages \subseteq ZonePages(zones[1]) /\ 1 \in DOMAIN zones
    BY <1>1, MachineFacts DEF KernelPages
  <2> QED  BY <1>1, <2>1, ZoneFacts
<1>4. \A size \in Sizes : PoolOf(size) \in Pages
  BY <1>1, <1>3, PoolFacts
<1>5. \A size \in Sizes : slab(PoolOf(size)) = NewSlab(Count[size], 0, InPlace, InPlace)
  <2> TAKE size \in Sizes
  <2>1. \A s \in Sizes : PoolOf(size) = PoolOf(s) => s = size
    BY <1>1, PoolFacts
  <2>2. (CHOOSE s \in Sizes : PoolOf(size) = PoolOf(s)) = size
    BY <2>1
  <2> QED  BY <2>2 DEF slab
<1>6. \A p : slab(p) \in SlabType /\ slab(p).color_map = {}
  <2>1. InPlace \in ObjectType /\ NoObject \in ObjectType
    BY DEF InPlace, NoObject, ObjectType, Null
  <2>2. \A size \in Sizes : Count[size] \in Nat
    BY NamesFacts
  <2>3. NoSlab \in SlabType /\ NoSlab.color_map = {}
    BY <2>1 DEF NoSlab, SlabType
  <2>4. \A n \in Nat : /\ NewSlab(n, 0, InPlace, InPlace) \in SlabType
                       /\ NewSlab(n, 0, InPlace, InPlace).color_map = {}
    BY <2>1 DEF NewSlab, SlabType
  <2> TAKE p
  <2> DEFINE size == CHOOSE s \in Sizes : p = PoolOf(s)
  <2>5. CASE \E s \in Sizes : p = PoolOf(s)
    <3>1. size \in Sizes
      BY <2>5
    <3> HIDE DEF size
    <3>2. NewSlab(Count[size], 0, InPlace, InPlace) \in SlabType
          /\ NewSlab(Count[size], 0, InPlace, InPlace).color_map = {}
      BY <2>2, <2>4, <3>1
    <3> QED  BY <2>5, <3>2 DEF slab, size
  <2>6. CASE ~\E s \in Sizes : p = PoolOf(s)
    BY <2>3, <2>6 DEF slab
  <2> QED  BY <2>5, <2>6
<1>7. mem.slab \in [Pages -> SlabType]
  BY <1>2, <1>6
<1>8. mem \in MemType
  <2>1. /\ f.bits_map \in SUBSET Pages
        /\ f.page_using_count \in [DOMAIN zones -> Int] /\ f.page_free_count \in [DOMAIN zones -> Int]
        /\ f.reference_count \in [Pages -> 0 .. 1] /\ f.total_pages_link \in [DOMAIN zones -> Int]
    BY <1>1, FirstPages DEF f
  <2>2. mem.list \in [Owners -> Seq(Pages)]
    <3>1. \A o \in Sizes : <<PoolOf(o)>> \in Seq(Pages)
      BY <1>4
    <3>2. <<>> \in Seq(Pages)
      OBVIOUS
    <3> QED  BY <1>2, <3>1, <3>2
  <2>3. mem.total_free \in [Owners -> Int] /\ mem.total_using \in [Owners -> Int]
    BY <1>2, NamesFacts
  <2>4. mem.fault \in BOOLEAN
    BY <1>2
  <2> DEFINE l == [o \in Owners |-> IF o \in Sizes THEN <<PoolOf(o)>> ELSE <<>>]
             t == [o \in Owners |-> IF o \in Sizes THEN Count[o] ELSE 0]
             u == [o \in Owners |-> 0]
             b == [p \in Pages |-> slab(p)]
  <2>5. mem = [bits_map |-> f.bits_map,
                page_using_count |-> f.page_using_count,
                page_free_count |-> f.page_free_count,
                reference_count |-> f.reference_count,
                total_pages_link |-> f.total_pages_link,
                list |-> l, total_free |-> t, total_using |-> u, slab |-> b,
                fault |-> FALSE]
    BY <1>1
  <2>6. l \in [Owners -> Seq(Pages)] /\ t \in [Owners -> Int] /\ u \in [Owners -> Int]
        /\ b \in [Pages -> SlabType]
    BY <1>2, <1>7, <2>2, <2>3
  <2> HIDE DEF l, t, u, b
  <2> QED  BY <2>1, <2>5, <2>6 DEF MemType
<1> QED  BY <1>1, <1>2, <1>4, <1>5, <1>6, <1>7, <1>8

\* They are right, and nobody has anything.
LEMMA FirstRight ==
    ASSUME Init
    PROVE  /\ SlabsRight(mem, {}) /\ \A o \in Owners : InUse(mem, o) = {}
           /\ Slabs(mem) = {PoolOf(size) : size \in Sizes}
           /\ \A s \in Caches : mem.list[s] = <<>> /\ SlabsOf(mem, s) = {}
<1>1. machine \in Machines
  BY DEF Init
<1>2. /\ \A size \in Sizes : mem.list[size] = <<PoolOf(size)>> /\ size \in Owners
      /\ \A s \in Caches : mem.list[s] = <<>> /\ s \in Owners /\ s \notin Sizes
  BY FirstSlabs, NamesFacts
<1>3. /\ \A size \in Sizes : SlabsOf(mem, size) = {PoolOf(size)} /\ Head(mem.list[size]) = PoolOf(size)
      /\ \A s \in Caches : SlabsOf(mem, s) = {}
  BY <1>2 DEF SlabsOf, ToSet
<1>4. Slabs(mem) = {PoolOf(size) : size \in Sizes}
  BY <1>3, NamesFacts DEF Slabs
<1>5. ASSUME NEW size \in Sizes
      PROVE  LET s == mem.slab[PoolOf(size)]
             IN  /\ s.color_map = {} /\ s.color_count = Count[size] /\ s.free_count = Count[size]
                 /\ s.using_count = 0 /\ s.descriptor = InPlace /\ PoolOf(size) \in Pages
  <2>1. mem.slab[PoolOf(size)] = NewSlab(Count[size], 0, InPlace, InPlace)
    BY FirstSlabs
  <2>2. KernelPages \subseteq ZonePages(zones[1]) /\ 1 \in DOMAIN zones
    BY <1>1, MachineFacts DEF KernelPages
  <2>3. PoolOf(size) \in Pages
    BY <1>1, <2>2, PoolFacts, ZoneFacts
  <2> QED  BY <2>1, <2>3 DEF NewSlab
<1>6. \A o \in Owners : InUse(mem, o) = {}
  <2>1. \A o \in Owners : \A p \in SlabsOf(mem, o) : mem.slab[p].color_map = {}
    BY <1>3, <1>5, NamesFacts
  <2> QED  BY <2>1 DEF InUse, Cells
<1>7. Cardinality({}) = 0 /\ IsFiniteSet({})
  BY FS_EmptySet
<1>8. Listed(mem)
  <2>1. \A o \in Owners : Distinct(mem.list[o])
    BY <1>2, NamesFacts DEF Distinct
  <2>2. \A o, n \in Owners : o # n => SlabsOf(mem, o) \cap SlabsOf(mem, n) = {}
    BY <1>1, <1>3, NamesFacts, PoolFacts
  <2> QED  BY <1>2, <2>1, <2>2 DEF Listed
<1>9. MapsRight(mem)
  <2>1. ASSUME NEW o \in Owners, NEW p \in SlabsOf(mem, o) PROVE MapRight(mem.slab[p], o)
    <3>1. o \in Sizes /\ p = PoolOf(o) /\ Count[o] \in Nat
      BY <1>3, NamesFacts
    <3>2. \A n \in Nat : n = n - 0
      OBVIOUS
    <3> QED  BY <1>5, <1>7, <3>1, <3>2 DEF MapRight
  <2> QED  BY <2>1, FirstSlabs DEF MapsRight
<1>10. Shapes(mem)
  BY <1>3, <1>5, NamesFacts DEF Shapes, Shape
<1>11. Owned(mem, {})
  <2>1. Outside(mem) = {} /\ PartsIn(mem) = {}
    <3>1. Outside(mem) = {}
      BY <1>4, <1>5 DEF Outside
    <3> QED  BY <3>1 DEF PartsIn
  <2>2. Used(mem) = {}
    BY <1>2, <1>6 DEF Used
  <2> QED  BY <2>1, <2>2 DEF Owned
<1>12. Counted(mem)
  <2>1. ASSUME NEW o \in Owners PROVE mem.total_free[o] = Cardinality(Unused(mem, o))
    <3>1. CASE o \in Sizes
      <4> DEFINE page == PoolOf(o)
                 I == (0 .. mem.slab[page].color_count - 1) \ mem.slab[page].color_map
      <4>1. Unused(mem, o) = Cells(page, I)
        BY <1>3, <3>1 DEF Unused
      <4>2. I = 0 .. Count[o] - 1 /\ Count[o] \in Nat
        BY <1>5, <3>1, NamesFacts
      <4>3. IsFiniteSet(I) /\ Cardinality(I) = Count[o]
        <5>1. 0 \in Int /\ Count[o] - 1 \in Int
              /\ (IF 0 > Count[o] - 1 THEN 0 ELSE (Count[o] - 1) - 0 + 1) = Count[o]
          BY <4>2
        <5> QED  BY <4>2, <5>1, FS_Interval
      <4> HIDE DEF I
      <4>4. mem.total_free[o] = Count[o]
        BY <3>1, FirstSlabs
      <4> QED  BY <4>1, <4>3, <4>4, CellsFacts
    <3>2. CASE o \notin Sizes
      <4>1. Unused(mem, o) = {}
        <5>1. SlabsOf(mem, o) = {}
          BY <1>3, <3>2, NamesFacts
        <5> QED  BY <5>1 DEF Unused
      <4>2. mem.total_free[o] = 0
        BY <3>2, FirstSlabs
      <4> QED  BY <1>7, <4>1, <4>2
    <3> QED  BY <3>1, <3>2
  <2>2. \A o \in Owners : mem.total_using[o] = 0
    BY FirstSlabs
  <2> QED  BY <1>6, <1>7, <2>1, <2>2 DEF Counted
<1> QED  BY <1>2, <1>3, <1>4, <1>6, <1>8, <1>9, <1>10, <1>11, <1>12 DEF SlabsRight

\* The start has the invariant.
LEMMA InitInvariant == Init => IInv
<1> SUFFICES ASSUME Init PROVE IInv
  OBVIOUS
<1> DEFINE f == InitialMemory
           S == {PoolOf(size) : size \in Sizes}
<1>1. /\ machine \in Machines /\ made = [s \in Caches |-> NoObject] /\ objects = {}
      /\ cached = [s \in Caches |-> {}] /\ blocks = {}
  BY DEF Init
<1>2. /\ mem.bits_map = f.bits_map /\ mem.page_using_count = f.page_using_count
      /\ mem.page_free_count = f.page_free_count /\ mem.reference_count = f.reference_count
      /\ mem.total_pages_link = f.total_pages_link
  <2> HIDE DEF f
  <2>1. \E l, t, u, b, e :
          mem = [bits_map |-> f.bits_map,
                 page_using_count |-> f.page_using_count,
                 page_free_count |-> f.page_free_count,
                 reference_count |-> f.reference_count,
                 total_pages_link |-> f.total_pages_link,
                 list |-> l, total_free |-> t, total_using |-> u, slab |-> b, fault |-> e]
    BY DEF Init, f
  <2> QED  BY <2>1
<1>3. /\ SlabsRight(mem, {}) /\ \A o \in Owners : InUse(mem, o) = {}
      /\ Slabs(mem) = S
      /\ \A s \in Caches : mem.list[s] = <<>> /\ SlabsOf(mem, s) = {}
  BY FirstRight
<1>4. mem \in MemType /\ mem.fault = FALSE
  BY FirstSlabs
<1>5. PagesRight(mem, S, {})
  <2>1. /\ f.bits_map = Unzoned \cup KernelPages
        /\ \A p \in KernelPages \cup {0} : f.reference_count[p] = 1
        /\ Linked(f) /\ ZoneCounts(f)
    BY <1>1, FirstPages
  <2> HIDE DEF f
  <2>2. Linked(mem) /\ ZoneCounts(mem)
    BY <1>2, <2>1 DEF Linked, ZoneCounts
  <2>3. KernelPages = 1 .. machine.last_page \cup S /\ machine.last_page \in Nat
        /\ \A p \in S : p \in KernelPages /\ p > machine.last_page
    BY <1>1, PoolFacts, MachineFacts
  <2>4. KernelPages \cap Unzoned = {}
    <3>1. KernelPages \subseteq ZonePages(zones[1]) /\ 1 \in DOMAIN zones
      BY <1>1, MachineFacts DEF KernelPages
    <3> QED  BY <3>1 DEF Unzoned
  <2> HIDE DEF S
  <2>5. mem.bits_map = Reserved \cup S
    BY <1>2, <2>1, <2>3 DEF Reserved
  <2>6. Reserved \cap S = {}
    <3>1. \A p \in S : p \notin 1 .. machine.last_page
      BY <2>3
    <3> QED  BY <2>3, <2>4, <3>1 DEF Reserved
  <2>7. \A p \in S \cup 0 .. machine.last_page : mem.reference_count[p] = 1
    <3>1. 0 .. machine.last_page \subseteq {0} \cup 1 .. machine.last_page
      BY <2>3
    <3>2. S \cup 0 .. machine.last_page \subseteq KernelPages \cup {0}
      BY <2>3, <3>1
    <3>3. \A p \in KernelPages \cup {0} : mem.reference_count[p] = 1
      BY <1>2, <2>1
    <3> QED  BY <3>2, <3>3
  <2> QED  BY <2>2, <2>5, <2>6, <2>7 DEF PagesRight, PagesFor
<1>6. Good(mem, {}, {})
  BY <1>1, <1>3, <1>4, <1>5 DEF Good
<1>7. Made = {} /\ MadeObjects = {} /\ BlockPages = {}
  BY <1>1 DEF Made, MadeObjects, BlockPages
<1>8. Good(mem, objects \cup MadeObjects, BlockPages)
  BY <1>1, <1>6, <1>7
<1>9. NoObject \in ObjectType
  BY DEF NoObject, ObjectType, Null
<1>10. \A s \in Caches : s \in Owners
  BY NamesFacts
<1>11. Owning
  BY <1>1, <1>3, <1>7, <1>8, <1>10 DEF Owning, PoolCounts
<1> QED  BY <1>1, <1>4, <1>9, <1>11 DEF IInv

-----------------------------------------------------------------------------
(* The steps.                                                              *)

\* A memory that is good is sound: its owners can be read off.
LEMMA GoodIsSound ==
    ASSUME NEW m, NEW U, NEW B, Good(m, U, B)
    PROVE  Sound(m)
<1>1. Used(m) = U \cup PartsIn(m) /\ U \cap PartsIn(m) = {}
  BY GoodFacts DEF Owned
<1>2. m.bits_map = Reserved \cup Slabs(m) \cup B /\ Reserved \cap B = {} /\ Slabs(m) \cap B = {}
  BY GoodFacts
<1>3. U = Used(m) \ PartsIn(m) /\ B = m.bits_map \ (Reserved \cup Slabs(m))
  BY <1>1, <1>2
<1> QED  BY <1>3 DEF Sound

\* The machine stays: what is right of the next memory is right in the next state.
LEMMA GoodNext ==
    ASSUME machine' = machine, NEW U, NEW B, Good(mem', U, B)
    PROVE  Good(mem, U, B)'
<1>1. Pages' = Pages /\ zones' = zones
  BY DEF Pages, zones
<1>2. Reserved' = Reserved
  BY <1>1 DEF Reserved, Unzoned
<1>3. (mem \in MemType)'
  BY <1>1 DEF Good, MemType
<1>4. Slabs(mem)' = Slabs(mem')
  BY DEF Slabs, SlabsOf
<1>5. PagesFor(mem, Slabs(mem), B)'
  BY <1>1, <1>2, <1>4 DEF Good, PagesRight, PagesFor
<1>6. Linked(mem)'
  BY <1>1 DEF Good, PagesRight, Linked
<1>7. ZoneCounts(mem)'
  BY <1>1 DEF Good, PagesRight, ZoneCounts
<1>8. SlabsRight(mem, U)'
  BY <1>1 DEF Good, SlabsRight, MapsRight
<1> QED  BY <1>3, <1>5, <1>6, <1>7, <1>8 DEF Good, PagesRight

LEMMA SoundNext ==
    ASSUME machine' = machine, Sound(mem')
    PROVE  Sound(mem)'
<1>1. Reserved' = Reserved
  BY DEF Reserved, Unzoned, Pages, zones
<1>2. Used(mem)' = Used(mem') /\ PartsIn(mem)' = PartsIn(mem') /\ Slabs(mem)' = Slabs(mem')
  BY DEF Used, PartsIn, Slabs
<1> QED  BY <1>1, <1>2, GoodNext DEF Sound

TypesOfCaches == made \in [Caches -> ObjectType] /\ cached \in [Caches -> SUBSET ObjectType]

\* A step to a fault.
LEMMA FaultNext ==
    ASSUME IInv, machine' = machine, TypesOfCaches', Faulted(mem')
    PROVE  IInv'
<1>1. mem'.fault /\ Sound(mem')
  BY GoodIsSound DEF Faulted
<1>2. Sound(mem)'
  BY <1>1, SoundNext
<1> QED  BY <1>1, <1>2 DEF IInv, TypesOfCaches

\* Any other step: the owners are those of the next state.
OwnersNext ==
    /\ objects' \cap MadeObjects' = {}
    /\ \A s, t \in Made' : made'[s] = made'[t] => s = t
    /\ \A b, c \in blocks' : b # c => Block(b[1], b[2]) \cap Block(c[1], c[2]) = {}
    /\ blocks' \subseteq Pages \X Numbers
CacheNext(s) ==
    /\ InUse(mem', s) = cached'[s]
    /\ (mem'.list[s] = <<>> <=> s \notin Made') /\ PoolCounts(mem', s)

\* A step after which the memory is good for the owners of then keeps the invariant.
LEMMA GoodNextInvariant ==
    ASSUME IInv, machine' = machine, TypesOfCaches', OwnersNext, \A s \in Caches : CacheNext(s),
           Good(mem', objects' \cup MadeObjects', BlockPages')
    PROVE  IInv'
<1>1. Pages' = Pages
  BY DEF Pages
<1>2. Good(mem, objects \cup MadeObjects, BlockPages)'
  BY GoodNext
<1>3. Sound(mem)'
  BY GoodIsSound, SoundNext
<1>4. (blocks \subseteq Pages \X Numbers)'
  BY <1>1 DEF OwnersNext
<1>5. Owning'
  BY <1>2, <1>4 DEF Owning, OwnersNext, CacheNext
<1> QED  BY <1>3, <1>5 DEF IInv, TypesOfCaches

\* The pools stay, in one step.
HeadsStay ==
    \A o \in Owners : mem.list[o] # <<>> =>
        \/ mem'.list[o] # <<>> /\ Head(mem'.list[o]) = Head(mem.list[o])
        \/ o \in Caches /\ made'[o] = NoObject

\* Every size has its pool.
LEMMA HeadsOfSizes ==
    ASSUME NEW n, NEW V, NEW W, Good(n, V, W)
    PROVE  \A size \in Sizes : n.list[size] # <<>>
BY GoodFacts DEF Listed

\* Another cache than the one of the call.
LEMMA OtherCaches ==
    ASSUME NEW m, NEW n, NEW B, NEW C, Kept(m, n, C, B), NEW t \in C
    PROVE  /\ n.list[t] = m.list[t] /\ InUse(n, t) = InUse(m, t)
           /\ PoolCounts(m, t) => PoolCounts(n, t)
<1>1. n.list[t] = m.list[t] /\ SlabsOf(n, t) = SlabsOf(m, t) /\ \A p \in SlabsOf(m, t) : n.slab[p] = m.slab[p]
  BY DEF Kept, SlabsOf
<1>2. InUse(n, t) = InUse(m, t)
  BY <1>1 DEF InUse
<1> QED  BY <1>1, <1>2 DEF PoolCounts

\* A call that is not about a cache.
LEMMA CachesStay ==
    ASSUME IInv, Owning, machine' = machine, made' = made, cached' = cached,
           NEW B, Kept(mem, mem', Caches, B), NEW V, NEW W, Good(mem', V, W)
    PROVE  /\ TypesOfCaches' /\ Made' = Made /\ MadeObjects' = MadeObjects
           /\ \A s \in Caches : CacheNext(s)
           /\ HeadsStay
<1>1. TypesOfCaches' /\ Made' = Made /\ MadeObjects' = MadeObjects
  BY DEF IInv, TypesOfCaches, Made, MadeObjects
<1>2. \A s \in Caches : CacheNext(s)
  <2> TAKE s \in Caches
  <2>1. InUse(mem, s) = cached[s] /\ (mem.list[s] = <<>> <=> s \notin Made) /\ PoolCounts(mem, s)
    BY DEF Owning
  <2>2. /\ mem'.list[s] = mem.list[s] /\ InUse(mem', s) = InUse(mem, s)
        /\ PoolCounts(mem, s) => PoolCounts(mem', s)
    BY OtherCaches
  <2> QED  BY <1>1, <2>1, <2>2 DEF CacheNext
<1>3. HeadsStay
  <2>1. \A size \in Sizes : mem'.list[size] # <<>>
    BY HeadsOfSizes
  <2> QED  BY <2>1, NamesFacts DEF HeadsStay, Kept
<1> QED  BY <1>1, <1>2, <1>3

\* What IInv says before a call.
LEMMA BeforeCall ==
    ASSUME IInv, MayCall
    PROVE  /\ Owning /\ Good(mem, objects \cup MadeObjects, BlockPages)
           /\ objects \cap MadeObjects = {} /\ (\A s, t \in Made : made[s] = made[t] => s = t)
           /\ (\A s \in Caches : InUse(mem, s) = cached[s])
           /\ \A b, c \in blocks : b # c => Block(b[1], b[2]) \cap Block(c[1], c[2]) = {}
           /\ blocks \subseteq Pages \X Numbers
           /\ \A s \in Caches : (mem.list[s] = <<>> <=> s \notin Made) /\ PoolCounts(mem, s)
BY DEF IInv, MayCall, Owning

\* An object that a caller gets is nobody's, and in no block.
Takes(x) == x = NoObject \/ (x \notin Held /\ x.page \notin BlockPages /\ x \in ObjectType)

\* What is in use after a call and was nobody's before it is such an object.
LEMMA TakesFacts ==
    ASSUME IInv, MayCall, NEW x, x \notin objects, \A s \in Caches : x \notin InUse(mem, s),
           NEW n, NEW V, Good(n, V, BlockPages), NEW o \in Owners, x \in InUse(n, o)
    PROVE  Takes(x)
<1>1. x \notin Held
  BY BeforeCall DEF Held
<1>2. PICK page \in SlabsOf(n, o) : \E i \in n.slab[page].color_map : x = Cell(page, i)
  BY UsedCell
<1>3. PICK i \in n.slab[page].color_map : x = Cell(page, i)
  BY <1>2
<1>4. page \in Slabs(n) /\ page \notin BlockPages
  BY <1>2, GoodFacts DEF Slabs
<1>5. page \in Pages /\ i \in Nat
  <2>1. machine \in Machines /\ n \in MemType /\ page \in Pages
    BY <1>4, GoodFacts
  <2> QED  BY <2>1, MemFacts
<1>6. page \in Int
  BY <1>5, ZoneFacts DEF IInv
<1>7. x.page = page /\ x \in ObjectType
  BY <1>3, <1>5, <1>6 DEF Cell, ObjectType
<1> QED  BY <1>1, <1>4, <1>7 DEF Takes

\* An object is of one size or cache.
LEMMA OneUser ==
    ASSUME NEW m, NEW U, NEW B, Good(m, U, B), NEW o \in Owners, NEW n \in Owners, o # n,
           NEW x \in InUse(m, o)
    PROVE  x \notin InUse(m, n)
<1> SUFFICES ASSUME x \in InUse(m, n) PROVE FALSE
  OBVIOUS
<1>1. PICK p \in SlabsOf(m, o) : \E i \in m.slab[p].color_map : x = Cell(p, i)
  BY UsedCell
<1>2. PICK q \in SlabsOf(m, n) : \E i \in m.slab[q].color_map : x = Cell(q, i)
  BY UsedCell
<1>3. x.page = p /\ x.page = q
  BY <1>1, <1>2 DEF Cell
<1> QED  BY <1>1, <1>2, <1>3, GoodFacts DEF Listed

\* kmalloc keeps the invariant and the pools, and takes what nobody has.
LEMMA KmallocStep ==
    ASSUME IInv, NEW size \in Sizes, Kmalloc(size)
    PROVE  IInv' /\ HeadsStay /\ Takes(kmalloc(mem, size).object)
<1> DEFINE r == kmalloc(mem, size)
           x == r.object
           U == objects \cup MadeObjects
           B == BlockPages
<1>1. /\ MayCall /\ mem' = r.mem /\ objects' = objects \cup Got(x)
      /\ machine' = machine /\ made' = made /\ cached' = cached /\ blocks' = blocks
  BY DEF Kmalloc, MayTake
<1>2. /\ Owning /\ Good(mem, U, B) /\ objects \cap MadeObjects = {}
      /\ (\A s, t \in Made : made[s] = made[t] => s = t)
      /\ (\A b, c \in blocks : b # c => Block(b[1], b[2]) \cap Block(c[1], c[2]) = {})
      /\ blocks \subseteq Pages \X Numbers
  BY <1>1, BeforeCall
<1>3. Allocated(mem, r, size, U, B)
  BY <1>2, KmallocGood
<1> HIDE DEF r
<1>4. Kept(mem, mem', Caches, B)
  BY <1>1, <1>3 DEF Allocated, Calm
<1>5. BlockPages' = B
  BY <1>1 DEF BlockPages
<1>6. CASE Faulted(mem') /\ x = NoObject
  <2>1. PICK V, W : Good(mem', V, W)
    BY <1>6 DEF Faulted
  <2>2. TypesOfCaches' /\ HeadsStay
    BY <1>1, <1>2, <1>4, <2>1, CachesStay
  <2>3. IInv'
    BY <1>1, <1>6, <2>2, FaultNext
  <2> QED  BY <1>6, <2>2, <2>3 DEF Takes, r
<1>7. CASE Gave(mem, r, size, U, B)
  <2>1. Good(mem', U \cup Got(x), B) /\ Got(x) \cap U = {}
    BY <1>1, <1>7 DEF Gave, Got
  <2>2. TypesOfCaches' /\ HeadsStay /\ Made' = Made /\ MadeObjects' = MadeObjects
        /\ \A s \in Caches : CacheNext(s)
    BY <1>1, <1>2, <1>4, <2>1, CachesStay
  <2>3. objects' \cup MadeObjects' = U \cup Got(x)
    BY <1>1, <2>2
  <2>4. Good(mem', objects' \cup MadeObjects', BlockPages')
    BY <1>5, <2>1, <2>3
  <2>5. OwnersNext
    <3>1. objects' \cap MadeObjects' = {}
      BY <1>1, <1>2, <2>1, <2>2
    <3> QED  BY <1>1, <1>2, <2>2, <3>1 DEF OwnersNext
  <2>6. IInv'
    BY <1>1, <2>2, <2>4, <2>5, GoodNextInvariant
  <2>7. Takes(x)
    <3>1. CASE x = NoObject
      BY <3>1 DEF Takes
    <3>2. CASE x # NoObject
      <4>1. x \in U \cup Got(x) /\ x \notin U
        BY <2>1, <3>2 DEF Got
      <4>2. OwnerOf(mem', x) \in Sizes /\ x \in InUse(mem', OwnerOf(mem', x))
        BY <2>1, <4>1, OwnerFacts
      <4>3. OwnerOf(mem', x) \in Owners /\ \A s \in Caches : s \in Owners /\ OwnerOf(mem', x) # s
        BY <4>2, NamesFacts
      <4>4. \A s \in Caches : x \notin InUse(mem', s)
        BY <2>1, <4>2, <4>3, OneUser
      <4>5. \A s \in Caches : InUse(mem', s) = InUse(mem, s)
        BY <1>4, OtherCaches
      <4> QED  BY <1>1, <2>1, <4>1, <4>2, <4>3, <4>4, <4>5, TakesFacts
    <3> QED  BY <3>1, <3>2
  <2> QED  BY <2>2, <2>6, <2>7 DEF r
<1>8. (Faulted(mem') /\ x = NoObject) \/ Gave(mem, r, size, U, B)
  BY <1>1, <1>3 DEF Allocated, Faulted
<1> QED  BY <1>6, <1>7, <1>8

\* kfree keeps the invariant and the pools.
LEMMA KfreeStep ==
    ASSUME IInv, NEW x \in objects, Kfree(x)
    PROVE  IInv' /\ HeadsStay
<1> DEFINE U == objects \cup MadeObjects
           B == BlockPages
<1>1. /\ MayCall /\ mem' = kfree(mem, x) /\ objects' = objects \ {x}
      /\ machine' = machine /\ made' = made /\ cached' = cached /\ blocks' = blocks
  BY DEF Kfree
<1>2. /\ Owning /\ Good(mem, U, B) /\ objects \cap MadeObjects = {}
      /\ (\A s, t \in Made : made[s] = made[t] => s = t)
      /\ (\A b, c \in blocks : b # c => Block(b[1], b[2]) \cap Block(c[1], c[2]) = {})
      /\ blocks \subseteq Pages \X Numbers
  BY <1>1, BeforeCall
<1>3. Freed(mem, mem', x, U, B)
  <2>1. x \in U
    OBVIOUS
  <2> HIDE DEF U, B
  <2> QED  BY <1>1, <1>2, <2>1, KfreeGood
<1>4. Good(mem', U \ {x}, B) /\ Kept(mem, mem', Caches, B)
  BY <1>3 DEF Freed
<1>5. TypesOfCaches' /\ HeadsStay /\ Made' = Made /\ MadeObjects' = MadeObjects
      /\ \A s \in Caches : CacheNext(s)
  BY <1>1, <1>2, <1>4, CachesStay
<1>6. objects' \cup MadeObjects' = U \ {x} /\ objects' \cap MadeObjects' = {}
  BY <1>1, <1>2, <1>5
<1>7. BlockPages' = B
  BY <1>1 DEF BlockPages
<1>8. Good(mem', objects' \cup MadeObjects', BlockPages')
  BY <1>4, <1>6, <1>7
<1>9. OwnersNext
  BY <1>1, <1>2, <1>5, <1>6 DEF OwnersNext
<1> QED  BY <1>1, <1>5, <1>8, <1>9, GoodNextInvariant

\* A block is of pages that nobody had.
TakesBlock(page, number) ==
    page = Null \/ \A p \in Block(page, number) : p \notin BlockPages /\ \A o \in Owners : p \notin SlabsOf(mem, o)

\* The pages of the blocks.
LEMMA InBlocks ==
    /\ \A p : p \in BlockPages <=> \E b \in blocks : p \in Block(b[1], b[2])
    /\ \A p : p \in BlockPages' <=> \E b \in blocks' : p \in Block(b[1], b[2])
BY DEF BlockPages

\* alloc_pages keeps the invariant and takes pages that nobody has.
LEMMA AllocPagesStep ==
    ASSUME IInv, NEW number \in Numbers, AllocPages(number)
    PROVE  IInv' /\ HeadsStay /\ TakesBlock(alloc_pages(mem, number).page, number)
<1> DEFINE r == alloc_pages(mem, number)
           page == r.page
           U == objects \cup MadeObjects
           B == BlockPages
<1>1. /\ MayCall /\ mem' = r.mem
      /\ blocks' = IF page = Null THEN blocks ELSE blocks \cup {<<page, number>>}
      /\ machine' = machine /\ made' = made /\ cached' = cached /\ objects' = objects
  BY DEF AllocPages, MayTake
<1>2. /\ Owning /\ Good(mem, U, B) /\ objects \cap MadeObjects = {}
      /\ (\A s, t \in Made : made[s] = made[t] => s = t)
      /\ (\A b, c \in blocks : b # c => Block(b[1], b[2]) \cap Block(c[1], c[2]) = {})
      /\ blocks \subseteq Pages \X Numbers
  BY <1>1, BeforeCall
<1>3. GaveBlock(mem, r, number, U, B)
  <2>1. number \in Nat \ {0}
    BY SlabAssumption
  <2> HIDE DEF U, B
  <2> QED  BY <1>2, <2>1, AllocGood
<1> HIDE DEF r
<1>4. CASE page = Null
  <2>1. mem' = mem /\ blocks' = blocks
    <3>1. \A p \in Pages : p # Null
      BY ZoneFacts DEF IInv, Null
    <3> QED  BY <1>1, <1>3, <1>4, <3>1 DEF GaveBlock
  <2>2. Kept(mem, mem', Caches, B) /\ Good(mem', U, B)
    BY <1>2, <2>1 DEF Kept
  <2>3. TypesOfCaches' /\ HeadsStay /\ Made' = Made /\ MadeObjects' = MadeObjects
        /\ \A s \in Caches : CacheNext(s)
    BY <1>1, <1>2, <2>2, CachesStay
  <2>4. BlockPages' = BlockPages
    BY <2>1 DEF BlockPages
  <2>5. OwnersNext /\ Good(mem', objects' \cup MadeObjects', BlockPages')
    BY <1>1, <1>2, <2>1, <2>2, <2>3, <2>4 DEF OwnersNext
  <2>6. TakesBlock(page, number)
    BY <1>4 DEF TakesBlock
  <2> QED  BY <1>1, <2>3, <2>5, <2>6, GoodNextInvariant DEF r
<1>5. CASE page # Null
  <2> DEFINE block == Block(page, number)
  <2>1. /\ page \in Pages /\ block \cap mem.bits_map = {}
        /\ mem'.reference_count = mem.reference_count
        /\ SameSlabs(mem, mem') /\ Good(mem', U, B \cup block)
    BY <1>1, <1>3, <1>5 DEF GaveBlock
  <2> HIDE DEF page
  <2>2. Kept(mem, mem', Caches, B)
    BY <2>1, SameSlabsKept
  <2>3. TypesOfCaches' /\ HeadsStay /\ Made' = Made /\ MadeObjects' = MadeObjects
        /\ \A s \in Caches : CacheNext(s)
    BY <1>1, <1>2, <2>1, <2>2, CachesStay
  <2>4. blocks' = blocks \cup {<<page, number>>}
    BY <1>1, <1>5 DEF page
  <2>5. BlockPages' = B \cup block
    <3>1. \A p : p \in BlockPages' <=> p \in B \/ p \in block
      <4>1. \A p : (\E b \in blocks' : p \in Block(b[1], b[2]))
                     <=> (\E b \in blocks : p \in Block(b[1], b[2])) \/ p \in block
        <5> DEFINE new == <<page, number>>
        <5>1. new[1] = page /\ new[2] = number /\ blocks' = blocks \cup {new}
          BY <2>4
        <5>2. block = Block(new[1], new[2])
          BY <5>1
        <5> HIDE DEF new, block
        <5> QED  BY <5>1, <5>2
      <4> QED  BY <4>1, InBlocks
    <3> QED  BY <3>1
  <2>6. /\ B \subseteq mem.bits_map /\ \A o \in Owners : SlabsOf(mem, o) \subseteq mem.bits_map
    BY <1>2, GoodFacts
  <2>7. \A p \in block : p \notin B /\ \A o \in Owners : p \notin SlabsOf(mem, o)
    BY <2>1, <2>6
  <2>8. \A c \in blocks : Block(c[1], c[2]) \cap block = {}
    BY <2>7 DEF BlockPages
  <2>9. OwnersNext
    <3>1. \A b, c \in blocks' : b # c => Block(b[1], b[2]) \cap Block(c[1], c[2]) = {}
      <4> SUFFICES ASSUME NEW b \in blocks', NEW c \in blocks', b # c
                   PROVE  Block(b[1], b[2]) \cap Block(c[1], c[2]) = {}
        OBVIOUS
      <4>1. CASE b \in blocks /\ c \in blocks
        BY <1>2, <4>1
      <4>2. CASE b = <<page, number>> /\ c \in blocks
        BY <2>8, <4>2
      <4>3. CASE c = <<page, number>> /\ b \in blocks
        BY <2>8, <4>3
      <4> QED  BY <2>4, <4>1, <4>2, <4>3
    <3>2. blocks' \subseteq Pages \X Numbers
      BY <1>2, <2>1, <2>4
    <3> QED  BY <1>1, <1>2, <2>3, <3>1, <3>2 DEF OwnersNext
  <2>10. Good(mem', objects' \cup MadeObjects', BlockPages')
    BY <1>1, <2>1, <2>3, <2>5
  <2>11. TakesBlock(page, number)
    BY <2>7 DEF TakesBlock
  <2> QED  BY <1>1, <2>3, <2>9, <2>10, <2>11, GoodNextInvariant DEF r, page
<1> QED  BY <1>4, <1>5

\* free_pages gives back the pages of one block, and of no other.
LEMMA FreePagesStep ==
    ASSUME IInv, NEW b \in blocks, FreePages(b)
    PROVE  IInv' /\ HeadsStay
<1> DEFINE U == objects \cup MadeObjects
           B == BlockPages
           block == Block(b[1], b[2])
<1>1. /\ MayCall /\ mem' = free_pages(mem, b[1], b[2]) /\ blocks' = blocks \ {b}
      /\ machine' = machine /\ made' = made /\ cached' = cached /\ objects' = objects
  BY DEF FreePages
<1>2. /\ Owning /\ Good(mem, U, B) /\ objects \cap MadeObjects = {}
      /\ (\A s, t \in Made : made[s] = made[t] => s = t)
      /\ (\A c, d \in blocks : c # d => Block(c[1], c[2]) \cap Block(d[1], d[2]) = {})
      /\ blocks \subseteq Pages \X Numbers
  BY <1>1, BeforeCall
<1>3. b[1] \in Nat /\ b[2] \in Nat \ {0} /\ block \subseteq B
  <2>1. b[1] \in Pages /\ b[2] \in Numbers
    BY <1>2
  <2>2. Pages \subseteq Nat /\ Numbers \subseteq 1 .. 63
    BY SlabAssumption, ZoneFacts DEF IInv
  <2>3. block \subseteq B
    BY InBlocks
  <2>4. \A k \in 1 .. 63 : k \in Nat \ {0}
    OBVIOUS
  <2> HIDE DEF block
  <2> QED  BY <2>1, <2>2, <2>3, <2>4
<1> HIDE DEF U
<1>4. /\ Good(mem', U, B \ block) /\ SameSlabs(mem, mem')
      /\ mem'.reference_count = mem.reference_count
  <2> HIDE DEF B
  <2> QED  BY <1>1, <1>2, <1>3, FreeGood
<1>5. Kept(mem, mem', Caches, B)
  BY <1>4, SameSlabsKept
<1>6. TypesOfCaches' /\ HeadsStay /\ Made' = Made /\ MadeObjects' = MadeObjects
      /\ \A s \in Caches : CacheNext(s)
  BY <1>1, <1>2, <1>4, <1>5, CachesStay
<1>7. BlockPages' = B \ block
  <2>1. \A c \in blocks \ {b} : Block(c[1], c[2]) \cap block = {}
    BY <1>2
  <2>2. \A p : p \in BlockPages' <=> p \in B /\ p \notin block
    BY <1>1, <2>1, InBlocks
  <2> QED  BY <2>2
<1>8. Good(mem', objects' \cup MadeObjects', BlockPages')
  BY <1>1, <1>4, <1>6, <1>7 DEF U
<1>9. OwnersNext
  BY <1>1, <1>2, <1>6 DEF OwnersNext
<1> QED  BY <1>1, <1>6, <1>8, <1>9, GoodNextInvariant

\* The caches that a call on s is not about.
LEMMA OthersStay ==
    ASSUME IInv, MayCall, NEW s \in Caches, NEW B, CacheKept(mem, mem', s, B),
           \A t \in Caches \ {s} : made'[t] = made[t] /\ cached'[t] = cached[t],
           NEW V, NEW W, Good(mem', V, W)
    PROVE  /\ \A t \in Caches \ {s} : CacheNext(t)
           /\ \A o \in Owners : o # s /\ mem.list[o] # <<>> =>
                  mem'.list[o] # <<>> /\ Head(mem'.list[o]) = Head(mem.list[o])
<1>1. ASSUME NEW t \in Caches \ {s} PROVE CacheNext(t) /\ mem'.list[t] = mem.list[t]
  <2>1. InUse(mem, t) = cached[t] /\ (mem.list[t] = <<>> <=> t \notin Made) /\ PoolCounts(mem, t)
    BY BeforeCall
  <2>2. t \in Made' <=> t \in Made
    BY DEF Made
  <2>3. /\ mem'.list[t] = mem.list[t] /\ InUse(mem', t) = InUse(mem, t)
        /\ PoolCounts(mem, t) => PoolCounts(mem', t)
    BY OtherCaches DEF CacheKept
  <2> QED  BY <2>1, <2>2, <2>3 DEF CacheNext
<1>2. \A size \in Sizes : mem'.list[size] # <<>> /\ Head(mem'.list[size]) = Head(mem.list[size])
  BY HeadsOfSizes DEF CacheKept, Kept
<1> QED  BY <1>1, <1>2, NamesFacts

\* A call that is not about blocks.
LEMMA BlocksStay ==
    ASSUME IInv, MayCall, blocks' = blocks
    PROVE  /\ BlockPages' = BlockPages /\ blocks' \subseteq Pages \X Numbers
           /\ \A b, c \in blocks' : b # c => Block(b[1], b[2]) \cap Block(c[1], c[2]) = {}
BY BeforeCall DEF BlockPages

\* slab_create keeps the invariant: a cache more, or, when it fails, none.
LEMMA SlabCreateStep ==
    ASSUME IInv, NEW s \in Caches, SlabCreate(s)
    PROVE  IInv' /\ HeadsStay
<1> DEFINE r == slab_create(mem, s)
           x == r.object
           U == objects \cup MadeObjects
           B == BlockPages
<1>1. /\ MayCall /\ made[s] = NoObject /\ mem' = r.mem /\ made' = [made EXCEPT ![s] = x]
      /\ machine' = machine /\ objects' = objects /\ cached' = cached /\ blocks' = blocks
  BY DEF SlabCreate
<1>2. /\ Good(mem, U, B) /\ objects \cap MadeObjects = {}
      /\ (\A p, q \in Made : made[p] = made[q] => p = q)
      /\ mem.list[s] = <<>> /\ InUse(mem, s) = cached[s] /\ s \notin Made /\ PoolCounts(mem, s)
  BY <1>1, BeforeCall DEF Made
<1>3. Created(mem, r, s, U, B)
  <2> HIDE DEF U, B
  <2> QED  BY <1>2, CreateGood
<1> HIDE DEF r
<1>4. CacheKept(mem, mem', s, B)
  BY <1>1, <1>3 DEF Created
<1>5. /\ made \in [Caches -> ObjectType] /\ cached \in [Caches -> SUBSET ObjectType]
  BY DEF IInv
<1>6. made'[s] = x /\ \A t \in Caches \ {s} : made'[t] = made[t] /\ cached'[t] = cached[t]
  BY <1>1, <1>5
<1>7. BlockPages' = B /\ blocks' \subseteq Pages \X Numbers
      /\ \A b, c \in blocks' : b # c => Block(b[1], b[2]) \cap Block(c[1], c[2]) = {}
  BY <1>1, BlocksStay
<1>8. NoObject \in ObjectType
  BY DEF NoObject, ObjectType, Null
<1>9. CASE x = NoObject /\ Faulted(mem')
  <2>1. PICK V, W : Good(mem', V, W)
    BY <1>9 DEF Faulted
  <2>2. HeadsStay
    BY <1>1, <1>2, <1>4, <1>6, <2>1, OthersStay DEF HeadsStay
  <2>3. TypesOfCaches'
    BY <1>1, <1>5, <1>8, <1>9 DEF TypesOfCaches
  <2> QED  BY <1>1, <1>9, <2>2, <2>3, FaultNext
<1>10. CASE /\ x = NoObject /\ mem'.list[s] = mem.list[s] /\ InUse(mem', s) = InUse(mem, s)
            /\ Good(mem', U, B)
  <2>1. (\A t \in Caches \ {s} : CacheNext(t)) /\ HeadsStay
    BY <1>1, <1>2, <1>4, <1>6, <1>10, OthersStay DEF HeadsStay
  <2>2. made' = made
    BY <1>1, <1>5, <1>10
  <2>3. Made' = Made /\ MadeObjects' = MadeObjects /\ TypesOfCaches'
    BY <1>1, <1>5, <2>2 DEF Made, MadeObjects, TypesOfCaches
  <2>4. CacheNext(s)
    <3>1. SlabsOf(mem', s) = {}
      BY <1>2, <1>10 DEF SlabsOf, ToSet
    <3>2. PoolCounts(mem', s)
      BY <3>1 DEF PoolCounts
    <3> QED  BY <1>1, <1>2, <1>10, <2>3, <3>2 DEF CacheNext
  <2>5. \A t \in Caches : CacheNext(t)
    BY <2>1, <2>4
  <2>6. OwnersNext /\ Good(mem', objects' \cup MadeObjects', BlockPages')
    BY <1>1, <1>2, <1>7, <1>10, <2>2, <2>3 DEF OwnersNext
  <2> QED  BY <1>1, <2>1, <2>3, <2>5, <2>6, GoodNextInvariant
<1>11. CASE /\ x # NoObject /\ x \notin U /\ Good(mem', U \cup {x}, B)
            /\ mem'.list[s] # <<>> /\ PoolCounts(mem', s) /\ InUse(mem', s) = {}
  <2>1. (\A t \in Caches \ {s} : CacheNext(t)) /\ HeadsStay
    BY <1>1, <1>2, <1>4, <1>6, <1>11, OthersStay DEF HeadsStay
  <2>2. Made' = Made \cup {s}
    BY <1>6, <1>11 DEF Made
  <2>3. MadeObjects' = MadeObjects \cup {x}
    <3>1. \A y : y \in MadeObjects' <=> \E t \in Made' : y = made'[t]
      BY DEF MadeObjects
    <3>2. \A t \in Made : made'[t] = made[t]
      BY <1>2, <1>6 DEF Made
    <3>3. \A y : y \in MadeObjects <=> \E t \in Made : y = made[t]
      BY DEF MadeObjects
    <3>4. \A y : y \in MadeObjects' <=> y \in MadeObjects \cup {x}
      BY <1>6, <2>2, <3>1, <3>2, <3>3
    <3> QED  BY <3>4
  <2>4. x \in ObjectType
    <3>1. x \in U \cup {x}
      OBVIOUS
    <3> HIDE DEF x, U, B
    <3> QED  BY <1>11, <3>1, OwnerFacts
  <2>5. TypesOfCaches'
    BY <1>1, <1>5, <2>4 DEF TypesOfCaches
  <2>6. CacheNext(s)
    <3>1. cached'[s] = {}
      <4>1. InUse(mem, s) = {}
        BY <1>2 DEF InUse, SlabsOf, ToSet
      <4> QED  BY <1>1, <1>2, <4>1
    <3> QED  BY <1>11, <2>2, <3>1 DEF CacheNext
  <2>7. \A t \in Caches : CacheNext(t)
    BY <2>1, <2>6
  <2>8. \A p, q \in Made' : made'[p] = made'[q] => p = q
    <3>1. \A t \in Made : made'[t] = made[t] /\ made'[t] # x
      BY <1>2, <1>6, <1>11 DEF Made, MadeObjects
    <3> QED  BY <1>2, <1>6, <2>2, <3>1
  <2>9. OwnersNext
    BY <1>1, <1>2, <1>7, <1>11, <2>3, <2>8 DEF OwnersNext
  <2>10. Good(mem', objects' \cup MadeObjects', BlockPages')
    <3>1. objects' \cup MadeObjects' = U \cup {x}
      BY <1>1, <2>3
    <3> QED  BY <1>7, <1>11, <3>1
  <2> QED  BY <1>1, <2>1, <2>5, <2>7, <2>9, <2>10, GoodNextInvariant
<1> QED  BY <1>1, <1>3, <1>9, <1>10, <1>11 DEF Created

\* slab_malloc keeps the invariant and takes what nobody has.
LEMMA SlabMallocStep ==
    ASSUME IInv, NEW s \in Caches, SlabMalloc(s)
    PROVE  IInv' /\ HeadsStay /\ Takes(slab_malloc(mem, s).object)
<1> DEFINE r == slab_malloc(mem, s)
           x == r.object
           U == objects \cup MadeObjects
           B == BlockPages
<1>1. /\ MayCall /\ made[s] # NoObject /\ mem' = r.mem /\ cached' = [cached EXCEPT ![s] = @ \cup Got(x)]
      /\ machine' = machine /\ objects' = objects /\ made' = made /\ blocks' = blocks
  BY DEF SlabMalloc, MayTake
<1>2. /\ Good(mem, U, B) /\ objects \cap MadeObjects = {}
      /\ (\A p, q \in Made : made[p] = made[q] => p = q)
      /\ mem.list[s] # <<>> /\ InUse(mem, s) = cached[s] /\ s \in Made /\ PoolCounts(mem, s)
  BY <1>1, BeforeCall DEF Made
<1>3. CacheGave(mem, r, s, U, B)
  <2> HIDE DEF U, B
  <2> QED  BY <1>2, CacheMallocGood
<1> HIDE DEF r
<1>4. /\ CacheKept(mem, mem', s, B)
      /\ mem'.list[s] # <<>> /\ Head(mem'.list[s]) = Head(mem.list[s])
  BY <1>1, <1>3 DEF CacheGave
<1>5. /\ made \in [Caches -> ObjectType] /\ cached \in [Caches -> SUBSET ObjectType]
  BY DEF IInv
<1>6. /\ cached'[s] = cached[s] \cup Got(x)
      /\ \A t \in Caches \ {s} : made'[t] = made[t] /\ cached'[t] = cached[t]
  BY <1>1, <1>5
<1>7. BlockPages' = B /\ blocks' \subseteq Pages \X Numbers
      /\ \A b, c \in blocks' : b # c => Block(b[1], b[2]) \cap Block(c[1], c[2]) = {}
  BY <1>1, BlocksStay
<1>8. Made' = Made /\ MadeObjects' = MadeObjects
  BY <1>1 DEF Made, MadeObjects
<1>9. CASE x = NoObject /\ Faulted(mem')
  <2>1. PICK V, W : Good(mem', V, W)
    BY <1>9 DEF Faulted
  <2>2. HeadsStay
    BY <1>1, <1>4, <1>6, <2>1, OthersStay DEF HeadsStay
  <2>3. TypesOfCaches'
    BY <1>1, <1>5, <1>9 DEF TypesOfCaches, Got
  <2> QED  BY <1>1, <1>9, <2>2, <2>3, FaultNext DEF Takes, r
<1>10. CASE /\ Good(mem', U, B) /\ PoolCounts(mem', s) /\ InUse(mem', s) = InUse(mem, s) \cup Got(x)
            /\ x # NoObject => x \notin U /\ \A c \in Caches : x \notin InUse(mem, c)
  <2>1. (\A t \in Caches \ {s} : CacheNext(t)) /\ HeadsStay
    BY <1>1, <1>4, <1>6, <1>10, OthersStay DEF HeadsStay
  <2>2. CacheNext(s)
    BY <1>2, <1>4, <1>6, <1>8, <1>10 DEF CacheNext
  <2>3. Takes(x)
    <3>1. CASE x = NoObject
      BY <3>1 DEF Takes
    <3>2. CASE x # NoObject
      <4>1. x \in InUse(mem', s) /\ s \in Owners /\ x \notin objects
        BY <1>10, <3>2, NamesFacts DEF Got
      <4> QED  BY <1>1, <1>10, <3>2, <4>1, TakesFacts
    <3> QED  BY <3>1, <3>2
  <2>4. TypesOfCaches'
    <3>1. Got(x) \subseteq ObjectType
      BY <2>3 DEF Got, Takes
    <3> QED  BY <1>1, <1>5, <3>1 DEF TypesOfCaches
  <2>5. \A t \in Caches : CacheNext(t)
    BY <2>1, <2>2
  <2>6. OwnersNext /\ Good(mem', objects' \cup MadeObjects', BlockPages')
    BY <1>1, <1>2, <1>7, <1>8, <1>10 DEF OwnersNext
  <2> QED  BY <1>1, <2>1, <2>3, <2>4, <2>5, <2>6, GoodNextInvariant DEF r
<1> QED  BY <1>1, <1>3, <1>9, <1>10 DEF CacheGave

\* slab_free keeps the invariant and the pools, the one of its cache too.
LEMMA SlabFreeStep ==
    ASSUME IInv, NEW s \in Caches, NEW x \in cached[s], SlabFree(s, x)
    PROVE  IInv' /\ HeadsStay
<1> DEFINE U == objects \cup MadeObjects
           B == BlockPages
<1>1. /\ MayCall /\ mem' = slab_free(mem, s, x) /\ cached' = [cached EXCEPT ![s] = @ \ {x}]
      /\ machine' = machine /\ objects' = objects /\ made' = made /\ blocks' = blocks
  BY DEF SlabFree
<1>2. /\ Good(mem, U, B) /\ objects \cap MadeObjects = {}
      /\ (\A p, q \in Made : made[p] = made[q] => p = q)
      /\ InUse(mem, s) = cached[s] /\ PoolCounts(mem, s) /\ (mem.list[s] = <<>> <=> s \notin Made)
  BY <1>1, BeforeCall
<1>3. mem.list[s] # <<>> /\ s \in Made
  <2>1. PICK p \in SlabsOf(mem, s) : TRUE
    BY <1>2, UsedCell
  <2>2. SlabsOf(mem, s) # {}
    BY <2>1
  <2>3. mem.list[s] # <<>>
    BY <2>2 DEF SlabsOf, ToSet
  <2> QED  BY <1>2, <2>3
<1>4. CacheFreed(mem, mem', s, x, U, B)
  <2> HIDE DEF U, B
  <2> QED  BY <1>1, <1>2, <1>3, CacheFreeGood
<1>5. /\ Good(mem', U, B) /\ CacheKept(mem, mem', s, B)
      /\ mem'.list[s] # <<>> /\ Head(mem'.list[s]) = Head(mem.list[s]) /\ PoolCounts(mem', s)
      /\ InUse(mem', s) = cached[s] \ {x}
  BY <1>2, <1>4 DEF CacheFreed
<1>6. /\ made \in [Caches -> ObjectType] /\ cached \in [Caches -> SUBSET ObjectType]
  BY DEF IInv
<1>7. /\ cached'[s] = cached[s] \ {x}
      /\ \A t \in Caches \ {s} : made'[t] = made[t] /\ cached'[t] = cached[t]
  BY <1>1, <1>6
<1>8. BlockPages' = B /\ blocks' \subseteq Pages \X Numbers
      /\ \A b, c \in blocks' : b # c => Block(b[1], b[2]) \cap Block(c[1], c[2]) = {}
  BY <1>1, BlocksStay
<1>9. Made' = Made /\ MadeObjects' = MadeObjects
  BY <1>1 DEF Made, MadeObjects
<1>10. (\A t \in Caches \ {s} : CacheNext(t)) /\ HeadsStay
  BY <1>1, <1>5, <1>7, OthersStay DEF HeadsStay
<1>11. \A t \in Caches : CacheNext(t)
  BY <1>3, <1>5, <1>7, <1>9, <1>10 DEF CacheNext
<1>12. TypesOfCaches'
  BY <1>1, <1>6 DEF TypesOfCaches
<1>13. OwnersNext /\ Good(mem', objects' \cup MadeObjects', BlockPages')
  BY <1>1, <1>2, <1>5, <1>8, <1>9 DEF OwnersNext
<1> QED  BY <1>1, <1>10, <1>11, <1>12, <1>13, GoodNextInvariant

\* slab_destroy keeps the invariant, for a cache without an object in use.
LEMMA SlabDestroyStep ==
    ASSUME IInv, NEW s \in Caches, SlabDestroy(s)
    PROVE  IInv' /\ HeadsStay
<1> DEFINE x == made[s]
           U == objects \cup MadeObjects
           B == BlockPages
<1>1. /\ MayCall /\ x # NoObject /\ mem.total_using[s] = 0
      /\ mem' = slab_destroy(mem, s) /\ made' = [made EXCEPT ![s] = NoObject]
      /\ machine' = machine /\ objects' = objects /\ cached' = cached /\ blocks' = blocks
  BY DEF SlabDestroy
<1>2. /\ Good(mem, U, B) /\ objects \cap MadeObjects = {}
      /\ (\A p, q \in Made : made[p] = made[q] => p = q)
      /\ InUse(mem, s) = cached[s] /\ s \in Made
  BY <1>1, BeforeCall DEF Made
<1>3. x \in MadeObjects /\ x \in U
  BY <1>2 DEF MadeObjects
<1>4. Destroyed(mem, mem', s, x, U, B)
  <2> HIDE DEF U, B
  <2> QED  BY <1>1, <1>2, <1>3, DestroyGood
<1>5. /\ Good(mem', U \ {x}, B) /\ CacheKept(mem, mem', s, B)
      /\ mem'.list[s] = <<>> /\ InUse(mem', s) = {}
  BY <1>4 DEF Destroyed
<1>6. /\ made \in [Caches -> ObjectType] /\ cached \in [Caches -> SUBSET ObjectType]
  BY DEF IInv
<1>7. made'[s] = NoObject /\ \A t \in Caches \ {s} : made'[t] = made[t] /\ cached'[t] = cached[t]
  BY <1>1, <1>6
<1>8. BlockPages' = B /\ blocks' \subseteq Pages \X Numbers
      /\ \A b, c \in blocks' : b # c => Block(b[1], b[2]) \cap Block(c[1], c[2]) = {}
  BY <1>1, BlocksStay
<1>9. Made' = Made \ {s} /\ \A t \in Made' : made'[t] = made[t]
  BY <1>7 DEF Made
<1>10. MadeObjects' = MadeObjects \ {x}
  <2>1. \A y : y \in MadeObjects' <=> \E t \in Made' : y = made'[t]
    BY DEF MadeObjects
  <2>2. \A y : y \in MadeObjects <=> \E t \in Made : y = made[t]
    BY DEF MadeObjects
  <2>3. \A y : y \in MadeObjects' <=> y \in MadeObjects /\ y # x
    BY <1>2, <1>9, <2>1, <2>2
  <2> QED  BY <2>3
<1>11. (\A t \in Caches \ {s} : CacheNext(t)) /\ HeadsStay
  BY <1>1, <1>5, <1>7, OthersStay DEF HeadsStay
<1>12. CacheNext(s)
  <2>1. cached[s] = {}
    <3>1. InUse(mem, s) = {}
      <4>1. machine \in Machines /\ mem \in MemType /\ MapsRight(mem) /\ s \in Owners
            /\ mem.total_using[s] = Cardinality(InUse(mem, s))
        BY <1>2, GoodFacts, NamesFacts DEF Counted
      <4>2. IsFiniteSet(InUse(mem, s))
        BY <4>1, CellsFinite
      <4> QED  BY <1>1, <4>1, <4>2, FS_EmptySet
    <3> QED  BY <1>2, <3>1
  <2>2. SlabsOf(mem', s) = {}
    BY <1>5 DEF SlabsOf, ToSet
  <2>3. PoolCounts(mem', s)
    BY <2>2 DEF PoolCounts
  <2> QED  BY <1>1, <1>5, <1>9, <2>1, <2>3 DEF CacheNext
<1>13. \A t \in Caches : CacheNext(t)
  BY <1>11, <1>12
<1>14. TypesOfCaches'
  BY <1>1, <1>6 DEF TypesOfCaches, NoObject, ObjectType, Null
<1>15. OwnersNext
  BY <1>1, <1>2, <1>8, <1>9, <1>10 DEF OwnersNext
<1>16. Good(mem', objects' \cup MadeObjects', BlockPages')
  <2>1. objects' \cup MadeObjects' = U \ {x}
    BY <1>1, <1>2, <1>3, <1>10
  <2> QED  BY <1>5, <1>8, <2>1
<1> QED  BY <1>1, <1>11, <1>13, <1>14, <1>15, <1>16, GoodNextInvariant

\* A step that changes nothing.
LEMMA StutterInvariant == IInv /\ UNCHANGED vars => IInv' /\ HeadsStay
<1> SUFFICES ASSUME IInv, UNCHANGED vars PROVE IInv' /\ HeadsStay
  OBVIOUS
<1> DEFINE U == objects \cup MadeObjects
           B == BlockPages
<1>1. /\ machine' = machine /\ mem' = mem /\ made' = made /\ objects' = objects
      /\ cached' = cached /\ blocks' = blocks
  BY DEF vars
<1>2. HeadsStay
  BY <1>1 DEF HeadsStay
<1>3. CASE mem.fault
  <2>1. Faulted(mem')
    BY <1>1, <1>3 DEF IInv, Sound, Faulted
  <2>2. TypesOfCaches'
    BY <1>1 DEF IInv, TypesOfCaches
  <2> QED  BY <1>1, <1>2, <2>1, <2>2, FaultNext
<1>4. CASE ~mem.fault
  <2>1. /\ Owning /\ Good(mem, U, B) /\ objects \cap MadeObjects = {}
        /\ (\A s, t \in Made : made[s] = made[t] => s = t)
        /\ (\A b, c \in blocks : b # c => Block(b[1], b[2]) \cap Block(c[1], c[2]) = {})
        /\ blocks \subseteq Pages \X Numbers
    BY <1>4, BeforeCall DEF MayCall
  <2>2. Kept(mem, mem', Caches, B) /\ Good(mem', U, B)
    BY <1>1, <2>1 DEF Kept
  <2>3. TypesOfCaches' /\ Made' = Made /\ MadeObjects' = MadeObjects
        /\ \A s \in Caches : CacheNext(s)
    BY <1>1, <2>1, <2>2, CachesStay
  <2>4. BlockPages' = BlockPages
    BY <1>1 DEF BlockPages
  <2>5. OwnersNext /\ Good(mem', objects' \cup MadeObjects', BlockPages')
    BY <1>1, <2>1, <2>2, <2>3, <2>4 DEF OwnersNext
  <2> QED  BY <1>1, <1>2, <2>3, <2>5, GoodNextInvariant
<1> QED  BY <1>3, <1>4

\* Every step keeps the invariant, and the pools.
LEMMA StepInvariant == IInv /\ [Next]_vars => IInv' /\ HeadsStay
<1> SUFFICES ASSUME IInv, [Next]_vars PROVE IInv' /\ HeadsStay
  OBVIOUS
<1>1. ASSUME NEW size \in Sizes, Kmalloc(size) PROVE IInv' /\ HeadsStay
  BY <1>1, KmallocStep
<1>2. ASSUME NEW x \in objects, Kfree(x) PROVE IInv' /\ HeadsStay
  BY <1>2, KfreeStep
<1>3. ASSUME NEW number \in Numbers, AllocPages(number) PROVE IInv' /\ HeadsStay
  BY <1>3, AllocPagesStep
<1>4. ASSUME NEW b \in blocks, FreePages(b) PROVE IInv' /\ HeadsStay
  BY <1>4, FreePagesStep
<1>5. ASSUME NEW s \in Caches, SlabCreate(s) PROVE IInv' /\ HeadsStay
  BY <1>5, SlabCreateStep
<1>6. ASSUME NEW s \in Caches, SlabMalloc(s) PROVE IInv' /\ HeadsStay
  BY <1>6, SlabMallocStep
<1>7. ASSUME NEW s \in Caches, SlabDestroy(s) PROVE IInv' /\ HeadsStay
  BY <1>7, SlabDestroyStep
<1>8. ASSUME NEW s \in Caches, NEW x \in cached[s], SlabFree(s, x) PROVE IInv' /\ HeadsStay
  BY <1>8, SlabFreeStep
<1>9. CASE UNCHANGED vars
  BY <1>9, StutterInvariant
<1> QED  BY <1>1, <1>2, <1>3, <1>4, <1>5, <1>6, <1>7, <1>8, <1>9 DEF Next

-----------------------------------------------------------------------------
(* The theorems.                                                           *)

\* The inductive invariant holds of every machine, any sizes, caches and calls: between two calls of
\* kmalloc, kfree, the slab functions, alloc_pages and free_pages, the memory is good for exactly the
\* owners there are, unless kmalloc_create used a NULL; and then it is good for some.
THEOREM Invariant == Spec => []IInv
<1>1. Init => IInv
  BY InitInvariant
<1>2. IInv /\ [Next]_vars => IInv'
  BY StepInvariant
<1> QED  BY <1>1, <1>2, PTL DEF Spec

\* After a fault, too, the memory is good for some owners.
LEMMA SomeOwners ==
    ASSUME IInv
    PROVE  \E U, B : Good(mem, U, B)
<1>1. CASE mem.fault
  BY <1>1 DEF IInv, Sound
<1>2. CASE ~mem.fault
  BY <1>2, BeforeCall DEF MayCall
<1> QED  BY <1>1, <1>2

\* The counts are part of Good, after a fault too.
LEMMA BooksFromInvariant == IInv => BooksRight
<1> SUFFICES ASSUME IInv PROVE BooksRight
  OBVIOUS
<1>1. PICK U, B : Good(mem, U, B)
  BY SomeOwners
<1>2. /\ machine \in Machines /\ mem \in MemType /\ PagesRight(mem, Slabs(mem), B)
      /\ MapsRight(mem) /\ Counted(mem) /\ mem.bits_map \subseteq Pages
  BY <1>1, GoodFacts
<1>3. \A o \in Owners : /\ mem.total_free[o] = Cardinality(Unused(mem, o)) /\ mem.total_free[o] \in Nat
                        /\ mem.total_using[o] = Cardinality(InUse(mem, o)) /\ mem.total_using[o] \in Nat
  BY <1>2, CellsFinite, FS_CardinalityType DEF Counted
<1>4. TypeOK
  <2>1. /\ mem.list \in [Owners -> Seq(Pages)] /\ mem.reference_count \in [Pages -> 0 .. 1]
        /\ mem.fault \in BOOLEAN
    BY <1>2 DEF MemType
  <2>2. mem.total_free \in [Owners -> Nat] /\ mem.total_using \in [Owners -> Nat]
    <3>1. mem.total_free \in [Owners -> Int] /\ mem.total_using \in [Owners -> Int]
      BY <1>2, MemFacts
    <3> QED  BY <1>3, <3>1
  <2>3. \A p \in Pages : mem.slab[p].color_map \subseteq 0 .. mem.slab[p].color_count - 1
    BY <1>2 DEF MapsRight
  <2> QED  BY <1>2, <2>1, <2>2, <2>3 DEF TypeOK
<1>5. CountsMatchMaps
  BY <1>2, <1>3 DEF CountsMatchMaps, MapsRight, MapRight
<1>6. PagesAccounted
  BY <1>2 DEF PagesRight, PagesFor, Linked, ZoneCounts, PagesAccounted, FreeIn
<1> QED  BY <1>4, <1>5, <1>6 DEF BooksRight

\* The counts of every slab and every cache say what their maps say, and those of the zones,
\* in sum, what the bit map says, through exhaustion, calls that fail half-way and the calls
\* of kmalloc and kfree within each other.
THEOREM BooksAreRight == Spec => []BooksRight
<1>1. IInv => BooksRight
  BY BooksFromInvariant
<1> QED  BY Invariant, <1>1, PTL

\* Who has what is Good for the owners there are.
LEMMA OneOwnerFromInvariant == IInv => OneOwner
<1> SUFFICES ASSUME IInv, ~mem.fault PROVE EveryObjectHasOneOwner /\ EveryPageHasOneOwner
  BY DEF OneOwner, EveryObjectHasOneOwner, EveryPageHasOneOwner
<1> DEFINE M == {made[s] : s \in Made}
           U == objects \cup MadeObjects
           B == BlockPages
<1>1. /\ Good(mem, U, B) /\ objects \cap MadeObjects = {}
      /\ (\A s, t \in Made : made[s] = made[t] => s = t)
      /\ (\A s \in Caches : InUse(mem, s) = cached[s])
      /\ (\A b, c \in blocks : b # c => Block(b[1], b[2]) \cap Block(c[1], c[2]) = {})
  BY BeforeCall DEF MayCall
<1>2. M = MadeObjects
  BY DEF MadeObjects
<1> HIDE DEF M
<1>3. /\ Used(mem) = U \cup PartsIn(mem) /\ U \cap PartsIn(mem) = {}
      /\ \A p, q \in Outside(mem), j, k \in {1, 2} : Part(mem, p, j) = Part(mem, q, k) => p = q /\ j = k
      /\ Listed(mem)
  BY <1>1, GoodFacts DEF Owned
<1>4. EveryObjectHasOneOwner
  <2>1. /\ UNION {InUse(mem, size) : size \in Sizes} = objects \cup M \cup PartsIn(mem)
        /\ objects \cap M = {} /\ PartsIn(mem) \cap (objects \cup M) = {}
    BY <1>1, <1>2, <1>3 DEF Used
  <2> QED  BY <1>1, <1>3, <2>1 DEF EveryObjectHasOneOwner, M
<1>5. EveryPageHasOneOwner
  <2>1. /\ mem.bits_map = Reserved \cup Slabs(mem) \cup B
        /\ Reserved \cap Slabs(mem) = {} /\ Reserved \cap B = {} /\ Slabs(mem) \cap B = {}
    BY <1>1, GoodFacts
  <2> QED  BY <1>1, <1>3, <2>1 DEF EveryPageHasOneOwner, Listed, Distinct
<1> QED  BY <1>4, <1>5

\* Every object whose bit is 1 and every page whose bit is 1 has one owner: no slab goes under an
\* object in use in kfree, slab_free and slab_destroy, and what a failing slab_create took is given back.
THEOREM EverythingHasOneOwner == Spec => []OneOwner
<1>1. IInv => OneOwner
  BY OneOwnerFromInvariant
<1> QED  BY Invariant, <1>1, PTL

\* What kmalloc says of the memory when it gives nothing.
LEMMA FullFromInvariant == IInv => KmallocFailsOnlyWhenFull
<1> SUFFICES ASSUME IInv, ~mem.fault, Len(zones) = 1, NEW size \in Sizes,
                    kmalloc(mem, size).object = NoObject
             PROVE  /\ ZonePages(zones[1]) \subseteq kmalloc(mem, size).mem.bits_map
                    /\ \A p \in SlabsOf(mem, size) : Cardinality(mem.slab[p].color_map)
                                                   = mem.slab[p].color_count
  BY DEF KmallocFailsOnlyWhenFull
<1> DEFINE U == objects \cup MadeObjects
           B == BlockPages
           r == kmalloc(mem, size)
<1>1. Good(mem, U, B)
  BY BeforeCall DEF MayCall
<1> HIDE DEF U, B
<1>2. Allocated(mem, r, size, U, B)
  BY <1>1, KmallocGood
<1>3. Full(mem, r, size)
  <2> HIDE DEF r
  <2>1. r.object = NoObject
    BY DEF r
  <2> QED  BY <1>2, <2>1 DEF Allocated, Gave
<1>4. ASSUME NEW p \in SlabsOf(mem, size)
      PROVE  Cardinality(mem.slab[p].color_map) = mem.slab[p].color_count
  <2> DEFINE s == mem.slab[p]
             all == 0 .. s.color_count - 1
  <2>1. p \in Pages /\ size \in Owners /\ mem \in MemType /\ machine \in Machines /\ MapsRight(mem)
    BY <1>1, GoodFacts, NamesFacts
  <2>2. s.color_map \subseteq all /\ s.color_count \in Nat
    BY <2>1, MemFacts DEF MapsRight
  <2>3. Spaces(s) = {}
    <3>1. ASSUME NEW i \in Spaces(s) PROVE FALSE
      <4>1. Cell(p, i) \in Unused(mem, size)
        BY CellFacts
      <4> QED  BY <1>3, <4>1 DEF Full
    <3> QED  BY <3>1
  <2>4. s.color_map = all
    BY <2>2, <2>3 DEF Spaces
  <2>5. Cardinality(all) = s.color_count
    <3>1. 0 \in Int /\ s.color_count - 1 \in Int
          /\ (IF 0 > s.color_count - 1 THEN 0 ELSE (s.color_count - 1) - 0 + 1) = s.color_count
      BY <2>2
    <3> HIDE DEF s
    <3> QED  BY <3>1, FS_Interval
  <2> QED  BY <2>4, <2>5
<1> QED  BY <1>3, <1>4 DEF Full

\* With one zone, kmalloc gives NULL, or kmalloc_create meets a NULL, only when no object of the size
\* is free and no page is left: the walk over the slabs and the search of alloc_pages miss none.
THEOREM KmallocFindsWhatThereIs == Spec => []KmallocFailsOnlyWhenFull
<1>1. IInv => KmallocFailsOnlyWhenFull
  BY FullFromInvariant
<1> QED  BY Invariant, <1>1, PTL

\* kfree, slab_free and the other calls never take the slab away that cache_pool points at; only
\* slab_destroy does.
THEOREM PoolsStay == Spec => PoolStays
<1>1. IInv /\ [Next]_vars => [HeadsStay]_vars
  BY StepInvariant
<1>2. [HeadsStay]_vars =>
        [\A o \in Owners : mem.list[o] # <<>> =>
           \/ mem'.list[o] # <<>> /\ Head(mem'.list[o]) = Head(mem.list[o])
           \/ o \in Caches /\ made'[o] = NoObject]_vars
  BY DEF HeadsStay
<1> QED  BY Invariant, <1>1, <1>2, PTL DEF Spec, PoolStays

-----------------------------------------------------------------------------
(* The allocator implements Heap.                                          *)

\* What a caller holds, in cells: one of an object, all indices of a block's pages.
Spot(x) == {<<x.page, x.index>>}
Room(b) == Block(b[1], b[2]) \X Indices
Extents == {Spot(x) : x \in Held} \cup {Room(b) : b \in blocks}

\* A block has cells.
LEMMA RoomFacts ==
    ASSUME IInv, NEW page \in Pages, NEW number \in Numbers
    PROVE  Room(<<page, number>>) # {}
<1>1. page \in Int /\ number \in Int /\ number > 0
  BY ZoneFacts, SlabAssumption DEF IInv
<1>2. page \in Block(page, number)
  BY <1>1 DEF Block
<1>3. 0 \in Indices
  BY NamesFacts DEF Indices
<1>4. <<page, 0>> \in Room(<<page, number>>)
  BY <1>2, <1>3 DEF Room
<1> QED  BY <1>4

\* An object that is held is in use, in a slab, and so in no block.
LEMMA HeldFacts ==
    ASSUME IInv, MayCall, NEW x \in Held
    PROVE  /\ x \in ObjectType /\ x.page \notin BlockPages
           /\ \E o \in Owners : x \in InUse(mem, o) /\ x.page \in SlabsOf(mem, o)
<1>1. PICK o \in Owners : x \in InUse(mem, o)
  <2>1. CASE x \in objects
    <3>1. x \in objects \cup MadeObjects /\ Good(mem, objects \cup MadeObjects, BlockPages)
      BY <2>1, BeforeCall
    <3>2. OwnerOf(mem, x) \in Sizes /\ x \in InUse(mem, OwnerOf(mem, x))
      BY <3>1, OwnerFacts
    <3> QED  BY <3>2, NamesFacts
  <2>2. CASE \E s \in Caches : x \in cached[s]
    BY <2>2, BeforeCall, NamesFacts
  <2> QED  BY <2>1, <2>2 DEF Held
<1>2. PICK page \in SlabsOf(mem, o) : \E i \in mem.slab[page].color_map : x = Cell(page, i)
  BY <1>1, UsedCell
<1>3. PICK i \in mem.slab[page].color_map : x = Cell(page, i)
  BY <1>2
<1>4. Good(mem, objects \cup MadeObjects, BlockPages)
  BY BeforeCall
<1>5. page \in Slabs(mem) /\ page \notin BlockPages
  BY <1>2, <1>4, GoodFacts DEF Slabs
<1>6. page \in Pages /\ i \in Nat
  <2>1. machine \in Machines /\ mem \in MemType /\ page \in Pages
    BY <1>4, <1>5, GoodFacts
  <2> QED  BY <2>1, MemFacts
<1>7. page \in Int
  BY <1>6, ZoneFacts DEF IInv
<1>8. x.page = page /\ x \in ObjectType
  BY <1>3, <1>6, <1>7 DEF Cell, ObjectType
<1> QED  BY <1>1, <1>2, <1>5, <1>8

\* The extents are apart.
LEMMA SpotsApart ==
    ASSUME NEW x \in ObjectType, NEW y \in ObjectType, x # y
    PROVE  Spot(x) \cap Spot(y) = {}
BY DEF Spot, ObjectType

\* An object and a block are apart when the object's page is not in the block.
LEMMA SpotOutside ==
    ASSUME NEW x, NEW b, x.page \notin Block(b[1], b[2])
    PROVE  Spot(x) \cap Room(b) = {}
BY DEF Spot, Room

\* Two blocks are apart when their pages are.
LEMMA RoomsApart ==
    ASSUME NEW b, NEW c, Block(b[1], b[2]) \cap Block(c[1], c[2]) = {}
    PROVE  Room(b) \cap Room(c) = {}
BY DEF Room

\* Of what is held, too: which makes it known by its extent.
LEMMA ExtentsApart ==
    ASSUME IInv, MayCall
    PROVE  /\ \A x, y \in Held : x # y => Spot(x) # Spot(y)
           /\ \A x \in Held, b \in blocks : Spot(x) # Room(b)
           /\ \A b, c \in blocks : b # c => Room(b) # Room(c)
<1>1. \A x : Spot(x) # {}
  BY DEF Spot
<1>2. \A b \in blocks : Room(b) # {}
  <2> TAKE b \in blocks
  <2>1. b[1] \in Pages /\ b[2] \in Numbers /\ b = <<b[1], b[2]>>
    BY BeforeCall
  <2> QED  BY <2>1, RoomFacts
<1>3. \A x, y \in Held : x # y => Spot(x) \cap Spot(y) = {}
  BY HeldFacts, SpotsApart
<1>4. \A x \in Held, b \in blocks : Spot(x) \cap Room(b) = {}
  <2> TAKE x \in Held, b \in blocks
  <2>1. x.page \notin Block(b[1], b[2])
    BY HeldFacts, InBlocks
  <2> QED  BY <2>1, SpotOutside
<1>5. \A b, c \in blocks : b # c => Room(b) \cap Room(c) = {}
  BY BeforeCall, RoomsApart
<1> QED  BY <1>1, <1>2, <1>3, <1>4, <1>5

\* The four ways the extents change.
LEMMA HeapStays ==
    ASSUME Held' = Held, blocks' = blocks
    PROVE  Extents' = Extents
BY DEF Extents, Spot, Room, Block, Indices

\* What an extent is, before a step and after it.
LEMMA InExtents ==
    /\ \A e : e \in Extents <=> (\E x \in Held : e = Spot(x)) \/ (\E b \in blocks : e = Room(b))
    /\ \A e : e \in Extents' <=> (\E x \in Held' : e = Spot(x)) \/ (\E b \in blocks' : e = Room(b))
BY DEF Extents, Spot, Room, Block, Indices

\* What makes a step one of Alloc and one of Free.
LEMMA HeapAlloc ==
    ASSUME NEW e, e # {}, \A held \in Extents : e \cap held = {}, Extents' = Extents \cup {e}
    PROVE  HeapOfExtents!Next
BY DEF Extents, Spot, Room, HeapOfExtents!Next, HeapOfExtents!Alloc

LEMMA HeapFree ==
    ASSUME NEW e \in Extents, Extents' = Extents \ {e}
    PROVE  HeapOfExtents!Next
BY DEF Extents, Spot, Room, HeapOfExtents!Next, HeapOfExtents!Free

\* A caller gets an object or nothing.
LEMMA ObjectTaken ==
    ASSUME IInv, MayCall, NEW x, Takes(x), Held' = Held \cup Got(x), blocks' = blocks
    PROVE  HeapOfExtents!Next \/ Extents' = Extents
<1>1. CASE x = NoObject
  BY <1>1, HeapStays DEF Got
<1>2. CASE x # NoObject
  <2>1. x \notin Held /\ x.page \notin BlockPages /\ x \in ObjectType
    BY <1>2 DEF Takes
  <2>2. Held' = Held \cup {x}
    BY <1>2 DEF Got
  <2>3. Extents' = Extents \cup {Spot(x)}
    <3>1. \A e : e \in Extents' <=> e \in Extents \cup {Spot(x)}
      BY <2>2, InExtents
    <3> QED  BY <3>1
  <2>4. \A held \in Extents : Spot(x) \cap held = {}
    <3>1. \A y \in Held : Spot(x) \cap Spot(y) = {}
      BY <2>1, HeldFacts, SpotsApart
    <3>2. \A b \in blocks : Spot(x) \cap Room(b) = {}
      BY <2>1, InBlocks, SpotOutside
    <3> QED  BY <3>1, <3>2, InExtents
  <2>5. Spot(x) # {}
    BY DEF Spot
  <2> QED  BY <2>3, <2>4, <2>5, HeapAlloc
<1> QED  BY <1>1, <1>2

\* A caller gives an object back.
LEMMA ObjectGiven ==
    ASSUME IInv, MayCall, NEW x \in Held, Held' = Held \ {x}, blocks' = blocks
    PROVE  HeapOfExtents!Next
<1>1. Spot(x) \in Extents
  BY InExtents
<1>2. Extents' = Extents \ {Spot(x)}
  <2>1. \A e : e \in Extents' <=> e \in Extents \ {Spot(x)}
    BY InExtents, ExtentsApart
  <2> QED  BY <2>1
<1> QED  BY <1>1, <1>2, HeapFree

\* A caller gets a block.
LEMMA BlockTaken ==
    ASSUME IInv, MayCall, NEW page \in Pages, NEW number \in Numbers, page # Null,
           TakesBlock(page, number), Held' = Held, blocks' = blocks \cup {<<page, number>>}
    PROVE  HeapOfExtents!Next
<1> DEFINE new == <<page, number>>
<1>1. new[1] = page /\ new[2] = number
  OBVIOUS
<1>2. Room(new) # {}
  BY RoomFacts
<1>3. blocks' = blocks \cup {new}
  OBVIOUS
<1> HIDE DEF new
<1>4. Extents' = Extents \cup {Room(new)}
  <2>1. \A e : e \in Extents' <=> e \in Extents \cup {Room(new)}
    BY <1>3, InExtents
  <2> QED  BY <2>1
<1>5. \A p \in Block(page, number) : p \notin BlockPages /\ \A o \in Owners : p \notin SlabsOf(mem, o)
  BY DEF TakesBlock
<1>6. \A x \in Held : Room(new) \cap Spot(x) = {}
  <2> TAKE x \in Held
  <2>1. x.page \notin Block(page, number)
    BY <1>5, HeldFacts
  <2> QED  BY <1>1, <2>1, SpotOutside
<1>7. \A b \in blocks : Room(new) \cap Room(b) = {}
  <2> TAKE b \in blocks
  <2>1. Block(page, number) \cap Block(b[1], b[2]) = {}
    BY <1>5, InBlocks
  <2> QED  BY <1>1, <2>1, RoomsApart
<1>8. \A held \in Extents : Room(new) \cap held = {}
  BY <1>6, <1>7, InExtents
<1> QED  BY <1>2, <1>4, <1>8, HeapAlloc

\* A caller gives a block back.
LEMMA BlockGiven ==
    ASSUME IInv, MayCall, NEW b \in blocks, Held' = Held, blocks' = blocks \ {b}
    PROVE  HeapOfExtents!Next
<1>1. Room(b) \in Extents
  BY InExtents
<1>2. Extents' = Extents \ {Room(b)}
  <2>1. \A e : e \in Extents' <=> e \in Extents \ {Room(b)}
    BY InExtents, ExtentsApart
  <2> QED  BY <2>1
<1> QED  BY <1>1, <1>2, HeapFree

\* Each of the objects of a caller is held once.
LEMMA OneHolder ==
    ASSUME IInv, MayCall
    PROVE  /\ \A s \in Caches : \A x \in cached[s] : x \notin objects
           /\ \A s, t \in Caches : s # t => \A x \in cached[s] : x \notin cached[t]
<1> DEFINE U == objects \cup MadeObjects
           B == BlockPages
<1>1. Good(mem, U, B) /\ \A s \in Caches : InUse(mem, s) = cached[s]
  BY BeforeCall
<1>2. \A x \in objects : x \in U
  OBVIOUS
<1> HIDE DEF U, B
<1>3. \A x \in objects : OwnerOf(mem, x) \in Sizes /\ x \in InUse(mem, OwnerOf(mem, x))
  BY <1>1, <1>2, OwnerFacts
<1>4. ASSUME NEW s \in Caches, NEW x \in cached[s], x \in objects PROVE FALSE
  <2>1. OwnerOf(mem, x) \in Owners /\ s \in Owners /\ OwnerOf(mem, x) # s
    BY <1>3, <1>4, NamesFacts
  <2>2. x \notin InUse(mem, s)
    BY <1>1, <1>3, <1>4, <2>1, OneUser
  <2> QED  BY <1>1, <1>4, <2>2
<1>5. ASSUME NEW s \in Caches, NEW t \in Caches, s # t, NEW x \in cached[s] PROVE x \notin cached[t]
  <2>1. s \in Owners /\ t \in Owners /\ x \in InUse(mem, s)
    BY <1>1, <1>5, NamesFacts
  <2>2. x \notin InUse(mem, t)
    BY <1>1, <1>5, <2>1, OneUser
  <2> QED  BY <1>1, <2>2
<1> QED  BY <1>4, <1>5

\* What callers hold, before a step and after it.
LEMMA InHeld ==
    /\ \A x : x \in Held <=> x \in objects \/ \E s \in Caches : x \in cached[s]
    /\ \A x : x \in Held' <=> x \in objects' \/ \E s \in Caches : x \in cached'[s]
BY DEF Held

\* kmalloc is a step of Heap, or none when it gives NULL.
LEMMA KmallocHeap ==
    ASSUME IInv, NEW size \in Sizes, Kmalloc(size)
    PROVE  HeapOfExtents!Next \/ Extents' = Extents
<1> DEFINE x == kmalloc(mem, size).object
<1>1. MayCall /\ objects' = objects \cup Got(x) /\ cached' = cached /\ blocks' = blocks
  BY DEF Kmalloc, MayTake
<1>2. Takes(x)
  BY KmallocStep
<1> HIDE DEF x
<1>3. Held' = Held \cup Got(x)
  <2>1. \A y : y \in Held' <=> y \in Held \cup Got(x)
    BY <1>1, InHeld
  <2> QED  BY <2>1
<1> QED  BY <1>1, <1>2, <1>3, ObjectTaken

\* kfree is a step of Heap.
LEMMA KfreeHeap ==
    ASSUME IInv, NEW x \in objects, Kfree(x)
    PROVE  HeapOfExtents!Next
<1>1. MayCall /\ objects' = objects \ {x} /\ cached' = cached /\ blocks' = blocks
  BY DEF Kfree
<1>2. Held' = Held \ {x} /\ x \in Held
  <2>1. \A y : y \in Held' <=> y \in Held \ {x}
    BY <1>1, InHeld, OneHolder
  <2> QED  BY <2>1, InHeld
<1> QED  BY <1>1, <1>2, ObjectGiven

\* alloc_pages is a step of Heap, or none when it finds no block.
LEMMA AllocPagesHeap ==
    ASSUME IInv, NEW number \in Numbers, AllocPages(number)
    PROVE  HeapOfExtents!Next \/ Extents' = Extents
<1> DEFINE r == alloc_pages(mem, number)
           page == r.page
           U == objects \cup MadeObjects
           B == BlockPages
<1>1. /\ MayCall /\ objects' = objects /\ cached' = cached
      /\ blocks' = IF page = Null THEN blocks ELSE blocks \cup {<<page, number>>}
  BY DEF AllocPages, MayTake
<1>2. TakesBlock(page, number)
  BY AllocPagesStep
<1>3. page = Null \/ page \in Pages
  <2>1. Good(mem, U, B)
    BY <1>1, BeforeCall
  <2>2. number \in Nat \ {0}
    BY SlabAssumption
  <2> HIDE DEF U, B
  <2>3. GaveBlock(mem, r, number, U, B)
    BY <2>1, <2>2, AllocGood
  <2> HIDE DEF r
  <2> QED  BY <2>3 DEF GaveBlock
<1> HIDE DEF page
<1>4. Held' = Held
  BY <1>1 DEF Held
<1>5. CASE page = Null
  BY <1>1, <1>4, <1>5, HeapStays
<1>6. CASE page # Null
  BY <1>1, <1>2, <1>3, <1>4, <1>6, BlockTaken
<1> QED  BY <1>5, <1>6

\* free_pages is a step of Heap.
LEMMA FreePagesHeap ==
    ASSUME IInv, NEW b \in blocks, FreePages(b)
    PROVE  HeapOfExtents!Next
<1>1. MayCall /\ Held' = Held /\ blocks' = blocks \ {b}
  BY DEF FreePages, Held
<1> QED  BY <1>1, BlockGiven

\* slab_malloc is a step of Heap, or none when it gives NULL.
LEMMA SlabMallocHeap ==
    ASSUME IInv, NEW s \in Caches, SlabMalloc(s)
    PROVE  HeapOfExtents!Next \/ Extents' = Extents
<1> DEFINE x == slab_malloc(mem, s).object
<1>1. /\ MayCall /\ objects' = objects /\ blocks' = blocks
      /\ cached' = [cached EXCEPT ![s] = @ \cup Got(x)]
  BY DEF SlabMalloc, MayTake
<1>2. Takes(x)
  BY SlabMallocStep
<1> HIDE DEF x
<1>3. cached'[s] = cached[s] \cup Got(x) /\ \A t \in Caches \ {s} : cached'[t] = cached[t]
  BY <1>1 DEF IInv
<1>4. Held' = Held \cup Got(x)
  <2>1. \A y : y \in Held' <=> y \in Held \cup Got(x)
    BY <1>1, <1>3, InHeld
  <2> QED  BY <2>1
<1> QED  BY <1>1, <1>2, <1>4, ObjectTaken

\* slab_free is a step of Heap.
LEMMA SlabFreeHeap ==
    ASSUME IInv, NEW s \in Caches, NEW x \in cached[s], SlabFree(s, x)
    PROVE  HeapOfExtents!Next
<1>1. /\ MayCall /\ objects' = objects /\ blocks' = blocks
      /\ cached' = [cached EXCEPT ![s] = @ \ {x}]
  BY DEF SlabFree
<1>2. cached'[s] = cached[s] \ {x} /\ \A t \in Caches \ {s} : cached'[t] = cached[t]
  BY <1>1 DEF IInv
<1>3. Held' = Held \ {x} /\ x \in Held
  <2>1. x \notin objects /\ \A t \in Caches \ {s} : x \notin cached[t]
    BY <1>1, OneHolder
  <2>2. \A y : y \in Held' <=> y \in Held \ {x}
    BY <1>1, <1>2, <2>1, InHeld
  <2> QED  BY <2>2, InHeld
<1> QED  BY <1>1, <1>3, ObjectGiven

\* slab_create and slab_destroy give callers nothing and take nothing from them.
LEMMA StepHeap == IInv /\ [Next]_vars => HeapOfExtents!Next \/ Extents' = Extents
<1> SUFFICES ASSUME IInv, [Next]_vars PROVE HeapOfExtents!Next \/ Extents' = Extents
  OBVIOUS
<1>1. ASSUME NEW size \in Sizes, Kmalloc(size) PROVE HeapOfExtents!Next \/ Extents' = Extents
  BY <1>1, KmallocHeap
<1>2. ASSUME NEW x \in objects, Kfree(x) PROVE HeapOfExtents!Next
  BY <1>2, KfreeHeap
<1>3. ASSUME NEW number \in Numbers, AllocPages(number) PROVE HeapOfExtents!Next \/ Extents' = Extents
  BY <1>3, AllocPagesHeap
<1>4. ASSUME NEW b \in blocks, FreePages(b) PROVE HeapOfExtents!Next
  BY <1>4, FreePagesHeap
<1>5. ASSUME NEW s \in Caches, SlabCreate(s) PROVE Extents' = Extents
  BY <1>5, HeapStays DEF SlabCreate, Held
<1>6. ASSUME NEW s \in Caches, SlabMalloc(s) PROVE HeapOfExtents!Next \/ Extents' = Extents
  BY <1>6, SlabMallocHeap
<1>7. ASSUME NEW s \in Caches, SlabDestroy(s) PROVE Extents' = Extents
  BY <1>7, HeapStays DEF SlabDestroy, Held
<1>8. ASSUME NEW s \in Caches, NEW x \in cached[s], SlabFree(s, x) PROVE HeapOfExtents!Next
  BY <1>8, SlabFreeHeap
<1>9. CASE UNCHANGED vars
  BY <1>9, HeapStays DEF vars, Held
<1> QED  BY <1>1, <1>2, <1>3, <1>4, <1>5, <1>6, <1>7, <1>8, <1>9 DEF Next

\* A caller of kmalloc, slab_malloc or alloc_pages gets cells that nobody holds, and keeps
\* them until its kfree, slab_free or free_pages, whatever the other callers do meanwhile:
\* every step of Slab is one of Heap, or none.
THEOREM Implements == Spec => ImplementsHeap
<1>1. Init => HeapOfExtents!Init
  <2> SUFFICES ASSUME Init PROVE Held = {} /\ blocks = {}
    BY DEF HeapOfExtents!Init
  <2> QED  BY DEF Init, Held
<1>2. IInv /\ [Next]_vars => [HeapOfExtents!Next]_Extents
  BY StepHeap
<1>3. [HeapOfExtents!Next]_Extents =>
        [HeapOfExtents!Next]_({{<<x.page, x.index>>} : x \in Held}
                                \cup {Block(b[1], b[2]) \X Indices : b \in blocks})
  BY DEF Extents, Spot, Room
<1> QED  BY Invariant, <1>1, <1>2, <1>3, PTL DEF Spec, ImplementsHeap, HeapOfExtents!Spec

=============================================================================
