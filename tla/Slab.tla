-------------------------------- MODULE Slab --------------------------------
(***************************************************************************)
(* The allocators of objects over the pages (kernel/memory.c): kmalloc and *)
(* kfree over kmalloc_cache_size, and the caches of slab_create.  A call   *)
(* is one step: nothing here concerns two of them at once.                 *)
(*                                                                         *)
(* A slab is known by its page and an object by its slab and its index.    *)
(* The descriptor and the bit map of a slab are objects themselves, but    *)
(* for the pools slab_init makes and the slabs of small objects, which     *)
(* have them in a place of their own (InPlace).  That closes a circle: a   *)
(* kmalloc can call kmalloc_create, which calls kmalloc twice, which can   *)
(* call kmalloc_create again, for the small objects in InPage.             *)
(***************************************************************************)
EXTENDS PageAlloc

CONSTANTS Sizes,         \* kmalloc_cache_size, by the size of the objects
          InPage,        \* the sizes whose slabs hold their own descriptor: up to 512
          Caches,        \* the caches slab_create is called for
          Count,         \* PAGE_2M_SIZE / size, of every size and cache
          CreatedCount,  \* objects of a slab kmalloc_create makes; less for InPage
          PoolPage,      \* the place of a size in the order of the pools
          DescSize,      \* the size kmalloc takes for a struct Slab
          CacheSize,     \* the size it takes for a struct Slab_cache
          MapSize,       \* the size it takes for the bit map of each size and cache
          Numbers,       \* how many pages alloc_pages is called for
          MaxHeld        \* bound: objects and blocks held by callers, of each machine

Owners == Sizes \cup Caches

ASSUME SlabAssumption ==
    /\ Sizes \cap Caches = {} /\ InPage \subseteq Sizes
    /\ Count \in [Owners -> Nat \ {0}] /\ CreatedCount \in [Sizes -> Nat \ {0}]
    /\ \A size \in Sizes : CreatedCount[size] <= Count[size]
    /\ PoolPages = Cardinality(Sizes)
    /\ \A size \in Sizes : PoolPage[size] \in 1 .. PoolPages
    /\ \A a, b \in Sizes : PoolPage[a] = PoolPage[b] => a = b
    /\ DescSize \in InPage /\ CacheSize \in InPage
    /\ MapSize \in [Owners -> Sizes]
    /\ \A size \in Sizes : MapSize[size] \in InPage
    /\ Numbers \subseteq 1 .. 63 /\ MaxHeld \in [Machines -> Nat]

VARIABLES mem,      \* the record of PageAlloc with the caches and slabs as well
          made,     \* the struct Slab_cache of every cache, NoObject without one
          objects,  \* what kmalloc gave out and was not given back
          cached,   \* the same for slab_malloc, of every cache
          blocks    \* the same for alloc_pages: <<page, number>>

vars == <<machine, mem, made, objects, cached, blocks>>

NoObject == [page |-> Null, index |-> 0]
InPlace == [page |-> Null, index |-> 1]
NoSlab == [color_map |-> {}, using_count |-> 0, free_count |-> 0, color_count |-> 0,
           descriptor |-> NoObject, map |-> NoObject]

\* A slab none of whose n objects is in use.
NewSlab(n, using, descriptor, map) ==
    [color_map |-> {}, using_count |-> using, free_count |-> n, color_count |-> n,
     descriptor |-> descriptor, map |-> map]

\* The start: init_memory and slab_init.  list is the list of a cache from
\* cache_pool on.
Init ==
    /\ machine \in Machines
    /\ LET pool(size) == machine.last_page + PoolPage[size]
           pages == InitialMemory
       IN  mem = [bits_map |-> pages.bits_map,
                  page_using_count |-> pages.page_using_count,
                  page_free_count |-> pages.page_free_count,
                  reference_count |-> pages.reference_count,
                  total_pages_link |-> pages.total_pages_link,
                  list |-> [o \in Owners |-> IF o \in Sizes THEN <<pool(o)>> ELSE <<>>],
                  total_free |-> [o \in Owners |-> IF o \in Sizes THEN Count[o] ELSE 0],
                  total_using |-> [o \in Owners |-> 0],
                  slab |-> [p \in Pages |->
                              IF \E size \in Sizes : p = pool(size)
                              THEN LET size == CHOOSE s \in Sizes : p = pool(s)
                                   IN  NewSlab(Count[size], 0, InPlace, InPlace)
                              ELSE NoSlab],
                  fault |-> FALSE]
    /\ made = [s \in Caches |-> NoObject]
    /\ objects = {} /\ cached = [s \in Caches |-> {}] /\ blocks = {}

-----------------------------------------------------------------------------
(* Objects of a slab.                                                      *)

\* A page is appended to the list of o (list_add_to_before the pool) with its slab.
AddSlab(m, o, page, slab) ==
    [m EXCEPT !.list[o] = Append(@, page),
              !.total_free[o] = @ + slab.color_count,
              !.slab[page] = slab]

\* The same, behind the pool (list_add_to_behind).
AddSlabBehind(m, o, page, slab) ==
    [AddSlab(m, o, page, slab) EXCEPT
        !.list[o] = <<Head(m.list[o]), page>> \o Tail(m.list[o])]

\* list_del.
Without(list, page) == RemoveAt(list, CHOOSE i \in DOMAIN list : list[i] = page)

\* Variant: its objects are still counted.
UnlistedStillFree(m, o, page) ==
    [m EXCEPT !.list[o] = Without(@, page), !.slab[page] = NoSlab]

\* A slab leaves its list, and the count that goes with it.
Unlisted(m, o, page) ==
    [m EXCEPT !.list[o] = Without(@, page),
              !.total_free[o] = @ - m.slab[page].color_count,
              !.slab[page] = NoSlab]

\* Variant: the walk does not leave the pool.
PoolOnly(m, o) == Head(m.list[o])

\* The slab the walk from the pool stops at: the first with a free object, the pool
\* if there is none.
OpenSlab(m, o) ==
    LET open == {i \in DOMAIN m.list[o] : m.slab[m.list[o][i]].free_count # 0}
    IN  IF open = {} THEN Head(m.list[o])
        ELSE m.list[o][CHOOSE i \in open : \A j \in open : i <= j]

\* The first object of a slab whose bit is 0, and the counts.
Take(m, o, page) ==
    LET unused == (0 .. m.slab[page].color_count - 1) \ m.slab[page].color_map
        index == CHOOSE i \in unused : \A j \in unused : i <= j
    IN  IF unused = {} THEN [mem |-> m, object |-> NoObject]
        ELSE [mem |-> [m EXCEPT !.slab[page].color_map = @ \cup {index},
                                !.slab[page].using_count = @ + 1,
                                !.slab[page].free_count = @ - 1,
                                !.total_free[o] = @ - 1,
                                !.total_using[o] = @ + 1],
              object |-> [page |-> page, index |-> index]]

\* The bit of an object is turned over, and the counts.
PutBack(m, o, x) ==
    [m EXCEPT !.slab[x.page].color_map = (@ \ {x.index}) \cup ({x.index} \ @),
              !.slab[x.page].using_count = @ - 1,
              !.slab[x.page].free_count = @ + 1,
              !.total_free[o] = @ + 1,
              !.total_using[o] = @ - 1]

\* An empty slab, with half as many objects free elsewhere as it has.
Spare(m, o, page) ==
    /\ m.slab[page].using_count = 0
    /\ m.total_free[o] >= (m.slab[page].color_count * 3) \div 2

\* page_clean and free_pages of a slab's page.
ReturnPage(m, page) == free_pages(page_clean(m, page), page, 1)

-----------------------------------------------------------------------------
(* kmalloc and kfree.                                                      *)

NoMemory(m) == [mem |-> m, object |-> NoObject]

\* The rest of kmalloc with a slab from kmalloc_create.
TakeFromNew(m, size, page, descriptor, map) ==
    Take(AddSlab(m, size, page, NewSlab(CreatedCount[size], 0, descriptor, map)), size, page)

\* Without a free object: kmalloc_create for a size in InPage, whose descriptor is
\* in the page alloc_pages gave.
GrowInPage(alloc, size) ==
    IF alloc.page = Null THEN NoMemory(alloc.mem)
    ELSE TakeFromNew(page_init(alloc.mem, alloc.page), size, alloc.page, InPlace, InPlace)

KmallocInPage(m, size) ==
    IF m.total_free[size] # 0 THEN Take(m, size, OpenSlab(m, size))
    ELSE GrowInPage(alloc_pages(m, 1), size)

\* kmalloc_create for any other size: a page, a descriptor, a bit map.  It writes to
\* the last two whether kmalloc gave them or not.
GrowWithBoth(page, descriptor, map, size) ==
    IF NoObject \in {descriptor.object, map.object}
    THEN NoMemory([map.mem EXCEPT !.fault = TRUE])
    ELSE TakeFromNew(map.mem, size, page, descriptor.object, map.object)

GrowWithDescriptor(page, descriptor, size) ==
    GrowWithBoth(page, descriptor, KmallocInPage(descriptor.mem, MapSize[size]), size)

Grow(alloc, size) ==
    IF alloc.page = Null THEN NoMemory(alloc.mem)
    ELSE GrowWithDescriptor(alloc.page,
                            KmallocInPage(page_init(alloc.mem, alloc.page), DescSize), size)

\* kmalloc of an object of this size, or NULL.
kmalloc(m, size) ==
    IF size \in InPage THEN KmallocInPage(m, size)
    ELSE IF m.total_free[size] # 0 THEN Take(m, size, OpenSlab(m, size))
    ELSE Grow(alloc_pages(m, 1), size)

\* The size in one of whose slabs an object is.
OwnerOf(m, x) == CHOOSE size \in Sizes : x.page \in ToSet(m.list[size])

\* Whether kfree gives a slab back: never the pool.
Goes(m, size, page) == Spare(m, size, page) /\ page # Head(m.list[size])

SettleInPage(m, size, page) ==
    IF Goes(m, size, page) THEN ReturnPage(Unlisted(m, size, page), page) ELSE m

KfreeInPage(m, x) == SettleInPage(PutBack(m, OwnerOf(m, x), x), OwnerOf(m, x), x.page)

\* Variant: the bit map stays.
DropSlabKeepingMap(m, size, page) ==
    KfreeInPage(ReturnPage(Unlisted(m, size, page), page), m.slab[page].descriptor)

\* What a slab with a descriptor elsewhere takes with it: the bit map, the page, the
\* descriptor.
DropSlab(m, size, page) ==
    KfreeInPage(ReturnPage(KfreeInPage(Unlisted(m, size, page), m.slab[page].map), page),
                m.slab[page].descriptor)

Settle(m, size, page) == IF Goes(m, size, page) THEN DropSlab(m, size, page) ELSE m

kfree(m, x) ==
    IF OwnerOf(m, x) \in InPage THEN KfreeInPage(m, x)
    ELSE Settle(PutBack(m, OwnerOf(m, x), x), OwnerOf(m, x), x.page)

-----------------------------------------------------------------------------
(* The caches of slab_create.                                              *)

\* A descriptor, a page and a bit map for a slab of cache s.  Without the page or
\* the map what there is goes back, the page without page_clean.
NoParts(m) == [mem |-> m, page |-> Null, descriptor |-> NoObject, map |-> NoObject]

PartsWithMap(descriptor, page, map) ==
    IF map.mem.fault THEN NoParts(map.mem)
    ELSE IF map.object = NoObject THEN NoParts(kfree(free_pages(map.mem, page, 1), descriptor))
    ELSE [mem |-> map.mem, page |-> page, descriptor |-> descriptor, map |-> map.object]

PartsWithPage(descriptor, alloc, s) ==
    IF alloc.page = Null THEN NoParts(kfree(alloc.mem, descriptor))
    ELSE PartsWithMap(descriptor, alloc.page,
                      kmalloc(page_init(alloc.mem, alloc.page), MapSize[s]))

PartsWithDescriptor(descriptor, s) ==
    IF descriptor.object = NoObject THEN NoParts(descriptor.mem)
    ELSE PartsWithPage(descriptor.object, alloc_pages(descriptor.mem, 1), s)

Parts(m, s) == PartsWithDescriptor(kmalloc(m, DescSize), s)

\* Variant: the objects of the pool are counted as what they are.
UnusedAtFirst(s) == 0

\* The pool of a new cache starts with all its objects in use, by its using_count.
UsingAtFirst(s) == Count[s]

CreateWithParts(cache, parts, s) ==
    IF parts.mem.fault THEN NoMemory(parts.mem)
    ELSE IF parts.page = Null THEN NoMemory(kfree(parts.mem, cache))
    ELSE [mem |-> AddSlab(parts.mem, s, parts.page,
                          NewSlab(Count[s], UsingAtFirst(s), parts.descriptor, parts.map)),
          object |-> cache]

CreateWithCache(cache, s) ==
    IF cache.object = NoObject THEN NoMemory(cache.mem)
    ELSE CreateWithParts(cache.object, Parts(cache.mem, s), s)

slab_create(m, s) == CreateWithCache(kmalloc(m, CacheSize), s)

MallocWithParts(parts, s) ==
    IF parts.page = Null THEN NoMemory(parts.mem)
    ELSE Take(AddSlabBehind(parts.mem, s, parts.page,
                            NewSlab(Count[s], 0, parts.descriptor, parts.map)),
              s, parts.page)

slab_malloc(m, s) ==
    IF m.total_free[s] # 0 THEN Take(m, s, OpenSlab(m, s))
    ELSE MallocWithParts(Parts(m, s), s)

\* A slab of cache s goes: the bit map, the page, the descriptor.
DropCached(m, s, page) ==
    kfree(ReturnPage(kfree(Unlisted(m, s, page), m.slab[page].map), page),
          m.slab[page].descriptor)

\* The pool is no exception here; its using_count keeps it.
SettleCached(m, s, page) == IF Spare(m, s, page) THEN DropCached(m, s, page) ELSE m

slab_free(m, s, x) == SettleCached(PutBack(m, s, x), s, x.page)

\* All slabs from the pool on, and the struct Slab_cache.
slab_destroy(m, s) ==
    LET list == m.list[s]
        Dropped[i \in 0 .. Len(list)] ==
            IF i = 0 THEN m ELSE DropCached(Dropped[i - 1], s, list[i])
    IN  kfree(Dropped[Len(list)], made[s])

-----------------------------------------------------------------------------
(* The calls.  A caller gives back what it got, once.                      *)

Held == objects \cup UNION {cached[s] : s \in Caches}
MayCall == ~mem.fault
MayTake == MayCall /\ Cardinality(Held) + Cardinality(blocks) < MaxHeld[machine]

Got(x) == IF x = NoObject THEN {} ELSE {x}

Kmalloc(size) ==
    LET r == kmalloc(mem, size) IN
    /\ MayTake
    /\ mem' = r.mem /\ objects' = objects \cup Got(r.object)
    /\ UNCHANGED <<machine, made, cached, blocks>>

Kfree(x) ==
    /\ MayCall /\ x \in objects
    /\ mem' = kfree(mem, x) /\ objects' = objects \ {x}
    /\ UNCHANGED <<machine, made, cached, blocks>>

AllocPages(number) ==
    LET r == alloc_pages(mem, number) IN
    /\ MayTake
    /\ mem' = r.mem
    /\ blocks' = IF r.page = Null THEN blocks ELSE blocks \cup {<<r.page, number>>}
    /\ UNCHANGED <<machine, made, objects, cached>>

FreePages(b) ==
    /\ MayCall /\ b \in blocks
    /\ mem' = free_pages(mem, b[1], b[2]) /\ blocks' = blocks \ {b}
    /\ UNCHANGED <<machine, made, objects, cached>>

SlabCreate(s) ==
    LET r == slab_create(mem, s) IN
    /\ MayCall /\ made[s] = NoObject
    /\ mem' = r.mem /\ made' = [made EXCEPT ![s] = r.object]
    /\ UNCHANGED <<machine, objects, cached, blocks>>

SlabMalloc(s) ==
    LET r == slab_malloc(mem, s) IN
    /\ MayTake /\ made[s] # NoObject
    /\ mem' = r.mem /\ cached' = [cached EXCEPT ![s] = @ \cup Got(r.object)]
    /\ UNCHANGED <<machine, made, objects, blocks>>

SlabFree(s, x) ==
    /\ MayCall /\ x \in cached[s]
    /\ mem' = slab_free(mem, s, x) /\ cached' = [cached EXCEPT ![s] = @ \ {x}]
    /\ UNCHANGED <<machine, made, objects, blocks>>

\* It is refused while total_using is not 0.
SlabDestroy(s) ==
    /\ MayCall /\ made[s] # NoObject /\ mem.total_using[s] = 0
    /\ mem' = slab_destroy(mem, s) /\ made' = [made EXCEPT ![s] = NoObject]
    /\ UNCHANGED <<machine, objects, cached, blocks>>

Next ==
    \/ \E size \in Sizes : Kmalloc(size)
    \/ \E x \in objects : Kfree(x)
    \/ \E number \in Numbers : AllocPages(number)
    \/ \E b \in blocks : FreePages(b)
    \/ \E s \in Caches : SlabCreate(s) \/ SlabMalloc(s) \/ SlabDestroy(s)
    \/ \E s \in Caches : \E x \in cached[s] : SlabFree(s, x)

Spec == Init /\ [][Next]_vars

-----------------------------------------------------------------------------

\* What a state m of the memory says: the slabs of a size or cache, their objects
\* by the bit, the slabs whose descriptor and map are objects, and these.
SlabsOf(m, o) == ToSet(m.list[o])
Slabs(m) == UNION {SlabsOf(m, o) : o \in Owners}
Cells(page, indices) == {[page |-> page, index |-> i] : i \in indices}
InUse(m, o) == UNION {Cells(p, m.slab[p].color_map) : p \in SlabsOf(m, o)}
Unused(m, o) ==
    UNION {Cells(p, (0 .. m.slab[p].color_count - 1) \ m.slab[p].color_map) : p \in SlabsOf(m, o)}
Outside(m) == {p \in Slabs(m) : m.slab[p].descriptor # InPlace}
Part(m, p, k) == IF k = 1 THEN m.slab[p].descriptor ELSE m.slab[p].map
PartsIn(m) == {Part(m, p, k) : p \in Outside(m), k \in {1, 2}}

\* Pages without an owner below, pages of the blocks, and caches that are made.
Reserved == Unzoned \cup 1 .. machine.last_page
BlockPages == UNION {Block(b[1], b[2]) : b \in blocks}
Made == {s \in Caches : made[s] # NoObject}

TypeOK ==
    /\ mem.bits_map \subseteq Pages
    /\ mem.list \in [Owners -> Seq(Pages)]
    /\ mem.total_free \in [Owners -> Nat] /\ mem.total_using \in [Owners -> Nat]
    /\ mem.reference_count \in [Pages -> 0 .. 1]
    /\ \A p \in Pages : mem.slab[p].color_map \subseteq 0 .. mem.slab[p].color_count - 1
    /\ mem.fault \in BOOLEAN

\* The counts say what the bit maps say, of every slab and of every cache: a
\* total_free that is too high makes kmalloc look for an object that is not there
\* instead of making a slab.
CountsMatchMaps ==
    ~mem.fault =>
    \A o \in Owners :
        /\ \A p \in SlabsOf(mem, o) :
              LET s == mem.slab[p] IN s.free_count = s.color_count - Cardinality(s.color_map)
        /\ \A p \in SlabsOf(mem, o) : o \in Sizes =>
              mem.slab[p].using_count = Cardinality(mem.slab[p].color_map)
        /\ mem.total_free[o] = Cardinality(Unused(mem, o))
        /\ mem.total_using[o] = Cardinality(InUse(mem, o))

\* The objects whose bit is 1 are those that callers hold, the caches, and the
\* descriptors and bit maps of slabs: each has one owner, however the calls of
\* kmalloc and kfree within kmalloc, kfree and the slab functions nest; nothing is
\* lost, and no slab goes under an object in use.
EveryObjectHasOneOwner ==
    ~mem.fault =>
        /\ UNION {InUse(mem, size) : size \in Sizes}
              = objects \cup {made[s] : s \in Made} \cup PartsIn(mem)
        /\ objects \cap {made[s] : s \in Made} = {}
        /\ PartsIn(mem) \cap (objects \cup {made[s] : s \in Made}) = {}
        /\ \A s, t \in Made : made[s] = made[t] => s = t
        /\ \A p, q \in Outside(mem), j, k \in {1, 2} :
              Part(mem, p, j) = Part(mem, q, k) => p = q /\ j = k
        /\ \A s \in Caches : InUse(mem, s) = cached[s]

\* The same for pages: the bits that are 1 are those of what is no memory, of the
\* kernel, of the slabs, and of the blocks callers hold; no page has two owners.
EveryPageHasOneOwner ==
    ~mem.fault =>
        /\ mem.bits_map = Reserved \cup Slabs(mem) \cup BlockPages
        /\ Reserved \cap Slabs(mem) = {} /\ Reserved \cap BlockPages = {}
        /\ Slabs(mem) \cap BlockPages = {}
        /\ \A o \in Owners : \A i, j \in DOMAIN mem.list[o] :
              mem.list[o][i] = mem.list[o][j] => i = j
        /\ \A o, n \in Owners : o # n => SlabsOf(mem, o) \cap SlabsOf(mem, n) = {}
        /\ \A b, c \in blocks : b # c => Block(b[1], b[2]) \cap Block(c[1], c[2]) = {}

\* The sum of a sequence of counts.
Sum(f) ==
    LET UpTo[n \in 0 .. Len(f)] == IF n = 0 THEN 0 ELSE UpTo[n - 1] + f[n]
    IN  UpTo[Len(f)]
FreeIn(z) == ZonePages(zones[z]) \ mem.bits_map

\* The zones' counts add up to the pages there are.  A block that lies beyond the
\* zone searched is counted in the one and comes back in the other, so with more
\* than one zone only the sum is right.  The references are those of the kernel
\* and of slabs, and one that slab_create or slab_malloc, failing, forgot.
PagesAccounted ==
    /\ Sum(mem.page_free_count) = Sum([z \in DOMAIN zones |-> Cardinality(FreeIn(z))])
    /\ \A z \in DOMAIN zones : mem.page_free_count[z] + mem.page_using_count[z]
                                  = Cardinality(ZonePages(zones[z]))
    /\ \A z \in DOMAIN zones : mem.total_pages_link[z]
                  = Cardinality({p \in ZonePages(zones[z]) : mem.reference_count[p] = 1})
    /\ \A p \in Slabs(mem) \cup 0 .. machine.last_page : mem.reference_count[p] = 1

\* The books are right after every call, and calls that fail half-way: the counts of
\* every slab and every cache are those of its maps, and the free and used pages of
\* the zones add up to those of the bit map, in sum over the zones.  What one zone
\* counts as free need not be free there, and a page may keep a reference that
\* nothing holds (PagesAccounted says why).
BooksRight == TypeOK /\ CountsMatchMaps /\ PagesAccounted

\* Everything in use has one owner, objects and pages.
OneOwner == EveryObjectHasOneOwner /\ EveryPageHasOneOwner

\* With one zone, kmalloc gives NULL, or kmalloc_create uses a NULL descriptor or bit
\* map, only when no object of the size is free and no page is left, the one it has
\* taken itself included: its two searches, for a slab and for an object in it, miss
\* none.
KmallocFailsOnlyWhenFull ==
    ~mem.fault /\ Len(zones) = 1 =>
        \A size \in Sizes :
            LET r == kmalloc(mem, size)
            IN  r.object = NoObject =>
                    /\ ZonePages(zones[1]) \subseteq r.mem.bits_map
                    /\ \A p \in SlabsOf(mem, size) : Cardinality(mem.slab[p].color_map)
                                                   = mem.slab[p].color_count

\* cache_pool points at a slab that is there: the first slab of a list stays until
\* the cache is destroyed.  slab_free has no test for it and depends on the
\* using_count slab_create starts with.
PoolStays ==
    [][\A o \in Owners : mem.list[o] # <<>> =>
           \/ mem'.list[o] # <<>> /\ Head(mem'.list[o]) = Head(mem.list[o])
           \/ o \in Caches /\ made'[o] = NoObject]_vars

Indices == UNION {0 .. Count[o] - 1 : o \in Owners}
HeapOfExtents ==
    INSTANCE Heap WITH extents <-
        {{<<x.page, x.index>>} : x \in Held} \cup {Block(b[1], b[2]) \X Indices : b \in blocks}

\* Callers get what nobody else holds, and keep it.
ImplementsHeap == HeapOfExtents!Spec

=============================================================================
