--------------------------- MODULE ScreenProofs ---------------------------
(***************************************************************************)
(* Theorems about Screen, for every size of the screen, every table of     *)
(* layers and every window.  Most of them are about the operators of       *)
(* Layers: an operation on a controller that is Good leaves one that is    *)
(* Good.  layer.c never redraws everything, so what has to be shown is     *)
(* that the pixels an operation leaves alone had the right owner already.  *)
(***************************************************************************)
EXTENDS Screen, FiniteSetTheorems, WellFoundedInduction, TLAPS

-----------------------------------------------------------------------------
(* What a controller is between two operations.                            *)

IsController(c) ==
    c = [layers |-> c.layers, layers_addr |-> c.layers_addr, top |-> c.top,
         map |-> c.map, vram |-> c.vram]

IsLayer(lay) ==
    /\ lay = [flags |-> lay.flags, height |-> lay.height, vx0 |-> lay.vx0, vy0 |-> lay.vy0,
              bxsize |-> lay.bxsize, bysize |-> lay.bysize, col_inv |-> lay.col_inv,
              buf |-> lay.buf]
    /\ lay.vx0 \in Int /\ lay.vy0 \in Int
    /\ lay.bxsize \in Nat /\ lay.bysize \in Nat
    /\ IsBuffer(lay.buf, lay.bxsize, lay.bysize)

Typed(c) ==
    /\ IsController(c)
    /\ c.layers = [s \in LayerIds |-> c.layers[s]]
    /\ \A s \in LayerIds : IsLayer(c.layers[s])

Shown(c, s) == c.layers[s].height >= 0
Takes(c, s, p) == Covers(c.layers[s], p) /\ Opaque(c.layers[s], p)

\* layers_addr lists the shown layers, and each of them knows its place.
Stacked(c) ==
    /\ c.top \in -1 .. MAX_LAYERS - 1
    /\ \A h \in 0 .. c.top : /\ c.layers_addr[h] \in LayerIds
                             /\ c.layers[c.layers_addr[h]].height = h
    /\ \A s \in LayerIds :
          /\ c.layers[s].height \in -1 .. c.top
          /\ Shown(c, s) => /\ c.layers_addr[c.layers[s].height] = s
                            /\ c.layers[s].flags # "LAYER_NO_USE"

\* The highest layer that is opaque at a pixel, whose the pixel is in the map
\* and which it shows.
TopAt(c, p, s) ==
    /\ s \in LayerIds /\ Shown(c, s) /\ Takes(c, s, p)
    /\ \A r \in LayerIds : Shown(c, r) /\ Takes(c, r, p) =>
                               c.layers[r].height <= c.layers[s].height
Shows(c, p, s) == c.map[p] = s /\ c.vram[p] = PixelOf(c.layers[s], p)
Right(c, p) == \E s \in LayerIds : TopAt(c, p, s) /\ Shows(c, p, s)

\* The background is shown and opaque everywhere.
BackgroundThere(c) == Shown(c, Background) /\ \A p \in Pixels : Takes(c, Background, p)

Sound(c) == Typed(c) /\ Stacked(c) /\ BackgroundThere(c)
Good(c) == Sound(c) /\ \A p \in Pixels : Right(c, p)

-----------------------------------------------------------------------------
(* Lemmas.                                                                 *)

\* Every non-empty set of naturals has a least element.
LEMMA LeastNatural ==
    ASSUME NEW S \in SUBSET Nat, S # {}
    PROVE  \E k \in S : \A j \in S : k <= j
<1>1. \E k \in S : \A j \in S : <<j, k>> \notin OpToRel(<, Nat)
  BY WFMin, NatLessThanWellFounded
<1>2. PICK k \in S : \A j \in S : <<j, k>> \notin OpToRel(<, Nat)
  BY <1>1
<1>3. \A j \in S : ~(j < k)
  BY <1>2 DEF OpToRel
<1> QED  BY <1>3

LEMMA Ids == /\ LayerIds \subseteq Nat /\ Background \in LayerIds /\ Mouse \in LayerIds
             /\ MAX_LAYERS \in Nat /\ MAX_LAYERS >= 3
             /\ \A h \in Int : h \in LayerIds <=> 0 <= h /\ h < MAX_LAYERS
BY LayersAssumption DEF LayerIds, Background, Mouse

\* Heights are whole numbers, and no two shown layers have the same.
LEMMA Heights ==
    ASSUME NEW c, Stacked(c)
    PROVE  /\ c.top \in Int /\ \A s \in LayerIds : c.layers[s].height \in Int
           /\ \A r, s \in LayerIds :
                 Shown(c, r) /\ c.layers[r].height = c.layers[s].height => r = s
           /\ \A s \in LayerIds : Shown(c, s) => c.layers[s].height \in 0 .. c.top
<1>1. /\ c.top \in Int /\ \A s \in LayerIds : c.layers[s].height \in Int
      /\ \A s \in LayerIds : Shown(c, s) => c.layers[s].height \in 0 .. c.top
  BY LayersAssumption DEF Stacked, Shown
<1>2. ASSUME NEW r \in LayerIds, NEW s \in LayerIds, Shown(c, r),
             c.layers[r].height = c.layers[s].height
      PROVE  r = s
  BY <1>2 DEF Stacked, Shown
<1> QED  BY <1>1, <1>2

\* Where a layer is opaque there is a highest one.
LEMMA SomebodyOnTop ==
    ASSUME NEW c, Stacked(c), NEW p, NEW s \in LayerIds, Shown(c, s), Takes(c, s, p)
    PROVE  \E t \in LayerIds : TopAt(c, p, t)
<1> DEFINE D == {c.top - c.layers[r].height : r \in {q \in LayerIds : Shown(c, q) /\ Takes(c, q, p)}}
<1>1. D \in SUBSET Nat
  BY Heights
<1>2. c.top - c.layers[s].height \in D
  OBVIOUS
<1>3. PICK k \in D : \A j \in D : k <= j
  <2> HIDE DEF D
  <2> QED  BY <1>1, <1>2, LeastNatural
<1>4. PICK t \in LayerIds : Shown(c, t) /\ Takes(c, t, p) /\ k = c.top - c.layers[t].height
  BY <1>3
<1>5. ASSUME NEW r \in LayerIds, Shown(c, r), Takes(c, r, p)
      PROVE  c.layers[r].height <= c.layers[t].height
  <2>1. c.top - c.layers[t].height <= c.top - c.layers[r].height
    BY <1>3, <1>4, <1>5
  <2> QED  BY <2>1, Heights
<1> QED  BY <1>4, <1>5 DEF TopAt

\* There is one only.
LEMMA OneOnTop ==
    ASSUME NEW c, Stacked(c), NEW p, NEW s, NEW t, TopAt(c, p, s), TopAt(c, p, t)
    PROVE  s = t
<1>1. c.layers[s].height = c.layers[t].height
  BY Heights DEF TopAt
<1> QED  BY <1>1, Heights DEF TopAt

\* What a layer looks like does not depend on its height and flags.
SameLook(l, m) ==
    /\ l.vx0 = m.vx0 /\ l.vy0 = m.vy0 /\ l.bxsize = m.bxsize /\ l.bysize = m.bysize
    /\ l.col_inv = m.col_inv /\ l.buf = m.buf

LEMMA LooksTheSame ==
    ASSUME NEW l, NEW m, SameLook(l, m)
    PROVE  /\ AreaOf(l) = AreaOf(m)
           /\ \A p : /\ Covers(l, p) <=> Covers(m, p)
                     /\ Opaque(l, p) <=> Opaque(m, p)
                     /\ PixelOf(l, p) = PixelOf(m, p)
<1>1. AreaOf(l) = AreaOf(m)
  BY DEF SameLook, AreaOf
<1>2. \A p : PixelOf(l, p) = PixelOf(m, p)
  BY DEF SameLook, PixelOf
<1> QED  BY <1>1, <1>2 DEF SameLook, Covers, Opaque

-----------------------------------------------------------------------------
(* Repairs of the map and of the screen.                                   *)

\* They change nothing else.
LEMMA RemapFrame ==
    ASSUME NEW c, IsController(c), NEW area, NEW h0
    PROVE  LET d == layer_refreshmap(c, area, h0) IN
           /\ IsController(d) /\ d.layers = c.layers /\ d.layers_addr = c.layers_addr
           /\ d.top = c.top /\ d.vram = c.vram
BY DEF IsController, layer_refreshmap

LEMMA RedrawFrame ==
    ASSUME NEW c, IsController(c), NEW area, NEW h0, NEW h1
    PROVE  LET d == layer_refresh_area(c, area, h0, h1) IN
           /\ IsController(d) /\ d.layers = c.layers /\ d.layers_addr = c.layers_addr
           /\ d.top = c.top /\ d.map = c.map
BY DEF IsController, layer_refresh_area

\* Properties of a controller that do not speak of map and screen.
LEMMA SameLayers ==
    ASSUME NEW c, NEW d, IsController(d), d.layers = c.layers, d.layers_addr = c.layers_addr,
           d.top = c.top
    PROVE  /\ Typed(c) => Typed(d)
           /\ Stacked(c) => Stacked(d)
           /\ BackgroundThere(c) => BackgroundThere(d)
           /\ \A p, s : TopAt(c, p, s) <=> TopAt(d, p, s)
BY DEF Typed, Stacked, BackgroundThere, TopAt, Shown, Takes

\* A pixel is given to the highest layer, if that stands at h0 or above.
LEMMA RemapAt ==
    ASSUME NEW c, Typed(c), Stacked(c), NEW area, NEW h0 \in Nat,
           NEW p \in Pixels, NEW s, TopAt(c, p, s)
    PROVE  layer_refreshmap(c, area, h0).map[p] =
             IF In(area, p) /\ c.layers[s].height >= h0 THEN s ELSE c.map[p]
<1> DEFINE takers == {h \in h0 .. c.top : /\ In(area, p)
                                          /\ Covers(c.layers[c.layers_addr[h]], p)
                                          /\ Opaque(c.layers[c.layers_addr[h]], p)}
<1>1. layer_refreshmap(c, area, h0).map[p] =
        IF takers = {} THEN c.map[p]
        ELSE c.layers_addr[CHOOSE h \in takers : \A g \in takers : g <= h]
  BY DEF Typed, IsController, layer_refreshmap
<1>2. /\ s \in LayerIds /\ c.layers[s].height \in 0 .. c.top
      /\ c.layers_addr[c.layers[s].height] = s
      /\ Takes(c, s, p)
  BY Heights DEF TopAt, Stacked
<1>3. ASSUME NEW h \in takers
      PROVE  In(area, p) /\ h \in Int /\ h >= h0 /\ h <= c.layers[s].height
  <2>1. h \in 0 .. c.top /\ h >= h0 /\ In(area, p)
    BY Heights
  <2>2. /\ c.layers_addr[h] \in LayerIds /\ c.layers[c.layers_addr[h]].height = h
        /\ Takes(c, c.layers_addr[h], p)
    BY <2>1 DEF Stacked, Takes
  <2>3. h <= c.layers[s].height
    BY <2>1, <2>2 DEF TopAt, Shown
  <2> QED  BY <2>1, <2>3
<1>4. CASE In(area, p) /\ c.layers[s].height >= h0
  <2>1. c.layers[s].height \in takers
    BY <1>2, <1>4, Heights DEF Takes
  <2> HIDE DEF takers
  <2> DEFINE top == CHOOSE h \in takers : \A g \in takers : g <= h
  <2>2. top \in takers /\ \A g \in takers : g <= top
    BY <2>1, <1>3
  <2>3. top = c.layers[s].height
    <3> HIDE DEF top
    <3>1. top \in Int /\ top <= c.layers[s].height /\ c.layers[s].height <= top
      BY <2>1, <2>2, <1>3
    <3> QED  BY <3>1, <1>2
  <2> QED  BY <1>1, <1>2, <1>4, <2>1, <2>3
<1>5. CASE ~(In(area, p) /\ c.layers[s].height >= h0)
  <2>1. takers = {}
    <3> HIDE DEF takers
    <3>1. \A h \in takers : FALSE
      BY <1>2, <1>3, <1>5
    <3> QED  BY <3>1
  <2> QED  BY <1>1, <1>5, <2>1
<1> QED  BY <1>4, <1>5

\* A pixel is drawn by the layer it belongs to, if that stands between h0 and h1.
LEMMA RedrawAt ==
    ASSUME NEW c, Typed(c), Stacked(c), NEW area, NEW h0 \in Nat, NEW h1 \in Int, h1 <= c.top,
           NEW p \in Pixels, NEW s \in LayerIds, Shown(c, s), c.map[p] = s
    PROVE  layer_refresh_area(c, area, h0, h1).vram[p] =
             IF In(area, p) /\ c.layers[s].height \in h0 .. h1 /\ Covers(c.layers[s], p)
             THEN PixelOf(c.layers[s], p) ELSE c.vram[p]
<1>1. layer_refresh_area(c, area, h0, h1).vram[p] =
        IF In(area, p) /\ \E h \in h0 .. h1 : /\ c.layers_addr[h] = c.map[p]
                                              /\ Covers(c.layers[c.layers_addr[h]], p)
        THEN PixelOf(c.layers[c.map[p]], p) ELSE c.vram[p]
  BY DEF Typed, IsController, layer_refresh_area
<1>2. \A h \in h0 .. h1 : c.layers_addr[h] = s => h = c.layers[s].height
  BY Heights DEF Stacked
<1>3. c.layers_addr[c.layers[s].height] = s
  BY DEF Stacked
<1> QED  BY <1>1, <1>2, <1>3

\* A repair puts a pixel right if whoever is on top there is drawn by it or
\* shows there already.
LEMMA Repair ==
    ASSUME NEW d, Typed(d), Stacked(d), NEW area,
           NEW h \in Nat, NEW h0 \in Nat, NEW h1 \in Int, h <= h0, h1 <= d.top,
           NEW p \in Pixels, NEW t, TopAt(d, p, t),
           Shows(d, p, t) \/ (In(area, p) /\ d.layers[t].height \in h0 .. h1)
    PROVE  Right(Repaired(d, area, h, h0, h1), p)
<1> DEFINE m == layer_refreshmap(d, area, h)
           e == layer_refresh_area(m, area, h0, h1)
<1>1. /\ IsController(m) /\ m.layers = d.layers /\ m.layers_addr = d.layers_addr
      /\ m.top = d.top /\ m.vram = d.vram
  BY RemapFrame DEF Typed
<1>2. m.map[p] = IF In(area, p) /\ d.layers[t].height >= h THEN t ELSE d.map[p]
  BY RemapAt
<1> HIDE DEF m
<1>3. Typed(m) /\ Stacked(m) /\ TopAt(m, p, t)
  BY <1>1, SameLayers
<1>4. /\ IsController(e) /\ e.layers = m.layers /\ e.layers_addr = m.layers_addr
      /\ e.top = m.top /\ e.map = m.map
  BY <1>3, RedrawFrame DEF Typed
<1>5. d.layers[t].height \in Int /\ t \in LayerIds /\ Covers(d.layers[t], p)
  BY Heights DEF TopAt, Takes
<1>6. m.map[p] = t
  BY <1>2, <1>5 DEF Shows
<1>7. e.vram[p] = IF In(area, p) /\ m.layers[t].height \in h0 .. h1 /\ Covers(m.layers[t], p)
                  THEN PixelOf(m.layers[t], p) ELSE m.vram[p]
  BY <1>1, <1>3, <1>6, RedrawAt DEF TopAt
<1> HIDE DEF e
<1>8. e.vram[p] = PixelOf(e.layers[t], p)
  BY <1>1, <1>4, <1>5, <1>7 DEF Shows
<1>9. TopAt(e, p, t)
  BY <1>3, <1>4, SameLayers
<1>10. Right(e, p)
  BY <1>4, <1>5, <1>6, <1>8, <1>9 DEF Right, Shows
<1> QED  BY <1>10 DEF Repaired, m, e

-----------------------------------------------------------------------------
(* Heights.                                                                *)

\* Placed writes the entries it is given and tells them their heights.
PlacedIn(c, from, d) ==
    /\ Typed(d) /\ d.top = c.top /\ d.map = c.map /\ d.vram = c.vram
    /\ \A h \in LayerIds :
          d.layers_addr[h] = IF h \in DOMAIN from THEN from[h] ELSE c.layers_addr[h]
    /\ \A r \in LayerIds :
          /\ SameLook(c.layers[r], d.layers[r]) /\ d.layers[r].flags = c.layers[r].flags
          /\ (\E h \in DOMAIN from : from[h] = r) =>
                d.layers[r].height \in DOMAIN from /\ from[d.layers[r].height] = r
          /\ (\A h \in DOMAIN from : from[h] # r) => d.layers[r].height = c.layers[r].height

LEMMA PlacedAt ==
    ASSUME NEW c, Typed(c), NEW from, DOMAIN from \in SUBSET LayerIds
    PROVE  PlacedIn(c, from, Placed(c, from))
<1> DEFINE H == DOMAIN from
           d == Placed(c, from)
           addr == [h \in LayerIds |-> IF h \in H THEN from[h] ELSE c.layers_addr[h]]
           lay(r) == IF \E h \in H : addr[h] = r
                     THEN [c.layers[r] EXCEPT !.height = CHOOSE h \in H : addr[h] = r]
                     ELSE c.layers[r]
<1>1. /\ IsController(d) /\ d.top = c.top /\ d.map = c.map /\ d.vram = c.vram
      /\ d.layers_addr = addr /\ d.layers = [r \in LayerIds |-> lay(r)]
  <2>1. d = [c EXCEPT !.layers_addr = addr, !.layers = [r \in LayerIds |-> lay(r)]]
    BY DEF Placed
  <2> HIDE DEF addr, lay, d
  <2>2. IsController(c)
    BY DEF Typed
  <2> QED  BY <2>1, <2>2 DEF IsController
<1>2. \A h \in H : addr[h] = from[h]
  OBVIOUS
<1> HIDE DEF d
<1>3. ASSUME NEW r \in LayerIds
      PROVE  /\ IsLayer(d.layers[r])
             /\ SameLook(c.layers[r], d.layers[r]) /\ d.layers[r].flags = c.layers[r].flags
             /\ (\E h \in H : from[h] = r) =>
                   d.layers[r].height \in H /\ from[d.layers[r].height] = r
             /\ (\A h \in H : from[h] # r) => d.layers[r].height = c.layers[r].height
  <2>1. d.layers[r] = lay(r) /\ IsLayer(c.layers[r])
    BY <1>1 DEF Typed
  <2>2. CASE \E h \in H : addr[h] = r
    <3> DEFINE k == CHOOSE h \in H : addr[h] = r
    <3>1. k \in H /\ addr[k] = r
      BY <2>2
    <3>2. d.layers[r] = [c.layers[r] EXCEPT !.height = k]
      BY <2>1, <2>2
    <3> HIDE DEF k, addr
    <3>3. IsLayer(d.layers[r]) /\ SameLook(c.layers[r], d.layers[r])
          /\ d.layers[r].flags = c.layers[r].flags /\ d.layers[r].height = k
      BY <2>1, <3>2 DEF IsLayer, SameLook
    <3> QED  BY <3>1, <3>3, <1>2
  <2>3. CASE ~\E h \in H : addr[h] = r
    <3>1. d.layers[r] = c.layers[r]
      BY <2>1, <2>3
    <3> HIDE DEF addr
    <3> QED  BY <2>1, <2>3, <3>1, <1>2 DEF SameLook
  <2> QED  BY <2>2, <2>3
<1>4. Typed(d)
  BY <1>1, <1>3 DEF Typed
<1>5. \A h \in LayerIds : d.layers_addr[h] = IF h \in H THEN from[h] ELSE c.layers_addr[h]
  BY <1>1
<1>6. PlacedIn(c, from, d)
  <2> HIDE DEF addr, lay
  <2> QED  BY <1>1, <1>3, <1>4, <1>5 DEF PlacedIn
<1> QED  BY <1>6 DEF d

\* What a change of heights leaves: who is shown, how it looks, what is drawn.
Reheighted(c, d, s) ==
    /\ Typed(d) /\ d.map = c.map /\ d.vram = c.vram
    /\ \A r \in LayerIds : /\ SameLook(c.layers[r], d.layers[r])
                           /\ d.layers[r].flags = c.layers[r].flags
                           /\ r # s => (Shown(c, r) <=> Shown(d, r))

\* Downwards: the layers in between go up by one.
LEMMA LoweredAt ==
    ASSUME NEW c, Typed(c), Stacked(c), NEW s \in LayerIds, NEW height \in Nat,
           height < c.layers[s].height
    PROVE  LET old == c.layers[s].height
               d == Lowered(c, s, old, height)
           IN  /\ Reheighted(c, d, s) /\ Stacked(d) /\ d.top = c.top
               /\ \A r \in LayerIds :
                     d.layers[r].height = IF r = s THEN height
                                          ELSE IF c.layers[r].height \in height .. old - 1
                                          THEN c.layers[r].height + 1 ELSE c.layers[r].height
<1> DEFINE old == c.layers[s].height
           H == height .. old
           from == [h \in H |-> IF h = height THEN s ELSE c.layers_addr[h - 1]]
           d == Lowered(c, s, old, height)
           new(r) == IF r = s THEN height
                     ELSE IF c.layers[r].height \in height .. old - 1
                     THEN c.layers[r].height + 1 ELSE c.layers[r].height
<1>1. /\ old \in 0 .. c.top /\ H \subseteq 0 .. c.top /\ 0 .. c.top \subseteq LayerIds
      /\ H \in SUBSET LayerIds /\ c.top \in Int
  BY Heights, Ids DEF Stacked, Shown
<1>2. d = Placed(c, from)
  BY DEF Lowered
<1>3. DOMAIN from = H
  OBVIOUS
<1> HIDE DEF d
<1>4. /\ Typed(d) /\ d.top = c.top /\ d.map = c.map /\ d.vram = c.vram
      /\ \A h \in LayerIds : d.layers_addr[h] = IF h \in H THEN from[h] ELSE c.layers_addr[h]
      /\ \A r \in LayerIds :
            /\ SameLook(c.layers[r], d.layers[r]) /\ d.layers[r].flags = c.layers[r].flags
            /\ (\E h \in H : from[h] = r) =>
                  d.layers[r].height \in H /\ from[d.layers[r].height] = r
            /\ (\A h \in H : from[h] # r) => d.layers[r].height = c.layers[r].height
  <2> HIDE DEF from, H
  <2>1. PlacedIn(c, from, d)
    BY <1>1, <1>2, <1>3, PlacedAt
  <2> QED  BY <2>1, <1>3 DEF PlacedIn
<1>5. \A h \in H : from[h] = IF h = height THEN s ELSE c.layers_addr[h - 1]
  OBVIOUS
<1>6. \A h \in 0 .. c.top : /\ c.layers_addr[h] \in LayerIds
                            /\ c.layers[c.layers_addr[h]].height = h
  BY DEF Stacked
<1>7. \A r \in LayerIds : /\ c.layers[r].height \in -1 .. c.top /\ c.layers[r].height \in Int
                          /\ Shown(c, r) => c.layers_addr[c.layers[r].height] = r
                                            /\ c.layers[r].flags # "LAYER_NO_USE"
  BY <1>1 DEF Stacked
<1> HIDE DEF H, from
<1>8. ASSUME NEW r \in LayerIds PROVE d.layers[r].height = new(r)
  <2>1. CASE r = s
    <3>1. height \in H /\ from[height] = s
      BY <1>1, <1>5 DEF H
    <3>2. \A h \in H : from[h] = s => h = height
      BY <1>1, <1>5, <1>6 DEF H
    <3> QED  BY <2>1, <3>1, <3>2, <1>4
  <2>2. CASE r # s /\ c.layers[r].height \in height .. old - 1
    <3>1. /\ c.layers[r].height + 1 \in H /\ c.layers[r].height + 1 # height
          /\ c.layers_addr[c.layers[r].height] = r
      BY <2>2, <1>1, <1>7 DEF H, Shown
    <3>2. from[c.layers[r].height + 1] = r
      BY <2>2, <3>1, <1>5, <1>7
    <3>3. \A h \in H : from[h] = r => h = c.layers[r].height + 1
      BY <2>2, <1>1, <1>5, <1>6 DEF H
    <3> QED  BY <2>2, <3>1, <3>2, <3>3, <1>4
  <2>3. CASE r # s /\ c.layers[r].height \notin height .. old - 1
    <3>1. \A h \in H : from[h] # r
      BY <2>3, <1>1, <1>5, <1>6 DEF H
    <3> QED  BY <2>3, <3>1, <1>4
  <2> QED  BY <2>1, <2>2, <2>3
<1>9. Reheighted(c, d, s)
  BY <1>1, <1>4, <1>7, <1>8 DEF Reheighted, Shown
<1>10. ASSUME NEW h \in 0 .. d.top
       PROVE  d.layers_addr[h] \in LayerIds /\ d.layers[d.layers_addr[h]].height = h
  <2>1. h \in LayerIds /\ h \in 0 .. c.top
    BY <1>1, <1>4
  <2>2. CASE h = height
    BY <2>1, <2>2, <1>1, <1>4, <1>5, <1>8 DEF H
  <2>3. CASE h \in height + 1 .. old
    <3>1. d.layers_addr[h] = c.layers_addr[h - 1] /\ h - 1 \in 0 .. c.top /\ h - 1 # old
      BY <2>1, <2>3, <1>1, <1>4, <1>5 DEF H
    <3> QED  BY <2>3, <3>1, <1>1, <1>6, <1>8
  <2>4. CASE h \notin H
    <3>1. d.layers_addr[h] = c.layers_addr[h] /\ h # old /\ h \notin height .. old - 1
      BY <2>1, <2>4, <1>1, <1>4 DEF H
    <3> QED  BY <2>1, <3>1, <1>6, <1>8
  <2> QED  BY <2>1, <2>2, <2>3, <2>4, <1>1 DEF H
<1>11. ASSUME NEW r \in LayerIds
       PROVE  /\ d.layers[r].height \in -1 .. d.top
              /\ Shown(d, r) => /\ d.layers_addr[d.layers[r].height] = r
                                /\ d.layers[r].flags # "LAYER_NO_USE"
  <2>1. d.layers[r].height \in -1 .. d.top
    BY <1>1, <1>4, <1>7, <1>8
  <2>2. ASSUME Shown(d, r) PROVE Shown(c, r) /\ d.layers[r].flags # "LAYER_NO_USE"
    BY <2>2, <1>1, <1>4, <1>7, <1>8 DEF Shown
  <2>3. ASSUME Shown(d, r) PROVE d.layers_addr[d.layers[r].height] = r
    <3>1. d.layers[r].height \in LayerIds /\ d.layers[r].height \in 0 .. c.top
      BY <2>1, <2>3, <1>1, <1>4 DEF Shown
    <3>2. CASE r = s
      BY <3>1, <3>2, <1>1, <1>4, <1>5, <1>8 DEF H
    <3>3. CASE r # s /\ c.layers[r].height \in height .. old - 1
      <4>1. /\ d.layers[r].height = c.layers[r].height + 1 /\ d.layers[r].height \in H
            /\ d.layers[r].height # height
        BY <3>3, <1>1, <1>7, <1>8 DEF H
      <4>2. from[d.layers[r].height] = c.layers_addr[c.layers[r].height]
        BY <4>1, <1>5, <1>7
      <4> QED  BY <4>1, <4>2, <3>1, <2>2, <2>3, <1>4, <1>7
    <3>4. CASE r # s /\ c.layers[r].height \notin height .. old - 1
      <4>1. c.layers[r].height # old
        BY <3>4, <1>1, <2>2, <2>3, Heights
      <4>2. d.layers[r].height = c.layers[r].height /\ d.layers[r].height \notin H
        BY <3>4, <4>1, <1>1, <1>7, <1>8 DEF H
      <4> QED  BY <4>2, <3>1, <2>2, <2>3, <1>4, <1>7
    <3> QED  BY <3>2, <3>3, <3>4
  <2> QED  BY <2>1, <2>2, <2>3
<1>12. Stacked(d)
  BY <1>1, <1>4, <1>10, <1>11 DEF Stacked
<1> QED  BY <1>4, <1>8, <1>9, <1>12 DEF d

\* Out of sight: those above come down by one.
LEMMA HiddenAt ==
    ASSUME NEW c, Typed(c), Stacked(c), NEW s \in LayerIds, Shown(c, s)
    PROVE  LET old == c.layers[s].height
               d == Hidden(c, s, old)
           IN  /\ Reheighted(c, d, s) /\ Stacked(d) /\ d.top = c.top - 1
               /\ \A r \in LayerIds :
                     d.layers[r].height = IF r = s THEN -1
                                          ELSE IF c.layers[r].height > old
                                          THEN c.layers[r].height - 1 ELSE c.layers[r].height
<1> DEFINE old == c.layers[s].height
           H == old .. c.top - 1
           from == [h \in H |-> c.layers_addr[h + 1]]
           e == Placed(c, from)
           d == Hidden(c, s, old)
           new(r) == IF r = s THEN -1
                     ELSE IF c.layers[r].height > old
                     THEN c.layers[r].height - 1 ELSE c.layers[r].height
<1>1. /\ old \in 0 .. c.top /\ H \subseteq 0 .. c.top /\ 0 .. c.top \subseteq LayerIds
      /\ H \in SUBSET LayerIds /\ c.top \in Int
  BY Heights, Ids DEF Stacked, Shown
<1>2. d = [e EXCEPT !.top = @ - 1, !.layers[s].height = -1]
  BY DEF Hidden
<1>3. DOMAIN from = H /\ \A h \in H : from[h] = c.layers_addr[h + 1]
  OBVIOUS
<1> HIDE DEF d, e
<1>4. PlacedIn(c, from, e)
  <2> HIDE DEF from, H
  <2> QED  BY <1>1, <1>3, PlacedAt DEF e
<1>5. /\ Typed(d) /\ d.top = c.top - 1 /\ d.map = c.map /\ d.vram = c.vram
      /\ d.layers_addr = e.layers_addr
      /\ \A r \in LayerIds :
            /\ SameLook(c.layers[r], d.layers[r]) /\ d.layers[r].flags = c.layers[r].flags
            /\ d.layers[r].height = IF r = s THEN -1 ELSE e.layers[r].height
  <2>1. Typed(e) /\ e.top = c.top /\ e.map = c.map /\ e.vram = c.vram
    BY <1>4 DEF PlacedIn
  <2>2. /\ IsController(d) /\ d.top = e.top - 1 /\ d.map = e.map /\ d.vram = e.vram
        /\ d.layers_addr = e.layers_addr
        /\ d.layers = [r \in LayerIds |-> IF r = s THEN [e.layers[s] EXCEPT !.height = -1]
                                          ELSE e.layers[r]]
    BY <1>2, <2>1 DEF Typed, IsController
  <2>3. IsLayer(e.layers[s]) /\ d.layers[s] = [e.layers[s] EXCEPT !.height = -1]
    BY <2>1, <2>2 DEF Typed
  <2>4. /\ IsLayer(d.layers[s]) /\ SameLook(e.layers[s], d.layers[s])
        /\ d.layers[s].flags = e.layers[s].flags /\ d.layers[s].height = -1
    BY <2>3 DEF IsLayer, SameLook
  <2>5. \A r \in LayerIds : /\ SameLook(c.layers[r], e.layers[r])
                            /\ e.layers[r].flags = c.layers[r].flags
    BY <1>4 DEF PlacedIn
  <2>6. \A r \in LayerIds : r # s => d.layers[r] = e.layers[r]
    BY <2>2
  <2>7. Typed(d)
    BY <2>1, <2>2, <2>4, <2>6 DEF Typed
  <2> QED  BY <2>1, <2>2, <2>4, <2>5, <2>6, <2>7 DEF SameLook
<1>6. \A h \in 0 .. c.top : /\ c.layers_addr[h] \in LayerIds
                            /\ c.layers[c.layers_addr[h]].height = h
  BY DEF Stacked
<1>7. \A r \in LayerIds : /\ c.layers[r].height \in -1 .. c.top /\ c.layers[r].height \in Int
                          /\ Shown(c, r) => c.layers_addr[c.layers[r].height] = r
                                            /\ c.layers[r].flags # "LAYER_NO_USE"
  BY <1>1 DEF Stacked
<1> HIDE DEF H, from
<1>8. ASSUME NEW r \in LayerIds PROVE d.layers[r].height = new(r)
  <2>1. CASE r = s
    BY <2>1, <1>5
  <2>2. CASE r # s /\ c.layers[r].height > old
    <3>1. /\ c.layers[r].height - 1 \in H /\ c.layers_addr[c.layers[r].height] = r
      BY <2>2, <1>1, <1>7 DEF H, Shown
    <3>2. from[c.layers[r].height - 1] = r
      BY <2>2, <3>1, <1>3, <1>7
    <3>3. \A h \in H : from[h] = r => h = c.layers[r].height - 1
      BY <2>2, <1>1, <1>3, <1>6 DEF H
    <3>4. e.layers[r].height \in H /\ from[e.layers[r].height] = r
      BY <3>1, <3>2, <1>3, <1>4 DEF PlacedIn
    <3> QED  BY <2>2, <3>3, <3>4, <1>5
  <2>3. CASE r # s /\ ~(c.layers[r].height > old)
    <3>1. \A h \in H : from[h] # r
      BY <2>3, <1>1, <1>3, <1>6 DEF H
    <3>2. e.layers[r].height = c.layers[r].height
      BY <3>1, <1>3, <1>4 DEF PlacedIn
    <3> QED  BY <2>3, <3>2, <1>5
  <2> QED  BY <2>1, <2>2, <2>3
<1>9. \A h \in 0 .. c.top : d.layers_addr[h] = IF h \in H THEN c.layers_addr[h + 1]
                                               ELSE c.layers_addr[h]
  BY <1>1, <1>3, <1>4, <1>5 DEF PlacedIn
<1>10. Reheighted(c, d, s)
  BY <1>1, <1>5, <1>7, <1>8 DEF Reheighted, Shown
<1>11. ASSUME NEW h \in 0 .. d.top
       PROVE  d.layers_addr[h] \in LayerIds /\ d.layers[d.layers_addr[h]].height = h
  <2>1. CASE h >= old
    <3>1. d.layers_addr[h] = c.layers_addr[h + 1] /\ h + 1 \in 0 .. c.top
      BY <2>1, <1>1, <1>5, <1>9 DEF H
    <3>2. /\ d.layers_addr[h] \in LayerIds
          /\ c.layers[d.layers_addr[h]].height = h + 1 /\ h + 1 > old
      BY <2>1, <3>1, <1>1, <1>6
    <3>3. new(d.layers_addr[h]) = h
      BY <3>2, <1>1
    <3> QED  BY <3>2, <3>3, <1>8
  <2>2. CASE h < old
    <3>1. d.layers_addr[h] = c.layers_addr[h] /\ h \in 0 .. c.top
      BY <2>2, <1>1, <1>5, <1>9 DEF H
    <3>2. d.layers_addr[h] \in LayerIds /\ c.layers[d.layers_addr[h]].height = h
      BY <3>1, <1>6
    <3>3. new(d.layers_addr[h]) = h
      BY <2>2, <3>2, <1>1
    <3> QED  BY <3>2, <3>3, <1>8
  <2> QED  BY <2>1, <2>2, <1>1
<1>12. ASSUME NEW r \in LayerIds
       PROVE  /\ d.layers[r].height \in -1 .. d.top
              /\ Shown(d, r) => /\ d.layers_addr[d.layers[r].height] = r
                                /\ d.layers[r].flags # "LAYER_NO_USE"
  <2>1. r # s => c.layers[r].height # old
    BY <1>1, Heights
  <2>2. d.layers[r].height \in -1 .. d.top
    BY <2>1, <1>1, <1>5, <1>7, <1>8
  <2>3. ASSUME Shown(d, r)
        PROVE  r # s /\ Shown(c, r) /\ d.layers[r].flags # "LAYER_NO_USE"
    BY <2>3, <1>1, <1>5, <1>7, <1>8 DEF Shown
  <2>4. ASSUME Shown(d, r) PROVE d.layers_addr[d.layers[r].height] = r
    <3>1. CASE c.layers[r].height > old
      <4>1. /\ d.layers[r].height \in H /\ d.layers[r].height \in 0 .. c.top
            /\ d.layers[r].height + 1 = c.layers[r].height
        BY <3>1, <2>3, <2>4, <1>1, <1>7, <1>8 DEF H
      <4>2. d.layers_addr[d.layers[r].height] = c.layers_addr[d.layers[r].height + 1]
        BY <4>1, <1>9
      <4> QED  BY <4>1, <4>2, <2>3, <2>4, <1>7
    <3>2. CASE ~(c.layers[r].height > old)
      <4>1. d.layers[r].height = c.layers[r].height /\ d.layers[r].height \notin H
            /\ d.layers[r].height \in 0 .. c.top
        BY <3>2, <2>1, <2>3, <2>4, <1>1, <1>7, <1>8 DEF H, Shown
      <4> QED  BY <4>1, <2>3, <2>4, <1>7, <1>9
    <3> QED  BY <3>1, <3>2
  <2> QED  BY <2>2, <2>3, <2>4
<1>13. Stacked(d)
  BY <1>1, <1>5, <1>11, <1>12, Ids DEF Stacked
<1> QED  BY <1>5, <1>8, <1>10, <1>13 DEF d

\* Upwards: the layers in between come down by one.
LEMMA RaisedAt ==
    ASSUME NEW c, Typed(c), Stacked(c), NEW s \in LayerIds, Shown(c, s),
           NEW height \in 0 .. c.top, height > c.layers[s].height
    PROVE  LET old == c.layers[s].height
               d == Raised(c, s, old, height)
           IN  /\ Reheighted(c, d, s) /\ Stacked(d) /\ d.top = c.top
               /\ \A r \in LayerIds :
                     d.layers[r].height = IF r = s THEN height
                                          ELSE IF c.layers[r].height \in old + 1 .. height
                                          THEN c.layers[r].height - 1 ELSE c.layers[r].height
<1> DEFINE old == c.layers[s].height
           H == old .. height
           from == [h \in H |-> IF h = height THEN s ELSE c.layers_addr[h + 1]]
           d == Raised(c, s, old, height)
           new(r) == IF r = s THEN height
                     ELSE IF c.layers[r].height \in old + 1 .. height
                     THEN c.layers[r].height - 1 ELSE c.layers[r].height
<1>1. /\ old \in 0 .. c.top /\ H \subseteq 0 .. c.top /\ 0 .. c.top \subseteq LayerIds
      /\ H \in SUBSET LayerIds /\ c.top \in Int
  BY Heights, Ids DEF Stacked, Shown
<1>2. d = Placed(c, from)
  BY DEF Raised
<1>3. DOMAIN from = H
  OBVIOUS
<1> HIDE DEF d
<1>4. /\ Typed(d) /\ d.top = c.top /\ d.map = c.map /\ d.vram = c.vram
      /\ \A h \in LayerIds : d.layers_addr[h] = IF h \in H THEN from[h] ELSE c.layers_addr[h]
      /\ \A r \in LayerIds :
            /\ SameLook(c.layers[r], d.layers[r]) /\ d.layers[r].flags = c.layers[r].flags
            /\ (\E h \in H : from[h] = r) =>
                  d.layers[r].height \in H /\ from[d.layers[r].height] = r
            /\ (\A h \in H : from[h] # r) => d.layers[r].height = c.layers[r].height
  <2> HIDE DEF from, H
  <2>1. PlacedIn(c, from, d)
    BY <1>1, <1>2, <1>3, PlacedAt
  <2> QED  BY <2>1, <1>3 DEF PlacedIn
<1>5. \A h \in H : from[h] = IF h = height THEN s ELSE c.layers_addr[h + 1]
  OBVIOUS
<1>6. \A h \in 0 .. c.top : /\ c.layers_addr[h] \in LayerIds
                            /\ c.layers[c.layers_addr[h]].height = h
  BY DEF Stacked
<1>7. \A r \in LayerIds : /\ c.layers[r].height \in -1 .. c.top /\ c.layers[r].height \in Int
                          /\ Shown(c, r) => c.layers_addr[c.layers[r].height] = r
                                            /\ c.layers[r].flags # "LAYER_NO_USE"
  BY <1>1 DEF Stacked
<1> HIDE DEF H, from
<1>8. ASSUME NEW r \in LayerIds PROVE d.layers[r].height = new(r)
  <2>1. CASE r = s
    <3>1. height \in H /\ from[height] = s
      BY <1>1, <1>5 DEF H
    <3>2. \A h \in H : from[h] = s => h = height
      BY <1>1, <1>5, <1>6 DEF H
    <3> QED  BY <2>1, <3>1, <3>2, <1>4
  <2>2. CASE r # s /\ c.layers[r].height \in old + 1 .. height
    <3>1. /\ c.layers[r].height - 1 \in H /\ c.layers[r].height - 1 # height
          /\ c.layers_addr[c.layers[r].height] = r
      BY <2>2, <1>1, <1>7 DEF H, Shown
    <3>2. from[c.layers[r].height - 1] = r
      BY <2>2, <3>1, <1>5, <1>7
    <3>3. \A h \in H : from[h] = r => h = c.layers[r].height - 1
      BY <2>2, <1>1, <1>5, <1>6 DEF H
    <3> QED  BY <2>2, <3>1, <3>2, <3>3, <1>4
  <2>3. CASE r # s /\ c.layers[r].height \notin old + 1 .. height
    <3>1. \A h \in H : from[h] # r
      BY <2>3, <1>1, <1>5, <1>6 DEF H
    <3> QED  BY <2>3, <3>1, <1>4
  <2> QED  BY <2>1, <2>2, <2>3
<1>9. Reheighted(c, d, s)
  BY <1>1, <1>4, <1>7, <1>8 DEF Reheighted, Shown
<1>10. ASSUME NEW h \in 0 .. d.top
       PROVE  d.layers_addr[h] \in LayerIds /\ d.layers[d.layers_addr[h]].height = h
  <2>1. h \in LayerIds /\ h \in 0 .. c.top
    BY <1>1, <1>4
  <2>2. CASE h = height
    BY <2>1, <2>2, <1>1, <1>4, <1>5, <1>8 DEF H
  <2>3. CASE h \in old .. height - 1
    <3>1. d.layers_addr[h] = c.layers_addr[h + 1] /\ h + 1 \in 0 .. c.top /\ h + 1 # old
      BY <2>1, <2>3, <1>1, <1>4, <1>5 DEF H
    <3>2. d.layers_addr[h] \in LayerIds /\ c.layers[d.layers_addr[h]].height = h + 1
      BY <3>1, <1>6
    <3>3. new(d.layers_addr[h]) = h
      BY <2>3, <3>1, <3>2, <1>1
    <3> QED  BY <3>2, <3>3, <1>8
  <2>4. CASE h \notin H
    <3>1. d.layers_addr[h] = c.layers_addr[h] /\ h # old /\ h \notin old + 1 .. height
      BY <2>1, <2>4, <1>1, <1>4 DEF H
    <3> QED  BY <2>1, <3>1, <1>6, <1>8
  <2> QED  BY <2>1, <2>2, <2>3, <2>4, <1>1 DEF H
<1>11. ASSUME NEW r \in LayerIds
       PROVE  /\ d.layers[r].height \in -1 .. d.top
              /\ Shown(d, r) => /\ d.layers_addr[d.layers[r].height] = r
                                /\ d.layers[r].flags # "LAYER_NO_USE"
  <2>1. d.layers[r].height \in -1 .. d.top
    BY <1>1, <1>4, <1>7, <1>8
  <2>2. ASSUME Shown(d, r) PROVE Shown(c, r) /\ d.layers[r].flags # "LAYER_NO_USE"
    BY <2>2, <1>1, <1>4, <1>7, <1>8 DEF Shown
  <2>3. ASSUME Shown(d, r) PROVE d.layers_addr[d.layers[r].height] = r
    <3>1. d.layers[r].height \in LayerIds /\ d.layers[r].height \in 0 .. c.top
      BY <2>1, <2>3, <1>1, <1>4 DEF Shown
    <3>2. CASE r = s
      BY <3>1, <3>2, <1>1, <1>4, <1>5, <1>8 DEF H
    <3>3. CASE r # s /\ c.layers[r].height \in old + 1 .. height
      <4>1. /\ d.layers[r].height = c.layers[r].height - 1 /\ d.layers[r].height \in H
            /\ d.layers[r].height # height
        BY <3>3, <1>1, <1>7, <1>8 DEF H
      <4>2. from[d.layers[r].height] = c.layers_addr[c.layers[r].height]
        BY <4>1, <1>5, <1>7
      <4> QED  BY <4>1, <4>2, <3>1, <2>2, <2>3, <1>4, <1>7
    <3>4. CASE r # s /\ c.layers[r].height \notin old + 1 .. height
      <4>1. c.layers[r].height # old
        BY <3>4, <1>1, <2>2, <2>3, Heights
      <4>2. d.layers[r].height = c.layers[r].height /\ d.layers[r].height \notin H
        BY <3>4, <4>1, <1>1, <1>7, <1>8 DEF H
      <4> QED  BY <4>2, <3>1, <2>2, <2>3, <1>4, <1>7
    <3> QED  BY <3>2, <3>3, <3>4
  <2> QED  BY <2>1, <2>2, <2>3
<1>12. Stacked(d)
  BY <1>1, <1>4, <1>10, <1>11 DEF Stacked
<1> QED  BY <1>4, <1>8, <1>9, <1>12 DEF d

\* While a layer is not shown there is room in layers_addr for it.
LEMMA Room ==
    ASSUME NEW c, Stacked(c), NEW s \in LayerIds, ~Shown(c, s)
    PROVE  c.top + 1 \in LayerIds
<1> DEFINE f == [h \in 0 .. c.top |-> c.layers_addr[h]]
           others == LayerIds \ {s}
<1>1. c.top \in Int /\ c.top >= -1 /\ c.top <= MAX_LAYERS - 1
  BY Ids DEF Stacked
<1>2. f \in [0 .. c.top -> others]
  <2>1. \A h \in 0 .. c.top : c.layers_addr[h] \in LayerIds /\ c.layers_addr[h] # s
    BY <1>1 DEF Stacked, Shown
  <2> QED  BY <2>1
<1>3. \A g, h \in 0 .. c.top : f[g] = f[h] => g = h
  BY DEF Stacked
<1>4. IsFiniteSet(others) /\ Cardinality(others) = MAX_LAYERS - 1
  <2> DEFINE last == MAX_LAYERS - 1
  <2>1. 0 \in Int /\ last \in Int /\ last >= 0 /\ last + 1 = MAX_LAYERS
    BY Ids
  <2>2. LayerIds = 0 .. last
    BY DEF LayerIds
  <2> HIDE DEF last
  <2>3. IsFiniteSet(0 .. last) /\ Cardinality(0 .. last) = last + 1
    BY <2>1, FS_Interval
  <2>4. IsFiniteSet(LayerIds) /\ Cardinality(LayerIds) = last + 1
    BY <2>2, <2>3, Zenon
  <2>5. Cardinality(others) = Cardinality(LayerIds) - 1 /\ IsFiniteSet(others)
    BY <2>4, FS_RemoveElement
  <2> QED  BY <2>1, <2>4, <2>5 DEF last
<1>5. IsFiniteSet(0 .. c.top) /\ Cardinality(0 .. c.top) = c.top + 1
  BY <1>1, FS_Interval
<1> HIDE DEF f, others
<1>6. ~(Cardinality(others) < Cardinality(0 .. c.top))
  <2> SUFFICES ASSUME Cardinality(others) < Cardinality(0 .. c.top) PROVE FALSE
    OBVIOUS
  <2>1. \E g, h \in 0 .. c.top : g # h /\ f[g] = f[h]
    BY <1>2, <1>4, <1>5, FS_PigeonHole
  <2> QED  BY <2>1, <1>3
<1> QED  BY <1>1, <1>4, <1>5, <1>6, Ids

\* Into sight: the layers from the height on go up by one.
LEMMA InsertedAt ==
    ASSUME NEW c, Typed(c), Stacked(c), NEW s \in LayerIds, ~Shown(c, s),
           c.layers[s].flags # "LAYER_NO_USE",
           NEW height \in 0 .. c.top + 1
    PROVE  LET d == Inserted(c, s, height)
           IN  /\ Reheighted(c, d, s) /\ Stacked(d) /\ d.top = c.top + 1
               /\ \A r \in LayerIds :
                     d.layers[r].height = IF r = s THEN height
                                          ELSE IF c.layers[r].height >= height
                                          THEN c.layers[r].height + 1 ELSE c.layers[r].height
<1> DEFINE H == height .. c.top + 1
           from == [h \in H |-> IF h = height THEN s ELSE c.layers_addr[h - 1]]
           e == Placed(c, from)
           d == Inserted(c, s, height)
           new(r) == IF r = s THEN height
                     ELSE IF c.layers[r].height >= height
                     THEN c.layers[r].height + 1 ELSE c.layers[r].height
<1>1. /\ H \subseteq 0 .. c.top + 1 /\ 0 .. c.top + 1 \subseteq LayerIds
      /\ H \in SUBSET LayerIds /\ c.top \in Int /\ c.top >= -1
      /\ c.layers[s].height = -1
  BY Heights, Ids, Room DEF Stacked, Shown
<1>2. d = [e EXCEPT !.top = @ + 1]
  BY DEF Inserted
<1>3. /\ DOMAIN from = H
      /\ \A h \in H : from[h] = IF h = height THEN s ELSE c.layers_addr[h - 1]
  OBVIOUS
<1> HIDE DEF d, e
<1>4. PlacedIn(c, from, e)
  <2> HIDE DEF from, H
  <2> QED  BY <1>1, <1>3, PlacedAt DEF e
<1>5. /\ Typed(d) /\ d.top = c.top + 1 /\ d.map = c.map /\ d.vram = c.vram
      /\ d.layers_addr = e.layers_addr /\ d.layers = e.layers
      /\ \A r \in LayerIds :
            SameLook(c.layers[r], d.layers[r]) /\ d.layers[r].flags = c.layers[r].flags
  <2>1. Typed(e) /\ e.top = c.top /\ e.map = c.map /\ e.vram = c.vram
    BY <1>4 DEF PlacedIn
  <2>2. /\ IsController(d) /\ d.top = e.top + 1 /\ d.map = e.map /\ d.vram = e.vram
        /\ d.layers_addr = e.layers_addr /\ d.layers = e.layers
    BY <1>2, <2>1 DEF Typed, IsController
  <2>3. Typed(d)
    BY <2>1, <2>2 DEF Typed
  <2>4. \A r \in LayerIds : /\ SameLook(c.layers[r], e.layers[r])
                            /\ e.layers[r].flags = c.layers[r].flags
    BY <1>4 DEF PlacedIn
  <2> QED  BY <2>1, <2>2, <2>3, <2>4
<1>6. \A h \in 0 .. c.top : /\ c.layers_addr[h] \in LayerIds
                            /\ c.layers[c.layers_addr[h]].height = h
  BY DEF Stacked
<1>7. \A r \in LayerIds : /\ c.layers[r].height \in -1 .. c.top /\ c.layers[r].height \in Int
                          /\ Shown(c, r) => c.layers_addr[c.layers[r].height] = r
                                            /\ c.layers[r].flags # "LAYER_NO_USE"
  BY <1>1 DEF Stacked
<1> HIDE DEF H, from
<1>8. ASSUME NEW r \in LayerIds PROVE d.layers[r].height = new(r)
  <2>1. CASE r = s
    <3>1. height \in H /\ from[height] = s
      BY <1>1, <1>3 DEF H
    <3>2. \A h \in H : from[h] = s => h = height
      BY <1>1, <1>3, <1>6 DEF H
    <3>3. e.layers[s].height \in H /\ from[e.layers[s].height] = s
      BY <3>1, <1>3, <1>4 DEF PlacedIn
    <3> QED  BY <2>1, <3>2, <3>3, <1>5
  <2>2. CASE r # s /\ c.layers[r].height >= height
    <3>1. /\ c.layers[r].height + 1 \in H /\ c.layers[r].height + 1 # height
          /\ c.layers_addr[c.layers[r].height] = r
      BY <2>2, <1>1, <1>7 DEF H, Shown
    <3>2. from[c.layers[r].height + 1] = r
      BY <2>2, <3>1, <1>3, <1>7
    <3>3. \A h \in H : from[h] = r => h = c.layers[r].height + 1
      BY <2>2, <1>1, <1>3, <1>6 DEF H
    <3>4. e.layers[r].height \in H /\ from[e.layers[r].height] = r
      BY <3>1, <3>2, <1>3, <1>4 DEF PlacedIn
    <3> QED  BY <2>2, <3>3, <3>4, <1>5
  <2>3. CASE r # s /\ ~(c.layers[r].height >= height)
    <3>1. \A h \in H : from[h] # r
      BY <2>3, <1>1, <1>3, <1>6 DEF H
    <3>2. e.layers[r].height = c.layers[r].height
      BY <3>1, <1>3, <1>4 DEF PlacedIn
    <3> QED  BY <2>3, <3>2, <1>5
  <2> QED  BY <2>1, <2>2, <2>3
<1>9. \A h \in 0 .. c.top + 1 :
         d.layers_addr[h] = IF h = height THEN s
                            ELSE IF h \in H THEN c.layers_addr[h - 1] ELSE c.layers_addr[h]
  <2>1. \A h \in LayerIds : d.layers_addr[h] = IF h \in H THEN from[h] ELSE c.layers_addr[h]
    BY <1>3, <1>4, <1>5 DEF PlacedIn
  <2>2. height \in H
    BY <1>1 DEF H
  <2> QED  BY <2>1, <2>2, <1>1, <1>3
<1>10. Reheighted(c, d, s)
  BY <1>1, <1>5, <1>7, <1>8 DEF Reheighted, Shown
<1>11. ASSUME NEW h \in 0 .. d.top
       PROVE  d.layers_addr[h] \in LayerIds /\ d.layers[d.layers_addr[h]].height = h
  <2>1. h \in 0 .. c.top + 1
    BY <1>5
  <2>2. CASE h = height
    BY <2>1, <2>2, <1>8, <1>9
  <2>3. CASE h > height
    <3>1. d.layers_addr[h] = c.layers_addr[h - 1] /\ h - 1 \in 0 .. c.top
      BY <2>1, <2>3, <1>1, <1>9 DEF H
    <3>2. /\ d.layers_addr[h] \in LayerIds
          /\ c.layers[d.layers_addr[h]].height = h - 1
      BY <3>1, <1>6
    <3>3. new(d.layers_addr[h]) = h
      BY <2>1, <2>3, <3>1, <3>2, <1>1
    <3> QED  BY <3>2, <3>3, <1>8
  <2>4. CASE h < height
    <3>1. d.layers_addr[h] = c.layers_addr[h] /\ h \in 0 .. c.top
      BY <2>1, <2>4, <1>1, <1>9 DEF H
    <3>2. /\ d.layers_addr[h] \in LayerIds
          /\ c.layers[d.layers_addr[h]].height = h
      BY <3>1, <1>6
    <3>3. new(d.layers_addr[h]) = h
      BY <2>1, <2>4, <3>1, <3>2, <1>1
    <3> QED  BY <3>2, <3>3, <1>8
  <2> QED  BY <2>1, <2>2, <2>3, <2>4, <1>1
<1>12. ASSUME NEW r \in LayerIds
       PROVE  /\ d.layers[r].height \in -1 .. d.top
              /\ Shown(d, r) => /\ d.layers_addr[d.layers[r].height] = r
                                /\ d.layers[r].flags # "LAYER_NO_USE"
  <2>1. d.layers[r].height \in -1 .. d.top
    BY <1>1, <1>5, <1>7, <1>8
  <2>2. ASSUME Shown(d, r)
        PROVE  (r # s => Shown(c, r)) /\ d.layers[r].flags # "LAYER_NO_USE"
    BY <2>2, <1>1, <1>5, <1>7, <1>8 DEF Shown
  <2>3. ASSUME Shown(d, r) PROVE d.layers_addr[d.layers[r].height] = r
    <3>1. CASE r = s
      BY <3>1, <1>1, <1>8, <1>9
    <3>2. CASE r # s /\ c.layers[r].height >= height
      <4>1. /\ d.layers[r].height \in H /\ d.layers[r].height \in 0 .. c.top + 1
            /\ d.layers[r].height # height
            /\ d.layers[r].height - 1 = c.layers[r].height
        BY <3>2, <2>2, <2>3, <1>1, <1>7, <1>8 DEF H
      <4>2. d.layers_addr[d.layers[r].height] = c.layers_addr[d.layers[r].height - 1]
        BY <4>1, <1>9
      <4> QED  BY <3>2, <4>1, <4>2, <2>2, <2>3, <1>7
    <3>3. CASE r # s /\ ~(c.layers[r].height >= height)
      <4>1. d.layers[r].height = c.layers[r].height /\ d.layers[r].height \notin H
            /\ d.layers[r].height \in 0 .. c.top + 1 /\ d.layers[r].height # height
        BY <3>3, <2>2, <2>3, <1>1, <1>7, <1>8 DEF H, Shown
      <4> QED  BY <3>3, <4>1, <2>2, <2>3, <1>7, <1>9
    <3> QED  BY <3>1, <3>2, <3>3
  <2> QED  BY <2>1, <2>2, <2>3
<1>13. Stacked(d)
  BY <1>1, <1>5, <1>11, <1>12, Ids DEF Stacked
<1> QED  BY <1>5, <1>8, <1>10, <1>13 DEF d

-----------------------------------------------------------------------------
(* A change of heights with its repair leaves a good controller: the area  *)
(* of the layer is repaired, and in it every pixel that has changed hands  *)
(* went to a layer between h0 and h1.                                      *)

\* No layer is taken or given up.
KeepsFlags(c, e) == \A r \in LayerIds : e.layers[r].flags = c.layers[r].flags

LEMMA ReheightGood ==
    ASSUME NEW c, Good(c), NEW d, NEW s \in LayerIds,
           Reheighted(c, d, s), Stacked(d), Shown(d, Background),
           \A r, q \in LayerIds \ {s} :
              d.layers[r].height <= d.layers[q].height => c.layers[r].height <= c.layers[q].height,
           NEW h \in Nat, NEW h0 \in Nat, NEW h1 \in Int, h <= h0, h1 <= d.top,
           \A p, q, t : TopAt(c, p, q) /\ TopAt(d, p, t) /\ q # t /\ (q = s \/ t = s) =>
                           d.layers[t].height \in h0 .. h1
    PROVE  LET e == Repaired(d, AreaOf(c.layers[s]), h, h0, h1) IN
           /\ Good(e) /\ KeepsFlags(c, e)
           /\ \A r \in LayerIds : e.layers[r].height = d.layers[r].height
<1> DEFINE area == AreaOf(c.layers[s])
           e == Repaired(d, area, h, h0, h1)
<1>1. Typed(c) /\ Stacked(c) /\ BackgroundThere(c) /\ Typed(d)
  BY DEF Good, Sound, Reheighted
<1>2. \A r \in LayerIds, p \in Pixels :
         /\ Takes(c, r, p) <=> Takes(d, r, p)
         /\ PixelOf(c.layers[r], p) = PixelOf(d.layers[r], p)
  BY LooksTheSame DEF Reheighted, Takes
<1>3. BackgroundThere(d)
  BY <1>1, <1>2, Ids DEF BackgroundThere
<1>4. /\ IsController(e) /\ e.layers = d.layers /\ e.layers_addr = d.layers_addr /\ e.top = d.top
  <2>1. /\ IsController(layer_refreshmap(d, area, h))
        /\ layer_refreshmap(d, area, h).layers = d.layers
        /\ layer_refreshmap(d, area, h).layers_addr = d.layers_addr
        /\ layer_refreshmap(d, area, h).top = d.top
    BY <1>1, RemapFrame DEF Typed
  <2> QED  BY <2>1, RedrawFrame DEF Repaired
<1>5. Sound(e)
  BY <1>1, <1>3, <1>4, SameLayers DEF Sound
<1>6. ASSUME NEW p \in Pixels PROVE Right(e, p)
  <2>1. PICK q \in LayerIds : TopAt(c, p, q) /\ Shows(c, p, q)
    BY DEF Good, Right
  <2>2. Shows(d, p, q)
    BY <2>1, <1>2 DEF Shows, Reheighted
  <2>3. PICK t \in LayerIds : TopAt(d, p, t)
    BY <1>3, SomebodyOnTop, Ids DEF BackgroundThere
  <2>4. ASSUME q # s, t # s PROVE t = q
    <3>1. Shown(d, q) /\ Takes(d, q, p) /\ Shown(c, t) /\ Takes(c, t, p)
      BY <2>1, <2>3, <2>4, <1>2 DEF TopAt, Reheighted
    <3>2. d.layers[q].height <= d.layers[t].height /\ c.layers[t].height <= c.layers[q].height
      BY <2>1, <2>3, <3>1 DEF TopAt
    <3>3. c.layers[q].height <= c.layers[t].height
      BY <2>4, <3>2
    <3>4. c.layers[q].height = c.layers[t].height
      BY <3>2, <3>3, <1>1, Heights
    <3> QED  BY <3>1, <3>4, <1>1, Heights
  <2>5. ASSUME t # q PROVE In(area, p) /\ d.layers[t].height \in h0 .. h1
    <3>1. q = s \/ t = s
      BY <2>4, <2>5
    <3>2. Takes(c, s, p)
      BY <2>1, <2>3, <3>1, <1>2 DEF TopAt
    <3>3. In(area, p)
      BY <3>2 DEF Takes, Covers
    <3> QED  BY <2>1, <2>3, <2>5, <3>1, <3>3
  <2>6. Shows(d, p, t) \/ (In(area, p) /\ d.layers[t].height \in h0 .. h1)
    BY <2>2, <2>5
  <2> HIDE DEF area
  <2> QED  BY <1>1, <2>3, <2>6, Repair
<1> HIDE DEF e
<1>7. Good(e)
  BY <1>5, <1>6 DEF Good
<1>8. KeepsFlags(c, e) /\ \A r \in LayerIds : e.layers[r].height = d.layers[r].height
  BY <1>4 DEF KeepsFlags, Reheighted
<1> QED  BY <1>7, <1>8 DEF e

\* layer_set_height, for a layer in use that is not the background.
LEMMA SetHeightGood ==
    ASSUME NEW c, Good(c), NEW s \in LayerIds, s # Background,
           c.layers[s].flags # "LAYER_NO_USE", NEW asked \in Int,
           Shown(c, s) => asked <= c.top
    PROVE  LET e == layer_set_height(c, s, asked) IN
           /\ Good(e) /\ KeepsFlags(c, e)
           /\ asked = -1 => e.layers[s].height = -1
<1> DEFINE old == c.layers[s].height
           height == Max2(Min2(asked, c.top + 1), -1)
           area == AreaOf(c.layers[s])
<1>1. /\ Typed(c) /\ Stacked(c) /\ Shown(c, Background) /\ Background \in LayerIds
      /\ c.top \in Int /\ c.top >= -1 /\ old \in -1 .. c.top
      /\ height \in -1 .. c.top + 1 /\ (Shown(c, s) => height <= c.top)
      /\ \A r \in LayerIds : c.layers[r].height \in -1 .. c.top /\ c.layers[r].height \in Int
  BY Heights, Ids DEF Good, Sound, BackgroundThere, Stacked, Max2, Min2
<1>2. layer_set_height(c, s, asked) =
        IF height = old THEN c
        ELSE IF old > height /\ height >= 0
        THEN Repaired(Lowered(c, s, old, height), area, height + 1, height + 1, old)
        ELSE IF old > height
        THEN Repaired(Hidden(c, s, old), area, 0, 0, old - 1)
        ELSE Repaired(IF old >= 0 THEN Raised(c, s, old, height) ELSE Inserted(c, s, height),
                      area, height, height, height)
  BY DEF layer_set_height
<1> HIDE DEF height
<1>3. ASSUME old > height, height >= 0
      PROVE  LET e == Repaired(Lowered(c, s, old, height), area, height + 1, height + 1, old) IN
             /\ Good(e) /\ KeepsFlags(c, e)
  <2> DEFINE d == Lowered(c, s, old, height)
  <2>1. /\ Reheighted(c, d, s) /\ Stacked(d) /\ d.top = c.top
        /\ \A r \in LayerIds :
              d.layers[r].height = IF r = s THEN height
                                   ELSE IF c.layers[r].height \in height .. old - 1
                                   THEN c.layers[r].height + 1 ELSE c.layers[r].height
    BY <1>1, <1>3, LoweredAt
  <2> HIDE DEF d
  <2>2. Shown(d, Background)
    BY <1>1, <2>1 DEF Reheighted
  <2>3. \A r, q \in LayerIds \ {s} :
           d.layers[r].height <= d.layers[q].height => c.layers[r].height <= c.layers[q].height
    <3>1. \A a, b \in Int \ {old} :
             (IF a \in height .. old - 1 THEN a + 1 ELSE a)
               <= (IF b \in height .. old - 1 THEN b + 1 ELSE b) => a <= b
      BY <1>1, <1>3
    <3>2. \A r \in LayerIds \ {s} : c.layers[r].height # old
      BY <1>1, <1>3, Heights DEF Shown
    <3>3. \A r \in LayerIds \ {s} :
             /\ c.layers[r].height \in Int \ {old}
             /\ d.layers[r].height = IF c.layers[r].height \in height .. old - 1
                                     THEN c.layers[r].height + 1 ELSE c.layers[r].height
      BY <1>1, <2>1, <3>2
    <3> QED  BY <3>1, <3>3
  <2>4. ASSUME NEW p, NEW q, NEW t, TopAt(c, p, q), TopAt(d, p, t), q # t, q = s \/ t = s
        PROVE  d.layers[t].height \in height + 1 .. old
    <3>1. /\ q \in LayerIds /\ t \in LayerIds /\ Shown(c, q) /\ Shown(d, t)
          /\ Shown(c, s) /\ Shown(d, s)
      BY <1>1, <1>3, <2>1, <2>4 DEF TopAt, Shown
    <3>2. Takes(c, q, p) /\ Takes(d, q, p) /\ Takes(c, t, p) /\ Takes(d, t, p)
      BY <2>1, <2>4, <3>1, LooksTheSame DEF TopAt, Takes, Reheighted
    <3>3. Shown(d, q) /\ Shown(c, t)
      BY <2>1, <3>1 DEF Reheighted
    <3>4. d.layers[q].height <= d.layers[t].height /\ c.layers[t].height <= c.layers[q].height
      BY <2>4, <3>1, <3>2, <3>3 DEF TopAt
    <3>5. c.layers[t].height # c.layers[q].height
      BY <1>1, <2>4, <3>1, <3>3, Heights
    <3> QED  BY <1>1, <1>3, <2>1, <2>4, <3>1, <3>4, <3>5
  <2>5. height + 1 \in Nat /\ old \in Int /\ old <= d.top
    BY <1>1, <1>3, <2>1
  <2> QED  BY <2>1, <2>2, <2>3, <2>4, <2>5, ReheightGood DEF d
<1>4. ASSUME old > height, ~(height >= 0)
      PROVE  LET e == Repaired(Hidden(c, s, old), area, 0, 0, old - 1) IN
             /\ Good(e) /\ KeepsFlags(c, e)
             /\ e.layers[s].height = -1
  <2> DEFINE d == Hidden(c, s, old)
  <2>1. Shown(c, s)
    BY <1>1, <1>4 DEF Shown
  <2>2. /\ Reheighted(c, d, s) /\ Stacked(d) /\ d.top = c.top - 1
        /\ \A r \in LayerIds :
              d.layers[r].height = IF r = s THEN -1
                                   ELSE IF c.layers[r].height > old
                                   THEN c.layers[r].height - 1 ELSE c.layers[r].height
    BY <1>1, <2>1, HiddenAt
  <2> HIDE DEF d
  <2>3. Shown(d, Background)
    BY <1>1, <2>2 DEF Reheighted
  <2>4. \A r \in LayerIds \ {s} : c.layers[r].height # old
    BY <1>1, <2>1, Heights
  <2>5. \A r, q \in LayerIds \ {s} :
           d.layers[r].height <= d.layers[q].height => c.layers[r].height <= c.layers[q].height
    BY <1>1, <2>2, <2>4
  <2>6. ASSUME NEW p, NEW q, NEW t, TopAt(c, p, q), TopAt(d, p, t), q # t, q = s \/ t = s
        PROVE  d.layers[t].height \in 0 .. old - 1
    <3>1. /\ q \in LayerIds /\ t \in LayerIds /\ Shown(c, q) /\ Shown(d, t) /\ ~Shown(d, s)
      BY <1>1, <2>2, <2>6 DEF TopAt, Shown
    <3>2. q = s /\ t # s /\ Shown(c, t)
      BY <2>2, <2>6, <3>1 DEF Reheighted
    <3>3. Takes(c, t, p)
      BY <2>2, <2>6, <3>1, LooksTheSame DEF TopAt, Takes, Reheighted
    <3>4. c.layers[t].height <= old
      BY <2>6, <3>1, <3>2, <3>3 DEF TopAt
    <3> QED  BY <1>1, <2>2, <2>4, <3>1, <3>2, <3>4 DEF Shown
  <2>7. 0 \in Nat /\ old - 1 \in Int /\ old - 1 <= d.top
    BY <1>1, <2>2
  <2> QED  BY <2>2, <2>3, <2>5, <2>6, <2>7, ReheightGood DEF d
<1>5. ASSUME height > old, old >= 0
      PROVE  LET e == Repaired(Raised(c, s, old, height), area, height, height, height) IN
             /\ Good(e) /\ KeepsFlags(c, e)
  <2> DEFINE d == Raised(c, s, old, height)
  <2>1. Shown(c, s) /\ height \in 0 .. c.top
    BY <1>1, <1>5 DEF Shown
  <2>2. /\ Reheighted(c, d, s) /\ Stacked(d) /\ d.top = c.top
        /\ \A r \in LayerIds :
              d.layers[r].height = IF r = s THEN height
                                   ELSE IF c.layers[r].height \in old + 1 .. height
                                   THEN c.layers[r].height - 1 ELSE c.layers[r].height
    BY <1>1, <1>5, <2>1, RaisedAt
  <2> HIDE DEF d
  <2>3. Shown(d, Background)
    BY <1>1, <2>2 DEF Reheighted
  <2>4. \A r \in LayerIds \ {s} : c.layers[r].height # old
    BY <1>1, <2>1, Heights
  <2>5. \A r, q \in LayerIds \ {s} :
           d.layers[r].height <= d.layers[q].height => c.layers[r].height <= c.layers[q].height
    BY <1>1, <2>2, <2>4
  <2>6. ASSUME NEW p, NEW q, NEW t, TopAt(c, p, q), TopAt(d, p, t), q # t, q = s \/ t = s
        PROVE  d.layers[t].height \in height .. height
    <3>1. /\ q \in LayerIds /\ t \in LayerIds /\ Shown(c, q) /\ Shown(d, t)
          /\ Shown(c, s) /\ Shown(d, s)
      BY <1>1, <1>5, <2>2, <2>6 DEF TopAt, Shown
    <3>2. Takes(c, q, p) /\ Takes(d, q, p) /\ Takes(c, t, p) /\ Takes(d, t, p)
      BY <2>2, <2>6, <3>1, LooksTheSame DEF TopAt, Takes, Reheighted
    <3>3. Shown(d, q) /\ Shown(c, t)
      BY <2>2, <3>1 DEF Reheighted
    <3>4. d.layers[q].height <= d.layers[t].height /\ c.layers[t].height <= c.layers[q].height
      BY <2>6, <3>1, <3>2, <3>3 DEF TopAt
    <3> QED  BY <1>1, <1>5, <2>2, <2>4, <2>6, <3>1, <3>4
  <2>7. height \in Nat /\ height \in Int /\ height <= d.top
    BY <1>1, <2>1, <2>2
  <2> QED  BY <2>2, <2>3, <2>5, <2>6, <2>7, ReheightGood DEF d
<1>6. ASSUME height > old, ~(old >= 0)
      PROVE  LET e == Repaired(Inserted(c, s, height), area, height, height, height) IN
             /\ Good(e) /\ KeepsFlags(c, e)
  <2> DEFINE d == Inserted(c, s, height)
  <2>1. ~Shown(c, s) /\ height \in 0 .. c.top + 1
    BY <1>1, <1>6 DEF Shown
  <2>2. /\ Reheighted(c, d, s) /\ Stacked(d) /\ d.top = c.top + 1
        /\ \A r \in LayerIds :
              d.layers[r].height = IF r = s THEN height
                                   ELSE IF c.layers[r].height >= height
                                   THEN c.layers[r].height + 1 ELSE c.layers[r].height
    BY <1>1, <2>1, InsertedAt
  <2> HIDE DEF d
  <2>3. Shown(d, Background)
    BY <1>1, <2>2 DEF Reheighted
  <2>4. \A r, q \in LayerIds \ {s} :
           d.layers[r].height <= d.layers[q].height => c.layers[r].height <= c.layers[q].height
    <3>1. \A a, b \in Int : (IF a >= height THEN a + 1 ELSE a) <= (IF b >= height THEN b + 1 ELSE b)
                               => a <= b
      BY <2>1, <1>1
    <3>2. \A r \in LayerIds \ {s} :
             /\ c.layers[r].height \in Int
             /\ d.layers[r].height = IF c.layers[r].height >= height THEN c.layers[r].height + 1
                                     ELSE c.layers[r].height
      BY <1>1, <2>2
    <3> QED  BY <3>1, <3>2
  <2>5. ASSUME NEW p, NEW q, NEW t, TopAt(c, p, q), TopAt(d, p, t), q # t, q = s \/ t = s
        PROVE  d.layers[t].height \in height .. height
    <3>1. t = s
      BY <2>1, <2>5 DEF TopAt
    <3> QED  BY <2>1, <2>2, <3>1
  <2>6. height \in Nat /\ height \in Int /\ height <= d.top
    BY <1>1, <2>1, <2>2
  <2> QED  BY <2>2, <2>3, <2>4, <2>5, <2>6, ReheightGood DEF d
<1>7. KeepsFlags(c, c)
  BY DEF KeepsFlags
<1>8. asked = -1 => height = -1
  BY <1>1 DEF height, Max2, Min2
<1> QED  BY <1>1, <1>2, <1>3, <1>4, <1>5, <1>6, <1>7, <1>8

-----------------------------------------------------------------------------
(* Moves, and changes of a layer out of sight.                             *)

\* A layer that is not shown may change in any way.
LEMMA OutOfSight ==
    ASSUME NEW c, Good(c), NEW d, Typed(d), NEW s \in LayerIds, ~Shown(c, s),
           d.layers_addr = c.layers_addr, d.top = c.top, d.map = c.map, d.vram = c.vram,
           \A r \in LayerIds : r # s => d.layers[r] = c.layers[r],
           d.layers[s].height = -1
    PROVE  Good(d)
<1>1. Typed(c) /\ Stacked(c) /\ BackgroundThere(c)
  BY DEF Good, Sound
<1>2. ~Shown(d, s)
  BY DEF Shown
<1>3. Stacked(d)
  <2>1. /\ d.top \in -1 .. MAX_LAYERS - 1
        /\ d.top \in Int /\ d.top >= -1
    BY <1>1, Heights, Ids DEF Stacked
  <2>2. ASSUME NEW h \in 0 .. d.top
        PROVE  d.layers_addr[h] \in LayerIds /\ d.layers[d.layers_addr[h]].height = h
    <3>1. c.layers_addr[h] \in LayerIds /\ c.layers[c.layers_addr[h]].height = h
      BY <1>1 DEF Stacked
    <3>2. c.layers_addr[h] # s
      BY <2>1, <3>1 DEF Shown
    <3> QED  BY <3>1, <3>2
  <2>3. ASSUME NEW r \in LayerIds
        PROVE  /\ d.layers[r].height \in -1 .. d.top
               /\ Shown(d, r) => /\ d.layers_addr[d.layers[r].height] = r
                                 /\ d.layers[r].flags # "LAYER_NO_USE"
    <3>1. CASE r = s
      BY <3>1, <1>2, <2>1
    <3>2. CASE r # s
      BY <3>2, <1>1 DEF Stacked, Shown
    <3> QED  BY <3>1, <3>2
  <2> QED  BY <2>1, <2>2, <2>3 DEF Stacked
<1>4. BackgroundThere(d)
  BY <1>1, Ids DEF BackgroundThere, Shown, Takes
<1>5. ASSUME NEW p \in Pixels PROVE Right(d, p)
  <2>1. PICK q \in LayerIds : TopAt(c, p, q) /\ Shows(c, p, q)
    BY DEF Good, Right
  <2>2. q # s /\ d.layers[q] = c.layers[q]
    BY <2>1 DEF TopAt
  <2>3. \A r \in LayerIds : Shown(d, r) => r # s /\ d.layers[r] = c.layers[r]
    BY <1>2
  <2>4. TopAt(d, p, q)
    BY <2>1, <2>2, <2>3 DEF TopAt, Shown, Takes
  <2> QED  BY <2>1, <2>2, <2>4 DEF Right, Shows
<1> QED  BY <1>1, <1>3, <1>4, <1>5 DEF Good, Sound

\* A layer at another place.
MovedTo(c, s, vx0, vy0, d) ==
    /\ Typed(d) /\ d.layers_addr = c.layers_addr /\ d.top = c.top
    /\ d.map = c.map /\ d.vram = c.vram
    /\ \A r \in LayerIds : r # s => d.layers[r] = c.layers[r]
    /\ d.layers[s].height = c.layers[s].height /\ d.layers[s].flags = c.layers[s].flags
    /\ d.layers[s].vx0 = vx0 /\ d.layers[s].vy0 = vy0
    /\ d.layers[s].bxsize = c.layers[s].bxsize /\ d.layers[s].bysize = c.layers[s].bysize
    /\ d.layers[s].col_inv = c.layers[s].col_inv /\ d.layers[s].buf = c.layers[s].buf

LEMMA MovedAt ==
    ASSUME NEW c, Typed(c), NEW s \in LayerIds, NEW vx0 \in Int, NEW vy0 \in Int
    PROVE  MovedTo(c, s, vx0, vy0, Moved(c, s, vx0, vy0))
<1> DEFINE d == Moved(c, s, vx0, vy0)
           lay == [c.layers[s] EXCEPT !.vx0 = vx0, !.vy0 = vy0]
<1>1. IsController(c) /\ c.layers = [r \in LayerIds |-> c.layers[r]] /\ IsLayer(c.layers[s])
  BY DEF Typed
<1>2. /\ IsController(d) /\ d.layers_addr = c.layers_addr /\ d.top = c.top
      /\ d.map = c.map /\ d.vram = c.vram
      /\ d.layers = [r \in LayerIds |-> IF r = s THEN lay ELSE c.layers[r]]
  <2>1. d = [c EXCEPT !.layers[s] = lay]
    BY DEF Moved
  <2> HIDE DEF lay, d
  <2> QED  BY <1>1, <2>1 DEF IsController
<1>3. /\ IsLayer(lay) /\ lay.height = c.layers[s].height /\ lay.flags = c.layers[s].flags
      /\ lay.vx0 = vx0 /\ lay.vy0 = vy0 /\ lay.bxsize = c.layers[s].bxsize
      /\ lay.bysize = c.layers[s].bysize /\ lay.col_inv = c.layers[s].col_inv
      /\ lay.buf = c.layers[s].buf
  <2> DEFINE l == c.layers[s]
  <2> HIDE DEF l
  <2>1. lay = [l EXCEPT !.vx0 = vx0, !.vy0 = vy0] /\ IsLayer(l)
    BY <1>1 DEF l
  <2> HIDE DEF lay
  <2>2. lay = [flags |-> l.flags, height |-> l.height, vx0 |-> vx0, vy0 |-> vy0,
               bxsize |-> l.bxsize, bysize |-> l.bysize, col_inv |-> l.col_inv, buf |-> l.buf]
    BY <2>1 DEF IsLayer
  <2>3. /\ IsLayer(lay) /\ lay.height = l.height /\ lay.flags = l.flags
        /\ lay.vx0 = vx0 /\ lay.vy0 = vy0 /\ lay.bxsize = l.bxsize /\ lay.bysize = l.bysize
        /\ lay.col_inv = l.col_inv /\ lay.buf = l.buf
    BY <2>1, <2>2 DEF IsLayer
  <2> QED  BY <2>3 DEF l
<1> HIDE DEF d, lay
<1>4. d.layers[s] = lay /\ \A r \in LayerIds : r # s => d.layers[r] = c.layers[r]
  BY <1>2
<1>5. Typed(d)
  BY <1>2, <1>3, <1>4 DEF Typed
<1>6. MovedTo(c, s, vx0, vy0, d)
  BY <1>2, <1>3, <1>4, <1>5 DEF MovedTo
<1> QED  BY <1>6 DEF d

\* layer_move: what two changes of the map and two redrawings leave at a pixel.
LEMMA MoveGood ==
    ASSUME NEW c, Good(c), NEW s \in LayerIds, s # Background,
           NEW vx0 \in Int, NEW vy0 \in Int
    PROVE  Good(layer_move(c, s, vx0, vy0))
<1> DEFINE h == c.layers[s].height
           d == Moved(c, s, vx0, vy0)
           from == AreaOf(c.layers[s])
           to == AreaOf(d.layers[s])
           m1 == layer_refreshmap(d, from, 0)
           m2 == layer_refreshmap(m1, to, h)
           e1 == layer_refresh_area(m2, from, 0, h - 1)
           e2 == layer_refresh_area(e1, to, h, h)
<1>1. Typed(c) /\ Stacked(c) /\ BackgroundThere(c) /\ h \in Int /\ h >= -1 /\ c.top \in Int
  BY Heights, Ids DEF Good, Sound, Stacked
<1>2. layer_move(c, s, vx0, vy0) = IF h < 0 THEN d ELSE e2
  BY DEF layer_move
<1>3. /\ Typed(d) /\ d.layers_addr = c.layers_addr /\ d.top = c.top
      /\ d.map = c.map /\ d.vram = c.vram
      /\ \A r \in LayerIds : r # s => d.layers[r] = c.layers[r]
      /\ d.layers[s].height = h /\ d.layers[s].flags = c.layers[s].flags
  <2>1. MovedTo(c, s, vx0, vy0, d)
    BY <1>1, MovedAt
  <2> HIDE DEF d
  <2> QED  BY <2>1 DEF MovedTo
<1> HIDE DEF d
<1>4. CASE h < 0
  <2>1. ~Shown(c, s) /\ d.layers[s].height = -1
    BY <1>1, <1>3, <1>4 DEF Shown
  <2> QED  BY <1>2, <1>3, <1>4, <2>1, OutOfSight
<1>5. CASE h >= 0
  <2>1. \A r \in LayerIds : /\ d.layers[r].height = c.layers[r].height
                            /\ d.layers[r].flags = c.layers[r].flags
    BY <1>3
  <2>2. Stacked(d)
    BY <1>1, <1>3, <2>1 DEF Stacked, Shown
  <2>3. BackgroundThere(d)
    BY <1>1, <1>3, Ids DEF BackgroundThere, Shown, Takes
  <2>4. /\ IsController(m1) /\ m1.layers = d.layers /\ m1.layers_addr = d.layers_addr
        /\ m1.top = d.top /\ m1.vram = d.vram
    BY <1>3, RemapFrame DEF Typed
  <2>5. \A p \in Pixels : \A t : TopAt(d, p, t) =>
           m1.map[p] = IF In(from, p) /\ d.layers[t].height >= 0 THEN t ELSE d.map[p]
    BY <1>3, <2>2, RemapAt
  <2> HIDE DEF m1
  <2>6. Typed(m1) /\ Stacked(m1) /\ \A p, t : TopAt(d, p, t) => TopAt(m1, p, t)
    BY <1>3, <2>2, <2>4, SameLayers
  <2>7. /\ IsController(m2) /\ m2.layers = d.layers /\ m2.layers_addr = d.layers_addr
        /\ m2.top = d.top /\ m2.vram = d.vram
    BY <2>4, RemapFrame
  <2>8. \A p \in Pixels : \A t : TopAt(d, p, t) =>
           m2.map[p] = IF In(to, p) /\ d.layers[t].height >= h THEN t ELSE m1.map[p]
    <3> HIDE DEF to
    <3>1. h \in Nat
      BY <1>1, <1>5
    <3> HIDE DEF h
    <3> QED  BY <2>4, <2>6, <3>1, RemapAt
  <2> HIDE DEF m2
  <2>9. Typed(m2) /\ Stacked(m2)
    BY <1>3, <2>2, <2>7, SameLayers
  <2>10. /\ IsController(e1) /\ e1.layers = d.layers /\ e1.layers_addr = d.layers_addr
         /\ e1.top = d.top /\ e1.map = m2.map
    BY <2>7, RedrawFrame
  <2>11. \A p \in Pixels : \A t \in LayerIds : Shown(d, t) /\ m2.map[p] = t =>
            e1.vram[p] = IF In(from, p) /\ d.layers[t].height \in 0 .. h - 1 /\ Covers(d.layers[t], p)
                         THEN PixelOf(d.layers[t], p) ELSE d.vram[p]
    <3>1. 0 \in Nat /\ h - 1 \in Int /\ h - 1 <= m2.top
      BY <1>1, <1>3, <2>7 DEF Stacked
    <3> HIDE DEF from, h
    <3>2. \A t : Shown(d, t) <=> Shown(m2, t)
      BY <2>7 DEF Shown
    <3>3. \A p \in Pixels : \A t \in LayerIds : Shown(m2, t) /\ m2.map[p] = t =>
            e1.vram[p] = IF In(from, p) /\ m2.layers[t].height \in 0 .. h - 1
                            /\ Covers(m2.layers[t], p)
                         THEN PixelOf(m2.layers[t], p) ELSE m2.vram[p]
      BY <2>9, <3>1, RedrawAt
    <3> HIDE DEF e1
    <3> QED  BY <2>7, <3>2, <3>3
  <2> HIDE DEF e1
  <2>12. Typed(e1) /\ Stacked(e1)
    BY <1>3, <2>2, <2>10, SameLayers
  <2>13. /\ IsController(e2) /\ e2.layers = d.layers /\ e2.layers_addr = d.layers_addr
         /\ e2.top = d.top /\ e2.map = m2.map
    BY <2>10, RedrawFrame
  <2>14. \A p \in Pixels : \A t \in LayerIds : Shown(d, t) /\ m2.map[p] = t =>
            e2.vram[p] = IF In(to, p) /\ d.layers[t].height = h /\ Covers(d.layers[t], p)
                         THEN PixelOf(d.layers[t], p) ELSE e1.vram[p]
    <3>1. h \in Nat /\ h \in Int /\ h <= e1.top
      BY <1>1, <1>3, <1>5, <2>10 DEF Stacked
    <3>2. \A t : Shown(d, t) <=> Shown(e1, t)
      BY <2>10 DEF Shown
    <3>3. \A k \in Int : k \in h .. h <=> k = h
      BY <3>1
    <3>4. \A t \in LayerIds : d.layers[t].height \in Int
      BY <2>2, Heights
    <3> HIDE DEF to, h
    <3>5. \A p \in Pixels : \A t \in LayerIds : Shown(e1, t) /\ e1.map[p] = t =>
            e2.vram[p] = IF In(to, p) /\ e1.layers[t].height \in h .. h
                            /\ Covers(e1.layers[t], p)
                         THEN PixelOf(e1.layers[t], p) ELSE e1.vram[p]
      BY <2>12, <3>1, RedrawAt
    <3> HIDE DEF e2
    <3> QED  BY <2>10, <3>2, <3>3, <3>4, <3>5
  <2> HIDE DEF e2
  <2>15. ASSUME NEW p \in Pixels PROVE Right(e2, p)
    <3>1. PICK q \in LayerIds : TopAt(c, p, q) /\ Shows(c, p, q)
      BY DEF Good, Right
    <3>2. PICK t \in LayerIds : TopAt(d, p, t)
      BY <2>2, <2>3, SomebodyOnTop, Ids DEF BackgroundThere
    <3>3. /\ Shown(d, t) /\ Takes(d, t, p) /\ Covers(d.layers[t], p)
          /\ d.layers[t].height \in Int /\ d.layers[t].height >= 0
          /\ Shown(c, q) /\ Takes(c, q, p)
      BY <3>1, <3>2, <2>2, Heights DEF TopAt, Takes, Shown
    <3>4. ASSUME t # s, q # s PROVE t = q
      <4>1. Takes(c, t, p) /\ Shown(c, t) /\ Takes(d, q, p) /\ Shown(d, q)
        BY <3>3, <3>4, <1>3 DEF Takes, Shown
      <4>2. c.layers[t].height <= c.layers[q].height /\ d.layers[q].height <= d.layers[t].height
        BY <3>1, <3>2, <4>1 DEF TopAt
      <4>3. c.layers[t].height = c.layers[q].height
        BY <4>2, <2>1, <1>1, Heights
      <4> QED  BY <4>1, <4>3, <1>1, Heights
    <3>5. t = s => In(to, p) /\ d.layers[t].height = h
      BY <3>3, <1>3 DEF Covers
    <3>6. q = s => In(from, p)
      BY <3>3 DEF Takes, Covers
    <3>7. t # s => d.layers[t] = c.layers[t] /\ d.layers[t].height # h
      BY <1>1, <1>3, <2>1, <3>3, Heights DEF Shown
    <3>8. t # s /\ d.layers[t].height > h => q # s
      <4> SUFFICES ASSUME t # s, d.layers[t].height > h, q = s PROVE FALSE
        OBVIOUS
      <4>1. Takes(c, t, p) /\ Shown(c, t)
        BY <3>3, <1>3 DEF Takes, Shown
      <4>2. c.layers[t].height <= h
        BY <3>1, <4>1 DEF TopAt
      <4> QED  BY <4>2, <2>1, <3>3, <1>1
    <3> HIDE DEF from, to, h
    <3>9. m2.map[p] = t
      <4>1. m1.map[p] = IF In(from, p) THEN t ELSE q
        BY <2>5, <3>1, <3>2, <3>3, <1>3 DEF Shows
      <4>2. m2.map[p] = IF In(to, p) /\ d.layers[t].height >= h THEN t ELSE m1.map[p]
        BY <2>8, <3>2
      <4>3. CASE t = s
        BY <4>2, <4>3, <3>5, <1>1
      <4>4. CASE t # s
        BY <4>1, <4>2, <4>4, <3>4, <3>6
      <4> QED  BY <4>3, <4>4
    <3>10. /\ e1.vram[p] = IF In(from, p) /\ d.layers[t].height \in 0 .. h - 1
                           THEN PixelOf(d.layers[t], p) ELSE d.vram[p]
           /\ e2.vram[p] = IF In(to, p) /\ d.layers[t].height = h
                           THEN PixelOf(d.layers[t], p) ELSE e1.vram[p]
      BY <2>11, <2>14, <3>3, <3>9
    <3>11. e2.vram[p] = PixelOf(d.layers[t], p)
      <4>1. CASE t = s
        BY <4>1, <3>5, <3>10
      <4>2. CASE t # s /\ t = q
        <5>1. d.vram[p] = PixelOf(d.layers[t], p)
          BY <4>2, <3>1, <3>7, <1>3 DEF Shows
        <5> QED  BY <5>1, <3>10
      <4>3. CASE t # s /\ t # q
        <5>1. In(from, p) /\ d.layers[t].height \in 0 .. h - 1
          BY <4>3, <3>3, <3>4, <3>6, <3>7, <3>8, <1>1
        <5> QED  BY <5>1, <3>10
      <4> QED  BY <4>1, <4>2, <4>3
    <3>12. TopAt(e2, p, t)
      BY <2>13, <3>2, SameLayers
    <3>13. Shows(e2, p, t)
      BY <2>13, <3>9, <3>11 DEF Shows
    <3> QED  BY <3>12, <3>13 DEF Right
  <2>16. Good(e2)
    BY <1>3, <2>2, <2>3, <2>13, <2>15, SameLayers DEF Good, Sound
  <2> QED  BY <1>2, <1>1, <1>5, <2>16
<1> QED  BY <1>1, <1>4, <1>5

-----------------------------------------------------------------------------
(* The table.                                                              *)

\* The flags of a layer out of sight are changed, as layer_free and layer_alloc do.
Flagged(c, s, f, d) ==
    \/ d = [c EXCEPT !.layers[s].flags = f]
    \/ d = [c EXCEPT !.layers[s].flags = f, !.layers[s].height = -1]

LEMMA FlaggedAt ==
    ASSUME NEW c, Typed(c), NEW s \in LayerIds, c.layers[s].height = -1,
           NEW f, NEW d, Flagged(c, s, f, d)
    PROVE  /\ Typed(d) /\ d.layers_addr = c.layers_addr /\ d.top = c.top
           /\ d.map = c.map /\ d.vram = c.vram
           /\ d.layers[s].height = -1 /\ d.layers[s].flags = f
           /\ \A r \in LayerIds : r # s => d.layers[r] = c.layers[r]
<1> DEFINE l == c.layers[s]
           lay == d.layers[s]
<1>1. IsController(c) /\ c.layers = [r \in LayerIds |-> c.layers[r]] /\ IsLayer(l)
  BY DEF Typed
<1>2. /\ IsController(d) /\ d.layers_addr = c.layers_addr /\ d.top = c.top
      /\ d.map = c.map /\ d.vram = c.vram
      /\ d.layers = [r \in LayerIds |-> IF r = s THEN lay ELSE c.layers[r]]
      /\ lay = [l EXCEPT !.flags = f] \/ lay = [l EXCEPT !.flags = f, !.height = -1]
  <2>1. CASE d = [c EXCEPT !.layers[s].flags = f]
    BY <2>1, <1>1 DEF IsController
  <2>2. CASE d = [c EXCEPT !.layers[s].flags = f, !.layers[s].height = -1]
    BY <2>2, <1>1 DEF IsController
  <2> QED  BY <2>1, <2>2 DEF Flagged
<1>3. l.height = -1
  OBVIOUS
<1> HIDE DEF l, lay
<1>4. lay = [flags |-> f, height |-> -1, vx0 |-> l.vx0, vy0 |-> l.vy0, bxsize |-> l.bxsize,
             bysize |-> l.bysize, col_inv |-> l.col_inv, buf |-> l.buf]
  BY <1>1, <1>2, <1>3 DEF IsLayer
<1>5. IsLayer(lay) /\ lay.height = -1 /\ lay.flags = f
  BY <1>1, <1>4 DEF IsLayer
<1>6. \A r \in LayerIds : r # s => d.layers[r] = c.layers[r]
  BY <1>2
<1>7. Typed(d)
  BY <1>1, <1>2, <1>5, <1>6 DEF Typed, lay
<1> QED  BY <1>2, <1>5, <1>6, <1>7 DEF lay

LEMMA FlaggedGood ==
    ASSUME NEW c, Good(c), NEW s \in LayerIds, ~Shown(c, s), NEW f, NEW d, Flagged(c, s, f, d)
    PROVE  /\ Good(d) /\ d.layers[s].flags = f /\ ~Shown(d, s)
           /\ \A r \in LayerIds : r # s => d.layers[r] = c.layers[r]
<1>1. Typed(c) /\ c.layers[s].height = -1
  BY Heights DEF Good, Sound, Stacked, Shown
<1>2. /\ Typed(d) /\ d.layers_addr = c.layers_addr /\ d.top = c.top
      /\ d.map = c.map /\ d.vram = c.vram
      /\ d.layers[s].height = -1 /\ d.layers[s].flags = f
      /\ \A r \in LayerIds : r # s => d.layers[r] = c.layers[r]
  BY <1>1, FlaggedAt
<1> QED  BY <1>2, OutOfSight DEF Shown

LEMMA FreeGood ==
    ASSUME NEW c, Good(c), NEW s \in LayerIds, s # Background,
           c.layers[s].flags # "LAYER_NO_USE"
    PROVE  Good(layer_free(c, s))
<1> DEFINE gone == IF c.layers[s].height >= 0 THEN layer_set_height(c, s, -1) ELSE c
<1>1. Stacked(c) /\ -1 \in Int /\ -1 <= c.top
  BY Heights DEF Good, Sound, Stacked
<1>2. Good(gone) /\ ~Shown(gone, s)
  <2>1. CASE Shown(c, s)
    <3>1. /\ Good(layer_set_height(c, s, -1))
          /\ layer_set_height(c, s, -1).layers[s].height = -1
      BY <1>1, SetHeightGood
    <3> QED  BY <2>1, <3>1 DEF Shown
  <2>2. CASE ~Shown(c, s)
    BY <2>2 DEF Shown
  <2> QED  BY <2>1, <2>2
<1>3. Flagged(gone, s, "LAYER_NO_USE", layer_free(c, s))
  BY DEF layer_free, Flagged
<1> HIDE DEF gone
<1> QED  BY <1>2, <1>3, FlaggedGood

\* The least free layer is taken.
LEMMA FirstFreeIs ==
    ASSUME NEW c, FreeIds(c) # {}
    PROVE  FirstFree(c) \in FreeIds(c) /\ \A r \in FreeIds(c) : FirstFree(c) <= r
<1>1. FreeIds(c) \in SUBSET Nat
  BY Ids DEF FreeIds
<1>2. \E s \in FreeIds(c) : \A r \in FreeIds(c) : s <= r
  BY <1>1, LeastNatural
<1> QED  BY <1>2 DEF FirstFree

\* A layer gets its buffer.
Buffered(c, s, buf, xsize, ysize, col_inv, d) ==
    /\ Typed(d) /\ d.layers_addr = c.layers_addr /\ d.top = c.top
    /\ d.map = c.map /\ d.vram = c.vram
    /\ LET l == c.layers[s] IN
       d.layers[s] = [flags |-> l.flags, height |-> l.height, vx0 |-> l.vx0,
                      vy0 |-> l.vy0, bxsize |-> xsize, bysize |-> ysize,
                      col_inv |-> col_inv, buf |-> buf]
    /\ \A r \in LayerIds : r # s => d.layers[r] = c.layers[r]

LEMMA BufferedAt ==
    ASSUME NEW c, Typed(c), NEW s \in LayerIds, NEW xsize \in Nat, NEW ysize \in Nat,
           NEW buf, IsBuffer(buf, xsize, ysize), NEW col_inv
    PROVE  Buffered(c, s, buf, xsize, ysize, col_inv, layer_setbuf(c, s, buf, xsize, ysize, col_inv))
<1> DEFINE d == layer_setbuf(c, s, buf, xsize, ysize, col_inv)
           l == c.layers[s]
           lay == [l EXCEPT !.buf = buf, !.bxsize = xsize, !.bysize = ysize, !.col_inv = col_inv]
<1>1. IsController(c) /\ c.layers = [r \in LayerIds |-> c.layers[r]] /\ IsLayer(l)
  BY DEF Typed
<1>2. /\ IsController(d) /\ d.layers_addr = c.layers_addr /\ d.top = c.top
      /\ d.map = c.map /\ d.vram = c.vram
      /\ d.layers = [r \in LayerIds |-> IF r = s THEN lay ELSE c.layers[r]]
  <2>1. d = [c EXCEPT !.layers[s] = lay]
    BY DEF layer_setbuf
  <2> HIDE DEF lay, d
  <2> QED  BY <1>1, <2>1 DEF IsController
<1>3. lay = [flags |-> l.flags, height |-> l.height, vx0 |-> l.vx0, vy0 |-> l.vy0,
             bxsize |-> xsize, bysize |-> ysize, col_inv |-> col_inv, buf |-> buf]
  <2> HIDE DEF l
  <2>1. lay = [l EXCEPT !.buf = buf, !.bxsize = xsize, !.bysize = ysize, !.col_inv = col_inv]
    OBVIOUS
  <2> HIDE DEF lay
  <2> QED  BY <1>1, <2>1 DEF IsLayer
<1> HIDE DEF d, lay
<1>4. IsLayer(lay)
  <2> HIDE DEF l
  <2> QED  BY <1>1, <1>3 DEF IsLayer
<1>5. Typed(d)
  BY <1>1, <1>2, <1>4 DEF Typed
<1>6. Buffered(c, s, buf, xsize, ysize, col_inv, d)
  BY <1>2, <1>3, <1>5 DEF Buffered
<1> QED  BY <1>6 DEF d

\* A new layer, with its buffer, is not seen yet.
LEMMA AllocGood ==
    ASSUME NEW c, Good(c), FreeIds(c) # {}, NEW xsize \in Nat, NEW ysize \in Nat,
           NEW buf, IsBuffer(buf, xsize, ysize), NEW col_inv
    PROVE  LET s == FirstFree(c)
               d == layer_setbuf(layer_alloc(c), s, buf, xsize, ysize, col_inv)
           IN  /\ Good(d) /\ s \in LayerIds /\ s # Background /\ ~Shown(d, s)
               /\ d.layers[s].flags = "LAYER_USEING"
               /\ \A r \in LayerIds : r # s => d.layers[r] = c.layers[r]
<1> DEFINE s == FirstFree(c)
           a == layer_alloc(c)
           d == layer_setbuf(a, s, buf, xsize, ysize, col_inv)
<1>1. s \in LayerIds /\ c.layers[s].flags = "LAYER_NO_USE"
  BY FirstFreeIs DEF FreeIds
<1>2. ~Shown(c, s) /\ s # Background
  BY <1>1 DEF Good, Sound, Stacked, BackgroundThere
<1>3. Flagged(c, s, "LAYER_USEING", a)
  BY DEF layer_alloc, Flagged
<1> HIDE DEF s, a
<1>4. /\ Good(a) /\ a.layers[s].flags = "LAYER_USEING" /\ ~Shown(a, s)
      /\ \A r \in LayerIds : r # s => a.layers[r] = c.layers[r]
  BY <1>1, <1>2, <1>3, FlaggedGood
<1>5. Typed(a) /\ a.layers[s].height = -1
  BY <1>1, <1>4, Heights DEF Good, Sound, Stacked, Shown
<1>6. /\ Typed(d) /\ d.layers_addr = a.layers_addr /\ d.top = a.top
      /\ d.map = a.map /\ d.vram = a.vram
      /\ d.layers[s].height = -1 /\ d.layers[s].flags = "LAYER_USEING"
      /\ \A r \in LayerIds : r # s => d.layers[r] = a.layers[r]
  <2>1. Buffered(a, s, buf, xsize, ysize, col_inv, d)
    BY <1>1, <1>5, BufferedAt
  <2> HIDE DEF d
  <2> QED  BY <2>1, <1>4, <1>5 DEF Buffered
<1> HIDE DEF d
<1>7. Good(d)
  BY <1>1, <1>4, <1>6, OutOfSight
<1>8. ~Shown(d, s)
  BY <1>6 DEF Shown
<1> QED  BY <1>1, <1>2, <1>4, <1>6, <1>7, <1>8 DEF d, s, a

\* A layer of the desktop is made, put in its place and shown.
LEMMA PutGood ==
    ASSUME NEW c, Good(c), FreeIds(c) # {}, NEW l, IsBuffer(l.buf, l.xsize, l.ysize),
           l.xsize \in Nat, l.ysize \in Nat, l.vx0 \in Int, l.vy0 \in Int, l.height \in Int
    PROVE  Good(Put(c, l)) /\ FreeIds(c) \ {FirstFree(c)} \subseteq FreeIds(Put(c, l))
<1> DEFINE s == FirstFree(c)
           b == layer_setbuf(layer_alloc(c), s, l.buf, l.xsize, l.ysize, l.col_inv)
           m == layer_move(b, s, l.vx0, l.vy0)
           e == layer_set_height(m, s, l.height)
<1>1. /\ Good(b) /\ s \in LayerIds /\ s # Background /\ ~Shown(b, s)
      /\ b.layers[s].flags = "LAYER_USEING"
      /\ \A r \in LayerIds : r # s => b.layers[r] = c.layers[r]
  BY AllocGood
<1>2. Put(c, l) = e
  BY DEF Put
<1> HIDE DEF s, b
<1>3. Good(m)
  BY <1>1, MoveGood
<1>4. /\ m.layers[s].height = b.layers[s].height /\ m.layers[s].flags = "LAYER_USEING"
      /\ \A r \in LayerIds : r # s => m.layers[r] = b.layers[r]
  <2>1. b.layers[s].height < 0
    BY <1>1, Heights DEF Good, Sound, Shown
  <2>2. m = Moved(b, s, l.vx0, l.vy0)
    BY <2>1 DEF layer_move
  <2> HIDE DEF m
  <2>3. MovedTo(b, s, l.vx0, l.vy0, m)
    BY <1>1, <2>2, MovedAt DEF Good, Sound
  <2> QED  BY <1>1, <2>3 DEF MovedTo
<1> HIDE DEF m
<1>5. ~Shown(m, s)
  BY <1>1, <1>4 DEF Shown
<1>6. Good(e) /\ KeepsFlags(m, e)
  BY <1>1, <1>3, <1>4, <1>5, SetHeightGood
<1> HIDE DEF e
<1>7. \A r \in LayerIds : r # s => e.layers[r].flags = c.layers[r].flags
  BY <1>1, <1>4, <1>6 DEF KeepsFlags
<1> QED  BY <1>2, <1>6, <1>7 DEF FreeIds, s

-----------------------------------------------------------------------------
(* Pixels and cells.                                                       *)

LEMMA Split ==
    ASSUME NEW p \in Int, NEW x \in Nat \ {0}
    PROVE  p \div x \in Int /\ p % x \in 0 .. x - 1 /\ p = (p \div x) * x + (p % x)
OBVIOUS

LEMMA Unsplit ==
    ASSUME NEW r \in Int, NEW x \in Nat, NEW i \in 0 .. x - 1
    PROVE  (r * x + i) \div x = r /\ (r * x + i) % x = i
OBVIOUS

LEMMA ScreenLines ==
    ASSUME NEW x \in Nat \ {0}, NEW y \in Nat, NEW p \in 0 .. x * y - 1
    PROVE  p \div x \in 0 .. y - 1
OBVIOUS

LEMMA InCells ==
    ASSUME NEW x \in Nat, NEW y \in Nat, NEW r \in 0 .. y - 1, NEW i \in 0 .. x - 1
    PROVE  r * x + i \in 0 .. x * y - 1
<1>1. r * x <= (y - 1) * x
  OBVIOUS
<1>2. (y - 1) * x = x * y - x
  OBVIOUS
<1> QED  BY <1>1, <1>2

LEMMA OnScreen ==
    ASSUME NEW p \in Pixels
    PROVE  /\ p \in Int /\ p % screen_x \in 0 .. screen_x - 1 /\ p \div screen_x \in 0 .. screen_y - 1
           /\ p = (p \div screen_x) * screen_x + (p % screen_x)
<1>1. /\ p \in 0 .. screen_x * screen_y - 1 /\ screen_x * screen_y \in Int
      /\ screen_x \in Nat \ {0} /\ screen_y \in Nat
  BY LayersAssumption DEF Pixels
<1>2. p \in Int
  BY <1>1
<1>3. p \div screen_x \in 0 .. screen_y - 1
  BY <1>1, ScreenLines
<1> QED  BY <1>1, <1>2, <1>3, Split

-----------------------------------------------------------------------------
(* The desktop.                                                            *)

\* The buffers that init_screen fills.
LEMMA DesktopBuffers ==
    /\ IsBuffer(BackgroundLayer.buf, BackgroundLayer.xsize, BackgroundLayer.ysize)
    /\ IsBuffer(TaskbarLayer.buf, TaskbarLayer.xsize, TaskbarLayer.ysize)
    /\ IsBuffer(MouseLayer.buf, MouseLayer.xsize, MouseLayer.ysize)
    /\ \A p \in Pixels : BackgroundLayer.buf[p] = BackColour
<1> DEFINE bg == boxfill(Empty(screen_x, screen_y), screen_x, BackColour, 0, 0, screen_x, screen_y)
           bar == boxfill(Empty(screen_x, TaskbarRows), screen_x, BarColour, 0, 0,
                          screen_x - 1, TaskbarRows - 1)
           cur == set_mouse_cursor(TRANSPARENT, "CURSOR_TYPE_NORMAL")
<1>1. IsBuffer(bg, screen_x, screen_y)
  BY DEF IsBuffer, boxfill, Empty
<1>2. IsBuffer(bar, screen_x, TaskbarRows)
  BY DEF IsBuffer, boxfill, Empty
<1>3. IsBuffer(cur, MOUSE_SIDELENGTH, MOUSE_SIDELENGTH)
  <2> DEFINE shape(n) ==
        IF n % MOUSE_SIDELENGTH < CursorImage["CURSOR_TYPE_NORMAL"].x
           /\ n \div MOUSE_SIDELENGTH < CursorImage["CURSOR_TYPE_NORMAL"].y
           /\ CursorImage["CURSOR_TYPE_NORMAL"].img[(n \div MOUSE_SIDELENGTH)
                 * CursorImage["CURSOR_TYPE_NORMAL"].x + (n % MOUSE_SIDELENGTH) + 1] # "."
        THEN CursorImage["CURSOR_TYPE_NORMAL"].img[(n \div MOUSE_SIDELENGTH)
                 * CursorImage["CURSOR_TYPE_NORMAL"].x + (n % MOUSE_SIDELENGTH) + 1]
        ELSE TRANSPARENT
  <2>1. cur = [n \in 0 .. MOUSE_SIDELENGTH * MOUSE_SIDELENGTH - 1 |-> shape(n)]
    BY DEF set_mouse_cursor
  <2> HIDE DEF cur, shape
  <2> QED  BY <2>1 DEF IsBuffer
<1>4. ASSUME NEW p \in Pixels PROVE bg[p] = BackColour
  <2>1. \E x \in 0 .. screen_x, y \in 0 .. screen_y : p = y * screen_x + x
    <3>1. p % screen_x \in 0 .. screen_x /\ p \div screen_x \in 0 .. screen_y
      BY OnScreen, LayersAssumption
    <3> QED  BY <3>1, OnScreen
  <2> QED  BY <2>1 DEF boxfill, Empty, Pixels
<1> QED  BY <1>1, <1>2, <1>3, <1>4 DEF BackgroundLayer, TaskbarLayer, MouseLayer

\* The first layer put on a screen that nobody owns yet.
LEMMA BackgroundGood ==
    ASSUME NEW screen, NEW garbage \in Int
    PROVE  LET e == Put(layer_controller_init(screen, garbage), BackgroundLayer)
           IN  Good(e) /\ LayerIds \ {Background} \subseteq FreeIds(e)
<1> DEFINE c == layer_controller_init(screen, garbage)
           l == BackgroundLayer
           a == layer_alloc(c)
           b == layer_setbuf(a, Background, l.buf, l.xsize, l.ysize, l.col_inv)
           m == layer_move(b, Background, l.vx0, l.vy0)
           d == Inserted(m, Background, 0)
           e == Repaired(d, AreaOf(m.layers[Background]), 0, 0, 0)
<1>1. /\ Typed(c) /\ c.top = -1
      /\ \A r \in LayerIds : c.layers[r].height = -1 /\ c.layers[r].flags = "LAYER_NO_USE"
  <2>1. IsBuffer(<< >>, 0, 0)
    BY DEF IsBuffer
  <2>2. \A r \in LayerIds : IsLayer(c.layers[r])
    BY <2>1 DEF IsLayer, layer_controller_init
  <2> QED  BY <2>2 DEF Typed, IsController, layer_controller_init
<1> HIDE DEF c
<1>2. FirstFree(c) = Background /\ FreeIds(c) = LayerIds
  <2>1. FreeIds(c) = LayerIds
    BY <1>1 DEF FreeIds
  <2>2. FirstFree(c) \in LayerIds /\ FirstFree(c) <= 0
    BY <2>1, Ids, FirstFreeIs DEF Background
  <2>3. FirstFree(c) \in Nat
    BY <2>2, Ids
  <2> QED  BY <2>1, <2>2, <2>3 DEF Background
<1>3. /\ l.xsize = screen_x /\ l.ysize = screen_y /\ l.vx0 = 0 /\ l.vy0 = 0 /\ l.height = 1
      /\ l.col_inv = INTRANSPARENT /\ l.xsize \in Nat /\ l.ysize \in Nat
  BY LayersAssumption DEF BackgroundLayer
<1> HIDE DEF l
<1>4. /\ Typed(a) /\ a.top = -1 /\ a.layers[Background].flags = "LAYER_USEING"
      /\ \A r \in LayerIds : a.layers[r].height = -1
      /\ \A r \in LayerIds : r # Background => a.layers[r].flags = "LAYER_NO_USE"
  <2>1. Flagged(c, Background, "LAYER_USEING", a)
    BY <1>2 DEF layer_alloc, Flagged
  <2> HIDE DEF a
  <2>2. /\ Typed(a) /\ a.top = c.top
        /\ a.layers[Background].height = -1 /\ a.layers[Background].flags = "LAYER_USEING"
        /\ \A r \in LayerIds : r # Background => a.layers[r] = c.layers[r]
    BY <1>1, <2>1, Ids, FlaggedAt
  <2> QED  BY <2>2, <1>1
<1> HIDE DEF a
<1>5. Buffered(a, Background, l.buf, l.xsize, l.ysize, l.col_inv, b)
  BY <1>3, <1>4, Ids, DesktopBuffers, BufferedAt DEF l
<1> HIDE DEF b
<1>6. /\ Typed(b) /\ b.top = -1 /\ b.layers[Background].flags = "LAYER_USEING"
      /\ \A r \in LayerIds : b.layers[r].height = -1
      /\ \A r \in LayerIds : r # Background => b.layers[r].flags = "LAYER_NO_USE"
      /\ b.layers[Background].bxsize = screen_x /\ b.layers[Background].bysize = screen_y
      /\ b.layers[Background].col_inv = INTRANSPARENT /\ b.layers[Background].buf = l.buf
  <2>1. /\ b.layers[Background].height = -1 /\ b.layers[Background].flags = "LAYER_USEING"
        /\ b.layers[Background].bxsize = screen_x /\ b.layers[Background].bysize = screen_y
        /\ b.layers[Background].col_inv = INTRANSPARENT /\ b.layers[Background].buf = l.buf
    <3> DEFINE k == a.layers[Background]
    <3>1. b.layers[Background] =
            [flags |-> k.flags, height |-> k.height, vx0 |-> k.vx0, vy0 |-> k.vy0,
             bxsize |-> l.xsize, bysize |-> l.ysize, col_inv |-> l.col_inv, buf |-> l.buf]
      BY <1>5 DEF Buffered
    <3>2. k.flags = "LAYER_USEING" /\ k.height = -1
      BY <1>4, Ids
    <3> HIDE DEF k
    <3> QED  BY <1>3, <3>1, <3>2
  <2> QED  BY <2>1, <1>4, <1>5 DEF Buffered
<1>7. /\ Typed(m) /\ m.top = -1 /\ m.layers[Background].flags = "LAYER_USEING"
      /\ \A r \in LayerIds : m.layers[r].height = -1
      /\ \A r \in LayerIds : r # Background => m.layers[r].flags = "LAYER_NO_USE"
      /\ m.layers[Background].vx0 = 0 /\ m.layers[Background].vy0 = 0
      /\ m.layers[Background].bxsize = screen_x /\ m.layers[Background].bysize = screen_y
      /\ m.layers[Background].col_inv = INTRANSPARENT /\ m.layers[Background].buf = l.buf
  <2>1. b.layers[Background].height < 0
    <3>1. b.layers[Background].height = -1
      BY <1>6, Ids, Zenon
    <3> QED  BY <3>1
  <2>2. m = Moved(b, Background, l.vx0, l.vy0)
    BY <2>1 DEF layer_move
  <2> HIDE DEF m
  <2>3. MovedTo(b, Background, l.vx0, l.vy0, m)
    BY <1>3, <1>6, <2>2, Ids, MovedAt
  <2> QED  BY <1>3, <1>6, <2>3, Ids DEF MovedTo
<1>8. Put(c, l) = e
  <2>1. Put(c, l) = layer_set_height(m, Background, 1)
    BY <1>2, <1>3 DEF Put, a, b
  <2>2. Max2(Min2(1, m.top + 1), -1) = 0 /\ m.layers[Background].height = -1
    BY <1>7, Ids DEF Max2, Min2
  <2> HIDE DEF m
  <2> QED  BY <2>1, <2>2 DEF layer_set_height
<1> HIDE DEF m
<1>9. Stacked(m)
  <2>1. m.top \in -1 .. MAX_LAYERS - 1 /\ 0 .. m.top = {}
    BY <1>7, Ids
  <2>2. \A r \in LayerIds : m.layers[r].height \in -1 .. m.top /\ ~Shown(m, r)
    BY <1>7 DEF Shown
  <2> QED  BY <2>1, <2>2 DEF Stacked
<1>10. /\ Reheighted(m, d, Background) /\ Stacked(d) /\ d.top = 0
       /\ \A r \in LayerIds : d.layers[r].height = IF r = Background THEN 0 ELSE -1
  <2>1. ~Shown(m, Background) /\ 0 \in 0 .. m.top + 1 /\ m.layers[Background].flags # "LAYER_NO_USE"
    BY <1>7, Ids DEF Shown
  <2> HIDE DEF d
  <2>2. /\ Reheighted(m, d, Background) /\ Stacked(d) /\ d.top = m.top + 1
        /\ \A r \in LayerIds :
              d.layers[r].height = IF r = Background THEN 0
                                   ELSE IF m.layers[r].height >= 0
                                   THEN m.layers[r].height + 1 ELSE m.layers[r].height
    BY <1>7, <1>9, <2>1, Ids, InsertedAt DEF d
  <2> QED  BY <2>2, <1>7
<1> HIDE DEF d
<1>11. ASSUME NEW p \in Pixels
       PROVE  /\ Takes(d, Background, p) /\ In(AreaOf(m.layers[Background]), p)
  <2>1. In(AreaOf(m.layers[Background]), p)
    BY <1>7, OnScreen, LayersAssumption DEF AreaOf, Area, In, Max2, Min2
  <2>2. PixelOf(m.layers[Background], p) = BackColour
    <3>1. PixelOf(m.layers[Background], p) =
             l.buf[((p \div screen_x) - 0) * screen_x + (p % screen_x) - 0]
      BY <1>7 DEF PixelOf
    <3>2. ((p \div screen_x) - 0) * screen_x + (p % screen_x) - 0 = p
      BY OnScreen, LayersAssumption
    <3> QED  BY <3>1, <3>2, DesktopBuffers DEF l
  <2>3. Covers(m.layers[Background], p) /\ Opaque(m.layers[Background], p)
    BY <2>1, <2>2, <1>7, LayersAssumption DEF Covers, Opaque
  <2>4. SameLook(m.layers[Background], d.layers[Background])
    BY <1>10, Ids DEF Reheighted
  <2> QED  BY <2>1, <2>3, <2>4, LooksTheSame DEF Takes
<1>12. /\ IsController(e) /\ e.layers = d.layers /\ e.layers_addr = d.layers_addr /\ e.top = d.top
  <2> DEFINE area == AreaOf(m.layers[Background])
  <2>1. /\ IsController(layer_refreshmap(d, area, 0))
        /\ layer_refreshmap(d, area, 0).layers = d.layers
        /\ layer_refreshmap(d, area, 0).layers_addr = d.layers_addr
        /\ layer_refreshmap(d, area, 0).top = d.top
    BY <1>10, RemapFrame DEF Typed, Reheighted
  <2> QED  BY <2>1, RedrawFrame DEF Repaired
<1>13. BackgroundThere(d)
  BY <1>10, <1>11, Ids DEF BackgroundThere, Shown
<1>14. ASSUME NEW p \in Pixels PROVE Right(e, p)
  <2>1. \A r \in LayerIds : Shown(d, r) => r = Background
    BY <1>10 DEF Shown
  <2>2. TopAt(d, p, Background)
    BY <1>10, <1>11, <2>1, Ids DEF TopAt, Shown
  <2>3. d.layers[Background].height \in 0 .. 0 /\ 0 \in Nat /\ 0 \in Int /\ 0 <= d.top /\ 0 <= 0
    BY <1>10, Ids
  <2>4. Typed(d)
    BY <1>10 DEF Reheighted
  <2> QED  BY <1>10, <1>11, <2>2, <2>3, <2>4, Repair
<1> HIDE DEF e
<1>15. Good(e)
  BY <1>10, <1>12, <1>13, <1>14, SameLayers DEF Good, Sound, Reheighted
<1>16. LayerIds \ {Background} \subseteq FreeIds(e)
  BY <1>7, <1>10, <1>12 DEF FreeIds, Reheighted
<1>17. Good(Put(c, l)) /\ LayerIds \ {Background} \subseteq FreeIds(Put(c, l))
  BY <1>8, <1>15, <1>16
<1> QED  BY <1>17 DEF c, l

\* The desktop that init_screen leaves.
LEMMA DesktopGood ==
    ASSUME NEW screen, NEW garbage \in Int
    PROVE  Good(Put(Put(Put(layer_controller_init(screen, garbage), BackgroundLayer),
                        TaskbarLayer), MouseLayer))
<1> DEFINE c1 == Put(layer_controller_init(screen, garbage), BackgroundLayer)
           c2 == Put(c1, TaskbarLayer)
<1>1. Good(c1) /\ LayerIds \ {Background} \subseteq FreeIds(c1)
  BY BackgroundGood
<1> HIDE DEF c1
<1>2. 1 \in LayerIds \ {Background} /\ 2 \in LayerIds \ {Background}
  BY Ids DEF Background
<1>3. Good(c2) /\ FreeIds(c1) \ {FirstFree(c1)} \subseteq FreeIds(c2)
  <2>1. /\ TaskbarLayer.xsize \in Nat /\ TaskbarLayer.ysize \in Nat /\ TaskbarLayer.vx0 \in Int
        /\ TaskbarLayer.vy0 \in Int /\ TaskbarLayer.height \in Int
    BY LayersAssumption DEF TaskbarLayer
  <2>2. FreeIds(c1) # {}
    BY <1>1, <1>2
  <2> QED  BY <1>1, <2>1, <2>2, DesktopBuffers, PutGood
<1> HIDE DEF c2
<1>4. FreeIds(c2) # {}
  BY <1>1, <1>2, <1>3
<1>5. /\ MouseLayer.xsize \in Nat /\ MouseLayer.ysize \in Nat /\ MouseLayer.vx0 \in Int
      /\ MouseLayer.vy0 \in Int /\ MouseLayer.height \in Int
  BY LayersAssumption DEF MouseLayer
<1>6. Good(Put(c2, MouseLayer))
  BY <1>3, <1>4, <1>5, DesktopBuffers, PutGood
<1> QED  BY <1>6 DEF c1, c2

-----------------------------------------------------------------------------
(* Drawing in a window.                                                    *)

\* A pixel of the screen under a layer is one of its buffer.
LEMMA CellOf ==
    ASSUME NEW lay, IsLayer(lay), NEW p \in Pixels, Covers(lay, p)
    PROVE  \E r \in 0 .. lay.bysize - 1, i \in 0 .. lay.bxsize - 1 :
              /\ p \div screen_x = lay.vy0 + r /\ p % screen_x = lay.vx0 + i
              /\ r * lay.bxsize + i \in DOMAIN lay.buf
              /\ PixelOf(lay, p) = lay.buf[r * lay.bxsize + i]
<1> DEFINE r == (p \div screen_x) - lay.vy0
           i == (p % screen_x) - lay.vx0
<1>1. /\ lay.vx0 \in Int /\ lay.vy0 \in Int /\ lay.bxsize \in Nat /\ lay.bysize \in Nat
      /\ DOMAIN lay.buf = 0 .. lay.bxsize * lay.bysize - 1
  BY DEF IsLayer, IsBuffer
<1>2. p % screen_x \in Int /\ p \div screen_x \in Int
  BY OnScreen
<1>3. r \in 0 .. lay.bysize - 1 /\ i \in 0 .. lay.bxsize - 1
  <2>1. /\ p % screen_x \in Max2(lay.vx0, 0) .. Min2(lay.vx0 + lay.bxsize, screen_x) - 1
        /\ p \div screen_x \in Max2(lay.vy0, 0) .. Min2(lay.vy0 + lay.bysize, screen_y) - 1
    BY DEF Covers, In, AreaOf, Area
  <2>2. \A a, v, b, w \in Int : a \in Max2(v, 0) .. Min2(v + b, w) - 1 => a - v \in 0 .. b - 1
    BY DEF Max2, Min2
  <2>3. screen_x \in Int /\ screen_y \in Int /\ lay.bxsize \in Int /\ lay.bysize \in Int
    BY <1>1, LayersAssumption
  <2> QED  BY <1>1, <1>2, <2>1, <2>2, <2>3
<1>4. p \div screen_x = lay.vy0 + r /\ p % screen_x = lay.vx0 + i
  BY <1>1, <1>2
<1>5. PixelOf(lay, p) = lay.buf[r * lay.bxsize + i]
  <2>1. r * lay.bxsize \in Int
    BY <1>1, <1>3
  <2>2. r * lay.bxsize + (p % screen_x) - lay.vx0 = r * lay.bxsize + i
    <3>1. \A a \in Int : a + (p % screen_x) - lay.vx0 = a + i
      BY <1>1, <1>2
    <3> QED  BY <2>1, <3>1
  <2>3. PixelOf(lay, p) = lay.buf[r * lay.bxsize + (p % screen_x) - lay.vx0]
    BY DEF PixelOf
  <2> HIDE DEF r, i
  <2> QED  BY <2>2, <2>3
<1> HIDE DEF r, i
<1>6. r * lay.bxsize + i \in DOMAIN lay.buf
  BY <1>1, <1>3, InCells
<1> QED  BY <1>3, <1>4, <1>5, <1>6

\* A colour in the buffer of a layer.
Coloured(c, s, n, colour, d) ==
    /\ Typed(d) /\ d.layers_addr = c.layers_addr /\ d.top = c.top
    /\ d.map = c.map /\ d.vram = c.vram
    /\ \A r \in LayerIds : r # s => d.layers[r] = c.layers[r]
    /\ d.layers[s].height = c.layers[s].height /\ d.layers[s].flags = c.layers[s].flags
    /\ d.layers[s].vx0 = c.layers[s].vx0 /\ d.layers[s].vy0 = c.layers[s].vy0
    /\ d.layers[s].bxsize = c.layers[s].bxsize /\ d.layers[s].bysize = c.layers[s].bysize
    /\ d.layers[s].col_inv = c.layers[s].col_inv
    /\ DOMAIN d.layers[s].buf = DOMAIN c.layers[s].buf
    /\ \A k \in DOMAIN c.layers[s].buf :
          d.layers[s].buf[k] = IF k = n THEN colour ELSE c.layers[s].buf[k]

LEMMA ColouredAt ==
    ASSUME NEW c, Typed(c), NEW s \in LayerIds, NEW n \in DOMAIN c.layers[s].buf, NEW colour
    PROVE  Coloured(c, s, n, colour, [c EXCEPT !.layers[s].buf[n] = colour])
<1> DEFINE d == [c EXCEPT !.layers[s].buf[n] = colour]
           l == c.layers[s]
           buf == [k \in DOMAIN l.buf |-> IF k = n THEN colour ELSE l.buf[k]]
           lay == [l EXCEPT !.buf[n] = colour]
<1>1. IsController(c) /\ c.layers = [r \in LayerIds |-> c.layers[r]] /\ IsLayer(l)
  BY DEF Typed
<1>2. /\ IsController(d) /\ d.layers_addr = c.layers_addr /\ d.top = c.top
      /\ d.map = c.map /\ d.vram = c.vram
      /\ d.layers = [r \in LayerIds |-> IF r = s THEN lay ELSE c.layers[r]]
  <2>1. d = [c EXCEPT !.layers[s] = lay]
    OBVIOUS
  <2> HIDE DEF lay, d
  <2> QED  BY <1>1, <2>1 DEF IsController
<1>3. lay = [flags |-> l.flags, height |-> l.height, vx0 |-> l.vx0, vy0 |-> l.vy0,
             bxsize |-> l.bxsize, bysize |-> l.bysize, col_inv |-> l.col_inv, buf |-> buf]
  <2> DEFINE b == [l.buf EXCEPT ![n] = colour]
  <2>1. lay = [l EXCEPT !.buf = b]
    OBVIOUS
  <2>2. b = buf
    BY <1>1 DEF IsLayer, IsBuffer
  <2> HIDE DEF lay, l, b, buf
  <2> QED  BY <1>1, <2>1, <2>2 DEF IsLayer
<1>4. IsBuffer(buf, l.bxsize, l.bysize)
  BY <1>1 DEF IsLayer, IsBuffer
<1>5. /\ DOMAIN buf = DOMAIN l.buf
      /\ \A k \in DOMAIN l.buf : buf[k] = IF k = n THEN colour ELSE l.buf[k]
  OBVIOUS
<1> HIDE DEF d, lay, buf
<1>6. /\ IsLayer(lay) /\ lay.height = l.height /\ lay.flags = l.flags
      /\ lay.vx0 = l.vx0 /\ lay.vy0 = l.vy0 /\ lay.bxsize = l.bxsize /\ lay.bysize = l.bysize
      /\ lay.col_inv = l.col_inv /\ lay.buf = buf
  <2> HIDE DEF l
  <2> QED  BY <1>1, <1>3, <1>4 DEF IsLayer
<1>7. d.layers[s] = lay /\ \A r \in LayerIds : r # s => d.layers[r] = c.layers[r]
  BY <1>2
<1>8. Typed(d)
  BY <1>2, <1>6, <1>7 DEF Typed
<1>9. Coloured(c, s, n, colour, d)
  BY <1>2, <1>5, <1>6, <1>7, <1>8 DEF Coloured
<1> QED  BY <1>9 DEF d

\* A window is drawn in where it is not transparent, and that place alone is
\* refreshed.
LEMMA DrawGood ==
    ASSUME NEW c, Good(c), NEW s \in LayerIds, s # Background,
           NEW n \in DOMAIN c.layers[s].buf, NEW colour,
           c.layers[s].buf[n] # c.layers[s].col_inv, colour # c.layers[s].col_inv
    PROVE  LET x == n % c.layers[s].bxsize
               y == n \div c.layers[s].bxsize
               d == [c EXCEPT !.layers[s].buf[n] = colour]
           IN  Good(layer_refresh(d, s, x, y, x + 1, y + 1))
<1> DEFINE l == c.layers[s]
           x == n % l.bxsize
           y == n \div l.bxsize
           d == [c EXCEPT !.layers[s].buf[n] = colour]
           m == d.layers[s]
           area == Area(m.vx0 + x, m.vy0 + y, m.vx0 + (x + 1), m.vy0 + (y + 1))
           e == layer_refresh_area(d, area, m.height, m.height)
<1>1. Typed(c) /\ Stacked(c) /\ BackgroundThere(c) /\ IsLayer(l)
  BY DEF Good, Sound, Typed
<1>2. Coloured(c, s, n, colour, d)
  BY <1>1, ColouredAt
<1>3. layer_refresh(d, s, x, y, x + 1, y + 1) = IF m.height < 0 THEN d ELSE e
  BY DEF layer_refresh
<1> HIDE DEF d
<1>4. /\ Typed(d) /\ d.layers_addr = c.layers_addr /\ d.top = c.top
      /\ d.map = c.map /\ d.vram = c.vram
      /\ \A r \in LayerIds : r # s => d.layers[r] = c.layers[r]
      /\ m.height = l.height /\ m.flags = l.flags
      /\ m.vx0 = l.vx0 /\ m.vy0 = l.vy0
      /\ m.bxsize = l.bxsize /\ m.bysize = l.bysize /\ m.col_inv = l.col_inv
      /\ DOMAIN m.buf = DOMAIN l.buf
      /\ \A k \in DOMAIN l.buf : m.buf[k] = IF k = n THEN colour ELSE l.buf[k]
  BY <1>2 DEF Coloured
<1>5. CASE m.height < 0
  <2>1. ~Shown(c, s) /\ d.layers[s].height = -1
    BY <1>1, <1>4, <1>5, Heights DEF Shown, Stacked
  <2>2. Good(d)
    BY <1>4, <2>1, OutOfSight
  <2> QED  BY <1>3, <1>5, <2>2 DEF d
<1>6. CASE ~(m.height < 0)
  <2>1. IsLayer(m)
    BY <1>4 DEF Typed
  <2>2. \A p : Covers(m, p) <=> Covers(l, p)
    BY <1>4 DEF Covers, AreaOf
  <2>3. ASSUME NEW p \in Pixels, Covers(l, p)
        PROVE  \E r \in 0 .. l.bysize - 1, i \in 0 .. l.bxsize - 1 :
                  /\ p \div screen_x = l.vy0 + r /\ p % screen_x = l.vx0 + i
                  /\ r * l.bxsize + i \in DOMAIN l.buf
                  /\ PixelOf(l, p) = l.buf[r * l.bxsize + i]
                  /\ PixelOf(m, p) = m.buf[r * l.bxsize + i]
    <3> HIDE DEF l, m
    <3>1. PICK r \in 0 .. l.bysize - 1, i \in 0 .. l.bxsize - 1 :
             /\ p \div screen_x = l.vy0 + r /\ p % screen_x = l.vx0 + i
             /\ r * l.bxsize + i \in DOMAIN l.buf
             /\ PixelOf(l, p) = l.buf[r * l.bxsize + i]
      BY <1>1, <2>3, CellOf
    <3>2. PICK r2 \in 0 .. l.bysize - 1, i2 \in 0 .. l.bxsize - 1 :
             /\ p \div screen_x = l.vy0 + r2 /\ p % screen_x = l.vx0 + i2
             /\ PixelOf(m, p) = m.buf[r2 * l.bxsize + i2]
      <4>1. Covers(m, p)
        BY <2>2, <2>3
      <4> QED  BY <4>1, <1>4, <2>1, CellOf
    <3>3. r = r2 /\ i = i2
      BY <3>1, <3>2, <1>1 DEF IsLayer
    <3> QED  BY <3>1, <3>2, <3>3
  <2>4. ASSUME NEW p \in Pixels
        PROVE  /\ Opaque(m, p) /\ Covers(m, p) <=> Opaque(l, p) /\ Covers(l, p)
               /\ Covers(m, p) => In(area, p) \/ PixelOf(m, p) = PixelOf(l, p)
    <3>1. CASE Covers(l, p)
      <4>1. PICK r \in 0 .. l.bysize - 1, i \in 0 .. l.bxsize - 1 :
                  /\ p \div screen_x = l.vy0 + r /\ p % screen_x = l.vx0 + i
                  /\ r * l.bxsize + i \in DOMAIN l.buf
                  /\ PixelOf(l, p) = l.buf[r * l.bxsize + i]
                  /\ PixelOf(m, p) = m.buf[r * l.bxsize + i]
        BY <2>3, <3>1
      <4>2. Opaque(m, p) <=> Opaque(l, p)
        BY <4>1, <1>4 DEF Opaque
      <4>3. ASSUME r * l.bxsize + i = n PROVE In(area, p)
        <5>1. /\ l.bxsize \in Nat /\ l.bysize \in Nat /\ r \in Int
              /\ l.vx0 \in Int /\ l.vy0 \in Int
          BY <1>1 DEF IsLayer
        <5>2. x = i /\ y = r
          <6> HIDE DEF l
          <6>1. (r * l.bxsize + i) \div l.bxsize = r /\ (r * l.bxsize + i) % l.bxsize = i
            BY <5>1, Unsplit
          <6> QED  BY <4>3, <6>1
        <5> HIDE DEF x, y
        <5>3. area = Area(l.vx0 + i, l.vy0 + r, l.vx0 + (i + 1), l.vy0 + (r + 1))
          BY <1>4, <5>2
        <5>4. \A a, v, j, w \in Int :
                 a = v + j /\ 0 <= a /\ a < w =>
                 a \in Max2(v + j, 0) .. Min2(v + (j + 1), w) - 1
          BY DEF Max2, Min2
        <5> HIDE DEF area, l, m
        <5> DEFINE px == p % screen_x
                   py == p \div screen_x
        <5>5. px \in 0 .. screen_x - 1 /\ py \in 0 .. screen_y - 1
          BY OnScreen
        <5>6. screen_x \in Int /\ screen_y \in Int /\ i \in Int
          BY <5>1, LayersAssumption
        <5>7. px = l.vx0 + i /\ py = l.vy0 + r
          BY <4>1
        <5> HIDE DEF px, py
        <5>8. px \in Int /\ 0 <= px /\ px < screen_x
          BY <5>5, <5>6
        <5>9. py \in Int /\ 0 <= py /\ py < screen_y
          BY <5>5, <5>6
        <5>10. px \in Max2(l.vx0 + i, 0) .. Min2(l.vx0 + (i + 1), screen_x) - 1
          BY <5>1, <5>4, <5>6, <5>7, <5>8
        <5>11. py \in Max2(l.vy0 + r, 0) .. Min2(l.vy0 + (r + 1), screen_y) - 1
          BY <5>1, <5>4, <5>6, <5>7, <5>9
        <5> QED  BY <5>3, <5>10, <5>11 DEF In, Area, px, py
      <4>4. r * l.bxsize + i # n => PixelOf(m, p) = PixelOf(l, p)
        BY <4>1, <1>4
      <4> HIDE DEF area, m, l
      <4> QED  BY <2>2, <3>1, <4>2, <4>3, <4>4
    <3>2. CASE ~Covers(l, p)
      BY <3>2, <2>2
    <3> QED  BY <3>1, <3>2
  <2>5. \A r \in LayerIds, p \in Pixels : /\ Takes(d, r, p) <=> Takes(c, r, p)
                                          /\ d.layers[r].height = c.layers[r].height
                                          /\ d.layers[r].flags = c.layers[r].flags
    <3> SUFFICES ASSUME NEW r \in LayerIds, NEW p \in Pixels
                 PROVE  /\ Takes(d, r, p) <=> Takes(c, r, p)
                        /\ d.layers[r].height = c.layers[r].height
                        /\ d.layers[r].flags = c.layers[r].flags
      OBVIOUS
    <3>1. CASE r = s
      BY <3>1, <1>4, <2>4 DEF Takes
    <3>2. CASE r # s
      BY <3>2, <1>4 DEF Takes
    <3> QED  BY <3>1, <3>2
  <2> HIDE DEF area
  <2>6. \A r \in LayerIds : /\ d.layers[r].height = c.layers[r].height
                            /\ d.layers[r].flags = c.layers[r].flags
    BY <1>4
  <2>7. Stacked(d)
    BY <1>1, <1>4, <2>6 DEF Stacked, Shown
  <2>8. BackgroundThere(d)
    BY <1>1, <2>5, <2>6, Ids DEF BackgroundThere, Shown
  <2>9. \A p \in Pixels : \A t : TopAt(c, p, t) => TopAt(d, p, t)
    BY <2>5, <2>6 DEF TopAt, Shown
  <2>10. /\ IsController(e) /\ e.layers = d.layers /\ e.layers_addr = d.layers_addr
         /\ e.top = d.top /\ e.map = d.map
    BY <1>4, RedrawFrame DEF Typed
  <2>11. ASSUME NEW p \in Pixels PROVE Right(e, p)
    <3>1. PICK q \in LayerIds : TopAt(c, p, q) /\ Shows(c, p, q)
      BY DEF Good, Right
    <3>2. TopAt(d, p, q) /\ Shown(d, q) /\ Covers(d.layers[q], p)
      BY <2>9, <3>1 DEF TopAt, Takes
    <3>3. m.height \in Nat /\ m.height \in Int /\ m.height <= d.top /\ m.height <= m.height
          /\ d.layers[q].height \in Int
      BY <1>6, <2>7, Heights DEF Stacked
    <3>4. d.map[p] = q
      BY <1>4, <3>1 DEF Shows
    <3>5. e.vram[p] = IF In(area, p) /\ d.layers[q].height \in m.height .. m.height
                         /\ Covers(d.layers[q], p)
                      THEN PixelOf(d.layers[q], p) ELSE d.vram[p]
      <4> HIDE DEF m
      <4> QED  BY <1>4, <2>7, <3>2, <3>3, <3>4, RedrawAt
    <3> HIDE DEF e
    <3>6. e.vram[p] = PixelOf(d.layers[q], p)
      <4>1. CASE q = s
        <5>1. m.height \in m.height .. m.height
          BY <3>3
        <5>2. In(area, p) \/ PixelOf(m, p) = PixelOf(l, p)
          BY <4>1, <2>4, <3>2
        <5>3. d.vram[p] = PixelOf(l, p)
          BY <4>1, <1>4, <3>1 DEF Shows
        <5> QED  BY <4>1, <5>1, <5>2, <5>3, <3>2, <3>5
      <4>2. CASE q # s
        <5>1. d.layers[q].height # m.height
          BY <4>2, <2>7, <3>2, Heights
        <5>2. d.layers[q].height \notin m.height .. m.height
          BY <5>1, <3>3
        <5>3. d.vram[p] = PixelOf(d.layers[q], p)
          BY <4>2, <1>4, <3>1 DEF Shows
        <5> QED  BY <5>2, <5>3, <3>5
      <4> QED  BY <4>1, <4>2
    <3>7. TopAt(e, p, q)
      BY <2>10, <3>2, SameLayers
    <3> QED  BY <2>10, <3>4, <3>6, <3>7 DEF Right, Shows
  <2> HIDE DEF e
  <2>12. Good(e)
    BY <1>4, <2>7, <2>8, <2>10, <2>11, SameLayers DEF Good, Sound
  <2> QED  BY <1>3, <1>6, <2>12 DEF d
<1> QED  BY <1>5, <1>6

-----------------------------------------------------------------------------
(* The screen.                                                             *)

\* In graphics mode the controller and the frame buffer are good.
IInv ==
    /\ mode \in {0, 1}
    /\ mode = 1 => Good(Now)
    /\ mouse_cursor = [x |-> mouse_cursor.x, y |-> mouse_cursor.y]
    /\ mouse_cursor.x \in Int /\ mouse_cursor.y \in Int

\* What an operation leaves is what the state is then.
LEMMA NowIs ==
    ASSUME NEW c, Good(c), Becomes(c)
    PROVE  Good(Now)'
<1>1. IsController(c)
  BY DEF Good, Sound, Typed
<1>2. Now' = c
  BY <1>1 DEF Now, Becomes, IsController
<1>3. Good(Now')
  BY <1>2
<1> QED  BY <1>3

\* IInv holds at first: there are no layers in text mode.
LEMMA InitScreen == Init => IInv
BY DEF Init, ConsoleInit, IInv

\* IInv is inductive.
LEMMA NextScreen == IInv /\ [Next]_vars => IInv'
<1> SUFFICES ASSUME IInv, [Next]_vars PROVE IInv'
  OBVIOUS
<1>1. ASSUME NEW call \in Calls, color_printk(call.fmt, call.args),
             UNCHANGED <<layer_ctl, mouse_cursor>>
      PROVE  IInv'
  BY <1>1 DEF IInv, color_printk
<1>2. ASSUME NEW garbage \in Garbage, init_screen(garbage) PROVE IInv'
  <2> DEFINE c == Put(Put(Put(layer_controller_init(vram, garbage), BackgroundLayer),
                          TaskbarLayer), MouseLayer)
  <2>1. Good(c)
    BY <1>2, DesktopGood, ScreenAssumption
  <2>2. Becomes(c) /\ mode' = 1
        /\ mouse_cursor' = [x |-> screen_x \div 2, y |-> screen_y \div 2]
    BY <1>2 DEF init_screen
  <2> HIDE DEF c
  <2>3. Good(Now)'
    BY <2>1, <2>2, NowIs
  <2>4. screen_x \div 2 \in Int /\ screen_y \div 2 \in Int
    BY LayersAssumption
  <2> QED  BY <2>2, <2>3, <2>4 DEF IInv
<1>3. ASSUME NEW step \in Steps, mouse_cursor_move(step[1], step[2]) PROVE IInv'
  <2> DEFINE x == Max2(Min2(mouse_cursor.x + step[1], screen_x), 0)
             y == Max2(Min2(mouse_cursor.y - step[2], screen_y), 0)
  <2>1. x \in Int /\ y \in Int
    BY ScreenAssumption, LayersAssumption DEF IInv, Max2, Min2
  <2>2. /\ mode = 1 /\ mode' = mode /\ mouse_cursor' = [x |-> x, y |-> y]
        /\ Becomes(layer_move(Now, Mouse, x, y))
    BY <1>3 DEF mouse_cursor_move
  <2> HIDE DEF x, y
  <2>3. Good(layer_move(Now, Mouse, x, y))
    <3>1. Good(Now) /\ Mouse \in LayerIds /\ Mouse # Background
      BY <2>2, Ids DEF IInv, Mouse, Background
    <3> QED  BY <2>1, <3>1, MoveGood
  <2>4. Good(Now)'
    BY <2>2, <2>3, NowIs
  <2> QED  BY <2>1, <2>2, <2>4 DEF IInv
<1>4. ASSUME NEW w \in Windows, Open(w) PROVE IInv'
  <2>1. /\ mode = 1 /\ mode' = mode /\ mouse_cursor' = mouse_cursor /\ Good(Now)
        /\ FreeIds(Now) # {}
        /\ Becomes(layer_setbuf(layer_alloc(Now), FirstFree(Now), w.buf, w.xsize, w.ysize, w.col_inv))
    BY <1>4 DEF Open, Desktop, IInv
  <2>2. w.xsize \in Nat /\ w.ysize \in Nat /\ IsBuffer(w.buf, w.xsize, w.ysize)
    BY ScreenAssumption
  <2>3. Good(layer_setbuf(layer_alloc(Now), FirstFree(Now), w.buf, w.xsize, w.ysize, w.col_inv))
    BY <2>1, <2>2, AllocGood
  <2>4. Good(Now)'
    BY <2>1, <2>3, NowIs
  <2> QED  BY <2>1, <2>4 DEF IInv
<1>5. ASSUME NEW s \in WindowIds
      PROVE  /\ s \in LayerIds /\ s # Background /\ Now.layers[s] = layer_ctl.layers[s]
             /\ Now.layers[s].flags # "LAYER_NO_USE" /\ Now.top = layer_ctl.top
  BY DEF WindowIds, InUse, Now
<1>6. ASSUME NEW s \in WindowIds, NEW at \in Places, Move(s, at) PROVE IInv'
  <2>1. /\ mode = 1 /\ mode' = mode /\ mouse_cursor' = mouse_cursor /\ Good(Now)
        /\ Becomes(layer_move(Now, s, at[1], at[2]))
    BY <1>6 DEF Move, Desktop, IInv
  <2>2. at[1] \in Int /\ at[2] \in Int
    BY ScreenAssumption
  <2>3. Good(layer_move(Now, s, at[1], at[2]))
    BY <1>5, <2>1, <2>2, MoveGood
  <2>4. Good(Now)'
    BY <2>1, <2>3, NowIs
  <2> QED  BY <2>1, <2>4 DEF IInv
<1>7. ASSUME NEW s \in WindowIds, NEW height \in -1 .. MAX_LAYERS, SetHeight(s, height)
      PROVE  IInv'
  <2>1. /\ mode = 1 /\ mode' = mode /\ mouse_cursor' = mouse_cursor /\ Good(Now)
        /\ layer_ctl.layers[s].height >= 0 => height <= layer_ctl.top
        /\ Becomes(layer_set_height(Now, s, height))
    BY <1>7 DEF SetHeight, Desktop, IInv
  <2>2. (Shown(Now, s) => height <= Now.top) /\ height \in Int
    BY <1>5, <2>1, Ids DEF Shown
  <2>3. Good(layer_set_height(Now, s, height))
    BY <1>5, <2>1, <2>2, SetHeightGood
  <2>4. Good(Now)'
    BY <2>1, <2>3, NowIs
  <2> QED  BY <2>1, <2>4 DEF IInv
<1>8. ASSUME NEW s \in WindowIds, NEW n \in DOMAIN layer_ctl.layers[s].buf, NEW colour \in Colours,
             Draw(s, n, colour)
      PROVE  IInv'
  <2> DEFINE lay == Now.layers[s]
             c == layer_refresh([Now EXCEPT !.layers[s].buf[n] = colour], s,
                                n % lay.bxsize, n \div lay.bxsize,
                                (n % lay.bxsize) + 1, (n \div lay.bxsize) + 1)
  <2>1. /\ mode = 1 /\ mode' = mode /\ mouse_cursor' = mouse_cursor /\ Good(Now)
        /\ lay.buf[n] # lay.col_inv /\ colour # lay.col_inv /\ n \in DOMAIN lay.buf
        /\ Becomes(c)
    BY <1>5, <1>8 DEF Draw, Desktop, IInv
  <2>2. Good(c)
    BY <1>5, <2>1, DrawGood
  <2>3. Good(Now)'
    <3> HIDE DEF c
    <3> QED  BY <2>1, <2>2, NowIs
  <2> QED  BY <2>1, <2>3 DEF IInv
<1>9. ASSUME NEW s \in WindowIds, Close(s) PROVE IInv'
  <2>1. /\ mode = 1 /\ mode' = mode /\ mouse_cursor' = mouse_cursor /\ Good(Now)
        /\ Becomes(layer_free(Now, s))
    BY <1>9 DEF Close, Desktop, IInv
  <2>2. Good(layer_free(Now, s))
    BY <1>5, <2>1, FreeGood
  <2>3. Good(Now)'
    BY <2>1, <2>2, NowIs
  <2> QED  BY <2>1, <2>3 DEF IInv
<1>10. CASE UNCHANGED vars
  <2>1. mode' = mode /\ mouse_cursor' = mouse_cursor /\ layer_ctl' = layer_ctl /\ vram' = vram
    BY <1>10 DEF vars, consoleVars
  <2>2. Now' = Now
    BY <2>1 DEF Now
  <2>3. mode = 1 => Good(Now')
    BY <2>2 DEF IInv
  <2>4. mode = 1 => Good(Now)'
    BY <2>3
  <2> QED  BY <2>1, <2>4 DEF IInv
<1> QED  BY <1>1, <1>2, <1>3, <1>4, <1>6, <1>7, <1>8, <1>9, <1>10 DEF Next

-----------------------------------------------------------------------------
(* Theorems.                                                               *)

THEOREM ScreenGood == Spec => []IInv
BY InitScreen, NextScreen, PTL DEF Spec

\* LayersInOrder: layers_addr lists the shown layers by height, each once, and
\* each knows its place in it.
THEOREM LayersAreInOrder == Spec => []LayersInOrder
<1>1. IInv => LayersInOrder
  <2> SUFFICES ASSUME IInv, mode = 1
               PROVE  /\ ShownLayers = {layer_ctl.layers_addr[h] : h \in 0 .. layer_ctl.top}
                      /\ \A h \in 0 .. layer_ctl.top :
                            layer_ctl.layers[layer_ctl.layers_addr[h]].height = h
    BY DEF LayersInOrder
  <2>1. Stacked(Now)
    BY DEF IInv, Good, Sound
  <2>2. /\ Now.layers = layer_ctl.layers /\ Now.layers_addr = layer_ctl.layers_addr
        /\ Now.top = layer_ctl.top
    BY DEF Now
  <2>3. /\ layer_ctl.top \in Int
        /\ \A h \in 0 .. layer_ctl.top :
              /\ layer_ctl.layers_addr[h] \in LayerIds
              /\ layer_ctl.layers[layer_ctl.layers_addr[h]].height = h
        /\ \A s \in LayerIds :
              layer_ctl.layers[s].height >= 0 =>
                 /\ layer_ctl.layers[s].height \in 0 .. layer_ctl.top
                 /\ layer_ctl.layers_addr[layer_ctl.layers[s].height] = s
                 /\ layer_ctl.layers[s].flags # "LAYER_NO_USE"
    BY <2>1, <2>2, Heights DEF Stacked, Shown
  <2>4. ASSUME NEW h \in 0 .. layer_ctl.top PROVE layer_ctl.layers_addr[h] \in ShownLayers
    <3>1. /\ layer_ctl.layers_addr[h] \in LayerIds
          /\ layer_ctl.layers[layer_ctl.layers_addr[h]].height = h /\ h >= 0
      BY <2>3
    <3> QED  BY <2>3, <3>1 DEF ShownLayers, InUse
  <2>5. ASSUME NEW s \in ShownLayers
        PROVE  \E h \in 0 .. layer_ctl.top : layer_ctl.layers_addr[h] = s
    BY <2>3 DEF ShownLayers, InUse
  <2> QED  BY <2>3, <2>4, <2>5
<1> QED  BY <1>1, ScreenGood, PTL

\* ScreenShowsTop: in graphics mode every pixel of the frame buffer shows the
\* highest layer that is opaque there, whatever was moved, raised, hidden, drawn
\* or freed before.
THEOREM ScreenIsRight == Spec => []ScreenShowsTop
<1> DEFINE there(p) == {q \in ShownLayers : /\ Covers(layer_ctl.layers[q], p)
                                            /\ Opaque(layer_ctl.layers[q], p)}
<1>1. IInv => ScreenShowsTop
  <2> SUFFICES ASSUME IInv, mode = 1, NEW p \in Pixels
               PROVE  \E s \in there(p) :
                         /\ \A r \in there(p) :
                               layer_ctl.layers[r].height <= layer_ctl.layers[s].height
                         /\ vram[p] = PixelOf(layer_ctl.layers[s], p)
    BY DEF ScreenShowsTop
  <2>1. PICK s \in LayerIds : TopAt(Now, p, s) /\ Shows(Now, p, s)
    BY DEF IInv, Good, Right
  <2>2. Now.layers = layer_ctl.layers /\ Now.vram = vram
    BY DEF Now
  <2>3. Stacked(Now)
    BY DEF IInv, Good, Sound
  <2>4. \A r \in LayerIds : r \in ShownLayers <=> Shown(Now, r)
    BY <2>2, <2>3 DEF ShownLayers, InUse, Shown, Stacked
  <2>5. ShownLayers \subseteq LayerIds
    BY DEF ShownLayers, InUse
  <2>6. s \in ShownLayers /\ Covers(layer_ctl.layers[s], p) /\ Opaque(layer_ctl.layers[s], p)
    BY <2>1, <2>2, <2>4 DEF TopAt, Takes
  <2>7. ASSUME NEW r \in ShownLayers, Covers(layer_ctl.layers[r], p), Opaque(layer_ctl.layers[r], p)
        PROVE  layer_ctl.layers[r].height <= layer_ctl.layers[s].height
    BY <2>1, <2>2, <2>4, <2>5, <2>7 DEF TopAt, Takes
  <2>8. vram[p] = PixelOf(layer_ctl.layers[s], p)
    BY <2>1, <2>2 DEF Shows
  <2> QED  BY <2>6, <2>7, <2>8
<1> QED  BY <1>1, ScreenGood, PTL
=============================================================================
