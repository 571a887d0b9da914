------------------------------- MODULE Layers -------------------------------
(***************************************************************************)
(* The layers of the screen (graphic/layer.c) and the desktop made of them *)
(* (graphic/graphic.c).  A controller is a record: its table of layers,    *)
(* layers_addr from the lowest to the highest, top, and map, which says    *)
(* for every pixel whose it is.  An operation is an operator from what the *)
(* controller and the frame buffer hold to what it leaves in them.         *)
(***************************************************************************)
EXTENDS Console

CONSTANTS MAX_LAYERS,          \* entries of the table (64)
          NoLayer,             \* what layers_addr holds before it is used
          TRANSPARENT, INTRANSPARENT,
          MOUSE_SIDELENGTH,    \* pixels of the cursor's buffer (32)
          CursorImage,         \* the images by type: columns, rows, pixels
          TaskbarRows,         \* pixels (28)
          BackColour, BarColour

\* The desktop takes three layers, and its background is nowhere transparent.
ASSUME LayersAssumption ==
    /\ screen_x \in Nat \ {0} /\ screen_y \in Nat \ {0}
    /\ MAX_LAYERS \in Nat /\ MAX_LAYERS >= 3
    /\ TaskbarRows \in Nat /\ MOUSE_SIDELENGTH \in Nat
    /\ BackColour # INTRANSPARENT

\* What a layer draws: a colour for each of its pixels.
IsBuffer(buf, xsize, ysize) ==
    DOMAIN buf = 0 .. xsize * ysize - 1 /\ buf = [n \in DOMAIN buf |-> buf[n]]

LayerIds == 0 .. MAX_LAYERS - 1

VARIABLES layer_ctl,           \* base_layer_controller
          mouse_cursor         \* where the cursor was moved to

Min2(a, b) == IF a < b THEN a ELSE b
Max2(a, b) == IF a < b THEN b ELSE a

\* The pixels of a layer that lie in an area and on the screen.
Area(x0, y0, x1, y1) == [x0 |-> x0, y0 |-> y0, x1 |-> x1, y1 |-> y1]
AreaOf(lay) == Area(lay.vx0, lay.vy0, lay.vx0 + lay.bxsize, lay.vy0 + lay.bysize)
In(area, p) ==
    /\ p % screen_x \in Max2(area.x0, 0) .. Min2(area.x1, screen_x) - 1
    /\ p \div screen_x \in Max2(area.y0, 0) .. Min2(area.y1, screen_y) - 1
PixelOf(lay, p) == lay.buf[((p \div screen_x) - lay.vy0) * lay.bxsize + (p % screen_x) - lay.vx0]
Covers(lay, p) == In(AreaOf(lay), p)
Opaque(lay, p) == PixelOf(lay, p) # lay.col_inv

-----------------------------------------------------------------------------
(* Drawing.  c is the controller with the frame buffer as c.vram.          *)

\* Every layer from h0 up takes the pixels where it is opaque, the higher ones
\* after the lower.
layer_refreshmap(c, area, h0) ==
    [c EXCEPT !.map = [p \in Pixels |->
        LET takers == {h \in h0 .. c.top : /\ In(area, p)
                                           /\ Covers(c.layers[c.layers_addr[h]], p)
                                           /\ Opaque(c.layers[c.layers_addr[h]], p)}
        IN  IF takers = {} THEN c.map[p]
            ELSE c.layers_addr[CHOOSE h \in takers : \A g \in takers : g <= h]]]

\* Every layer from h0 to h1 draws the pixels that the map says are its own.
layer_refresh_area(c, area, h0, h1) ==
    [c EXCEPT !.vram = [p \in Pixels |->
        IF In(area, p) /\ \E h \in h0 .. h1 : /\ c.layers_addr[h] = c.map[p]
                                              /\ Covers(c.layers[c.layers_addr[h]], p)
        THEN PixelOf(c.layers[c.map[p]], p) ELSE c.vram[p]]]

layer_refresh(c, s, bx0, by0, bx1, by1) ==
    LET lay == c.layers[s]
    IN  IF lay.height < 0 THEN c
        ELSE layer_refresh_area(c, Area(lay.vx0 + bx0, lay.vy0 + by0, lay.vx0 + bx1, lay.vy0 + by1),
                                lay.height, lay.height)

\* An area is given to who has it from a height up, and what lies between two
\* heights is drawn there.
Repaired(c, area, h, h0, h1) == layer_refresh_area(layer_refreshmap(c, area, h), area, h0, h1)

\* A layer at its new place, nothing drawn yet.
Moved(c, s, vx0, vy0) == [c EXCEPT !.layers[s] = [@ EXCEPT !.vx0 = vx0, !.vy0 = vy0]]

\* Variant: the place the layer comes from is not given to the others.
MoveOver(c, s, vx0, vy0) ==
    LET h == c.layers[s].height
        moved == Moved(c, s, vx0, vy0)
        from == AreaOf(c.layers[s])
        to == AreaOf(moved.layers[s])
    IN  IF h < 0 THEN moved
        ELSE layer_refresh_area(layer_refresh_area(layer_refreshmap(moved, to, h), from, 0, h - 1),
                                to, h, h)

layer_move(c, s, vx0, vy0) ==
    LET h == c.layers[s].height
        moved == Moved(c, s, vx0, vy0)
        from == AreaOf(c.layers[s])
        to == AreaOf(moved.layers[s])
        mapped == layer_refreshmap(layer_refreshmap(moved, from, 0), to, h)
    IN  IF h < 0 THEN moved
        ELSE layer_refresh_area(layer_refresh_area(mapped, from, 0, h - 1), to, h, h)

-----------------------------------------------------------------------------
(* Heights.                                                                *)

\* layers_addr with the entries that from gives; every layer of them is told its
\* height.
Placed(c, from) ==
    LET heights == DOMAIN from
        addr == [h \in LayerIds |-> IF h \in heights THEN from[h] ELSE c.layers_addr[h]]
    IN  [c EXCEPT !.layers_addr = addr,
                  !.layers = [s \in LayerIds |->
                      IF \E h \in heights : addr[h] = s
                      THEN [c.layers[s] EXCEPT !.height = CHOOSE h \in heights : addr[h] = s]
                      ELSE c.layers[s]]]

\* The layers between the two heights go up by one.
Lowered(c, s, old, height) ==
    Placed(c, [h \in height .. old |-> IF h = height THEN s ELSE c.layers_addr[h - 1]])

\* Those above come down by one.
Hidden(c, s, old) ==
    [Placed(c, [h \in old .. c.top - 1 |-> c.layers_addr[h + 1]])
        EXCEPT !.top = @ - 1, !.layers[s].height = -1]

\* The layers between the two heights come down by one.
Raised(c, s, old, height) ==
    Placed(c, [h \in old .. height |-> IF h = height THEN s ELSE c.layers_addr[h + 1]])

\* Variant: the layers above the new one keep their heights.
InsertedOver(c, s, height) ==
    [c EXCEPT !.layers_addr = [h \in LayerIds |-> IF h = height THEN s
                                                  ELSE IF h \in height + 1 .. c.top + 1
                                                  THEN c.layers_addr[h - 1] ELSE c.layers_addr[h]],
              !.top = @ + 1, !.layers[s].height = height]

\* Those from the height on go up by one.
Inserted(c, s, height) ==
    [Placed(c, [h \in height .. c.top + 1 |-> IF h = height THEN s ELSE c.layers_addr[h - 1]])
        EXCEPT !.top = @ + 1]

layer_set_height(c, s, asked) ==
    LET old == c.layers[s].height
        height == Max2(Min2(asked, c.top + 1), -1)
        area == AreaOf(c.layers[s])
    IN  IF height = old THEN c
        ELSE IF old > height /\ height >= 0
        THEN Repaired(Lowered(c, s, old, height), area, height + 1, height + 1, old)
        ELSE IF old > height
        THEN Repaired(Hidden(c, s, old), area, 0, 0, old - 1)
        ELSE Repaired(IF old >= 0 THEN Raised(c, s, old, height) ELSE Inserted(c, s, height),
                      area, height, height, height)

-----------------------------------------------------------------------------
(* The table.                                                              *)

FreeIds(c) == {s \in LayerIds : c.layers[s].flags = "LAYER_NO_USE"}
FirstFree(c) == CHOOSE s \in FreeIds(c) : \A r \in FreeIds(c) : s <= r

\* The position stays what it was, garbage in a layer that was never moved; the
\* caller sets the flags it wants.
layer_alloc(c) == [c EXCEPT !.layers[FirstFree(c)].flags = "LAYER_USEING",
                            !.layers[FirstFree(c)].height = -1]

layer_setbuf(c, s, buf, xsize, ysize, col_inv) ==
    [c EXCEPT !.layers[s].buf = buf, !.layers[s].bxsize = xsize,
              !.layers[s].bysize = ysize, !.layers[s].col_inv = col_inv]

layer_free(c, s) ==
    LET gone == IF c.layers[s].height >= 0 THEN layer_set_height(c, s, -1) ELSE c
    IN  [gone EXCEPT !.layers[s].flags = "LAYER_NO_USE"]

\* Memory that is not cleared: garbage is what the pages held before.
layer_controller_init(screen, garbage) ==
    [layers |-> [s \in LayerIds |-> [flags |-> "LAYER_NO_USE", height |-> -1,
                                     vx0 |-> garbage, vy0 |-> garbage,
                                     bxsize |-> 0, bysize |-> 0, col_inv |-> 0, buf |-> <<>>]],
     layers_addr |-> [h \in LayerIds |-> NoLayer],
     top |-> -1,
     map |-> [p \in Pixels |-> garbage],
     vram |-> screen]

=============================================================================
