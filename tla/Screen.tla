------------------------------- MODULE Screen -------------------------------
(***************************************************************************)
(* The screen while the kernel prints on it, while init_screen (graphic/   *)
(* graphic.c) takes it over, and while layers are made, moved, raised,     *)
(* drawn and freed on it.  main.c:150, the call of init_screen, is         *)
(* commented out; a kernel with that call is meant.                        *)
(*                                                                         *)
(* Applications keep to what init_screen does: a layer gets its buffer     *)
(* before it is shown, a shown one is not raised above the top (layers_addr *)
(* is read behind top then), which pixels of it are transparent does not   *)
(* change while it is shown, and the background stays where it is.         *)
(***************************************************************************)
EXTENDS Layers

CONSTANTS Calls,       \* what is printed: formats with their arguments
          Windows,     \* buffers of windows: size, pixels, transparent colour
          Places,      \* where windows are moved to
          Steps,       \* how far the mouse goes in one packet
          Colours,     \* what windows are drawn in
          Garbage,     \* what fresh memory holds
          Chars        \* what a cell of the text screen can show

\* A window brings a pixel for each of its places.
ASSUME ScreenAssumption ==
    /\ \A w \in Windows : w.xsize \in Nat /\ w.ysize \in Nat /\ IsBuffer(w.buf, w.xsize, w.ysize)
    /\ Places \subseteq Int \X Int /\ Steps \subseteq Int \X Int /\ Garbage \subseteq Int

vars == <<consoleVars, layer_ctl, mouse_cursor>>

Background == 0
Taskbar == 1
Mouse == 2

Now == [layers |-> layer_ctl.layers, layers_addr |-> layer_ctl.layers_addr,
        top |-> layer_ctl.top, map |-> layer_ctl.map, vram |-> vram]

Becomes(c) ==
    /\ layer_ctl' = [layers |-> c.layers, layers_addr |-> c.layers_addr,
                     top |-> c.top, map |-> c.map]
    /\ vram' = c.vram

-----------------------------------------------------------------------------
(* graphic.c.                                                              *)

\* The corners belong to the box; columns beyond the width run on in the next
\* line, lines beyond the buffer leave it.
boxfill(buf, xsize, colour, x0, y0, x1, y1) ==
    [n \in DOMAIN buf |->
        IF \E x \in x0 .. x1, y \in y0 .. y1 : n = y * xsize + x THEN colour ELSE buf[n]]

set_mouse_cursor(bc, type) ==
    LET cur == CursorImage[type]
    IN  [n \in 0 .. MOUSE_SIDELENGTH * MOUSE_SIDELENGTH - 1 |->
            LET x == n % MOUSE_SIDELENGTH
                y == n \div MOUSE_SIDELENGTH
            IN  IF x < cur.x /\ y < cur.y /\ cur.img[y * cur.x + x + 1] # "."
                THEN cur.img[y * cur.x + x + 1] ELSE bc]

Empty(x, y) == [n \in 0 .. x * y - 1 |-> 0]

\* The layers of the desktop: buffer and size, place, and the height asked for.
\* It is cut to the one above the top, so that each comes above those before it.
BackgroundLayer ==
    [buf |-> boxfill(Empty(screen_x, screen_y), screen_x, BackColour, 0, 0, screen_x, screen_y),
     xsize |-> screen_x, ysize |-> screen_y, col_inv |-> INTRANSPARENT,
     vx0 |-> 0, vy0 |-> 0, height |-> 1]
TaskbarLayer ==
    [buf |-> boxfill(Empty(screen_x, TaskbarRows), screen_x, BarColour, 0, 0,
                     screen_x - 1, TaskbarRows - 1),
     xsize |-> screen_x, ysize |-> TaskbarRows, col_inv |-> INTRANSPARENT,
     vx0 |-> 0, vy0 |-> screen_y - TaskbarRows, height |-> 3]
MouseLayer ==
    [buf |-> set_mouse_cursor(TRANSPARENT, "CURSOR_TYPE_NORMAL"),
     xsize |-> MOUSE_SIDELENGTH, ysize |-> MOUSE_SIDELENGTH, col_inv |-> TRANSPARENT,
     vx0 |-> screen_x \div 2, vy0 |-> screen_y \div 2, height |-> 2]

Put(c, l) ==
    LET s == FirstFree(c)
        buffered == layer_setbuf(layer_alloc(c), s, l.buf, l.xsize, l.ysize, l.col_inv)
    IN  layer_set_height(layer_move(buffered, s, l.vx0, l.vy0), s, l.height)

init_screen(garbage) ==
    /\ mode = 0
    /\ mode' = 1
    /\ Becomes(Put(Put(Put(layer_controller_init(vram, garbage), BackgroundLayer),
                    TaskbarLayer), MouseLayer))
    /\ mouse_cursor' = [x |-> screen_x \div 2, y |-> screen_y \div 2]
    /\ UNCHANGED cursor

\* mouse.c calls it in graphics mode, with the bytes of the packet.
mouse_cursor_move(dx, dy) ==
    LET x == Max2(Min2(mouse_cursor.x + dx, screen_x), 0)
        y == Max2(Min2(mouse_cursor.y - dy, screen_y), 0)
    IN  /\ mode = 1
        /\ mouse_cursor' = [x |-> x, y |-> y]
        /\ Becomes(layer_move(Now, Mouse, x, y))
        /\ UNCHANGED <<mode, cursor>>

-----------------------------------------------------------------------------
(* Applications.                                                           *)

InUse == {s \in LayerIds : layer_ctl.layers[s].flags # "LAYER_NO_USE"}
WindowIds == InUse \ {Background, Taskbar, Mouse}
Desktop == mode = 1 /\ UNCHANGED <<mode, cursor, mouse_cursor>>

Open(w) ==
    /\ Desktop /\ FreeIds(Now) # {}
    /\ Becomes(layer_setbuf(layer_alloc(Now), FirstFree(Now), w.buf, w.xsize, w.ysize, w.col_inv))

Move(s, at) == Desktop /\ Becomes(layer_move(Now, s, at[1], at[2]))

SetHeight(s, height) ==
    /\ Desktop
    /\ layer_ctl.layers[s].height >= 0 => height <= layer_ctl.top
    /\ Becomes(layer_set_height(Now, s, height))

\* A pixel is drawn into the buffer and its place refreshed.
Draw(s, n, colour) ==
    LET lay == layer_ctl.layers[s]
        x == n % lay.bxsize
        y == n \div lay.bxsize
        drawn == [Now EXCEPT !.layers[s].buf[n] = colour]
    IN  /\ Desktop
        /\ lay.buf[n] # lay.col_inv /\ colour # lay.col_inv
        /\ Becomes(layer_refresh(drawn, s, x, y, x + 1, y + 1))

Close(s) == Desktop /\ Becomes(layer_free(Now, s))

-----------------------------------------------------------------------------

Init ==
    /\ ConsoleInit
    /\ layer_ctl = [layers |-> layer_controller_init(vram, 0).layers, layers_addr |-> <<>>,
                    top |-> -1, map |-> <<>>]
    /\ mouse_cursor = [x |-> 0, y |-> 0]

Next ==
    \/ \E call \in Calls : color_printk(call.fmt, call.args) /\ UNCHANGED <<layer_ctl, mouse_cursor>>
    \/ \E garbage \in Garbage : init_screen(garbage)
    \/ \E step \in Steps : mouse_cursor_move(step[1], step[2])
    \/ \E w \in Windows : Open(w)
    \/ \E s \in WindowIds :
          \/ \E at \in Places : Move(s, at)
          \/ \E height \in -1 .. MAX_LAYERS : SetHeight(s, height)
          \/ \E n \in DOMAIN layer_ctl.layers[s].buf, colour \in Colours : Draw(s, n, colour)
          \/ Close(s)

Spec == Init /\ [][Next]_vars

-----------------------------------------------------------------------------
(* Properties.                                                             *)

ShownLayers == {s \in InUse : layer_ctl.layers[s].height >= 0}

\* In graphics mode every pixel shows the highest layer that is opaque there:
\* neither a move nor a height nor a text leaves anything else behind.
ScreenShowsTop ==
    mode = 1 =>
        \A p \in Pixels :
            LET there == {s \in ShownLayers : Covers(layer_ctl.layers[s], p) /\ Opaque(layer_ctl.layers[s], p)}
            IN  \E s \in there :
                    /\ \A r \in there : layer_ctl.layers[r].height <= layer_ctl.layers[s].height
                    /\ vram[p] = PixelOf(layer_ctl.layers[s], p)

\* layers_addr lists the shown layers by height, each once, and each knows its
\* place in it.
LayersInOrder ==
    mode = 1 =>
        /\ ShownLayers = {layer_ctl.layers_addr[h] : h \in 0 .. layer_ctl.top}
        /\ \A h \in 0 .. layer_ctl.top : layer_ctl.layers[layer_ctl.layers_addr[h]].height = h

\* Formats and strings, evaluated once, in the initial states: vsprintf and number
\* write what C's printf writes for every directive, except where Differs and
\* StringDiffers name a line of printk.c that does not; the functions of lib.h
\* write every byte of their area and no other.
TextExact == mode = 0 /\ cursor = [x |-> 0, y |-> 0] /\ vram = [p \in Pixels |-> Glyph("?", 0, 0)]
                => FormatExact /\ StringFunctionsExact

\* The glyph that a cell shows in full.
CellShows(k) ==
    LET corner == (k \div Cols) * csize_y * screen_x + (k % Cols) * csize_x
        pixel(x, y) == vram[corner + y * screen_x + x]
    IN  IF mode = 0 /\ \A x \in 0 .. csize_x - 1, y \in 0 .. csize_y - 1 :
                          pixel(x, y) = Glyph(pixel(0, 0).char, x, y)
        THEN pixel(0, 0).char ELSE "?"

\* In text mode the screen is a terminal.
T == INSTANCE Terminal WITH
        page <- [k \in 0 .. Cols * Rows - 1 |-> CellShows(k)],
        at <- cursor.y * Cols + cursor.x,
        on <- mode = 0,
        Texts <- {vsprintf(call.fmt, call.args) : call \in Calls},
        Chars <- Chars

ImplementsTerminal == T!Spec

=============================================================================
