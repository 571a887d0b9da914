------------------------------ MODULE Console ------------------------------
(***************************************************************************)
(* What color_printk (kernel/printk.c) draws in text mode.  The frame      *)
(* buffer is a function from pixel numbers; a pixel of a glyph is a record *)
(* of the character and the place in its cell, colours are left out.       *)
(* Printk models the lock and the shared buffer; here a call is one step.  *)
(***************************************************************************)
EXTENDS Format, LibString

CONSTANTS screen_x, screen_y,   \* pixels
          csize_x, csize_y,     \* pixels of a character (8 by 16, as putchar draws)
          TabStop               \* columns (8)

Pixels == 0 .. screen_x * screen_y - 1
Cols == screen_x \div csize_x
Rows == screen_y \div csize_y

VARIABLES mode,    \* 0 for text, 1 for graphics
          cursor,  \* pos_x and pos_y
          vram     \* printk_info.buf

consoleVars == <<mode, cursor, vram>>

Glyph(c, x, y) == [char |-> c, x |-> x, y |-> y]

\* The pixels follow from the line and the column given; what lies behind the
\* last of them is no screen.
putchar(screen, x, y, c) ==
    [p \in Pixels |->
        IF \E i \in 0 .. csize_y - 1, j \in 0 .. csize_x - 1 : p = screen_x * (y + i) + x + j
        THEN LET at == CHOOSE at \in (0 .. csize_x - 1) \X (0 .. csize_y - 1) :
                           p = screen_x * (y + at[2]) + x + at[1]
             IN  Glyph(c, at[1], at[2])
        ELSE screen[p]]

\* st is the cursor and the screen of a call under way.
Drawn(st, c) == [st EXCEPT !.vram = putchar(st.vram, st.x * csize_x, st.y * csize_y, c)]

\* Behind the last column comes the next line, behind the last line the first.
Wrapped(st) ==
    LET y == IF st.x >= Cols THEN st.y + 1 ELSE st.y
    IN  [st EXCEPT !.x = IF st.x >= Cols THEN 0 ELSE @, !.y = IF y >= Rows THEN 0 ELSE y]

NewLine(st) == Wrapped([st EXCEPT !.y = @ + 1, !.x = 0])
PutGlyph(st, c) == Wrapped([Drawn(st, c) EXCEPT !.x = @ + 1])

\* Variant: the blank is drawn before the cursor goes back.
BackspaceLate(st) == IF st.x > 0 THEN [Drawn(st, " ") EXCEPT !.x = @ - 1] ELSE Drawn(st, " ")

\* In front of the first column the code takes the column, and in front of the
\* first line the line, in pixels.
Backspace(st) ==
    LET x == IF st.x > 0 THEN st.x - 1 ELSE (Cols - 1) * csize_x
        y == IF st.x > 0 THEN st.y ELSE IF st.y > 0 THEN st.y - 1 ELSE (Rows - 1) * csize_y
    IN  Wrapped(Drawn([st EXCEPT !.x = x, !.y = y], " "))

\* The line runs on when the tab is wider than what is left of it.
Tab(st) == FoldLeft(PutGlyph, st, Times(TabStop - (st.x % TabStop), " "))

PrintedChar(st, c) ==
    CASE c = "LF" -> NewLine(st)
      [] c = "BS" -> Backspace(st)
      [] c = "TAB" -> Tab(st)
      [] OTHER -> PutGlyph(st, c)

color_printk(fmt, args) ==
    /\ mode = 0
    /\ \E text \in {vsprintf(fmt, args)} :
          \E st \in {FoldLeft(PrintedChar, [x |-> cursor.x, y |-> cursor.y, vram |-> vram], text)} :
              /\ cursor' = [x |-> st.x, y |-> st.y]
              /\ vram' = st.vram
    /\ UNCHANGED mode

ConsoleInit ==
    /\ mode = 0
    /\ cursor = [x |-> 0, y |-> 0]
    /\ \E p \in {Glyph("?", 0, 0)} : vram = [n \in Pixels |-> p]

=============================================================================
