------------------------------ MODULE Terminal ------------------------------
(***************************************************************************)
(* What the kernel promises of its text screen: a page of cells, line after *)
(* line, which texts fill from the cursor on and which starts over at its  *)
(* end.  A backspace blanks the cell it goes back to.  One at the start of *)
(* a line does not go back: the cursor stays, and blank pixels may cover   *)
(* any part of the page.  When graphics take the screen it shows no page.  *)
(***************************************************************************)
EXTENDS Integers, Sequences, SequencesExt

CONSTANTS Cols, Rows, TabStop,
          Texts,     \* the texts that are printed
          Chars      \* what a cell can show

VARIABLES page, at,
          on         \* the page is what the screen shows

vars == <<page, at, on>>

Cells == 0 .. Cols * Rows - 1
Following(k) == (k + 1) % (Cols * Rows)

\* spoilt: the cells that blank pixels may cover.
Put(st, c) == [st EXCEPT !.page[st.at] = c, !.at = Following(@), !.spoilt = @ \ {st.at}]

Typed(st, c) ==
    CASE c = "LF" -> [st EXCEPT !.at = (((@ \div Cols) + 1) * Cols) % (Cols * Rows)]
      [] c = "BS" -> IF st.at % Cols = 0 THEN [st EXCEPT !.spoilt = Cells]
                     ELSE [Put([st EXCEPT !.at = @ - 1], " ") EXCEPT !.at = st.at - 1]
      [] c = "TAB" -> FoldLeft(LAMBDA s, k : Put(s, " "), st,
                               [k \in 1 .. TabStop - ((st.at % Cols) % TabStop) |-> k])
      [] OTHER -> Put(st, c)

Init == page \in [Cells -> Chars] /\ at = 0 /\ on = TRUE

\* A cell that is covered in part shows no character: "?".
Write(text) ==
    LET st == FoldLeft(Typed, [page |-> page, at |-> at, spoilt |-> {}], text)
    IN  /\ on
        /\ at' = st.at
        /\ page' \in [Cells -> Chars]
        /\ \A k \in Cells : page'[k] = st.page[k] \/ (k \in st.spoilt /\ page'[k] \in {" ", "?"})
        /\ UNCHANGED on

TurnOff == on /\ on' = FALSE /\ page' \in [Cells -> Chars] /\ UNCHANGED at

Spec == Init /\ [][(\E text \in Texts : Write(text)) \/ TurnOff]_vars

=============================================================================
