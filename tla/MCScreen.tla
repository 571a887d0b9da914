------------------------------ MODULE MCScreen ------------------------------
(* Screen with 3 by 2 characters of 2 by 2 pixels, a table of one window   *)
(* more than the desktop takes, and a cursor smaller than its buffer.      *)
EXTENDS Screen

CONSTANTS red, green, black

MCCursorImage ==
    [t \in {"CURSOR_TYPE_NORMAL"} |-> [x |-> 1, y |-> 2, img |-> <<black, black>>]]

MCWindows ==
    {[buf |-> (0 :> red @@ 1 :> TRANSPARENT @@ 2 :> red), xsize |-> 3, ysize |-> 1,
      col_inv |-> TRANSPARENT],
     [buf |-> (0 :> red @@ 1 :> red), xsize |-> 1, ysize |-> 2, col_inv |-> INTRANSPARENT]}

MCPlaces == {<<0, 0>>, << -1, 1>>, <<3, 2>>, <<5, 3>>}

MCSteps == {<<1, 0>>, << -3, -1>>, <<0, 2>>}

Call(fmt, args) == [fmt |-> fmt, args |-> args]
MCCalls ==
    {Call(<<"A", "LF">>, <<>>), Call(<<"%", "d">>, << -1 >>), Call(<<"%", "2", "c">>, <<"TAB">>),
     Call(<<"BS">>, <<>>), Call(<<"BS", "A">>, <<>>)}

MCChars == {"A", " ", "-", "1", "?"}

=============================================================================
