---------------------------- MODULE MCInputLoop ----------------------------
(* InputLoop with scripts of up to four strokes.  A key that occurs in a   *)
(* script is pressed and released in turn.                                 *)
EXTENDS InputLoop, FiniteSets

\* The codes of a key that is pressed or released.
Codes(key, down) ==
    CASE key = "shift_l" -> IF down THEN <<\h2A>> ELSE <<\hAA>>
      [] key = "ctrl_r" -> IF down THEN <<\hE0, \h1D>> ELSE <<\hE0, \h9D>>
      [] key = "pause" -> pausebreak_scode
      [] key = "print" -> IF down THEN PrintScreenMake ELSE PrintScreenBreak
      \* Print screen while a shift is held, and a grey arrow under NumLock: a fake
      \* shift goes with the arrow.
      [] key = "shift_print" -> IF down THEN <<\hE0, \h37>> ELSE <<\hE0, \hB7>>
      [] key = "num_up" -> IF down THEN <<\hE0, \h2A, \hE0, \h48>>
                                   ELSE <<\hE0, \hC8, \hE0, \hAA>>

\* Whether key is down after the first n strokes of s.
Down(s, n, key) == Cardinality({i \in 1 .. n : s[i] = key}) % 2 = 1

Strokes(s) ==
    [i \in DOMAIN s |-> LET down == Down(s, i, s[i]) IN
        [key |-> s[i], down |-> down, codes |-> Codes(s[i], down)]]

\* Each long sequence beside a modifier, and modifiers one within the other; and
\* what only begins like the print screen key: a grey arrow under NumLock, and
\* the print screen key under the shift.
MCScripts == {Strokes(s) : s \in {
    <<"ctrl_r">>, <<"shift_l", "pause">>, <<"print", "print">>,
    <<"shift_l", "ctrl_r", "shift_l">>, <<"num_up", "shift_l", "shift_l">>,
    <<"shift_l", "shift_print", "shift_print", "shift_l">>}}

=============================================================================
