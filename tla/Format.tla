------------------------------- MODULE Format -------------------------------
(***************************************************************************)
(* number and vsprintf (kernel/printk.c).  A text is a sequence of         *)
(* characters; an argument is an integer of the width its directive reads, *)
(* a character or a text.  Widths of int and long are parameters, so that  *)
(* small ones show what overflows.  What %n stores is left out, and so is  *)
(* the limit of printk_buf, which vsprintf does not look at.               *)
(***************************************************************************)
EXTENDS Integers, Sequences, FiniteSets, SequencesExt

CONSTANTS IntBits, LongBits   \* 32 and 64

DecimalDigits == <<"0", "1", "2", "3", "4", "5", "6", "7", "8", "9">>
Digits(small) ==
    DecimalDigits \o (IF small THEN <<"a", "b", "c", "d", "e", "f">>
                      ELSE <<"A", "B", "C", "D", "E", "F">>)
is_digit(c) == c \in ToSet(DecimalDigits)

Times(n, c) == [k \in 1 .. (IF n > 0 THEN n ELSE 0) |-> c]

\* The word as it is read without its sign, and with it.
Unsigned(n, bits) == n % 2 ^ bits
Signed(n, bits) ==
    LET u == Unsigned(n, bits) IN IF u < 2 ^ (bits - 1) THEN u ELSE u - 2 ^ bits

-----------------------------------------------------------------------------
(* number; num is a long, type a set of flags.                             *)

\* Variant: one division too few when the last quotient is 1.
DigitsTooFew(num, base, small) ==
    LET n == CHOOSE k \in 1 .. LongBits : base ^ k >= num /\ (k = 1 \/ base ^ (k - 1) < num)
    IN  [k \in 1 .. n |-> Digits(small)[((num \div base ^ (n - k)) % base) + 1]]

\* What do_div takes off until num is 0, which is printed as one digit.
DigitsOf(num, base, small) ==
    LET n == CHOOSE k \in 1 .. LongBits : base ^ k > num /\ (k = 1 \/ base ^ (k - 1) <= num)
    IN  [k \in 1 .. n |-> Digits(small)[((num \div base ^ (n - k)) % base) + 1]]

SignOf(num, type) ==
    IF "SIGN" \in type /\ num < 0 THEN <<"-">>
    ELSE IF "PLUS" \in type THEN <<"+">> ELSE IF "SPACE" \in type THEN <<" ">> ELSE <<>>

PrefixOf(base, type) ==
    IF "SPECIAL" \notin type THEN <<>>
    ELSE CASE base = 8 -> <<"0">>
           [] base = 16 -> <<"0", IF "SMALL" \in type THEN "x" ELSE "X">>
           [] OTHER -> <<>>

number(num, base, size, precision, type) ==
    LET left == "LEFT" \in type
        zeropad == "ZEROPAD" \in type /\ ~ left
        minus == "SIGN" \in type /\ num < 0
        digits == DigitsOf(Unsigned(IF minus THEN - num ELSE num, LongBits), base, "SMALL" \in type)
        head == SignOf(num, type) \o PrefixOf(base, type)
        zeros == Times(precision - Len(digits), "0")
        room == size - Len(head) - Len(zeros) - Len(digits)
    IN  Times(IF left \/ zeropad THEN 0 ELSE room, " ") \o head
            \o Times(IF zeropad THEN room ELSE 0, "0") \o zeros \o digits
            \o Times(IF left THEN room ELSE 0, " ")

-----------------------------------------------------------------------------
(* One directive of vsprintf.                                              *)

At(fmt, i) == IF i <= Len(fmt) THEN fmt[i] ELSE "NUL"

\* The first place from i on that holds none of the characters.
Past(fmt, i, chars) ==
    CHOOSE k \in i .. Len(fmt) + 1 :
        At(fmt, k) \notin chars /\ \A h \in i .. k - 1 : fmt[h] \in chars

DigitValue(c, base) == CHOOSE v \in 0 .. base - 1 : c \in {Digits(TRUE)[v + 1], Digits(FALSE)[v + 1]}
Value(text, base) == FoldLeft(LAMBDA n, c : base * n + DigitValue(c, base), 0, text)

skip_atoi(fmt, i, end) == Value(SubSeq(fmt, i, end - 1), 10)

FlagOf ==
    [c \in {"-", "+", " ", "#", "0"} |->
        CASE c = "-" -> "LEFT" [] c = "+" -> "PLUS" [] c = " " -> "SPACE"
          [] c = "#" -> "SPECIAL" [] c = "0" -> "ZEROPAD"]

\* A number in the format, a * for the next argument a, or nothing.
Amount(fmt, i, args, a) ==
    LET end == Past(fmt, i, ToSet(DecimalDigits))
    IN  IF is_digit(At(fmt, i)) THEN [value |-> skip_atoi(fmt, i, end), next |-> end, arg |-> a]
        ELSE IF At(fmt, i) = "*" THEN [value |-> args[a], next |-> i + 1, arg |-> a + 1]
        ELSE [value |-> -1, next |-> i, arg |-> a]

\* The directive whose % is at i: its flags, width, precision and qualifier.
\* The precision behind a dot is at least 0.
Directive(fmt, i, args, a) ==
    LET f == Past(fmt, i + 1, DOMAIN FlagOf)
        width == Amount(fmt, f, args, a)
        turned == At(fmt, f) = "*" /\ width.value < 0
        dot == At(fmt, width.next) = "."
        prec == IF dot THEN Amount(fmt, width.next + 1, args, width.arg) ELSE width
        q == prec.next
    IN  [flags |-> {FlagOf[fmt[k]] : k \in i + 1 .. f - 1} \cup (IF turned THEN {"LEFT"} ELSE {}),
         width |-> IF turned THEN - width.value ELSE width.value,
         precision |-> IF ~ dot THEN -1 ELSE IF prec.value < 0 THEN 0 ELSE prec.value,
         long |-> At(fmt, q) = "l",
         at |-> IF At(fmt, q) \in {"h", "l", "L", "Z"} THEN q + 1 ELSE q,
         arg |-> prec.arg]

Padded(d, text) ==
    IF "LEFT" \in d.flags THEN text \o Times(d.width - Len(text), " ")
    ELSE Times(d.width - Len(text), " ") \o text

\* An int is read as it is declared; %u reads a signed one.
Integer(d, arg, unsigned) ==
    IF d.long THEN arg ELSE IF unsigned THEN Unsigned(arg, IntBits) ELSE Signed(arg, IntBits)

Converted(d, c, arg) ==
    CASE c = "c" -> Padded(d, <<arg>>)
      [] c = "s" -> Padded(d, IF d.precision < 0 THEN arg
                              ELSE SubSeq(arg, 1, IF d.precision < Len(arg) THEN d.precision
                                                  ELSE Len(arg)))
      [] c = "o" -> number(Integer(d, arg, TRUE), 8, d.width, d.precision, d.flags)
      [] c = "p" -> IF d.width = -1
                    THEN number(arg, 16, LongBits \div 4, d.precision, d.flags \cup {"ZEROPAD"})
                    ELSE number(arg, 16, d.width, d.precision, d.flags)
      [] c = "x" -> number(Integer(d, arg, TRUE), 16, d.width, d.precision, d.flags \cup {"SMALL"})
      [] c = "X" -> number(Integer(d, arg, TRUE), 16, d.width, d.precision, d.flags)
      [] c = "u" -> number(Integer(d, arg, FALSE), 10, d.width, d.precision, d.flags)
      [] c \in {"d", "i"} ->
             number(Integer(d, arg, FALSE), 10, d.width, d.precision, d.flags \cup {"SIGN"})
      [] c = "n" -> <<>>

Conversions == {"c", "s", "o", "p", "x", "X", "d", "i", "u", "n"}

\* What stands at the place of the conversion when it is none; at the end of
\* the format nothing but the % is printed.
Unknown(c) == CASE c = "%" -> <<"%">> [] c = "NUL" -> <<"%">> [] OTHER -> <<"%", c>>

\* F of a value that is computed once.
With(value, F(_)) == CHOOSE r \in {F(v) : v \in {value}} : TRUE

vsprintf(fmt, args) ==
    LET text[i \in 1 .. Len(fmt) + 2, a \in 1 .. Len(args) + 1] ==
            IF i > Len(fmt) THEN <<>>
            ELSE IF fmt[i] # "%" THEN <<fmt[i]>> \o text[i + 1, a]
            ELSE With(Directive(fmt, i, args, a), LAMBDA d :
                     LET c == At(fmt, d.at)
                     IN  IF c \in Conversions
                         THEN Converted(d, c, args[d.arg]) \o text[d.at + 1, d.arg + 1]
                         ELSE Unknown(c) \o text[d.at + 1, d.arg])
    IN  text[1, 1]

-----------------------------------------------------------------------------
(* What printf promises, over the widths given.                            *)

Larger(a, b) == IF a < b THEN b ELSE a
Prefixed(s, i, part) == SubSeq(s, i, i + Len(part) - 1) = part
Spaces(s, i, j) == \A k \in i .. j : s[k] = " "

\* How many digits the value takes.
DigitCount(value, base) ==
    CHOOSE n \in 1 .. LongBits : base ^ n > value /\ (n = 1 \/ base ^ (n - 1) <= value)

\* The field s reads as the head and the value, in as many places as asked for
\* and no more than needed, padded on the side and with what is asked for.
FieldReads(s, head, value, base, size, precision, small, left, zeropad) ==
    LET least == Larger(precision, DigitCount(value, base))
    IN  /\ Len(s) = Larger(size, Len(head) + least)
        /\ \E i, j \in 0 .. Len(s) :      \* the spaces end at i, the number at j
              LET from == i + Len(head) + 1
              IN  /\ Spaces(s, 1, i) /\ Spaces(s, j + 1, Len(s))
                  /\ (left \/ zeropad => i = 0) /\ (~ left => j = Len(s))
                  /\ Prefixed(s, i + 1, head)
                  /\ from <= j /\ (~ zeropad => j - from + 1 = least)
                  /\ \A k \in from .. j : s[k] \in ToSet(Digits(small))
                  /\ Value(SubSeq(s, from, j), base) = value

NumberReads(num, base, size, precision, type) ==
    FieldReads(number(num, base, size, precision, type),
               SignOf(num, type) \o PrefixOf(base, type),
               IF "SIGN" \in type /\ num < 0 THEN - num ELSE Unsigned(num, LongBits),
               base, size, precision, "SMALL" \in type,
               "LEFT" \in type, "ZEROPAD" \in type /\ "LEFT" \notin type)

Types == SUBSET {"ZEROPAD", "SIGN", "PLUS", "SPACE", "LEFT", "SPECIAL", "SMALL"}
Edges == LET least == - (2 ^ (LongBits - 1))
         IN  {least, least + 1, -9, -1, 0, 1, 7, 8, 10, 15, 16, - least - 1}

NumbersExact ==
    \A num \in Edges, base \in {8, 10, 16}, size \in {-1, 0, 3, 6}, precision \in {-1, 0, 4} :
        \A type \in Types : NumberReads(num, base, size, precision, type)

\* A way to write an amount: its text, the argument it takes, what it means; an
\* amount that is not given, or a precision below 0, is -1.
Written(text, args, value) == [text |-> text, args |-> args, value |-> value]
Widths == {Written(<<>>, <<>>, -1), Written(<<"1", "2">>, <<>>, 12),
           Written(<<"*">>, <<4>>, 4), Written(<<"*">>, << -9 >>, -9)}
Precisions == {Written(<<>>, <<>>, -1), Written(<<".">>, <<>>, 0), Written(<<".", "3">>, <<>>, 3),
               Written(<<".", "*">>, << -1 >>, -1)}

\* What a conversion is given, as q says: an int, a long, a half of an int.
Bits(q) == CASE q = "l" -> LongBits [] q = "h" -> IntBits \div 2 [] OTHER -> IntBits
Arguments(c, q) ==
    CASE c = "s" -> {<<>>, <<"A", "B", "A">>}
      [] c = "c" -> {"A"}
      [] c = "p" -> {0, 2 ^ LongBits - 2}
      [] OTHER -> IF q = "l" THEN {-1, 0, 100, - (2 ^ (LongBits - 1))}
                             ELSE {-1, 0, 1, 5, - (2 ^ (IntBits - 1))}

\* The places of C's printf, where width and precision are as written and flags
\* the characters: c and s.
TextReads(s, text, width, left) ==
    /\ Len(s) = Larger(width, Len(text))
    /\ Prefixed(s, IF left THEN 1 ELSE Len(s) - Len(text) + 1, text)
    /\ IF left THEN Spaces(s, Len(text) + 1, Len(s)) ELSE Spaces(s, 1, Len(s) - Len(text))

\* Those of the integers.  A sign is for d and i; 0x stands before what is not 0;
\* #o takes one place more; the flag 0 holds without a precision; with a precision
\* of 0 a 0 has no digit; p is a long in hexadecimal with all its digits.
IntegerReads(s, c, value, flags, width, precision, left) ==
    LET base == CASE c = "o" -> 8 [] c \in {"x", "X", "p"} -> 16 [] OTHER -> 10
        amount == IF value < 0 THEN - value ELSE value
        sign == CASE c \notin {"d", "i"} -> <<>>
                  [] value < 0 -> <<"-">>
                  [] "+" \in flags -> <<"+">>
                  [] " " \in flags -> <<" ">>
                  [] OTHER -> <<>>
        prefix == IF "#" \in flags /\ base = 16 /\ value # 0
                  THEN <<"0", IF c = "x" THEN "x" ELSE "X">> ELSE <<>>
        full == c = "p" /\ width = -1
    IN  IF precision = 0 /\ value = 0 THEN TextReads(s, sign, width, left)
        ELSE FieldReads(s, sign \o prefix, amount, base, IF full THEN LongBits \div 4 ELSE width,
                        IF c = "o" /\ "#" \in flags /\ value # 0
                        THEN Larger(precision, DigitCount(value, 8) + 1) ELSE precision,
                        c = "x", left, ~ left /\ (full \/ ("0" \in flags /\ precision < 0)))

\* An integer argument as its conversion and the bits of q make it.
Given(c, arg, bits) ==
    CASE c = "p" -> arg [] c \in {"d", "i"} -> Signed(arg, bits) [] OTHER -> Unsigned(arg, bits)

\* Where vsprintf is not C's printf, and the places in printk.c.
Differs(c, q, arg, flags, precision, left) ==
    LET value == Given(c, arg, Bits(q))
    IN  \/ c \notin {"d", "i"} /\ flags \cap {"+", " "} # {}       \* 116: signs what has no sign
        \/ c = "u" /\ q # "l" /\ arg < 0                           \* 302: reads a signed int
        \/ c # "p" /\ q = "h" /\ value # Given(c, arg, IntBits)    \* 224: h changes nothing
        \/ c \in {"o", "x", "X", "p"} /\ "#" \in flags /\ value = 0   \* 133: 0x0, 00
        \/ c = "o" /\ "#" \in flags /\ precision > DigitCount(value, 8)   \* 134: one 0 too many
        \/ "0" \in flags /\ ~ left /\ precision >= 0               \* 128: the flag 0 stays
        \/ precision = 0 /\ value = 0                              \* 122: a digit all the same
StringDiffers(prec) == prec.args # <<>> /\ prec.value < 0          \* 219: cut to nothing

\* Every directive of vsprintf does what C's printf does, except where Differs
\* and StringDiffers say, and the text around it and the next argument stay.
DirectivesExact ==
    \A flags \in SUBSET DOMAIN FlagOf, w \in Widths, p \in Precisions, q \in {"", "l", "h"} :
        \A c \in Conversions, second \in {"%", "c"} : \A arg \in Arguments(c, q) :
            LET left == "-" \in flags \/ w.value < -1
                width == IF w.value < -1 THEN - w.value ELSE w.value
                fmt == <<"A", "%">> \o SetToSeq(flags) \o w.text \o p.text
                           \o (IF q = "" THEN <<>> ELSE <<q>>) \o <<c, "B", "%", second>>
                tail == <<"B", IF second = "%" THEN "%" ELSE "C">>
                s == vsprintf(fmt, w.args \o p.args \o <<arg, "C">>)
                field == SubSeq(s, 2, Len(s) - 2)
            IN  /\ s = <<"A">> \o field \o tail
                /\ CASE c = "n" -> field = <<>>
                     [] c = "c" -> TextReads(field, <<arg>>, width, left)
                     [] c = "s" ->
                          \/ StringDiffers(p)
                          \/ TextReads(field, IF p.value \in 0 .. Len(arg) - 1
                                              THEN SubSeq(arg, 1, p.value) ELSE arg, width, left)
                     [] OTHER ->
                          \/ Differs(c, q, arg, flags, p.value, left)
                          \/ IntegerReads(field, c, Given(c, arg, Bits(q)), flags, width, p.value, left)

\* number and vsprintf write what their format says.
FormatExact == NumbersExact /\ DirectivesExact

=============================================================================
