------------------------------- MODULE Format -------------------------------
(***************************************************************************)
(* The console's string language: the styling tags, the printf directives  *)
(* and the number conversions of console.cpp, as pure operators on the     *)
(* characters in memory; and, beside them, what a string is meant to       *)
(* print, against which the code is checked.                               *)
(*                                                                         *)
(* A string of the source is described by its items: plain characters,     *)
(* tags and directives with their argument.  TextOf writes it down the way *)
(* the source does, Meaning is what the screen should show.                *)
(***************************************************************************)
EXTENDS Integers, Sequences, SequencesExt

CONSTANT MaxDigits    \* bound: digits of a number a string shows

Digit == <<"0", "1", "2", "3", "4", "5", "6", "7", "8", "9",
           "A", "B", "C", "D", "E", "F">>
DecimalDigits == {Digit[i] : i \in 1..10}
DigitValue(c) == (CHOOSE i \in 1..10 : Digit[i] = c) - 1

\* Indices of TerminalPallete.
TerminalPaletteSize == 8
Black == 3
White == 4
Colour == 0..(TerminalPaletteSize - 1)

Clamp(min, max, val) ==
    IF val > max THEN max ELSE IF val < min THEN min ELSE val

-----------------------------------------------------------------------------
(* The code.                                                               *)

\* A string in memory: its text, the terminator, and what lies beyond it.
Mem(text, i) ==
    IF i <= Len(text) THEN text[i]
    ELSE IF i = Len(text) + 1 THEN "NUL" ELSE "beyond"

\* Where a loop that starts at i stops: at a character c or the terminator.
Scan(text, i, c) ==
    CHOOSE j \in i..(Len(text) + 1) :
        /\ Mem(text, j) \in {c, "NUL"}
        /\ \A k \in i..(j - 1) : Mem(text, k) \notin {c, "NUL"}

IsTag(text, i) == Mem(text, i) = "C" /\ Mem(text, i + 1) = "["

\* Variant: a digit is taken for its character code.
TagColour_CharCode(text, from, to) ==
    LET value[i \in (from - 1)..to] ==
          IF i < from THEN 0
          ELSE IF text[i] \in DecimalDigits THEN 10 * value[i - 1] + 48 + DigitValue(text[i])
          ELSE value[i - 1]
    IN  Clamp(0, TerminalPaletteSize, value[to])

\* The loop over a tag's number.
TagColour(text, from, to) ==
    LET value[i \in (from - 1)..to] ==
          IF i < from THEN 0
          ELSE IF text[i] \in DecimalDigits THEN 10 * value[i - 1] + DigitValue(text[i])
          ELSE value[i - 1]
    IN  Clamp(0, TerminalPaletteSize, value[to])

\* Variant: the loop of the reset tag has skipped the bracket already.
ParseStyling_SkipsTwo(text, i) ==
    LET comma == Scan(text, i + 2, ",")
        close == Scan(text, comma, "]")
        type == SubSeq(text, i + 2, comma - 1)
    IN  [next |-> IF Head(type) = "r" THEN close + 2 ELSE close + 1,
         kind |-> IF Head(type) = "r" THEN "reset"
                  ELSE IF Head(type) = "c" THEN "clear"
                  ELSE IF type = <<"b", "g">> THEN "bg" ELSE "fg",
         colour |-> TagColour(text, comma, close - 1)]

\* The tag at i: up to the comma its type, up to the bracket its colour.  A
\* type that is none of r, c, fg and bg counts as fg.
ParseStyling(text, i) ==
    LET comma == Scan(text, i + 2, ",")
        close == Scan(text, comma, "]")
        type == SubSeq(text, i + 2, comma - 1)
    IN  [next |-> close + 1,
         kind |-> IF Head(type) = "r" THEN "reset"
                  ELSE IF Head(type) = "c" THEN "clear"
                  ELSE IF type = <<"b", "g">> THEN "bg" ELSE "fg",
         colour |-> TagColour(text, comma, close - 1)]

\* How many digits the buffers of PrintUnsignedInternal and PrintHexInternal hold.
Buffer(base) == IF base = 10 THEN 32 ELSE 16

\* What the loop that extracts the digits, from right to left, has left of the
\* value after each turn.
Extract(value, base) ==
    LET left[i \in 0..Buffer(base)] == IF i = 0 THEN value ELSE left[i - 1] \div base
    IN  left

Turns(left) == CHOOSE n \in DOMAIN left : left[n] = 0 /\ \A j \in 0..(n - 1) : left[j] # 0

\* Variant: the case of 0 is forgotten, and prints nothing.
PrintNumber_NoZero(value, base) ==
    LET left == Extract(value, base)
        turns == Turns(left)
    IN  [i \in 1..turns |-> Digit[(left[turns - i] % base) + 1]]

\* PrintUnsignedInternal and PrintHexInternal: the buffer backwards.
PrintNumber(value, base) ==
    LET left == Extract(value, base)
        turns == Turns(left)
    IN  IF value = 0 THEN <<"0">>
        ELSE [i \in 1..turns |-> Digit[(left[turns - i] % base) + 1]]

\* The characters a directive prints, and whether it takes an argument.
TakesArgument(spec) == spec \in {"s", "u", "x"}
Directive(spec, arg) ==
    CASE spec = "s" -> arg
      [] spec = "u" -> PrintNumber(arg, 10)
      [] spec = "x" -> PrintNumber(arg, 16)
      [] OTHER -> <<>>

-----------------------------------------------------------------------------
(* What a string means.                                                    *)

Char(c) == [kind |-> "char", c |-> c]
Tag(kind, n) == [kind |-> kind, n |-> n]        \* fg, bg, clear, reset
Arg(spec, a) == [kind |-> spec, arg |-> a]      \* s, u, x

\* The numeral of n: no leading zero, and its digits weigh n.
Numerals(base) == UNION {[1..k -> 0..(base - 1)] : k \in 1..MaxDigits}
Weigh(q, base) ==
    LET weight[i \in 0..Len(q)] == IF i = 0 THEN 0 ELSE base * weight[i - 1] + q[i]
    IN  weight[Len(q)]
Spells(q, n, base) == Weigh(q, base) = n /\ (q[1] = 0 => Len(q) = 1)
Numeral(n, base) ==
    LET q == CHOOSE q \in Numerals(base) : Spells(q, n, base)
    IN  [i \in DOMAIN q |-> Digit[q[i] + 1]]

Written(item) ==
    CASE item.kind = "char" -> <<item.c>>
      [] item.kind = "reset" -> <<"C", "[", "r", ",", "]">>
      [] item.kind = "clear" -> <<"C", "[", "c", ",", Digit[item.n + 1], "]">>
      [] item.kind = "fg" -> <<"C", "[", "f", "g", ",", Digit[item.n + 1], "]">>
      [] item.kind = "bg" -> <<"C", "[", "b", "g", ",", Digit[item.n + 1], "]">>
      [] OTHER -> <<"%", item.kind>>

TextOf(items) == FlattenSeq([i \in DOMAIN items |-> Written(items[i])])
ArgsOf(items) ==
    FlattenSeq([i \in DOMAIN items |->
        IF TakesArgument(items[i].kind) THEN <<items[i].arg>> ELSE <<>>])

\* The colours after an item that was met under the colours k.
Restyle(item, k) ==
    CASE item.kind = "reset" -> [fg |-> White, bg |-> Black]
      [] item.kind = "fg" -> [k EXCEPT !.fg = item.n]
      [] item.kind \in {"bg", "clear"} -> [k EXCEPT !.bg = item.n]
      [] OTHER -> k

Shown(item) ==
    CASE item.kind = "char" -> <<item.c>>
      [] item.kind = "s" -> item.arg
      [] item.kind = "u" -> Numeral(item.arg, 10)
      [] item.kind = "x" -> Numeral(item.arg, 16)
      [] OTHER -> <<>>

\* The colours before the first and after each of a list of items, when they
\* were k before it.
Styles(items, k) ==
    LET style[i \in 0..Len(items)] ==
          IF i = 0 THEN k ELSE Restyle(items[i], style[i - 1])
    IN  style

Painted(chars, k) == [j \in DOMAIN chars |-> [c |-> chars[j], fg |-> k.fg, bg |-> k.bg]]

\* The characters a list of items shows, each with its colours.
Meaning(items, k) ==
    FlattenSeq([i \in DOMAIN items |-> Painted(Shown(items[i]), Styles(items, k)[i])])
=============================================================================
