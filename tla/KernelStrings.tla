--------------------------- MODULE KernelStrings ---------------------------
(***************************************************************************)
(* The strings Screen is given: what those of the kernel have in common    *)
(* but for the two tags that Arch::LateInit prints alone (init.cpp:192).   *)
(***************************************************************************)
EXTENDS Screen

CONSTANT Printable    \* the characters of texts and of string arguments

ASSUME PrintableAssumption == {"NUL", "beyond"} \cap Printable = {}

\* A plain character does not begin a directive; a string argument may hold a
\* percent sign.
Plain == [kind : {"char"}, c : Printable \ {"%"}]

\* The tags ParseStyling knows, with a colour of the palette.
Styling == [kind : {"fg", "bg", "clear", "reset"}, n : Colour]

\* The numbers whose digits fit the buffer of the function that prints them:
\* every u64 does (console.cpp:241, 268).
Numbers(base) ==
    {n \in Nat : /\ \E q \in Numerals(base) : Spells(q, n, base)
                 /\ Len(Numeral(n, base)) <= Buffer(base)}
Substitution ==
    [kind : {"s"}, arg : Seq(Printable)] \cup [kind : {"u"}, arg : Numbers(10)]
        \cup [kind : {"x"}, arg : Numbers(16)]

Item == Plain \cup Styling \cup Substitution

\* After a tag the code takes the next character for text (console.cpp:326),
\* so each is followed by something that is no tag; and no text looks like one.
Parseable(items) ==
    /\ items \in Seq(Item)
    /\ \A i \in DOMAIN items :
          /\ items[i] \in Styling => i < Len(items) /\ items[i + 1] \notin Styling
          /\ items[i] = Char("C") /\ i < Len(items) => items[i + 1] # Char("[")

\* A message leaves the colours it changed as they were.
Restores(items) == Styles(items, Default)[Len(items)] = Default

ASSUME MessageAssumption ==
    \A m \in Messages :
        /\ m \in Seq(Seq(Item)) /\ m # <<>>
        /\ \A i \in DOMAIN m : Parseable(m[i])
        /\ Restores(FlattenSeq(m))
=============================================================================
