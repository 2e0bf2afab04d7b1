------------------------------ MODULE MCScreen ------------------------------
EXTENDS KernelStrings

MCPrintable == {"L", " ", "C", "a", "b", "c", "d", "%", "\n"}

Prefix(colour) == <<Tag("fg", colour), Char("L"), Tag("reset", 0), Char(" ")>>
Line(items) == <<Prefix(6), items, <<Char("\n")>>>>

\* Log lines with each directive, and a string with every tag; a character
\* follows every tag.
MCMessages ==
    {Line(<<Arg("u", 10), Char("C")>>),
     Line(<<Arg("x", 171), Arg("s", <<"a", "%">>)>>),
     <<<<Tag("clear", 7), Char("b"), Tag("bg", 1), Arg("u", 0), Tag("fg", 2),
         Char("c"), Tag("reset", 0), Char("d")>>>>}
=============================================================================
