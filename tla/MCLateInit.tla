----------------------------- MODULE MCLateInit -----------------------------
EXTENDS Screen

\* The two strings of Arch::LateInit, each only a tag: they are none of
\* KernelStrings.
LateInitMessages == {<<<<Tag("clear", 3)>>>>, <<<<Tag("reset", 0)>>>>}
=============================================================================
