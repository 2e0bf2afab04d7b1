------------------------------- MODULE MCPmm -------------------------------
(***************************************************************************)
(* Memory maps of a few consecutive segments: usable memory, reserved       *)
(* memory, a reserved region with unaligned ends, or a hole.               *)
(***************************************************************************)
EXTENDS Pmm

CONSTANTS Segments, Lengths

Segment == [kind : {"usable", "reserved", "unaligned", "hole"}, pages : Lengths]

\* The first page of each segment; the first one starts at page 1.
Starts(s) ==
    LET start[i \in 1..Segments] == IF i = 1 THEN 1 ELSE start[i - 1] + s[i - 1].pages
    IN  start
Entry(s, i) ==
    LET base == Starts(s)[i] * PageSize
        size == s[i].pages * PageSize
    IN  IF s[i].kind = "unaligned"
        THEN [usable |-> FALSE, base |-> base + 1, length |-> size - 2]
        ELSE [usable |-> s[i].kind = "usable", base |-> base, length |-> size]
Layout(s) ==
    LET isEntry(i) == s[i].kind # "hole"
        all == [i \in 1..Segments |-> i]
    IN  LET kept == SelectSeq(all, isEntry) IN [i \in DOMAIN kept |-> Entry(s, kept[i])]

Top(m) ==
    LET tops == {0} \cup {End(m[i]) : i \in {j \in DOMAIN m : m[j].usable}}
    IN  (CHOOSE t \in tops : \A u \in tops : u <= t) \div PageSize

\* Machines with more memory than the reserved low pages, and room for the bitmap.
Fair(m) ==
    /\ Top(m) >= LowPages
    /\ \E i \in DOMAIN m : m[i].usable /\ m[i].length >= Top(m) \div BitsPerByte

\* As Fair, and the entry that Place chooses for the bitmap is not among the
\* pages past the bitmap's last whole byte.
BitmapBelowTail(m) ==
    LET size == Top(m) \div BitsPerByte
        fit == {i \in DOMAIN m : m[i].usable /\ m[i].length >= size}
        first == CHOOSE i \in fit : \A j \in fit : i <= j
    IN  m[first].base + size <= size * BitsPerByte * PageSize

FairMaps == {m \in {Layout(s) : s \in [1..Segments -> Segment]} : Fair(m)}

\* With any number of pages, the bits of the bitmap's own pages being its own;
\* with a number of pages that leaves some without a bit.
MCMemMaps == {m \in FairMaps : Top(m) % BitsPerByte = 0 \/ BitmapBelowTail(m)}
MCTailMaps == {m \in FairMaps : Top(m) % BitsPerByte # 0}
=============================================================================
