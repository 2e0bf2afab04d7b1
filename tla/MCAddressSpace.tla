--------------------------- MODULE MCAddressSpace ---------------------------
(***************************************************************************)
(* A boot loader's tables with one slot filled in the lower half and one   *)
(* of two in the upper half, whose subtree is partly there.                *)
(***************************************************************************)
EXTENDS AddressSpace

CONSTANTS root, low, lowleaf, high, leaf, page, code   \* the boot loader's frames

Table(m) == [i \in Index |-> IF i \in DOMAIN m THEN m[i] ELSE Absent]
At(i, f) == [j \in {i} |-> f]

MCLimineMem ==
    [t \in {root, low, lowleaf, high, leaf} |->
       CASE t = root    -> [i \in Index |-> CASE i = 0 -> low [] i = 1 -> high [] OTHER -> Absent]
         [] t = low     -> Table(At(0, lowleaf))
         [] t = lowleaf -> Table(At(0, page))
         [] t = high    -> Table(At(0, leaf))
         [] t = leaf    -> Table(At(1, code))]

MCLimineLevel ==
    [t \in {root, low, lowleaf, high, leaf} |->
       IF t = root THEN 1 ELSE IF t \in {low, high} THEN 2 ELSE 3]

\* Pages of the upper half: below the filled slot and below the empty one.
MCWanted == {p \in Path : p[1] \in Upper /\ p[2] < 2 /\ p[3] < 2}
=============================================================================
