------------------------------ MODULE PageMap ------------------------------
(***************************************************************************)
(* What GooseOS promises of its address spaces: there is the boot loader's *)
(* ("ap", on which the other cores stay) and, after the switch, the        *)
(* kernel's own ("bsp"), which keeps the upper half.  A mapping adds one   *)
(* translation and touches no other; it is seen on both exactly below the  *)
(* top-level slots the boot loader had filled.                             *)
(***************************************************************************)
EXTENDS Naturals

CONSTANTS
    Path,    \* virtual pages, as sequences of table indices
    Upper,   \* the top-level indices of the upper half
    Frame,   \* physical frames
    Absent   \* the translation of an unmapped page

VARIABLES
    view,    \* the translation of each page on each root
    shared,  \* the top-level slots both roots share
    own      \* does the BSP run on its own root?

Init ==
    /\ view \in [{"bsp", "ap"} -> [Path -> Frame \cup {Absent}]]
    /\ view["bsp"] = view["ap"]
    /\ shared \subseteq Upper
    /\ own = FALSE

Switch ==
    /\ ~own
    /\ own' = TRUE
    /\ view' = [view EXCEPT !["bsp"] =
                  [p \in Path |-> IF p[1] \in Upper THEN view["ap"][p] ELSE Absent]]
    /\ UNCHANGED shared

Map(p) ==
    /\ own
    /\ view["bsp"][p] = Absent
    /\ \E f \in {view'["bsp"][p]} \cap Frame :
          view' = [r \in {"bsp", "ap"} |->
                     IF r = "bsp" \/ p[1] \in shared
                     THEN [view[r] EXCEPT ![p] = f] ELSE view[r]]
    /\ UNCHANGED <<shared, own>>

Next == Switch \/ \E p \in Path : Map(p)

Spec == Init /\ [][Next]_<<view, shared, own>>
=============================================================================
