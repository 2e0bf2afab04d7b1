--------------------------- MODULE PageAllocator ---------------------------
(***************************************************************************)
(* What the physical page allocator promises its callers: once it is open  *)
(* it hands out each page of a fixed pool at most once, and it gives up    *)
(* only when the pool is empty.  Nothing is ever returned to it.           *)
(***************************************************************************)
CONSTANT Page

VARIABLES
    state,  \* "booting", "open" or "panicked"
    pool,   \* pages still to be handed out
    held    \* pages handed out

Init ==
    /\ state = "booting"
    /\ pool = {}
    /\ held = {}

Open ==
    /\ state = "booting"
    /\ state' = "open"
    /\ pool' \subseteq Page
    /\ held' = {}

AllocatePage ==
    /\ state = "open"
    /\ \E p \in pool :
          /\ pool' = pool \ {p}
          /\ held' = held \cup {p}
    /\ UNCHANGED state

Exhausted ==
    /\ state = "open"
    /\ pool = {}
    /\ state' = "panicked"
    /\ UNCHANGED <<pool, held>>

Next == Open \/ AllocatePage \/ Exhausted

Spec == Init /\ [][Next]_<<state, pool, held>>
=============================================================================
