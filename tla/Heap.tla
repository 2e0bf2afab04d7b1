-------------------------------- MODULE Heap --------------------------------
(***************************************************************************)
(* The kernel heap of GooseOS, kernel/mem/alloc.cpp: a bump allocator that *)
(* grows page by page through AllocatorBackend::AllocatePageAt.  Addresses *)
(* are bytes; a page is mapped when AllocatePageAt has mapped it.  Nothing *)
(* is ever freed: kfree changes no state.                                  *)
(***************************************************************************)
EXTENDS Naturals, FiniteSets

CONSTANTS
    PageSize,     \* 4096
    InitialPages, \* KRNL_MEM_HEAP_SIZE * 1024 / 4096
    KernelEnds,   \* where the linker may put kernel_end
    Amounts,      \* bound: the sizes asked for
    Frames,       \* bound: page frames the PMM has left at boot
    TableFrames   \* page-table frames one MapPage may need: 0..3

ASSUME HeapAssumption ==
    /\ PageSize \in Nat \ {0} /\ InitialPages \in Nat \ {0}
    /\ KernelEnds \subseteq Nat \ {0} /\ Amounts \subseteq Nat
    /\ Frames \in Nat /\ TableFrames \subseteq Nat

VARIABLES
    pc,        \* "off", "booting", "ready", "growing" or "panicked"
    heapStart, \* MEM_HeapStartPointer; 0 is nullptr
    heapEnd,   \* MEM_HeapEndPointer
    current,   \* MEM_CurrentHeapPointer
    last,      \* LastAllocatedPage of Init
    togo,      \* pages the running loop still has to map
    amount,    \* the argument of the running kmalloc
    mapped,    \* virtual pages AllocatePageAt has mapped
    frames,    \* page frames left
    blocks     \* what kmalloc has returned: [at, size]

pointers == <<heapStart, heapEnd, current, last>>
loop == <<togo, amount>>
memory == <<mapped, frames>>
vars == <<pc, pointers, loop, memory, blocks>>

PageOf(addr) == addr \div PageSize
Bytes(b) == {a \in b.at..(b.at + b.size) : a < b.at + b.size}

-----------------------------------------------------------------------------
Init ==
    /\ pc = "off"
    /\ heapStart = 0 /\ heapEnd = 0 /\ current = 0 /\ last = 0
    /\ togo = 0
    /\ amount = 0
    /\ mapped = {}
    /\ frames = Frames
    /\ blocks = {}

\* Variant: nobody notices that the page frames have run out.
AllocatePageAt_NoCheck(addr) ==
    \E tables \in TableFrames :
        /\ frames > 0
        /\ frames' = frames - tables - 1
        /\ mapped' = mapped \cup {PageOf(addr)}

\* AllocatePageAt(addr): a page from the PMM, and table pages where the walk
\* finds none.
AllocatePageAt(addr) ==
    \E tables \in TableFrames :
        /\ tables < frames
        /\ frames' = frames - tables - 1
        /\ mapped' = mapped \cup {PageOf(addr)}

\* The PMM hands out what it has left and panics.
OutOfPages ==
    /\ pc \in {"booting", "growing"}
    /\ togo > 0
    /\ \E tables \in TableFrames : tables >= frames
    /\ frames' = 0
    /\ pc' = "panicked"
    /\ UNCHANGED <<pointers, loop, mapped, blocks>>

\* Allocator::Init: the pointers, its loop, and the end marker behind it.
Start ==
    /\ pc = "off"
    /\ heapStart' \in KernelEnds
    /\ current' = heapStart'
    /\ last' = heapStart'
    /\ togo' = InitialPages - 1
    /\ pc' = "booting"
    /\ UNCHANGED <<heapEnd, amount, memory, blocks>>

MapInitialPage ==
    /\ pc = "booting" /\ togo > 0
    /\ AllocatePageAt(last + PageSize)
    /\ last' = last + PageSize
    /\ togo' = togo - 1
    /\ UNCHANGED <<pc, heapStart, heapEnd, current, amount, blocks>>

FinishInit ==
    /\ pc = "booting" /\ togo = 0
    /\ heapEnd' = last + PageSize
    /\ pc' = "ready"
    /\ UNCHANGED <<heapStart, current, last, loop, memory, blocks>>

-----------------------------------------------------------------------------
(* kmalloc.                                                                *)

\* The assertion on MEM_HeapStartPointer.
KmallocTooEarly ==
    /\ pc = "off"
    /\ pc' = "panicked"
    /\ UNCHANGED <<pointers, loop, memory, blocks>>

IsOverflowingHeap(n) == current + n >= heapEnd

\* Variant: kmalloc returns the pointer it has already moved.
Bump_ReturnsEnd(n) ==
    /\ current' = current + n
    /\ blocks' = blocks \cup {[at |-> current + n, size |-> n]}

\* The end of kmalloc: bump the pointer, return where it was.
Bump(n) ==
    /\ current' = current + n
    /\ blocks' = blocks \cup {[at |-> current, size |-> n]}

\* Variant: the request is rounded down to whole pages.
PagesFor_RoundedDown(n) == n \div PageSize

\* The pages kmalloc grows the heap by.
PagesFor(n) == (n + PageSize - 1) \div PageSize

KmallocFits(n) ==
    /\ pc = "ready" /\ ~IsOverflowingHeap(n)
    /\ Bump(n)
    /\ UNCHANGED <<pc, heapStart, heapEnd, last, loop, memory>>

KmallocGrows(n) ==
    /\ pc = "ready" /\ IsOverflowingHeap(n)
    /\ pc' = "growing"
    /\ amount' = n
    /\ togo' = PagesFor(n)
    /\ UNCHANGED <<pointers, memory, blocks>>

\* Variant: each turn moves the end past one page more than it maps.
Grow_TwoPages ==
    /\ pc = "growing" /\ togo > 0
    /\ AllocatePageAt(heapEnd)
    /\ heapEnd' = heapEnd + 2 * PageSize
    /\ togo' = togo - 1
    /\ UNCHANGED <<pc, heapStart, current, last, amount, blocks>>

\* One turn of the loop: the page after the end is mapped, and becomes the end.
Grow ==
    /\ pc = "growing" /\ togo > 0
    /\ AllocatePageAt(heapEnd + PageSize)
    /\ heapEnd' = heapEnd + PageSize
    /\ togo' = togo - 1
    /\ UNCHANGED <<pc, heapStart, current, last, amount, blocks>>

KmallocReturns ==
    /\ pc = "growing" /\ togo = 0
    /\ Bump(amount)
    /\ pc' = "ready"
    /\ UNCHANGED <<heapStart, heapEnd, last, loop, memory>>

Kmalloc(n) == KmallocFits(n) \/ KmallocGrows(n)
Next ==
    \/ Start \/ MapInitialPage \/ FinishInit
    \/ KmallocTooEarly \/ Grow \/ KmallocReturns \/ OutOfPages
    \/ \E n \in Amounts : Kmalloc(n)

Spec == Init /\ [][Next]_vars

-----------------------------------------------------------------------------
TypeOK ==
    /\ pc \in {"off", "booting", "ready", "growing", "panicked"}
    /\ heapStart \in Nat /\ heapEnd \in Nat /\ current \in Nat /\ last \in Nat
    /\ togo \in Nat /\ amount \in Nat
    /\ mapped \subseteq Nat /\ frames \in Nat
    /\ blocks \subseteq [at : Nat, size : Nat]

Disjoint(b, c) == b.at + b.size <= c.at \/ c.at + c.size <= b.at

\* No two blocks kmalloc returns share a byte, whatever growth of the heap
\* lies between them (alloc.cpp:45-76).
BlocksDisjoint ==
    \A b, c \in blocks : b # c => Disjoint(b, c)

\* Every block lies within the heap, whatever was asked for: growing by the
\* rounded-up request alone, whatever room was left, is always enough
\* (alloc.cpp:60).
BlocksInHeap ==
    \A b \in blocks : heapStart <= b.at /\ b.at + b.size <= heapEnd

\* A byte of a block is on a page that was mapped for the heap, or on the page
\* kernel_end lies on, or on the one page past the initial heap that the first
\* growth steps over: later growths leave no other gap (alloc.cpp:63-66).
HoleIsOnePage ==
    \A b \in blocks : \A a \in Bytes(b) :
        PageOf(a) \in mapped \cup {PageOf(heapStart), PageOf(last) + 1}

\* alloc.cpp:62, "Allocate all the needed pages and add them to the heap":
\* every byte of a block past the kernel's own last page is mapped.
BlocksMapped ==
    \A b \in blocks : \A a \in Bytes(b) : PageOf(a) \in mapped \cup {PageOf(heapStart)}
=============================================================================
