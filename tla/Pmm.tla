-------------------------------- MODULE Pmm --------------------------------
(***************************************************************************)
(* The physical memory manager of GooseOS, pmm.cpp: PMM::Init builds a     *)
(* bitmap of pages out of the boot loader's memory map, loop by loop, and  *)
(* AllocatePage hands out the lowest page whose bit is clear.              *)
(*                                                                         *)
(* The bitmap is the set of page numbers whose bit is 1.  The bits past    *)
(* its last whole byte are memory nobody initialised; they may even lie on *)
(* the page behind the bitmap, which is not locked and has an owner of its *)
(* own.                                                                    *)
(***************************************************************************)
EXTENDS Naturals, Sequences, FiniteSets

CONSTANTS
    PageSize,     \* 4096
    BitsPerByte,  \* 8
    LowPages,     \* 256: the pages below 1 MiB
    MemMaps       \* the memory maps a boot loader may hand over

\* A memory map is a sequence of entries [usable, base, length].  The boot
\* protocol promises page-aligned usable entries, never at address 0, that
\* overlap no other entry.
PageAligned(n) == n = PageSize * (n \div PageSize)
End(e) == e.base + e.length
WellFormed(map) ==
    \A i \in DOMAIN map :
        /\ map[i].usable \in BOOLEAN /\ map[i].base \in Nat /\ map[i].length \in Nat
        /\ map[i].usable =>
             /\ PageAligned(map[i].base) /\ PageAligned(map[i].length)
             /\ map[i].base > 0
             /\ \A j \in DOMAIN map \ {i} :
                   End(map[i]) <= map[j].base \/ End(map[j]) <= map[i].base

ASSUME SizeAssumption ==
    PageSize \in Nat \ {0} /\ BitsPerByte \in Nat \ {0} /\ LowPages \in Nat \ {0}
ASSUME MapAssumption == \A map \in MemMaps : WellFormed(map)

VARIABLES
    map,         \* memmap_request.response
    phase,       \* the next loop of Init to run, "ready" or "panicked"
    totalPages,
    bitmapSize,  \* in bytes
    bitmapBase,  \* bitmap_phys_addr
    used,        \* pages whose bit is 1
    held         \* pages AllocatePage has returned

vars == <<map, phase, totalPages, bitmapSize, bitmapBase, used, held>>

-----------------------------------------------------------------------------
Entries == {map[i] : i \in DOMAIN map}
Usable == {e \in Entries : e.usable}
RoundUp(n) == (n + PageSize - 1) \div PageSize
PagesFrom(first, count) == {p \in first..(first + count) : p < first + count}

\* Variant: one page too many of each usable entry is freed.
UsablePages_OffByOne ==
    UNION {PagesFrom(e.base \div PageSize, e.length \div PageSize + 1) : e \in Usable}

UsablePages ==
    UNION {PagesFrom(e.base \div PageSize, e.length \div PageSize) : e \in Usable}

\* Can the bitmap go here?
Fits(e) == e.usable /\ e.length >= bitmapSize /\ e.base > 0

\* The pages the bitmap does not cover although Init counted them: their bits
\* are whatever the memory behind the bitmap holds.
TailPages == {p \in 0..totalPages : bitmapSize * BitsPerByte <= p /\ p < totalPages}

BitmapPages == PagesFrom(bitmapBase \div PageSize, RoundUp(bitmapSize))
Free == {p \in 0..totalPages : p < totalPages} \ used

\* The page that the byte with p's bit lies on, and the bits of such a page.
BitPage(p) == (bitmapBase + p \div BitsPerByte) \div PageSize
BitsOn(page) == {p \in 0..totalPages : p < totalPages /\ BitPage(p) = page}

\* The pages whose bits nobody keeps: LockBitmap does not lock what they lie
\* on, or it is no memory that Init may use.
Unkept == {p \in 0..totalPages : p < totalPages /\ BitPage(p) \notin BitmapPages \cap UsablePages}

-----------------------------------------------------------------------------
Init ==
    /\ map \in MemMaps
    /\ phase = "scan"
    /\ totalPages = 0
    /\ bitmapSize = 0
    /\ bitmapBase = 0
    /\ used = {}
    /\ held = {}

\* Find the top of usable memory.
Scan ==
    /\ phase = "scan"
    /\ \E top \in {0} \cup {End(e) : e \in Usable} :
          /\ \A e \in Usable : End(e) <= top
          /\ totalPages' = top \div PageSize
    /\ bitmapSize' = totalPages' \div BitsPerByte
    /\ phase' = "place"
    /\ UNCHANGED <<map, bitmapBase, used, held>>

\* The first usable entry that can hold the bitmap; address 0 if none can.
Place ==
    /\ phase = "place"
    /\ \/ \E i \in DOMAIN map :
            /\ Fits(map[i]) /\ \A j \in DOMAIN map : j < i => ~Fits(map[j])
            /\ bitmapBase' = map[i].base
       \/ /\ \A i \in DOMAIN map : ~Fits(map[i])
          /\ bitmapBase' = 0
    /\ phase' = "memset"
    /\ UNCHANGED <<map, totalPages, bitmapSize, used, held>>

\* Lock everything the bitmap's bytes cover.
MemSet ==
    /\ phase = "memset"
    /\ \E garbage \in SUBSET TailPages :
          used' = PagesFrom(0, bitmapSize * BitsPerByte) \cup garbage
    /\ phase' = "free"
    /\ UNCHANGED <<map, totalPages, bitmapSize, bitmapBase, held>>

FreeUsable ==
    /\ phase = "free"
    /\ used' = used \ UsablePages
    /\ phase' = "zero"
    /\ UNCHANGED <<map, totalPages, bitmapSize, bitmapBase, held>>

LockPageZero ==
    /\ phase = "zero"
    /\ used' = used \cup {0}
    /\ phase' = "bitmap"
    /\ UNCHANGED <<map, totalPages, bitmapSize, bitmapBase, held>>

\* Variant: the page count of the bitmap is not rounded up.
LockBitmap_Truncated ==
    /\ phase = "bitmap"
    /\ used' = used \cup PagesFrom(bitmapBase \div PageSize, bitmapSize \div PageSize)
    /\ phase' = "low"
    /\ UNCHANGED <<map, totalPages, bitmapSize, bitmapBase, held>>

LockBitmap ==
    /\ phase = "bitmap"
    /\ used' = used \cup BitmapPages
    /\ phase' = "low"
    /\ UNCHANGED <<map, totalPages, bitmapSize, bitmapBase, held>>

LockLow ==
    /\ phase = "low"
    /\ used' = used \cup PagesFrom(0, LowPages)
    /\ phase' = "reserved"
    /\ UNCHANGED <<map, totalPages, bitmapSize, bitmapBase, held>>

ReservedPages ==
    UNION {PagesFrom(e.base \div PageSize, RoundUp(e.length)) : e \in Entries \ Usable}

LockReserved ==
    /\ phase = "reserved"
    /\ used' = used \cup {p \in ReservedPages : p < totalPages}
    /\ phase' = "ready"
    /\ UNCHANGED <<map, totalPages, bitmapSize, bitmapBase, held>>

-----------------------------------------------------------------------------
\* Variant: the search loop runs one bit too far.
AllocatePage_PastEnd ==
    /\ phase = "ready"
    /\ \E p \in (0..totalPages) \ used :
          /\ \A q \in (0..totalPages) \ used : p <= q
          /\ used' = used \cup {p}
          /\ held' = held \cup {p}
    /\ UNCHANGED <<map, phase, totalPages, bitmapSize, bitmapBase>>

\* The lowest page whose bit is clear.
AllocatePage ==
    /\ phase = "ready"
    /\ \E p \in Free :
          /\ \A q \in Free : p <= q
          /\ used' = used \cup {p}
          /\ held' = held \cup {p}
    /\ UNCHANGED <<map, phase, totalPages, bitmapSize, bitmapBase>>

\* Variant: the search stops at the first page past the low ones that is taken.
OutOfMemory_GivesUp ==
    /\ phase = "ready"
    /\ LowPages \in used
    /\ phase' = "panicked"
    /\ UNCHANGED <<map, totalPages, bitmapSize, bitmapBase, used, held>>

OutOfMemory ==
    /\ phase = "ready"
    /\ Free = {}
    /\ phase' = "panicked"
    /\ UNCHANGED <<map, totalPages, bitmapSize, bitmapBase, used, held>>

\* The owner of a page writes to it: the kernel, once the page was handed out,
\* or whoever has memory that is not usable.  If bits of the bitmap lie there
\* they become anything.
Rewrite ==
    /\ phase \notin {"scan", "place", "memset"}
    /\ \E page \in held \cup ({BitPage(p) : p \in 0..totalPages} \ UsablePages) :
          \E garbage \in SUBSET BitsOn(page) :
             used' = (used \ BitsOn(page)) \cup garbage
    /\ UNCHANGED <<map, phase, totalPages, bitmapSize, bitmapBase, held>>

Boot ==
    \/ Scan \/ Place \/ MemSet \/ FreeUsable
    \/ LockPageZero \/ LockBitmap \/ LockLow \/ LockReserved
Next == Boot \/ AllocatePage \/ OutOfMemory \/ Rewrite

Spec == Init /\ [][Next]_vars

-----------------------------------------------------------------------------
Phase == {"scan", "place", "memset", "free", "zero", "bitmap", "low",
          "reserved", "ready", "panicked"}
Started == phase \in {"ready", "panicked"}

TypeOK ==
    /\ map \in MemMaps
    /\ phase \in Phase
    /\ totalPages \in Nat /\ bitmapSize \in Nat /\ bitmapBase \in Nat
    /\ used \subseteq Nat
    /\ held \subseteq PagesFrom(0, totalPages)

\* Does the page lie, every byte of it, in usable memory?
InUsable(p) ==
    \E e \in Usable : e.base <= p * PageSize /\ (p + 1) * PageSize <= End(e)

\* A page handed out is usable memory above the first megabyte, and none of
\* its bytes belongs to the bitmap: its owner can write all of it without
\* harm to firmware, kernel or allocator.  Init promises it in its comments:
\* "Lock everything by defualt" (pmm.cpp:79), "Mark the bitmap address as
\* USED so we dont overmark ourself" (98), "Protect bootloader and kernel
\* data" (110).
HandedSafe ==
    \A p \in held :
        /\ InUsable(p)
        /\ p >= LowPages
        /\ (p + 1) * PageSize <= bitmapBase \/ bitmapBase + bitmapSize <= p * PageSize

\* The bitmap has a bit for every page that Init counted: so it is where usable
\* memory ends at a multiple of 8 pages.
Covered == TailPages = {}

\* Where the bitmap covers every page, the pages handed out are safe, whoever
\* else writes to his own pages meanwhile.
SafeWhereCovered == Covered => HandedSafe

\* There, once Init is done, the free pages and those handed out are together
\* exactly the usable ones that Init did not reserve: no page leaks and none is
\* lost to the rounding of the locking loops.
PoolExact ==
    Covered /\ Started =>
      /\ Free \cap held = {}
      /\ Free \cup held =
           {p \in UsablePages : p >= LowPages} \ BitmapPages

\* The allocator is the abstract one, whose pool is what Init leaves free.  What
\* becomes of the bits that nobody keeps harms their own pages only: all others
\* are handed out at most once, and while one of them is free no one panics.
AbsState ==
    CASE phase = "ready" -> "open"
      [] phase = "panicked" -> "panicked"
      [] OTHER -> "booting"
AbsPool == IF Started THEN Free \ Unkept ELSE {}
AbsHeld == held \ Unkept
PA == INSTANCE PageAllocator
        WITH Page <- Nat, state <- AbsState, pool <- AbsPool, held <- AbsHeld
RefinesPageAllocator == PA!Spec
=============================================================================
