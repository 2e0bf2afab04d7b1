----------------------------- MODULE PmmProofs -----------------------------
(***************************************************************************)
(* Proofs about Pmm for every memory map, page size and bitmap.            *)
(***************************************************************************)
EXTENDS Pmm, TLAPS

USE SizeAssumption

\* Some usable entry had room for the bitmap.
Roomy == phase \notin {"scan", "place"} => bitmapBase # 0

\* The bits that lock the bitmap are in pages it locks: true when the bitmap has
\* a bit for each of its own pages, and somewhere to lie.
SelfLocked == phase \notin {"scan", "place"} => BitmapPages \cap Unkept = {}

-----------------------------------------------------------------------------
(* Arithmetic of pages and bytes.                                          *)

LEMMA DivBounds ==
    ASSUME NEW n \in Nat, NEW k \in Nat \ {0}
    PROVE  n \div k \in Nat /\ k * (n \div k) <= n /\ n < k * (n \div k) + k
BY Z3

LEMMA TimesMonotone ==
    ASSUME NEW a \in Nat, NEW b \in Nat, NEW k \in Nat, a <= b
    PROVE  a * k <= b * k
OBVIOUS

LEMMA TimesType ==
    ASSUME NEW a \in Nat, NEW b \in Nat
    PROVE  a * b \in Nat /\ a * b = b * a /\ (a + 1) * b = a * b + b
OBVIOUS

\* Rounding up to whole pages loses no byte.
LEMMA RoundUpCovers ==
    ASSUME NEW n \in Nat
    PROVE  RoundUp(n) \in Nat /\ n <= RoundUp(n) * PageSize
<1> DEFINE m == n + PageSize - 1
<1>1. m \in Nat
  OBVIOUS
<1>2. m \div PageSize \in Nat /\ m < PageSize * (m \div PageSize) + PageSize
  BY <1>1, DivBounds
<1>3. PageSize * (m \div PageSize) = (m \div PageSize) * PageSize
  BY <1>2, TimesType
<1>4. n <= (m \div PageSize) * PageSize
  <2> DEFINE q == PageSize * (m \div PageSize)
  <2>1. q \in Nat /\ m < q + PageSize
    BY <1>2, TimesType
  <2> HIDE DEF q
  <2>2. n <= q
    BY <2>1
  <2> QED BY <2>2, <1>3 DEF q
<1> QED BY <1>2, <1>4 DEF RoundUp

\* A page below a byte range, or past the pages it is rounded up to, shares
\* no byte with it.
LEMMA OutsideRange ==
    ASSUME NEW base \in Nat, NEW size \in Nat, PageAligned(base), NEW p \in Nat,
           p \notin PagesFrom(base \div PageSize, RoundUp(size))
    PROVE  (p + 1) * PageSize <= base \/ base + size <= p * PageSize
<1> DEFINE b == base \div PageSize
           c == RoundUp(size)
<1>1. b \in Nat /\ c \in Nat /\ base = b * PageSize /\ size <= c * PageSize
  BY DivBounds, RoundUpCovers, TimesType DEF PageAligned
<1>2. p < b \/ b + c <= p
  BY <1>1 DEF PagesFrom
<1> HIDE DEF b, c
<1>3. CASE p < b
  <2>1. (p + 1) * PageSize <= b * PageSize
    BY <1>1, <1>3, TimesMonotone
  <2> QED BY <1>1, <2>1
<1>4. CASE b + c <= p
  <2>1. (b + c) * PageSize <= p * PageSize
    BY <1>1, <1>4, TimesMonotone
  <2>2. (b + c) * PageSize = b * PageSize + c * PageSize
    BY <1>1
  <2> QED BY <1>1, <2>1, <2>2
<1> QED BY <1>2, <1>3, <1>4

\* A page counted from the start of an aligned range lies within it.
LEMMA InsideRange ==
    ASSUME NEW base \in Nat, NEW length \in Nat,
           PageAligned(base), PageAligned(length),
           NEW p \in PagesFrom(base \div PageSize, length \div PageSize)
    PROVE  p \in Nat /\ base <= p * PageSize /\ (p + 1) * PageSize <= base + length
<1> DEFINE b == base \div PageSize
           c == length \div PageSize
<1>1. b \in Nat /\ c \in Nat /\ base = b * PageSize /\ length = c * PageSize
  BY DivBounds, TimesType DEF PageAligned
<1>2. p \in Nat /\ b <= p /\ p + 1 <= b + c
  BY <1>1 DEF PagesFrom
<1> HIDE DEF b, c
<1>3. b * PageSize <= p * PageSize /\ (p + 1) * PageSize <= (b + c) * PageSize
  BY <1>1, <1>2, TimesMonotone
<1>4. (b + c) * PageSize = b * PageSize + c * PageSize
  BY <1>1
<1> QED BY <1>1, <1>2, <1>3, <1>4

-----------------------------------------------------------------------------
(* The inductive invariant: what each loop of Init has locked, and that    *)
(* AllocatePage hands out nothing else than what is left.                  *)

AfterFree == {"zero", "bitmap", "low", "reserved", "ready", "panicked"}
AfterBitmap == {"low", "reserved", "ready", "panicked"}
AfterLow == {"reserved", "ready", "panicked"}

\* The bitmap lies at a usable entry that can hold it, or at address 0.
Placed ==
    /\ PageAligned(bitmapBase)
    /\ phase \notin {"scan", "place"} /\ bitmapBase # 0 =>
          \E e \in Usable : e.base = bitmapBase /\ bitmapSize <= e.length
NoneHeld == ~Started => held = {}

\* What holds whoever rewrites bits.
Base == TypeOK /\ Placed /\ NoneHeld

\* What needs every bit to be in the bitmap and kept there.
Whole == Covered /\ Unkept = {}
AllCovered ==
    Whole /\ phase = "free" => \A p \in 0..totalPages : p < totalPages => p \in used
OnlyUsable == Whole /\ phase \in AfterFree => Free \subseteq UsablePages
BitmapLocked == phase \in AfterBitmap => Free \cap BitmapPages = {}
LowLocked == Whole /\ phase \in AfterLow => \A p \in Free : p >= LowPages
HeldChecked ==
    /\ held \cap BitmapPages = {}
    /\ Whole => \A p \in held : p \in UsablePages /\ p >= LowPages

IInv == /\ Base /\ AllCovered
        /\ OnlyUsable /\ BitmapLocked /\ LowLocked /\ HeldChecked

USE DEF Started

LEMMA PagesFromNat ==
    ASSUME NEW a \in Nat, NEW n \in Nat
    PROVE  PagesFrom(a, n) \subseteq Nat /\ \A p \in Nat : p < n => p \in PagesFrom(0, n)
BY DEF PagesFrom

\* The type of what Init computes from the memory map.
LEMMA MapFacts ==
    ASSUME map \in MemMaps
    PROVE  /\ \A e \in Entries :
                 /\ e.base \in Nat /\ e.length \in Nat /\ e.usable \in BOOLEAN
                 /\ e.usable => PageAligned(e.base) /\ PageAligned(e.length)
           /\ UsablePages \subseteq Nat
           /\ ReservedPages \subseteq Nat
<1>1. \A e \in Entries :
        /\ e.base \in Nat /\ e.length \in Nat /\ e.usable \in BOOLEAN
        /\ e.usable => PageAligned(e.base) /\ PageAligned(e.length)
  BY MapAssumption DEF WellFormed, Entries
<1>2. \A e \in Entries : /\ e.base \div PageSize \in Nat
                         /\ e.length \div PageSize \in Nat
                         /\ RoundUp(e.length) \in Nat
  BY <1>1, DivBounds, RoundUpCovers
<1>3. UsablePages \subseteq Nat
  BY <1>2, PagesFromNat DEF UsablePages, Usable
<1>4. ReservedPages \subseteq Nat
  BY <1>2, PagesFromNat DEF ReservedPages
<1> QED BY <1>1, <1>3, <1>4

LEMMA InitInv == Init => IInv
<1> SUFFICES ASSUME Init PROVE IInv
  OBVIOUS
<1>1. 0 = PageSize * (0 \div PageSize)
  BY Z3
<1> QED BY <1>1 DEF Init, IInv, Base, TypeOK, Placed, NoneHeld, AllCovered, OnlyUsable,
          BitmapLocked, LowLocked, HeldChecked, AfterFree, AfterBitmap, AfterLow, Phase, PageAligned

\* What the definitions on the memory map and the bitmap's place depend on.
LEMMA SamePlace ==
    UNCHANGED <<map, totalPages, bitmapSize, bitmapBase>> =>
        UNCHANGED <<Usable, UsablePages, ReservedPages, BitmapPages, TailPages, Unkept, Covered, Whole>>
BY DEF Entries, Usable, UsablePages, ReservedPages, BitmapPages, TailPages, BitPage, Unkept,
       Covered, Whole

\* What is known of the pages of the bitmap and of the bits of a page.
LEMMA PageSets ==
    ASSUME Base
    PROVE  /\ BitmapPages \subseteq Nat /\ TailPages \subseteq Nat
           /\ UsablePages \subseteq Nat /\ ReservedPages \subseteq Nat
           /\ PagesFrom(0, bitmapSize * BitsPerByte) \subseteq Nat
           /\ \A page : BitsOn(page) \subseteq Nat
<1>1. bitmapBase \div PageSize \in Nat /\ RoundUp(bitmapSize) \in Nat
  BY DivBounds, RoundUpCovers DEF Base, TypeOK
<1>2. bitmapSize * BitsPerByte \in Nat
  BY TimesType DEF Base, TypeOK
<1> QED BY <1>1, <1>2, MapFacts, PagesFromNat DEF BitmapPages, TailPages, BitsOn, Base, TypeOK

LEMMA BaseStep == ASSUME Base, [Next]_vars PROVE Base'
<1>1. CASE Scan
  <2>1. PICK top \in {0} \cup {End(e) : e \in Usable} : totalPages' = top \div PageSize
    BY <1>1 DEF Scan
  <2>2. top \in Nat
    BY <2>1, MapFacts DEF Base, TypeOK, Usable, End
  <2>3. totalPages' \in Nat /\ bitmapSize' \in Nat
    BY <1>1, <2>1, <2>2, DivBounds DEF Scan
  <2> QED BY <1>1, <2>3 DEF Scan, Base, TypeOK, Placed, NoneHeld, Phase
<1>2. CASE Place
  <2>1. ASSUME NEW k \in DOMAIN map, Fits(map[k]), bitmapBase' = map[k].base PROVE Base'
    <3>1. map[k] \in Usable /\ bitmapSize <= map[k].length /\ bitmapSize \in Nat
      BY <2>1, MapFacts DEF Fits, Usable, Entries, Base, TypeOK
    <3>2. bitmapBase' \in Nat /\ PageAligned(bitmapBase')
      BY <2>1, <3>1, MapFacts DEF Usable, Base, TypeOK
    <3>3. \E e \in Usable' : e.base = bitmapBase' /\ bitmapSize' <= e.length
      BY <1>2, <2>1, <3>1 DEF Place, Usable, Entries
    <3> QED BY <1>2, <3>2, <3>3 DEF Place, Base, TypeOK, Placed, NoneHeld, Phase
  <2>2. CASE bitmapBase' = 0
    <3>1. 0 = PageSize * (0 \div PageSize)
      BY Z3
    <3> QED BY <1>2, <2>2, <3>1 DEF Place, Base, TypeOK, Placed, NoneHeld, Phase, PageAligned
  <2> QED BY <1>2, <2>1, <2>2 DEF Place
<1>3. CASE ~Scan /\ ~Place
  <2>1. /\ UNCHANGED <<map, totalPages, bitmapSize, bitmapBase>>
        /\ phase' \in {"scan", "place"} => phase \in {"scan", "place"}
        /\ phase \notin {"scan", "place"} \/ UNCHANGED vars
    BY <1>3 DEF Next, Boot, vars, MemSet, FreeUsable, LockPageZero, LockBitmap, LockLow,
               LockReserved, AllocatePage, OutOfMemory, Rewrite
  <2>2. UNCHANGED Usable
    BY <2>1, SamePlace
  <2>3. Placed'
    BY <2>1, <2>2 DEF Base, Placed, vars
  <2>4. used' \subseteq Nat
    <3>1. CASE Rewrite
      <4>1. PICK page : \E garbage \in SUBSET BitsOn(page) :
                          used' = (used \ BitsOn(page)) \cup garbage
        BY <3>1 DEF Rewrite
      <4> QED BY <4>1, PageSets DEF Base, TypeOK
    <3>2. CASE AllocatePage
      BY <3>2 DEF AllocatePage, Free, Base, TypeOK
    <3>3. CASE ~Rewrite /\ ~AllocatePage
      <4>1. used \subseteq Nat /\ {0} \subseteq Nat /\ PagesFrom(0, LowPages) \subseteq Nat
        BY PagesFromNat DEF Base, TypeOK
      <4>2. \/ used' \subseteq used
            \/ \E S \in SUBSET Nat : used' = used \cup S
            \/ MemSet
        BY <1>3, <3>3, <4>1, PageSets DEF Next, Boot, vars, FreeUsable, LockPageZero, LockBitmap,
              LockLow, LockReserved, OutOfMemory
      <4>3. CASE MemSet
        BY <4>3, PageSets DEF MemSet
      <4> QED BY <4>1, <4>2, <4>3
    <3> QED BY <3>1, <3>2, <3>3
  <2>5. held' \subseteq PagesFrom(0, totalPages') /\ NoneHeld'
    <3>1. CASE AllocatePage
      <4>1. PICK p \in Free : held' = held \cup {p}
        BY <3>1 DEF AllocatePage
      <4>2. p \in PagesFrom(0, totalPages)
        BY PagesFromNat DEF Free, Base, TypeOK
      <4> QED BY <2>1, <3>1, <4>1, <4>2 DEF AllocatePage, Base, TypeOK, NoneHeld
    <3>2. CASE ~AllocatePage
      <4>1. UNCHANGED held /\ (Started => Started')
        BY <1>3, <3>2 DEF Next, Boot, vars, MemSet, FreeUsable, LockPageZero, LockBitmap, LockLow,
               LockReserved, OutOfMemory, Rewrite
      <4> QED BY <2>1, <4>1 DEF Base, TypeOK, NoneHeld
    <3> QED BY <3>1, <3>2
  <2>6. phase' \in Phase
    BY <1>3 DEF Next, Boot, vars, MemSet, FreeUsable, LockPageZero, LockBitmap, LockLow,
           LockReserved, AllocatePage, OutOfMemory, Rewrite, Base, TypeOK, Phase
  <2> QED BY <2>1, <2>3, <2>4, <2>5, <2>6 DEF Base, TypeOK
<1> QED BY <1>1, <1>2, <1>3

\* Before the bitmap is initialised nothing is held, and no bit matters.
LEMMA ScanPlaceStep == ASSUME IInv, Base', Scan \/ Place PROVE IInv'
BY DEF IInv, Scan, Place, Base, NoneHeld, AllCovered, OnlyUsable, BitmapLocked, LowLocked,
       HeldChecked, AfterFree, AfterBitmap, AfterLow

LEMMA MemSetStep == ASSUME IInv, Base', MemSet PROVE IInv'
<1>1. UNCHANGED <<Whole, BitmapPages>> /\ held' = {}
  BY SamePlace DEF MemSet, IInv, Base, NoneHeld
<1>2. AllCovered'
  <2> SUFFICES ASSUME Whole, NEW p \in 0..totalPages, p < totalPages PROVE p \in used'
    BY <1>1 DEF AllCovered, MemSet
  <2>1. p \in Nat /\ bitmapSize * BitsPerByte \in Nat
    BY TimesType DEF IInv, Base, TypeOK
  <2>2. p < bitmapSize * BitsPerByte
    BY <2>1 DEF Whole, Covered, TailPages
  <2> QED BY <2>1, <2>2, PagesFromNat DEF MemSet
<1> QED BY <1>1, <1>2 DEF IInv, MemSet, OnlyUsable, BitmapLocked,
          LowLocked, HeldChecked, AfterFree, AfterBitmap, AfterLow

LEMMA FreeUsableStep == ASSUME IInv, Base', FreeUsable PROVE IInv'
<1>1. UNCHANGED <<Whole, BitmapPages, UsablePages>> /\ held' = {}
  BY SamePlace DEF FreeUsable, IInv, Base, NoneHeld
<1>2. OnlyUsable'
  <2> SUFFICES ASSUME Whole, NEW p \in Free' PROVE p \in UsablePages
    BY <1>1 DEF OnlyUsable
  <2>1. p \in 0..totalPages /\ p < totalPages /\ p \notin used \ UsablePages
    BY DEF Free, FreeUsable
  <2>2. p \in used
    BY <2>1 DEF IInv, AllCovered, FreeUsable
  <2> QED BY <2>1, <2>2
<1> QED BY <1>1, <1>2 DEF IInv, FreeUsable, BitmapLocked,
          LowLocked, HeldChecked, AfterFree, AfterBitmap, AfterLow, AllCovered

\* A loop that only sets bits frees no page.
LEMMA LockingStep ==
    ASSUME IInv, NEW S \in SUBSET Nat, used' = used \cup S,
           UNCHANGED <<map, totalPages, bitmapSize, bitmapBase, held>>,
           ~Started
    PROVE  /\ Free' = Free \ S
           /\ UNCHANGED <<UsablePages, BitmapPages, Unkept, Whole>>
BY SamePlace DEF Free

LEMMA LockStep ==
    ASSUME IInv, Base', LockPageZero \/ LockBitmap \/ LockLow \/ LockReserved
    PROVE  IInv'
<1> USE DEF AfterFree, AfterBitmap, AfterLow
<1>1. CASE LockPageZero
  <2> DEFINE S == {0}
  <2>1. S \subseteq Nat
    OBVIOUS
  <2>2. Free' = Free \ S /\ UNCHANGED <<UsablePages, BitmapPages, Whole>>
    BY <1>1, <2>1, LockingStep DEF LockPageZero
  <2> QED BY <1>1, <2>2 DEF IInv, LockPageZero, AllCovered, OnlyUsable, BitmapLocked,
            LowLocked, HeldChecked
<1>2. CASE LockBitmap
  <2> DEFINE S == BitmapPages
  <2>1. S \subseteq Nat
    BY PageSets DEF IInv
  <2>2. Free' = Free \ S /\ UNCHANGED <<UsablePages, BitmapPages, Whole>>
    BY <1>2, <2>1, LockingStep DEF LockBitmap
  <2> QED BY <1>2, <2>2 DEF IInv, LockBitmap, AllCovered, OnlyUsable, BitmapLocked,
            LowLocked, HeldChecked
<1>3. CASE LockLow
  <2> DEFINE S == PagesFrom(0, LowPages)
  <2>1. S \subseteq Nat
    BY PagesFromNat
  <2>2. Free' = Free \ S /\ UNCHANGED <<UsablePages, BitmapPages, Whole>>
    BY <1>3, <2>1, LockingStep DEF LockLow
  <2>3. \A p \in Free' : p >= LowPages
    <3> SUFFICES ASSUME NEW p \in Free \ S PROVE p >= LowPages
      BY <2>2
    <3>1. p \in Nat
      BY DEF Free
    <3> QED BY <3>1, PagesFromNat
  <2> QED BY <1>3, <2>2, <2>3 DEF IInv, LockLow, AllCovered, OnlyUsable, BitmapLocked,
            LowLocked, HeldChecked
<1>4. CASE LockReserved
  <2> DEFINE S == {p \in ReservedPages : p < totalPages}
  <2>1. S \subseteq Nat
    BY PageSets DEF IInv
  <2>2. Free' = Free \ S /\ UNCHANGED <<UsablePages, BitmapPages, Whole>>
    BY <1>4, <2>1, LockingStep DEF LockReserved
  <2> QED BY <1>4, <2>2 DEF IInv, LockReserved, AllCovered, OnlyUsable, BitmapLocked,
            LowLocked, HeldChecked
<1> QED BY <1>1, <1>2, <1>3, <1>4

LEMMA AllocateStep == ASSUME IInv, Base', AllocatePage PROVE IInv'
<1> PICK p \in Free : used' = used \cup {p} /\ held' = held \cup {p}
  BY DEF AllocatePage
<1>1. Free' = Free \ {p} /\ UNCHANGED <<UsablePages, BitmapPages, Whole>>
  BY SamePlace DEF AllocatePage, Free
<1>2. HeldChecked'
  BY <1>1 DEF IInv, AllocatePage, HeldChecked, OnlyUsable, BitmapLocked, LowLocked,
              AfterFree, AfterBitmap, AfterLow
<1> QED BY <1>1, <1>2 DEF IInv, AllocatePage, AllCovered, OnlyUsable, BitmapLocked, LowLocked,
          AfterFree, AfterBitmap, AfterLow

LEMMA OutOfMemoryStep == ASSUME IInv, Base', OutOfMemory PROVE IInv'
<1>1. UNCHANGED <<Free, UsablePages, BitmapPages, Whole>>
  BY SamePlace DEF OutOfMemory, Free
<1> QED BY <1>1 DEF IInv, OutOfMemory, AllCovered, OnlyUsable,
          BitmapLocked, LowLocked, HeldChecked, AfterFree, AfterBitmap, AfterLow

\* Rewriting changes only bits that nobody keeps: no page of the bitmap is held.
LEMMA RewriteLocal ==
    ASSUME IInv, Rewrite
    PROVE  /\ UNCHANGED <<UsablePages, BitmapPages, Unkept, Whole>>
           /\ \A p \in Nat \ Unkept : p \in Free' <=> p \in Free
<1>1. UNCHANGED <<UsablePages, BitmapPages, Unkept, Whole, totalPages>>
  BY SamePlace DEF Rewrite
<1>2. PICK page \in held \cup ({BitPage(p) : p \in 0..totalPages} \ UsablePages) :
        \E garbage \in SUBSET BitsOn(page) : used' = (used \ BitsOn(page)) \cup garbage
  BY DEF Rewrite
<1>3. page \notin BitmapPages \cap UsablePages
  BY <1>2 DEF IInv, HeldChecked
<1>4. BitsOn(page) \subseteq Unkept
  BY <1>3 DEF BitsOn, Unkept
<1>5. \A p \in Nat \ Unkept : p \in used' <=> p \in used
  BY <1>2, <1>4
<1> QED BY <1>1, <1>5 DEF Free

LEMMA RewriteStep == ASSUME IInv, Base', SelfLocked, Rewrite PROVE IInv'
<1>1. /\ UNCHANGED <<UsablePages, BitmapPages, Unkept, Whole, held, phase, totalPages>>
      /\ \A p \in Nat \ Unkept : p \in Free' <=> p \in Free
      /\ BitmapPages \cap Unkept = {} /\ BitmapPages \subseteq Nat
      /\ Free \subseteq Nat /\ Free' \subseteq Nat
  <2>1. BitmapPages \cap Unkept = {} /\ UNCHANGED <<held, phase, totalPages>>
    BY DEF Rewrite, SelfLocked
  <2>2. BitmapPages \subseteq Nat
    BY PageSets DEF IInv
  <2> QED BY <2>1, <2>2, RewriteLocal DEF Free
<1>2. BitmapLocked'
  BY <1>1 DEF IInv, BitmapLocked
<1>3. CASE Whole
  <2>1. Free' = Free
    BY <1>1, <1>3 DEF Whole
  <2>2. AllCovered'
    BY <1>1, <1>3, <2>1 DEF IInv, AllCovered, Free
  <2> QED BY <1>1, <1>2, <2>1, <2>2 DEF IInv, OnlyUsable, LowLocked, HeldChecked
<1>4. CASE ~Whole
  BY <1>1, <1>2, <1>4 DEF IInv, AllCovered, OnlyUsable, LowLocked, HeldChecked
<1> QED BY <1>3, <1>4

LEMMA StutterStep == ASSUME IInv, Base', UNCHANGED vars PROVE IInv'
<1>1. UNCHANGED <<Free, UsablePages, BitmapPages, Whole>>
  BY SamePlace DEF vars, Free
<1> QED BY <1>1 DEF IInv, vars, AllCovered, OnlyUsable,
          BitmapLocked, LowLocked, HeldChecked, AfterFree, AfterBitmap, AfterLow

LEMMA BaseInductive == Spec => []Base
<1>1. Init => Base
  BY InitInv DEF IInv
<1> QED BY <1>1, BaseStep, PTL DEF Spec

LEMMA Inductive == Spec /\ []SelfLocked => []IInv
<1>1. IInv /\ SelfLocked /\ [Next]_vars => IInv'
  BY BaseStep, ScanPlaceStep, MemSetStep, FreeUsableStep, LockStep, AllocateStep,
     OutOfMemoryStep, RewriteStep, StutterStep DEF Next, Boot, IInv
<1> QED BY InitInv, <1>1, PTL DEF Spec

-----------------------------------------------------------------------------
(* The theorems.                                                           *)

\* Every variable keeps its type.
THEOREM TypeCorrect == Spec => []TypeOK
BY BaseInductive, PTL DEF Base

\* A bitmap that covers every page and has room for itself keeps every bit in a
\* page that it locks.
LEMMA RoomKeepsBits ==
    ASSUME Base, Covered, Roomy, phase \notin {"scan", "place"}
    PROVE  Unkept = {}
<1> SUFFICES ASSUME NEW p \in 0..totalPages, p < totalPages
             PROVE  BitPage(p) \in BitmapPages \cap UsablePages
  BY DEF Unkept
<1>1. PICK e \in Usable : e.base = bitmapBase /\ bitmapSize <= e.length
  BY DEF Base, Placed, Roomy
<1>2. /\ e.base \in Nat /\ e.length \in Nat /\ PageAligned(e.base) /\ PageAligned(e.length)
      /\ bitmapSize \in Nat /\ totalPages \in Nat /\ p \in Nat
  BY MapFacts DEF Usable, Base, TypeOK
<1> DEFINE b == e.base \div PageSize
           n == p \div BitsPerByte
           q == n \div PageSize
           l == e.length \div PageSize
           c == RoundUp(bitmapSize)
<1>3. /\ b \in Nat /\ e.base = b * PageSize
      /\ n \in Nat /\ BitsPerByte * n <= p
      /\ q \in Nat /\ PageSize * q <= n /\ n < PageSize * q + PageSize
      /\ l \in Nat /\ e.length = l * PageSize
      /\ c \in Nat /\ bitmapSize <= c * PageSize
  BY <1>2, DivBounds, TimesType, RoundUpCovers DEF PageAligned
<1>4. n < bitmapSize
  <2>1. p < bitmapSize * BitsPerByte
    BY <1>2, TimesType DEF Covered, TailPages
  <2> HIDE DEF n
  <2>2. SUFFICES ASSUME bitmapSize <= n PROVE FALSE
    BY <1>2, <1>3
  <2>3. bitmapSize * BitsPerByte <= n * BitsPerByte
    BY <1>2, <1>3, <2>2, TimesMonotone
  <2>4. n * BitsPerByte = BitsPerByte * n /\ n * BitsPerByte \in Nat /\ bitmapSize * BitsPerByte \in Nat
    BY <1>2, <1>3, TimesType
  <2> QED BY <1>2, <1>3, <2>1, <2>3, <2>4
<1>5. BitPage(p) = b + q
  <2>1. (e.base + n) \div PageSize = b + q
    <3> HIDE DEF b, n, q
    <3>1. q = n \div PageSize
      BY DEF q
    <3> QED BY <1>3, <3>1, Z3
  <2> QED BY <1>1, <2>1 DEF BitPage
<1>6. ASSUME NEW k \in Nat, bitmapSize <= k * PageSize PROVE q < k
  <2> HIDE DEF n, q
  <2>1. SUFFICES ASSUME k <= q PROVE FALSE
    BY <1>3, <1>6
  <2>2. k * PageSize <= q * PageSize
    BY <1>3, <1>6, <2>1, TimesMonotone
  <2>3. q * PageSize = PageSize * q /\ q * PageSize \in Nat /\ k * PageSize \in Nat
    BY <1>3, <1>6, TimesType
  <2> QED BY <1>2, <1>3, <1>4, <1>6, <2>2, <2>3
<1>7. q < c /\ q < l
  BY <1>1, <1>2, <1>3, <1>6
<1> HIDE DEF b, c, l, q, n
<1>8. b + q \in PagesFrom(b, c) /\ b + q \in PagesFrom(b, l)
  BY <1>3, <1>7 DEF PagesFrom
<1> QED BY <1>1, <1>5, <1>8 DEF b, c, l, BitmapPages, UsablePages

\* SelfLocked asks for nothing more where the bitmap covers every page.
LEMMA CoveredSelfLocked == Spec /\ []Covered /\ []Roomy => []SelfLocked
<1>1. Base /\ Covered /\ Roomy => SelfLocked
  BY RoomKeepsBits DEF SelfLocked
<1> QED BY <1>1, BaseInductive, PTL

\* Where the bitmap covers every page and has room, whatever the memory map and
\* whoever writes to the pages handed out, a page handed out is usable memory
\* that no part of Init reserved (pmm.cpp:79-131).
THEOREM HandedSafeHolds == Spec /\ []SelfLocked /\ []Roomy => []SafeWhereCovered
<1>1. IInv /\ Roomy => SafeWhereCovered
  <2> SUFFICES ASSUME IInv, Covered, Roomy, NEW p \in held
               PROVE  /\ InUsable(p)
                      /\ p >= LowPages
                      /\ \/ (p + 1) * PageSize <= bitmapBase
                         \/ bitmapBase + bitmapSize <= p * PageSize
    BY DEF HandedSafe, SafeWhereCovered
  <2>1. phase \notin {"scan", "place"}
    BY DEF IInv, Base, NoneHeld
  <2>2. Whole
    BY <2>1, RoomKeepsBits DEF IInv, Whole
  <2>3. p \in Nat /\ p \in UsablePages /\ p \notin BitmapPages /\ p >= LowPages
    BY <2>2 DEF IInv, Base, TypeOK, HeldChecked, PagesFrom
  <2>4. InUsable(p)
    <3>1. PICK e \in Usable : p \in PagesFrom(e.base \div PageSize, e.length \div PageSize)
      BY <2>3 DEF UsablePages
    <3>2. /\ e.base \in Nat /\ e.length \in Nat
          /\ PageAligned(e.base) /\ PageAligned(e.length)
      BY MapFacts DEF IInv, Base, TypeOK, Usable
    <3> QED BY <3>1, <3>2, InsideRange DEF InUsable, End
  <2>5. \/ (p + 1) * PageSize <= bitmapBase
        \/ bitmapBase + bitmapSize <= p * PageSize
    BY <2>3, OutsideRange DEF IInv, Base, TypeOK, Placed, BitmapPages
  <2> QED BY <2>3, <2>4, <2>5
<1> QED BY <1>1, Inductive, PTL

\* Whenever the bits that lock the bitmap lie in pages it locks, the manager is
\* the abstract allocator for all pages whose bits do, whatever the other bits
\* hold at first and whoever rewrites them: none of those pages is handed out
\* twice, and it panics only when none is left.
THEOREM Refinement == Spec /\ []SelfLocked => RefinesPageAllocator
<1>1. Init => PA!Init
  BY DEF Init, PA!Init, AbsState, AbsPool, AbsHeld
<1>2. IInv /\ SelfLocked /\ [Next]_vars => [PA!Next]_<<AbsState, AbsPool, AbsHeld>>
  <2> SUFFICES ASSUME IInv, SelfLocked, [Next]_vars
               PROVE  PA!Next \/ UNCHANGED <<AbsState, AbsPool, AbsHeld>>
    OBVIOUS
  <2>1. CASE Scan \/ Place \/ MemSet \/ FreeUsable \/ LockPageZero \/ LockBitmap \/ LockLow
    <3>1. held = {} /\ held' = {}
      BY <2>1 DEF Scan, Place, MemSet, FreeUsable, LockPageZero, LockBitmap, LockLow,
                  IInv, Base, NoneHeld
    <3> QED BY <2>1, <3>1 DEF Scan, Place, MemSet, FreeUsable, LockPageZero, LockBitmap, LockLow,
                AbsState, AbsPool, AbsHeld
  <2>2. CASE LockReserved
    <3>1. AbsState = "booting" /\ AbsState' = "open" /\ AbsHeld' = {}
      BY <2>2 DEF LockReserved, AbsState, AbsHeld, IInv, Base, NoneHeld
    <3>2. AbsPool' \subseteq Nat
      BY DEF AbsPool, Free
    <3> QED BY <3>1, <3>2 DEF PA!Next, PA!Open
  <2>3. CASE AllocatePage
    <3>1. PICK p \in Free : used' = used \cup {p} /\ held' = held \cup {p}
      BY <2>3 DEF AllocatePage
    <3>2. Free' = Free \ {p} /\ UNCHANGED Unkept
      BY <2>3, <3>1, SamePlace DEF AllocatePage, Free
    <3>3. /\ AbsState = "open" /\ UNCHANGED AbsState
          /\ AbsPool = Free \ Unkept /\ AbsPool' = (Free \ {p}) \ Unkept
          /\ AbsHeld' = (held \cup {p}) \ Unkept
      BY <2>3, <3>1, <3>2 DEF AllocatePage, AbsState, AbsPool, AbsHeld
    <3>4. CASE p \in Unkept
      BY <3>3, <3>4 DEF AbsHeld
    <3>5. CASE p \notin Unkept
      <4>1. p \in AbsPool /\ AbsPool' = AbsPool \ {p} /\ AbsHeld' = AbsHeld \cup {p}
        BY <3>1, <3>3, <3>5 DEF AbsHeld
      <4> QED BY <3>3, <4>1 DEF PA!Next, PA!AllocatePage
    <3> QED BY <3>4, <3>5
  <2>4. CASE OutOfMemory
    <3>1. UNCHANGED <<Free, Unkept, held>> /\ Free = {}
      BY <2>4, SamePlace DEF OutOfMemory, Free
    <3>2. /\ AbsState = "open" /\ AbsState' = "panicked"
          /\ AbsPool = {} /\ UNCHANGED <<AbsPool, AbsHeld>>
      BY <2>4, <3>1 DEF OutOfMemory, AbsState, AbsPool, AbsHeld
    <3> QED BY <3>2 DEF PA!Next, PA!Exhausted
  <2>5. CASE Rewrite
    <3>1. UNCHANGED <<Unkept, held, phase>> /\ \A p \in Nat \ Unkept : p \in Free' <=> p \in Free
      BY <2>5, RewriteLocal DEF Rewrite
    <3>2. Free' \ Unkept' = Free \ Unkept
      BY <3>1 DEF Free
    <3> QED BY <3>1, <3>2 DEF AbsState, AbsPool, AbsHeld
  <2>6. CASE UNCHANGED vars
    BY <2>6, SamePlace DEF vars, AbsState, AbsPool, AbsHeld, Free
  <2> QED BY <2>1, <2>2, <2>3, <2>4, <2>5, <2>6 DEF Next, Boot
<1> QED BY <1>1, <1>2, Inductive, PTL DEF Spec, RefinesPageAllocator, PA!Spec

-----------------------------------------------------------------------------
(* No page is lost: what the pool holds besides what it may.               *)

Bounded == phase # "scan" => \A p \in UsablePages : p < totalPages
NoneLost ==
    phase \in AfterFree =>
      \A p \in UsablePages :
          p >= LowPages /\ p \notin BitmapPages => p \in Free \cup held \cup Unkept
HeldTaken == Free \cap held \subseteq Unkept
EInv == Bounded /\ NoneLost /\ HeldTaken

\* The pages below the end of a range are those that end in it.
LEMMA PagesBelow ==
    ASSUME NEW top \in Nat, NEW p \in Nat, (p + 1) * PageSize <= top
    PROVE  p < top \div PageSize
<1> DEFINE q == top \div PageSize
<1>1. q \in Nat /\ top < PageSize * q + PageSize
  BY DivBounds
<1>2. PageSize * q + PageSize = (q + 1) * PageSize
  BY <1>1, TimesType
<1> HIDE DEF q
<1>3. ASSUME q <= p PROVE FALSE
  <2>1. (q + 1) * PageSize <= (p + 1) * PageSize
    BY <1>1, <1>3, TimesMonotone
  <2>2. (q + 1) * PageSize \in Nat /\ (p + 1) * PageSize \in Nat
    BY <1>1
  <2> QED BY <1>1, <1>2, <2>1, <2>2
<1>4. p < q
  BY <1>1, <1>3
<1> QED BY <1>4 DEF q

\* A page that the lock of a reserved region takes starts before its end, and
\* ends after its beginning.
LEMMA LockedPage ==
    ASSUME NEW base \in Nat, NEW length \in Nat,
           NEW p \in PagesFrom(base \div PageSize, RoundUp(length))
    PROVE  p \in Nat /\ base < (p + 1) * PageSize /\ p * PageSize < base + length
<1> DEFINE b == base \div PageSize
           m == length + PageSize - 1
           c == m \div PageSize
<1>1. b \in Nat /\ PageSize * b <= base /\ base < PageSize * b + PageSize
  BY DivBounds
<1>2. m \in Nat /\ c \in Nat /\ PageSize * c <= m
  <2>1. m \in Nat
    OBVIOUS
  <2> HIDE DEF m
  <2> QED BY <2>1, DivBounds
<1>3. p \in Nat /\ b <= p /\ p + 1 <= b + c
  BY <1>1, <1>2 DEF PagesFrom, RoundUp
<1>4. PageSize * b = b * PageSize /\ PageSize * c = c * PageSize
  BY <1>1, <1>2, TimesType
<1>5. m = length + PageSize - 1
  OBVIOUS
<1> HIDE DEF b, c, m
<1>6. (b + 1) * PageSize <= (p + 1) * PageSize /\ (p + 1) * PageSize <= (b + c) * PageSize
  BY <1>1, <1>2, <1>3, TimesMonotone
<1>7. /\ (b + 1) * PageSize = b * PageSize + PageSize
      /\ (b + c) * PageSize = b * PageSize + c * PageSize
      /\ (p + 1) * PageSize = p * PageSize + PageSize
  BY <1>1, <1>2, <1>3
<1>8. b * PageSize \in Nat /\ c * PageSize \in Nat /\ p * PageSize \in Nat
  BY <1>1, <1>2, <1>3
<1> QED BY <1>1, <1>2, <1>3, <1>4, <1>5, <1>6, <1>7, <1>8

LEMMA UsableInside ==
    ASSUME map \in MemMaps, NEW p \in UsablePages
    PROVE  \E i \in DOMAIN map :
             /\ map[i].usable /\ map[i].base \in Nat /\ map[i].length \in Nat
             /\ p \in Nat /\ map[i].base <= p * PageSize /\ (p + 1) * PageSize <= End(map[i])
<1>1. PICK e \in Usable : p \in PagesFrom(e.base \div PageSize, e.length \div PageSize)
  BY DEF UsablePages
<1>2. PICK i \in DOMAIN map : e = map[i]
  BY DEF Usable, Entries
<1>3. e.usable /\ e.base \in Nat /\ e.length \in Nat /\ PageAligned(e.base) /\ PageAligned(e.length)
  BY MapFacts DEF Usable
<1>4. p \in Nat /\ e.base <= p * PageSize /\ (p + 1) * PageSize <= e.base + e.length
  BY <1>1, <1>3, InsideRange
<1> QED BY <1>2, <1>3, <1>4 DEF End

\* Rounding a reserved region to whole pages never takes a usable one.
LEMMA ReservedApart ==
    ASSUME map \in MemMaps PROVE ReservedPages \cap UsablePages = {}
<1> SUFFICES ASSUME NEW p \in ReservedPages, p \in UsablePages PROVE FALSE
  OBVIOUS
<1>1. PICK i \in DOMAIN map :
        /\ map[i].usable /\ map[i].base \in Nat /\ map[i].length \in Nat
        /\ p \in Nat /\ map[i].base <= p * PageSize /\ (p + 1) * PageSize <= End(map[i])
  BY UsableInside
<1>2. PICK e \in Entries \ Usable : p \in PagesFrom(e.base \div PageSize, RoundUp(e.length))
  BY DEF ReservedPages
<1>3. PICK j \in DOMAIN map : e = map[j]
  BY DEF Entries
<1>4. ~e.usable /\ e.base \in Nat /\ e.length \in Nat
  BY <1>2, MapFacts DEF Usable
<1>5. e.base < (p + 1) * PageSize /\ p * PageSize < e.base + e.length
  BY <1>2, <1>4, LockedPage
<1>6. End(map[i]) <= map[j].base \/ End(map[j]) <= map[i].base
  <2>1. j # i
    BY <1>1, <1>3, <1>4
  <2>2. WellFormed(map)
    BY MapAssumption
  <2> QED BY <1>1, <2>1, <2>2 DEF WellFormed
<1>7. p * PageSize \in Nat /\ (p + 1) * PageSize \in Nat
  BY <1>1
<1> QED BY <1>1, <1>3, <1>4, <1>5, <1>6, <1>7 DEF End

LEMMA EInvInit == Init => EInv
BY DEF Init, EInv, Bounded, NoneLost, HeldTaken, AfterFree

LEMMA BoundedStep == ASSUME IInv, EInv, [Next]_vars PROVE Bounded'
<1>1. map \in MemMaps /\ UNCHANGED UsablePages
  BY DEF IInv, Base, TypeOK, Next, Boot, vars, Scan, Place, MemSet, FreeUsable, LockPageZero,
         LockBitmap, LockLow, LockReserved, AllocatePage, OutOfMemory, Rewrite, UsablePages, Usable, Entries
<1>2. CASE Scan
  <2>1. PICK top \in {0} \cup {End(e) : e \in Usable} :
          (\A e \in Usable : End(e) <= top) /\ totalPages' = top \div PageSize
    BY <1>2 DEF Scan
  <2>2. top \in Nat
    BY <1>1, <2>1, MapFacts DEF Usable, End
  <2>3. ASSUME NEW p \in UsablePages PROVE p < totalPages'
    <3>1. PICK i \in DOMAIN map :
            /\ map[i].usable /\ map[i].base \in Nat /\ map[i].length \in Nat
            /\ p \in Nat /\ (p + 1) * PageSize <= End(map[i])
      BY <1>1, UsableInside
    <3>2. End(map[i]) <= top /\ End(map[i]) \in Nat
      BY <2>1, <3>1 DEF Usable, Entries, End
    <3>3. (p + 1) * PageSize \in Nat
      BY <3>1
    <3>4. (p + 1) * PageSize <= top
      BY <2>2, <3>1, <3>2, <3>3
    <3> QED BY <2>1, <2>2, <3>1, <3>4, PagesBelow
  <2> QED BY <1>1, <2>3 DEF Bounded
<1>3. CASE ~Scan
  <2>1. UNCHANGED totalPages /\ (phase' # "scan" => phase # "scan")
    BY <1>3 DEF Next, Boot, vars, Place, MemSet, FreeUsable, LockPageZero,
         LockBitmap, LockLow, LockReserved, AllocatePage, OutOfMemory, Rewrite
  <2> QED BY <1>1, <2>1 DEF EInv, Bounded
<1> QED BY <1>2, <1>3

LEMMA EInvStep == ASSUME IInv, EInv, [Next]_vars PROVE EInv'
<1> USE DEF AfterFree
<1>1. Bounded'
  BY BoundedStep
<1>2. CASE Scan \/ Place \/ MemSet
  <2>1. held' = {} /\ phase' \notin AfterFree
    BY <1>2 DEF IInv, Base, NoneHeld, Scan, Place, MemSet
  <2> QED BY <1>1, <2>1 DEF EInv, NoneLost, HeldTaken
<1>3. CASE FreeUsable
  <2>1. held' = {}
    BY <1>3 DEF IInv, Base, NoneHeld, FreeUsable
  <2>2. UNCHANGED <<UsablePages, totalPages>> /\ used' = used \ UsablePages
    BY <1>3 DEF FreeUsable, UsablePages, Usable, Entries
  <2>3. UsablePages \subseteq Nat /\ totalPages \in Nat /\ \A p \in UsablePages : p < totalPages
    BY <1>3, MapFacts DEF EInv, Bounded, IInv, Base, TypeOK, FreeUsable
  <2>4. \A p \in UsablePages' : p \in Free'
    BY <2>2, <2>3 DEF Free
  <2> QED BY <1>1, <2>1, <2>4 DEF EInv, NoneLost, HeldTaken
<1>4. ASSUME NEW S \in SUBSET Nat, used' = used \cup S,
             UNCHANGED <<map, totalPages, bitmapSize, bitmapBase, held>>, ~Started,
             phase \in AfterFree,
             \A p \in S : p \in UsablePages => p < LowPages \/ p \in BitmapPages
      PROVE  EInv'
  <2>1. Free' = Free \ S /\ UNCHANGED <<UsablePages, BitmapPages, Unkept>>
    BY <1>4, LockingStep
  <2>2. UsablePages \subseteq Nat
    BY MapFacts DEF IInv, Base, TypeOK
  <2>3. NoneLost'
    BY <1>4, <2>1, <2>2 DEF EInv, NoneLost
  <2> QED BY <1>1, <1>4, <2>1, <2>3 DEF EInv, HeldTaken
<1>5. CASE LockPageZero
  <2> DEFINE S == {0}
  <2>1. S \subseteq Nat /\ \A p \in S : p < LowPages
    OBVIOUS
  <2> QED BY <1>4, <1>5, <2>1 DEF LockPageZero
<1>6. CASE LockBitmap
  <2> DEFINE S == BitmapPages
  <2>1. S \subseteq Nat
    BY PageSets DEF IInv
  <2> QED BY <1>4, <1>6, <2>1 DEF LockBitmap
<1>7. CASE LockLow
  <2> DEFINE S == PagesFrom(0, LowPages)
  <2>1. S \subseteq Nat /\ \A p \in S : p < LowPages
    BY PagesFromNat DEF PagesFrom
  <2> QED BY <1>4, <1>7, <2>1 DEF LockLow
<1>8. CASE LockReserved
  <2> DEFINE S == {p \in ReservedPages : p < totalPages}
  <2>1. S \subseteq Nat /\ \A p \in S : p \notin UsablePages
    BY MapFacts, ReservedApart DEF IInv, Base, TypeOK
  <2> QED BY <1>4, <1>8, <2>1 DEF LockReserved
<1>9. CASE AllocatePage
  <2>1. PICK p \in Free : used' = used \cup {p} /\ held' = held \cup {p}
    BY <1>9 DEF AllocatePage
  <2>2. Free' = Free \ {p} /\ UNCHANGED <<UsablePages, BitmapPages, Unkept>>
    BY <1>9, <2>1, SamePlace DEF AllocatePage, Free
  <2>3. NoneLost'
    BY <1>9, <2>1, <2>2 DEF EInv, NoneLost, AllocatePage
  <2> QED BY <1>1, <2>1, <2>2, <2>3 DEF EInv, HeldTaken
<1>10. CASE OutOfMemory \/ UNCHANGED vars
  <2>1. /\ UNCHANGED <<Free, UsablePages, BitmapPages, Unkept, held>>
        /\ phase' \in AfterFree => phase \in AfterFree
    BY <1>10, SamePlace DEF OutOfMemory, vars, Free
  <2> QED BY <1>1, <2>1 DEF EInv, NoneLost, HeldTaken
<1>11. CASE Rewrite
  <2>1. /\ UNCHANGED <<UsablePages, BitmapPages, Unkept, held, phase>>
        /\ \A p \in Nat \ Unkept : p \in Free' <=> p \in Free
        /\ UsablePages \subseteq Nat /\ Free' \subseteq Nat
    <3>1. UNCHANGED <<held, phase>>
      BY <1>11 DEF Rewrite
    <3>2. UsablePages \subseteq Nat
      BY PageSets DEF IInv
    <3> QED BY <1>11, <3>1, <3>2, RewriteLocal DEF Free
  <2> QED BY <1>1, <2>1 DEF EInv, NoneLost, HeldTaken
<1> QED BY <1>2, <1>3, <1>5, <1>6, <1>7, <1>8, <1>9, <1>10, <1>11 DEF Next, Boot

\* With a bitmap that covers every page and room for it, whatever the memory
\* map, the free pages and those handed out are exactly the usable pages Init
\* left: none leaks, and none is lost to the rounding of the locking loops.
THEOREM PoolExactHolds == Spec /\ []SelfLocked /\ []Roomy => []PoolExact
<1>1. Spec /\ []IInv => []EInv
  BY EInvInit, EInvStep, PTL DEF Spec
<1>2. IInv /\ EInv /\ Roomy => PoolExact
  <2> SUFFICES ASSUME IInv, EInv, Covered, Roomy, Started PROVE PoolExact
    BY DEF PoolExact
  <2>1. Whole
    BY RoomKeepsBits DEF IInv, Whole
  <2>2. /\ \A p \in Free : p \in UsablePages /\ p >= LowPages /\ p \notin BitmapPages
        /\ \A p \in held : p \in UsablePages /\ p >= LowPages /\ p \notin BitmapPages
    BY <2>1 DEF IInv, OnlyUsable, BitmapLocked, LowLocked, HeldChecked, AfterFree, AfterBitmap, AfterLow
  <2>3. \A p \in UsablePages : p >= LowPages /\ p \notin BitmapPages => p \in Free \cup held
    BY <2>1 DEF EInv, NoneLost, AfterFree, Whole
  <2>4. Free \cap held = {}
    BY <2>1 DEF EInv, HeldTaken, Whole
  <2> QED BY <2>2, <2>3, <2>4 DEF PoolExact
<1> QED BY <1>1, <1>2, Inductive, PTL
=============================================================================
