----------------------------- MODULE HeapProofs -----------------------------
(***************************************************************************)
(* Proofs about Heap for every page size, heap size, kernel_end and        *)
(* sequence of requests.                                                   *)
(***************************************************************************)
EXTENDS Heap, TLAPS

USE HeapAssumption

LEMMA DivBounds ==
    ASSUME NEW n \in Nat, NEW k \in Nat \ {0}
    PROVE  n \div k \in Nat /\ n < k * (n \div k) + k
BY Z3

\* Growing by the pages a request is rounded up to adds at least the request.
LEMMA PagesForCovers ==
    ASSUME NEW n \in Nat
    PROVE  PagesFor(n) \in Nat /\ n <= PageSize * PagesFor(n)
<1> DEFINE m == n + PageSize - 1
           q == m \div PageSize
<1>1. m \in Nat
  OBVIOUS
<1>2. q \in Nat /\ m < PageSize * q + PageSize
  BY <1>1, DivBounds
<1>3. PageSize * q \in Nat
  BY <1>2
<1>4. q = PagesFor(n)
  BY DEF PagesFor
<1> HIDE DEF q
<1> DEFINE r == PageSize * q
<1>5. r \in Nat /\ m < r + PageSize
  BY <1>2, <1>3
<1> HIDE DEF r
<1>6. n <= r
  BY <1>5
<1> QED BY <1>2, <1>4, <1>6 DEF r

\* One turn of the growth loop.
LEMMA OneTurn ==
    ASSUME NEW t \in Nat, t > 0
    PROVE  PageSize * t \in Nat /\ PageSize * (t - 1) \in Nat
           /\ PageSize * t = PageSize * (t - 1) + PageSize
OBVIOUS

\* AllocatePageAt keeps the types of what it changes.
LEMMA AllocateTypes ==
    ASSUME TypeOK, NEW addr \in Nat, AllocatePageAt(addr)
    PROVE  mapped' \subseteq Nat /\ frames' \in Nat
<1>1. PageOf(addr) \in Nat
  BY DivBounds DEF PageOf
<1>2. PICK tables \in TableFrames : /\ tables < frames
                                    /\ frames' = frames - tables - 1
                                    /\ mapped' = mapped \cup {PageOf(addr)}
  BY DEF AllocatePageAt
<1>3. tables \in Nat /\ frames \in Nat
  BY DEF TypeOK
<1>4. frames' \in Nat
  BY <1>2, <1>3
<1>5. mapped' \subseteq Nat
  BY <1>1, <1>2 DEF TypeOK
<1> QED BY <1>4, <1>5

-----------------------------------------------------------------------------
(* The inductive invariant: the pointers stay in order, a growth under way *)
(* will have made enough room when its loop ends, and every block lies     *)
(* below the pointer.                                                      *)

Pointers == pc \in {"ready", "growing"} => heapStart <= current /\ current <= heapEnd
RoomPromised == pc = "growing" => current + amount <= heapEnd + PageSize * togo
Booting == pc = "booting" => current = heapStart /\ heapStart <= last
NoBlocksYet == pc \in {"off", "booting"} => blocks = {}
BlocksBelow ==
    \A b \in blocks : /\ heapStart <= b.at
                      /\ b.at + b.size <= current
                      /\ b.at + b.size <= heapEnd

IInv == /\ TypeOK /\ Pointers /\ RoomPromised /\ Booting /\ NoBlocksYet
        /\ BlocksBelow /\ BlocksDisjoint

USE DEF pointers, loop, memory

\* A block cut off at the pointer is disjoint from those below it.
LEMMA BumpStep ==
    ASSUME IInv, NEW n \in Nat, Bump(n), current + n <= heapEnd,
           heapStart <= current, UNCHANGED <<heapStart, heapEnd>>
    PROVE  /\ current' \in Nat /\ blocks' \subseteq [at : Nat, size : Nat]
           /\ BlocksBelow' /\ BlocksDisjoint'
<1> DEFINE new == [at |-> current, size |-> n]
<1>1. blocks' = blocks \cup {new} /\ current' = current + n
  BY DEF Bump
<1>2. /\ current \in Nat /\ heapEnd \in Nat /\ heapStart \in Nat
      /\ blocks \subseteq [at : Nat, size : Nat]
  BY DEF IInv, TypeOK
<1>3. BlocksBelow'
  <2> SUFFICES ASSUME NEW b \in blocks'
               PROVE  heapStart <= b.at /\ b.at + b.size <= current + n
                      /\ b.at + b.size <= heapEnd
    BY <1>1 DEF BlocksBelow
  <2>1. CASE b = new
    BY <2>1, <1>2
  <2>2. CASE b \in blocks
    BY <2>2, <1>2 DEF IInv, BlocksBelow
  <2> QED BY <1>1, <2>1, <2>2
<1>4. BlocksDisjoint'
  <2> SUFFICES ASSUME NEW b \in blocks', NEW c \in blocks', b # c
               PROVE  Disjoint(b, c)
    BY DEF BlocksDisjoint, Disjoint
  <2>1. CASE b \in blocks /\ c \in blocks
    BY <2>1 DEF IInv, BlocksDisjoint
  <2>2. CASE b = new /\ c \in blocks
    BY <2>2, <1>2 DEF IInv, BlocksBelow, Disjoint
  <2>3. CASE c = new /\ b \in blocks
    BY <2>3, <1>2 DEF IInv, BlocksBelow, Disjoint
  <2> QED BY <1>1, <2>1, <2>2, <2>3
<1> QED BY <1>1, <1>2, <1>3, <1>4

LEMMA InitInv == Init => IInv
BY DEF Init, IInv, TypeOK, Pointers, RoomPromised, Booting, NoBlocksYet, BlocksBelow, BlocksDisjoint

LEMMA BootStep ==
    ASSUME IInv, Start \/ MapInitialPage \/ FinishInit \/ KmallocTooEarly
    PROVE  IInv'
<1> USE DEF IInv, Pointers, RoomPromised, Booting, NoBlocksYet, BlocksBelow, BlocksDisjoint
<1>1. CASE Start
  <2>1. InitialPages - 1 \in Nat
    OBVIOUS
  <2> QED BY <1>1, <2>1 DEF Start, TypeOK
<1>2. CASE MapInitialPage
  <2>1. mapped' \subseteq Nat /\ frames' \in Nat
    <3>1. last + PageSize \in Nat /\ AllocatePageAt(last + PageSize)
      BY <1>2 DEF MapInitialPage, TypeOK
    <3> QED BY <3>1, AllocateTypes
  <2> QED BY <1>2, <2>1 DEF MapInitialPage, TypeOK
<1>3. CASE FinishInit
  BY <1>3 DEF FinishInit, TypeOK
<1>4. CASE KmallocTooEarly
  BY <1>4 DEF KmallocTooEarly, TypeOK, Disjoint
<1> QED BY <1>1, <1>2, <1>3, <1>4

LEMMA KmallocFitsStep ==
    ASSUME IInv, NEW n \in Amounts, KmallocFits(n) PROVE IInv'
<1>1. n \in Nat
  OBVIOUS
<1>2. /\ Bump(n) /\ UNCHANGED <<heapStart, heapEnd>>
      /\ current + n <= heapEnd /\ heapStart <= current
  BY <1>1 DEF KmallocFits, IsOverflowingHeap, IInv, TypeOK, Pointers
<1>3. /\ current' \in Nat /\ blocks' \subseteq [at : Nat, size : Nat]
      /\ BlocksBelow' /\ BlocksDisjoint'
  BY <1>1, <1>2, BumpStep
<1>4. current' = current + n
  BY <1>2 DEF Bump
<1> QED BY <1>1, <1>2, <1>3, <1>4
        DEF KmallocFits, IInv, TypeOK, Pointers, RoomPromised, Booting, NoBlocksYet

LEMMA KmallocGrowsStep ==
    ASSUME IInv, NEW n \in Amounts, KmallocGrows(n) PROVE IInv'
<1>1. n \in Nat /\ PagesFor(n) \in Nat /\ n <= PageSize * PagesFor(n)
  BY PagesForCovers
<1>2. current \in Nat /\ heapEnd \in Nat /\ current <= heapEnd
  BY DEF KmallocGrows, IInv, TypeOK, Pointers
<1> DEFINE room == PageSize * PagesFor(n)
<1>3. room \in Nat /\ n <= room
  BY <1>1
<1> HIDE DEF room
<1>4. current + n <= heapEnd + room
  BY <1>1, <1>2, <1>3
<1>5. RoomPromised'
  BY <1>4 DEF KmallocGrows, RoomPromised, room
<1> QED BY <1>1, <1>5 DEF KmallocGrows, IInv, TypeOK, Pointers, Booting, NoBlocksYet, BlocksBelow,
           BlocksDisjoint, Disjoint

LEMMA GrowStep == ASSUME IInv, Grow PROVE IInv'
<1>1. heapEnd \in Nat /\ togo \in Nat /\ togo > 0 /\ amount \in Nat /\ current \in Nat
  BY DEF Grow, IInv, TypeOK
<1>2. mapped' \subseteq Nat /\ frames' \in Nat
  <2>1. heapEnd + PageSize \in Nat /\ AllocatePageAt(heapEnd + PageSize)
    BY <1>1 DEF Grow
  <2> QED BY <2>1, AllocateTypes DEF IInv
<1>3. RoomPromised'
  <2>1. /\ current' = current /\ amount' = amount
        /\ heapEnd' = heapEnd + PageSize /\ togo' = togo - 1
    BY DEF Grow
  <2> DEFINE before == PageSize * togo
             after == PageSize * (togo - 1)
  <2>2. before \in Nat /\ after \in Nat /\ before = after + PageSize
    BY <1>1, OneTurn
  <2>3. current + amount <= heapEnd + before
    BY DEF Grow, IInv, RoomPromised
  <2> HIDE DEF before, after
  <2>4. current + amount <= (heapEnd + PageSize) + after
    BY <1>1, <2>2, <2>3
  <2> QED BY <2>1, <2>4 DEF RoomPromised, after
<1>4. BlocksBelow'
  BY <1>1 DEF Grow, IInv, TypeOK, BlocksBelow
<1> QED BY <1>1, <1>2, <1>3, <1>4 DEF Grow, IInv, TypeOK, Pointers, Booting, NoBlocksYet,
           BlocksDisjoint, Disjoint

LEMMA KmallocReturnsStep == ASSUME IInv, KmallocReturns PROVE IInv'
<1>1. amount \in Nat /\ current \in Nat /\ heapEnd \in Nat /\ togo = 0
  BY DEF KmallocReturns, IInv, TypeOK
<1>2. current + amount <= heapEnd /\ heapStart <= current
  <2>1. PageSize * togo = 0
    BY <1>1
  <2> QED BY <1>1, <2>1 DEF KmallocReturns, IInv, RoomPromised, Pointers
<1>3. /\ current' \in Nat /\ blocks' \subseteq [at : Nat, size : Nat]
      /\ BlocksBelow' /\ BlocksDisjoint'
  BY <1>1, <1>2, BumpStep DEF KmallocReturns
<1>4. current' = current + amount
  BY DEF KmallocReturns, Bump
<1> QED BY <1>1, <1>2, <1>3, <1>4
        DEF KmallocReturns, IInv, TypeOK, Pointers, RoomPromised, Booting, NoBlocksYet

LEMMA OtherStep == ASSUME IInv, OutOfPages \/ UNCHANGED vars PROVE IInv'
<1>1. CASE OutOfPages
  <2>1. UNCHANGED <<pointers, togo, amount, mapped, blocks>>
        /\ pc' = "panicked" /\ frames' = 0
    BY <1>1 DEF OutOfPages
  <2>2. BlocksBelow' /\ BlocksDisjoint'
    BY <2>1 DEF IInv, BlocksBelow, BlocksDisjoint, Disjoint
  <2> QED BY <2>1, <2>2 DEF IInv, TypeOK, Pointers, RoomPromised, Booting, NoBlocksYet
<1>2. CASE UNCHANGED vars
  BY <1>2 DEF vars, IInv, TypeOK, Pointers, RoomPromised, Booting, NoBlocksYet, BlocksBelow,
              BlocksDisjoint, Disjoint
<1> QED BY <1>1, <1>2

LEMMA Inductive == Spec => []IInv
<1>1. IInv /\ [Next]_vars => IInv'
  BY BootStep, KmallocFitsStep, KmallocGrowsStep, GrowStep, KmallocReturnsStep, OtherStep
     DEF Next, Kmalloc
<1> QED BY InitInv, <1>1, PTL DEF Spec

-----------------------------------------------------------------------------
(* The theorems.                                                           *)

\* Every variable keeps its type: no count of pages or frames ever wraps
\* below zero.
THEOREM TypeCorrect == Spec => []TypeOK
BY Inductive, PTL DEF IInv

\* Whatever is asked for, in any order, no two blocks share a byte.
THEOREM BlocksDisjointHolds == Spec => []BlocksDisjoint
BY Inductive, PTL DEF IInv

\* Whatever is asked for, the growth of the heap makes room for it.
THEOREM BlocksInHeapHolds == Spec => []BlocksInHeap
<1>1. IInv => BlocksInHeap
  BY DEF IInv, BlocksBelow, BlocksInHeap
<1> QED BY <1>1, Inductive, PTL
-----------------------------------------------------------------------------
(* The hole of the first growth.                                           *)

LEMMA DivQuotient ==
    ASSUME NEW n \in Nat, NEW k \in Nat \ {0}
    PROVE  /\ n \div k \in Nat /\ k * (n \div k) \in Nat
           /\ k * (n \div k) <= n /\ n < k * (n \div k) + k
BY Z3

\* A smaller quotient is a multiple further down.
LEMMA TimesStrict ==
    ASSUME NEW a \in Nat, NEW b \in Nat, NEW k \in Nat \ {0}, a < b
    PROVE  k * a \in Nat /\ k * b \in Nat /\ k * a + k <= k * b
<1>1. PICK d \in Nat : b = a + 1 + d
  <2>1. b - a - 1 \in Nat /\ b = a + 1 + (b - a - 1)
    OBVIOUS
  <2> QED BY <2>1
<1>2. k * b = k * a + k + k * d /\ k * d \in Nat /\ k * a \in Nat
  BY <1>1
<1> QED BY <1>2

LEMMA PageMonotone ==
    ASSUME NEW a \in Nat, NEW b \in Nat, a <= b
    PROVE  PageOf(a) \in Nat /\ PageOf(b) \in Nat /\ PageOf(a) <= PageOf(b)
<1> DEFINE p == a \div PageSize
           q == b \div PageSize
<1>1. p \in Nat /\ PageSize * p \in Nat /\ PageSize * p <= a
  BY DivQuotient
<1>2. q \in Nat /\ PageSize * q \in Nat /\ b < PageSize * q + PageSize
  BY DivQuotient
<1>3. p = PageOf(a) /\ q = PageOf(b)
  BY DEF PageOf
<1> HIDE DEF p, q
<1>4. q < p => PageSize * q + PageSize <= PageSize * p
  BY <1>1, <1>2, TimesStrict
<1> DEFINE m == PageSize * p
           n == PageSize * q
<1>5. m \in Nat /\ n \in Nat /\ m <= a /\ b < n + PageSize /\ (q < p => n + PageSize <= m)
  BY <1>1, <1>2, <1>4
<1> HIDE DEF m, n
<1>6. p <= q
  BY <1>1, <1>2, <1>5
<1> QED BY <1>1, <1>2, <1>3, <1>6

LEMMA NextPage ==
    ASSUME NEW a \in Nat
    PROVE  PageOf(a + PageSize) = PageOf(a) + 1
<1> DEFINE b == a + PageSize
           p == a \div PageSize
           q == b \div PageSize
<1>1. b \in Nat
  OBVIOUS
<1>2. p \in Nat /\ PageSize * p \in Nat /\ PageSize * p <= a /\ a < PageSize * p + PageSize
  BY DivQuotient
<1>3. q \in Nat /\ PageSize * q \in Nat /\ PageSize * q <= b /\ b < PageSize * q + PageSize
  BY <1>1, DivQuotient
<1>4. PageOf(a + PageSize) = q /\ PageOf(a) = p
  BY DEF PageOf
<1> HIDE DEF p, q
<1>5. PageSize * (p + 1) = PageSize * p + PageSize /\ p + 1 \in Nat
  BY <1>2
<1> DEFINE m == PageSize * p
           n == PageSize * q
<1>6. q < p + 1 => n + PageSize <= m + PageSize
  BY <1>2, <1>3, <1>5, TimesStrict
<1>7. p + 1 < q => m + PageSize + PageSize <= n
  BY <1>2, <1>3, <1>5, TimesStrict
<1>8. /\ m \in Nat /\ n \in Nat /\ m <= a /\ a < m + PageSize
      /\ n <= a + PageSize /\ a + PageSize < n + PageSize
  BY <1>2, <1>3
<1> HIDE DEF m, n
<1>9. q = p + 1
  BY <1>2, <1>3, <1>6, <1>7, <1>8
<1> QED BY <1>4, <1>9

\* Every page of the initial heap but its first is mapped, and every page of
\* the growths but the one after the initial heap.
MappedInitially ==
    \A p \in Nat : PageOf(heapStart) < p /\ p <= PageOf(last) => p \in mapped
MappedByGrowth ==
    \A p \in Nat : PageOf(last) + 1 < p /\ p <= PageOf(heapEnd) => p \in mapped
HInv ==
    /\ heapStart \in Nat /\ last \in Nat /\ heapEnd \in Nat
    /\ pc = "off" => heapEnd = 0
    /\ MappedInitially /\ MappedByGrowth

LEMMA PageZero == PageOf(0) = 0
<1>1. \A k \in Nat \ {0} : 0 \div k = 0
  BY Z3
<1> QED BY <1>1 DEF PageOf

LEMMA HInvInit == Init => HInv
BY PageZero DEF Init, HInv, MappedInitially, MappedByGrowth

\* AllocatePageAt adds its page and takes none away.
LEMMA AllocateAdds ==
    ASSUME NEW addr \in Nat, AllocatePageAt(addr)
    PROVE  mapped' = mapped \cup {PageOf(addr)}
BY DEF AllocatePageAt

LEMMA HInvStep == ASSUME HInv, [Next]_vars PROVE HInv'
<1> USE DEF HInv, MappedInitially, MappedByGrowth
<1>1. \A a \in Nat : PageOf(a) \in Nat
  BY PageMonotone
<1>2. CASE Start
  <2>1. /\ heapStart' \in Nat /\ last' = heapStart' /\ heapEnd' = 0 /\ pc' # "off"
    BY <1>2 DEF Start
  <2>2. PageOf(last') \in Nat /\ PageOf(heapStart') = PageOf(last') /\ PageOf(heapEnd') = 0
    BY <1>1, <2>1, PageZero
  <2>3. PageOf(last)' \in Nat /\ PageOf(heapStart)' = PageOf(last)' /\ PageOf(heapEnd)' = 0
    BY <2>2 DEF PageOf
  <2>4. MappedInitially' /\ MappedByGrowth'
    BY <2>3
  <2> QED BY <2>1, <2>4
<1>3. CASE MapInitialPage
  <2>1. last' = last + PageSize /\ last' \in Nat /\ PageOf(last') = PageOf(last) + 1
    BY <1>3, NextPage DEF MapInitialPage
  <2>2. mapped' = mapped \cup {PageOf(last')}
    BY <1>3, <2>1, AllocateAdds DEF MapInitialPage
  <2>3. UNCHANGED <<heapStart, heapEnd, pc>>
    BY <1>3 DEF MapInitialPage
  <2> QED BY <1>1, <2>1, <2>2, <2>3 DEF PageOf
<1>4. CASE FinishInit
  <2>1. heapEnd' = last + PageSize /\ heapEnd' \in Nat /\ PageOf(heapEnd') = PageOf(last) + 1
    BY <1>4, NextPage DEF FinishInit
  <2> QED BY <1>1, <1>4, <2>1 DEF FinishInit, PageOf
<1>5. CASE Grow
  <2>1. heapEnd' = heapEnd + PageSize /\ heapEnd' \in Nat /\ PageOf(heapEnd') = PageOf(heapEnd) + 1
    BY <1>5, NextPage DEF Grow
  <2>2. mapped' = mapped \cup {PageOf(heapEnd')}
    BY <1>5, <2>1, AllocateAdds DEF Grow
  <2>3. UNCHANGED <<heapStart, last, pc>>
    BY <1>5 DEF Grow
  <2>4. pc # "off"
    BY <1>5 DEF Grow
  <2> QED BY <1>1, <2>1, <2>2, <2>3, <2>4 DEF PageOf
<1>6. CASE \/ KmallocTooEarly \/ KmallocReturns \/ OutOfPages \/ UNCHANGED vars
           \/ \E n \in Amounts : Kmalloc(n)
  <2>1. UNCHANGED <<heapStart, heapEnd, last, mapped>> /\ (pc' = "off" => pc = "off")
    BY <1>6 DEF KmallocTooEarly, KmallocReturns, OutOfPages, vars, Kmalloc, KmallocFits, KmallocGrows
  <2> QED BY <2>1 DEF PageOf
<1> QED BY <1>2, <1>3, <1>4, <1>5, <1>6 DEF Next

\* A byte of a block lies on a page mapped for the heap, on kernel_end's page,
\* or on the one page the first growth steps over: no other page of the heap
\* is unmapped, whatever is asked for (alloc.cpp:63-66).
THEOREM OnlyOneHole == Spec => []HoleIsOnePage
<1>1. Spec => []HInv
  BY HInvInit, HInvStep, PTL DEF Spec
<1>2. ASSUME IInv, HInv PROVE HoleIsOnePage
  <2> SUFFICES ASSUME NEW b \in blocks, NEW a \in Bytes(b)
               PROVE  PageOf(a) \in mapped \cup {PageOf(heapStart), PageOf(last) + 1}
    BY DEF HoleIsOnePage
  <2>1. b.at \in Nat /\ b.size \in Nat /\ heapStart <= b.at /\ b.at + b.size <= heapEnd
    BY <1>2 DEF IInv, TypeOK, BlocksBelow
  <2>2. heapStart \in Nat /\ heapEnd \in Nat /\ last \in Nat
    BY <1>2 DEF HInv
  <2>3. a \in Nat /\ heapStart <= a /\ a <= heapEnd
    BY <2>1, <2>2 DEF Bytes
  <2>4. /\ PageOf(a) \in Nat /\ PageOf(heapStart) \in Nat /\ PageOf(heapEnd) \in Nat
        /\ PageOf(heapStart) <= PageOf(a) /\ PageOf(a) <= PageOf(heapEnd)
    BY <2>2, <2>3, PageMonotone
  <2>5. PageOf(last) \in Nat
    BY <2>2, PageMonotone
  <2>6. \/ PageOf(a) = PageOf(heapStart) \/ PageOf(a) = PageOf(last) + 1
        \/ PageOf(heapStart) < PageOf(a) /\ PageOf(a) <= PageOf(last)
        \/ PageOf(last) + 1 < PageOf(a) /\ PageOf(a) <= PageOf(heapEnd)
    BY <2>4, <2>5
  <2> QED BY <1>2, <2>4, <2>6 DEF HInv, MappedInitially, MappedByGrowth
<1> QED BY <1>1, <1>2, Inductive, PTL
=============================================================================
