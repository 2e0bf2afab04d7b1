------------------------- MODULE AddressSpaceProofs -------------------------
(***************************************************************************)
(* Proofs about AddressSpace for every number of levels and of entries,    *)
(* every set of frames, and every set of tables the boot loader may leave. *)
(***************************************************************************)
EXTENDS AddressSpace, FiniteSetTheorems, WellFoundedInduction, TLAPS

USE LevelAssumption

-----------------------------------------------------------------------------
(* What the two functions defined by recursion on the level compute.       *)

\* A set of numbers has a least one.
LEMMA LeastElement ==
    ASSUME NEW T \in SUBSET Nat, NEW n \in T
    PROVE  \E x \in T : \A y \in T : x <= y
<1> DEFINE S == 1..n
           R == StrictSubsetOrdering(S)
           U == {1..k : k \in {j \in T : j <= n}}
<1>1. IsFiniteSet(S)
  BY FS_Interval
<1>2. IsWellFoundedOn(R, SUBSET S)
  <2> HIDE DEF S
  <2>1. FiniteSubsetsOf(S) = SUBSET S
    BY <1>1, FS_FiniteSubsetsOfFinite
  <2>2. IsWellFoundedOn(R, FiniteSubsetsOf(S))
    BY FS_StrictSubsetOrderingWellFounded, Zenon
  <2> HIDE DEF R
  <2> QED BY <2>1, <2>2, Zenon
<1>3. U \subseteq SUBSET S /\ U # {}
  OBVIOUS
<1>4. PICK x \in U : \A y \in U : ~(<<y, x>> \in R)
  <2> HIDE DEF R, U, S
  <2> QED BY <1>2, <1>3, WFMin
<1>5. PICK k \in T : k <= n /\ x = 1..k
  BY <1>4
<1>6. ASSUME NEW j \in T, j < k PROVE FALSE
  <2>1. 1..j \in U
    BY <1>6, <1>5
  <2>2. 1..j \subseteq 1..k /\ 1..j # 1..k /\ 1..k \subseteq S
    BY <1>6, <1>5
  <2>3. <<1..j, x>> \in R
    BY <2>2, <1>5 DEF StrictSubsetOrdering
  <2> QED BY <2>1, <2>3, <1>4
<1> QED BY <1>5, <1>6

\* The entries met on a walk of k steps through the memory m.
Walk(g, m, root, p, k) ==
    g = [n \in 0..k |->
           IF n = 0 THEN root
           ELSE IF g[n - 1] \in {Absent, Garbage} THEN g[n - 1]
           ELSE m[g[n - 1]][p[n]]]

LEMMA WalkExists ==
    ASSUME NEW m, NEW root, NEW p, NEW k \in Nat
    PROVE  \E g : Walk(g, m, root, p, k)
<1> DEFINE T == {j \in Nat : ~ \E g : Walk(g, m, root, p, j)}
<1> SUFFICES ASSUME NEW t \in T PROVE FALSE
  OBVIOUS
<1>1. PICK j \in T : \A i \in T : j <= i
  <2>1. T \in SUBSET Nat
    OBVIOUS
  <2> HIDE DEF T
  <2> QED BY <2>1, LeastElement, Zenon
<1>2. CASE j = 0
  <2> DEFINE g == [n \in 0..0 |-> root]
  <2>1. Walk(g, m, root, p, 0)
    BY DEF Walk
  <2> QED BY <1>1, <1>2, <2>1
<1>3. CASE j > 0
  <2>1. j - 1 \in Nat /\ j - 1 \notin T
    BY <1>1, <1>3
  <2>2. PICK h : Walk(h, m, root, p, j - 1)
    BY <2>1
  <2> DEFINE last == IF h[j - 1] \in {Absent, Garbage} THEN h[j - 1]
                     ELSE m[h[j - 1]][p[j]]
             g == [n \in 0..j |-> IF n = j THEN last ELSE h[n]]
  <2>3. Walk(g, m, root, p, j)
    <3>1. \A n \in 0..j : n # 0 => n - 1 \in 0..(j - 1) /\ n - 1 # j
      BY <1>3, <2>1
    <3>2. \A n \in 0..(j - 1) :
            h[n] = IF n = 0 THEN root
                   ELSE IF h[n - 1] \in {Absent, Garbage} THEN h[n - 1]
                   ELSE m[h[n - 1]][p[n]]
      BY <2>2 DEF Walk
    <3>3. ASSUME NEW n \in 0..j
          PROVE  g[n] = IF n = 0 THEN root
                        ELSE IF g[n - 1] \in {Absent, Garbage} THEN g[n - 1]
                        ELSE m[g[n - 1]][p[n]]
      <4>1. CASE n = 0
        <5>1. 0 \in 0..(j - 1) /\ 0 # j
          BY <1>3, <2>1
        <5>2. g[0] = h[0] /\ h[0] = root
          BY <5>1, <3>2, <1>3
        <5> QED BY <4>1, <5>2
      <4>2. CASE n # 0
        <5>1. g[n - 1] = h[n - 1]
          BY <4>2, <3>1
        <5>2. CASE n = j
          BY <5>1, <5>2, <4>2
        <5>3. CASE n # j
          BY <5>1, <5>3, <4>2, <3>2
        <5> QED BY <5>2, <5>3
      <4> QED BY <4>1, <4>2
    <3> HIDE DEF last
    <3>4. DOMAIN g = 0..j /\ g = [n \in 0..j |-> g[n]]
      OBVIOUS
    <3> QED BY <3>3, <3>4 DEF Walk
  <2> QED BY <1>1, <2>3
<1> QED BY <1>1, <1>2, <1>3

LEMMA TranslateIsWalk ==
    ASSUME NEW m, NEW root, NEW p
    PROVE  \E g : Walk(g, m, root, p, Levels) /\ Translate(m, root, p) = g[Levels]
<1>1. \E g : Walk(g, m, root, p, Levels)
  BY WalkExists
<1> QED BY <1>1 DEF Translate, Walk

\* The tables of each level below a set of roots.
Layers(g, roots, k) ==
    g = [n \in 1..k |->
           IF n = 1 THEN roots ELSE NamedBy(g[n - 1])]

LEMMA LayersExist ==
    ASSUME NEW roots, NEW k \in Nat
    PROVE  \E g : Layers(g, roots, k)
<1> DEFINE T == {j \in Nat : ~ \E g : Layers(g, roots, j)}
<1> SUFFICES ASSUME NEW t \in T PROVE FALSE
  OBVIOUS
<1>1. PICK j \in T : \A i \in T : j <= i
  <2>1. T \in SUBSET Nat
    OBVIOUS
  <2> HIDE DEF T
  <2> QED BY <2>1, LeastElement, Zenon
<1>2. CASE j = 0
  <2> DEFINE g == [n \in 1..0 |-> roots]
  <2>1. Layers(g, roots, 0)
    BY DEF Layers
  <2> QED BY <1>1, <1>2, <2>1
<1>3. CASE j > 0
  <2>1. j - 1 \in Nat /\ j - 1 \notin T
    <3>1. j \in Nat
      BY <1>1
    <3>2. j - 1 \in Nat /\ ~(j <= j - 1)
      BY <3>1, <1>3
    <3> HIDE DEF T
    <3> QED BY <1>1, <3>2
  <2>2. PICK h : Layers(h, roots, j - 1)
    BY <2>1
  <2> DEFINE last == IF j = 1 THEN roots ELSE NamedBy(h[j - 1])
             g == [n \in 1..j |-> IF n = j THEN last ELSE h[n]]
  <2>3. Layers(g, roots, j)
    <3>1. \A n \in 1..j : n # 1 => n - 1 \in 1..(j - 1) /\ n - 1 # j
      BY <1>3, <2>1
    <3>2. \A n \in 1..(j - 1) :
            h[n] = IF n = 1 THEN roots ELSE NamedBy(h[n - 1])
      BY <2>2 DEF Layers
    <3>3. ASSUME NEW n \in 1..j
          PROVE  g[n] = IF n = 1 THEN roots ELSE NamedBy(g[n - 1])
      <4>1. CASE n = 1
        BY <4>1, <3>2
      <4>2. CASE n # 1
        <5>1. g[n - 1] = h[n - 1]
          BY <4>2, <3>1
        <5>2. CASE n = j
          BY <5>1, <5>2, <4>2
        <5>3. CASE n # j
          BY <5>1, <5>3, <4>2, <3>2
        <5> QED BY <5>2, <5>3
      <4> QED BY <4>1, <4>2
    <3> HIDE DEF last
    <3>4. g = [n \in 1..j |-> g[n]]
      OBVIOUS
    <3> QED BY <3>3, <3>4 DEF Layers
  <2> QED BY <1>1, <2>3
<1> QED BY <1>1, <1>2, <1>3

LEMMA TablesAreLayers == Layers(TablesOfLevel, Roots, Levels)
<1>1. \E g : Layers(g, Roots, Levels)
  BY LayersExist
<1> QED BY <1>1 DEF TablesOfLevel, Layers

-----------------------------------------------------------------------------
(* The inductive invariant.  d gives the frames in use as tables their     *)
(* level, and every other frame 0.                                         *)

Starting == pc \in {"rootzero", "clone", "cr3"}
Walking == pc \in {"walk", "zero", "link"}
Pending == Starting \/ pc \in {"zero", "link"}
Depths == [Frame -> 0..Levels]

Typed ==
    /\ TypeOK
    /\ pc = "root" \/ Starting => cr3 = LimineRoot /\ mem[LimineRoot] = LimineMem[LimineRoot]
    /\ pc = "want" \/ Walking => path \in Wanted
    /\ pc \in {"zero", "link"} => level < Levels

\* Tables are written all over, and name tables of the level below.
Layered(d) ==
    /\ d[cr3] = 1 /\ d[LimineRoot] = 1
    /\ \A t \in Frame, i \in Index : d[t] > 0 => mem[t][i] # Garbage
    /\ \A t \in Frame, i \in Index :
         0 < d[t] /\ d[t] < Levels /\ mem[t][i] # Absent => d[mem[t][i]] = d[t] + 1
    /\ Walking => d[table] = level

\* The frame just allocated is not a table before it is linked.
Unlinked(d) ==
    /\ \A f \in pool : d[f] = 0
    /\ Pending => fresh \in Pool /\ fresh \notin pool /\ d[fresh] = 0
    /\ pc \in {"clone", "link"} => mem[fresh] = Empty
    /\ pc = "cr3" => \A i \in Index : mem[fresh][i] \in {Absent, mem[LimineRoot][i]}

\* No frame of the PMM is named twice, or while it is free or pending.
Private(d) ==
    /\ \A t, u \in Frame, i, j \in Index :
         d[t] > 0 /\ d[u] > 0 /\ mem[t][i] \in Pool /\ mem[t][i] = mem[u][j] => t = u /\ i = j
    /\ \A t \in Frame, i \in Index : d[t] > 0 => mem[t][i] \notin pool
    /\ Pending => \A t \in Frame, i \in Index : d[t] > 0 => mem[t][i] # fresh
    /\ Walking /\ target \in Pool =>
         target \notin pool /\ \A t \in Frame, i \in Index : d[t] > 0 => mem[t][i] # target
    /\ pc \in {"zero", "link"} => target # fresh

\* No table is linked twice, but for those that both roots share.
LinkedOnce(d) ==
    \A t, u \in Frame, i, j \in Index :
       /\ 0 < d[t] /\ d[t] < Levels /\ 0 < d[u] /\ d[u] < Levels
       /\ mem[t][i] # Absent /\ mem[t][i] = mem[u][j]
       => i = j /\ (t = u \/ (t \in Roots /\ u \in Roots))

\* The boot loader's root is never written; ours has its upper half, and
\* nothing else of it.
Halves ==
    /\ mem[LimineRoot] = LimineMem[LimineRoot]
    /\ cr3 # LimineRoot =>
         \A i \in Index :
            mem[LimineRoot][i] # Absent => (mem[cr3][i] = mem[LimineRoot][i] <=> i \in Upper)
    /\ pc = "cr3" =>
         \A i \in Index : mem[fresh][i] = IF i \in Upper THEN mem[LimineRoot][i] ELSE Absent

\* MapPage runs on our root, starts there, and links a table where none is.
Course ==
    /\ pc \in {"idle", "want"} \/ Walking => cr3 # LimineRoot
    /\ Walking /\ level = 1 => table = cr3
    /\ pc \in {"zero", "link"} => mem[table][path[level]] = Absent

Tree(d) == LinkedOnce(d) /\ Halves /\ Course

Inv(d) == d \in Depths /\ Layered(d) /\ Unlinked(d) /\ Private(d) /\ Tree(d)
IInv == Typed /\ \E d \in Depths : Inv(d)

LEMMA FrameFacts ==
    /\ Pool \subseteq Frame /\ Device \subseteq Frame /\ Known \subseteq Frame
    /\ Absent \notin Frame /\ Garbage \notin Frame /\ Absent # Garbage
    /\ LimineRoot \in Known /\ LimineRoot \notin Pool
    /\ \A p \in Path, n \in 1..Levels : p[n] \in Index
    /\ Wanted \subseteq Path
<1> USE TableAssumption, MarkAssumption
<1>1. \A t \in Known, i \in Index : LimineMem[t][i] \in Entry \ {Garbage}
  BY DEF Known
<1>2. Garbage \notin Linked /\ Absent \notin Linked
  BY <1>1 DEF Linked
<1> QED BY <1>2 DEF Frame, Path

LEMMA PoolFacts ==
    Pool \cap Device = {} /\ \A i \in Index : LimineMem[LimineRoot][i] \notin Pool
BY TableAssumption

LEMMA TypeInit == Init => Typed
<1> USE TableAssumption
<1> SUFFICES ASSUME Init PROVE Typed
  OBVIOUS
<1>1. mem \in [Frame -> [Index -> Entry]]
  BY FrameFacts DEF Init, Entry
<1>2. level \in 1..Levels
  BY DEF Init
<1> QED BY <1>1, <1>2, FrameFacts DEF Init, Typed, TypeOK, Phase, Starting, Walking

LEMMA InvInit == Init => IInv
<1> USE TableAssumption, LayerAssumption
<1> SUFFICES ASSUME Init PROVE IInv
  OBVIOUS
<1> DEFINE d == [f \in Frame |-> IF f \in Known THEN LimineLevel[f] ELSE 0]
<1>1. d \in Depths
  BY FrameFacts DEF Depths
<1>2. \A t \in Frame : d[t] > 0 => t \in Known /\ d[t] = LimineLevel[t] /\ mem[t] = LimineMem[t]
  BY DEF Init
<1>3. \A t \in Known : d[t] = LimineLevel[t] /\ LimineLevel[t] \in 1..Levels
  BY FrameFacts
<1>4. \A t \in Known, i \in Index : LimineMem[t][i] # Garbage
  BY DEF Known
<1>5. \A f \in Pool : d[f] = 0
  BY FrameFacts DEF Known
<1> HIDE DEF d
<1>6. Layered(d)
  <2>1. d[cr3] = 1 /\ d[LimineRoot] = 1
    BY <1>3, FrameFacts DEF Init
  <2>2. \A t \in Frame, i \in Index :
          0 < d[t] /\ d[t] < Levels /\ mem[t][i] # Absent => d[mem[t][i]] = d[t] + 1
    BY <1>2, <1>3
  <2> QED BY <1>2, <1>4, <2>1, <2>2 DEF Layered, Init, Walking
<1>7. Unlinked(d)
  BY <1>5 DEF Unlinked, Init, Pending, Starting
<1>8. Private(d)
  BY <1>2 DEF Private, Init, Pending, Starting, Walking
<1>9. Tree(d)
  <2>1. LinkedOnce(d)
    BY <1>2, TreeAssumption DEF LinkedOnce
  <2> QED BY <2>1, FrameFacts DEF Tree, Halves, Course, Init, Walking
<1> QED BY <1>1, <1>6, <1>7, <1>8, <1>9, TypeInit DEF IInv, Inv

-----------------------------------------------------------------------------
(* Every action keeps it.                                                  *)

LEMMA PutTable ==
    ASSUME TypeOK, NEW f \in Frame, NEW v \in [Index -> Entry], mem' = [mem EXCEPT ![f] = v]
    PROVE  /\ mem' \in [Frame -> [Index -> Entry]] /\ mem'[f] = v
           /\ \A g \in Frame : g # f => mem'[g] = mem[g]
BY DEF TypeOK

LEMMA TakeFacts ==
    ASSUME TypeOK, \E f \in pool : Take(f)
    PROVE  /\ fresh' \in pool /\ pool' = pool \ {fresh'}
           /\ fresh' \in Pool /\ fresh' \in Frame /\ pool' \subseteq Pool
BY FrameFacts DEF Take, TypeOK

LEMMA AllocateRootStep ==
    ASSUME NEW d \in Depths, Typed, Inv(d), AllocateRoot PROVE IInv'
<1> USE DEF Starting, Walking, Pending, Inv, call
<1>0. /\ fresh' \in pool /\ pool' = pool \ {fresh'}
      /\ fresh' \in Pool /\ fresh' \in Frame /\ pool' \subseteq Pool
  BY TakeFacts DEF AllocateRoot, Typed
<1>1. Typed'
  BY <1>0, FrameFacts DEF Typed, TypeOK, Phase, AllocateRoot
<1>2. Layered(d)'
  BY <1>0, FrameFacts DEF Typed, TypeOK, Layered, Unlinked, AllocateRoot
<1>3. Unlinked(d)'
  BY <1>0, FrameFacts DEF Typed, TypeOK, Unlinked, Layered, AllocateRoot
<1>4. Private(d)'
  BY <1>0, FrameFacts DEF Typed, TypeOK, Private, Unlinked, Layered, AllocateRoot
<1>6. Tree(d)'
  <2>1. LinkedOnce(d)'
    BY DEF Tree, LinkedOnce, Roots, AllocateRoot
  <2>2. Halves' /\ Course'
    BY <1>0, FrameFacts DEF Tree, Halves, Course, Typed, TypeOK, Layered, AllocateRoot
  <2> QED BY <2>1, <2>2 DEF Tree
<1> QED BY <1>1, <1>2, <1>3, <1>4, <1>6 DEF IInv

LEMMA ZeroRootStep ==
    ASSUME NEW d \in Depths, Typed, Inv(d), ZeroRoot PROVE IInv'
<1> USE DEF Starting, Walking, Pending, Inv, call
<1>5. /\ mem' \in [Frame -> [Index -> Entry]] /\ \A i \in Index : mem'[fresh][i] = Absent
      /\ mem'[fresh] = Empty /\ \A g \in Frame : g # fresh => mem'[g] = mem[g]
  <2>1. Empty \in [Index -> Entry] /\ \A i \in Index : Empty[i] = Absent
    BY DEF Empty, Entry
  <2> QED BY <2>1, PutTable, FrameFacts DEF ZeroRoot, Typed, TypeOK
<1>1. Typed'
  BY <1>5, FrameFacts DEF Typed, TypeOK, Phase, Unlinked, ZeroRoot
<1>2. Layered(d)'
  BY <1>5, FrameFacts DEF Typed, TypeOK, Layered, Unlinked, ZeroRoot
<1>3. Unlinked(d)'
  BY <1>5, FrameFacts DEF Typed, TypeOK, Unlinked, Layered, ZeroRoot
<1>4. Private(d)'
  BY <1>5, FrameFacts DEF Typed, TypeOK, Private, Unlinked, Layered, ZeroRoot
<1>6. Tree(d)'
  <2>1. LinkedOnce(d)'
    BY <1>5, FrameFacts DEF Tree, LinkedOnce, Roots, Layered, Unlinked, Typed, TypeOK, ZeroRoot
  <2>2. Halves'
    BY <1>5, FrameFacts DEF Tree, Halves, Course, Typed, TypeOK, Layered, Unlinked, ZeroRoot
  <2>3. Course'
    BY <1>5, FrameFacts DEF Tree, Halves, Course, Typed, TypeOK, Layered, Unlinked, ZeroRoot
  <2> QED BY <2>1, <2>2, <2>3 DEF Tree
<1> QED BY <1>1, <1>2, <1>3, <1>4, <1>6 DEF IInv

LEMMA CloneUpperStep ==
    ASSUME NEW d \in Depths, Typed, Inv(d), CloneUpper PROVE IInv'
<1> USE DEF Starting, Walking, Pending, Inv, call
<1>5. /\ mem' \in [Frame -> [Index -> Entry]]
      /\ \A i \in Index :
           mem'[fresh][i] = IF i \in Upper THEN mem[LimineRoot][i] ELSE Absent
      /\ \A g \in Frame : g # fresh => mem'[g] = mem[g]
  <2> DEFINE v == [i \in Index |-> IF i \in Upper THEN mem[cr3][i] ELSE mem[fresh][i]]
  <2>1. v \in [Index -> Entry]
    BY DEF Typed, TypeOK
  <2>2. \A i \in Index : v[i] = IF i \in Upper THEN mem[LimineRoot][i] ELSE Absent
    BY DEF Typed, Unlinked, CloneUpper, Empty
  <2> QED BY <2>1, <2>2, PutTable DEF CloneUpper, Typed, TypeOK
<1>1. Typed'
  BY <1>5, FrameFacts DEF Typed, TypeOK, Phase, Layered, Entry, CloneUpper
<1>2. Layered(d)'
  BY <1>5, FrameFacts DEF Typed, TypeOK, Layered, Unlinked, CloneUpper
<1>3. Unlinked(d)'
  BY <1>5, FrameFacts DEF Typed, TypeOK, Unlinked, Layered, CloneUpper
<1>4. Private(d)'
  BY <1>5, FrameFacts DEF Typed, TypeOK, Private, Unlinked, Layered, CloneUpper
<1>6. Tree(d)'
  <2>1. LinkedOnce(d)'
    BY <1>5, FrameFacts DEF Tree, LinkedOnce, Roots, Layered, Unlinked, Typed, TypeOK, CloneUpper
  <2>2. Halves'
    BY <1>5, FrameFacts DEF Tree, Halves, Course, Typed, TypeOK, Layered, Unlinked, CloneUpper
  <2>3. Course'
    BY <1>5, FrameFacts DEF Tree, Halves, Course, Typed, TypeOK, Layered, Unlinked, CloneUpper
  <2> QED BY <2>1, <2>2, <2>3 DEF Tree
<1> QED BY <1>1, <1>2, <1>3, <1>4, <1>6 DEF IInv

LEMMA PanicOutStep ==
    ASSUME NEW d \in Depths, Typed, Inv(d), PanicOut PROVE IInv'
<1> USE DEF Starting, Walking, Pending, Inv, call
<1>1. Typed'
  BY FrameFacts DEF Typed, TypeOK, Phase, PanicOut
<1>2. Layered(d)'
  BY FrameFacts DEF Typed, TypeOK, Layered, Unlinked, PanicOut
<1>3. Unlinked(d)'
  BY FrameFacts DEF Typed, TypeOK, Unlinked, Layered, PanicOut
<1>4. Private(d)'
  BY FrameFacts DEF Typed, TypeOK, Private, Unlinked, Layered, PanicOut
<1>6. Tree(d)'
  <2>1. LinkedOnce(d)'
    BY DEF Tree, LinkedOnce, Roots, PanicOut
  <2>2. Halves' /\ Course'
    BY FrameFacts DEF Tree, Halves, Course, Typed, TypeOK, Layered, PanicOut
  <2> QED BY <2>1, <2>2 DEF Tree
<1> QED BY <1>1, <1>2, <1>3, <1>4, <1>6 DEF IInv

LEMMA GetFrameStep ==
    ASSUME NEW d \in Depths, Typed, Inv(d), GetFrame PROVE IInv'
<1> USE DEF Starting, Walking, Pending, Inv, call
<1>1. Typed'
  <2>1. PICK f \in pool : Take(f) /\ target' = f
    BY DEF GetFrame
  <2>2. pool' \subseteq pool /\ f \in Frame /\ fresh' = f
    BY <2>1, FrameFacts DEF Take, Typed, TypeOK
  <2>3. 1 \in 1..Levels
    OBVIOUS
  <2> QED BY <2>1, <2>2, <2>3, FrameFacts DEF Typed, TypeOK, Phase, GetFrame
<1>2. Layered(d)'
  BY FrameFacts DEF Typed, TypeOK, Layered, Unlinked, GetFrame, Take
<1>3. Unlinked(d)'
  BY FrameFacts DEF Typed, TypeOK, Unlinked, Layered, GetFrame, Take
<1>4. Private(d)'
  BY FrameFacts DEF Typed, TypeOK, Private, Unlinked, Layered, GetFrame, Take
<1>6. Tree(d)'
  <2>1. LinkedOnce(d)'
    BY DEF Tree, LinkedOnce, Roots, GetFrame
  <2>2. Halves' /\ Course'
    BY FrameFacts DEF Tree, Halves, Course, Typed, TypeOK, Layered, GetFrame
  <2> QED BY <2>1, <2>2 DEF Tree
<1> QED BY <1>1, <1>2, <1>3, <1>4, <1>6 DEF IInv

LEMMA DescendStep ==
    ASSUME NEW d \in Depths, Typed, Inv(d), Descend PROVE IInv'
<1> USE DEF Starting, Walking, Pending, Inv, call
<1>1. Typed'
  BY FrameFacts DEF Typed, TypeOK, Phase, Layered, Entry, Descend
<1>2. Layered(d)'
  BY FrameFacts DEF Typed, TypeOK, Layered, Unlinked, Descend
<1>3. Unlinked(d)'
  BY FrameFacts DEF Typed, TypeOK, Unlinked, Layered, Descend
<1>4. Private(d)'
  BY FrameFacts DEF Typed, TypeOK, Private, Unlinked, Layered, Descend
<1>6. Tree(d)'
  <2>1. LinkedOnce(d)'
    BY DEF Tree, LinkedOnce, Roots, Descend
  <2>2. Halves' /\ Course'
    BY FrameFacts DEF Tree, Halves, Course, Typed, TypeOK, Layered, Descend
  <2> QED BY <2>1, <2>2 DEF Tree
<1> QED BY <1>1, <1>2, <1>3, <1>4, <1>6 DEF IInv

LEMMA AllocateTableStep ==
    ASSUME NEW d \in Depths, Typed, Inv(d), AllocateTable PROVE IInv'
<1> USE DEF Starting, Walking, Pending, Inv, call
<1>0. /\ fresh' \in pool /\ pool' = pool \ {fresh'}
      /\ fresh' \in Pool /\ fresh' \in Frame /\ pool' \subseteq Pool
  BY TakeFacts DEF AllocateTable, Typed
<1>1. Typed'
  BY <1>0, FrameFacts DEF Typed, TypeOK, Phase, AllocateTable
<1>2. Layered(d)'
  BY <1>0, FrameFacts DEF Typed, TypeOK, Layered, Unlinked, AllocateTable
<1>3. Unlinked(d)'
  BY <1>0, FrameFacts DEF Typed, TypeOK, Unlinked, Layered, AllocateTable
<1>4. Private(d)'
  BY <1>0, FrameFacts DEF Typed, TypeOK, Private, Unlinked, Layered, AllocateTable
<1>6. Tree(d)'
  <2>1. LinkedOnce(d)'
    BY DEF Tree, LinkedOnce, Roots, AllocateTable
  <2>2. Halves' /\ Course'
    BY <1>0, FrameFacts DEF Tree, Halves, Course, Typed, TypeOK, Layered, AllocateTable
  <2> QED BY <2>1, <2>2 DEF Tree
<1> QED BY <1>1, <1>2, <1>3, <1>4, <1>6 DEF IInv

LEMMA ZeroTableStep ==
    ASSUME NEW d \in Depths, Typed, Inv(d), ZeroTable PROVE IInv'
<1> USE DEF Starting, Walking, Pending, Inv, call
<1>5. /\ mem' \in [Frame -> [Index -> Entry]] /\ \A i \in Index : mem'[fresh][i] = Absent
      /\ mem'[fresh] = Empty /\ \A g \in Frame : g # fresh => mem'[g] = mem[g]
  <2>1. Empty \in [Index -> Entry] /\ \A i \in Index : Empty[i] = Absent
    BY DEF Empty, Entry
  <2> QED BY <2>1, PutTable, FrameFacts DEF ZeroTable, Typed, TypeOK
<1>1. Typed'
  BY <1>5, FrameFacts DEF Typed, TypeOK, Phase, Layered, Entry, ZeroTable
<1>2. Layered(d)'
  BY <1>5, FrameFacts DEF Typed, TypeOK, Layered, Unlinked, ZeroTable
<1>3. Unlinked(d)'
  BY <1>5, FrameFacts DEF Typed, TypeOK, Unlinked, Layered, ZeroTable
<1>4. Private(d)'
  BY <1>5, FrameFacts DEF Typed, TypeOK, Private, Unlinked, Layered, ZeroTable
<1>6. Tree(d)'
  <2>1. LinkedOnce(d)'
    BY <1>5, FrameFacts DEF Tree, LinkedOnce, Roots, Layered, Unlinked, Typed, TypeOK, ZeroTable
  <2>2. Halves'
    BY <1>5, FrameFacts DEF Tree, Halves, Course, Typed, TypeOK, Layered, Unlinked, ZeroTable
  <2>3. Course'
    BY <1>5, FrameFacts DEF Tree, Halves, Course, Typed, TypeOK, Layered, Unlinked, ZeroTable
  <2> QED BY <2>1, <2>2, <2>3 DEF Tree
<1> QED BY <1>1, <1>2, <1>3, <1>4, <1>6 DEF IInv

LEMMA WriteEntryStep ==
    ASSUME NEW d \in Depths, Typed, Inv(d), WriteEntry PROVE IInv'
<1> USE DEF Starting, Walking, Pending, Inv, call
<1>5. /\ mem' \in [Frame -> [Index -> Entry]]
      /\ \A g \in Frame, j \in Index :
           mem'[g][j] = IF g = table /\ j = path[level] THEN target ELSE mem[g][j]
  <2>1. path \in Path /\ level \in 1..Levels
    BY FrameFacts DEF WriteEntry, Typed, TypeOK
  <2>2. path[level] \in Index /\ table \in Frame /\ target \in Frame
    BY <2>1, FrameFacts DEF Typed, TypeOK
  <2>3. mem' = [mem EXCEPT ![table][path[level]] = target] /\ TypeOK
    BY DEF WriteEntry, Typed
  <2> QED BY <2>2, <2>3 DEF TypeOK, Entry
<1>1. Typed'
  BY <1>5, FrameFacts DEF Typed, TypeOK, Phase, Layered, Entry, WriteEntry
<1>2. Layered(d)'
  BY <1>5, FrameFacts DEF Typed, TypeOK, Layered, Unlinked, WriteEntry
<1>3. Unlinked(d)'
  BY <1>5, FrameFacts DEF Typed, TypeOK, Unlinked, Layered, WriteEntry
<1>4. Private(d)'
  BY <1>5, FrameFacts DEF Typed, TypeOK, Private, Unlinked, Layered, WriteEntry
<1>6. Tree(d)'
  <2>1. LinkedOnce(d)'
    BY <1>5, FrameFacts DEF Tree, LinkedOnce, Roots, Layered, Unlinked, Typed, TypeOK, WriteEntry
  <2>2. Halves'
    BY <1>5, FrameFacts DEF Tree, Halves, Course, Typed, TypeOK, Layered, Unlinked, WriteEntry
  <2>3. Course'
    BY <1>5, FrameFacts DEF Tree, Halves, Course, Typed, TypeOK, Layered, Unlinked, WriteEntry
  <2> QED BY <2>1, <2>2, <2>3 DEF Tree
<1> QED BY <1>1, <1>2, <1>3, <1>4, <1>6 DEF IInv

LEMMA AllocatePageAtStep ==
    ASSUME NEW d \in Depths, Typed, Inv(d), NEW p \in Wanted, AllocatePageAt(p) PROVE IInv'
<1> USE DEF Starting, Walking, Pending, Inv, call
<1>1. Typed'
  BY FrameFacts DEF Typed, TypeOK, Phase, Layered, Entry, AllocatePageAt
<1>2. Layered(d)'
  BY FrameFacts DEF Typed, TypeOK, Layered, Unlinked, AllocatePageAt
<1>3. Unlinked(d)'
  BY FrameFacts DEF Typed, TypeOK, Unlinked, Layered, AllocatePageAt
<1>4. Private(d)'
  BY FrameFacts DEF Typed, TypeOK, Private, Unlinked, Layered, AllocatePageAt
<1>6. Tree(d)'
  <2>1. LinkedOnce(d)'
    BY DEF Tree, LinkedOnce, Roots, AllocatePageAt
  <2>2. Halves' /\ Course'
    BY FrameFacts DEF Tree, Halves, Course, Typed, TypeOK, Layered, AllocatePageAt
  <2> QED BY <2>1, <2>2 DEF Tree
<1> QED BY <1>1, <1>2, <1>3, <1>4, <1>6 DEF IInv

LEMMA MapVirtualStep ==
    ASSUME NEW d \in Depths, Typed, Inv(d), NEW p \in Wanted, NEW f \in Device, MapVirtual(p, f) PROVE IInv'
<1> USE DEF Starting, Walking, Pending, Inv, call
<1>1. Typed'
  BY FrameFacts DEF Typed, TypeOK, Phase, Layered, Entry, MapVirtual
<1>2. Layered(d)'
  BY FrameFacts DEF Typed, TypeOK, Layered, Unlinked, MapVirtual
<1>3. Unlinked(d)'
  BY FrameFacts DEF Typed, TypeOK, Unlinked, Layered, MapVirtual
<1>4. Private(d)'
  BY FrameFacts, PoolFacts DEF Typed, TypeOK, Private, Unlinked, Layered, MapVirtual
<1>6. Tree(d)'
  <2>1. LinkedOnce(d)'
    BY DEF Tree, LinkedOnce, Roots, MapVirtual
  <2>2. Halves' /\ Course'
    BY FrameFacts DEF Tree, Halves, Course, Typed, TypeOK, Layered, MapVirtual
  <2> QED BY <2>1, <2>2 DEF Tree
<1> QED BY <1>1, <1>2, <1>3, <1>4, <1>6 DEF IInv

LEMMA LoadCr3Step ==
    ASSUME NEW d \in Depths, Typed, Inv(d), LoadCr3 PROVE IInv'
<1> USE DEF Starting, Walking, Pending, Inv, call
<1>0. PICK e \in Depths :
        e[fresh] = 1 /\ \A f \in Frame : f # fresh => e[f] = d[f]
  <2> DEFINE x == [d EXCEPT ![fresh] = 1]
  <2>1. x \in Depths /\ x[fresh] = 1 /\ \A f \in Frame : f # fresh => x[f] = d[f]
    BY FrameFacts DEF Typed, TypeOK, Depths, LoadCr3
  <2> QED BY <2>1
<1>1. Typed'
  BY FrameFacts DEF Typed, TypeOK, Phase, Layered, Entry, LoadCr3
<1>2. Layered(e)'
  <2>1. e[cr3'] = 1 /\ e[LimineRoot] = 1
    BY <1>0, FrameFacts DEF Typed, TypeOK, Layered, Unlinked, LoadCr3
  <2>2. \A i \in Index : mem[fresh][i] # Garbage
    BY FrameFacts DEF Typed, TypeOK, Layered, Unlinked, LoadCr3
  <2>3. \A t \in Frame, i \in Index : e[t] > 0 => mem'[t][i] # Garbage
    BY <1>0, <2>2 DEF Layered, LoadCr3
  <2>4. ASSUME NEW t \in Frame, NEW i \in Index, 0 < e[t], e[t] < Levels, mem[t][i] # Absent
        PROVE  e[mem[t][i]] = e[t] + 1
    <3>1. mem[t][i] \in Frame
      BY <2>3, <2>4 DEF Typed, TypeOK, Entry, LoadCr3
    <3>2. CASE t = fresh
      <4>1. mem[t][i] = mem[LimineRoot][i]
        BY <3>2, <2>4 DEF Unlinked, LoadCr3
      <4>2. d[mem[t][i]] = 2
        BY <4>1, <3>2, <2>4, <1>0, FrameFacts DEF Layered
      <4> QED BY <4>2, <3>1, <3>2, <1>0 DEF Unlinked, LoadCr3
    <3>3. CASE t # fresh
      <4>1. d[mem[t][i]] = d[t] + 1 /\ d[t] > 0
        BY <3>3, <2>4, <1>0 DEF Layered
      <4> QED BY <4>1, <3>1, <3>3, <1>0 DEF Unlinked, LoadCr3, Depths
    <3> QED BY <3>2, <3>3
  <2> QED BY <2>1, <2>3, <2>4 DEF Layered, LoadCr3
<1>3. Unlinked(e)'
  BY <1>0, FrameFacts DEF Typed, TypeOK, Unlinked, LoadCr3
<1>4. Private(e)'
  <2>1. \A i \in Index : mem[fresh][i] \notin Pool
    BY FrameFacts, PoolFacts DEF Typed, Unlinked, LoadCr3
  <2>2. \A t \in Frame : e[t] > 0 /\ t # fresh => d[t] > 0
    BY <1>0
  <2>3. pool \subseteq Pool
    BY DEF Typed, TypeOK
  <2>4. \A t, u \in Frame, i, j \in Index :
          e[t] > 0 /\ e[u] > 0 /\ mem[t][i] \in Pool /\ mem[t][i] = mem[u][j] => t = u /\ i = j
    BY <2>1, <2>2 DEF Private
  <2>5. \A t \in Frame, i \in Index : e[t] > 0 => mem[t][i] \notin pool
    BY <2>1, <2>2, <2>3 DEF Private
  <2> QED BY <2>4, <2>5 DEF Private, LoadCr3
<1>6. Tree(e)'
  <2>1. /\ fresh \in Frame /\ d[fresh] = 0 /\ LimineRoot \in Frame /\ fresh # LimineRoot
        /\ cr3 = LimineRoot /\ cr3' = fresh /\ mem' = mem /\ pc' = "idle"
        /\ \A i \in Index : mem[fresh][i] = IF i \in Upper THEN mem[LimineRoot][i] ELSE Absent
        /\ mem[LimineRoot] = LimineMem[LimineRoot]
    BY FrameFacts DEF Typed, TypeOK, Unlinked, Tree, Halves, LoadCr3
  <2>2. LinkedOnce(e)'
    <3> DEFINE alias(t) == IF t = fresh THEN LimineRoot ELSE t
    <3>1. 1 < Levels /\ d[LimineRoot] = 1
      BY DEF Layered
    <3>2. ASSUME NEW t \in Frame, NEW i \in Index, 0 < e[t], e[t] < Levels, mem[t][i] # Absent
          PROVE  /\ alias(t) \in Frame /\ 0 < d[alias(t)] /\ d[alias(t)] < Levels
                 /\ mem[alias(t)][i] = mem[t][i]
      BY <1>0, <2>1, <3>1, <3>2
    <3>3. ASSUME NEW t \in Frame, NEW u \in Frame, NEW i \in Index, NEW j \in Index,
                 0 < e[t], e[t] < Levels, 0 < e[u], e[u] < Levels,
                 mem[t][i] # Absent, mem[t][i] = mem[u][j]
          PROVE  i = j /\ (t = u \/ (t \in {fresh, LimineRoot} /\ u \in {fresh, LimineRoot}))
      <4>1. i = j /\ (alias(t) = alias(u) \/ (alias(t) \in Roots /\ alias(u) \in Roots))
        <5> HIDE DEF alias
        <5> QED BY <3>2, <3>3 DEF Tree, LinkedOnce
      <4> QED BY <4>1, <2>1 DEF Roots
    <3> QED BY <2>1, <3>3 DEF LinkedOnce, Roots
  <2>3. Halves'
    BY <2>1 DEF Halves
  <2>4. Course'
    BY <2>1 DEF Course
  <2> QED BY <2>2, <2>3, <2>4 DEF Tree
<1> QED BY <1>0, <1>1, <1>2, <1>3, <1>4, <1>6 DEF IInv

LEMMA LinkTableStep ==
    ASSUME NEW d \in Depths, Typed, Inv(d), LinkTable PROVE IInv'
<1> USE DEF Starting, Walking, Pending, Inv, call
<1>0. PICK e \in Depths :
        e[fresh] = level + 1 /\ \A f \in Frame : f # fresh => e[f] = d[f]
  <2> DEFINE x == [d EXCEPT ![fresh] = level + 1]
  <2>1. x \in Depths /\ x[fresh] = level + 1 /\ \A f \in Frame : f # fresh => x[f] = d[f]
    BY FrameFacts DEF Typed, TypeOK, Depths, LinkTable
  <2> QED BY <2>1
<1>5. /\ mem' \in [Frame -> [Index -> Entry]]
      /\ \A g \in Frame, j \in Index :
           mem'[g][j] = IF g = table /\ j = path[level] THEN fresh ELSE mem[g][j]
  <2>1. path \in Path /\ level \in 1..Levels
    BY FrameFacts DEF LinkTable, Typed, TypeOK
  <2>2. path[level] \in Index /\ table \in Frame /\ fresh \in Frame
    BY <2>1, FrameFacts DEF Typed, TypeOK
  <2>3. mem' = [mem EXCEPT ![table][path[level]] = fresh] /\ TypeOK
    BY DEF LinkTable, Typed
  <2> QED BY <2>2, <2>3 DEF TypeOK, Entry
<1>1. Typed'
  BY <1>5, FrameFacts DEF Typed, TypeOK, Phase, Layered, Entry, LinkTable
<1>2. Layered(e)'
  <2>1. /\ level \in Nat /\ level < Levels /\ table \in Frame /\ fresh \in Frame
        /\ d[table] = level /\ d[fresh] = 0 /\ table # fresh /\ level > 0
    BY DEF Typed, TypeOK, Layered, Unlinked, LinkTable
  <2>2. \A i \in Index : mem'[fresh][i] = Absent
    BY <1>5, <2>1 DEF Unlinked, LinkTable, Empty
  <2>3. e[cr3'] = 1 /\ e[LimineRoot] = 1
    BY <1>0, <2>1, FrameFacts DEF Typed, TypeOK, Layered, LinkTable
  <2>4. ASSUME NEW t \in Frame, NEW i \in Index, e[t] > 0 PROVE mem'[t][i] # Garbage
    BY <2>4, <1>0, <1>5, <2>1, <2>2, FrameFacts DEF Layered
  <2>5. ASSUME NEW t \in Frame, NEW i \in Index, 0 < e[t], e[t] < Levels, mem'[t][i] # Absent
        PROVE  e[mem'[t][i]] = e[t] + 1
    <3>1. t # fresh /\ e[t] = d[t]
      BY <2>2, <2>5, <1>0
    <3>2. CASE t = table /\ i = path[level]
      BY <3>1, <3>2, <1>0, <1>5, <2>1
    <3>3. CASE ~(t = table /\ i = path[level])
      <4>1. mem'[t][i] = mem[t][i]
        BY <3>3, <1>5
      <4>2. d[mem[t][i]] = d[t] + 1 /\ mem[t][i] \in Frame
        BY <4>1, <3>1, <2>5, <2>4 DEF Layered, Typed, TypeOK, Entry
      <4>3. d[t] \in Nat /\ d[t] > 0
        BY <3>1, <2>5 DEF Depths
      <4>4. mem[t][i] # fresh
        BY <4>2, <4>3, <2>1
      <4> QED BY <4>1, <4>2, <4>4, <3>1, <1>0
    <3> QED BY <3>2, <3>3
  <2> QED BY <2>1, <2>3, <2>4, <2>5, <1>0 DEF Layered, LinkTable
<1>3. Unlinked(e)'
  BY <1>5, <1>0, FrameFacts DEF Typed, TypeOK, Unlinked, LinkTable
<1>4. Private(e)'
  <2>1. /\ table \in Frame /\ fresh \in Pool /\ fresh \notin pool /\ d[table] > 0 /\ table # fresh
        /\ pool \subseteq Pool /\ target # fresh /\ Absent \notin Pool
    BY FrameFacts DEF Typed, TypeOK, Layered, Unlinked, Private, LinkTable
  <2>2. \A i \in Index : mem'[fresh][i] = Absent
    BY <1>5, <2>1, FrameFacts DEF Unlinked, LinkTable, Empty
  <2>3. \A t \in Frame : e[t] > 0 /\ t # fresh => d[t] > 0
    BY <1>0
  <2>4. \A t \in Frame, i \in Index : e[t] > 0 /\ mem'[t][i] \in Pool =>
          \/ t = table /\ i = path[level] /\ mem'[t][i] = fresh
          \/ t # fresh /\ d[t] > 0 /\ mem'[t][i] = mem[t][i] /\ mem[t][i] # fresh
    BY <1>5, <2>1, <2>2, <2>3 DEF Private, LinkTable
  <2>5. \A t, u \in Frame, i, j \in Index :
          e[t] > 0 /\ e[u] > 0 /\ mem'[t][i] \in Pool /\ mem'[t][i] = mem'[u][j] => t = u /\ i = j
    BY <2>4 DEF Private
  <2>6. \A t \in Frame, i \in Index : e[t] > 0 => mem'[t][i] \notin pool
    BY <2>1, <2>4 DEF Private
  <2>7. target \in Pool =>
          target \notin pool /\ \A t \in Frame, i \in Index : e[t] > 0 => mem'[t][i] # target
    BY <2>1, <2>4 DEF Private, LinkTable
  <2> QED BY <2>5, <2>6, <2>7 DEF Private, LinkTable
<1>6. Tree(e)'
  <2>1. /\ table \in Frame /\ fresh \in Frame /\ d[table] = level /\ d[fresh] = 0
        /\ level \in 1..Levels /\ level < Levels /\ table # fresh /\ table # LimineRoot
        /\ fresh # LimineRoot /\ fresh # cr3 /\ path[level] \in Index /\ cr3 # LimineRoot
        /\ LimineRoot \in Frame /\ cr3 \in Frame
        /\ mem[table][path[level]] = Absent
    BY FrameFacts DEF Typed, TypeOK, Layered, Unlinked, Tree, Course, LinkTable
  <2>2. \A i \in Index : mem'[fresh][i] = Absent
    BY <1>5, <2>1 DEF Unlinked, LinkTable, Empty
  <2>3. LinkedOnce(e)'
    <3>1. ASSUME NEW t \in Frame, NEW i \in Index, 0 < e[t], e[t] < Levels, mem'[t][i] # Absent
          PROVE  \/ t = table /\ i = path[level] /\ mem'[t][i] = fresh
                 \/ /\ mem'[t][i] = mem[t][i] /\ mem[t][i] # fresh
                    /\ 0 < d[t] /\ d[t] < Levels
      <4>1. t # fresh /\ d[t] = e[t]
        BY <1>0, <2>2, <3>1
      <4>2. mem[t][i] # fresh
        BY <3>1, <4>1 DEF Private, LinkTable
      <4> QED BY <1>5, <3>1, <4>1, <4>2
    <3>2. ASSUME NEW t \in Frame, NEW u \in Frame, NEW i \in Index, NEW j \in Index,
                 0 < e[t], e[t] < Levels, 0 < e[u], e[u] < Levels,
                 mem'[t][i] # Absent, mem'[t][i] = mem'[u][j]
          PROVE  i = j /\ (t = u \/ (t \in Roots /\ u \in Roots))
      <4>1. mem'[u][j] # Absent
        BY <3>2
      <4> QED BY <3>1, <3>2, <4>1 DEF Tree, LinkedOnce
    <3> QED BY <3>2 DEF LinkedOnce, Roots, LinkTable
  <2>4. Halves'
    <3>1. mem'[LimineRoot] = mem[LimineRoot]
      BY <1>5, <2>1 DEF Typed, TypeOK
    <3>2. \A i \in Index : mem[LimineRoot][i] # fresh
      BY <2>1 DEF Private, Layered, LinkTable
    <3>3. ASSUME NEW i \in Index, mem[LimineRoot][i] # Absent
          PROVE  mem'[cr3][i] = mem[LimineRoot][i] <=> i \in Upper
      <4>1. mem[cr3][i] = mem[LimineRoot][i] <=> i \in Upper
        BY <2>1, <3>3 DEF Tree, Halves
      <4>2. CASE cr3 = table /\ i = path[level]
        BY <1>5, <2>1, <3>2, <3>3, <4>1, <4>2
      <4>3. CASE ~(cr3 = table /\ i = path[level])
        BY <1>5, <2>1, <4>1, <4>3
      <4> QED BY <4>2, <4>3
    <3> QED BY <3>1, <3>3 DEF Tree, Halves, LinkTable
  <2>5. Course'
    BY <2>1 DEF Tree, Course, LinkTable
  <2> QED BY <2>3, <2>4, <2>5 DEF Tree
<1> QED BY <1>0, <1>1, <1>2, <1>3, <1>4, <1>6 DEF IInv

LEMMA StepKeepsInv == ASSUME IInv, [Next]_vars PROVE IInv'
<1>1. PICK d \in Depths : Inv(d)
  BY DEF IInv
<1>2. Typed
  BY DEF IInv
<1>3. CASE EarlyInit
  BY <1>1, <1>2, <1>3, AllocateRootStep, ZeroRootStep, CloneUpperStep, LoadCr3Step DEF EarlyInit
<1>4. CASE MapPage
  BY <1>1, <1>2, <1>4, DescendStep, AllocateTableStep, ZeroTableStep, LinkTableStep,
     WriteEntryStep DEF MapPage
<1>5. CASE GetFrame \/ PanicOut
  BY <1>1, <1>2, <1>5, GetFrameStep, PanicOutStep
<1>6. ASSUME NEW p \in Wanted, AllocatePageAt(p) \/ \E f \in Device : MapVirtual(p, f)
      PROVE  IInv'
  BY <1>1, <1>2, <1>6, AllocatePageAtStep, MapVirtualStep
<1>7. CASE UNCHANGED vars
  <2> USE DEF Starting, Walking, Pending, vars
  <2>1. Typed'
    BY <1>2, <1>7 DEF Typed, TypeOK
  <2>2. Layered(d)'
    BY <1>1, <1>7 DEF Inv, Layered
  <2>3. Unlinked(d)'
    BY <1>1, <1>7 DEF Inv, Unlinked
  <2>4. Private(d)'
    BY <1>1, <1>7 DEF Inv, Private
  <2>5. Tree(d)'
    BY <1>1, <1>7 DEF Inv, Tree, LinkedOnce, Halves, Course, Roots
  <2> QED BY <2>1, <2>2, <2>3, <2>4, <2>5 DEF IInv, Inv
<1> QED BY <1>3, <1>4, <1>5, <1>6, <1>7 DEF Next

THEOREM InductiveInvariant == Spec => []IInv
BY InvInit, StepKeepsInv, PTL DEF Spec

-----------------------------------------------------------------------------
(* What it gives.                                                          *)

\* Every variable of the page tables keeps its type: GetNextTable never
\* descends into something that is no frame.
THEOREM TypeCorrect == Spec => []TypeOK
<1>1. IInv => TypeOK
  BY DEF IInv, Typed
<1> QED BY <1>1, InductiveInvariant, PTL

\* A walk of the hardware goes down one level a step, until it is stopped.
LEMMA WalkStays ==
    ASSUME Typed, NEW d \in Depths, Layered(d), NEW root \in Frame, d[root] = 1,
           NEW p \in Path, NEW g, Walk(g, mem, root, p, Levels)
    PROVE  \A n \in 0..Levels : \/ g[n] = Absent
                                \/ n < Levels /\ g[n] \in Frame /\ d[g[n]] = n + 1
                                \/ n = Levels /\ g[n] \in Frame
<1> DEFINE Good(n) == \/ g[n] = Absent
                      \/ n < Levels /\ g[n] \in Frame /\ d[g[n]] = n + 1
                      \/ n = Levels /\ g[n] \in Frame
           T == {n \in 0..Levels : ~Good(n)}
<1> SUFFICES ASSUME NEW t \in T PROVE FALSE
  OBVIOUS
<1>1. PICK j \in T : \A i \in T : j <= i
  <2>1. T \in SUBSET Nat
    OBVIOUS
  <2> HIDE DEF T
  <2> QED BY <2>1, LeastElement, Zenon
<1>2. j # 0
  <2>1. g[0] = root
    BY DEF Walk
  <2>2. Good(0)
    BY <2>1
  <2> QED BY <1>1, <2>2
<1>3. j \in 1..Levels /\ j - 1 \in 0..Levels /\ j - 1 < Levels
  BY <1>1, <1>2
<1>4. Good(j - 1)
  <2>1. ~(j <= j - 1)
    BY <1>3
  <2> HIDE DEF Good
  <2> QED BY <1>1, <1>3, <2>1
<1>5. g[j] = IF g[j - 1] \in {Absent, Garbage} THEN g[j - 1] ELSE mem[g[j - 1]][p[j]]
  BY <1>2, <1>3 DEF Walk
<1>6. CASE g[j - 1] = Absent
  BY <1>1, <1>5, <1>6
<1>7. CASE g[j - 1] # Absent
  <2>1. g[j - 1] \in Frame /\ d[g[j - 1]] = j
    BY <1>3, <1>4, <1>7
  <2>2. p[j] \in Index /\ g[j] = mem[g[j - 1]][p[j]]
    BY <1>3, <1>5, <2>1, FrameFacts
  <2>3. g[j] # Garbage /\ g[j] \in Entry
    BY <1>3, <2>1, <2>2 DEF Layered, Typed, TypeOK
  <2>4. g[j] # Absent /\ j < Levels => d[g[j]] = j + 1
    BY <1>3, <2>1, <2>2 DEF Layered
  <2>5. Good(j)
    <3>1. g[j] = Absent \/ g[j] \in Frame
      BY <2>3 DEF Entry
    <3>2. j \in Nat /\ Levels \in Nat /\ j <= Levels
      BY <1>3
    <3>3. j = Levels \/ j < Levels
      BY <3>2
    <3> QED BY <2>4, <3>1, <3>3
  <2> QED BY <1>1, <2>5
<1> QED BY <1>6, <1>7

\* No core's hardware, walking from either root at any point of MapPage or of
\* EarlyInit, reads an entry of a table that nobody has written.
THEOREM NoWildTranslationHolds == Spec => []NoWildTranslation
<1>1. ASSUME IInv, NEW r \in Roots, NEW p \in Path PROVE Translate(mem, r, p) # Garbage
  <2>1. PICK d \in Depths : Layered(d)
    BY <1>1 DEF IInv, Inv
  <2>2. r \in Frame /\ d[r] = 1 /\ Typed
    BY <1>1, <2>1, FrameFacts DEF Roots, Layered, IInv, Typed, TypeOK
  <2>3. PICK g : Walk(g, mem, r, p, Levels) /\ Translate(mem, r, p) = g[Levels]
    BY TranslateIsWalk
  <2>4. g[Levels] = Absent \/ g[Levels] \in Frame
    BY <2>1, <2>2, <2>3, WalkStays
  <2> QED BY <2>3, <2>4, FrameFacts
<1>2. IInv => NoWildTranslation
  BY <1>1 DEF NoWildTranslation
<1> QED BY <1>2, InductiveInvariant, PTL

\* The tables the walks go through are frames with a level.
LEMMA TablesHaveDepth ==
    ASSUME Typed, NEW d \in Depths, Layered(d)
    PROVE  \A f \in Tables : f \in Frame /\ d[f] > 0
<1> DEFINE g == TablesOfLevel
           Good(n) == \A f \in g[n] : f \in Frame /\ d[f] = n
           T == {n \in 1..Levels : ~Good(n)}
<1>0. /\ g[1] = Roots
      /\ \A n \in 2..Levels : g[n] = NamedBy(g[n - 1])
  <2>1. 1 \in 1..Levels /\ \A n \in 2..Levels : n \in 1..Levels /\ n # 1
    OBVIOUS
  <2> QED BY <2>1, TablesAreLayers DEF Layers
<1> SUFFICES ASSUME NEW t \in T PROVE FALSE
  BY DEF Tables
<1>1. PICK j \in T : \A i \in T : j <= i
  <2>1. T \in SUBSET Nat
    OBVIOUS
  <2> HIDE DEF T
  <2> QED BY <2>1, LeastElement, Zenon
<1>2. j # 1
  <2>1. Good(1)
    BY <1>0, FrameFacts DEF Roots, Layered, Typed, TypeOK
  <2> QED BY <1>1, <2>1
<1>3. j \in 2..Levels /\ j - 1 \in 1..Levels
  BY <1>1, <1>2
<1>4. Good(j - 1)
  <2>1. ~(j <= j - 1)
    BY <1>3
  <2> HIDE DEF Good
  <2> QED BY <1>1, <1>3, <2>1
<1>5. Good(j)
  <2> SUFFICES ASSUME NEW f \in NamedBy(g[j - 1]) PROVE f \in Frame /\ d[f] = j
    BY <1>0, <1>3
  <2>1. PICK u \in g[j - 1], i \in Index : f = mem[u][i] /\ f \notin {Absent, Garbage}
    BY DEF NamedBy
  <2>2. u \in Frame /\ d[u] = j - 1
    BY <1>4
  <2>3. f \in Frame
    BY <2>1, <2>2 DEF Typed, TypeOK, Entry
  <2>4. d[f] = d[u] + 1
    BY <1>3, <2>1, <2>2 DEF Layered
  <2> QED BY <1>3, <2>2, <2>3, <2>4
<1> QED BY <1>1, <1>5

\* A table that was added hangs off one entry and is never also a mapped page
\* or free memory, so no write through a mapping can reach a table of another.
THEOREM TablesPrivateHolds == Spec => []TablesPrivate
<1>1. ASSUME IInv PROVE TablesPrivate
  <2>1. PICK d \in Depths : Layered(d) /\ Unlinked(d) /\ Private(d)
    BY <1>1 DEF IInv, Inv
  <2>2. \A f \in Tables : f \in Frame /\ d[f] > 0
    BY <1>1, <2>1, TablesHaveDepth DEF IInv
  <2>3. Tables \cap pool = {}
    BY <2>1, <2>2 DEF Unlinked
  <2>4. \A s, u \in {s \in Tables \X Index : mem[s[1]][s[2]] \in Pool} :
          mem[s[1]][s[2]] = mem[u[1]][u[2]] => s = u
    BY <2>1, <2>2 DEF Private
  <2> QED BY <2>3, <2>4 DEF TablesPrivate
<1> QED BY <1>1, InductiveInvariant, PTL
-----------------------------------------------------------------------------
(* Each step of the code is one of the abstract page map: what a write does *)
(* to the walks of both roots.                                              *)

LEMMA WalkFacts ==
    ASSUME NEW m, NEW root, NEW p, NEW g, Walk(g, m, root, p, Levels)
    PROVE  /\ g[0] = root
           /\ \A n \in 1..Levels :
                g[n] = IF g[n - 1] \in {Absent, Garbage} THEN g[n - 1] ELSE m[g[n - 1]][p[n]]
<1>1. 0 \in 0..Levels /\ \A n \in 1..Levels : n \in 0..Levels /\ n # 0
  OBVIOUS
<1> QED BY <1>1 DEF Walk

\* Two walks that agree at a level and read the same entries after it agree.
LEMMA Lockstep ==
    ASSUME NEW m, NEW w, NEW r, NEW s, NEW p, NEW g, NEW h,
           Walk(g, m, r, p, Levels), Walk(h, w, s, p, Levels),
           NEW k \in 0..Levels, NEW l \in 0..Levels, g[k] = h[k],
           \A n \in k..(l - 1) :
              g[n] \notin {Absent, Garbage} => m[g[n]][p[n + 1]] = w[g[n]][p[n + 1]]
    PROVE  \A n \in k..l : g[n] = h[n]
<1> DEFINE T == {n \in k..l : g[n] # h[n]}
<1> SUFFICES ASSUME NEW t \in T PROVE FALSE
  OBVIOUS
<1>1. PICK j \in T : \A i \in T : j <= i
  <2>1. T \in SUBSET Nat
    OBVIOUS
  <2> HIDE DEF T
  <2> QED BY <2>1, LeastElement, Zenon
<1>2. j \in 1..Levels /\ j - 1 \in k..(l - 1) /\ j - 1 \in k..l /\ (j - 1) + 1 = j
  <2>1. j \in k..l /\ j # k
    BY <1>1
  <2> QED BY <2>1
<1>3. g[j - 1] = h[j - 1]
  <2>1. ~(j <= j - 1)
    BY <1>2
  <2> QED BY <1>1, <1>2, <2>1
<1>4. g[j - 1] \notin {Absent, Garbage} => m[g[j - 1]][p[j]] = w[g[j - 1]][p[j]]
  BY <1>2
<1>5. /\ g[j] = IF g[j - 1] \in {Absent, Garbage} THEN g[j - 1] ELSE m[g[j - 1]][p[j]]
      /\ h[j] = IF h[j - 1] \in {Absent, Garbage} THEN h[j - 1] ELSE w[h[j - 1]][p[j]]
  BY <1>2, WalkFacts
<1> QED BY <1>1, <1>3, <1>4, <1>5

LEMMA TranslationOf ==
    ASSUME NEW m, NEW root, NEW p, NEW g, Walk(g, m, root, p, Levels)
    PROVE  Translate(m, root, p) = g[Levels]
<1>1. PICK h : Walk(h, m, root, p, Levels) /\ Translate(m, root, p) = h[Levels]
  BY TranslateIsWalk
<1>2. g[0] = h[0]
  BY <1>1, WalkFacts
<1>3. 0 \in 0..Levels /\ Levels \in 0..Levels
  OBVIOUS
<1>4. \A n \in 0..Levels : g[n] = h[n]
  BY <1>1, <1>2, <1>3, Lockstep
<1> QED BY <1>1, <1>3, <1>4

LEMMA AbsentStays ==
    ASSUME NEW m, NEW root, NEW p, NEW g, Walk(g, m, root, p, Levels),
           NEW k \in 0..Levels, g[k] = Absent
    PROVE  \A n \in k..Levels : g[n] = Absent
<1> DEFINE T == {n \in k..Levels : g[n] # Absent}
<1> SUFFICES ASSUME NEW t \in T PROVE FALSE
  OBVIOUS
<1>1. PICK j \in T : \A i \in T : j <= i
  <2>1. T \in SUBSET Nat
    OBVIOUS
  <2> HIDE DEF T
  <2> QED BY <2>1, LeastElement, Zenon
<1>2. j \in 1..Levels /\ j - 1 \in k..Levels
  <2>1. j \in k..Levels /\ j # k
    BY <1>1
  <2> QED BY <2>1
<1>3. g[j - 1] = Absent
  <2>1. ~(j <= j - 1)
    BY <1>2
  <2> QED BY <1>1, <1>2, <2>1
<1>4. g[j] = IF g[j - 1] \in {Absent, Garbage} THEN g[j - 1] ELSE m[g[j - 1]][p[j]]
  BY <1>2, WalkFacts
<1> QED BY <1>1, <1>3, <1>4

\* A walk from either root goes through tables, each of its level.
LEMMA OnTables ==
    ASSUME Typed, NEW d \in Depths, Layered(d), NEW r \in Roots, NEW p \in Path,
           NEW g, Walk(g, mem, r, p, Levels)
    PROVE  /\ r \in Frame /\ d[r] = 1 /\ g[0] = r
           /\ \A n \in 0..Levels : g[n] = Absent \/ g[n] \in Frame
           /\ \A n \in 1..Levels : /\ g[n] # Absent => g[n - 1] # Absent
                                   /\ g[n - 1] # Absent => d[g[n - 1]] = n /\ g[n - 1] \in Frame
                                                          /\ g[n] = mem[g[n - 1]][p[n]]
<1>1. r \in Frame /\ d[r] = 1
  BY FrameFacts DEF Roots, Layered, Typed, TypeOK
<1>2. \A n \in 0..Levels : \/ g[n] = Absent
                           \/ n < Levels /\ g[n] \in Frame /\ d[g[n]] = n + 1
                           \/ n = Levels /\ g[n] \in Frame
  BY <1>1, WalkStays
<1>3. ASSUME NEW n \in 1..Levels
      PROVE  /\ g[n] # Absent => g[n - 1] # Absent
             /\ g[n - 1] # Absent => d[g[n - 1]] = n /\ g[n - 1] \in Frame
                                    /\ g[n] = mem[g[n - 1]][p[n]]
  <2>1. n - 1 \in 0..Levels /\ n - 1 < Levels /\ n - 1 # Levels /\ (n - 1) + 1 = n
    OBVIOUS
  <2>2. g[n] = IF g[n - 1] \in {Absent, Garbage} THEN g[n - 1] ELSE mem[g[n - 1]][p[n]]
    BY WalkFacts
  <2>3. g[n - 1] # Absent => g[n - 1] \in Frame /\ d[g[n - 1]] = n
    BY <1>2, <2>1
  <2> QED BY <2>2, <2>3, FrameFacts
<1> QED BY <1>1, <1>2, <1>3, WalkFacts

\* Writing frames that are no tables changes no walk.
LEMMA SameWalks ==
    ASSUME Typed, NEW d \in Depths, Layered(d), NEW m,
           \A f \in Frame : d[f] > 0 => m[f] = mem[f],
           NEW r \in Roots, NEW p \in Path,
           NEW g, Walk(g, mem, r, p, Levels), NEW h, Walk(h, m, r, p, Levels)
    PROVE  \A n \in 0..Levels : g[n] = h[n]
<1>1. g[0] = h[0] /\ 0 \in 0..Levels /\ Levels \in 0..Levels
  BY WalkFacts
<1>2. ASSUME NEW n \in 0..(Levels - 1), g[n] \notin {Absent, Garbage}
      PROVE  mem[g[n]][p[n + 1]] = m[g[n]][p[n + 1]]
  <2>1. n + 1 \in 1..Levels /\ (n + 1) - 1 = n
    OBVIOUS
  <2>2. g[(n + 1) - 1] # Absent
    BY <1>2, <2>1
  <2>3. d[g[n]] = n + 1 /\ g[n] \in Frame
    BY <2>1, <2>2, OnTables
  <2> QED BY <2>1, <2>3
<1> QED BY <1>1, <1>2, Lockstep

LEMMA SameTranslation ==
    ASSUME Typed, NEW d \in Depths, Layered(d), NEW m,
           \A f \in Frame : d[f] > 0 => m[f] = mem[f],
           NEW r \in Roots, NEW p \in Path
    PROVE  Translate(m, r, p) = Translate(mem, r, p)
<1>1. PICK g : Walk(g, mem, r, p, Levels) /\ Translate(mem, r, p) = g[Levels]
  BY TranslateIsWalk
<1>2. PICK h : Walk(h, m, r, p, Levels) /\ Translate(m, r, p) = h[Levels]
  BY TranslateIsWalk
<1>3. Levels \in 0..Levels
  OBVIOUS
<1> QED BY <1>1, <1>2, <1>3, SameWalks

LEMMA ViewFramed ==
    ASSUME Typed, NEW d \in Depths, Layered(d), cr3' = cr3,
           \A f \in Frame : d[f] > 0 => mem'[f] = mem[f]
    PROVE  View' = View
<1>1. \A r \in Roots, p \in Path : Translate(mem', r, p) = Translate(mem, r, p)
  BY SameTranslation
<1>2. cr3 \in Roots /\ LimineRoot \in Roots
  BY DEF Roots
<1> QED BY <1>1, <1>2 DEF View

\* A table is reached by one path, and by one root unless its slot is shared.
LEMMA OneStepBack ==
    ASSUME Typed, NEW d \in Depths, Layered(d), LinkedOnce(d),
           NEW r \in Roots, NEW p \in Path, NEW g, Walk(g, mem, r, p, Levels),
           NEW s \in Roots, NEW q \in Path, NEW h, Walk(h, mem, s, q, Levels),
           NEW n \in 1..(Levels - 1), g[n] = h[n], g[n] # Absent
    PROVE  /\ p[n] = q[n] /\ g[n - 1] # Absent
           /\ n > 1 => g[n - 1] = h[n - 1]
<1>1. n \in 1..Levels /\ n < Levels
  OBVIOUS
<1>2. /\ g[n - 1] # Absent /\ d[g[n - 1]] = n /\ g[n - 1] \in Frame
      /\ g[n] = mem[g[n - 1]][p[n]]
  BY <1>1, OnTables
<1>3. /\ h[n - 1] # Absent /\ d[h[n - 1]] = n /\ h[n - 1] \in Frame
      /\ h[n] = mem[h[n - 1]][q[n]]
  BY <1>1, OnTables
<1>4. p[n] \in Index /\ q[n] \in Index
  BY <1>1, FrameFacts
<1>5. p[n] = q[n] /\ (g[n - 1] = h[n - 1] \/ (g[n - 1] \in Roots /\ h[n - 1] \in Roots))
  <2> DEFINE t == g[n - 1]
             u == h[n - 1]
  <2>1. t \in Frame /\ u \in Frame /\ 0 < d[t] /\ d[t] < Levels /\ 0 < d[u] /\ d[u] < Levels
    BY <1>1, <1>2, <1>3
  <2>2. mem[t][p[n]] # Absent /\ mem[t][p[n]] = mem[u][q[n]]
    BY <1>2, <1>3
  <2> HIDE DEF t, u
  <2>3. p[n] = q[n] /\ (t = u \/ (t \in Roots /\ u \in Roots))
    BY <1>4, <2>1, <2>2 DEF LinkedOnce
  <2> QED BY <2>3 DEF t, u
<1>6. \A t \in Roots : d[t] = 1
  BY DEF Roots, Layered
<1> QED BY <1>2, <1>5, <1>6

LEMMA UniquePath ==
    ASSUME Typed, NEW d \in Depths, Layered(d), LinkedOnce(d),
           NEW r \in Roots, NEW p \in Path, NEW g, Walk(g, mem, r, p, Levels),
           NEW s \in Roots, NEW q \in Path, NEW h, Walk(h, mem, s, q, Levels),
           NEW k \in 1..(Levels - 1), g[k] = h[k], g[k] # Absent
    PROVE  \A n \in 1..k : p[n] = q[n] /\ g[n] = h[n] /\ g[n] # Absent
<1> DEFINE Same(n) == g[n] = h[n] /\ g[n] # Absent
           T == {j \in 0..(k - 1) : ~Same(k - j)}
<1>1. \A n \in 1..k : Same(n)
  <2> SUFFICES ASSUME NEW t \in T PROVE FALSE
    <3>1. ASSUME NEW n \in 1..k, ~Same(n) PROVE k - n \in T
      <4>1. k - n \in 0..(k - 1) /\ k - (k - n) = n
        OBVIOUS
      <4> HIDE DEF Same
      <4> QED BY <3>1, <4>1
    <3> QED BY <3>1
  <2>1. PICK j \in T : \A i \in T : j <= i
    <3>1. T \in SUBSET Nat
      OBVIOUS
    <3> HIDE DEF T
    <3> QED BY <3>1, LeastElement, Zenon
  <2>2. j # 0
    <3>1. k - 0 = k
      OBVIOUS
    <3>2. Same(k - 0)
      BY <3>1
    <3> HIDE DEF Same
    <3> QED BY <2>1, <3>2
  <2>3. /\ j - 1 \in 0..(k - 1) /\ ~(j <= j - 1) /\ k - (j - 1) \in 1..(Levels - 1)
        /\ k - (j - 1) > 1 /\ (k - (j - 1)) - 1 = k - j
    BY <2>1, <2>2
  <2>4. Same(k - (j - 1))
    <3> HIDE DEF Same
    <3> QED BY <2>1, <2>3
  <2>5. g[(k - (j - 1)) - 1] # Absent /\ g[(k - (j - 1)) - 1] = h[(k - (j - 1)) - 1]
    <3> DEFINE n == k - (j - 1)
    <3>1. n \in 1..(Levels - 1) /\ n > 1 /\ g[n] = h[n] /\ g[n] # Absent
      BY <2>3, <2>4
    <3> HIDE DEF n
    <3>2. g[n - 1] # Absent /\ g[n - 1] = h[n - 1]
      BY <3>1, OneStepBack
    <3> QED BY <3>2 DEF n
  <2>6. Same(k - j)
    BY <2>3, <2>5
  <2> HIDE DEF Same
  <2> QED BY <2>1, <2>6
<1>2. ASSUME NEW n \in 1..k PROVE p[n] = q[n] /\ g[n] = h[n] /\ g[n] # Absent
  <2>1. n \in 1..(Levels - 1) /\ Same(n)
    BY <1>1
  <2> QED BY <2>1, OneStepBack
<1> QED BY <1>2

\* Below a shared slot the walks of both roots meet at once; elsewhere never.
LEMMA SlotShared ==
    ASSUME Typed, NEW d \in Depths, Layered(d), LinkedOnce(d), Halves, cr3 # LimineRoot,
           NEW p \in Path, NEW g, Walk(g, mem, LimineRoot, p, Levels),
           NEW q \in Path, NEW h, Walk(h, mem, cr3, q, Levels)
    PROVE  /\ g[1] = h[1] /\ g[1] # Absent => q[1] \in Shared
           /\ p = q /\ q[1] \in Shared => \A n \in 1..Levels : g[n] = h[n]
<1>1. 1 \in 1..Levels /\ 1 \in 1..(Levels - 1) /\ 1 - 1 = 0 /\ Levels \in 0..Levels
      /\ 1 \in 0..Levels
  OBVIOUS
<1>2. LimineRoot \in Roots /\ cr3 \in Roots /\ LimineRoot \in Frame /\ cr3 \in Frame
  BY FrameFacts DEF Roots, Typed, TypeOK
<1>3. g[0] = LimineRoot /\ h[0] = cr3 /\ LimineRoot # Absent /\ cr3 # Absent
  BY <1>2, WalkFacts, FrameFacts
<1>4. g[1] = mem[LimineRoot][p[1]] /\ h[1] = mem[cr3][q[1]]
  <2>1. g[1 - 1] # Absent /\ h[1 - 1] # Absent
    BY <1>1, <1>3
  <2>2. g[1] = mem[g[1 - 1]][p[1]] /\ h[1] = mem[h[1 - 1]][q[1]]
    BY <1>1, <1>2, <2>1, OnTables
  <2> QED BY <1>1, <1>3, <2>2
<1>5. q[1] \in Index
  BY <1>1, FrameFacts
<1>6. ASSUME g[1] = h[1], g[1] # Absent PROVE q[1] \in Shared
  <2>1. p[1] = q[1]
    BY <1>1, <1>2, <1>6, OneStepBack
  <2>2. mem[LimineRoot][q[1]] # Absent /\ mem[cr3][q[1]] = mem[LimineRoot][q[1]]
    BY <1>4, <1>6, <2>1
  <2> QED BY <1>5, <2>2 DEF Halves, Shared
<1>7. ASSUME p = q, q[1] \in Shared PROVE \A n \in 1..Levels : g[n] = h[n]
  <2>1. q[1] \in Upper /\ mem[LimineRoot][q[1]] # Absent
    BY <1>7 DEF Shared
  <2>2. g[1] = h[1]
    BY <1>4, <1>5, <1>7, <2>1 DEF Halves
  <2> QED BY <1>1, <1>7, <2>2, Lockstep
<1> QED BY <1>6, <1>7
\* While MapPage runs, its page is not mapped, and current_table is where the
\* walk towards it has come to.
Route ==
    pc = "want" \/ Walking =>
      \E g : /\ Walk(g, mem, cr3, path, Levels) /\ g[Levels] = Absent
             /\ Walking => g[level - 1] = table

Settled == IInv /\ Route

LEMMA RouteInit == Init => Route
  BY DEF Init, Route, Walking

LEMMA PageUnmapped ==
    ASSUME NEW p, Translate(mem, cr3, p) = Absent
    PROVE  \E g : Walk(g, mem, cr3, p, Levels) /\ g[Levels] = Absent /\ g[1 - 1] = cr3
<1>1. PICK g : Walk(g, mem, cr3, p, Levels) /\ Translate(mem, cr3, p) = g[Levels]
  BY TranslateIsWalk
<1>2. g[1 - 1] = cr3
  BY <1>1, WalkFacts
<1> QED BY <1>1, <1>2

LEMMA RouteStarts ==
    ASSUME Typed, Route, GetFrame \/ \E p \in Wanted : AllocatePageAt(p) \/ \E f \in Device : MapVirtual(p, f)
    PROVE  Route'
<1> USE DEF Walking
<1>1. CASE GetFrame
  <2>1. /\ pc = "want" /\ pc' = "walk" /\ mem' = mem /\ cr3' = cr3 /\ path' = path
        /\ level' = 1 /\ table' = cr3
    BY <1>1 DEF GetFrame
  <2>2. PICK g : Walk(g, mem, cr3, path, Levels) /\ g[Levels] = Absent
    BY <2>1 DEF Route
  <2>3. g[1 - 1] = cr3
    BY <2>2, WalkFacts
  <2> QED BY <2>1, <2>2, <2>3 DEF Route
<1>2. ASSUME NEW p \in Wanted, AllocatePageAt(p) PROVE Route'
  <2>1. /\ pc' = "want" /\ mem' = mem /\ cr3' = cr3 /\ path' = p
        /\ Translate(mem, cr3, p) = Absent
    BY <1>2 DEF AllocatePageAt
  <2>2. PICK g : Walk(g, mem, cr3, p, Levels) /\ g[Levels] = Absent
    BY <2>1, PageUnmapped
  <2> QED BY <2>1, <2>2 DEF Route
<1>3. ASSUME NEW p \in Wanted, NEW f \in Device, MapVirtual(p, f) PROVE Route'
  <2>1. /\ pc' = "walk" /\ mem' = mem /\ cr3' = cr3 /\ path' = p /\ level' = 1 /\ table' = cr3
        /\ Translate(mem, cr3, p) = Absent
    BY <1>3 DEF MapVirtual
  <2>2. PICK g : Walk(g, mem, cr3, p, Levels) /\ g[Levels] = Absent /\ g[1 - 1] = cr3
    BY <2>1, PageUnmapped
  <2> QED BY <2>1, <2>2 DEF Route
<1> QED BY <1>1, <1>2, <1>3

LEMMA RouteDescends == ASSUME Typed, Route, Descend PROVE Route'
<1> USE DEF Walking
<1>1. /\ pc = "walk" /\ pc' = "walk" /\ mem' = mem /\ cr3' = cr3 /\ path' = path
      /\ table' = mem[table][path[level]] /\ level' = level + 1
      /\ level \in 1..Levels /\ table \in Frame
  BY DEF Descend, Typed, TypeOK
<1>2. PICK g : Walk(g, mem, cr3, path, Levels) /\ g[Levels] = Absent /\ g[level - 1] = table
  BY <1>1 DEF Route
<1>3. g[level] = mem[table][path[level]] /\ level' - 1 = level
  <2>1. g[level] = IF g[level - 1] \in {Absent, Garbage} THEN g[level - 1]
                   ELSE mem[g[level - 1]][path[level]]
    BY <1>1, <1>2, WalkFacts
  <2> QED BY <1>1, <1>2, <2>1, FrameFacts
<1> QED BY <1>1, <1>2, <1>3 DEF Route

\* Steps that leave the walk where it is.
LEMMA RouteFramed ==
    ASSUME Typed, NEW d \in Depths, Layered(d), Route, cr3' = cr3,
           \A f \in Frame : d[f] > 0 => mem'[f] = mem[f],
           Walking' => Walking, pc' = "want" => pc = "want",
           UNCHANGED <<path, level, table>>
    PROVE  Route'
<1> SUFFICES ASSUME (pc = "want" \/ Walking)'
             PROVE  \E h : /\ Walk(h, mem', cr3, path, Levels) /\ h[Levels] = Absent
                           /\ Walking => h[level - 1] = table
  BY DEF Route
<1>1. PICK g : /\ Walk(g, mem, cr3, path, Levels) /\ g[Levels] = Absent
               /\ Walking => g[level - 1] = table
  BY DEF Route
<1>2. PICK h : Walk(h, mem', cr3, path, Levels)
  BY WalkExists
<1>3. cr3 \in Roots /\ path \in Path /\ level - 1 \in 0..Levels /\ Levels \in 0..Levels
  BY FrameFacts DEF Roots, Typed, TypeOK
<1>4. \A n \in 0..Levels : g[n] = h[n]
  BY <1>1, <1>2, <1>3, SameWalks
<1> QED BY <1>1, <1>2, <1>3, <1>4

-----------------------------------------------------------------------------
(* Linking a cleared table, and writing the entry of the page.             *)

\* Whatever is walked, a new table ends where there was nothing.
LEMMA LinkedWalk ==
    ASSUME NEW d \in Depths, Typed, Inv(d), LinkTable, NEW r \in Roots, NEW p \in Path,
           NEW g, Walk(g, mem, r, p, Levels), NEW h, Walk(h, mem', r, p, Levels)
    PROVE  /\ \A n \in 0..Levels : g[n] # Absent => h[n] = g[n]
           /\ h[Levels] = g[Levels]
<1> USE DEF Inv
<1>1. /\ table \in Frame /\ fresh \in Frame /\ d[table] = level /\ d[fresh] = 0
      /\ level \in 1..Levels /\ level < Levels /\ path[level] \in Index
      /\ mem[table][path[level]] = Absent
      /\ \A i \in Index : mem[fresh][i] = Absent
  BY FrameFacts DEF Typed, TypeOK, Layered, Unlinked, Pending, Walking, Tree, Course, LinkTable,
                    Empty
<1>2. \A f \in Frame, i \in Index :
        mem'[f][i] = IF f = table /\ i = path[level] THEN fresh ELSE mem[f][i]
  BY <1>1 DEF LinkTable, Typed, TypeOK
<1> DEFINE Good(n) == h[n] = g[n] \/ (g[n] = Absent /\ n < Levels /\ h[n] = fresh)
           T == {n \in 0..Levels : ~Good(n)}
<1>3. \A n \in 0..Levels : Good(n)
  <2> SUFFICES ASSUME NEW t \in T PROVE FALSE
    OBVIOUS
  <2>1. PICK j \in T : \A i \in T : j <= i
    <3>1. T \in SUBSET Nat
      OBVIOUS
    <3> HIDE DEF T
    <3> QED BY <3>1, LeastElement, Zenon
  <2>2. j # 0
    <3>1. Good(0)
      BY WalkFacts
    <3> QED BY <2>1, <3>1
  <2>3. j \in 1..Levels /\ j - 1 \in 0..Levels /\ j \in Nat /\ ~(j <= j - 1)
    BY <2>1, <2>2
  <2>4. Good(j - 1)
    <3> HIDE DEF Good
    <3> QED BY <2>1, <2>3
  <2>5. h[j] = IF h[j - 1] \in {Absent, Garbage} THEN h[j - 1] ELSE mem'[h[j - 1]][p[j]]
    BY <2>3, WalkFacts
  <2>6. p[j] \in Index
    BY <2>3, FrameFacts
  <2>7. CASE g[j - 1] = Absent
    <3>1. g[j] = Absent
      BY <2>3, <2>7, AbsentStays
    <3>2. h[j - 1] = Absent \/ h[j - 1] = fresh
      BY <2>4, <2>7
    <3>3. fresh # table /\ mem'[fresh][p[j]] = Absent
      BY <1>1, <1>2, <2>6
    <3>4. h[j] = Absent
      BY <1>1, <2>5, <3>2, <3>3, FrameFacts
    <3> QED BY <2>1, <3>1, <3>4
  <2>8. CASE g[j - 1] # Absent
    <3>1. h[j - 1] = g[j - 1]
      BY <2>4, <2>8
    <3>2. g[j - 1] \in Frame /\ d[g[j - 1]] = j /\ g[j] = mem[g[j - 1]][p[j]]
      BY <2>3, <2>8, OnTables
    <3>3. h[j] = mem'[g[j - 1]][p[j]]
      BY <2>5, <3>1, <3>2, FrameFacts
    <3>4. CASE g[j - 1] = table /\ p[j] = path[level]
      <4>1. h[j] = fresh /\ g[j] = Absent /\ j < Levels
        BY <1>1, <1>2, <3>2, <3>3, <3>4
      <4> QED BY <2>1, <4>1
    <3>5. CASE ~(g[j - 1] = table /\ p[j] = path[level])
      <4>1. h[j] = g[j]
        BY <1>2, <2>6, <3>2, <3>3, <3>5
      <4> QED BY <2>1, <4>1
    <3> QED BY <3>4, <3>5
  <2> QED BY <2>7, <2>8
<1>4. Levels \in 0..Levels /\ ~(Levels < Levels)
  OBVIOUS
<1> QED BY <1>3, <1>4

LEMMA LinkTableView == ASSUME NEW d \in Depths, Typed, Inv(d), LinkTable PROVE View' = View
<1>1. \A r \in Roots, p \in Path : Translate(mem', r, p) = Translate(mem, r, p)
  <2> SUFFICES ASSUME NEW r \in Roots, NEW p \in Path
               PROVE  Translate(mem', r, p) = Translate(mem, r, p)
    OBVIOUS
  <2>1. PICK g : Walk(g, mem, r, p, Levels) /\ Translate(mem, r, p) = g[Levels]
    BY TranslateIsWalk
  <2>2. PICK h : Walk(h, mem', r, p, Levels) /\ Translate(mem', r, p) = h[Levels]
    BY TranslateIsWalk
  <2> QED BY <2>1, <2>2, LinkedWalk
<1>2. cr3 \in Roots /\ LimineRoot \in Roots /\ cr3' = cr3
  BY DEF Roots, LinkTable
<1> QED BY <1>1, <1>2 DEF View

LEMMA LinkTableRoute ==
    ASSUME NEW d \in Depths, Typed, Inv(d), Route, LinkTable PROVE Route'
<1> USE DEF Walking
<1>1. /\ pc = "link" /\ pc' = "walk" /\ cr3' = cr3 /\ path' = path /\ table' = fresh
      /\ level' = level + 1 /\ table \in Frame /\ fresh \in Frame
      /\ mem' = [mem EXCEPT ![table][path[level]] = fresh]
      /\ level \in 1..Levels /\ path \in Path /\ path[level] \in Index
  BY FrameFacts DEF LinkTable, Typed, TypeOK
<1>2. PICK g : Walk(g, mem, cr3, path, Levels) /\ g[Levels] = Absent /\ g[level - 1] = table
  BY <1>1 DEF Route
<1>3. PICK h : Walk(h, mem', cr3, path, Levels)
  BY WalkExists
<1>4. cr3 \in Roots /\ level - 1 \in 0..Levels /\ level' - 1 = level
  BY <1>1 DEF Roots
<1>5. h[Levels] = Absent /\ h[level - 1] = table
  <2>1. path \in Path /\ cr3 \in Roots
    BY <1>1, <1>4
  <2>2. (\A n \in 0..Levels : g[n] # Absent => h[n] = g[n]) /\ h[Levels] = g[Levels]
    BY <1>2, <1>3, <2>1, LinkedWalk
  <2>3. table # Absent
    BY <1>1, FrameFacts
  <2> QED BY <1>2, <1>4, <2>2, <2>3
<1>6. mem'[table][path[level]] = fresh
  BY <1>1 DEF Typed, TypeOK
<1>7. h[level] = fresh
  <2>1. h[level] = IF h[level - 1] \in {Absent, Garbage} THEN h[level - 1]
                   ELSE mem'[h[level - 1]][path[level]]
    <3>1. \A n \in 1..Levels :
            h[n] = IF h[n - 1] \in {Absent, Garbage} THEN h[n - 1] ELSE mem'[h[n - 1]][path[n]]
      BY <1>3, WalkFacts
    <3> QED BY <1>1, <3>1
  <2> QED BY <1>1, <1>5, <1>6, <2>1, FrameFacts
<1> QED BY <1>1, <1>3, <1>4, <1>5, <1>7 DEF Route

\* The entry of the page changes the walk to it and to no other page.
LEMMA WrittenWalk ==
    ASSUME NEW d \in Depths, Typed, Inv(d), Route, WriteEntry, NEW r \in Roots, NEW p \in Path,
           r = cr3 \/ r = LimineRoot
    PROVE  Translate(mem', r, p) = IF p = path /\ (r = cr3 \/ p[1] \in Shared) THEN target
                                   ELSE Translate(mem, r, p)
<1> USE DEF Inv, Walking
<1>1. /\ table \in Frame /\ target \in Frame /\ level = Levels /\ d[table] = Levels
      /\ path \in Path /\ path[Levels] \in Index /\ cr3 # LimineRoot
  <2>1. Levels \in 1..Levels
    OBVIOUS
  <2>2. path \in Path /\ level = Levels
    BY FrameFacts DEF Typed, WriteEntry
  <2> QED BY <2>1, <2>2, FrameFacts DEF Typed, TypeOK, Layered, Tree, Course, WriteEntry
<1>2. \A f \in Frame, i \in Index :
        mem'[f][i] = IF f = table /\ i = path[Levels] THEN target ELSE mem[f][i]
  BY <1>1 DEF WriteEntry, Typed, TypeOK
<1>3. PICK o : Walk(o, mem, cr3, path, Levels) /\ o[Levels] = Absent /\ o[Levels - 1] = table
  BY <1>1 DEF Route, WriteEntry
<1>4. PICK g : Walk(g, mem, r, p, Levels) /\ Translate(mem, r, p) = g[Levels]
  BY TranslateIsWalk
<1>5. PICK h : Walk(h, mem', r, p, Levels) /\ Translate(mem', r, p) = h[Levels]
  BY TranslateIsWalk
<1>6. /\ 0 \in 0..Levels /\ Levels - 1 \in 0..Levels /\ Levels \in 1..Levels
      /\ Levels - 1 \in 1..(Levels - 1) /\ Levels - 1 \in 0..(Levels - 1) /\ p[Levels] \in Index
      /\ 1 \in 1..(Levels - 1) /\ Levels - 1 \in 1..Levels
  BY FrameFacts
<1>7. \A n \in 0..(Levels - 1) : g[n] = h[n]
  <2>1. g[0] = h[0]
    BY <1>4, <1>5, WalkFacts
  <2>2. ASSUME NEW n \in 0..((Levels - 1) - 1), g[n] \notin {Absent, Garbage}
        PROVE  mem[g[n]][p[n + 1]] = mem'[g[n]][p[n + 1]]
    <3>1. n + 1 \in 1..Levels /\ (n + 1) - 1 = n /\ n + 1 # Levels
      OBVIOUS
    <3>2. g[(n + 1) - 1] # Absent
      BY <2>2, <3>1
    <3>3. d[g[n]] = n + 1 /\ g[n] \in Frame /\ p[n + 1] \in Index
      BY <1>4, <3>1, <3>2, OnTables, FrameFacts
    <3> QED BY <1>1, <1>2, <3>1, <3>3
  <2> QED BY <1>4, <1>5, <1>6, <2>1, <2>2, Lockstep
<1>8. h[Levels] = IF g[Levels - 1] = table /\ p[Levels] = path[Levels] THEN target ELSE g[Levels]
  <2>1. /\ h[Levels] = IF h[Levels - 1] \in {Absent, Garbage} THEN h[Levels - 1]
                       ELSE mem'[h[Levels - 1]][p[Levels]]
        /\ g[Levels] = IF g[Levels - 1] \in {Absent, Garbage} THEN g[Levels - 1]
                       ELSE mem[g[Levels - 1]][p[Levels]]
    BY <1>4, <1>5, <1>6, WalkFacts
  <2>2. g[Levels - 1] = h[Levels - 1]
    BY <1>6, <1>7
  <2>3. g[Levels - 1] = Absent \/ g[Levels - 1] \in Frame
    BY <1>4, <1>6, OnTables
  <2> QED BY <1>1, <1>2, <1>6, <2>1, <2>2, <2>3, FrameFacts
<1>9. cr3 \in Roots /\ LimineRoot \in Roots /\ table # Absent /\ Layered(d) /\ LinkedOnce(d) /\ Halves
  BY <1>1, FrameFacts DEF Roots, Tree
<1>10. ASSUME g[Levels - 1] = table, p[Levels] = path[Levels]
       PROVE  p = path /\ (r = cr3 \/ p[1] \in Shared)
  <2>1. \A n \in 1..(Levels - 1) : p[n] = path[n] /\ g[n] = o[n] /\ g[n] # Absent
    BY <1>1, <1>3, <1>4, <1>6, <1>9, <1>10, UniquePath
  <2>2. \A n \in 1..Levels : p[n] = path[n]
    BY <1>10, <2>1
  <2>3. p = path
    BY <1>1, <2>2 DEF Path
  <2>4. ASSUME r = LimineRoot PROVE p[1] \in Shared
    BY <1>1, <1>3, <1>4, <1>6, <1>9, <2>1, <2>3, <2>4, SlotShared
  <2> QED BY <2>3, <2>4
<1>11. ASSUME p = path, r = cr3 \/ p[1] \in Shared PROVE g[Levels - 1] = table
  <2>1. CASE r = cr3
    <3>1. g[0] = o[0]
      BY <1>3, <1>4, <2>1, WalkFacts
    <3>2. \A n \in 0..(Levels - 1) : g[n] = o[n]
      BY <1>3, <1>4, <1>6, <1>11, <2>1, <3>1, Lockstep
    <3> QED BY <1>3, <1>6, <3>2
  <2>2. CASE r = LimineRoot /\ p[1] \in Shared
    BY <1>1, <1>3, <1>4, <1>6, <1>9, <1>11, <2>2, SlotShared
  <2> QED BY <1>11, <2>1, <2>2
<1> QED BY <1>4, <1>5, <1>8, <1>10, <1>11
LEMMA RouteStep == ASSUME Settled, [Next]_vars PROVE Route'
<1>1. Typed /\ Route
  BY DEF Settled, IInv
<1>2. PICK d \in Depths : Inv(d) /\ Layered(d)
  BY DEF Settled, IInv, Inv
<1>3. CASE EarlyInit \/ PanicOut \/ WriteEntry
  BY <1>3 DEF Route, Walking, EarlyInit, AllocateRoot, ZeroRoot, CloneUpper, LoadCr3, PanicOut,
              WriteEntry
<1>4. CASE GetFrame \/ \E p \in Wanted : AllocatePageAt(p) \/ \E f \in Device : MapVirtual(p, f)
  BY <1>1, <1>4, RouteStarts
<1>5. CASE Descend
  BY <1>1, <1>5, RouteDescends
<1>6. CASE AllocateTable \/ ZeroTable \/ UNCHANGED vars
  <2>1. \A f \in Frame : d[f] > 0 => mem'[f] = mem[f]
    <3>1. CASE ZeroTable
      <4>1. \A f \in Frame : f # fresh => mem'[f] = mem[f]
        BY <1>1, <3>1 DEF ZeroTable, Typed, TypeOK
      <4>2. d[fresh] = 0
        BY <1>2, <3>1 DEF Inv, Unlinked, Pending, ZeroTable
      <4> QED BY <4>1, <4>2
    <3> QED BY <1>6, <3>1 DEF AllocateTable, vars
  <2>2. cr3' = cr3 /\ UNCHANGED <<path, level, table>> /\ (Walking' => Walking)
        /\ (pc' = "want" => pc = "want")
    BY <1>6 DEF AllocateTable, ZeroTable, Walking, vars, call
  <2> QED BY <1>1, <1>2, <2>1, <2>2, RouteFramed
<1>7. CASE LinkTable
  BY <1>1, <1>2, <1>7, LinkTableRoute
<1> QED BY <1>3, <1>4, <1>5, <1>6, <1>7 DEF Next, MapPage

LEMMA SettledInvariance == Spec => []Settled
<1>1. Init => Settled
  BY InvInit, RouteInit DEF Settled
<1>2. Settled /\ [Next]_vars => Settled'
  BY StepKeepsInv, RouteStep DEF Settled
<1> QED BY <1>1, <1>2, PTL DEF Spec

-----------------------------------------------------------------------------
(* The refinement.                                                         *)

LEMMA SharedStays == ASSUME IInv, IInv' PROVE Shared' = Shared
<1>1. mem[LimineRoot] = LimineMem[LimineRoot]
  BY DEF IInv, Inv, Tree, Halves
<1>2. mem'[LimineRoot] = LimineMem[LimineRoot]
  BY DEF IInv, Inv, Tree, Halves
<1> QED BY <1>1, <1>2 DEF Shared

LEMMA InitRefines == Init => PM!Init
<1> SUFFICES ASSUME Init PROVE PM!Init
  OBVIOUS
<1>1. cr3 = LimineRoot /\ IInv
  BY InvInit DEF Init
<1>2. PICK d \in Depths : Layered(d)
  BY <1>1 DEF IInv, Inv
<1>3. ASSUME NEW p \in Path PROVE Translate(mem, LimineRoot, p) \in Frame \cup {Absent}
  <2>1. PICK g : Walk(g, mem, LimineRoot, p, Levels) /\ Translate(mem, LimineRoot, p) = g[Levels]
    BY TranslateIsWalk
  <2>2. Levels \in 0..Levels /\ LimineRoot \in Roots /\ Typed
    BY <1>1 DEF Roots, IInv
  <2>3. g[Levels] = Absent \/ g[Levels] \in Frame
    BY <1>2, <2>1, <2>2, OnTables
  <2> QED BY <2>1, <2>3
<1>4. View = [r \in {"bsp", "ap"} |-> [p \in Path |-> Translate(mem, LimineRoot, p)]]
  BY <1>1 DEF View
<1>5. Shared \subseteq Upper
  BY DEF Shared
<1> QED BY <1>1, <1>3, <1>4, <1>5 DEF PM!Init

\* The switch to our root drops what the boot loader had in the lower half.
LEMMA LoadCr3Refines ==
    ASSUME IInv, IInv', LoadCr3 PROVE PM!Switch
<1>1. PICK d \in Depths : Inv(d)
  BY DEF IInv
<1>2. /\ cr3 = LimineRoot /\ cr3' = fresh /\ mem' = mem /\ fresh \in Frame /\ fresh # LimineRoot
      /\ LimineRoot \in Frame
      /\ \A i \in Index : mem[fresh][i] = IF i \in Upper THEN mem[LimineRoot][i] ELSE Absent
  BY <1>1, FrameFacts DEF IInv, Inv, Typed, TypeOK, Unlinked, Pending, Starting, Tree, Halves,
                          LoadCr3
<1>3. ASSUME NEW p \in Path
      PROVE  Translate(mem, fresh, p) =
               IF p[1] \in Upper THEN Translate(mem, LimineRoot, p) ELSE Absent
  <2>1. PICK g : Walk(g, mem, LimineRoot, p, Levels) /\ Translate(mem, LimineRoot, p) = g[Levels]
    BY TranslateIsWalk
  <2>2. PICK h : Walk(h, mem, fresh, p, Levels) /\ Translate(mem, fresh, p) = h[Levels]
    BY TranslateIsWalk
  <2>3. 1 \in 1..Levels /\ 1 - 1 = 0 /\ 1 \in 0..Levels /\ Levels \in 0..Levels /\ Levels \in 1..Levels
        /\ p[1] \in Index
    BY FrameFacts
  <2>4. g[1] = mem[LimineRoot][p[1]]
    <3>1. g[1] = IF g[1 - 1] \in {Absent, Garbage} THEN g[1 - 1] ELSE mem[g[1 - 1]][p[1]]
      BY <2>1, <2>3, WalkFacts
    <3>2. g[0] = LimineRoot
      BY <2>1, WalkFacts
    <3> QED BY <1>2, <2>3, <3>1, <3>2, FrameFacts
  <2>5. h[1] = mem[fresh][p[1]]
    <3>1. h[1] = IF h[1 - 1] \in {Absent, Garbage} THEN h[1 - 1] ELSE mem[h[1 - 1]][p[1]]
      BY <2>2, <2>3, WalkFacts
    <3>2. h[0] = fresh
      BY <2>2, WalkFacts
    <3> QED BY <1>2, <2>3, <3>1, <3>2, FrameFacts
  <2>6. CASE p[1] \in Upper
    <3>1. g[1] = h[1]
      BY <1>2, <2>3, <2>4, <2>5, <2>6
    <3>2. \A n \in 1..Levels : g[n] = h[n]
      BY <2>1, <2>2, <2>3, <3>1, Lockstep
    <3> QED BY <2>1, <2>2, <2>3, <2>6, <3>2
  <2>7. CASE p[1] \notin Upper
    <3>1. h[1] = Absent
      BY <1>2, <2>3, <2>5, <2>7
    <3>2. \A n \in 1..Levels : h[n] = Absent
      BY <2>2, <2>3, <3>1, AbsentStays
    <3> QED BY <2>2, <2>3, <2>7, <3>2
  <2> QED BY <2>6, <2>7
<1>4. View["ap"] = [p \in Path |-> Translate(mem, LimineRoot, p)]
  BY DEF View
<1>5. View' = [r \in {"bsp", "ap"} |->
                 IF r = "bsp"
                 THEN [p \in Path |-> IF p[1] \in Upper THEN View["ap"][p] ELSE Absent]
                 ELSE View["ap"]]
  BY <1>2, <1>3, <1>4 DEF View
<1>6. DOMAIN View = {"bsp", "ap"} /\ View = [r \in {"bsp", "ap"} |-> View[r]]
  BY DEF View
<1>7. View' = [View EXCEPT !["bsp"] = [p \in Path |-> IF p[1] \in Upper THEN View["ap"][p] ELSE Absent]]
  BY <1>5, <1>6
<1> QED BY <1>2, <1>7, SharedStays DEF PM!Switch

\* The write of the page's entry is the mapping of the page.
LEMMA WriteEntryRefines ==
    ASSUME Settled, IInv', WriteEntry PROVE \E p \in Path : PM!Map(p)
<1>1. PICK d \in Depths : Inv(d)
  BY DEF Settled, IInv
<1>2. Typed /\ Route /\ path \in Path /\ target \in Frame /\ cr3 # LimineRoot /\ cr3' = cr3
  BY <1>1, FrameFacts DEF Settled, IInv, Inv, Typed, TypeOK, Tree, Course, Walking, WriteEntry
<1>3. View["bsp"][path] = Absent
  <2>1. PICK g : Walk(g, mem, cr3, path, Levels) /\ g[Levels] = Absent
    BY <1>2 DEF Route, Walking, WriteEntry
  <2>2. Translate(mem, cr3, path) = Absent
    BY <2>1, TranslationOf
  <2> QED BY <1>2, <2>2 DEF View
<1>4. cr3 \in Roots /\ LimineRoot \in Roots
  BY DEF Roots
<1>5. ASSUME NEW p \in Path
      PROVE  /\ Translate(mem', cr3, p) = IF p = path THEN target ELSE Translate(mem, cr3, p)
             /\ Translate(mem', LimineRoot, p) =
                  IF p = path /\ p[1] \in Shared THEN target ELSE Translate(mem, LimineRoot, p)
  BY <1>1, <1>2, <1>4, WrittenWalk
<1>6. View' = [r \in {"bsp", "ap"} |->
                 IF r = "bsp" \/ path[1] \in Shared
                 THEN [View[r] EXCEPT ![path] = target] ELSE View[r]]
  <2>1. View'["bsp"] = [View["bsp"] EXCEPT ![path] = target]
    BY <1>2, <1>5 DEF View
  <2>2. View'["ap"] = IF path[1] \in Shared THEN [View["ap"] EXCEPT ![path] = target] ELSE View["ap"]
    BY <1>2, <1>5 DEF View
  <2>3. View' = [r \in {"bsp", "ap"} |-> View'[r]]
    BY DEF View
  <2> QED BY <2>1, <2>2, <2>3
<1>7. View'["bsp"][path] = target
  BY <1>2, <1>5 DEF View
<1>8. PM!Map(path)
  BY <1>2, <1>3, <1>6, <1>7, SharedStays DEF PM!Map, Settled
<1> QED BY <1>2, <1>8

LEMMA StepRefines ==
    ASSUME Settled, Settled', [Next]_vars PROVE [PM!Next]_<<View, Shared, cr3 # LimineRoot>>
<1>1. PICK d \in Depths : Inv(d) /\ Layered(d)
  BY DEF Settled, IInv, Inv
<1>2. IInv /\ IInv' /\ Typed /\ Route /\ Shared' = Shared
  BY SharedStays DEF Settled, IInv
<1>3. CASE LoadCr3
  BY <1>2, <1>3, LoadCr3Refines DEF PM!Next
<1>4. CASE WriteEntry
  BY <1>2, <1>4, WriteEntryRefines DEF PM!Next
<1>5. ASSUME cr3' = cr3, View' = View PROVE [PM!Next]_<<View, Shared, cr3 # LimineRoot>>
  BY <1>2, <1>5
<1>6. CASE LinkTable
  BY <1>1, <1>2, <1>5, <1>6, LinkTableView DEF LinkTable
<1>7. CASE ZeroRoot \/ CloneUpper \/ ZeroTable
  <2>1. d[fresh] = 0 /\ cr3' = cr3
    BY <1>1, <1>7 DEF Inv, Unlinked, Pending, Starting, ZeroRoot, CloneUpper, ZeroTable
  <2>2. \A f \in Frame : f # fresh => mem'[f] = mem[f]
    BY <1>2, <1>7 DEF Typed, TypeOK, ZeroRoot, CloneUpper, ZeroTable
  <2>3. View' = View
    BY <1>1, <1>2, <2>1, <2>2, ViewFramed
  <2> QED BY <1>5, <2>1, <2>3
<1>8. CASE \/ AllocateRoot \/ Descend \/ AllocateTable \/ GetFrame \/ PanicOut \/ UNCHANGED vars
           \/ \E p \in Wanted : AllocatePageAt(p) \/ \E f \in Device : MapVirtual(p, f)
  <2>1. mem' = mem /\ cr3' = cr3
    BY <1>8 DEF AllocateRoot, Descend, AllocateTable, GetFrame, PanicOut, AllocatePageAt,
                MapVirtual, vars
  <2>2. View' = View
    BY <2>1 DEF View
  <2> QED BY <1>5, <2>1, <2>2
<1> QED BY <1>3, <1>4, <1>6, <1>7, <1>8 DEF Next, EarlyInit, MapPage

\* The page tables implement the abstract page map: what a mapping adds is
\* that one translation, seen on the other cores' root exactly below a slot
\* the boot loader had filled, and no other step of EarlyInit or MapPage
\* changes any translation of any root (init.cpp:142-162, vmm.cpp:24-59).
THEOREM Refinement == Spec => RefinesPageMap
<1>1. Init => PM!Init
  BY InitRefines
<1>2. Settled /\ Settled' /\ [Next]_vars => [PM!Next]_<<View, Shared, cr3 # LimineRoot>>
  BY StepRefines
<1> QED BY <1>1, <1>2, SettledInvariance, PTL DEF Spec, RefinesPageMap, PM!Spec
=============================================================================
