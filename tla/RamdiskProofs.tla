---------------------------- MODULE RamdiskProofs ----------------------------
(***************************************************************************)
(* The ramdisk implements a block device, its writes stay in their sector, *)
(* and the search takes the right module, for every sector size, every     *)
(* memory, every list of modules and whatever the pointer that a search    *)
(* without a result leaves unassigned leads to.                            *)
(***************************************************************************)
EXTENDS Ramdisk, TLAPS

\* A call is under way only once the device is open, one that ran into a page
\* fault stays where it is, and what memcpy has copied so far agrees.
IInv ==
    /\ TypeOK
    /\ op # "none" => pc # "search"
    /\ op # "none" /\ pc = "panicked" => copied < SectorSize /\ At \notin Address
    /\ op # "none" =>
          \A k \in Index :
              k < copied => buffer[k] = mem[RamdiskData.addr + sector * SectorSize + k]

-----------------------------------------------------------------------------
(* Arithmetic of sectors.                                                  *)

LEMMA TimesMonotone ==
    ASSUME NEW a \in Nat, NEW b \in Nat, NEW s \in Nat, a <= b
    PROVE  a * s <= b * s
  OBVIOUS

LEMMA TimesSuccessor ==
    ASSUME NEW a \in Nat, NEW s \in Nat
    PROVE  (a + 1) * s = a * s + s /\ a * s \in Nat
  OBVIOUS

\* The bytes of two sectors are apart.
LEMMA SectorsApart ==
    ASSUME NEW a \in Nat, NEW b \in Nat, a # b,
           NEW s \in Nat, NEW j \in 0..(s - 1), NEW k \in 0..(s - 1)
    PROVE  a * s + j # b * s + k
<1>1. a * s \in Nat /\ b * s \in Nat
  BY TimesSuccessor
<1>2. CASE a < b
  <2>1. a * s + s <= b * s
    BY <1>2, TimesMonotone, TimesSuccessor, a + 1 \in Nat, a + 1 <= b
  <2> QED
    BY <1>1, <2>1
<1>3. CASE b < a
  <2>1. b * s + s <= a * s
    BY <1>3, TimesMonotone, TimesSuccessor, b + 1 \in Nat, b + 1 <= a
  <2> QED
    BY <1>1, <2>1
<1> QED
  BY <1>2, <1>3

\* A sector of the device is in the memory.
LEMMA SectorInAddress ==
    ASSUME RamdiskData.addr \in Nat, NEW n \in Reach, NEW k \in Index
    PROVE  RamdiskData.addr + n * SectorSize + k \in Address
<1>1. n \in Nat /\ RamdiskData.addr + (n + 1) * SectorSize <= MemSize
  BY SizeAssumption DEF Reach
<1>2. (n + 1) * SectorSize = n * SectorSize + SectorSize /\ n * SectorSize \in Nat
  BY <1>1, TimesSuccessor, SizeAssumption
<1> QED
  BY <1>1, <1>2, SizeAssumption DEF Index, Address

-----------------------------------------------------------------------------
(* The inductive invariant.                                                *)

LEMMA InitIInv == Init => IInv
  BY SizeAssumption DEF Init, IInv, TypeOK, Index, Address

\* The search keeps it.
LEMMA SearchIInv ==
    ASSUME IInv, NoModules \/ Skip \/ Found \/ NotFound
    PROVE  IInv'
<1>1. op = "none" /\ op' = "none"
  BY DEF IInv, NoModules, Skip, Found, NotFound
<1>2. ASSUME NEW file, file.address \in Nat, file.size \in Nat, InitDevice(file)
      PROVE  RamdiskData' \in [addr : Nat, sector_size : Nat] /\ size' \in Nat
  <2>1. file.size * SectorSize \in Nat
    BY <1>2, TimesSuccessor, SizeAssumption
  <2> QED
    BY <1>2, <2>1 DEF InitDevice
<1>3. CASE NoModules \/ Skip \/ (NotFound /\ pc' = "panicked" /\ UNCHANGED device)
  BY <1>1, <1>3 DEF IInv, TypeOK, NoModules, Skip, NotFound, search, device
<1>4. CASE Found
  <2>1. i \in 1..Len(modules) /\ modules[i] # Null
    BY <1>4, ModuleAssumption DEF Found, Valid, IInv, TypeOK
  <2>2. modules[i].address \in Nat /\ modules[i].size \in Nat
    BY <2>1, ModuleAssumption DEF IInv, TypeOK
  <2>3. InitDevice(modules[i])
    BY <1>4 DEF Found
  <2>4. RamdiskData' \in [addr : Nat, sector_size : Nat] /\ size' \in Nat
    BY <1>2, <2>2, <2>3
  <2> QED
    BY <1>1, <1>4, <2>3, <2>4 DEF IInv, TypeOK, Found, InitDevice, search
<1>5. ASSUME NotFound, NEW file \in Strays, InitDevice(file)
      PROVE  IInv'
  <2>1. RamdiskData' \in [addr : Nat, sector_size : Nat] /\ size' \in Nat
    BY <1>2, <1>5, SizeAssumption
  <2> QED
    BY <1>1, <1>5, <2>1 DEF IInv, TypeOK, NotFound, InitDevice, search
<1> QED
  BY <1>3, <1>4, <1>5 DEF NotFound

\* So do the calls, one that runs into a page fault included.
LEMMA CallIInv ==
    ASSUME IInv,
           \/ FillBuffer \/ PageFault \/ Return
           \/ \E f \in {"read", "write"}, n \in 0..MaxSector : Call(f, n)
           \/ \E n \in 0..MaxSector : Refuse(n)
    PROVE  IInv'
<1>1. CASE FillBuffer
  <2>1. buffer' \in [Index -> Byte]
    <3>1. PICK b \in Byte : buffer' = [k \in Index |-> IF k = 0 THEN b ELSE buffer[k - 1]]
      BY <1>1 DEF FillBuffer
    <3>2. \A k \in Index : k # 0 => k - 1 \in Index
      BY SizeAssumption DEF Index
    <3> QED
      BY <3>1, <3>2 DEF IInv, TypeOK
  <2> QED
    BY <1>1, <2>1 DEF IInv, TypeOK, FillBuffer, search, device
<1>2. ASSUME NEW f \in {"read", "write"}, NEW n \in 0..MaxSector, Call(f, n)
      PROVE  IInv'
  <2>1. n \in Nat /\ 0 \in 0..SectorSize /\ calls + 1 \in 0..MaxCalls
    BY <1>2, SizeAssumption DEF Call, IInv, TypeOK
  <2>2. \A k \in Index : ~(k < copied')
    BY <1>2, SizeAssumption DEF Call, Index
  <2>3. TypeOK'
    BY <1>2, <2>1 DEF IInv, TypeOK, Call, search, device
  <2> QED
    BY <1>2, <2>2, <2>3 DEF IInv, Call, device
<1>3. ASSUME NEW n \in 0..MaxSector, Refuse(n)
      PROVE  IInv'
  <2>1. calls + 1 \in 0..MaxCalls
    BY <1>3, SizeAssumption DEF Refuse, IInv, TypeOK
  <2> QED
    BY <1>3, <2>1 DEF IInv, TypeOK, Refuse, search, device
<1>4. CASE PageFault \/ Return
  BY <1>4 DEF IInv, TypeOK, PageFault, Return, At, PointerToStartOfSector, search, device
<1> QED
  BY <1>1, <1>2, <1>3, <1>4

\* And the copying, one byte at a time.
LEMMA CopyIInv ==
    ASSUME IInv, CopyIn \/ CopyOut
    PROVE  IInv'
<1>1. copied \in Index /\ copied' = copied + 1 /\ copied' \in 0..SectorSize
  BY SizeAssumption DEF CopyIn, CopyOut, IInv, TypeOK, Index
<1>2. At \in Address /\ sector \in Nat /\ RamdiskData.addr \in Nat
  BY DEF CopyIn, CopyOut, IInv, TypeOK
<1>3. sector * SectorSize \in Nat
  BY <1>2, SizeAssumption, TimesSuccessor
<1>4. At = RamdiskData.addr + sector * SectorSize + copied
  BY DEF At, PointerToStartOfSector
<1>5. \A k \in Index : k < copied' => k < copied \/ k = copied
  BY <1>1 DEF Index
<1>6. pc' # "panicked"
  BY <1>2 DEF CopyIn, CopyOut, IInv
<1>7. CASE CopyIn
  <2>1. buffer' = [buffer EXCEPT ![copied] = mem[At]] /\ mem' = mem
    BY <1>7 DEF CopyIn
  <2>2. buffer' \in [Index -> Byte]
    BY <1>1, <1>2, <2>1 DEF IInv, TypeOK
  <2>3. \A k \in Index : k < copied' =>
            buffer'[k] = mem'[RamdiskData.addr + sector * SectorSize + k]
    BY <1>1, <1>4, <1>5, <1>7, <2>1 DEF IInv, TypeOK, CopyIn
  <2> QED
    BY <1>1, <1>7, <1>6, <2>2, <2>3 DEF IInv, TypeOK, CopyIn, search, device
<1>8. CASE CopyOut
  <2>1. mem' = [mem EXCEPT ![At] = buffer[copied]] /\ buffer' = buffer
    BY <1>8 DEF CopyOut
  <2>2. mem' \in [Address -> Byte]
    BY <1>1, <1>2, <2>1 DEF IInv, TypeOK
  <2>3. ASSUME NEW k \in Index, k < copied'
        PROVE  buffer'[k] = mem'[RamdiskData.addr + sector * SectorSize + k]
    <3>1. RamdiskData.addr + sector * SectorSize + k \in Address
      BY <1>1, <1>2, <1>3, <1>4, <2>3, SizeAssumption DEF Index, Address
    <3>2. CASE k = copied
      BY <1>4, <2>1, <3>1, <3>2 DEF IInv, TypeOK
    <3>3. CASE k < copied
      <4>1. RamdiskData.addr + sector * SectorSize + k # At
        BY <3>3, <1>1, <1>2, <1>3, <1>4 DEF Index
      <4>2. buffer[k] = mem[RamdiskData.addr + sector * SectorSize + k]
        BY <3>3, <1>8 DEF IInv, CopyOut
      <4> QED
        BY <2>1, <3>1, <4>1, <4>2 DEF IInv, TypeOK
    <3> QED
      BY <2>3, <1>5, <3>2, <3>3
  <2> QED
    BY <1>1, <1>8, <1>6, <2>2, <2>3 DEF IInv, TypeOK, CopyOut, search, device
<1> QED
  BY <1>7, <1>8

LEMMA Invariance == Spec => []IInv
<1>1. IInv /\ [Next]_vars => IInv'
  <2> SUFFICES ASSUME IInv, [Next]_vars PROVE IInv'
    OBVIOUS
  <2>1. CASE UNCHANGED vars
    BY <2>1 DEF IInv, TypeOK, At, PointerToStartOfSector, vars, search, device
  <2> QED
    BY <2>1, SearchIInv, CallIInv, CopyIInv DEF Next
<1> QED
  BY InitIInv, <1>1, PTL DEF Spec

\* Every variable keeps its type (ramdisk.cpp).
THEOREM TypeCorrect == Spec => []TypeOK
<1>1. IInv => TypeOK
  BY DEF IInv
<1> QED
  BY Invariance, <1>1, PTL

\* Only a write changes memory, and only the bytes of its own sector
\* (block/ramdisk.cpp:73, utils.hpp:41).
THEOREM StaysContained == Spec => Contained
<1>1. IInv /\ [Next]_vars =>
        [\A a \in Address : mem'[a] # mem[a] => op = "write" /\ a \in Bytes(sector)]_vars
  <2> SUFFICES ASSUME IInv, Next, NEW a \in Address, mem'[a] # mem[a]
               PROVE  op = "write" /\ a \in Bytes(sector)
    OBVIOUS
  <2>1. CopyOut
    BY DEF Next, NoModules, Skip, Found, NotFound, FillBuffer, Call, Refuse, CopyIn,
           PageFault, Return
  <2>2. sector \in Nat /\ RamdiskData.addr \in Nat /\ copied \in 0..(SectorSize - 1)
    BY <2>1, SizeAssumption DEF IInv, TypeOK, CopyOut
  <2>3. sector * SectorSize \in Nat
    BY <2>2, SizeAssumption, TimesSuccessor
  <2>4. At \in Bytes(sector)
    BY <2>2, <2>3, SizeAssumption DEF Bytes, At, PointerToStartOfSector
  <2>5. a = At
    BY <2>1 DEF CopyOut, IInv, TypeOK
  <2> QED
    BY <2>1, <2>4, <2>5 DEF CopyOut
<1> QED
  BY Invariance, <1>1, PTL DEF Spec, Contained

-----------------------------------------------------------------------------
(* The refinement.                                                         *)

LEMMA SectorIsBlock ==
    IInv => \A n \in Reach : SectorInMemory(n) \in Device!Block
<1> SUFFICES ASSUME IInv, NEW n \in Reach
             PROVE  SectorInMemory(n) \in Device!Block
  OBVIOUS
<1>1. \A k \in Index : RamdiskData.addr + n * SectorSize + k \in Address
  BY SectorInAddress DEF IInv, TypeOK
<1> QED
  BY <1>1 DEF IInv, TypeOK, SectorInMemory, Device!Block, Index

\* The memory has whole sectors from the device's first byte on.
LEMMA SectorsInitial ==
    RamdiskData.addr \in Nat => \A m \in Reach : 0..m \subseteq Reach
<1> SUFFICES ASSUME RamdiskData.addr \in Nat, NEW m \in Reach, NEW n \in 0..m
             PROVE  n \in Reach
  OBVIOUS
<1>1. /\ m \in Nat /\ n \in Nat /\ m <= MaxSector
      /\ RamdiskData.addr + (m + 1) * SectorSize <= MemSize
  BY SizeAssumption DEF Reach
<1>2. (n + 1) * SectorSize <= (m + 1) * SectorSize
  BY <1>1, TimesMonotone, SizeAssumption, n + 1 \in Nat, m + 1 \in Nat, n + 1 <= m + 1
<1>3. (n + 1) * SectorSize \in Nat /\ (m + 1) * SectorSize \in Nat
  BY <1>1, TimesSuccessor, SizeAssumption, n + 1 \in Nat, m + 1 \in Nat
<1> QED
  BY <1>1, <1>2, <1>3, SizeAssumption DEF Reach

LEMMA InitRefines == Init => Device!Init
  BY DEF Init, Device!Init, Device!Block, Opened, Disk, Buffer, Index

\* The search stutters until it opens the device.
LEMMA SearchRefines ==
    ASSUME IInv, IInv', NoModules \/ Skip \/ Found \/ NotFound
    PROVE  Device!Open \/ UNCHANGED <<Opened, Disk, Buffer>>
<1>1. op = "none" /\ op' = "none" /\ pc # "ready" /\ buffer' = buffer
  BY DEF IInv, NoModules, Skip, Found, NotFound
<1>2. UNCHANGED Buffer /\ ~Opened /\ (Opened' <=> pc' = "ready")
  BY <1>1 DEF Buffer, Opened
<1>3. CASE pc' # "ready"
  BY <1>2, <1>3 DEF Disk, Opened
<1>4. CASE pc' = "ready"
  <2>1. Disk' = [n \in Reach' |-> SectorInMemory(n)']
    BY <1>1, <1>2, <1>4 DEF Disk
  <2>2. \A n \in Reach' : SectorInMemory(n)' \in (Device!Block)'
    <3>1. (IInv => \A n \in Reach : SectorInMemory(n) \in Device!Block)'
      BY SectorIsBlock, PTL
    <3> QED
      BY <3>1
  <2>3. \A m \in Reach' : 0..m \subseteq Reach'
    <3>1. (RamdiskData.addr \in Nat => \A m \in Reach : 0..m \subseteq Reach)'
      BY SectorsInitial, PTL
    <3> QED
      BY <3>1 DEF IInv, TypeOK
  <2>4. Reach' \subseteq Nat
    BY SizeAssumption DEF Reach
  <2>5. Opened' = TRUE
    BY <1>4 DEF Opened
  <2> QED
    BY <1>2, <2>1, <2>2, <2>3, <2>4, <2>5 DEF Device!Open, Device!Block
<1> QED
  BY <1>3, <1>4

\* Filling the caller's buffer is Fill; a call reads or writes its sector when
\* it begins, or goes where the device has none.
LEMMA CallRefines ==
    ASSUME IInv, IInv',
           \/ FillBuffer
           \/ \E f \in {"read", "write"}, n \in 0..MaxSector : Call(f, n)
           \/ \E n \in 0..MaxSector : Refuse(n)
    PROVE  \/ Device!Fill \/ Device!ReadSector \/ Device!WriteSector
           \/ UNCHANGED <<Opened, Disk, Buffer>>
<1>1. pc = "ready" /\ pc' = "ready" /\ op = "none" /\ mem' = mem
      /\ Reach' = Reach /\ RamdiskData' = RamdiskData
  BY DEF FillBuffer, Call, Refuse, Reach, device
<1>2. \A n : SectorInMemory(n)' = SectorInMemory(n)
  BY <1>1 DEF SectorInMemory
<1>3. Disk = [n \in Reach |-> SectorInMemory(n)] /\ Buffer = buffer
      /\ Opened = TRUE /\ Opened' = TRUE
  BY <1>1 DEF Disk, Buffer, Opened
<1>4. DOMAIN Disk = Reach
  BY <1>3
<1>5. CASE FillBuffer
  <2>1. op' = "none" /\ buffer' \in Device!Block
    BY <1>5, <1>1 DEF FillBuffer, IInv, TypeOK, Device!Block, Index
  <2>2. Disk' = Disk /\ Buffer' = buffer'
    BY <1>1, <1>2, <1>3, <2>1 DEF Disk, Buffer
  <2> QED
    BY <1>3, <2>1, <2>2 DEF Device!Fill
<1>6. ASSUME NEW n \in 0..MaxSector, Refuse(n) PROVE UNCHANGED <<Opened, Disk, Buffer>>
  <2>1. op' = "none" /\ buffer' = buffer
    BY <1>1, <1>6 DEF Refuse
  <2> QED
    BY <1>1, <1>2, <1>3, <2>1 DEF Disk, Buffer
<1>7. ASSUME NEW f \in {"read", "write"}, NEW n \in 0..MaxSector, Call(f, n), n \notin Reach
      PROVE  UNCHANGED <<Opened, Disk, Buffer>>
  <2>1. op' = f /\ sector' = n /\ buffer' = buffer
    BY <1>7 DEF Call
  <2>2. Disk' = [k \in Reach |-> SectorInMemory(k)] /\ Buffer' = buffer
    BY <1>1, <1>2, <1>3, <1>7, <2>1 DEF Disk, Buffer
  <2> QED
    BY <1>3, <2>2
<1>8. ASSUME NEW n \in Reach, Call("read", n) PROVE Device!ReadSector
  <2>1. op' = "read" /\ sector' = n
    BY <1>8 DEF Call
  <2>2. Disk' = Disk /\ Buffer' = SectorInMemory(n)
    BY <1>1, <1>2, <1>3, <1>8, <2>1 DEF Disk, Buffer
  <2> QED
    BY <1>3, <1>4, <2>2 DEF Device!ReadSector
<1>9. ASSUME NEW n \in Reach, Call("write", n) PROVE Device!WriteSector
  <2>1. op' = "write" /\ sector' = n /\ buffer' = buffer
    BY <1>9 DEF Call
  <2>2. Disk' = [k \in Reach |-> IF k = n THEN buffer ELSE SectorInMemory(k)]
    BY <1>1, <1>2, <1>3, <2>1 DEF Disk
  <2>3. Disk' = [Disk EXCEPT ![n] = Buffer] /\ Buffer' = Buffer
    BY <1>3, <2>1, <2>2 DEF Buffer
  <2> QED
    BY <1>3, <1>4, <2>3 DEF Device!WriteSector
<1> QED
  BY <1>5, <1>6, <1>7, <1>8, <1>9

\* Copying into the sectors is invisible.
LEMMA WriteRefines ==
    ASSUME IInv, CopyOut
    PROVE  UNCHANGED <<Opened, Disk, Buffer>>
<1>1. /\ op = "write" /\ op' = "write" /\ buffer' = buffer /\ pc' = pc
      /\ sector' = sector /\ Reach' = Reach /\ RamdiskData' = RamdiskData
  BY DEF CopyOut, Reach, device
<1>2. ASSUME NEW n \in Reach, n # sector
      PROVE  SectorInMemory(n)' = SectorInMemory(n)
  <2>1. ASSUME NEW k \in Index
        PROVE  mem'[RamdiskData.addr + n * SectorSize + k]
                 = mem[RamdiskData.addr + n * SectorSize + k]
    <3>1. n \in Nat /\ sector \in Nat /\ RamdiskData.addr \in Nat /\ copied \in Index
      BY SizeAssumption DEF Reach, IInv, TypeOK, CopyOut, Index
    <3>2. n * SectorSize + k # sector * SectorSize + copied
      BY <1>2, <3>1, SectorsApart, SizeAssumption DEF Index
    <3>3. n * SectorSize \in Nat /\ sector * SectorSize \in Nat
      BY <3>1, TimesSuccessor, SizeAssumption
    <3>4. RamdiskData.addr + n * SectorSize + k # At
      BY <3>1, <3>2, <3>3 DEF At, PointerToStartOfSector, Index
    <3>5. RamdiskData.addr + n * SectorSize + k \in Address
      BY <3>1, SectorInAddress
    <3> QED
      BY <3>4, <3>5 DEF CopyOut, IInv, TypeOK
  <2> QED
    BY <1>1, <2>1 DEF SectorInMemory
<1> QED
  BY <1>1, <1>2 DEF Opened, Disk, Buffer

\* So is copying out of one, and the return; what a read copies before it leaves
\* the memory fills the caller's buffer.
LEMMA ReadRefines ==
    ASSUME IInv, IInv', CopyIn \/ PageFault \/ Return
    PROVE  Device!Fill \/ UNCHANGED <<Opened, Disk, Buffer>>
<1>1. op # "none" /\ mem' = mem /\ sector' = sector
      /\ Reach' = Reach /\ RamdiskData' = RamdiskData
  BY DEF CopyIn, PageFault, Return, Reach, device
<1>2. \A n : SectorInMemory(n)' = SectorInMemory(n)
  BY <1>1 DEF SectorInMemory
<1>3. CASE CopyIn
  <2>1. op = "read" /\ op' = "read" /\ pc' = pc
    BY <1>3 DEF CopyIn
  <2>2. UNCHANGED <<Opened, Disk>>
    BY <1>1, <1>2, <2>1 DEF Opened, Disk
  <2>3. CASE sector \in Reach
    BY <1>1, <1>2, <2>1, <2>2, <2>3 DEF Buffer
  <2>4. CASE sector \notin Reach
    <3>1. Buffer' = buffer' /\ buffer' \in Device!Block
      BY <1>1, <2>4 DEF Buffer, IInv, TypeOK, Device!Block, Index
    <3> QED
      BY <2>2, <3>1 DEF Device!Fill, Device!Block
  <2> QED
    BY <2>3, <2>4
<1>4. CASE PageFault
  <2>1. op' = op /\ buffer' = buffer
    BY <1>4 DEF PageFault
  <2> QED
    BY <1>1, <1>2, <2>1 DEF Opened, Disk, Buffer
<1>5. CASE Return
  <2>1. op' = "none" /\ op \in {"read", "write"} /\ copied = SectorSize
        /\ buffer' = buffer /\ pc' = pc /\ (pc # "search")
    BY <1>5 DEF Return, IInv, TypeOK
  <2>2. buffer = SectorInMemory(sector)
    BY <2>1, SizeAssumption DEF IInv, TypeOK, Index, SectorInMemory
  <2>3. pc = "ready"
    BY <1>5, <2>1 DEF IInv, TypeOK
  <2> QED
    BY <1>1, <1>2, <2>1, <2>2, <2>3 DEF Opened, Disk, Buffer
<1> QED
  BY <1>3, <1>4, <1>5

\* The ramdisk implements the block device of blockdevice.hpp: seen from
\* outside, every call that returns takes effect at once, and one that does not
\* changes no sector (block/ramdisk.cpp:37-84).
THEOREM Refines == Spec => RefinesBlockDevice
<1>1. IInv /\ IInv' /\ [Next]_vars =>
        [Device!Open \/ Device!Fill \/ Device!ReadSector \/ Device!WriteSector]_
            <<Opened, Disk, Buffer>>
  <2> SUFFICES ASSUME IInv, IInv', [Next]_vars
               PROVE  [Device!Open \/ Device!Fill \/ Device!ReadSector
                         \/ Device!WriteSector]_<<Opened, Disk, Buffer>>
    OBVIOUS
  <2>1. CASE UNCHANGED vars
    BY <2>1 DEF vars, search, device, Opened, Disk, Buffer, Reach, SectorInMemory
  <2> QED
    BY <2>1, SearchRefines, CallRefines, ReadRefines, WriteRefines DEF Next
<1> QED
  BY InitRefines, Invariance, <1>1, PTL DEF Spec, Device!Spec, RefinesBlockDevice

-----------------------------------------------------------------------------
(* The search.                                                             *)

\* strcmp compares to the first difference: it finds two strings equal
\* exactly when they are, a name and one that extends it included.
LEMMA StrcmpIsEquality ==
    ASSUME NEW s1, NEW s2, IsString(s1), IsString(s2)
    PROVE  strcmp(s1, s2) <=> s1 = s2
<1> DEFINE m == Len(s1)
           n == Len(s2)
<1>1. /\ m \in Nat /\ n \in Nat
      /\ s1 = [j \in 1..m |-> s1[j]] /\ s2 = [j \in 1..n |-> s2[j]]
      /\ \A j \in 1..m : CharAt(s1, j) = s1[j] /\ s1[j] # "NUL"
      /\ \A j \in 1..n : CharAt(s2, j) = s2[j] /\ s2[j] # "NUL"
      /\ \A j \in Nat : (j > m => CharAt(s1, j) = "NUL") /\ (j > n => CharAt(s2, j) = "NUL")
  BY DEF IsString, CharAt
<1>2. ASSUME strcmp(s1, s2) PROVE s1 = s2
  <2>1. /\ \A k \in 1..m : CharAt(s1, k) = CharAt(s2, k)
        /\ CharAt(s1, m + 1) = CharAt(s2, m + 1)
    BY <1>1, <1>2 DEF strcmp
  <2> HIDE DEF m, n
  <2>2. n <= m
    <3>1. SUFFICES ASSUME m + 1 \in 1..n PROVE FALSE
      BY <1>1
    <3>2. CharAt(s2, m + 1) # "NUL"
      BY <1>1, <3>1
    <3>3. m + 1 \in Nat /\ m + 1 > m
      BY <1>1
    <3>4. CharAt(s1, m + 1) = "NUL"
      BY <1>1, <3>3
    <3> QED BY <2>1, <3>2, <3>4
  <2>3. m <= n
    <3>1. SUFFICES ASSUME n + 1 \in 1..m PROVE FALSE
      BY <1>1
    <3>2. CharAt(s1, n + 1) # "NUL"
      BY <1>1, <3>1
    <3>3. n + 1 \in Nat /\ n + 1 > n
      BY <1>1
    <3>4. CharAt(s2, n + 1) = "NUL"
      BY <1>1, <3>3
    <3> QED BY <2>1, <3>1, <3>2, <3>4
  <2>4. m = n
    BY <1>1, <2>2, <2>3
  <2>5. \A k \in 1..m : s1[k] = s2[k]
    BY <1>1, <2>1, <2>4
  <2> QED BY <1>1, <2>4, <2>5
<1>3. ASSUME s1 = s2 PROVE strcmp(s1, s2)
  <2>1. m + 1 \in 1..(m + 1)
    BY <1>1
  <2> QED BY <1>3, <2>1 DEF strcmp
<1> QED BY <1>2, <1>3

\* While it searches, and where it stopped, no module before is the ramdisk.
Searched ==
    /\ pc \in {"search", "ready"} => \A k \in Named : i <= k
    /\ pc = "ready" /\ Named # {} =>
          i \in Named /\ RamdiskData.addr = modules[i].address /\ size = modules[i].size

\* What strcmp says of a module of the list.
LEMMA ComparedModule ==
    ASSUME IInv, i <= Len(modules), Valid(modules[i])
    PROVE  /\ i \in DOMAIN modules
           /\ strcmp(modules[i].string, RamdiskName) <=> i \in Named
<1>1. i \in 1..Len(modules) /\ DOMAIN modules = 1..Len(modules)
  BY ModuleAssumption DEF IInv, TypeOK
<1>2. IsString(modules[i].string)
  BY <1>1, ModuleAssumption DEF Valid, IInv, TypeOK
<1>3. strcmp(modules[i].string, RamdiskName) <=> modules[i].string = RamdiskName
  BY <1>2, NameAssumption, StrcmpIsEquality
<1> QED BY <1>1, <1>3 DEF Named

LEMMA SearchedStep == ASSUME IInv, Searched, [Next]_vars PROVE Searched'
<1>1. i \in Nat /\ \A k \in Named : k \in Nat /\ k <= Len(modules)
  BY ModuleAssumption DEF Named, IInv, TypeOK
<1>2. CASE Skip
  <2>1. UNCHANGED <<Named, pc>> /\ pc = "search" /\ i' = i + 1
    BY <1>2 DEF Skip, Named
  <2>2. i \notin Named
    <3>1. CASE Valid(modules[i])
      BY <1>2, <3>1, ComparedModule DEF Skip
    <3>2. CASE ~Valid(modules[i])
      BY <3>2 DEF Named
    <3> QED BY <3>1, <3>2
  <2>3. \A k \in Named : i <= k /\ k # i
    BY <2>1, <2>2 DEF Searched
  <2> QED BY <1>1, <2>1, <2>3 DEF Searched
<1>3. CASE Found
  <2>1. UNCHANGED <<Named, modules, i>> /\ pc = "search" /\ pc' = "ready"
    BY <1>3 DEF Found, InitDevice, search, Named
  <2>2. i \in Named
    BY <1>3, ComparedModule DEF Found
  <2> QED BY <1>3, <2>1, <2>2 DEF Searched, Found, InitDevice
<1>4. CASE NoModules \/ PageFault
  BY <1>4 DEF NoModules, PageFault, Searched
<1>5. CASE NotFound
  <2>1. pc = "search" /\ i > Len(modules) /\ UNCHANGED Named
    BY <1>5 DEF NotFound, search, Named
  <2>2. Named = {}
    BY <1>1, <2>1 DEF Searched, IInv, TypeOK
  <2> QED BY <2>1, <2>2 DEF Searched
<1>6. CASE \/ FillBuffer \/ CopyIn \/ CopyOut \/ Return \/ UNCHANGED vars
           \/ \E f \in {"read", "write"}, n \in 0..MaxSector : Call(f, n)
           \/ \E n \in 0..MaxSector : Refuse(n)
  <2>1. UNCHANGED <<Named, modules, i, pc, RamdiskData, size>>
    BY <1>6 DEF FillBuffer, CopyIn, CopyOut, Return, Call, Refuse, vars, search, device, Named
  <2> QED BY <2>1 DEF Searched
<1> QED BY <1>2, <1>3, <1>4, <1>5, <1>6 DEF Next

\* If a module of the list is called "ramdisk", the device is the first of them:
\* the search only comes to its end, and to the unassigned pointer, when there
\* is none (boot/ramdisk.cpp:41-55).
THEOREM RightModuleHolds == Spec => []RightModule
<1>1. Init => Searched
  <2> SUFFICES ASSUME Init PROVE Searched
    OBVIOUS
  <2>1. \A k \in Named : 1 <= k
    BY ModuleAssumption DEF Init, Named
  <2> QED BY <2>1 DEF Init, Searched
<1>2. Spec => []Searched
  BY <1>1, SearchedStep, Invariance, PTL DEF Spec
<1>3. Searched => RightModule
  BY DEF Searched, RightModule, Named
<1> QED BY <1>2, <1>3, PTL
=============================================================================
