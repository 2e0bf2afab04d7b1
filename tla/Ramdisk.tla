------------------------------ MODULE Ramdisk ------------------------------
(***************************************************************************)
(* The ramdisk: GetCurrentRamdisk looks for it among the modules that      *)
(* Limine loaded, Init fills a BlockDevice in, and ReadSector and          *)
(* WriteSector copy a sector byte by byte between the module's memory and  *)
(* the caller's buffer.  InitKernel is the only caller, one call at a      *)
(* time.  Nothing checks a sector number against the module's size: a call *)
(* reaches as far as the memory does.  The memory here is the modules' and *)
(* what lies around them; the driver's own variables are not in it.        *)
(***************************************************************************)
EXTENDS Naturals, Sequences

CONSTANTS
    Byte,
    SectorSize,   \* RAMDISK_SectorSize
    MemSize,      \* bytes of memory, the modules among them; then unmapped
    Images,       \* contents that memory may have at first
    ModuleLists,  \* what Limine may have loaded: sequences of modules
    RamdiskName,  \* "ramdisk", as a sequence of characters
    Strays,       \* what a pointer nobody assigned may point to, read as a module
    Null,         \* a null pointer to a module or to its string
    MaxSector,    \* bound: sector numbers
    MaxCalls      \* bound: reads and writes

Address == 0..(MemSize - 1)
Index == 0..(SectorSize - 1)

ASSUME SizeAssumption ==
    /\ SectorSize \in Nat \ {0} /\ MemSize \in Nat
    /\ MaxSector \in Nat /\ MaxCalls \in Nat
    /\ Strays \subseteq [address : Nat, size : Nat]
    /\ Images \subseteq [Address -> Byte]

\* A string ends before its NUL.
IsString(str) ==
    /\ Len(str) \in Nat /\ str = [j \in 1..Len(str) |-> str[j]]
    /\ \A j \in 1..Len(str) : str[j] # "NUL"

ASSUME NameAssumption == IsString(RamdiskName)

\* The modules that Limine loaded lie in the memory.
ASSUME ModuleAssumption ==
    \A list \in ModuleLists :
        /\ Len(list) \in Nat /\ DOMAIN list = 1..Len(list)
        /\ \A j \in 1..Len(list) :
              \/ list[j] = Null
              \/ /\ list[j].address \in Nat /\ list[j].size \in Nat
                 /\ list[j].address + list[j].size <= MemSize
                 /\ list[j].string = Null \/ IsString(list[j].string)

VARIABLES
    pc,           \* the boot's progress
    modules,      \* module_request.response
    i,            \* the index of the search
    RamdiskData,  \* ramdisk_data
    size,         \* bytes of the module
    mem, buffer,
    op, sector,   \* the call under way
    copied,       \* memcpy's index
    calls

search == <<modules, i>>
device == <<RamdiskData, size>>
vars == <<pc, search, device, mem, buffer, op, sector, copied, calls>>

Init ==
    /\ pc = "search" /\ modules \in ModuleLists /\ i = 1
    /\ RamdiskData = [addr |-> 0, sector_size |-> 0] /\ size = 0
    /\ mem \in Images /\ buffer \in [Index -> Byte]
    /\ op = "none" /\ sector = 0 /\ copied = 0 /\ calls = 0

-----------------------------------------------------------------------------
(* GetCurrentRamdisk and Init.                                             *)

CharAt(str, j) == IF j <= Len(str) THEN str[j] ELSE "NUL"

\* Variant: equal as far as the second string goes.
strcmp_Prefix(s1, s2) ==
    \A j \in 1..Len(s2) : CharAt(s1, j) = s2[j]

\* Up to the first difference or the end of s1; then the characters there
\* are compared.
strcmp(s1, s2) ==
    \E stop \in 1..(Len(s1) + 1) :
        /\ stop = Len(s1) + 1 \/ CharAt(s1, stop) # CharAt(s2, stop)
        /\ \A k \in 1..(stop - 1) : CharAt(s1, k) = CharAt(s2, k)
        /\ CharAt(s1, stop) = CharAt(s2, stop)

Valid(m) == m # Null /\ m.string # Null

\* Limine gives no response when no module is loaded: the assertion panics.
NoModules ==
    /\ pc = "search" /\ modules = <<>>
    /\ pc' = "panicked"
    /\ UNCHANGED <<search, device, mem, buffer, op, sector, copied, calls>>

Skip ==
    /\ pc = "search" /\ i <= Len(modules)
    /\ Valid(modules[i]) => ~strcmp(modules[i].string, RamdiskName)
    /\ i' = i + 1
    /\ UNCHANGED <<pc, modules, device, mem, buffer, op, sector, copied, calls>>

\* Init fills in the device.
InitDevice(file) ==
    /\ RamdiskData' = [addr |-> file.address, sector_size |-> file.size * SectorSize]
    /\ size' = file.size
    /\ pc' = "ready"

Found ==
    /\ pc = "search" /\ i <= Len(modules)
    /\ Valid(modules[i]) /\ strcmp(modules[i].string, RamdiskName)
    /\ InitDevice(modules[i])
    /\ UNCHANGED <<search, mem, buffer, op, sector, copied, calls>>

\* ramdisk_file was never assigned.  If it is null its assertion panics, if it
\* leads to no memory the processor faults, and otherwise the device is filled
\* in from whatever it leads to.
NotFound ==
    /\ pc = "search" /\ modules # <<>> /\ i > Len(modules)
    /\ \/ pc' = "panicked" /\ UNCHANGED device
       \/ \E file \in Strays : InitDevice(file)
    /\ UNCHANGED <<search, mem, buffer, op, sector, copied, calls>>

-----------------------------------------------------------------------------
(* Reading and writing.                                                    *)

FillBuffer ==
    /\ pc = "ready" /\ op = "none"
    /\ \E b \in Byte : buffer' = [k \in Index |-> IF k = 0 THEN b ELSE buffer[k - 1]]
    /\ UNCHANGED <<pc, search, device, mem, op, sector, copied, calls>>

\* Variant: the sectors are counted from one.
PointerToStartOfSector_OneBased(n) == RamdiskData.addr + (n + 1) * SectorSize

PointerToStartOfSector(n) == RamdiskData.addr + n * SectorSize

Call(f, n) ==
    /\ pc = "ready" /\ op = "none" /\ calls < MaxCalls
    /\ PointerToStartOfSector(n) # 0
    /\ op' = f /\ sector' = n /\ copied' = 0
    /\ calls' = calls + 1
    /\ UNCHANGED <<pc, search, device, mem, buffer>>

\* The pointer is null: the call returns kfalse.
Refuse(n) ==
    /\ pc = "ready" /\ op = "none" /\ calls < MaxCalls
    /\ PointerToStartOfSector(n) = 0
    /\ calls' = calls + 1
    /\ UNCHANGED <<pc, search, device, mem, buffer, op, sector, copied>>

\* The byte of the sector that memcpy's loop is at.
At == PointerToStartOfSector(sector) + copied

\* Variant: the copy is ReadSector's, its arguments not swapped.
CopyOut_LikeRead ==
    /\ op = "write" /\ copied < SectorSize /\ At \in Address
    /\ buffer' = [buffer EXCEPT ![copied] = mem[At]]
    /\ copied' = copied + 1
    /\ UNCHANGED <<pc, search, device, mem, op, sector, calls>>

\* Variant: the loop runs once too often.
CopyIn_OneMore ==
    /\ op = "read" /\ copied <= SectorSize /\ At \in Address
    /\ buffer' = [buffer EXCEPT ![copied] = mem[At]]
    /\ copied' = copied + 1
    /\ UNCHANGED <<pc, search, device, mem, op, sector, calls>>

\* One turn of memcpy's loop, in a read and in a write.
CopyIn ==
    /\ op = "read" /\ copied < SectorSize /\ At \in Address
    /\ buffer' = [buffer EXCEPT ![copied] = mem[At]]
    /\ copied' = copied + 1
    /\ UNCHANGED <<pc, search, device, mem, op, sector, calls>>

CopyOut ==
    /\ op = "write" /\ copied < SectorSize /\ At \in Address
    /\ mem' = [mem EXCEPT ![At] = buffer[copied]]
    /\ copied' = copied + 1
    /\ UNCHANGED <<pc, search, device, buffer, op, sector, calls>>

\* There is no memory at the byte: a page fault, and ISRHandler's panic.
PageFault ==
    /\ pc = "ready" /\ op # "none" /\ copied < SectorSize /\ At \notin Address
    /\ pc' = "panicked"
    /\ UNCHANGED <<search, device, mem, buffer, op, sector, copied, calls>>

\* The call returns ktrue.
Return ==
    /\ op # "none" /\ copied = SectorSize
    /\ op' = "none"
    /\ UNCHANGED <<pc, search, device, mem, buffer, sector, copied, calls>>

Next ==
    \/ NoModules \/ Skip \/ Found \/ NotFound
    \/ FillBuffer
    \/ \E f \in {"read", "write"}, n \in 0..MaxSector : Call(f, n)
    \/ \E n \in 0..MaxSector : Refuse(n)
    \/ CopyIn \/ CopyOut \/ PageFault \/ Return

Spec == Init /\ [][Next]_vars

-----------------------------------------------------------------------------
TypeOK ==
    /\ pc \in {"search", "panicked", "ready"}
    /\ modules \in ModuleLists /\ i \in Nat \ {0}
    /\ RamdiskData \in [addr : Nat, sector_size : Nat] /\ size \in Nat
    /\ mem \in [Address -> Byte] /\ buffer \in [Index -> Byte]
    /\ op \in {"none", "read", "write"} /\ sector \in Nat
    /\ copied \in 0..SectorSize /\ calls \in 0..MaxCalls

Named == {k \in DOMAIN modules : Valid(modules[k]) /\ modules[k].string = RamdiskName}

\* If a module is called "ramdisk", the device is the first of them, however
\* many invalid or similarly named ones Limine lists around it, and never what
\* the unassigned pointer leads to (boot/ramdisk.cpp:41-55).
RightModule ==
    pc = "ready" /\ Named # {} =>
        \E k \in Named :
            /\ \A j \in Named : k <= j
            /\ RamdiskData.addr = modules[k].address
            /\ size = modules[k].size

\* Where a sector lies.
Bytes(n) == LET start == RamdiskData.addr + n * SectorSize
            IN  start..(start + SectorSize - 1)

\* Whatever the sector number, and whatever the device was made of, only a
\* write changes memory, and only the bytes of its own sector: not those of a
\* neighbour, nor what lies before a module that begins at no multiple of the
\* sector size (block/ramdisk.cpp:73, utils.hpp:41).
Contained ==
    [][\A a \in Address : mem'[a] # mem[a] => op = "write" /\ a \in Bytes(sector)]_vars

\* The ramdisk implements a block device (blockdevice.hpp): each call that
\* returns takes effect at once when it begins, though its bytes are copied one
\* by one; one that runs into a page fault changes no sector.  The device has
\* every sector that lies in the memory, those behind the module too.
Reach == {n \in 0..MaxSector : RamdiskData.addr + (n + 1) * SectorSize <= MemSize}
Opened == pc = "ready" \/ op # "none"
SectorInMemory(n) ==
    [k \in Index |-> mem[RamdiskData.addr + n * SectorSize + k]]
Disk ==
    IF Opened
      THEN [n \in Reach |-> IF op = "write" /\ n = sector THEN buffer
                            ELSE SectorInMemory(n)]
      ELSE <<>>
Buffer == IF op = "read" /\ sector \in Reach THEN SectorInMemory(sector) ELSE buffer

Device == INSTANCE BlockDevice
            WITH opened <- Opened, disk <- Disk, buffer <- Buffer
RefinesBlockDevice == Device!Spec
=============================================================================
