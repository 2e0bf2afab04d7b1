---------------------------- MODULE AddressSpace ----------------------------
(***************************************************************************)
(* The page tables of GooseOS.  Arch::EarlyInit gives the BSP a root table *)
(* of its own that shares the boot loader's upper half; the other cores    *)
(* stay on the boot loader's root.  VMM::MapPage then walks down the BSP's *)
(* root and adds the tables it misses, while the hardware of every core    *)
(* may be walking the same tables.                                         *)
(***************************************************************************)
EXTENDS Naturals, Sequences, FiniteSets

CONSTANTS
    Levels,     \* 4: PML4, PDPT, PD and PT
    Index,      \* 0..511
    Upper,      \* 256..511, the half of the root that is cloned
    Pool,       \* the frames the PMM has to hand out, by number
    Device,     \* frames outside the PMM that get mapped (the IOAPIC's)
    LimineRoot, \* the root table of the boot loader
    LimineMem,  \* its tables, as a function from frames
    LimineLevel,\* the level of each of them, 1 for the root
    Wanted,     \* bound: the pages MapPage is called for
    Absent,     \* an entry whose present bit is clear
    Garbage     \* an entry of a table nobody has written

Known == DOMAIN LimineMem
Linked == {LimineMem[t][i] : t \in Known, i \in Index} \ {Absent}
Frame == Pool \cup Device \cup Known \cup Linked
Entry == Frame \cup {Absent, Garbage}
Path == [1..Levels -> Index]

ASSUME LevelAssumption == Levels \in Nat \ {0, 1} /\ Upper \subseteq Index
ASSUME TableAssumption ==
    /\ LimineRoot \in Known
    /\ \A t \in Known : LimineMem[t] \in [Index -> Entry \ {Garbage}]
    /\ Pool \subseteq Nat /\ Pool \cap (Known \cup Device) = {}
    /\ \A t \in Known, i \in Index : LimineMem[t][i] \notin Pool
    /\ Wanted \subseteq Path
\* No table of the boot loader serves two levels, as a recursive slot would.
ASSUME LayerAssumption ==
    /\ LimineLevel \in [Known -> 1..Levels] /\ LimineLevel[LimineRoot] = 1
    /\ \A t \in Known, i \in Index :
         LimineLevel[t] < Levels /\ LimineMem[t][i] # Absent =>
            /\ LimineMem[t][i] \in Known
            /\ LimineLevel[LimineMem[t][i]] = LimineLevel[t] + 1
\* Nor is one linked in two places.
ASSUME TreeAssumption ==
    \A t, u \in Known, i, j \in Index :
        LimineLevel[t] < Levels /\ LimineLevel[u] < Levels
        /\ LimineMem[t][i] # Absent /\ LimineMem[t][i] = LimineMem[u][j] => t = u /\ i = j
ASSUME MarkAssumption ==
    Absent # Garbage /\ {Absent, Garbage} \cap (Known \cup Pool \cup Device) = {}

VARIABLES
    mem,     \* the entries of every frame used as a table
    pool,    \* frames the PMM has left
    cr3,     \* the BSP's root; the other cores' is LimineRoot
    pc,      \* what the BSP does
    path,    \* virt_addr of the running MapPage
    target,  \* its phys_addr
    level,   \* the index GetNextTable is called with
    table,   \* current_table
    fresh    \* the frame AllocatePage returned

vars == <<mem, pool, cr3, pc, path, target, level, table, fresh>>
call == <<path, target, level, table, fresh>>

Phase == {"root", "rootzero", "clone", "cr3", "idle", "want",
          "walk", "zero", "link", "panicked"}
Empty == [i \in Index |-> Absent]

\* What a hardware walk through the memory m finds at the end of a path: the
\* frame, or what stopped it.
Translate(m, root, p) ==
    LET step[n \in 0..Levels] ==
          IF n = 0 THEN root
          ELSE IF step[n - 1] \in {Absent, Garbage} THEN step[n - 1]
          ELSE m[step[n - 1]][p[n]]
    IN  step[Levels]

-----------------------------------------------------------------------------
Init ==
    /\ mem = [f \in Frame |-> IF f \in Known THEN LimineMem[f] ELSE [i \in Index |-> Garbage]]
    /\ pool = Pool
    /\ cr3 = LimineRoot
    /\ pc = "root"
    /\ path = <<>>
    /\ target = LimineRoot /\ level = 1 /\ table = LimineRoot /\ fresh = LimineRoot

\* Variant: the bit of the frame is not set.
Take_Kept(f) ==
    /\ f \in pool /\ \A g \in pool : f <= g
    /\ pool' = pool
    /\ fresh' = f

\* AllocatePage returned its lowest frame; it panics when the pool is empty.
Take(f) ==
    /\ f \in pool /\ \A g \in pool : f <= g
    /\ pool' = pool \ {f}
    /\ fresh' = f

PanicOut ==
    /\ pc \in {"root", "want", "walk"}
    /\ pc = "walk" => mem[table][path[level]] = Absent /\ level < Levels
    /\ pool = {}
    /\ pc' = "panicked"
    /\ UNCHANGED <<mem, pool, cr3, call>>

-----------------------------------------------------------------------------
(* Arch::EarlyInit: a root of our own.                                     *)

AllocateRoot ==
    /\ pc = "root"
    /\ \E f \in pool : Take(f)
    /\ pc' = "rootzero"
    /\ UNCHANGED <<mem, cr3, path, target, level, table>>

ZeroRoot ==
    /\ pc = "rootzero"
    /\ mem' = [mem EXCEPT ![fresh] = Empty]
    /\ pc' = "clone"
    /\ UNCHANGED <<pool, cr3, call>>

\* Variant: the loop over the upper half starts one entry late.
CloneUpper_OffByOne ==
    /\ pc = "clone"
    /\ mem' = [mem EXCEPT ![fresh] =
                 [i \in Index |-> IF i \in Upper /\ i - 1 \in Upper
                                  THEN mem[cr3][i] ELSE mem[fresh][i]]]
    /\ pc' = "cr3"
    /\ UNCHANGED <<pool, cr3, call>>

CloneUpper ==
    /\ pc = "clone"
    /\ mem' = [mem EXCEPT ![fresh] =
                 [i \in Index |-> IF i \in Upper THEN mem[cr3][i] ELSE mem[fresh][i]]]
    /\ pc' = "cr3"
    /\ UNCHANGED <<pool, cr3, call>>

LoadCr3 ==
    /\ pc = "cr3"
    /\ cr3' = fresh
    /\ pc' = "idle"
    /\ UNCHANGED <<mem, pool, call>>

-----------------------------------------------------------------------------
(* MapPage, on a page that is not mapped (vmm.cpp:45).                     *)

\* AllocatePageAt: a frame of the PMM.
AllocatePageAt(p) ==
    /\ pc = "idle"
    /\ Translate(mem, cr3, p) = Absent
    /\ path' = p
    /\ pc' = "want"
    /\ UNCHANGED <<mem, pool, cr3, target, level, table, fresh>>

GetFrame ==
    /\ pc = "want"
    /\ \E f \in pool : Take(f) /\ target' = f
    /\ level' = 1 /\ table' = cr3
    /\ pc' = "walk"
    /\ UNCHANGED <<mem, cr3, path>>

\* MapVirtual and InitIOAPIC: a device's frame.
MapVirtual(p, f) ==
    /\ pc = "idle"
    /\ Translate(mem, cr3, p) = Absent
    /\ path' = p /\ target' = f
    /\ level' = 1 /\ table' = cr3
    /\ pc' = "walk"
    /\ UNCHANGED <<mem, pool, cr3, fresh>>

\* GetNextTable finds the entry present.
Descend ==
    /\ pc = "walk" /\ level < Levels
    /\ mem[table][path[level]] # Absent
    /\ table' = mem[table][path[level]]
    /\ level' = level + 1
    /\ UNCHANGED <<mem, pool, cr3, pc, path, target, fresh>>

\* Variant: the entry's present bit is tested for the page table's entry too.
AllocateTable_Leaf ==
    /\ pc = "walk"
    /\ mem[table][path[level]] = Absent
    /\ \E f \in pool : Take(f)
    /\ pc' = "zero"
    /\ UNCHANGED <<mem, cr3, path, target, level, table>>

\* Variant: the new table is linked first and cleared afterwards.
AllocateTable_Linked ==
    /\ pc = "walk" /\ level < Levels
    /\ mem[table][path[level]] = Absent
    /\ \E f \in pool : Take(f) /\ mem' = [mem EXCEPT ![table][path[level]] = f]
    /\ pc' = "zero"
    /\ UNCHANGED <<cr3, path, target, level, table>>

\* It does not: a table from the PMM, cleared, then linked.
AllocateTable ==
    /\ pc = "walk" /\ level < Levels
    /\ mem[table][path[level]] = Absent
    /\ \E f \in pool : Take(f)
    /\ pc' = "zero"
    /\ UNCHANGED <<mem, cr3, path, target, level, table>>

ZeroTable ==
    /\ pc = "zero"
    /\ mem' = [mem EXCEPT ![fresh] = Empty]
    /\ pc' = "link"
    /\ UNCHANGED <<pool, cr3, call>>

LinkTable ==
    /\ pc = "link"
    /\ mem' = [mem EXCEPT ![table][path[level]] = fresh]
    /\ table' = fresh
    /\ level' = level + 1
    /\ pc' = "walk"
    /\ UNCHANGED <<pool, cr3, path, target, fresh>>

\* The entry of the page itself, and invlpg.
WriteEntry ==
    /\ pc = "walk" /\ level = Levels
    /\ mem' = [mem EXCEPT ![table][path[level]] = target]
    /\ pc' = "idle"
    /\ UNCHANGED <<pool, cr3, call>>

EarlyInit == AllocateRoot \/ ZeroRoot \/ CloneUpper \/ LoadCr3
MapPage == Descend \/ AllocateTable \/ ZeroTable \/ LinkTable \/ WriteEntry
Next ==
    \/ EarlyInit \/ MapPage \/ GetFrame \/ PanicOut
    \/ \E p \in Wanted : AllocatePageAt(p) \/ \E f \in Device : MapVirtual(p, f)

Spec == Init /\ [][Next]_vars

-----------------------------------------------------------------------------
TypeOK ==
    /\ mem \in [Frame -> [Index -> Entry]]
    /\ pool \subseteq Pool
    /\ cr3 \in Frame /\ table \in Frame /\ fresh \in Frame /\ target \in Frame
    /\ pc \in Phase
    /\ path \in Wanted \cup {<<>>}
    /\ level \in 1..Levels

Roots == {cr3, LimineRoot}

\* Whenever any core's hardware walks, from either root, whatever MapPage is
\* in the middle of, it meets no entry of a table that nobody has written:
\* tables are cleared before they are linked (vmm.cpp:33-38, init.cpp:145-162).
NoWildTranslation ==
    \A r \in Roots, p \in Path : Translate(mem, r, p) # Garbage

\* The frames that serve as tables of a root, by level.
NamedBy(F) == {mem[t][i] : t \in F, i \in Index} \ {Absent, Garbage}
TablesOfLevel ==
    LET at[n \in 1..Levels] == IF n = 1 THEN Roots ELSE NamedBy(at[n - 1])
    IN  at
Tables == UNION {TablesOfLevel[n] : n \in 1..Levels}

\* A table that was added hangs off exactly one entry, and is never also the
\* memory of a mapped page or still free: no write through one mapping can
\* reach another's tables.
TablesPrivate ==
    LET slots == {s \in Tables \X Index : mem[s[1]][s[2]] \in Pool}
    IN  /\ Tables \cap pool = {}
        /\ \A s, u \in slots : mem[s[1]][s[2]] = mem[u[1]][u[2]] => s = u

\* A page mapped below a top-level slot that the boot loader had filled is
\* seen on both roots, and no other page is: each step of the code is one of
\* the abstract page map, or changes no translation at all.
Shared == {i \in Upper : mem[LimineRoot][i] # Absent}
View == [r \in {"bsp", "ap"} |->
           [p \in Path |-> Translate(mem, IF r = "bsp" THEN cr3 ELSE LimineRoot, p)]]
PM == INSTANCE PageMap WITH
        view <- View, shared <- Shared, own <- cr3 # LimineRoot
RefinesPageMap == PM!Spec
=============================================================================
