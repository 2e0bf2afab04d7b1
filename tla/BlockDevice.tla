----------------------------- MODULE BlockDevice -----------------------------
(***************************************************************************)
(* What blockdevice.hpp promises of a block device: once it is opened, a   *)
(* read puts the contents of a sector into the caller's buffer, a write    *)
(* replaces them by the buffer's, and nothing else changes a sector.       *)
(***************************************************************************)
EXTENDS Naturals

CONSTANTS Byte, SectorSize

VARIABLES
    opened,
    disk,     \* the contents of each sector
    buffer    \* the caller's

Block == [0..(SectorSize - 1) -> Byte]

Init == opened = FALSE /\ disk = <<>> /\ buffer \in Block

Open ==
    /\ ~opened /\ opened' = TRUE
    /\ DOMAIN disk' \subseteq Nat
    /\ \A i \in DOMAIN disk' : 0..i \subseteq DOMAIN disk' /\ disk'[i] \in Block
    /\ UNCHANGED buffer

Fill == buffer' \in Block /\ UNCHANGED <<opened, disk>>

ReadSector ==
    /\ opened
    /\ \E i \in DOMAIN disk : buffer' = disk[i]
    /\ UNCHANGED <<opened, disk>>

WriteSector ==
    /\ opened
    /\ \E i \in DOMAIN disk : disk' = [disk EXCEPT ![i] = buffer]
    /\ UNCHANGED <<opened, buffer>>

Spec == Init /\ [][Open \/ Fill \/ ReadSector \/ WriteSector]_<<opened, disk, buffer>>
=============================================================================
