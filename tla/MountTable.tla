----------------------------- MODULE MountTable -----------------------------
(***************************************************************************)
(* The table of mounted filesystems (vfs.cpp).  A call runs alone and is   *)
(* one step; one that follows a null pointer ends in a page fault, since   *)
(* EarlyInit maps nothing in the lower half of the address space, and      *)
(* never returns.                                                          *)
(***************************************************************************)
EXTENDS Integers

CONSTANTS
    Prefixes,         \* the strings callers pass, by their contents
    Root,             \* "/"
    Filesystems,
    Null,             \* a null pointer to a string or to a filesystem
    KRNL_MAX_MOUNTS

VARIABLES
    MountedFilesystems,
    MountedFSIndex,
    last              \* the last call, its argument and what it returned

vars == <<MountedFilesystems, MountedFSIndex, last>>

Slot == 0..(KRNL_MAX_MOUNTS - 1)
Empty == [prefix |-> Null, fs |-> Null]
Fault == "page fault"

Init ==
    /\ MountedFilesystems = [i \in Slot |-> Empty]
    /\ MountedFSIndex = 0
    /\ last = [op |-> "none", prefix |-> Null, result |-> "SUCCESS"]

\* strcmp reads the first character of both strings before it decides.
strcmp(s1, s2) ==
    IF s1 = Null \/ s2 = Null THEN Fault
    ELSE IF s1 = s2 THEN "equal" ELSE "different"

\* The scan ends at the first slot that matches or that cannot be read.
AllreadyMounted(prefix) ==
    LET ends == {i \in Slot : strcmp(prefix, MountedFilesystems[i].prefix) # "different"}
    IN  IF ends = {} THEN "different"
        ELSE LET i == CHOOSE i \in ends : \A j \in ends : i <= j
             IN  strcmp(prefix, MountedFilesystems[i].prefix)

Return(f, prefix, result) == last' = [op |-> f, prefix |-> prefix, result |-> result]

Mount(prefix, fs) ==
    \/ /\ prefix = Null
       /\ Return("mount", prefix, "EINVAL")
       /\ UNCHANGED <<MountedFilesystems, MountedFSIndex>>
    \/ /\ prefix # Null /\ MountedFSIndex + 1 >= KRNL_MAX_MOUNTS
       /\ Return("mount", prefix, "-ENFILE")
       /\ UNCHANGED <<MountedFilesystems, MountedFSIndex>>
    \/ /\ prefix # Null /\ MountedFSIndex + 1 < KRNL_MAX_MOUNTS
       /\ LET found == AllreadyMounted(prefix) IN
          \/ /\ found # "different"
             /\ Return("mount", prefix, IF found = Fault THEN Fault ELSE "-EEXIST")
             /\ UNCHANGED <<MountedFilesystems, MountedFSIndex>>
          \/ /\ found = "different"
             /\ MountedFilesystems' =
                  [MountedFilesystems EXCEPT ![MountedFSIndex] = [prefix |-> prefix, fs |-> fs]]
             /\ MountedFSIndex' = MountedFSIndex + 1
             /\ Return("mount", prefix, "SUCCESS")

\* The slots the last loop of unmount empties; it faults at an empty one.
Matching(prefix) == {i \in Slot : strcmp(prefix, MountedFilesystems[i].prefix) = "equal"}

Unmount(prefix) ==
    /\ UNCHANGED MountedFSIndex
    /\ \/ /\ prefix = Null
          /\ Return("unmount", prefix, "EINVAL")
          /\ UNCHANGED MountedFilesystems
       \/ /\ prefix # Null /\ AllreadyMounted(prefix) # "equal"
          /\ Return("unmount", prefix,
                    IF AllreadyMounted(prefix) = Fault THEN Fault ELSE "-ENOENT")
          /\ UNCHANGED MountedFilesystems
       \/ /\ prefix # Null /\ AllreadyMounted(prefix) = "equal" /\ prefix = Root
          /\ Return("unmount", prefix, "-EBUSY")
          /\ UNCHANGED MountedFilesystems
       \/ /\ prefix # Null /\ AllreadyMounted(prefix) = "equal" /\ prefix # Root
          /\ MountedFilesystems' =
               [i \in Slot |-> IF i \in Matching(prefix) THEN Empty ELSE MountedFilesystems[i]]
          /\ Return("unmount", prefix,
                    IF \E i \in Slot : MountedFilesystems[i].prefix = Null
                      THEN Fault ELSE "SUCCESS")

Next ==
    /\ last.result # Fault
    /\ \E prefix \in Prefixes \cup {Null} :
          \/ \E fs \in Filesystems : Mount(prefix, fs)
          \/ Unmount(prefix)

Spec == Init /\ [][Next]_vars

-----------------------------------------------------------------------------
\* vfs.cpp:50 says of mount that it "Mounts a filesystem at the provided
\* prefix": unless it refuses the prefix or has no room, the prefix is in the
\* table when mount is done.
MountMounts ==
    last.op = "mount" /\ last.prefix # Null /\ last.result \notin {"-ENFILE", "-EEXIST"}
        => \E i \in Slot : MountedFilesystems[i].prefix = last.prefix

\* Nothing is ever mounted: the index never moves and every slot stays empty.
NothingMounted ==
    /\ MountedFSIndex = 0
    /\ MountedFilesystems = [i \in Slot |-> Empty]
=============================================================================
