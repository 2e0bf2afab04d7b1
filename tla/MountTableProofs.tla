-------------------------- MODULE MountTableProofs --------------------------
(***************************************************************************)
(* What the mount table does for a table of any size: nothing.             *)
(***************************************************************************)
EXTENDS MountTable, TLAPS

\* As long as every slot is empty, the scan faults at the first of them
\* (vfs.cpp:42).
LEMMA EmptyTableFaults ==
    ASSUME NEW prefix, 0 \in Slot, KRNL_MAX_MOUNTS \in Nat,
           MountedFilesystems = [i \in Slot |-> Empty]
    PROVE  AllreadyMounted(prefix) = Fault
<1> DEFINE ends == {i \in Slot : strcmp(prefix, MountedFilesystems[i].prefix) # "different"}
           least(i) == i \in ends /\ \A j \in ends : i <= j
<1>1. \A i \in Slot : strcmp(prefix, MountedFilesystems[i].prefix) = Fault
  BY DEF strcmp, Empty
<1>2. ends = Slot
  BY <1>1 DEF Fault
<1>3. least(0)
  <2>1. \A j \in Slot : 0 <= j
    BY DEF Slot
  <2> QED
    BY <1>2, <2>1
<1>4. least(CHOOSE i : least(i))
  BY <1>3
<1>5. (CHOOSE i \in ends : \A j \in ends : i <= j) \in Slot
  BY <1>3, <1>2
<1> QED
  BY <1>1, <1>2, <1>3, <1>5 DEF AllreadyMounted

\* No filesystem can ever be mounted: the table stays empty and its index at
\* zero, whatever is called and however large KRNL_MAX_MOUNTS is
\* (vfs.cpp:40-48, 63, 91).
THEOREM NothingIsMounted ==
    ASSUME KRNL_MAX_MOUNTS \in Nat
    PROVE  Spec => []NothingMounted
<1>1. Init => NothingMounted
  BY DEF Init, NothingMounted
<1>2. NothingMounted /\ [Next]_vars => NothingMounted'
  <2> SUFFICES ASSUME NothingMounted, [Next]_vars PROVE NothingMounted'
    OBVIOUS
  <2>1. \A prefix : 0 \in Slot => AllreadyMounted(prefix) = Fault
    BY EmptyTableFaults DEF NothingMounted
  <2>2. ASSUME NEW prefix \in Prefixes \cup {Null}, NEW fs \in Filesystems, Mount(prefix, fs)
        PROVE  NothingMounted'
    <3>1. MountedFSIndex + 1 < KRNL_MAX_MOUNTS => 0 \in Slot
      BY DEF NothingMounted, Slot
    <3>2. Fault # "different"
      BY DEF Fault
    <3>3. MountedFSIndex + 1 < KRNL_MAX_MOUNTS => AllreadyMounted(prefix) # "different"
      BY <2>1, <3>1, <3>2
    <3>4. UNCHANGED <<MountedFilesystems, MountedFSIndex>>
      BY <2>2, <3>3 DEF Mount
    <3> QED
      BY <3>4 DEF NothingMounted
  <2>3. ASSUME NEW prefix \in Prefixes \cup {Null}, Unmount(prefix)
        PROVE  NothingMounted'
    <3>1. CASE AllreadyMounted(prefix) # "equal" \/ prefix = Null
      BY <2>3, <3>1 DEF Unmount, NothingMounted
    <3>2. CASE 0 \notin Slot
      BY <2>3, <3>2 DEF Unmount, NothingMounted, Slot
    <3>3. 0 \in Slot => AllreadyMounted(prefix) # "equal"
      BY <2>1 DEF Fault
    <3> QED
      BY <3>1, <3>2, <3>3
  <2>4. CASE UNCHANGED vars
    BY <2>4 DEF NothingMounted, vars
  <2> QED
    BY <2>2, <2>3, <2>4 DEF Next
<1> QED
  BY <1>1, <1>2, PTL DEF Spec
=============================================================================
