SPECIFICATION Spec
CONSTANTS
    Prefixes = {root, home}
    Root = root
    Filesystems = {fs}
    Null = Null
    KRNL_MAX_MOUNTS = 3
INVARIANTS
    MountMounts
CHECK_DEADLOCK FALSE
