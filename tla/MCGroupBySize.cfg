\* Every array of at most four files; the group array starts with room for one.
CONSTANTS
    Sizes = {1, 2}
    Devices = {1, 2}
    Inodes = {1, 2}
    MaxEntries = 4
    InitialCapacity = 1
    MayFail = TRUE
SPECIFICATION Spec
INVARIANTS TypeOK WritesBehindReads UnreadRunsIntact OneEntryPerInode GroupsAreSizeClasses
