\* A large file before two that fit, then an empty one; the device and the digest may fail, files grow, shrink and vanish.
CONSTANTS
    fa = fa
    fb = fb
    fc = fc
    fd = fd
    NoFile = NoFile
    Files = {fa, fb, fc, fd}
    StatSize <- MixedSizes
    Batches <- MixedBatches
    SlotCount = 3
    SlotBytes = 2
    SqCapacity = 4
    Faults = {"io", "consumer"}
    FsOps = {"grow", "shrink", "vanish"}
    MaxChanges = 2
SPECIFICATION FairSpec
INVARIANTS TypeOK CleanBatchIsExact ErrnoIsRootCause
PROPERTY EveryBatchEnds
