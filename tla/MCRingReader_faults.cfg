\* Submit and wait may fail and the queue may fill: what a batch that began on an idle ring owes.
CONSTANTS
    fa = fa
    fb = fb
    fc = fc
    fd = fd
    NoFile = NoFile
    Files = {fa, fb, fc}
    StatSize <- SmallSizes
    Batches <- TwoBatches
    SlotCount = 2
    SlotBytes = 2
    SqCapacity = 2
    Faults = {"submit", "wait"}
    FsOps = {"grow"}
    MaxChanges = 1
SPECIFICATION Spec
INVARIANTS RingAcceptsOnlyWholeFiles CleanBatchIsExact UntouchedFileAccepted DriveDrainsRing
