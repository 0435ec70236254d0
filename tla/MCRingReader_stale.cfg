\* Completions left by a batch whose wait failed are taken for those of the next one.
CONSTANTS
    fa = fa
    fb = fb
    fc = fc
    fd = fd
    NoFile = NoFile
    Files = {fa, fb, fc}
    StatSize <- SmallSizes
    Batches <- TwoBatches
    SlotCount = 2
    SlotBytes = 2
    SqCapacity = 4
    Faults = {"wait"}
    FsOps = {}
    MaxChanges = 0
SPECIFICATION Spec
INVARIANT AcceptedBytesAreOwn
