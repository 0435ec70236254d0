\* The synchronous reader against an atomic read.
SPECIFICATION FairSpec

CONSTANTS
    Bytes <- StreamBytes
    BufferSize = 2
    MaxLength = 5
    MaxChanges = 2
    MaxInterrupts = 1
    Faults <- StreamFaults

INVARIANT TypeOK

PROPERTY ReadsWholeFile
PROPERTY ReaderEnds
