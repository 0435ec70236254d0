\* Nothing goes wrong but that a signal may come: a run ends, reports the twins and counts them.
CONSTANTS
    p = p
    q = q
    r = r
    z = z
    NoDigest = NoDigest
    Entries = {e1, e2, e3}
    Inodes = {i1, i2, i3}
    Contents = {p, q, z}
    SizeOf <- Sizes
    FastOf <- FastHashes
    PrefixOf <- PrefixHashes
    Workers = {w1, w2}
    BatchSize = 2
    Faults = {"signal"}
SPECIFICATION FairSpec
INVARIANTS TwinsAreReported StatisticsAgree
PROPERTY FindsDuplicates RunEnds EarlySignalStops
