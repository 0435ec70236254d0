\* Two files of one size are not hashed: a read fails or a signal comes.
CONSTANTS
    p = p
    q = q
    r = r
    z = z
    NoDigest = NoDigest
    Entries = {e1, e2}
    Inodes = {i1, i2}
    Contents = {p, q}
    SizeOf <- Sizes
    FastOf <- FastHashes
    PrefixOf <- PrefixHashes
    Workers = {w1, w2}
    BatchSize = 2
    Faults = {"read", "signal"}
SPECIFICATION Spec
INVARIANT ReportedFilesAreIdentical
