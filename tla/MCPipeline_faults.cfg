\* Everything may fail and a signal may come.
CONSTANTS
    p = p
    q = q
    r = r
    z = z
    NoDigest = NoDigest
    Entries = {e1, e2, e3}
    Inodes = {i1, i2, i3}
    Contents = {p, q, r, z}
    SizeOf <- Sizes
    FastOf <- FastHashes
    PrefixOf <- PrefixHashes
    Workers = {w1, w2}
    BatchSize = 2
    Faults = {"memory", "read", "ring", "signal", "output"}
SPECIFICATION Spec
SYMMETRY Symmetry
INVARIANTS TypeOK HashedGroupsAreIdentical
PROPERTY FindsDuplicates
