\* The throughput cache shared by three runs on two hosts.
SPECIFICATION FairSpec

CONSTANTS
    Processes <- CacheProcesses
    Hosts <- CacheHosts
    HostOf <- CacheHostOf
    Pathless <- CachePathless
    Signatures <- CacheSignatures
    SignatureLength <- CacheSignatureLength
    Unreadable = "unreadable"
    Constants = 2
    MaxFaults = 1
    MaxUpgrades = 1

INVARIANT TypeOK
INVARIANT LoadedValuesAreLocal
INVARIANT CompleteCacheIsReused

PROPERTY CacheHeals
