-------------------------- MODULE MCThroughputCache --------------------------
(* Two runs on one host and one on another, and one that has no path for    *)
(* the cache; signatures of different lengths, two constants.               *)
EXTENDS ThroughputCache

CacheProcesses == 1 .. 4
CacheHosts == {"desk", "lab"}
CacheHostOf == [p \in CacheProcesses |-> IF p = 3 THEN "lab" ELSE "desk"]
CachePathless == {4}
CacheSignatures == {"short", "long"}
CacheSignatureLength == [s \in CacheSignatures |-> IF s = "short" THEN 1 ELSE 2]
=============================================================================
