--------------------------- MODULE MCGroupByHash ---------------------------
(* Every array of up to MaxEntries keys with every list of parent groups.   *)
EXTENDS GroupByHash
=============================================================================
