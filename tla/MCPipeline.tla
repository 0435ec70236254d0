----------------------------- MODULE MCPipeline -----------------------------
(* Instances of Pipeline for TLC.                                           *)
EXTENDS Pipeline, TLC

CONSTANTS p, q, r, z

(* p and q differ only between the first and the last block, so their fast  *)
(* hashes agree (on the value an unhashed entry starts with); r has another *)
(* fast hash; z another size.                                               *)
Sizes == [c \in Contents |-> IF c = z THEN 1 ELSE 2]
FastHashes == [c \in Contents |-> IF c \in {p, q} THEN 0 ELSE 1]

(* p and q are long enough to have a suffix block. *)
PrefixHashes == [c \in Contents |-> IF c \in {p, q} THEN 2 ELSE 1]

Symmetry == Permutations(Entries) \cup Permutations(Inodes) \cup Permutations(Workers)
=============================================================================
