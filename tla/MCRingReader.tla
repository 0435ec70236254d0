---------------------------- MODULE MCRingReader ----------------------------
(* Instances of RingReader for TLC: two batches over one ring, small sizes. *)
EXTENDS RingReader

CONSTANTS fa, fb, fc, fd

(* Two files that fill both slots, then one that fits alone. *)
TwoBatches == <<<<fa, fb>>, <<fc>>>>

SmallSizes == [f \in Files |-> IF f = fa THEN 2 ELSE 1]

(* A file too large for a slot before two that fit, so that items and slots *)
(* are numbered differently; then an empty file.                            *)
MixedBatches == <<<<fa, fb, fc>>, <<fd>>>>

MixedSizes == [f \in Files |-> CASE f = fa -> 3 [] f = fb -> 2 [] f = fc -> 1 [] f = fd -> 0]
=============================================================================
