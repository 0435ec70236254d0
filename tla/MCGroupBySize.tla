--------------------------- MODULE MCGroupBySize ---------------------------
(* Every array of up to MaxEntries files over two or three sizes and two   *)
(* inode numbers on one or two devices.                                    *)
EXTENDS GroupBySize
=============================================================================
