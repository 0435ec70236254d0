--------------------------- MODULE MCStreamReader ---------------------------
(* Two bytes, a buffer of two: files of no, one, full and two and a half    *)
(* buffers, with two changes at any moment and every fault.                 *)
EXTENDS StreamReader

StreamBytes == {0, 1}
StreamFaults == {"noatime", "open", "read", "short", "consumer"}
=============================================================================
