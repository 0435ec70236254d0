----------------------------- MODULE AtomicRead -----------------------------
(***************************************************************************)
(* What a caller of bc_duplicate_reader_consume_file expects of it: the     *)
(* bytes it feeds to the digest are what the file held at one instant,      *)
(* unless another process rewrote what was already read or the kernel       *)
(* returned less than there was.  The ring reader's fallback and the full   *)
(* pass are modelled on top of this promise.                                *)
(***************************************************************************)
EXTENDS Sequences

CONSTANT Bytes

VARIABLES
    file,        \* what the file holds
    torn,        \* the file was rewritten under the reader, or a read came up short
    result,      \* the bytes fed to the digest
    status       \* "reading", "done" or "failed"

vars == <<file, torn, result, status>>

Init ==
    /\ file \in Seq(Bytes)
    /\ torn = FALSE
    /\ result = <<>>
    /\ status = "reading"

Change ==
    /\ file' \in Seq(Bytes)
    /\ torn' \in {torn, TRUE}
    /\ UNCHANGED <<result, status>>

ReadAll ==
    /\ status = "reading"
    /\ result' = file \/ (torn' /\ result' \in Seq(Bytes))
    /\ torn' \in {torn, TRUE}
    /\ status' = "done"
    /\ UNCHANGED file

Fail ==
    /\ status = "reading"
    /\ status' = "failed"
    /\ UNCHANGED <<file, torn, result>>

Next == Change \/ ReadAll \/ Fail

Spec == Init /\ [][Next]_vars

(* The read comes to an end. *)
Ends == <>(status # "reading")
=============================================================================
