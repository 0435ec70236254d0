---------------------------- MODULE StreamReader ----------------------------
(***************************************************************************)
(* bc_duplicate_reader_consume_file (worker/bc_duplicate_worker_reader.c):  *)
(* open, read blocks of BufferSize bytes until one comes back short or      *)
(* empty, feed each to the consumer.  Between two reads other processes may *)
(* append to the file, truncate it or overwrite it; the size discovery saw  *)
(* (file_size_hint) only decides about posix_fadvise and is left out.       *)
(***************************************************************************)
EXTENDS Integers, SequencesExt

CONSTANTS
    Bytes,
    BufferSize,     \* BC_DUPLICATE_READER_STREAM_BUFFER_SIZE
    MaxLength,      \* bound on the length of the file
    MaxChanges,     \* bound on the changes by other processes
    MaxInterrupts,  \* bound on the reads a signal interrupts
    Faults          \* which of the calls the code checks may fail

Lengths == 0 .. MaxLength
FileStates == UNION {[1 .. k -> Bytes] : k \in Lengths}

ASSUME BufferAssumption == BufferSize \in Nat \ {0}
ASSUME BoundsAssumption == MaxLength \in Nat /\ MaxChanges \in Nat /\ MaxInterrupts \in Nat
ASSUME StreamFaultsAssumption == Faults \subseteq {"noatime", "open", "read", "short", "consumer"}

VARIABLES
    file,         \* what the file holds
    changes,      \* changes by other processes so far
    pc,           \* "open", "reopen", "read", "done" or "failed"
    fed,          \* the bytes given to the consumer; the file offset is its length
    interrupts,   \* reads interrupted so far
    errno,        \* out_errno_value
    torn          \* auxiliary: what was fed is no longer, or not all of, the file

vars == <<file, changes, pc, fed, interrupts, errno, torn>>

Init ==
    /\ file \in FileStates
    /\ changes = 0
    /\ pc = "open"
    /\ fed = <<>>
    /\ interrupts = 0
    /\ errno = 0
    /\ torn = FALSE

-----------------------------------------------------------------------------
(* Other processes *)

Change ==
    /\ changes < MaxChanges
    /\ changes' = changes + 1
    /\ file' \in FileStates \ {file}
    \* one append, truncation or overwriting of a byte at a time
    /\ \/ \E b \in Bytes : file' = Append(file, b)
       \/ \E k \in 0 .. Len(file) - 1 : file' = SubSeq(file, 1, k)
       \/ \E i \in 1 .. Len(file), b \in Bytes : file' = [file EXCEPT ![i] = b]
    /\ torn' = (torn \/ (pc = "read" /\ ~ IsPrefix(fed, file')))
    /\ UNCHANGED <<pc, fed, interrupts, errno>>

-----------------------------------------------------------------------------
(* bc_duplicate_reader_open_read_only *)

(* With O_NOATIME first. *)
Open ==
    /\ pc \in {"open", "reopen"}
    /\ pc' = "read"
    /\ UNCHANGED <<file, changes, fed, interrupts, errno, torn>>

(* EPERM: the file belongs to somebody else; again without O_NOATIME. *)
OpenRefused ==
    /\ pc = "open"
    /\ "noatime" \in Faults
    /\ pc' = "reopen"
    /\ UNCHANGED <<file, changes, fed, interrupts, errno, torn>>

Abandon(code) ==
    /\ pc' = "failed"
    /\ errno' = code

OpenFails ==
    /\ pc \in {"open", "reopen"}
    /\ "open" \in Faults
    /\ Abandon(2)
    /\ UNCHANGED <<file, changes, fed, interrupts, torn>>

-----------------------------------------------------------------------------
(* The read loop *)

(* What is left behind the offset, what one read() returns of it.           *)
Left == IF Len(fed) < Len(file) THEN Len(file) - Len(fed) ELSE 0
Got(k) == SubSeq(file, Len(fed) + 1, Len(fed) + k)

(* EINTR: the loop goes round. *)
Interrupted ==
    /\ pc = "read"
    /\ interrupts < MaxInterrupts
    /\ interrupts' = interrupts + 1
    /\ UNCHANGED <<file, changes, pc, fed, errno, torn>>

ReadFails ==
    /\ pc = "read"
    /\ "read" \in Faults
    /\ Abandon(5)
    /\ UNCHANGED <<file, changes, fed, interrupts, torn>>

(* Mutant: the block just fed is taken for the whole file. *)
ReadFullStops ==
    /\ pc = "read"
    /\ Left >= BufferSize
    /\ fed' = fed \o Got(BufferSize)
    /\ pc' = "done"
    /\ UNCHANGED <<file, changes, interrupts, errno, torn>>

(* The buffer came back full: fed to the consumer, there may be more. *)
ReadFull ==
    /\ pc = "read"
    /\ Left >= BufferSize
    /\ fed' = fed \o Got(BufferSize)
    /\ UNCHANGED <<file, changes, pc, interrupts, errno, torn>>

(* A block shorter than the buffer is the last one. *)
ReadLast ==
    /\ pc = "read"
    /\ Left \in 1 .. BufferSize - 1
    /\ fed' = fed \o Got(Left)
    /\ pc' = "done"
    /\ UNCHANGED <<file, changes, interrupts, errno, torn>>

(* Mutant: an empty read does not end the loop. *)
ReadEndLoops ==
    /\ pc = "read"
    /\ Left = 0
    /\ UNCHANGED vars

(* Nothing behind the offset: the end of the file. *)
ReadEnd ==
    /\ pc = "read"
    /\ Left = 0
    /\ pc' = "done"
    /\ UNCHANGED <<file, changes, fed, interrupts, errno, torn>>

(* read() may return less than there is (a signal in the middle of a        *)
(* transfer, a network file system): the code takes it for the end.         *)
ReadShort ==
    /\ pc = "read"
    /\ "short" \in Faults
    /\ \E k \in 1 .. BufferSize - 1 : k < Left /\ fed' = fed \o Got(k)
    /\ pc' = "done"
    /\ torn' = TRUE
    /\ UNCHANGED <<file, changes, interrupts, errno>>

(* Mutant: the failure of the consumer is returned without an errno. *)
ConsumerFailsQuietly ==
    /\ pc = "read"
    /\ "consumer" \in Faults
    /\ Left > 0
    /\ pc' = "failed"
    /\ UNCHANGED <<file, changes, fed, interrupts, errno, torn>>

(* The consumer refuses a block: reported as EIO. *)
ConsumerFails ==
    /\ pc = "read"
    /\ "consumer" \in Faults
    /\ Left > 0
    /\ Abandon(5)
    /\ UNCHANGED <<file, changes, fed, interrupts, torn>>

Reader ==
    \/ Open
    \/ OpenRefused
    \/ OpenFails
    \/ Interrupted
    \/ ReadFails
    \/ ReadFull
    \/ ReadLast
    \/ ReadEnd
    \/ ReadShort
    \/ ConsumerFails

Ended ==
    /\ pc \in {"done", "failed"}
    /\ UNCHANGED vars

Next == Change \/ Reader \/ Ended

Spec == Init /\ [][Next]_vars

(* The calls that succeed; the reader is a loop in one thread and makes     *)
(* them as long as it can.                                                  *)
Progress == Open \/ ReadFull \/ ReadLast \/ ReadEnd

FairSpec == Spec /\ WF_vars(Progress)

-----------------------------------------------------------------------------
(* Properties *)

(* Types; the offset is within what the file can hold; and the caller gets  *)
(* an errno exactly when the function returns false                          *)
(* (bc_duplicate_reader_consume_file, every early return).                   *)
TypeOK ==
    /\ file \in FileStates
    /\ changes \in 0 .. MaxChanges
    /\ pc \in {"open", "reopen", "read", "done", "failed"}
    /\ fed \in FileStates
    /\ interrupts \in 0 .. MaxInterrupts
    /\ errno \in {0, 2, 5}
    /\ torn \in BOOLEAN
    /\ errno # 0 <=> pc = "failed"

Abstract == INSTANCE AtomicRead WITH
    result <- IF pc = "done" THEN fed ELSE <<>>,
    status <- IF pc \in {"done", "failed"} THEN pc ELSE "reading"

(* The loop of reads behaves as one atomic read: what the digest was fed    *)
(* when the function returns true is the whole file as it is at that        *)
(* instant, whatever was appended or cut off behind the offset meanwhile,   *)
(* unless bytes already read were rewritten or a read came up short.        *)
ReadsWholeFile == Abstract!Spec

(* The reader comes to an end, interrupted or not, for a file that is not   *)
(* appended to for ever (MaxChanges).                                       *)
ReaderEnds == Abstract!Ends
=============================================================================
