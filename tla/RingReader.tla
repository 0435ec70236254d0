----------------------------- MODULE RingReader -----------------------------
(***************************************************************************)
(* The batched io_uring reader of one worker of the full-hash pass:        *)
(* worker/bc_duplicate_worker_batch_uring.c.                               *)
(*                                                                         *)
(* A worker owns ONE ring and drives its batches through it one after the  *)
(* other.  For every item whose file fits in a slot buffer it queues four  *)
(* linked requests (open into the direct descriptor of the slot, read the  *)
(* size that discovery saw, probe one byte past it, close), submits, reaps *)
(* four completions per slot and finally reads synchronously the items the *)
(* ring did not settle.  Three parties interleave: the worker, the kernel  *)
(* (which runs the chains concurrently, the requests of one chain in       *)
(* order), and other processes that change the files.                      *)
(*                                                                         *)
(* An item is identified with its file: every candidate is in one batch.   *)
(* A file's bytes are abstracted to "the first len bytes of file f".       *)
(***************************************************************************)
EXTENDS Integers, Sequences, FiniteSets

CONSTANTS
    Files,      \* the candidate files handed to this worker
    NoFile,     \* an empty direct descriptor, or an unassigned slot
    StatSize,   \* Files -> Nat: entry->file_size, taken by discovery
    Batches,    \* the batches of this worker, each a sequence of files
    SlotCount,  \* BC_DUPLICATE_READER_RING_SLOT_COUNT
    SlotBytes,  \* BC_DUPLICATE_READER_RING_SLOT_BUFFER_BYTES
    SqCapacity, \* four-request chains the submission queue can hold
    Faults,     \* which of the calls the code checks may fail
    FsOps,      \* how other processes may change the files
    MaxChanges  \* bound on the number of those changes

FaultKinds == {"submit", "wait", "io", "consumer"}
FsOpKinds  == {"grow", "shrink", "vanish"}

ASSUME NoFileAssumption   == NoFile \notin Files
ASSUME StatSizeAssumption == StatSize \in [Files -> Nat]
ASSUME BoundsAssumption   == /\ SlotCount \in Nat \ {0}
                             /\ SlotBytes \in Nat
                             /\ SqCapacity \in Nat
                             /\ MaxChanges \in Nat
ASSUME FaultsAssumption   == Faults \subseteq FaultKinds /\ FsOps \subseteq FsOpKinds
ASSUME BatchesAssumption  ==
    /\ Batches \in Seq(Seq(Files)) \ {<<>>}
    /\ \A b \in 1..Len(Batches) : Len(Batches[b]) <= SlotCount
    /\ \A b, c \in 1..Len(Batches) : \A i \in 1..Len(Batches[b]), j \in 1..Len(Batches[c]) :
           Batches[b][i] = Batches[c][j] => b = c /\ i = j

Slots   == 1..SlotCount
BatchNo == 1..Len(Batches)

(* The requests of a chain, in link order, and the errno values told apart. *)
OPENAT == 1
READ   == 2
PROBE  == 3
CLOSE  == 4

NoError == 0
ENOENT  == 2
EIO     == 5
EBADF   == 9
ECANCELED == 125

PieceType == [file : Files \cup {NoFile}, len : Nat, whole : BOOLEAN]
Piece(f, n, w) == [file |-> f, len |-> n, whole |-> w]

VARIABLES
    pc,         \* where the worker is in consume_batch
    batch,      \* the batch being consumed
    offset,     \* items of the batch already looked at by the current loop
    slotItem,   \* slot_to_item: unassigned entries are uninitialised memory
    submitted,  \* submitted_slot_count
    seen,       \* completions_seen
    bytesRead,  \* slot_bytes_read
    driveOk,    \* what drive_chunk returned
    success,    \* item->success
    errno,      \* item->errno_value
    consumed,   \* what consumer_function was fed for the item
    chState,    \* the chain queued for <<batch, slot>>: where it is,
    chFile,     \*   the file it was queued for,
    done,       \*   how many of its requests have completed,
    reaped,     \*   how many of their completions the worker has taken,
    res,        \*   and their results
    fdTable,    \* the ring's direct descriptors
    buffer,     \* ring->slot_buffers
    exists,     \* the path still names the file
    size,       \* the file's size now
    changes,    \* changes made so far by other processes
    touched,    \* files other processes have changed
    clean,      \* the ring was idle when the current batch began
    undefined   \* this batch used an uninitialised slot_to_item entry

worker == <<pc, batch, offset, slotItem, submitted, seen, bytesRead, driveOk, clean>>
items  == <<success, errno, consumed>>
chains == <<chState, chFile, done, reaped, res>>
kernel == <<chains, fdTable, buffer>>
fs     == <<exists, size, changes, touched>>
vars   == <<worker, items, kernel, fs, undefined>>

Chains == BatchNo \X Slots

(* Nothing queued, nothing running, no completion left to reap. *)
RingIdle == \A c \in Chains : chState[c] = "none" \/ (chState[c] = "flying" /\ reaped[c] = 4)

Item(i) == Batches[batch][i]
ItemCount == Len(Batches[batch])

(* bc_duplicate_ring_fits_in_slot *)
Fits(f) == StatSize[f] > 0 /\ StatSize[f] <= SlotBytes

Init ==
    /\ pc = "prepare"
    /\ batch = 1
    /\ offset = 0
    /\ slotItem = [s \in Slots |-> NoFile]
    /\ submitted = 0
    /\ seen = 0
    /\ bytesRead = [s \in Slots |-> 0]
    /\ driveOk = FALSE
    /\ success = [f \in Files |-> FALSE]
    /\ errno = [f \in Files |-> NoError]
    /\ consumed = [f \in Files |-> <<>>]
    /\ chState = [c \in Chains |-> "none"]
    /\ chFile = [c \in Chains |-> NoFile]
    /\ done = [c \in Chains |-> 0]
    /\ reaped = [c \in Chains |-> 0]
    /\ res = [c \in Chains |-> [op \in 1..4 |-> 0]]
    /\ fdTable = [s \in Slots |-> NoFile]
    /\ buffer = [s \in Slots |-> Piece(NoFile, 0, FALSE)]
    /\ exists = [f \in Files |-> TRUE]
    /\ size = StatSize
    /\ changes = 0
    /\ touched = {}
    /\ clean = TRUE
    /\ undefined = FALSE

-----------------------------------------------------------------------------
(* The worker: drive_chunk *)

QueuedChains == {c \in Chains : chState[c] = "queued"}

(* Leave drive_chunk with a result; consume_batch then starts its second loop. *)
LeaveDrive(result) ==
    /\ pc' = "fallback"
    /\ driveOk' = result
    /\ offset' = 0

(* An item that does not fit is skipped by the submission loop. *)
SkipItem ==
    /\ pc = "prepare" /\ offset < ItemCount
    /\ ~ Fits(Item(offset + 1))
    /\ offset' = offset + 1
    /\ UNCHANGED <<pc, batch, slotItem, submitted, seen, bytesRead, driveOk, clean, items, kernel, fs, undefined>>

(* submit_slot found room for its four requests. *)
PrepareItem ==
    /\ pc = "prepare" /\ offset < ItemCount
    /\ Fits(Item(offset + 1))
    /\ Cardinality(QueuedChains) < SqCapacity
    /\ submitted' = submitted + 1
    /\ slotItem' = [slotItem EXCEPT ![submitted + 1] = Item(offset + 1)]
    /\ chState' = [chState EXCEPT ![<<batch, submitted + 1>>] = "queued"]
    /\ chFile' = [chFile EXCEPT ![<<batch, submitted + 1>>] = Item(offset + 1)]
    /\ offset' = offset + 1
    /\ UNCHANGED <<pc, batch, seen, bytesRead, driveOk, clean, items, done, reaped, res, fdTable, buffer, fs, undefined>>

(* io_uring_get_sqe returned NULL: the chains already queued stay queued. *)
QueueFull ==
    /\ pc = "prepare" /\ offset < ItemCount
    /\ Fits(Item(offset + 1))
    /\ Cardinality(QueuedChains) >= SqCapacity
    /\ LeaveDrive(FALSE)
    /\ UNCHANGED <<batch, slotItem, submitted, seen, bytesRead, clean, items, kernel, fs, undefined>>

(* No item of the batch fits: drive_chunk returns before submitting. *)
NothingToSubmit ==
    /\ pc = "prepare" /\ offset = ItemCount
    /\ submitted = 0
    /\ LeaveDrive(TRUE)
    /\ UNCHANGED <<batch, slotItem, submitted, seen, bytesRead, clean, items, kernel, fs, undefined>>

(* io_uring_submit hands over everything queued, leftovers included. *)
Submit ==
    /\ pc = "prepare" /\ offset = ItemCount
    /\ submitted > 0
    /\ chState' = [c \in Chains |-> IF chState[c] = "queued" THEN "flying" ELSE chState[c]]
    /\ pc' = "wait"
    /\ UNCHANGED <<batch, offset, slotItem, submitted, seen, bytesRead, driveOk, clean, items,
                   chFile, done, reaped, res, fdTable, buffer, fs, undefined>>

(* io_uring_submit fails: the requests stay in the submission queue. *)
SubmitFails ==
    /\ "submit" \in Faults
    /\ pc = "prepare" /\ offset = ItemCount
    /\ submitted > 0
    /\ LeaveDrive(FALSE)
    /\ UNCHANGED <<batch, slotItem, submitted, seen, bytesRead, clean, items, kernel, fs, undefined>>

-----------------------------------------------------------------------------
(* The worker: handle_cqe, for the item the slot stands for now.  Each      *)
(* operator gives the item's new <<success, errno, consumed>>.              *)

(* Mutant: the completion of the close is not counted. *)
ExpectedWithoutClose == 3 * submitted

(* Mutant: a completion of the submission itself is awaited too. *)
ExpectedOneMore == 5 * submitted

Expected == 4 * submitted

Reject(f, e) ==
    /\ success' = [success EXCEPT ![f] = FALSE]
    /\ errno' = [errno EXCEPT ![f] = e]

OrEIO(result) == IF result = -ECANCELED THEN EIO ELSE -result

(* Mutant: the negated errno of the completion is stored as it is. *)
HandleOpenKeepsSign(f, s, result) ==
    /\ IF result < 0 THEN Reject(f, result) ELSE UNCHANGED <<success, errno>>
    /\ UNCHANGED <<consumed, bytesRead>>

(* BC_DUPLICATE_RING_OP_OPENAT *)
HandleOpen(f, s, result) ==
    /\ IF result < 0 THEN Reject(f, -result) ELSE UNCHANGED <<success, errno>>
    /\ UNCHANGED <<consumed, bytesRead>>

(* BC_DUPLICATE_RING_OP_READ *)
HandleRead(f, s, result) ==
    /\ \/ /\ result < 0
          /\ IF errno[f] = NoError THEN Reject(f, OrEIO(result)) ELSE UNCHANGED <<success, errno>>
          /\ UNCHANGED bytesRead
       \/ /\ result >= 0 /\ result # StatSize[f]
          /\ Reject(f, EIO)
          /\ UNCHANGED bytesRead
       \/ /\ result >= 0 /\ result = StatSize[f]
          /\ bytesRead' = [bytesRead EXCEPT ![s] = result]
          /\ UNCHANGED <<success, errno>>
    /\ UNCHANGED consumed

(* consumer_function digests the slot buffer, or fails *)
Consume(f, s) ==
    \/ /\ consumed' = [consumed EXCEPT ![f] = Append(@, Piece(buffer[s].file, bytesRead[s], buffer[s].whole))]
       /\ success' = [success EXCEPT ![f] = TRUE]
       /\ errno' = [errno EXCEPT ![f] = NoError]
    \/ /\ "consumer" \in Faults
       /\ Reject(f, EIO)
       /\ UNCHANGED consumed

(* Mutant: a byte past the expected end is ignored. *)
HandleProbeIgnoresGrowth(f, s, result) ==
    /\ \/ errno[f] # NoError /\ UNCHANGED items
       \/ errno[f] = NoError /\ result < 0 /\ Reject(f, OrEIO(result)) /\ UNCHANGED consumed
       \/ errno[f] = NoError /\ result >= 0 /\ bytesRead[s] = 0 /\ Reject(f, EIO) /\ UNCHANGED consumed
       \/ errno[f] = NoError /\ result >= 0 /\ bytesRead[s] > 0 /\ Consume(f, s)
    /\ UNCHANGED bytesRead

(* Mutant: a cancelled probe overwrites the errno of the open or the read. *)
HandleProbeOverwrites(f, s, result) ==
    /\ \/ result < 0 /\ Reject(f, OrEIO(result)) /\ UNCHANGED consumed
       \/ (result > 0 \/ (result = 0 /\ bytesRead[s] = 0)) /\ Reject(f, EIO) /\ UNCHANGED consumed
       \/ result = 0 /\ bytesRead[s] > 0 /\ Consume(f, s)
    /\ UNCHANGED bytesRead

(* BC_DUPLICATE_RING_OP_PROBE *)
HandleProbe(f, s, result) ==
    /\ \/ errno[f] # NoError /\ UNCHANGED items
       \/ errno[f] = NoError /\ result < 0 /\ Reject(f, OrEIO(result)) /\ UNCHANGED consumed
       \/ errno[f] = NoError /\ (result > 0 \/ (result = 0 /\ bytesRead[s] = 0)) /\ Reject(f, EIO) /\ UNCHANGED consumed
       \/ errno[f] = NoError /\ result = 0 /\ bytesRead[s] > 0 /\ Consume(f, s)
    /\ UNCHANGED bytesRead

HandleCqe(f, s, op, result) ==
    \/ op = OPENAT /\ HandleOpen(f, s, result)
    \/ op = READ   /\ HandleRead(f, s, result)
    \/ op = PROBE  /\ HandleProbe(f, s, result)
    \/ op = CLOSE  /\ UNCHANGED <<items, bytesRead>>

(* io_uring_wait_cqe returns the next completion of some chain, of this     *)
(* batch or of an earlier one: user_data only holds the slot and the        *)
(* operation.  A slot this batch did not assign reads uninitialised memory. *)
Reap(c) ==
    /\ pc = "wait" /\ seen < Expected
    /\ chState[c] = "flying" /\ reaped[c] < done[c]
    /\ LET op == reaped[c] + 1
           f  == slotItem[c[2]]
       IN IF f = NoFile
          THEN undefined' = TRUE /\ UNCHANGED <<items, bytesRead>>
          ELSE HandleCqe(f, c[2], op, res[c][op]) /\ UNCHANGED undefined
    /\ reaped' = [reaped EXCEPT ![c] = @ + 1]
    /\ seen' = seen + 1
    /\ UNCHANGED <<pc, batch, offset, slotItem, submitted, driveOk, clean, chState, chFile, done, res, fdTable, buffer, fs>>

(* io_uring_wait_cqe fails with something other than EINTR. *)
WaitFails ==
    /\ "wait" \in Faults
    /\ pc = "wait" /\ seen < Expected
    /\ LeaveDrive(FALSE)
    /\ UNCHANGED <<batch, slotItem, submitted, seen, bytesRead, clean, items, kernel, fs, undefined>>

AllSeen ==
    /\ pc = "wait" /\ seen = Expected
    /\ LeaveDrive(TRUE)
    /\ UNCHANGED <<batch, slotItem, submitted, seen, bytesRead, clean, items, kernel, fs, undefined>>

-----------------------------------------------------------------------------
(* The worker: the second loop of consume_batch *)

(* Mutant: an item the ring accepted is read again. *)
SettledForgetsSuccess(f) == errno[f] # NoError

(* Mutant: an item the ring rejected is read again. *)
SettledForgetsErrno(f) == success[f]

(* Mutant: after a failed drive_chunk nothing is read. *)
SettledAfterFailure(f) == IF driveOk THEN success[f] \/ (Fits(f) /\ errno[f] # NoError) ELSE TRUE

(* The condition under which the loop skips the item. *)
Settled(f) ==
    IF driveOk THEN success[f] \/ (Fits(f) /\ errno[f] # NoError)
               ELSE success[f] \/ errno[f] # NoError

(* bc_duplicate_reader_consume_file: feeds the consumer whatever the file   *)
(* holds now, in one piece here (empty for an empty file).  What the        *)
(* consumer got before a read error is never looked at.                     *)
FallbackSync(f) ==
    \/ /\ exists[f]
       /\ consumed' = [consumed EXCEPT ![f] = Append(@, Piece(f, size[f], TRUE))]
       /\ success' = [success EXCEPT ![f] = TRUE]
       /\ errno' = [errno EXCEPT ![f] = NoError]
    \/ ~exists[f] /\ Reject(f, ENOENT) /\ UNCHANGED consumed
    \/ Faults \cap {"io", "consumer"} # {} /\ Reject(f, EIO) /\ UNCHANGED consumed

FallbackItem ==
    /\ pc = "fallback" /\ offset < ItemCount
    /\ LET f == Item(offset + 1)
       IN IF Settled(f) THEN UNCHANGED items ELSE FallbackSync(f)
    /\ offset' = offset + 1
    /\ UNCHANGED <<pc, batch, slotItem, submitted, seen, bytesRead, driveOk, clean, kernel, fs, undefined>>

(* The batch is done; the worker takes its next one with the same ring.     *)
(* drive_chunk's arrays are locals: fresh in every call.                    *)
NextBatch ==
    /\ pc = "fallback" /\ offset = ItemCount
    /\ batch < Len(Batches)
    /\ pc' = "prepare"
    /\ batch' = batch + 1
    /\ offset' = 0
    /\ slotItem' = [s \in Slots |-> NoFile]
    /\ bytesRead' = [s \in Slots |-> 0]
    /\ submitted' = 0
    /\ seen' = 0
    /\ driveOk' = FALSE
    /\ clean' = RingIdle
    /\ undefined' = FALSE
    /\ UNCHANGED <<items, kernel, fs>>

LastBatch ==
    /\ pc = "fallback" /\ offset = ItemCount
    /\ batch = Len(Batches)
    /\ pc' = "finished"
    /\ UNCHANGED <<batch, offset, slotItem, submitted, seen, bytesRead, driveOk, clean, items, kernel, fs, undefined>>

-----------------------------------------------------------------------------
(* The kernel: each flying chain runs its requests in order.  A request     *)
(* that fails, or a read shorter than asked, breaks the link: the requests  *)
(* behind it complete with ECANCELED.  External: modelled from how          *)
(* submit_slot links the requests.                                          *)

Smaller(m, n) == IF m < n THEN m ELSE n

(* The request before op failed or came up short. *)
Broken(c, op) ==
    \/ op = READ  /\ res[c][OPENAT] < 0
    \/ op = PROBE /\ res[c][READ] # StatSize[chFile[c]]
    \/ op = CLOSE /\ res[c][PROBE] # 1

Complete(c, result) ==
    /\ done' = [done EXCEPT ![c] = @ + 1]
    /\ res' = [res EXCEPT ![c] = [@ EXCEPT ![done[c] + 1] = result]]

KernelOpen(c) ==
    \/ /\ exists[chFile[c]]
       /\ Complete(c, 0)
       /\ fdTable' = [fdTable EXCEPT ![c[2]] = chFile[c]]
       /\ UNCHANGED buffer
    \/ /\ ~ exists[chFile[c]]
       /\ Complete(c, -ENOENT)
       /\ UNCHANGED <<fdTable, buffer>>

(* Reads go through the slot's descriptor, whoever installed it. *)
KernelRead(c) ==
    LET f == fdTable[c[2]]
        n == Smaller(StatSize[chFile[c]], size[f])
    IN /\ \/ /\ f # NoFile
             /\ Complete(c, n)
             /\ buffer' = [buffer EXCEPT ![c[2]] = Piece(f, n, n = size[f])]
          \/ f = NoFile /\ Complete(c, -EBADF) /\ UNCHANGED buffer
          \/ "io" \in Faults /\ Complete(c, -EIO) /\ UNCHANGED buffer
       /\ UNCHANGED fdTable

KernelProbe(c) ==
    LET f == fdTable[c[2]]
    IN /\ \/ f # NoFile /\ Complete(c, IF size[f] > StatSize[chFile[c]] THEN 1 ELSE 0)
          \/ f = NoFile /\ Complete(c, -EBADF)
          \/ "io" \in Faults /\ Complete(c, -EIO)
       /\ UNCHANGED <<fdTable, buffer>>

KernelClose(c) ==
    /\ Complete(c, IF fdTable[c[2]] = NoFile THEN -EBADF ELSE 0)
    /\ fdTable' = [fdTable EXCEPT ![c[2]] = NoFile]
    /\ UNCHANGED buffer

KernelStep(c) ==
    /\ chState[c] = "flying" /\ done[c] < 4
    /\ LET op == done[c] + 1
       IN \/ Broken(c, op) /\ Complete(c, -ECANCELED) /\ UNCHANGED <<fdTable, buffer>>
          \/ /\ ~ Broken(c, op)
             /\ \/ op = OPENAT /\ KernelOpen(c)
                \/ op = READ   /\ KernelRead(c)
                \/ op = PROBE  /\ KernelProbe(c)
                \/ op = CLOSE  /\ KernelClose(c)
    /\ UNCHANGED <<worker, items, chState, chFile, reaped, fs, undefined>>

-----------------------------------------------------------------------------
(* Other processes: files grow, are truncated or unlinked at any time.      *)

Touch(f) ==
    /\ pc # "finished"
    /\ changes < MaxChanges
    /\ changes' = changes + 1
    /\ touched' = touched \cup {f}
    /\ UNCHANGED <<worker, items, kernel, undefined>>

Grow(f)   == "grow" \in FsOps /\ exists[f] /\ size' = [size EXCEPT ![f] = @ + 1] /\ UNCHANGED exists /\ Touch(f)
Shrink(f) == "shrink" \in FsOps /\ exists[f] /\ size[f] > 0
             /\ size' = [size EXCEPT ![f] = @ - 1] /\ UNCHANGED exists /\ Touch(f)
Vanish(f) == "vanish" \in FsOps /\ exists[f] /\ exists' = [exists EXCEPT ![f] = FALSE] /\ UNCHANGED size /\ Touch(f)

-----------------------------------------------------------------------------
Finished == pc = "finished" /\ UNCHANGED vars

(* The worker's steps, and the failures of its system calls. *)
Worker ==
    \/ SkipItem \/ PrepareItem \/ QueueFull \/ NothingToSubmit \/ Submit
    \/ (\E c \in Chains : Reap(c)) \/ AllSeen
    \/ FallbackItem \/ NextBatch \/ LastBatch

Failure == SubmitFails \/ WaitFails

Next ==
    \/ Worker
    \/ Failure
    \/ \E c \in Chains : KernelStep(c)
    \/ \E f \in Files : Grow(f) \/ Shrink(f) \/ Vanish(f)
    \/ Finished

(* The worker's thread is scheduled and every submitted request completes;  *)
(* no call is bound to fail and other processes owe nothing.                *)
Fairness == WF_vars(Worker) /\ \A c \in Chains : WF_vars(KernelStep(c))

Spec == Init /\ [][Next]_vars
FairSpec == Spec /\ Fairness

-----------------------------------------------------------------------------
(* Properties *)

WorkerType ==
    /\ pc \in {"prepare", "wait", "fallback", "finished"}
    /\ batch \in BatchNo
    /\ offset \in 0..ItemCount
    /\ slotItem \in [Slots -> Files \cup {NoFile}]
    /\ submitted \in 0..SlotCount
    /\ seen \in Nat
    /\ bytesRead \in [Slots -> Nat]
    /\ driveOk \in BOOLEAN
    /\ clean \in BOOLEAN
    /\ undefined \in BOOLEAN

ItemsType ==
    /\ success \in [Files -> BOOLEAN]
    /\ errno \in [Files -> Nat]
    /\ consumed \in [Files -> Seq(PieceType)]

KernelType ==
    /\ chState \in [Chains -> {"none", "queued", "flying"}]
    /\ chFile \in [Chains -> Files \cup {NoFile}]
    /\ done \in [Chains -> 0..4]
    /\ reaped \in [Chains -> 0..4]
    /\ res \in [Chains -> [1..4 -> Int]]
    /\ fdTable \in [Slots -> Files \cup {NoFile}]
    /\ buffer \in [Slots -> PieceType]

FsType ==
    /\ exists \in [Files -> BOOLEAN]
    /\ size \in [Files -> Nat]
    /\ changes \in 0..MaxChanges
    /\ touched \in SUBSET Files

TypeOK == WorkerType /\ ItemsType /\ KernelType /\ FsType

(* consumer_function is handed the bytes of the item's own file, once.      *)
OwnBytesOnce(f) == Len(consumed[f]) = 1 /\ consumed[f][1].file = f

(* The item was hashed through the ring: exactly the size discovery saw.    *)
ExactSize(f) == consumed[f][1].len = StatSize[f]

(* An item of the current batch that the batch has accepted was fed its own *)
(* file's bytes, once; and if drive_chunk ran to its end and the file fits, *)
(* exactly file_size of them.  This is what consume_batch (242-278) owes    *)
(* process_batch when the batch found the ring idle.                        *)
CleanBatchIsExact ==
    clean => \A i \in 1..ItemCount :
        success[Item(i)] =>
            /\ OwnBytesOnce(Item(i))
            /\ (Fits(Item(i)) /\ (pc = "wait" \/ driveOk)) => ExactSize(Item(i))

(* The growth probe (96-98, 155-158): while files only grow, what the ring  *)
(* accepts was the complete content of the file at the moment it was read.  *)
RingAcceptsOnlyWholeFiles ==
    "shrink" \notin FsOps /\ clean =>
        \A i \in 1..ItemCount :
            (success[Item(i)] /\ Fits(Item(i)) /\ (pc = "wait" \/ driveOk)) => consumed[Item(i)][1].whole

(* A file no other process touched is accepted by the time its batch ends,  *)
(* unless the device or the digest failed: neither a queue that fills up,   *)
(* nor a failed submit or wait, nor the ECANCELED completions that follow   *)
(* every broken link make the reader give up on a good file.                *)
UntouchedFileAccepted ==
    clean /\ Faults \cap {"io", "consumer"} = {} /\ pc = "fallback" /\ offset = ItemCount =>
        \A i \in 1..ItemCount : Item(i) \notin touched => success[Item(i)]

(* The errno kept for an item is the first failure of its chain, never the  *)
(* ECANCELED of a request linked behind it (131-134, 147-149): a file that  *)
(* could not be opened is reported with open's errno.                       *)
ErrnoIsRootCause ==
    clean /\ pc = "wait" =>
        \A s \in 1..submitted :
            LET c == <<batch, s>>
                f == slotItem[s]
            IN /\ errno[f] # ECANCELED
               /\ reaped[c] > 0 /\ res[c][OPENAT] < 0 => errno[f] = -res[c][OPENAT]

(* Four completions per submitted slot are all there is: a batch that ran   *)
(* drive_chunk to its end on an idle ring leaves it idle, so the next       *)
(* batch's completions are its own, and no unassigned slot is ever read.    *)
DriveDrainsRing ==
    /\ clean /\ driveOk => RingIdle
    /\ clean => ~ undefined

(* "reports groups of identical files" (README.md:6): whatever happened to  *)
(* earlier batches, an accepted item was fed its own file's bytes, once.    *)
AcceptedBytesAreOwn == \A f \in Files : success[f] => OwnBytesOnce(f)

(* drive_chunk's wait loop (213-225) ends and every batch is left: the      *)
(* worker reaches the end of its last batch, whichever opens, reads and     *)
(* digests fail and however the files change on the way.                    *)
EveryBatchEnds == <>(pc = "finished")

=============================================================================
