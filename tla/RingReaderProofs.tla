--------------------------- MODULE RingReaderProofs ---------------------------
(***************************************************************************)
(* Proofs about RingReader, for every set of files, every list of batches,  *)
(* every slot count and queue depth, whatever fails.                        *)
(***************************************************************************)
EXTENDS RingReader, FiniteSetTheorems, TLAPS

-----------------------------------------------------------------------------
(* The inductive invariant behind CleanBatchIsExact,                        *)
(* RingAcceptsOnlyWholeFiles and DriveDrainsRing.                           *)

Mine(s) == <<batch, s>>

(* Chains move from none to queued to flying, and are reaped behind their   *)
(* execution; slots this batch has not assigned hold nothing of it.         *)
ChainsInOrder ==
    \A c \in Chains :
        /\ chState[c] # "flying" => done[c] = 0
        /\ reaped[c] <= done[c]
        /\ chState[c] # "none" => chFile[c] \in Files
        /\ c[1] > batch => chState[c] = "none"
        /\ c[1] = batch /\ c[2] > submitted => chState[c] = "none"

(* The items looked at so far by the submission loop. *)
Looked == IF pc = "prepare" THEN offset ELSE ItemCount

(* slot_to_item is injective and covers the fitting items looked at. *)
SlotsAssigned ==
    /\ pc = "prepare" => submitted <= offset
    /\ \A s \in Slots :
         IF s <= submitted
         THEN /\ slotItem[s] \in Files
              /\ Fits(slotItem[s])
              /\ chFile[Mine(s)] = slotItem[s]
              /\ chState[Mine(s)] # "none"
              /\ \E i \in 1..Looked : slotItem[s] = Item(i)
         ELSE slotItem[s] = NoFile
    /\ \A s, t \in 1..submitted : slotItem[s] = slotItem[t] => s = t

(* Every fitting item has a slot, unless the queue filled up on the way. *)
FittingHaveSlots ==
    pc \in {"prepare", "wait"} =>
        \A i \in 1..Looked : Fits(Item(i)) => \E s \in 1..submitted : slotItem[s] = Item(i)

(* Only this batch's chains are active. *)
OthersQuiet ==
    \A c \in Chains : c[1] # batch => chState[c] = "none" \/ (chState[c] = "flying" /\ reaped[c] = 4)

(* What the kernel has left in the slot of one of this batch's chains. *)
KernelState(s) ==
    LET c == Mine(s)
        f == slotItem[s]
    IN /\ done[c] \in {1, 2, 3} /\ res[c][OPENAT] >= 0 => fdTable[s] = f
       /\ done[c] >= 2 /\ res[c][READ] = StatSize[f] =>
              /\ res[c][OPENAT] >= 0
              /\ buffer[s].file = f
              /\ buffer[s].len = StatSize[f]
       /\ done[c] = 2 /\ res[c][READ] = StatSize[f] /\ "shrink" \notin FsOps /\ ~ buffer[s].whole => size[f] > StatSize[f]
       /\ done[c] >= 3 /\ res[c][PROBE] = 0 =>
              res[c][READ] = StatSize[f] /\ ("shrink" \notin FsOps => buffer[s].whole)

(* What the worker has made of the completions of that chain. *)
WorkerState(s) ==
    LET c == Mine(s)
        f == slotItem[s]
    IN /\ bytesRead[s] # 0 => reaped[c] >= 2 /\ bytesRead[s] = StatSize[f] /\ res[c][READ] = StatSize[f]
       /\ pc \in {"prepare", "wait"} /\ reaped[c] < 3 => ~ success[f]
       /\ pc = "wait" /\ reaped[c] >= 3 => success[f] \/ errno[f] # NoError

(* The item was accepted through the ring. *)
ExactPiece(f) ==
    /\ consumed[f] = <<Piece(f, StatSize[f], consumed[f][1].whole)>>
    /\ "shrink" \notin FsOps => consumed[f][1].whole

(* An item the second loop has not reached, and any item. *)
ItemUndecided(i) == IF success[Item(i)] THEN Fits(Item(i)) /\ ExactPiece(Item(i)) ELSE consumed[Item(i)] = <<>>
ItemDecided(i) ==
    success[Item(i)] => /\ OwnBytesOnce(Item(i))
                        /\ Fits(Item(i)) /\ driveOk => ExactPiece(Item(i))

ItemsState ==
    \A i \in 1..ItemCount :
        IF pc \in {"prepare", "wait"} \/ (pc = "fallback" /\ i > offset) THEN ItemUndecided(i) ELSE ItemDecided(i)

(* The completions of this batch reaped so far, as <<slot, request>>. *)
ReapedSet == {p \in (1..submitted) \X (1..4) : p[2] <= reaped[Mine(p[1])]}

(* Before the submission nothing has happened to the batch. *)
Untouched ==
    pc = "prepare" =>
        /\ \A s \in 1..submitted : chState[Mine(s)] = "queued"
        /\ \A s \in Slots : bytesRead[s] = 0
        /\ \A i \in 1..ItemCount : ~ success[Item(i)]

(* drive_chunk has counted the completions it reaped. *)
Counted ==
    /\ pc = "wait" => \A s \in 1..submitted : chState[Mine(s)] = "flying"
    /\ pc \in {"prepare", "wait"} => seen = Cardinality(ReapedSet) /\ ~ driveOk

(* drive_chunk returned true: every chain is over, every fitting item is    *)
(* accepted or rejected.                                                    *)
Driven ==
    pc \in {"fallback", "finished"} /\ driveOk =>
        /\ \A s \in 1..submitted : chState[Mine(s)] = "flying" /\ reaped[Mine(s)] = 4
        /\ \A i \in 1..ItemCount : Fits(Item(i)) => success[Item(i)] \/ errno[Item(i)] # NoError

CleanInv ==
    /\ ~ undefined
    /\ OthersQuiet
    /\ \A s \in 1..submitted : KernelState(s) /\ WorkerState(s)
    /\ Untouched
    /\ Counted
    /\ ItemsState
    /\ Driven

(* Items of batches to come are as consume_batch resets them. *)
FutureItems ==
    \A b \in BatchNo : \A i \in 1..Len(Batches[b]) :
        b > batch => ~ success[Batches[b][i]] /\ errno[Batches[b][i]] = NoError /\ consumed[Batches[b][i]] = <<>>

IndInv ==
    /\ TypeOK
    /\ ChainsInOrder
    /\ SlotsAssigned
    /\ FittingHaveSlots
    /\ FutureItems
    /\ clean => CleanInv

-----------------------------------------------------------------------------
(* The inductive invariant behind ErrnoIsRootCause and                      *)
(* UntouchedFileAccepted, on top of IndInv.                                 *)

(* A file nobody changed is still what discovery saw. *)
UntouchedAsListed == \A f \in Files \ touched : exists[f] /\ size[f] = StatSize[f]

(* No device error and no digest error: only the ring may fail. *)
Reliable == Faults \cap {"io", "consumer"} = {}

(* The results of one of this batch's chains, and the errno made of them:   *)
(* a chain whose open failed is cancelled, and keeps open's errno.          *)
RootCause(s) ==
    LET c == Mine(s)
        f == slotItem[s]
    IN /\ done[c] >= 1 => res[c][OPENAT] \in {0, -ENOENT}
       /\ done[c] >= 2 /\ res[c][OPENAT] < 0 => res[c][READ] < 0
       /\ pc \in {"prepare", "wait"} =>
              /\ errno[f] # ECANCELED
              /\ reaped[c] > 0 /\ res[c][OPENAT] < 0 => errno[f] = -res[c][OPENAT]

(* The chain of a file nobody changed succeeds request by request. *)
GoodChain(s) ==
    LET c == Mine(s)
        f == slotItem[s]
    IN Reliable /\ f \notin touched =>
           /\ done[c] >= 1 => res[c][OPENAT] = 0
           /\ done[c] >= 2 => res[c][READ] = StatSize[f]
           /\ done[c] >= 3 => res[c][PROBE] = 0
           /\ reaped[c] >= 2 => bytesRead[s] = StatSize[f]

(* Such a file is never rejected, and accepted once the second loop is past it. *)
GoodItem(i) ==
    Reliable /\ Item(i) \notin touched =>
        IF pc \in {"prepare", "wait"} \/ (pc = "fallback" /\ i > offset)
        THEN errno[Item(i)] = NoError
        ELSE success[Item(i)]

OutcomeInv ==
    /\ \A i \in 1..ItemCount : pc = "prepare" => errno[Item(i)] = NoError
    /\ \A s \in 1..submitted : RootCause(s) /\ GoodChain(s)
    /\ \A i \in 1..ItemCount : GoodItem(i)

FullInv ==
    /\ IndInv
    /\ UntouchedAsListed
    /\ clean => OutcomeInv

-----------------------------------------------------------------------------
(* Facts about the constants and about the state that every step uses.      *)

(* The items of a batch are files, and there are no more of them than slots *)
(* in the ring.                                                             *)
LEMMA ItemFacts ==
    ASSUME TypeOK
    PROVE  /\ ItemCount \in Nat
           /\ ItemCount <= SlotCount
           /\ \A i \in 1..ItemCount : Item(i) \in Files
           /\ \A i, j \in 1..ItemCount : Item(i) = Item(j) => i = j
  <1>1. Batches \in Seq(Seq(Files)) /\ batch \in 1..Len(Batches)
    BY BatchesAssumption DEF TypeOK, WorkerType, BatchNo
  <1>2. Batches[batch] \in Seq(Files)
    BY <1>1
  <1>3. Len(Batches[batch]) \in Nat /\ \A i \in 1..Len(Batches[batch]) : Batches[batch][i] \in Files
    BY <1>2
  <1>4. Len(Batches[batch]) <= SlotCount
    BY <1>1, BatchesAssumption
  <1>5. \A i, j \in 1..Len(Batches[batch]) : Batches[batch][i] = Batches[batch][j] => i = j
    BY <1>1, BatchesAssumption
  <1> QED BY <1>3, <1>4, <1>5 DEF ItemCount, Item

(* Only an item that fits is queued, so its size is positive. *)
LEMMA FitsFacts == ASSUME NEW f \in Files PROVE StatSize[f] \in Nat /\ (Fits(f) => StatSize[f] > 0)
  BY StatSizeAssumption DEF Fits

LEMMA AppendType == ASSUME NEW S, NEW q \in Seq(S), NEW x \in S PROVE Append(q, x) \in Seq(S)
  OBVIOUS

TypeInv == TypeOK /\ ChainsInOrder /\ SlotsAssigned

-----------------------------------------------------------------------------
(* Type correctness.  It needs to know that the submission loop assigns no  *)
(* more slots than it has looked at items, and that a chain that flies has  *)
(* a file.                                                                  *)

LEMMA TypeInit == Init => TypeInv
  <1> SUFFICES ASSUME Init PROVE TypeInv
    OBVIOUS
  <1> USE DEF Init
  <1>1. Len(Batches) \in Nat /\ Len(Batches) >= 1 /\ 1 \in BatchNo
    BY BatchesAssumption DEF BatchNo
  <1>2. Len(Batches[1]) \in Nat
    BY <1>1, BatchesAssumption DEF BatchNo
  <1>3. offset \in 0..ItemCount /\ submitted \in 0..SlotCount /\ seen \in Nat /\ batch \in BatchNo
    BY <1>1, <1>2, BoundsAssumption DEF ItemCount
  <1>4. WorkerType
    BY <1>3 DEF WorkerType
  <1>5. ItemsType
    BY DEF ItemsType, NoError
  <1>6. KernelType
    BY DEF KernelType, PieceType, Piece
  <1>7. FsType
    BY StatSizeAssumption, BoundsAssumption DEF FsType
  <1>8. ChainsInOrder
    BY DEF ChainsInOrder
  <1>9. SlotsAssigned
    BY <1>4, BoundsAssumption DEF SlotsAssigned, Slots, WorkerType
  <1> QED BY <1>4, <1>5, <1>6, <1>7, <1>8, <1>9 DEF TypeInv, TypeOK

(* Rejecting an item touches only that item. *)
LEMMA RejectFacts ==
    ASSUME ItemsType, NEW f \in Files, NEW e \in Nat, Reject(f, e), UNCHANGED consumed
    PROVE  /\ ItemsType'
           /\ \A g \in Files : g # f => /\ success'[g] = success[g]
                                        /\ errno'[g] = errno[g]
                                        /\ consumed'[g] = consumed[g]
  BY DEF ItemsType, Reject

(* handle_cqe keeps the types of the items, and touches only the item and   *)
(* the slot of the completion.                                              *)
LEMMA HandleCqeFacts ==
    ASSUME TypeOK, NEW f \in Files, NEW s \in Slots, NEW op \in 1..4, NEW result \in Int,
           HandleCqe(f, s, op, result)
    PROVE  /\ ItemsType'
           /\ bytesRead' \in [Slots -> Nat]
           /\ \A g \in Files : g # f => /\ success'[g] = success[g]
                                        /\ errno'[g] = errno[g]
                                        /\ consumed'[g] = consumed[g]
           /\ \A t \in Slots : t # s => bytesRead'[t] = bytesRead[t]
  <1>0. bytesRead \in [Slots -> Nat] /\ buffer[s] \in PieceType /\ ItemsType
    BY DEF TypeOK, WorkerType, KernelType
  <1>1. CASE op = OPENAT /\ HandleOpen(f, s, result)
    <2>1. CASE result < 0
      <3>1. -result \in Nat
        BY <2>1
      <3> QED BY <1>0, <1>1, <2>1, <3>1, RejectFacts DEF HandleOpen
    <2>2. CASE ~ (result < 0)
      BY <1>0, <1>1, <2>2 DEF HandleOpen, ItemsType
    <2> QED BY <2>1, <2>2
  <1>2. CASE op = READ /\ HandleRead(f, s, result)
    <2>0. UNCHANGED consumed
      BY <1>2 DEF HandleRead
    <2>1. \/ \E e \in Nat : Reject(f, e) /\ UNCHANGED bytesRead
          \/ UNCHANGED <<success, errno, bytesRead>>
          \/ UNCHANGED <<success, errno>> /\ bytesRead' = [bytesRead EXCEPT ![s] = result] /\ result \in Nat
      BY <1>2 DEF HandleRead, OrEIO, EIO, ECANCELED
    <2>2. CASE \E e \in Nat : Reject(f, e) /\ UNCHANGED bytesRead
      BY <1>0, <2>0, <2>2, RejectFacts
    <2>3. CASE UNCHANGED <<success, errno, bytesRead>>
      BY <1>0, <2>0, <2>3 DEF ItemsType
    <2>4. CASE UNCHANGED <<success, errno>> /\ bytesRead' = [bytesRead EXCEPT ![s] = result] /\ result \in Nat
      BY <1>0, <2>0, <2>4 DEF ItemsType
    <2> QED BY <2>1, <2>2, <2>3, <2>4
  <1>3. CASE op = PROBE /\ HandleProbe(f, s, result)
    <2>0. UNCHANGED bytesRead
      BY <1>3 DEF HandleProbe
    <2>1. CASE UNCHANGED items
      BY <1>0, <2>0, <2>1 DEF items, ItemsType
    <2>2. CASE \E e \in Nat : Reject(f, e) /\ UNCHANGED consumed
      BY <1>0, <2>0, <2>2, RejectFacts
    <2>3. CASE /\ consumed' = [consumed EXCEPT ![f] = Append(@, Piece(buffer[s].file, bytesRead[s], buffer[s].whole))]
               /\ success' = [success EXCEPT ![f] = TRUE]
               /\ errno' = [errno EXCEPT ![f] = NoError]
      <3>1. Piece(buffer[s].file, bytesRead[s], buffer[s].whole) \in PieceType
        BY <1>0 DEF PieceType, Piece
      <3> DEFINE new == Append(consumed[f], Piece(buffer[s].file, bytesRead[s], buffer[s].whole))
      <3>2. new \in Seq(PieceType)
        BY <1>0, <3>1 DEF ItemsType
      <3>3. consumed' = [consumed EXCEPT ![f] = new]
        BY <2>3
      <3> HIDE DEF new
      <3> QED BY <1>0, <2>0, <2>3, <3>2, <3>3 DEF NoError, ItemsType
    <2> QED BY <1>3, <2>1, <2>2, <2>3 DEF HandleProbe, Consume, OrEIO, EIO, ECANCELED
  <1>4. CASE op = CLOSE /\ UNCHANGED <<items, bytesRead>>
    BY <1>0, <1>4 DEF items, ItemsType
  <1> QED BY <1>1, <1>2, <1>3, <1>4 DEF HandleCqe

(* A synchronous read touches only its own item. *)
LEMMA FallbackFacts ==
    ASSUME TypeOK, NEW f \in Files, FallbackSync(f)
    PROVE  /\ ItemsType'
           /\ \A g \in Files : g # f => /\ success'[g] = success[g]
                                        /\ errno'[g] = errno[g]
                                        /\ consumed'[g] = consumed[g]
  <1> DEFINE new == Append(consumed[f], Piece(f, size[f], TRUE))
  <1>1. ItemsType /\ Piece(f, size[f], TRUE) \in PieceType
    BY DEF TypeOK, FsType, Piece, PieceType
  <1>2. new \in Seq(PieceType)
    <2>1. consumed[f] \in Seq(PieceType)
      BY <1>1 DEF ItemsType
    <2> QED BY <1>1, <2>1, AppendType
  <1>3. CASE /\ consumed' = [consumed EXCEPT ![f] = new]
             /\ success' = [success EXCEPT ![f] = TRUE]
             /\ errno' = [errno EXCEPT ![f] = NoError]
    <2> HIDE DEF new
    <2> QED BY <1>1, <1>2, <1>3 DEF ItemsType, NoError
  <1>4. CASE \E e \in Nat : Reject(f, e) /\ UNCHANGED consumed
    BY <1>1, <1>4, RejectFacts
  <1> QED BY <1>3, <1>4 DEF FallbackSync, ENOENT, EIO

(* Reaping a completion: the chain's reaped count and the item it is        *)
(* attributed to.                                                           *)
LEMMA ReapFacts ==
    ASSUME TypeInv, NEW c \in Chains, Reap(c)
    PROVE  /\ c[1] \in BatchNo /\ c[2] \in Slots /\ c = <<c[1], c[2]>>
           /\ reaped' \in [Chains -> 0..4]
           /\ reaped[c] + 1 \in 1..4 /\ reaped[c] + 1 <= done[c]
           /\ res[c][reaped[c] + 1] \in Int
           /\ ItemsType' /\ bytesRead' \in [Slots -> Nat] /\ undefined' \in BOOLEAN
           /\ \A g \in Files : g # slotItem[c[2]] => /\ success'[g] = success[g]
                                                     /\ errno'[g] = errno[g]
                                                     /\ consumed'[g] = consumed[g]
           /\ \A t \in Slots : t # c[2] => bytesRead'[t] = bytesRead[t]
  <1>1. c[1] \in BatchNo /\ c[2] \in Slots /\ c = <<c[1], c[2]>>
    BY DEF Chains
  <1>2. reaped[c] \in 0..4 /\ done[c] \in 0..4 /\ reaped[c] < done[c] /\ res[c] \in [1..4 -> Int]
    BY DEF TypeInv, TypeOK, KernelType, Reap
  <1>3. reaped[c] + 1 \in 1..4 /\ reaped[c] + 1 <= done[c] /\ res[c][reaped[c] + 1] \in Int
    BY <1>2
  <1>4. reaped' \in [Chains -> 0..4]
    BY <1>3 DEF TypeInv, TypeOK, KernelType, Reap
  <1>5. CASE slotItem[c[2]] = NoFile
    BY <1>1, <1>3, <1>4, <1>5 DEF Reap, items, TypeInv, TypeOK, ItemsType, WorkerType
  <1>6. CASE slotItem[c[2]] # NoFile
    <2>1. slotItem[c[2]] \in Files /\ undefined \in BOOLEAN
      BY <1>6, <1>1 DEF TypeInv, TypeOK, WorkerType
    <2>2. HandleCqe(slotItem[c[2]], c[2], reaped[c] + 1, res[c][reaped[c] + 1]) /\ UNCHANGED undefined
      BY <1>6 DEF Reap
    <2> QED BY <2>1, <2>2, <1>1, <1>3, <1>4, HandleCqeFacts DEF TypeInv
  <1> QED BY <1>5, <1>6

(* The steps that leave drive_chunk change nothing but the worker's place. *)
LeaveStep == QueueFull \/ NothingToSubmit \/ SubmitFails \/ WaitFails \/ AllSeen

LEMMA LeaveFacts ==
    ASSUME LeaveStep
    PROVE  /\ pc \in {"prepare", "wait"} /\ pc' = "fallback" /\ offset' = 0 /\ driveOk' \in BOOLEAN
           /\ UNCHANGED <<batch, slotItem, submitted, seen, bytesRead, clean, undefined>>
           /\ UNCHANGED <<success, errno, consumed>>
           /\ UNCHANGED <<chState, chFile, done, reaped, res, fdTable, buffer>>
           /\ UNCHANGED <<exists, size, changes, touched>>
  BY DEF LeaveStep, LeaveDrive, QueueFull, NothingToSubmit, SubmitFails, WaitFails, AllSeen, items, kernel, chains, fs

LEMMA TypeLeave == ASSUME TypeInv, LeaveStep PROVE TypeInv'
  <1>1. ItemCount' = ItemCount /\ ItemCount \in Nat
    BY LeaveFacts, ItemFacts DEF ItemCount, TypeInv
  <1>2. WorkerType'
    BY <1>1, LeaveFacts DEF TypeInv, TypeOK, WorkerType
  <1>3. ItemsType' /\ KernelType' /\ FsType'
    BY LeaveFacts DEF TypeInv, TypeOK, ItemsType, KernelType, FsType
  <1>4. ChainsInOrder'
    BY LeaveFacts DEF TypeInv, ChainsInOrder
  <1>5. Looked <= Looked' /\ Looked \in Nat /\ Looked' \in Nat
    BY <1>1, LeaveFacts DEF Looked, TypeInv, TypeOK, WorkerType
  <1>6. SlotsAssigned'
    BY <1>5, LeaveFacts DEF TypeInv, SlotsAssigned, Item, Mine
  <1> QED BY <1>2, <1>3, <1>4, <1>6 DEF TypeInv, TypeOK

LEMMA TypeSkip == ASSUME TypeInv, SkipItem PROVE TypeInv'
  <1> USE DEF SkipItem
  <1>1. ItemCount' = ItemCount /\ ItemCount \in Nat
    BY ItemFacts DEF ItemCount, TypeInv
  <1>2. WorkerType'
    BY <1>1 DEF TypeInv, TypeOK, WorkerType
  <1>3. ItemsType' /\ KernelType' /\ FsType'
    BY DEF TypeInv, TypeOK, ItemsType, KernelType, FsType, items, kernel, chains, fs
  <1>4. ChainsInOrder'
    BY DEF TypeInv, ChainsInOrder, kernel, chains
  <1>5. Looked' = Looked + 1 /\ Looked = offset /\ Looked \in Nat
    BY <1>1 DEF Looked, TypeInv, TypeOK, WorkerType
  <1>6. SlotsAssigned'
    BY <1>5 DEF TypeInv, TypeOK, WorkerType, SlotsAssigned, Item, Mine, kernel, chains
  <1> QED BY <1>2, <1>3, <1>4, <1>6 DEF TypeInv, TypeOK

LEMMA TypePrepare == ASSUME TypeInv, PrepareItem PROVE TypeInv'
  <1> USE DEF PrepareItem
  <1>1. /\ ItemCount' = ItemCount /\ ItemCount \in Nat /\ ItemCount <= SlotCount
        /\ Item(offset + 1) \in Files
        /\ offset + 1 \in 1..ItemCount
    <2>1. offset \in Nat /\ offset < ItemCount
      BY ItemFacts DEF TypeInv, TypeOK, WorkerType
    <2> QED BY <2>1, ItemFacts DEF ItemCount, TypeInv
  <1>2. /\ submitted \in Nat /\ submitted + 1 \in Slots /\ submitted + 1 \in 0..SlotCount
        /\ <<batch, submitted + 1>> \in Chains
    BY <1>1, BoundsAssumption DEF TypeInv, TypeOK, WorkerType, SlotsAssigned, Slots, Chains
  <1>3. WorkerType'
    BY <1>1, <1>2 DEF TypeInv, TypeOK, WorkerType
  <1>4. KernelType'
    BY <1>1, <1>2 DEF TypeInv, TypeOK, KernelType
  <1>5. ItemsType' /\ FsType'
    BY DEF TypeInv, TypeOK, ItemsType, FsType, items, fs
  <1>6. ChainsInOrder'
    <2> SUFFICES ASSUME NEW c \in Chains
                 PROVE  /\ chState'[c] # "flying" => done'[c] = 0
                        /\ reaped'[c] <= done'[c]
                        /\ chState'[c] # "none" => chFile'[c] \in Files
                        /\ c[1] > batch' => chState'[c] = "none"
                        /\ c[1] = batch' /\ c[2] > submitted' => chState'[c] = "none"
      BY DEF ChainsInOrder
    <2>1. c[1] \in Nat /\ c[2] \in Nat /\ batch \in Nat /\ c = <<c[1], c[2]>>
      BY BatchesAssumption DEF Chains, BatchNo, Slots, TypeInv, TypeOK, WorkerType
    <2>2. CASE c = <<batch, submitted + 1>>
      <3>1. chState[c] = "none"
        BY <1>2, <2>2 DEF TypeInv, ChainsInOrder
      <3>2. chState'[c] = "queued" /\ chFile'[c] = Item(offset + 1)
        BY <1>2, <2>2 DEF TypeInv, TypeOK, KernelType
      <3> QED BY <1>1, <1>2, <2>1, <2>2, <3>1, <3>2 DEF TypeInv, ChainsInOrder
    <2>3. CASE c # <<batch, submitted + 1>>
      <3>1. chState'[c] = chState[c] /\ chFile'[c] = chFile[c]
        BY <1>2, <2>3 DEF TypeInv, TypeOK, KernelType
      <3> QED BY <1>2, <2>1, <3>1 DEF TypeInv, ChainsInOrder
    <2> QED BY <2>2, <2>3
  <1>7. Looked' = Looked + 1 /\ Looked = offset /\ Looked \in Nat
    BY <1>1 DEF Looked, TypeInv, TypeOK, WorkerType
  <1>8. \A s \in 1..submitted : slotItem[s] # Item(offset + 1) /\ <<batch, s>> \in Chains /\ <<batch, s>> # <<batch, submitted + 1>>
    <2> SUFFICES ASSUME NEW s \in 1..submitted
                 PROVE  slotItem[s] # Item(offset + 1) /\ <<batch, s>> \in Chains /\ <<batch, s>> # <<batch, submitted + 1>>
      OBVIOUS
    <2>1. s \in Slots /\ s <= submitted
      BY <1>2, BoundsAssumption DEF Slots
    <2>4. \E i \in 1..Looked : slotItem[s] = Item(i)
      BY <2>1 DEF TypeInv, SlotsAssigned
    <2>2. PICK i \in 1..offset : slotItem[s] = Item(i)
      BY <1>7, <2>4
    <2>3. Item(i) # Item(offset + 1)
      BY <1>1, <1>7, ItemFacts DEF TypeInv
    <2> QED BY <1>2, <2>1, <2>2, <2>3 DEF Chains, TypeInv, TypeOK, WorkerType
  <1>9. SlotsAssigned'
    <2>1. pc' = "prepare" => submitted' <= offset'
      BY <1>1, <1>2 DEF TypeInv, TypeOK, WorkerType, SlotsAssigned
    <2>2. ASSUME NEW s \in Slots, s <= submitted'
          PROVE  /\ slotItem'[s] \in Files
                 /\ Fits(slotItem'[s])
                 /\ chFile'[Mine(s)'] = slotItem'[s]
                 /\ chState'[Mine(s)'] # "none"
                 /\ \E i \in 1..Looked' : slotItem'[s] = Item(i)'
      <3>1. CASE s = submitted + 1
        BY <1>1, <1>2, <1>7, <3>1 DEF Mine, Item, TypeInv, TypeOK, WorkerType, KernelType
      <3>2. CASE s # submitted + 1
        <4>1. s \in 1..submitted
          BY <1>2, <2>2, <3>2 DEF Slots
        <4>2. slotItem'[s] = slotItem[s] /\ chFile'[<<batch, s>>] = chFile[<<batch, s>>] /\ chState'[<<batch, s>>] = chState[<<batch, s>>]
          BY <1>2, <1>8, <4>1, <3>2 DEF TypeInv, TypeOK, WorkerType, KernelType
        <4> QED BY <1>7, <4>1, <4>2 DEF Mine, Item, TypeInv, SlotsAssigned
      <3> QED BY <3>1, <3>2
    <2>3. ASSUME NEW s \in Slots, ~ (s <= submitted') PROVE slotItem'[s] = NoFile
      <3>1. s # submitted + 1 /\ ~ (s <= submitted)
        BY <1>2, <2>3 DEF Slots
      <3> QED BY <1>2, <3>1 DEF TypeInv, TypeOK, WorkerType, SlotsAssigned
    <2>4. ASSUME NEW s \in 1..submitted', NEW t \in 1..submitted', slotItem'[s] = slotItem'[t] PROVE s = t
      <3>1. s \in Slots /\ t \in Slots /\ slotItem \in [Slots -> Files \cup {NoFile}]
        BY <1>2, BoundsAssumption DEF Slots, TypeInv, TypeOK, WorkerType
      <3>2. (s \in 1..submitted \/ s = submitted + 1) /\ (t \in 1..submitted \/ t = submitted + 1)
        BY <1>2
      <3>3. \A k \in Slots : slotItem'[k] = IF k = submitted + 1 THEN Item(offset + 1) ELSE slotItem[k]
        BY <3>1
      <3>4. \A k \in 1..submitted : k # submitted + 1
        BY <1>2
      <3> QED BY <1>8, <2>4, <3>1, <3>2, <3>3, <3>4 DEF TypeInv, SlotsAssigned
    <2> QED BY <2>1, <2>2, <2>3, <2>4 DEF SlotsAssigned
  <1> QED BY <1>3, <1>4, <1>5, <1>6, <1>9 DEF TypeInv, TypeOK

LEMMA TypeSubmit == ASSUME TypeInv, Submit PROVE TypeInv'
  <1> USE DEF Submit
  <1>1. ItemCount' = ItemCount
    BY DEF ItemCount
  <1>2. WorkerType'
    BY <1>1 DEF TypeInv, TypeOK, WorkerType
  <1>3. KernelType'
    BY DEF TypeInv, TypeOK, KernelType
  <1>4. ItemsType' /\ FsType'
    BY DEF TypeInv, TypeOK, ItemsType, FsType, items, fs
  <1>5. \A c \in Chains : /\ chState'[c] = IF chState[c] = "queued" THEN "flying" ELSE chState[c]
                          /\ chState[c] \in {"none", "queued", "flying"}
    BY DEF TypeInv, TypeOK, KernelType
  <1>6. ChainsInOrder'
    BY <1>5 DEF TypeInv, ChainsInOrder
  <1>7. Looked' = Looked
    BY <1>1 DEF Looked
  <1>8. \A s \in Slots : s <= submitted => Mine(s) \in Chains
    BY DEF Mine, Chains, TypeInv, TypeOK, WorkerType
  <1>9. SlotsAssigned'
    <2>1. ASSUME NEW s \in Slots, s <= submitted
          PROVE  /\ slotItem[s] \in Files /\ Fits(slotItem[s])
                 /\ chFile[Mine(s)] = slotItem[s] /\ chState'[Mine(s)] # "none"
                 /\ \E i \in 1..Looked : slotItem[s] = Item(i)
      BY <1>5, <1>8, <2>1 DEF TypeInv, SlotsAssigned
    <2> QED BY <1>7, <2>1 DEF TypeInv, SlotsAssigned, Mine, Item
  <1> QED BY <1>2, <1>3, <1>4, <1>6, <1>9 DEF TypeInv, TypeOK

LEMMA TypeReap == ASSUME TypeInv, NEW c \in Chains, Reap(c) PROVE TypeInv'
  <1>1. /\ UNCHANGED <<pc, batch, offset, slotItem, submitted, driveOk, clean, chState, chFile, done, res, fdTable, buffer>>
        /\ UNCHANGED <<exists, size, changes, touched>>
        /\ seen' = seen + 1
        /\ reaped' = [reaped EXCEPT ![c] = @ + 1]
    BY DEF Reap, fs
  <1>2. WorkerType'
    BY <1>1, ReapFacts DEF TypeInv, TypeOK, WorkerType, ItemCount
  <1>3. KernelType' /\ FsType'
    BY <1>1, ReapFacts DEF TypeInv, TypeOK, KernelType, FsType
  <1>4. ChainsInOrder'
    <2>1. \A d \in Chains : reaped'[d] <= done[d]
      BY <1>1, ReapFacts DEF TypeInv, TypeOK, KernelType, ChainsInOrder
    <2> QED BY <1>1, <2>1 DEF TypeInv, ChainsInOrder
  <1>5. SlotsAssigned'
    BY <1>1 DEF TypeInv, SlotsAssigned, Looked, Mine, Item, ItemCount
  <1> QED BY <1>2, <1>3, <1>4, <1>5, ReapFacts DEF TypeInv, TypeOK

LEMMA TypeFallback == ASSUME TypeInv, FallbackItem PROVE TypeInv'
  <1>1. /\ UNCHANGED <<pc, batch, slotItem, submitted, seen, bytesRead, driveOk, clean, undefined>>
        /\ UNCHANGED <<chState, chFile, done, reaped, res, fdTable, buffer>>
        /\ UNCHANGED <<exists, size, changes, touched>>
        /\ offset' = offset + 1 /\ offset < ItemCount /\ pc = "fallback"
    BY DEF FallbackItem, kernel, chains, fs
  <1>2. offset + 1 \in 1..ItemCount /\ Item(offset + 1) \in Files
    <2>1. offset \in Nat
      BY ItemFacts DEF TypeInv, TypeOK, WorkerType
    <2>2. offset + 1 \in 1..ItemCount
      BY <1>1, <2>1, ItemFacts DEF TypeInv
    <2> QED BY <2>2, ItemFacts DEF TypeInv
  <1>3. ItemsType'
    <2>1. CASE Settled(Item(offset + 1))
      BY <2>1 DEF FallbackItem, items, TypeInv, TypeOK, ItemsType
    <2>2. CASE ~ Settled(Item(offset + 1))
      BY <1>2, <2>2, FallbackFacts DEF FallbackItem, TypeInv
    <2> QED BY <2>1, <2>2
  <1>4. WorkerType'
    BY <1>1, <1>2, ItemFacts DEF TypeInv, TypeOK, WorkerType, ItemCount
  <1>5. KernelType' /\ FsType'
    BY <1>1 DEF TypeInv, TypeOK, KernelType, FsType
  <1>6. ChainsInOrder'
    BY <1>1 DEF TypeInv, ChainsInOrder
  <1>7. SlotsAssigned'
    BY <1>1 DEF TypeInv, SlotsAssigned, Looked, Mine, Item, ItemCount
  <1> QED BY <1>3, <1>4, <1>5, <1>6, <1>7 DEF TypeInv, TypeOK

LEMMA TypeNextBatch == ASSUME TypeInv, NextBatch PROVE TypeInv'
  <1>1. /\ pc' = "prepare" /\ batch' = batch + 1 /\ offset' = 0 /\ submitted' = 0 /\ seen' = 0
        /\ slotItem' = [s \in Slots |-> NoFile] /\ bytesRead' = [s \in Slots |-> 0]
        /\ driveOk' = FALSE /\ clean' \in BOOLEAN /\ undefined' = FALSE
        /\ batch < Len(Batches)
        /\ UNCHANGED <<success, errno, consumed>>
        /\ UNCHANGED <<chState, chFile, done, reaped, res, fdTable, buffer>>
        /\ UNCHANGED <<exists, size, changes, touched>>
    BY DEF NextBatch, RingIdle, items, kernel, chains, fs
  <1>2. batch \in Nat /\ batch' \in BatchNo
    BY <1>1, BatchesAssumption DEF TypeInv, TypeOK, WorkerType, BatchNo
  <1>3. ItemCount' \in Nat
    BY <1>2, BatchesAssumption DEF ItemCount, BatchNo
  <1>4. WorkerType'
    <2>1. offset' \in 0..ItemCount' /\ submitted' \in 0..SlotCount /\ seen' \in Nat
      BY <1>1, <1>3, BoundsAssumption
    <2> QED BY <1>1, <1>2, <2>1 DEF WorkerType
  <1>5. ItemsType' /\ KernelType' /\ FsType'
    BY <1>1 DEF TypeInv, TypeOK, ItemsType, KernelType, FsType
  <1>6. \A d \in Chains : d[1] \in Nat /\ d[2] \in Nat
    BY BatchesAssumption, BoundsAssumption DEF Chains, BatchNo, Slots
  <1>7. ChainsInOrder'
    BY <1>1, <1>2, <1>6 DEF TypeInv, ChainsInOrder
  <1>8. SlotsAssigned'
    BY <1>1, BoundsAssumption DEF SlotsAssigned, Slots
  <1> QED BY <1>4, <1>5, <1>7, <1>8 DEF TypeInv, TypeOK

LEMMA TypeLastBatch == ASSUME TypeInv, LastBatch PROVE TypeInv'
  <1>1. /\ pc' = "finished" /\ pc = "fallback"
        /\ UNCHANGED <<batch, offset, slotItem, submitted, seen, bytesRead, driveOk, clean, undefined>>
        /\ UNCHANGED <<success, errno, consumed>>
        /\ UNCHANGED <<chState, chFile, done, reaped, res, fdTable, buffer>>
        /\ UNCHANGED <<exists, size, changes, touched>>
    BY DEF LastBatch, items, kernel, chains, fs
  <1>2. WorkerType'
    BY <1>1 DEF TypeInv, TypeOK, WorkerType, ItemCount
  <1>3. ItemsType' /\ KernelType' /\ FsType'
    BY <1>1 DEF TypeInv, TypeOK, ItemsType, KernelType, FsType
  <1>4. ChainsInOrder' /\ SlotsAssigned'
    BY <1>1 DEF TypeInv, ChainsInOrder, SlotsAssigned, Looked, Mine, Item, ItemCount
  <1> QED BY <1>2, <1>3, <1>4 DEF TypeInv, TypeOK

(* A kernel step completes one request of one chain, and changes nothing    *)
(* but its result, and the descriptor and the buffer of its slot.           *)
LEMMA KernelFacts ==
    ASSUME TypeInv, NEW c \in Chains, KernelStep(c)
    PROVE  /\ chState[c] = "flying" /\ done[c] \in 0..3 /\ done'[c] = done[c] + 1
           /\ done' \in [Chains -> 0..4] /\ res' \in [Chains -> [1..4 -> Int]]
           /\ fdTable' \in [Slots -> Files \cup {NoFile}] /\ buffer' \in [Slots -> PieceType]
           /\ \A d \in Chains : d # c => done'[d] = done[d] /\ res'[d] = res[d]
           /\ \A op \in 1..4 : op # done[c] + 1 => res'[c][op] = res[c][op]
           /\ \A s \in Slots : s # c[2] => fdTable'[s] = fdTable[s] /\ buffer'[s] = buffer[s]
           /\ UNCHANGED <<pc, batch, offset, slotItem, submitted, seen, bytesRead, driveOk, clean, undefined>>
           /\ UNCHANGED <<success, errno, consumed>>
           /\ UNCHANGED <<chState, chFile, reaped>>
           /\ UNCHANGED <<exists, size, changes, touched>>
  <1>1. /\ chState[c] = "flying" /\ done[c] < 4
        /\ UNCHANGED <<pc, batch, offset, slotItem, submitted, seen, bytesRead, driveOk, clean, undefined>>
        /\ UNCHANGED <<success, errno, consumed>>
        /\ UNCHANGED <<chState, chFile, reaped>>
        /\ UNCHANGED <<exists, size, changes, touched>>
    BY DEF KernelStep, worker, items, fs
  <1>2. done[c] \in 0..3 /\ done[c] + 1 \in 1..4 /\ res[c] \in [1..4 -> Int] /\ c[2] \in Slots
    BY <1>1 DEF TypeInv, TypeOK, KernelType, Chains
  <1>3. chFile[c] \in Files /\ StatSize[chFile[c]] \in Nat /\ fdTable[c[2]] \in Files \cup {NoFile}
    BY <1>1, <1>2, StatSizeAssumption DEF TypeInv, ChainsInOrder, TypeOK, KernelType
  <1>4. \A f \in Files : size[f] \in Nat
    BY DEF TypeInv, TypeOK, FsType
  <1>5. ASSUME NEW result \in Int, Complete(c, result)
        PROVE  /\ done'[c] = done[c] + 1 /\ done' \in [Chains -> 0..4] /\ res' \in [Chains -> [1..4 -> Int]]
               /\ \A d \in Chains : d # c => done'[d] = done[d] /\ res'[d] = res[d]
               /\ \A op \in 1..4 : op # done[c] + 1 => res'[c][op] = res[c][op]
    <2>1. done' = [done EXCEPT ![c] = done[c] + 1] /\ res' = [res EXCEPT ![c] = [res[c] EXCEPT ![done[c] + 1] = result]]
      BY <1>5 DEF Complete
    <2>2. [res[c] EXCEPT ![done[c] + 1] = result] \in [1..4 -> Int]
      BY <1>2
    <2>3. res' \in [Chains -> [1..4 -> Int]] /\ \A d \in Chains : d # c => res'[d] = res[d]
      BY <2>1, <2>2 DEF TypeInv, TypeOK, KernelType
    <2>4. done'[c] = done[c] + 1 /\ done' \in [Chains -> 0..4] /\ \A d \in Chains : d # c => done'[d] = done[d]
      BY <1>2, <2>1 DEF TypeInv, TypeOK, KernelType
    <2>5. res'[c] = [res[c] EXCEPT ![done[c] + 1] = result]
      BY <2>1 DEF TypeInv, TypeOK, KernelType
    <2>6. \A op \in 1..4 : op # done[c] + 1 => res'[c][op] = res[c][op]
      BY <1>2, <2>5
    <2> QED BY <2>3, <2>4, <2>6
  <1>6. /\ \E result \in Int : Complete(c, result)
        /\ \/ UNCHANGED fdTable
           \/ fdTable' = [fdTable EXCEPT ![c[2]] = chFile[c]]
           \/ fdTable' = [fdTable EXCEPT ![c[2]] = NoFile]
        /\ UNCHANGED buffer \/ \E p \in PieceType : buffer' = [buffer EXCEPT ![c[2]] = p]
    <2>1. CASE Broken(c, done[c] + 1) /\ Complete(c, -ECANCELED) /\ UNCHANGED <<fdTable, buffer>>
      BY <2>1 DEF ECANCELED
    <2>2. CASE KernelOpen(c)
      BY <2>2 DEF KernelOpen, ENOENT
    <2>3. CASE KernelRead(c)
      <3> DEFINE f == fdTable[c[2]]
                 n == Smaller(StatSize[chFile[c]], size[f])
      <3>1. CASE f # NoFile /\ Complete(c, n) /\ buffer' = [buffer EXCEPT ![c[2]] = Piece(f, n, n = size[f])] /\ UNCHANGED fdTable
        <4>1. f \in Files /\ n \in Nat /\ (n = size[f]) \in BOOLEAN
          BY <1>3, <1>4, <3>1 DEF Smaller
        <4>2. Piece(f, n, n = size[f]) \in PieceType
          BY <4>1 DEF Piece, PieceType
        <4>3. Complete(c, n) /\ n \in Int
          BY <3>1, <4>1
        <4>4. \E result \in Int : Complete(c, result)
          BY <4>3
        <4>5. \E p \in PieceType : buffer' = [buffer EXCEPT ![c[2]] = p]
          BY <3>1, <4>2
        <4> QED BY <3>1, <4>4, <4>5
      <3>2. CASE \E e \in {EBADF, EIO} : Complete(c, -e) /\ UNCHANGED <<buffer, fdTable>>
        BY <3>2 DEF EBADF, EIO
      <3> QED BY <2>3, <3>1, <3>2 DEF KernelRead
    <2>4. CASE KernelProbe(c)
      <3>1. UNCHANGED <<fdTable, buffer>> /\ \E e \in {0, 1, -EBADF, -EIO} : Complete(c, e)
        BY <2>4 DEF KernelProbe
      <3> QED BY <3>1 DEF EBADF, EIO
    <2>5. CASE KernelClose(c)
      BY <2>5 DEF KernelClose, EBADF
    <2> QED BY <2>1, <2>2, <2>3, <2>4, <2>5 DEF KernelStep
  <1>7. fdTable' \in [Slots -> Files \cup {NoFile}] /\ \A s \in Slots : s # c[2] => fdTable'[s] = fdTable[s]
    BY <1>2, <1>3, <1>6 DEF TypeInv, TypeOK, KernelType
  <1>8. buffer' \in [Slots -> PieceType] /\ \A s \in Slots : s # c[2] => buffer'[s] = buffer[s]
    BY <1>2, <1>6 DEF TypeInv, TypeOK, KernelType
  <1> QED BY <1>1, <1>2, <1>5, <1>6, <1>7, <1>8

LEMMA TypeKernel == ASSUME TypeInv, NEW c \in Chains, KernelStep(c) PROVE TypeInv'
  <1>1. WorkerType' /\ ItemsType' /\ FsType'
    BY KernelFacts DEF TypeInv, TypeOK, WorkerType, ItemsType, FsType, ItemCount
  <1>2. KernelType'
    BY KernelFacts DEF TypeInv, TypeOK, KernelType
  <1>3. \A d \in Chains : reaped[d] <= done'[d] /\ (chState[d] # "flying" => done'[d] = 0)
    <2> SUFFICES ASSUME NEW d \in Chains PROVE reaped[d] <= done'[d] /\ (chState[d] # "flying" => done'[d] = 0)
      OBVIOUS
    <2>1. done[d] \in 0..4 /\ reaped[d] \in 0..4 /\ reaped[d] <= done[d] /\ (chState[d] # "flying" => done[d] = 0)
      BY DEF TypeInv, TypeOK, KernelType, ChainsInOrder
    <2> QED BY <2>1, KernelFacts
  <1>4. ChainsInOrder'
    BY <1>3, KernelFacts DEF TypeInv, ChainsInOrder
  <1>5. SlotsAssigned'
    <2>1. UNCHANGED <<pc, batch, offset, slotItem, submitted, chState, chFile>>
      BY KernelFacts
    <2> QED BY <2>1 DEF TypeInv, SlotsAssigned, Looked, Mine, Item, ItemCount
  <1> QED BY <1>1, <1>2, <1>4, <1>5 DEF TypeInv, TypeOK

(* What other processes do to a file leaves the program's state alone. *)
LEMMA FsFacts ==
    ASSUME TypeInv, NEW f \in Files, Grow(f) \/ Shrink(f) \/ Vanish(f)
    PROVE  /\ FsType'
           /\ \A g \in Files : "shrink" \notin FsOps => size'[g] >= size[g]
           /\ pc # "finished"
           /\ UNCHANGED <<pc, batch, offset, slotItem, submitted, seen, bytesRead, driveOk, clean, undefined>>
           /\ UNCHANGED <<success, errno, consumed>>
           /\ UNCHANGED <<chState, chFile, done, reaped, res, fdTable, buffer>>
  <1>1. /\ pc # "finished"
        /\ UNCHANGED <<pc, batch, offset, slotItem, submitted, seen, bytesRead, driveOk, clean, undefined>>
        /\ UNCHANGED <<success, errno, consumed>>
        /\ UNCHANGED <<chState, chFile, done, reaped, res, fdTable, buffer>>
        /\ changes < MaxChanges /\ changes' = changes + 1 /\ touched' = touched \cup {f}
    BY DEF Grow, Shrink, Vanish, Touch, worker, items, kernel, chains
  <1>2. changes' \in 0..MaxChanges /\ touched' \in SUBSET Files
    BY <1>1, BoundsAssumption DEF TypeInv, TypeOK, FsType
  <1>3. exists' \in [Files -> BOOLEAN]
    BY DEF TypeInv, TypeOK, FsType, Grow, Shrink, Vanish
  <1>4. size' \in [Files -> Nat] /\ \A g \in Files : "shrink" \notin FsOps => size'[g] >= size[g]
    BY DEF TypeInv, TypeOK, FsType, Grow, Shrink, Vanish
  <1> QED BY <1>1, <1>2, <1>3, <1>4 DEF FsType

LEMMA TypeFs == ASSUME TypeInv, NEW f \in Files, Grow(f) \/ Shrink(f) \/ Vanish(f) PROVE TypeInv'
  <1>1. WorkerType' /\ ItemsType' /\ KernelType'
    BY FsFacts DEF TypeInv, TypeOK, WorkerType, ItemsType, KernelType, ItemCount
  <1>2. ChainsInOrder' /\ SlotsAssigned'
    BY FsFacts DEF TypeInv, ChainsInOrder, SlotsAssigned, Looked, Mine, Item, ItemCount
  <1> QED BY <1>1, <1>2, FsFacts DEF TypeInv, TypeOK

LEMMA TypeStutter == ASSUME TypeInv, UNCHANGED vars PROVE TypeInv'
  <1>1. /\ UNCHANGED <<pc, batch, offset, slotItem, submitted, seen, bytesRead, driveOk, clean, undefined>>
        /\ UNCHANGED <<success, errno, consumed>>
        /\ UNCHANGED <<chState, chFile, done, reaped, res, fdTable, buffer>>
        /\ UNCHANGED <<exists, size, changes, touched>>
    BY DEF vars, worker, items, kernel, chains, fs
  <1>2. TypeOK'
    BY <1>1 DEF TypeInv, TypeOK, WorkerType, ItemsType, KernelType, FsType, ItemCount
  <1>3. ChainsInOrder' /\ SlotsAssigned'
    BY <1>1 DEF TypeInv, ChainsInOrder, SlotsAssigned, Looked, Mine, Item, ItemCount
  <1> QED BY <1>2, <1>3 DEF TypeInv

LEMMA TypeNext == TypeInv /\ [Next]_vars => TypeInv'
  <1> SUFFICES ASSUME TypeInv, [Next]_vars PROVE TypeInv'
    OBVIOUS
  <1>1. CASE LeaveStep
    BY <1>1, TypeLeave
  <1>2. CASE SkipItem \/ PrepareItem \/ Submit
    BY <1>2, TypeSkip, TypePrepare, TypeSubmit
  <1>3. CASE \E c \in Chains : Reap(c)
    BY <1>3, TypeReap
  <1>4. CASE FallbackItem \/ NextBatch \/ LastBatch
    BY <1>4, TypeFallback, TypeNextBatch, TypeLastBatch
  <1>5. CASE \E c \in Chains : KernelStep(c)
    BY <1>5, TypeKernel
  <1>6. CASE \E f \in Files : Grow(f) \/ Shrink(f) \/ Vanish(f)
    BY <1>6, TypeFs
  <1>7. CASE UNCHANGED vars
    BY <1>7, TypeStutter
  <1> QED BY <1>1, <1>2, <1>3, <1>4, <1>5, <1>6, <1>7 DEF Next, Worker, Failure, LeaveStep, Finished

(* Every variable keeps its type, whatever the worker, the kernel and other *)
(* processes do: no step of consume_batch indexes outside its slots, its    *)
(* items or the four requests of a chain.                                   *)
THEOREM TypeCorrect == Spec => []TypeOK
  <1>1. TypeInv => TypeOK
    BY DEF TypeInv
  <1> QED BY <1>1, TypeInit, TypeNext, PTL DEF Spec

-----------------------------------------------------------------------------
(* The inductive invariant.                                                 *)

LEMMA FutureDistinct ==
    ASSUME TypeInv, NEW b \in BatchNo, b > batch, NEW i \in 1..Len(Batches[b]), NEW j \in 1..ItemCount
    PROVE  Batches[b][i] \in Files /\ Batches[b][i] # Item(j)
  <1>1. batch \in BatchNo /\ batch \in Nat /\ b \in Nat
    BY BatchesAssumption DEF TypeInv, TypeOK, WorkerType, BatchNo
  <1>2. Batches[b] \in Seq(Files)
    BY BatchesAssumption DEF BatchNo
  <1>3. Batches[b][i] \in Files
    BY <1>2
  <1>4. Batches[b][i] = Batches[batch][j] => b = batch
    BY <1>1, BatchesAssumption DEF BatchNo, ItemCount
  <1> QED BY <1>1, <1>3, <1>4 DEF Item

(* A slot with an item holds an item of the current batch. *)
LEMMA SlotFacts ==
    ASSUME TypeInv, NEW s \in Slots, slotItem[s] # NoFile
    PROVE  /\ s \in 1..submitted
           /\ slotItem[s] \in Files /\ Fits(slotItem[s])
           /\ StatSize[slotItem[s]] \in Nat /\ StatSize[slotItem[s]] > 0
           /\ chFile[Mine(s)] = slotItem[s] /\ Mine(s) \in Chains
           /\ \E i \in 1..ItemCount : slotItem[s] = Item(i)
  <1>1. s \in Nat /\ s >= 1 /\ submitted \in Nat /\ batch \in BatchNo
    BY BoundsAssumption DEF Slots, TypeInv, TypeOK, WorkerType
  <1>2. s <= submitted
    BY DEF TypeInv, SlotsAssigned
  <1>3. /\ slotItem[s] \in Files /\ Fits(slotItem[s]) /\ chFile[Mine(s)] = slotItem[s]
        /\ \E i \in 1..Looked : slotItem[s] = Item(i)
    BY <1>2 DEF TypeInv, SlotsAssigned
  <1>4. Looked \in Nat /\ Looked <= ItemCount
    BY ItemFacts DEF Looked, TypeInv, TypeOK, WorkerType
  <1>5. \E i \in 1..ItemCount : slotItem[s] = Item(i)
    BY <1>3, <1>4, ItemFacts DEF TypeInv
  <1>6. Mine(s) \in Chains
    BY <1>1 DEF Mine, Chains
  <1> QED BY <1>1, <1>2, <1>3, <1>5, <1>6, FitsFacts

(* The slots in use are slots. *)
LEMMA UsedSlots ==
    ASSUME TypeInv
    PROVE  \A s \in 1..submitted : s \in Slots /\ slotItem[s] \in Files /\ slotItem[s] # NoFile /\ Mine(s) \in Chains
  <1>1. submitted \in Nat /\ submitted <= SlotCount /\ batch \in BatchNo
    BY BoundsAssumption DEF TypeInv, TypeOK, WorkerType
  <1>2. \A s \in 1..submitted : s \in Slots /\ s <= submitted
    BY <1>1, BoundsAssumption DEF Slots
  <1>3. \A s \in 1..submitted : slotItem[s] \in Files
    BY <1>2 DEF TypeInv, SlotsAssigned
  <1>4. \A s \in 1..submitted : Mine(s) \in Chains
    BY <1>1, <1>2 DEF Mine, Chains
  <1> QED BY <1>2, <1>3, <1>4, NoFileAssumption

LEMMA FutureNext == ASSUME TypeInv, FutureItems, [Next]_vars PROVE FutureItems'
  <1>0. FutureItems /\ batch' = batch /\ UNCHANGED <<success, errno, consumed>> => FutureItems'
    BY DEF FutureItems
  <1>1. CASE SkipItem \/ PrepareItem \/ Submit \/ LastBatch \/ LeaveStep
    BY <1>0, <1>1, LeaveFacts DEF SkipItem, PrepareItem, Submit, LastBatch, items
  <1>2. ASSUME NEW c \in Chains, Reap(c) PROVE FutureItems'
    <2>1. batch' = batch /\ c[2] \in Slots
      BY <1>2, ReapFacts DEF Reap
    <2>2. CASE slotItem[c[2]] = NoFile
      BY <1>0, <1>2, <2>1, <2>2 DEF Reap, items
    <2>3. CASE slotItem[c[2]] # NoFile
      <3>1. PICK j \in 1..ItemCount : slotItem[c[2]] = Item(j)
        BY <2>1, <2>3, SlotFacts
      <3>2. \A g \in Files : g # Item(j) => success'[g] = success[g] /\ errno'[g] = errno[g] /\ consumed'[g] = consumed[g]
        BY <1>2, <3>1, ReapFacts
      <3> QED BY <2>1, <3>2, FutureDistinct DEF FutureItems
    <2> QED BY <2>2, <2>3
  <1>3. CASE FallbackItem
    <2>1. batch' = batch /\ offset + 1 \in 1..ItemCount
      <3>1. offset \in Nat /\ offset < ItemCount
        BY <1>3, ItemFacts DEF TypeInv, TypeOK, WorkerType, FallbackItem
      <3> QED BY <1>3, <3>1, ItemFacts DEF TypeInv, FallbackItem
    <2>2. Item(offset + 1) \in Files
      BY <2>1, ItemFacts DEF TypeInv
    <2>3. CASE Settled(Item(offset + 1))
      BY <1>0, <1>3, <2>1, <2>3 DEF FallbackItem, items
    <2>4. CASE ~ Settled(Item(offset + 1))
      <3>1. FallbackSync(Item(offset + 1))
        BY <1>3, <2>4 DEF FallbackItem
      <3>2. \A g \in Files : g # Item(offset + 1) => success'[g] = success[g] /\ errno'[g] = errno[g] /\ consumed'[g] = consumed[g]
        BY <2>2, <3>1, FallbackFacts DEF TypeInv
      <3> QED BY <2>1, <3>2, FutureDistinct DEF FutureItems
    <2> QED BY <2>3, <2>4
  <1>4. CASE NextBatch
    <2>1. batch' = batch + 1 /\ batch \in Nat /\ UNCHANGED <<success, errno, consumed>>
      BY <1>4, BatchesAssumption DEF NextBatch, items, TypeInv, TypeOK, WorkerType, BatchNo
    <2>2. \A b \in BatchNo : b \in Nat /\ (b > batch' => b > batch)
      BY <2>1, BatchesAssumption DEF BatchNo
    <2> QED BY <2>1, <2>2 DEF FutureItems
  <1>5. CASE \E c \in Chains : KernelStep(c)
    BY <1>0, <1>5, KernelFacts
  <1>6. CASE \E f \in Files : Grow(f) \/ Shrink(f) \/ Vanish(f)
    BY <1>0, <1>6, FsFacts
  <1>7. CASE UNCHANGED vars
    BY <1>0, <1>7 DEF vars, worker, items
  <1> QED BY <1>1, <1>2, <1>3, <1>4, <1>5, <1>6, <1>7 DEF Next, Worker, Failure, LeaveStep, Finished

LEMMA FittingNext == ASSUME TypeInv, FittingHaveSlots, [Next]_vars PROVE FittingHaveSlots'
  <1>0. FittingHaveSlots /\ UNCHANGED <<pc, batch, offset, slotItem, submitted>> => FittingHaveSlots'
    BY DEF FittingHaveSlots, Looked, Item, ItemCount
  <1>1. CASE LeaveStep \/ FallbackItem \/ LastBatch
    BY <1>1, LeaveFacts DEF FallbackItem, LastBatch, FittingHaveSlots
  <1>2. CASE SkipItem
    <2>1. pc = "prepare" /\ offset \in Nat /\ offset' = offset + 1 /\ ~ Fits(Item(offset + 1))
          /\ UNCHANGED <<pc, batch, slotItem, submitted>>
      BY <1>2, ItemFacts DEF SkipItem, TypeInv, TypeOK, WorkerType
    <2> QED BY <2>1 DEF FittingHaveSlots, Looked, Item
  <1>3. CASE PrepareItem
    <2>1. /\ pc = "prepare" /\ offset \in Nat /\ offset' = offset + 1 /\ UNCHANGED <<pc, batch>>
          /\ submitted \in Nat /\ submitted' = submitted + 1
          /\ slotItem' = [slotItem EXCEPT ![submitted + 1] = Item(offset + 1)]
      BY <1>3, ItemFacts DEF PrepareItem, TypeInv, TypeOK, WorkerType
    <2>2. submitted + 1 \in Slots
      BY <1>3, <2>1, ItemFacts, BoundsAssumption DEF PrepareItem, TypeInv, TypeOK, WorkerType, SlotsAssigned, Slots
    <2>3. slotItem'[submitted + 1] = Item(offset + 1) /\ \A s \in 1..submitted : slotItem'[s] = slotItem[s]
      <3>1. \A s \in 1..submitted : s \in Slots /\ s # submitted + 1
        BY <2>1, UsedSlots
      <3> QED BY <2>1, <2>2, <3>1 DEF TypeInv, TypeOK, WorkerType
    <2>4. ASSUME NEW i \in 1..(offset + 1), Fits(Item(i)) PROVE \E s \in 1..(submitted + 1) : slotItem'[s] = Item(i)
      <3>1. CASE i = offset + 1
        BY <2>1, <2>3, <3>1
      <3>2. CASE i # offset + 1
        <4>1. i \in 1..offset
          BY <2>1, <3>2
        <4>2. \E s \in 1..submitted : slotItem[s] = Item(i)
          BY <2>1, <2>4, <4>1 DEF FittingHaveSlots, Looked
        <4> QED BY <2>1, <2>3, <4>2
      <3> QED BY <3>1, <3>2
    <2> QED BY <2>1, <2>4 DEF FittingHaveSlots, Looked, Item
  <1>4. CASE Submit
    <2>1. pc = "prepare" /\ pc' = "wait" /\ offset = ItemCount /\ UNCHANGED <<batch, offset, slotItem, submitted>>
      BY <1>4 DEF Submit
    <2> QED BY <2>1 DEF FittingHaveSlots, Looked, Item, ItemCount
  <1>5. CASE \E c \in Chains : Reap(c)
    BY <1>0, <1>5 DEF Reap
  <1>6. CASE NextBatch
    <2>1. pc' = "prepare" /\ offset' = 0
      BY <1>6 DEF NextBatch
    <2> QED BY <2>1 DEF FittingHaveSlots, Looked
  <1>7. CASE \E c \in Chains : KernelStep(c)
    BY <1>0, <1>7, KernelFacts
  <1>8. CASE \E f \in Files : Grow(f) \/ Shrink(f) \/ Vanish(f)
    BY <1>0, <1>8, FsFacts
  <1>9. CASE UNCHANGED vars
    BY <1>0, <1>9 DEF vars, worker
  <1> QED BY <1>1, <1>2, <1>3, <1>4, <1>5, <1>6, <1>7, <1>8, <1>9 DEF Next, Worker, Failure, LeaveStep, Finished

-----------------------------------------------------------------------------
(* CleanInv: what holds while the batch found the ring idle.                *)

(* No completion has been reaped before the submission. *)
LEMMA NoneReaped ==
    ASSUME TypeInv, \A s \in 1..submitted : chState[Mine(s)] = "queued"
    PROVE  /\ \A s \in 1..submitted : done[Mine(s)] = 0 /\ reaped[Mine(s)] = 0
           /\ ReapedSet = {}
  <1>1. \A s \in 1..submitted : done[Mine(s)] = 0 /\ reaped[Mine(s)] = 0
    <2> SUFFICES ASSUME NEW s \in 1..submitted PROVE done[Mine(s)] = 0 /\ reaped[Mine(s)] = 0
      OBVIOUS
    <2>1. Mine(s) \in Chains
      BY UsedSlots
    <2>2. done[Mine(s)] = 0 /\ reaped[Mine(s)] <= done[Mine(s)]
      BY <2>1 DEF TypeInv, ChainsInOrder
    <2>3. reaped[Mine(s)] \in 0..4
      BY <2>1 DEF TypeInv, TypeOK, KernelType
    <2> QED BY <2>2, <2>3
  <1>2. ASSUME NEW p \in ReapedSet PROVE FALSE
    <2>1. p[1] \in 1..submitted /\ p[2] \in 1..4 /\ p[2] <= reaped[Mine(p[1])]
      BY <1>2 DEF ReapedSet
    <2> QED BY <1>1, <2>1
  <1> QED BY <1>1, <1>2

LEMMA IntervalCard == ASSUME NEW n \in Nat PROVE IsFiniteSet(1..n) /\ Cardinality(1..n) = n
  BY FS_Interval

(* The set of completions is a subset of slots x requests; full, it holds   *)
(* four completions of every slot.                                          *)
LEMMA FullReapedSet ==
    ASSUME TypeInv, Cardinality(ReapedSet) = 4 * submitted
    PROVE  \A s \in 1..submitted : reaped[Mine(s)] = 4
  <1>1. submitted \in Nat
    BY DEF TypeInv, TypeOK, WorkerType
  <1>2. IsFiniteSet(1..submitted) /\ Cardinality(1..submitted) = submitted
    BY <1>1, IntervalCard
  <1>3. IsFiniteSet(1..4) /\ Cardinality(1..4) = 4
    BY IntervalCard, 4 \in Nat
  <1>4. /\ IsFiniteSet((1..submitted) \X (1..4))
        /\ Cardinality((1..submitted) \X (1..4)) = submitted * 4
    <2> DEFINE S == 1..submitted
               T == 1..4
    <2>1. IsFiniteSet(S) /\ IsFiniteSet(T) /\ Cardinality(S) = submitted /\ Cardinality(T) = 4
      BY <1>2, <1>3
    <2> HIDE DEF S, T
    <2>2. IsFiniteSet(S \X T) /\ Cardinality(S \X T) = Cardinality(S) * Cardinality(T)
      BY <2>1, FS_Product
    <2>3. IsFiniteSet(S \X T) /\ Cardinality(S \X T) = submitted * 4
      BY <2>1, <2>2
    <2> QED BY <2>3 DEF S, T
  <1>5. ReapedSet \subseteq (1..submitted) \X (1..4)
    BY DEF ReapedSet
  <1>6. submitted * 4 = 4 * submitted
    BY <1>1
  <1>7. ReapedSet = (1..submitted) \X (1..4)
    BY <1>4, <1>5, <1>6, FS_Subset
  <1> SUFFICES ASSUME NEW s \in 1..submitted PROVE reaped[Mine(s)] = 4
    OBVIOUS
  <1>8. <<s, 4>> \in (1..submitted) \X (1..4)
    OBVIOUS
  <1>9. 4 <= reaped[Mine(s)]
    BY <1>7, <1>8 DEF ReapedSet
  <1>10. reaped[Mine(s)] \in 0..4
    BY UsedSlots DEF TypeInv, TypeOK, KernelType
  <1> QED BY <1>9, <1>10

LEMMA CleanInit == Init => CleanInv
  <1> SUFFICES ASSUME Init PROVE CleanInv
    OBVIOUS
  <1>1. TypeInv
    BY TypeInit
  <1>2. submitted = 0 /\ \A s : s \notin 1..submitted
    BY DEF Init
  <1>3. ReapedSet = {}
    BY <1>1, <1>2, NoneReaped
  <1>4. Cardinality({}) = 0
    BY FS_EmptySet
  <1>5. ~ undefined /\ OthersQuiet
    BY DEF Init, OthersQuiet
  <1>6. \A s \in 1..submitted : KernelState(s) /\ WorkerState(s)
    BY <1>2
  <1>7. \A i \in 1..ItemCount : Item(i) \in Files
    BY <1>1, ItemFacts DEF TypeInv
  <1>8. Untouched
    BY <1>2, <1>7 DEF Init, Untouched
  <1>9. Counted
    BY <1>3, <1>4 DEF Init, Counted
  <1>10. ItemsState
    BY <1>7 DEF Init, ItemsState, ItemUndecided
  <1>11. Driven
    BY DEF Init, Driven
  <1> QED BY <1>5, <1>6, <1>8, <1>9, <1>10, <1>11 DEF CleanInv

LEMMA CleanSkip == ASSUME TypeInv, CleanInv, SkipItem PROVE CleanInv'
  <1>1. /\ pc = "prepare"
        /\ UNCHANGED <<pc, batch, slotItem, submitted, seen, bytesRead, driveOk, clean, undefined>>
        /\ UNCHANGED <<success, errno, consumed>>
        /\ UNCHANGED <<chState, chFile, done, reaped, res, fdTable, buffer>>
        /\ UNCHANGED <<exists, size, changes, touched>>
    BY DEF SkipItem, items, kernel, chains, fs
  <1>2. OthersQuiet' /\ Untouched' /\ Counted' /\ Driven'
    BY <1>1 DEF CleanInv, OthersQuiet, Untouched, Counted, Driven, ReapedSet, Mine, Item, ItemCount
  <1>3. \A s \in 1..submitted : KernelState(s)' /\ WorkerState(s)'
    BY <1>1 DEF CleanInv, KernelState, WorkerState, Mine
  <1>4. ItemsState'
    BY <1>1 DEF CleanInv, ItemsState, ItemUndecided, ExactPiece, Item, ItemCount
  <1> QED BY <1>1, <1>2, <1>3, <1>4 DEF CleanInv

LEMMA CleanPrepare == ASSUME TypeInv, CleanInv, PrepareItem PROVE CleanInv'
  <1>1. /\ pc = "prepare" /\ submitted' = submitted + 1
        /\ UNCHANGED <<pc, batch, seen, bytesRead, driveOk, clean, undefined>>
        /\ UNCHANGED <<success, errno, consumed>>
        /\ UNCHANGED <<done, reaped, res, fdTable, buffer>>
        /\ UNCHANGED <<exists, size, changes, touched>>
        /\ slotItem' = [slotItem EXCEPT ![submitted + 1] = Item(offset + 1)]
        /\ chState' = [chState EXCEPT ![<<batch, submitted + 1>>] = "queued"]
    BY DEF PrepareItem, items, fs
  <1>2. TypeInv'
    BY TypePrepare
  <1>3. submitted \in Nat /\ \A s \in 1..submitted' : s \in 1..submitted \/ s = submitted + 1
    BY <1>1 DEF TypeInv, TypeOK, WorkerType
  <1>4. \A s \in 1..submitted' : Mine(s)' = Mine(s) /\ Mine(s) \in Chains /\ s \in Slots
    BY <1>1, <1>2, BoundsAssumption DEF Mine, Chains, Slots, TypeInv, TypeOK, WorkerType
  <1>5. \A s \in 1..submitted' : chState'[Mine(s)] = "queued"
    <2> SUFFICES ASSUME NEW s \in 1..submitted' PROVE chState'[Mine(s)] = "queued"
      OBVIOUS
    <2>1. CASE s = submitted + 1
      BY <1>1, <1>4, <2>1 DEF Mine, TypeInv, TypeOK, KernelType
    <2>2. CASE s \in 1..submitted
      <3>1. chState[Mine(s)] = "queued"
        BY <1>1, <2>2 DEF CleanInv, Untouched
      <3> QED BY <1>1, <1>4, <3>1 DEF TypeInv, TypeOK, KernelType
    <2> QED BY <1>3, <2>1, <2>2
  <1>6. /\ \A s \in 1..submitted' : done[Mine(s)] = 0 /\ reaped[Mine(s)] = 0
        /\ ReapedSet' = {}
    <2>1. ASSUME NEW s \in 1..submitted' PROVE done[Mine(s)] = 0 /\ reaped[Mine(s)] = 0
      <3>1. done'[Mine(s)] = 0 /\ reaped'[Mine(s)] <= done'[Mine(s)]
        BY <1>2, <1>4, <1>5 DEF TypeInv, ChainsInOrder
      <3>2. reaped[Mine(s)] \in 0..4
        BY <1>4 DEF TypeInv, TypeOK, KernelType
      <3> QED BY <1>1, <3>1, <3>2
    <2>2. ASSUME NEW p \in ReapedSet' PROVE FALSE
      <3>1. p[1] \in 1..submitted' /\ p[2] \in 1..4 /\ p[2] <= reaped'[Mine(p[1])']
        BY <2>2 DEF ReapedSet
      <3> QED BY <1>1, <1>4, <2>1, <3>1
    <2> QED BY <2>1, <2>2
  <1>7. ReapedSet = {}
    BY <1>1, NoneReaped DEF CleanInv, Untouched
  <1>8. OthersQuiet'
    <2> SUFFICES ASSUME NEW d \in Chains, d[1] # batch
                 PROVE  chState'[d] = "none" \/ (chState'[d] = "flying" /\ reaped[d] = 4)
      BY <1>1 DEF OthersQuiet
    <2>1. d # <<batch, submitted + 1>>
      OBVIOUS
    <2>2. chState'[d] = chState[d]
      BY <1>1, <2>1 DEF TypeInv, TypeOK, KernelType
    <2> QED BY <2>2 DEF CleanInv, OthersQuiet
  <1>9. ASSUME NEW s \in 1..submitted' PROVE KernelState(s)' /\ WorkerState(s)'
    <2>1. done'[Mine(s)'] = 0 /\ reaped'[Mine(s)'] = 0 /\ bytesRead'[s] = 0
      BY <1>1, <1>4, <1>6 DEF CleanInv, Untouched
    <2>2. KernelState(s)'
      BY <2>1 DEF KernelState
    <2>3. ~ success'[slotItem'[s]]
      <3>1. \E i \in 1..ItemCount : slotItem'[s] = Item(i)
        <4>1. CASE s = submitted + 1
          <5>1. offset + 1 \in 1..ItemCount
            BY ItemFacts DEF PrepareItem, TypeInv, TypeOK, WorkerType
          <5>2. slotItem'[s] = Item(offset + 1)
            BY <1>1, <1>4, <4>1 DEF TypeInv, TypeOK, WorkerType
          <5> QED BY <5>1, <5>2
        <4>2. CASE s \in 1..submitted
          <5>1. s # submitted + 1
            BY <1>3, <4>2
          <5>2. slotItem'[s] = slotItem[s]
            BY <1>1, <1>4, <5>1 DEF TypeInv, TypeOK, WorkerType
          <5> QED BY <4>2, <5>2, UsedSlots, SlotFacts
        <4> QED BY <1>3, <4>1, <4>2
      <3> QED BY <1>1, <3>1 DEF CleanInv, Untouched
    <2> QED BY <1>1, <2>1, <2>2, <2>3 DEF WorkerState
  <1>10. Untouched' /\ Counted' /\ Driven'
    BY <1>1, <1>4, <1>5, <1>6, <1>7 DEF CleanInv, Untouched, Counted, Driven, Item, ItemCount
  <1>11. ItemsState'
    BY <1>1 DEF CleanInv, ItemsState, ItemUndecided, ExactPiece, Item, ItemCount
  <1> QED BY <1>1, <1>8, <1>9, <1>10, <1>11 DEF CleanInv

LEMMA CleanSubmit == ASSUME TypeInv, CleanInv, Submit PROVE CleanInv'
  <1>1. /\ pc = "prepare" /\ pc' = "wait"
        /\ UNCHANGED <<batch, offset, slotItem, submitted, seen, bytesRead, driveOk, clean, undefined>>
        /\ UNCHANGED <<success, errno, consumed>>
        /\ UNCHANGED <<chFile, done, reaped, res, fdTable, buffer>>
        /\ UNCHANGED <<exists, size, changes, touched>>
        /\ \A c \in Chains : chState'[c] = IF chState[c] = "queued" THEN "flying" ELSE chState[c]
    BY DEF Submit, items, fs
  <1>2. OthersQuiet'
    BY <1>1 DEF CleanInv, OthersQuiet
  <1>3. \A s \in 1..submitted : Mine(s) \in Chains /\ Mine(s)' = Mine(s) /\ chState'[Mine(s)] = "flying"
    BY <1>1, UsedSlots DEF CleanInv, Untouched, Mine
  <1>4. \A s \in 1..submitted : done[Mine(s)] = 0 /\ reaped[Mine(s)] = 0
    BY <1>1, NoneReaped DEF CleanInv, Untouched
  <1>5. ASSUME NEW s \in 1..submitted PROVE KernelState(s)' /\ WorkerState(s)'
    <2>1. done'[Mine(s)'] = 0 /\ reaped'[Mine(s)'] = 0 /\ bytesRead'[s] = bytesRead[s] /\ slotItem'[s] = slotItem[s]
      BY <1>1, <1>3, <1>4
    <2>2. KernelState(s)'
      BY <2>1 DEF KernelState
    <2>3. WorkerState(s)
      BY <1>5 DEF CleanInv
    <2>4. bytesRead[s] = 0 /\ ~ success[slotItem[s]]
      BY <1>1, <1>4, <2>3 DEF WorkerState
    <2>5. WorkerState(s)'
      BY <1>1, <2>1, <2>4 DEF WorkerState
    <2> QED BY <2>2, <2>5
  <1>6. ReapedSet' = ReapedSet
    BY <1>1 DEF ReapedSet, Mine
  <1>7. Untouched' /\ Counted' /\ Driven'
    BY <1>1, <1>3, <1>6 DEF CleanInv, Untouched, Counted, Driven
  <1>8. ItemsState'
    BY <1>1 DEF CleanInv, ItemsState, ItemUndecided, ExactPiece, Item, ItemCount
  <1> QED BY <1>1, <1>2, <1>5, <1>7, <1>8 DEF CleanInv

LEMMA CleanLeave == ASSUME TypeInv, FittingHaveSlots, CleanInv, LeaveStep PROVE CleanInv'
  <1>1. OthersQuiet' /\ Untouched' /\ Counted'
    BY LeaveFacts DEF CleanInv, OthersQuiet, Untouched, Counted
  <1>2. ASSUME NEW s \in 1..submitted PROVE KernelState(s)' /\ WorkerState(s)'
    <2>1. KernelState(s) /\ WorkerState(s)
      BY <1>2 DEF CleanInv
    <2> QED BY <2>1, LeaveFacts DEF KernelState, WorkerState, Mine
  <1>3. ItemsState'
    <2> SUFFICES ASSUME NEW i \in 1..ItemCount PROVE ItemUndecided(i)'
      BY LeaveFacts DEF ItemsState, ItemCount
    <2>1. ItemUndecided(i)
      BY LeaveFacts DEF CleanInv, ItemsState
    <2> QED BY <2>1, LeaveFacts DEF ItemUndecided, ExactPiece, Item
  <1>4. CASE driveOk' = FALSE
    BY <1>1, <1>2, <1>3, <1>4, LeaveFacts DEF CleanInv, Driven
  <1>5. CASE driveOk' = TRUE
    <2>1. /\ \A s \in 1..submitted : chState[Mine(s)] = "flying" /\ reaped[Mine(s)] = 4
          /\ \A i \in 1..ItemCount : Fits(Item(i)) => success[Item(i)] \/ errno[Item(i)] # NoError
      <3>1. CASE NothingToSubmit
        <4>1. pc = "prepare" /\ submitted = 0 /\ offset = ItemCount
          BY <3>1 DEF NothingToSubmit
        <4>2. \A s : s \notin 1..submitted
          BY <4>1
        <4>3. \A i \in 1..ItemCount : ~ Fits(Item(i))
          BY <4>1, <4>2 DEF FittingHaveSlots, Looked
        <4> QED BY <4>2, <4>3
      <3>2. CASE AllSeen
        <4>1. pc = "wait" /\ seen = 4 * submitted
          BY <3>2 DEF AllSeen, Expected
        <4>2. \A s \in 1..submitted : reaped[Mine(s)] = 4
          BY <4>1, FullReapedSet DEF CleanInv, Counted
        <4>3. \A s \in 1..submitted : chState[Mine(s)] = "flying"
          BY <4>1 DEF CleanInv, Counted
        <4>4. ASSUME NEW i \in 1..ItemCount, Fits(Item(i)) PROVE success[Item(i)] \/ errno[Item(i)] # NoError
          <5>1. PICK s \in 1..submitted : slotItem[s] = Item(i)
            BY <4>1, <4>4 DEF FittingHaveSlots, Looked
          <5>2. WorkerState(s) /\ reaped[Mine(s)] = 4
            BY <4>2, <5>1 DEF CleanInv
          <5> QED BY <4>1, <5>1, <5>2 DEF WorkerState
        <4> QED BY <4>2, <4>3, <4>4
      <3> QED BY <1>5, <3>1, <3>2 DEF LeaveStep, LeaveDrive, QueueFull, SubmitFails, WaitFails
    <2>2. Driven'
      BY <2>1, LeaveFacts DEF Driven, Mine, Item, ItemCount
    <2> QED BY <1>1, <1>2, <1>3, <2>2, LeaveFacts DEF CleanInv
  <1> QED BY <1>4, <1>5, LeaveFacts

LEMMA CleanNextBatch == ASSUME TypeInv, FutureItems, NextBatch, clean' PROVE CleanInv'
  <1>1. /\ pc' = "prepare" /\ batch' = batch + 1 /\ submitted' = 0 /\ seen' = 0
        /\ bytesRead' = [s \in Slots |-> 0] /\ driveOk' = FALSE /\ ~ undefined' /\ RingIdle
        /\ UNCHANGED <<success, errno, consumed, chState, reaped>>
    BY DEF NextBatch, items, kernel, chains
  <1>2. \A s : s \notin 1..submitted'
    BY <1>1
  <1>3. OthersQuiet'
    BY <1>1 DEF OthersQuiet, RingIdle
  <1>4. ReapedSet' = {} /\ Cardinality({}) = 0
    BY <1>2, FS_EmptySet DEF ReapedSet
  <1>5. \A i \in 1..ItemCount' : ~ success[Item(i)'] /\ consumed[Item(i)'] = <<>>
    <2>1. batch \in Nat /\ batch + 1 \in BatchNo /\ batch + 1 > batch
      BY BatchesAssumption DEF NextBatch, TypeInv, TypeOK, WorkerType, BatchNo
    <2> QED BY <1>1, <2>1 DEF FutureItems, Item, ItemCount
  <1>6. Untouched' /\ Counted' /\ Driven'
    BY <1>1, <1>2, <1>4, <1>5 DEF Untouched, Counted, Driven
  <1>7. ItemsState'
    BY <1>1, <1>5 DEF ItemsState, ItemUndecided
  <1> QED BY <1>1, <1>2, <1>3, <1>6, <1>7 DEF CleanInv

LEMMA CleanLastBatch == ASSUME TypeInv, CleanInv, LastBatch PROVE CleanInv'
  <1>1. /\ pc' = "finished" /\ pc = "fallback" /\ offset = ItemCount
        /\ UNCHANGED <<batch, offset, slotItem, submitted, seen, bytesRead, driveOk, clean, undefined>>
        /\ UNCHANGED <<success, errno, consumed>>
        /\ UNCHANGED <<chState, chFile, done, reaped, res, fdTable, buffer>>
        /\ UNCHANGED <<exists, size, changes, touched>>
    BY DEF LastBatch, items, kernel, chains, fs
  <1>2. OthersQuiet' /\ Untouched' /\ Counted' /\ Driven'
    BY <1>1 DEF CleanInv, OthersQuiet, Untouched, Counted, Driven, Mine, Item, ItemCount
  <1>3. ASSUME NEW s \in 1..submitted PROVE KernelState(s)' /\ WorkerState(s)'
    <2>1. KernelState(s) /\ WorkerState(s)
      BY <1>3 DEF CleanInv
    <2> QED BY <1>1, <2>1 DEF KernelState, WorkerState, Mine
  <1>4. ItemsState'
    <2> SUFFICES ASSUME NEW i \in 1..ItemCount PROVE ItemDecided(i)'
      BY <1>1 DEF ItemsState, ItemCount
    <2>1. ~ (i > offset)
      BY <1>1, ItemFacts DEF TypeInv
    <2>2. ItemDecided(i)
      BY <1>1, <2>1 DEF CleanInv, ItemsState
    <2> QED BY <1>1, <2>2 DEF ItemDecided, OwnBytesOnce, ExactPiece, Item
  <1> QED BY <1>1, <1>2, <1>3, <1>4 DEF CleanInv

LEMMA CleanFs == ASSUME TypeInv, CleanInv, NEW f \in Files, Grow(f) \/ Shrink(f) \/ Vanish(f) PROVE CleanInv'
  <1>1. /\ UNCHANGED <<pc, batch, offset, slotItem, submitted, seen, bytesRead, driveOk, clean, undefined>>
        /\ UNCHANGED <<success, errno, consumed>>
        /\ UNCHANGED <<chState, chFile, done, reaped, res, fdTable, buffer>>
        /\ \A g \in Files : "shrink" \notin FsOps => size'[g] >= size[g]
    BY FsFacts
  <1>2. OthersQuiet' /\ Untouched' /\ Counted' /\ Driven'
    BY <1>1 DEF CleanInv, OthersQuiet, Untouched, Counted, Driven, ReapedSet, Mine, Item, ItemCount
  <1>3. ASSUME NEW s \in 1..submitted PROVE KernelState(s)' /\ WorkerState(s)'
    <2>1. KernelState(s) /\ WorkerState(s)
      BY <1>3 DEF CleanInv
    <2>2. slotItem[s] \in Files /\ size[slotItem[s]] \in Nat /\ size'[slotItem[s]] \in Nat /\ StatSize[slotItem[s]] \in Nat
      BY UsedSlots, FsFacts, StatSizeAssumption DEF TypeInv, TypeOK, FsType
    <2>3. "shrink" \notin FsOps /\ size[slotItem[s]] > StatSize[slotItem[s]] => size'[slotItem[s]] > StatSize[slotItem[s]]
      BY <1>1, <2>2
    <2> QED BY <1>1, <2>1, <2>3 DEF KernelState, WorkerState, Mine
  <1>4. ItemsState'
    BY <1>1 DEF CleanInv, ItemsState, ItemUndecided, ItemDecided, OwnBytesOnce, ExactPiece, Item, ItemCount
  <1> QED BY <1>1, <1>2, <1>3, <1>4 DEF CleanInv

LEMMA CleanStutter == ASSUME CleanInv, UNCHANGED vars PROVE CleanInv'
  <1>1. /\ UNCHANGED <<pc, batch, offset, slotItem, submitted, seen, bytesRead, driveOk, clean, undefined>>
        /\ UNCHANGED <<success, errno, consumed>>
        /\ UNCHANGED <<chState, chFile, done, reaped, res, fdTable, buffer>>
        /\ UNCHANGED <<exists, size, changes, touched>>
    BY DEF vars, worker, items, kernel, chains, fs
  <1>2. OthersQuiet' /\ Untouched' /\ Counted' /\ Driven'
    BY <1>1 DEF CleanInv, OthersQuiet, Untouched, Counted, Driven, ReapedSet, Mine, Item, ItemCount
  <1>3. \A s \in 1..submitted : KernelState(s)' /\ WorkerState(s)'
    BY <1>1 DEF CleanInv, KernelState, WorkerState, Mine
  <1>4. ItemsState'
    BY <1>1 DEF CleanInv, ItemsState, ItemUndecided, ItemDecided, OwnBytesOnce, ExactPiece, Item, ItemCount
  <1> QED BY <1>1, <1>2, <1>3, <1>4 DEF CleanInv

(* Feeding an item for the first time. *)
LEMMA AppendFirst == ASSUME NEW x PROVE Append(<<>>, x) = <<x>>
  OBVIOUS

(* An item accepted through the ring was fed its own bytes, once. *)
LEMMA ExactIsOwn == ASSUME NEW f, ExactPiece(f) PROVE OwnBytesOnce(f) /\ ExactSize(f)
  <1>1. consumed[f] = <<Piece(f, StatSize[f], consumed[f][1].whole)>>
    BY DEF ExactPiece
  <1> DEFINE p == Piece(f, StatSize[f], consumed[f][1].whole)
  <1>2. p.file = f /\ p.len = StatSize[f]
    BY DEF Piece
  <1> HIDE DEF p
  <1>3. consumed[f] = <<p>>
    BY <1>1 DEF p
  <1> QED BY <1>2, <1>3 DEF OwnBytesOnce, ExactSize

LEMMA CleanFallback == ASSUME TypeInv, CleanInv, FallbackItem PROVE CleanInv'
  <1>1. /\ UNCHANGED <<pc, batch, slotItem, submitted, seen, bytesRead, driveOk, clean, undefined>>
        /\ UNCHANGED <<chState, chFile, done, reaped, res, fdTable, buffer>>
        /\ UNCHANGED <<exists, size, changes, touched>>
        /\ offset' = offset + 1 /\ offset < ItemCount /\ pc = "fallback"
    BY DEF FallbackItem, kernel, chains, fs
  <1>k. PICK k : k = offset + 1
    OBVIOUS
  <1>f. PICK f : f = Item(k)
    OBVIOUS
  <1>2. offset \in Nat /\ k \in 1..ItemCount /\ f \in Files
    <2>1. offset \in Nat
      BY ItemFacts DEF TypeInv, TypeOK, WorkerType
    <2>2. k \in 1..ItemCount
      BY <1>1, <1>k, <2>1, ItemFacts DEF TypeInv
    <2> QED BY <1>f, <2>1, <2>2, ItemFacts DEF TypeInv
  <1>3. \A i \in 1..ItemCount : Item(i) \in Files /\ (i # k => Item(i) # f)
    BY <1>2, <1>f, ItemFacts DEF TypeInv
  <1>4. \A g \in Files : g # f => success'[g] = success[g] /\ errno'[g] = errno[g] /\ consumed'[g] = consumed[g]
    <2>1. CASE Settled(f)
      BY <1>k, <1>f, <2>1 DEF FallbackItem, items
    <2>2. CASE ~ Settled(f)
      BY <1>2, <1>k, <1>f, <2>2, FallbackFacts DEF FallbackItem, TypeInv
    <2> QED BY <2>1, <2>2
  <1>5. ItemUndecided(k)
    BY <1>1, <1>2, <1>k DEF CleanInv, ItemsState
  <1>6. OthersQuiet' /\ Untouched' /\ Counted'
    BY <1>1 DEF CleanInv, OthersQuiet, Untouched, Counted
  <1>7. ASSUME NEW s \in 1..submitted PROVE KernelState(s)' /\ WorkerState(s)'
    <2>1. KernelState(s) /\ WorkerState(s)
      BY <1>7 DEF CleanInv
    <2> QED BY <1>1, <2>1 DEF KernelState, WorkerState, Mine
  <1>8. driveOk /\ Fits(f) => Settled(f)
    <2> SUFFICES ASSUME driveOk, Fits(f) PROVE Settled(f)
      OBVIOUS
    <2>1. success[f] \/ errno[f] # NoError
      BY <1>1, <1>2, <1>f DEF CleanInv, Driven
    <2> QED BY <2>1 DEF Settled
  <1>9. ItemDecided(k)'
    <2>0. Item(k)' = f
      BY <1>1, <1>f DEF Item
    <2>1. CASE Settled(f)
      <3>1. UNCHANGED <<success, errno, consumed>>
        BY <1>k, <1>f, <2>1 DEF FallbackItem, items
      <3>2. success[f] => ExactPiece(f) /\ OwnBytesOnce(f)
        BY <1>5, <1>f, ExactIsOwn DEF ItemUndecided
      <3>3. success[f] => ExactPiece(f)' /\ OwnBytesOnce(f)'
        BY <3>1, <3>2 DEF ExactPiece, OwnBytesOnce
      <3> QED BY <1>1, <2>0, <3>1, <3>3 DEF ItemDecided, ExactPiece, OwnBytesOnce
    <2>2. CASE ~ Settled(f)
      <3>1. FallbackSync(f) /\ ~ (driveOk /\ Fits(f))
        BY <1>8, <1>k, <1>f, <2>2 DEF FallbackItem
      <3>2. ~ success[f] /\ consumed[f] = <<>>
        BY <1>5, <1>f, <2>2 DEF Settled, ItemUndecided
      <3>3. CASE ~ success'[f]
        BY <2>0, <3>3 DEF ItemDecided
      <3>4. CASE success'[f]
        <4>1. consumed' = [consumed EXCEPT ![f] = Append(@, Piece(f, size[f], TRUE))]
          BY <1>2, <3>1, <3>4 DEF FallbackSync, Reject, TypeInv, TypeOK, ItemsType
        <4>2. consumed'[f] = Append(<<>>, Piece(f, size[f], TRUE))
          BY <1>2, <3>2, <4>1 DEF TypeInv, TypeOK, ItemsType
        <4>3. PICK p : p = Piece(f, size[f], TRUE)
          OBVIOUS
        <4>4. p.file = f /\ consumed'[f] = <<p>>
          BY <4>2, <4>3, AppendFirst DEF Piece
        <4>5. Len(consumed'[f]) = 1 /\ consumed'[f][1].file = f
          BY <4>4
        <4> QED BY <1>1, <2>0, <3>1, <4>5 DEF ItemDecided, OwnBytesOnce
      <3> QED BY <3>3, <3>4
    <2> QED BY <2>1, <2>2
  <1>10. ItemsState'
    <2> SUFFICES ASSUME NEW i \in 1..ItemCount
                 PROVE  IF i > offset' THEN ItemUndecided(i)' ELSE ItemDecided(i)'
      BY <1>1 DEF ItemsState, ItemCount
    <2>1. CASE i = k
      BY <1>1, <1>2, <1>k, <1>9, <2>1
    <2>2. CASE i # k
      <3>1. /\ Item(i)' = Item(i)
            /\ success'[Item(i)] = success[Item(i)] /\ consumed'[Item(i)] = consumed[Item(i)]
        BY <1>1, <1>3, <1>4, <2>2 DEF Item
      <3>2. (i > offset') = (i > offset)
        BY <1>1, <1>2, <1>k, <2>2, ItemFacts DEF TypeInv
      <3>3. IF i > offset THEN ItemUndecided(i) ELSE ItemDecided(i)
        BY <1>1 DEF CleanInv, ItemsState
      <3>4. CASE i > offset
        BY <3>1, <3>2, <3>3, <3>4 DEF ItemUndecided, ExactPiece
      <3>5. CASE ~ (i > offset)
        BY <1>1, <3>1, <3>2, <3>3, <3>5 DEF ItemDecided, OwnBytesOnce, ExactPiece
      <3> QED BY <3>4, <3>5
    <2> QED BY <2>1, <2>2
  <1>11. Driven'
    <2> SUFFICES ASSUME driveOk
                 PROVE  /\ \A s \in 1..submitted : chState[Mine(s)] = "flying" /\ reaped[Mine(s)] = 4
                        /\ \A i \in 1..ItemCount : Fits(Item(i)) => success'[Item(i)] \/ errno'[Item(i)] # NoError
      BY <1>1 DEF Driven, Mine, Item, ItemCount
    <2>1. /\ \A s \in 1..submitted : chState[Mine(s)] = "flying" /\ reaped[Mine(s)] = 4
          /\ \A i \in 1..ItemCount : Fits(Item(i)) => success[Item(i)] \/ errno[Item(i)] # NoError
      BY <1>1 DEF CleanInv, Driven
    <2>2. ASSUME NEW i \in 1..ItemCount, Fits(Item(i)) PROVE success'[Item(i)] \/ errno'[Item(i)] # NoError
      <3>1. CASE i = k
        <4>1. Settled(f)
          BY <1>8, <1>f, <2>2, <3>1
        <4>2. UNCHANGED <<success, errno>>
          BY <1>k, <1>f, <4>1 DEF FallbackItem, items
        <4> QED BY <2>1, <2>2, <4>2
      <3>2. CASE i # k
        BY <1>3, <1>4, <2>1, <2>2, <3>2
      <3> QED BY <3>1, <3>2
    <2> QED BY <2>1, <2>2
  <1> QED BY <1>1, <1>6, <1>7, <1>10, <1>11 DEF CleanInv

(* On a ring that was idle, only chains of the current batch fly, each for  *)
(* the item of its slot.                                                    *)
LEMMA OwnChain ==
    ASSUME TypeInv, CleanInv, NEW c \in Chains, chState[c] = "flying", reaped[c] # 4
    PROVE  /\ c[2] \in 1..submitted /\ c[2] \in Slots /\ c = Mine(c[2])
           /\ slotItem[c[2]] \in Files /\ slotItem[c[2]] # NoFile /\ chFile[c] = slotItem[c[2]]
           /\ StatSize[slotItem[c[2]]] \in Nat /\ StatSize[slotItem[c[2]]] > 0
  <1>1. c[1] = batch
    BY DEF CleanInv, OthersQuiet
  <1>2. c[2] \in Slots /\ c = <<batch, c[2]>> /\ c[2] \in Nat /\ c[2] >= 1
    BY <1>1, BoundsAssumption DEF Chains, Slots
  <1>3. submitted \in Nat /\ ~ (c[2] > submitted)
    BY <1>1 DEF TypeInv, ChainsInOrder, TypeOK, WorkerType
  <1>4. c[2] \in 1..submitted
    BY <1>2, <1>3
  <1> QED BY <1>2, <1>4, UsedSlots, SlotFacts DEF Mine

(* One kernel step keeps what is known of the slot it works on. *)
LEMMA KernelStateStep ==
    ASSUME TypeInv, CleanInv, NEW c \in Chains, KernelStep(c),
           NEW s \in 1..submitted, c = Mine(s), s = c[2]
    PROVE  KernelState(s)'
  <1>0. s \in Slots /\ chState[c] = "flying" /\ reaped[c] # 4
    <2>1. chState[c] = "flying" /\ done[c] \in 0..3
      BY KernelFacts
    <2>2. reaped[c] \in 0..4 /\ reaped[c] <= done[c]
      BY DEF TypeInv, TypeOK, KernelType, ChainsInOrder
    <2> QED BY <2>1, <2>2, UsedSlots
  <1>f. PICK f : f = slotItem[s] /\ f = chFile[c] /\ f \in Files /\ f # NoFile /\ StatSize[f] \in Nat /\ size[f] \in Nat
    BY <1>0, OwnChain DEF TypeInv, TypeOK, FsType
  <1>1. /\ Mine(s)' = c /\ slotItem'[s] = f /\ size' = size
        /\ done'[c] = done[c] + 1 /\ done[c] \in 0..3
        /\ \A op \in 1..4 : op # done[c] + 1 => res'[c][op] = res[c][op]
    BY <1>f, KernelFacts DEF Mine
  <1>2. /\ done[c] \in {1, 2, 3} /\ res[c][OPENAT] >= 0 => fdTable[s] = f
        /\ done[c] >= 2 /\ res[c][READ] = StatSize[f] =>
              res[c][OPENAT] >= 0 /\ buffer[s].file = f /\ buffer[s].len = StatSize[f]
        /\ done[c] = 2 /\ res[c][READ] = StatSize[f] /\ "shrink" \notin FsOps /\ ~ buffer[s].whole => size[f] > StatSize[f]
        /\ done[c] >= 3 /\ res[c][PROBE] = 0 =>
              res[c][READ] = StatSize[f] /\ ("shrink" \notin FsOps => buffer[s].whole)
    BY <1>f DEF CleanInv, KernelState
  <1>3. ASSUME NEW v \in Int, Complete(c, v) PROVE res'[c][done[c] + 1] = v
    <2>1. res' = [res EXCEPT ![c] = [res[c] EXCEPT ![done[c] + 1] = v]]
      BY <1>3 DEF Complete
    <2>2. res \in [Chains -> [1..4 -> Int]] /\ done[c] + 1 \in 1..4
      BY <1>1 DEF TypeInv, TypeOK, KernelType
    <2>3. res'[c] = [res[c] EXCEPT ![done[c] + 1] = v] /\ res[c] \in [1..4 -> Int]
      BY <2>1, <2>2
    <2> QED BY <2>2, <2>3
  <1>4. /\ done'[c] \in {1, 2, 3} /\ res'[c][OPENAT] >= 0 => fdTable'[s] = f
        /\ done'[c] >= 2 /\ res'[c][READ] = StatSize[f] =>
              res'[c][OPENAT] >= 0 /\ buffer'[s].file = f /\ buffer'[s].len = StatSize[f]
        /\ done'[c] = 2 /\ res'[c][READ] = StatSize[f] /\ "shrink" \notin FsOps /\ ~ buffer'[s].whole => size[f] > StatSize[f]
        /\ done'[c] >= 3 /\ res'[c][PROBE] = 0 =>
              res'[c][READ] = StatSize[f] /\ ("shrink" \notin FsOps => buffer'[s].whole)
    <2>1. CASE done[c] = 0
      <3>1. KernelOpen(c)
        BY <2>1 DEF KernelStep, Broken, OPENAT, READ, PROBE, CLOSE
      <3>2. CASE Complete(c, 0) /\ fdTable' = [fdTable EXCEPT ![c[2]] = chFile[c]]
        <4>1. fdTable'[s] = f
          BY <1>0, <1>f, <3>2 DEF TypeInv, TypeOK, KernelType
        <4> QED BY <1>1, <2>1, <4>1
      <3>3. CASE Complete(c, -ENOENT)
        <4>1. res'[c][1] = -ENOENT
          BY <1>3, <2>1, <3>3 DEF ENOENT
        <4> QED BY <1>1, <2>1, <4>1 DEF ENOENT, OPENAT
      <3> QED BY <3>1, <3>2, <3>3 DEF KernelOpen
    <2>2. CASE done[c] = 1
      <3>0. res'[c][OPENAT] = res[c][OPENAT] /\ done'[c] = 2
        BY <1>1, <2>2 DEF OPENAT
      <3>1. CASE Broken(c, READ) /\ Complete(c, -ECANCELED)
        <4>1. res[c][OPENAT] < 0 /\ res'[c][READ] = -ECANCELED
          BY <1>3, <2>2, <3>1 DEF Broken, READ, PROBE, CLOSE, ECANCELED
        <4>2. res[c][OPENAT] \in Int
          BY DEF TypeInv, TypeOK, KernelType, OPENAT
        <4> QED BY <1>1, <1>f, <3>0, <4>1, <4>2 DEF ECANCELED
      <3>2. CASE ~ Broken(c, READ) /\ KernelRead(c)
        <4>1. res[c][OPENAT] >= 0 /\ fdTable[s] = f /\ fdTable' = fdTable
          <5>1. ~ (res[c][OPENAT] < 0) /\ res[c][OPENAT] \in Int
            BY <3>2 DEF Broken, TypeInv, TypeOK, KernelType, OPENAT, READ
          <5>2. res[c][OPENAT] >= 0
            BY <5>1
          <5> QED BY <1>2, <2>2, <3>2, <5>2 DEF KernelRead
        <4>2. PICK n : n = Smaller(StatSize[f], size[f]) /\ n \in Nat
          BY <1>f DEF Smaller
        <4>3. CASE Complete(c, n) /\ buffer' = [buffer EXCEPT ![c[2]] = Piece(f, n, n = size[f])]
          <5>1. res'[c][READ] = n
            BY <1>3, <2>2, <4>2, <4>3 DEF READ
          <5>2. buffer'[s] = Piece(f, n, n = size[f])
            BY <1>0, <4>3 DEF TypeInv, TypeOK, KernelType
          <5>w. PICK w : w = (n = size[f])
            OBVIOUS
          <5>5. buffer'[s] = Piece(f, n, w)
            BY <5>2, <5>w
          <5>6. buffer'[s].file = f /\ buffer'[s].len = n /\ buffer'[s].whole = w
            BY <5>5 DEF Piece
          <5>7. n = size[f] => w
            BY <5>w
          <5>3. buffer'[s].file = f /\ buffer'[s].len = n /\ (~ buffer'[s].whole => n # size[f])
            BY <5>6, <5>7
          <5>4. n = StatSize[f] /\ n # size[f] => size[f] > StatSize[f]
            BY <1>f, <4>2 DEF Smaller
          <5> QED BY <1>1, <3>0, <4>1, <5>1, <5>3, <5>4
        <4>4. CASE Complete(c, -EIO) \/ Complete(c, -EBADF)
          <5>1. res'[c][READ] \in {-EIO, -EBADF}
            BY <1>3, <2>2, <4>4 DEF READ, EIO, EBADF
          <5>2. res'[c][READ] # StatSize[f]
            BY <1>f, <5>1 DEF EIO, EBADF
          <5> QED BY <3>0, <4>1, <5>2
        <4> QED BY <1>f, <3>2, <4>1, <4>2, <4>3, <4>4 DEF KernelRead
      <3> QED BY <2>2, <3>1, <3>2 DEF KernelStep, OPENAT, READ, PROBE, CLOSE
    <2>3. CASE done[c] = 2
      <3>0. res'[c][OPENAT] = res[c][OPENAT] /\ res'[c][READ] = res[c][READ] /\ done'[c] = 3
        BY <1>1, <2>3 DEF OPENAT, READ
      <3>1. CASE Broken(c, PROBE) /\ Complete(c, -ECANCELED) /\ UNCHANGED <<fdTable, buffer>>
        <4>1. res[c][READ] # StatSize[f] /\ res'[c][PROBE] = -ECANCELED
          BY <1>3, <1>f, <2>3, <3>1 DEF Broken, READ, PROBE, CLOSE, ECANCELED
        <4> QED BY <1>2, <2>3, <3>0, <3>1, <4>1 DEF ECANCELED
      <3>2. CASE ~ Broken(c, PROBE) /\ KernelProbe(c)
        <4>1. res[c][READ] = StatSize[f] /\ UNCHANGED <<fdTable, buffer>>
          BY <1>f, <3>2 DEF Broken, KernelProbe, PROBE
        <4>2. fdTable[s] = f
          BY <1>2, <2>3, <4>1
        <4>3. res'[c][PROBE] = 0 => ~ (size[f] > StatSize[f])
          <5>1. CASE Complete(c, IF size[f] > StatSize[f] THEN 1 ELSE 0)
            BY <1>3, <2>3, <5>1 DEF PROBE
          <5>2. CASE Complete(c, -EIO) \/ Complete(c, -EBADF)
            BY <1>3, <2>3, <5>2 DEF PROBE, EIO, EBADF
          <5> QED BY <1>f, <3>2, <4>2, <5>1, <5>2 DEF KernelProbe
        <4> QED BY <1>2, <2>3, <3>0, <4>1, <4>2, <4>3
      <3> QED BY <2>3, <3>1, <3>2 DEF KernelStep, OPENAT, READ, PROBE, CLOSE
    <2>4. CASE done[c] = 3
      <3>1. /\ res'[c][OPENAT] = res[c][OPENAT] /\ res'[c][READ] = res[c][READ] /\ res'[c][PROBE] = res[c][PROBE]
            /\ done'[c] = 4
        BY <1>1, <2>4 DEF OPENAT, READ, PROBE
      <3>2. UNCHANGED buffer
        BY <2>4 DEF KernelStep, KernelClose, OPENAT, READ, PROBE, CLOSE
      <3> QED BY <1>2, <2>4, <3>1, <3>2
    <2> QED BY <1>1, <2>1, <2>2, <2>3, <2>4
  <1> QED BY <1>1, <1>4 DEF KernelState

LEMMA CleanKernel == ASSUME TypeInv, CleanInv, NEW c \in Chains, KernelStep(c) PROVE CleanInv'
  <1>1. /\ UNCHANGED <<pc, batch, offset, slotItem, submitted, seen, bytesRead, driveOk, clean, undefined>>
        /\ UNCHANGED <<success, errno, consumed>>
        /\ UNCHANGED <<chState, chFile, reaped>>
        /\ UNCHANGED <<exists, size, changes, touched>>
    BY KernelFacts
  <1>2. chState[c] = "flying" /\ reaped[c] # 4
    <2>1. chState[c] = "flying" /\ done[c] \in 0..3
      BY KernelFacts
    <2>2. reaped[c] \in 0..4 /\ reaped[c] <= done[c]
      BY DEF TypeInv, TypeOK, KernelType, ChainsInOrder
    <2> QED BY <2>1, <2>2
  <1>3. c[2] \in 1..submitted /\ c[2] \in Slots /\ c = Mine(c[2])
    BY <1>2, OwnChain
  <1>4. OthersQuiet' /\ Untouched' /\ Counted' /\ Driven'
    BY <1>1 DEF CleanInv, OthersQuiet, Untouched, Counted, Driven, ReapedSet, Mine, Item, ItemCount
  <1>5. ASSUME NEW s \in 1..submitted PROVE KernelState(s)'
    <2>1. CASE s = c[2]
      BY <1>3, <2>1, KernelStateStep
    <2>2. CASE s # c[2]
      <3>1. Mine(s) # c /\ Mine(s) \in Chains /\ s \in Slots
        BY <1>3, <2>2, UsedSlots DEF Mine
      <3>2. /\ done'[Mine(s)] = done[Mine(s)] /\ res'[Mine(s)] = res[Mine(s)]
            /\ fdTable'[s] = fdTable[s] /\ buffer'[s] = buffer[s]
        BY <2>2, <3>1, KernelFacts
      <3>3. KernelState(s)
        BY <1>5 DEF CleanInv
      <3>4. Mine(s)' = Mine(s)
        BY <1>1 DEF Mine
      <3> QED BY <1>1, <3>2, <3>3, <3>4 DEF KernelState
    <2> QED BY <2>1, <2>2
  <1>6. ASSUME NEW s \in 1..submitted PROVE WorkerState(s)'
    <2>1. WorkerState(s) /\ Mine(s)' = Mine(s) /\ Mine(s) \in Chains
      BY <1>1, <1>6, UsedSlots DEF CleanInv, Mine
    <2>2. reaped[Mine(s)] >= 2 => res'[Mine(s)][READ] = res[Mine(s)][READ]
      <3> SUFFICES ASSUME reaped[Mine(s)] >= 2 PROVE res'[Mine(s)][READ] = res[Mine(s)][READ]
        OBVIOUS
      <3>1. CASE Mine(s) = c
        <4>1. reaped[c] \in 0..4 /\ reaped[c] <= done[c] /\ done[c] \in 0..4
          BY DEF TypeInv, TypeOK, KernelType, ChainsInOrder
        <4>2. READ \in 1..4 /\ READ # done[c] + 1
          BY <3>1, <4>1 DEF READ
        <4> QED BY <3>1, <4>2, KernelFacts
      <3>2. CASE Mine(s) # c
        BY <2>1, <3>2, KernelFacts
      <3> QED BY <3>1, <3>2
    <2> QED BY <1>1, <2>1, <2>2 DEF WorkerState
  <1>7. ItemsState'
    BY <1>1 DEF CleanInv, ItemsState, ItemUndecided, ItemDecided, OwnBytesOnce, ExactPiece, Item, ItemCount
  <1> QED BY <1>1, <1>4, <1>5, <1>6, <1>7 DEF CleanInv

(* What handling one completion does to the item and the slot it belongs    *)
(* to, given what is known of them.                                         *)
LEMMA WorkerStateStep ==
    ASSUME TypeInv, CleanInv, NEW s \in 1..submitted, Reap(Mine(s)), pc = "wait"
    PROVE  /\ WorkerState(s)'
           /\ IF success'[slotItem[s]] THEN ExactPiece(slotItem[s])' ELSE consumed'[slotItem[s]] = <<>>
  <1>c. PICK c : c = Mine(s)
    OBVIOUS
  <1>f. PICK f : f = slotItem[s] /\ f \in Files /\ f # NoFile /\ StatSize[f] \in Nat /\ StatSize[f] > 0
    BY UsedSlots, SlotFacts
  <1>0. s \in Slots /\ c \in Chains /\ c[2] = s /\ Mine(s)' = c
    BY <1>c, UsedSlots DEF Mine, Reap
  <1>op. PICK op : op = reaped[c] + 1
    OBVIOUS
  <1>r. PICK r : r = res[c][op]
    OBVIOUS
  <1>1. /\ op \in 1..4 /\ op <= done[c] /\ done[c] \in 0..4 /\ reaped[c] \in 0..4 /\ r \in Int
        /\ reaped'[c] = op
    <2>1. /\ reaped[c] + 1 \in 1..4 /\ reaped[c] + 1 <= done[c] /\ res[c][reaped[c] + 1] \in Int
      BY <1>0, <1>c, ReapFacts
    <2>2. done[c] \in 0..4 /\ reaped[c] \in 0..4
      BY <1>0 DEF TypeInv, TypeOK, KernelType
    <2>3. reaped'[c] = reaped[c] + 1
      BY <1>0, <1>c DEF Reap, TypeInv, TypeOK, KernelType
    <2> QED BY <1>op, <1>r, <2>1, <2>2, <2>3
  <1>2. HandleCqe(f, s, op, r) /\ UNCHANGED <<pc, slotItem, submitted, batch, res, buffer>>
    BY <1>c, <1>f, <1>0, <1>op, <1>r DEF Reap
  <1>3. /\ bytesRead[s] # 0 => reaped[c] >= 2 /\ bytesRead[s] = StatSize[f] /\ res[c][READ] = StatSize[f]
        /\ reaped[c] < 3 => ~ success[f]
        /\ reaped[c] >= 3 => success[f] \/ errno[f] # NoError
    BY <1>c, <1>f DEF CleanInv, WorkerState
  <1>4. IF success[f] THEN ExactPiece(f) ELSE consumed[f] = <<>>
    <2>1. PICK i \in 1..ItemCount : f = Item(i)
      BY <1>0, <1>f, SlotFacts
    <2>2. ItemUndecided(i)
      BY <2>1 DEF CleanInv, ItemsState
    <2> QED BY <2>1, <2>2 DEF ItemUndecided
  <1>5. bytesRead \in [Slots -> Nat] /\ bytesRead[s] \in Nat /\ ItemsType
    BY <1>0 DEF TypeInv, TypeOK, WorkerType
  <1> SUFFICES /\ bytesRead'[s] # 0 => op >= 2 /\ bytesRead'[s] = StatSize[f] /\ res[c][READ] = StatSize[f]
               /\ op < 3 => ~ success'[f]
               /\ op >= 3 => success'[f] \/ errno'[f] # NoError
               /\ IF success'[f] THEN ExactPiece(f)' ELSE consumed'[f] = <<>>
    BY <1>0, <1>1, <1>2, <1>f DEF WorkerState
  <1>6. CASE op = OPENAT
    <2>1. HandleOpen(f, s, r)
      BY <1>2, <1>6 DEF HandleCqe, OPENAT, READ, PROBE, CLOSE
    <2>2. bytesRead' = bytesRead /\ bytesRead[s] = 0 /\ consumed' = consumed
      BY <1>1, <1>3, <1>6, <1>op, <2>1 DEF HandleOpen, OPENAT
    <2>3. ~ success[f] /\ ~ success'[f]
      <3>1. ~ success[f]
        BY <1>1, <1>3, <1>6, <1>op DEF OPENAT
      <3> QED BY <1>5, <1>f, <2>1, <3>1 DEF HandleOpen, Reject, ItemsType
    <2> QED BY <1>4, <1>6, <2>2, <2>3 DEF OPENAT
  <1>7. CASE op = READ
    <2>1. HandleRead(f, s, r)
      BY <1>2, <1>7 DEF HandleCqe, OPENAT, READ, PROBE, CLOSE
    <2>2. ~ success[f] /\ bytesRead[s] = 0
      BY <1>1, <1>3, <1>7, <1>op DEF READ
    <2>3. ~ success'[f] /\ consumed' = consumed
      BY <1>5, <1>f, <2>1, <2>2 DEF HandleRead, Reject, ItemsType
    <2>4. bytesRead'[s] # 0 => bytesRead'[s] = StatSize[f] /\ res[c][READ] = StatSize[f]
      BY <1>0, <1>5, <1>7, <1>r, <2>1, <2>2 DEF HandleRead
    <2> QED BY <1>4, <1>7, <2>2, <2>3, <2>4 DEF READ
  <1>8. CASE op = PROBE
    <2>1. HandleProbe(f, s, r)
      BY <1>2, <1>8 DEF HandleCqe, OPENAT, READ, PROBE, CLOSE
    <2>2. ~ success[f] /\ consumed[f] = <<>> /\ bytesRead' = bytesRead
      <3>1. ~ success[f]
        BY <1>1, <1>3, <1>8, <1>op DEF PROBE
      <3> QED BY <1>4, <2>1, <3>1 DEF HandleProbe
    <2>3. CASE errno[f] # NoError /\ UNCHANGED items
      BY <1>3, <1>8, <2>2, <2>3 DEF items, PROBE
    <2>4. CASE \E e \in Nat : e # NoError /\ Reject(f, e) /\ UNCHANGED consumed
      <3>1. ~ success'[f] /\ errno'[f] # NoError /\ consumed'[f] = <<>>
        BY <1>5, <1>f, <2>2, <2>4 DEF Reject, ItemsType
      <3> QED BY <1>3, <1>8, <2>2, <3>1 DEF PROBE
    <2>5. CASE r = 0 /\ bytesRead[s] > 0
               /\ consumed' = [consumed EXCEPT ![f] = Append(@, Piece(buffer[s].file, bytesRead[s], buffer[s].whole))]
               /\ success' = [success EXCEPT ![f] = TRUE]
      <3>1. bytesRead[s] = StatSize[f] /\ res[c][READ] = StatSize[f] /\ res[c][PROBE] = 0 /\ done[c] >= 3
        BY <1>1, <1>3, <1>5, <1>8, <1>r, <2>5 DEF PROBE
      <3>2. buffer[s].file = f /\ ("shrink" \notin FsOps => buffer[s].whole)
        <4>1. KernelState(s)
          BY DEF CleanInv
        <4>2. /\ done[c] >= 2 /\ res[c][READ] = StatSize[f] => buffer[s].file = f
              /\ done[c] >= 3 /\ res[c][PROBE] = 0 => ("shrink" \notin FsOps => buffer[s].whole)
          BY <1>c, <1>f, <4>1, Zenon DEF KernelState
        <4>3. done[c] >= 2
          BY <1>1, <3>1
        <4> QED BY <3>1, <4>2, <4>3
      <3>w. PICK w : w = buffer[s].whole
        OBVIOUS
      <3>p. PICK p : p = Piece(f, StatSize[f], w)
        OBVIOUS
      <3>3. consumed' = [consumed EXCEPT ![f] = Append(consumed[f], p)]
        BY <2>5, <3>1, <3>2, <3>w, <3>p
      <3>4. consumed'[f] = <<p>>
        BY <1>5, <1>f, <2>2, <3>3, AppendFirst DEF ItemsType
      <3>5. p.whole = w
        BY <3>p DEF Piece
      <3>6. consumed'[f][1] = p
        BY <3>4
      <3>7. consumed'[f] = <<Piece(f, StatSize[f], consumed'[f][1].whole)>> /\ ("shrink" \notin FsOps => consumed'[f][1].whole)
        BY <3>2, <3>4, <3>5, <3>6, <3>p, <3>w
      <3>8. success'[f]
        BY <1>5, <1>f, <2>5 DEF ItemsType
      <3>9. ExactPiece(f)'
        BY <3>7 DEF ExactPiece
      <3> QED BY <1>3, <1>8, <2>2, <3>8, <3>9 DEF PROBE
    <2>6. CASE errno[f] = NoError /\ r < 0 /\ Reject(f, OrEIO(r)) /\ UNCHANGED consumed
      <3>1. OrEIO(r) \in Nat /\ OrEIO(r) # NoError
        BY <1>1, <2>6 DEF OrEIO, EIO, ECANCELED, NoError
      <3> QED BY <2>4, <2>6, <3>1
    <2>7. CASE Reject(f, EIO) /\ UNCHANGED consumed
      <3>1. EIO \in Nat /\ EIO # NoError
        BY DEF EIO, NoError
      <3> QED BY <2>4, <2>7, <3>1
    <2>8. CASE r = 0 /\ bytesRead[s] > 0 /\ Consume(f, s)
      BY <2>5, <2>7, <2>8 DEF Consume
    <2> QED BY <2>1, <2>3, <2>6, <2>7, <2>8 DEF HandleProbe
  <1>9. CASE op = CLOSE
    <2>1. UNCHANGED <<success, errno, consumed, bytesRead>>
      BY <1>2, <1>9 DEF HandleCqe, OPENAT, READ, PROBE, CLOSE, items
    <2>2. reaped[c] >= 3
      BY <1>1, <1>9, <1>op DEF CLOSE
    <2>3. ExactPiece(f) => ExactPiece(f)'
      BY <2>1 DEF ExactPiece
    <2> QED BY <1>3, <1>4, <1>9, <2>1, <2>2, <2>3 DEF CLOSE
  <1> QED BY <1>1, <1>6, <1>7, <1>8, <1>9 DEF OPENAT, READ, PROBE, CLOSE

(* Reaping one completion of a slot adds one to the completions counted.    *)
LEMMA ReapedCount ==
    ASSUME TypeInv, NEW s \in 1..submitted, reaped[Mine(s)] # 4,
           reaped' = [reaped EXCEPT ![Mine(s)] = @ + 1], UNCHANGED <<batch, submitted>>
    PROVE  Cardinality(ReapedSet') = Cardinality(ReapedSet) + 1
  <1>1. submitted \in Nat /\ Mine(s) \in Chains
    BY UsedSlots DEF TypeInv, TypeOK, WorkerType
  <1>n. PICK n : n = reaped[Mine(s)] /\ n \in 0..3
    BY <1>1 DEF TypeInv, TypeOK, KernelType
  <1>x. PICK x : x = <<s, n + 1>>
    OBVIOUS
  <1>2. reaped'[Mine(s)] = n + 1 /\ \A t \in 1..submitted : t # s => reaped'[Mine(t)] = reaped[Mine(t)]
    <2>1. \A t \in 1..submitted : Mine(t) \in Chains /\ (t # s => Mine(t) # Mine(s))
      BY UsedSlots DEF Mine
    <2> QED BY <1>1, <1>n, <2>1 DEF TypeInv, TypeOK, KernelType
  <1>3. ReapedSet' = {p \in (1..submitted) \X (1..4) : p[2] <= reaped'[Mine(p[1])]}
    BY DEF ReapedSet, Mine
  <1>4. x \in (1..submitted) \X (1..4) /\ x \notin ReapedSet
    <2>1. x \in (1..submitted) \X (1..4) /\ x[1] = s /\ x[2] = n + 1
      BY <1>n, <1>x
    <2>2. ~ (n + 1 <= n)
      BY <1>n
    <2> QED BY <1>n, <2>1, <2>2 DEF ReapedSet
  <1>5. ASSUME NEW p \in (1..submitted) \X (1..4)
        PROVE  p[2] <= reaped'[Mine(p[1])] <=> p[2] <= reaped[Mine(p[1])] \/ p = x
    <2>1. p = <<p[1], p[2]>> /\ p[1] \in 1..submitted /\ p[2] \in 1..4
      OBVIOUS
    <2>2. CASE p[1] = s
      <3>1. p[2] <= reaped'[Mine(p[1])] <=> p[2] <= n + 1
        BY <1>2, <2>2
      <3>2. p[2] <= reaped[Mine(p[1])] <=> p[2] <= n
        BY <1>n, <2>2
      <3>3. p = x <=> p[2] = n + 1
        BY <1>x, <2>1, <2>2
      <3> QED BY <1>n, <2>1, <3>1, <3>2, <3>3
    <2>3. CASE p[1] # s
      <3>1. reaped'[Mine(p[1])] = reaped[Mine(p[1])] /\ p # x
        BY <1>2, <1>x, <2>1, <2>3
      <3> QED BY <3>1
    <2> QED BY <2>2, <2>3
  <1>6. ReapedSet' = ReapedSet \cup {x}
    BY <1>3, <1>4, <1>5 DEF ReapedSet
  <1>7. IsFiniteSet(ReapedSet)
    <2>1. IsFiniteSet(1..submitted) /\ IsFiniteSet(1..4)
      BY <1>1, IntervalCard, 4 \in Nat
    <2>2. IsFiniteSet((1..submitted) \X (1..4))
      <3> DEFINE S == 1..submitted
                 T == 1..4
      <3>1. IsFiniteSet(S) /\ IsFiniteSet(T)
        BY <2>1
      <3> HIDE DEF S, T
      <3>2. IsFiniteSet(S \X T)
        BY <3>1, FS_Product
      <3> QED BY <3>2 DEF S, T
    <2>3. ReapedSet \subseteq (1..submitted) \X (1..4)
      BY DEF ReapedSet
    <2> QED BY <2>2, <2>3, FS_Subset
  <1> QED BY <1>4, <1>6, <1>7, FS_AddElement

LEMMA CleanReap == ASSUME TypeInv, CleanInv, NEW c \in Chains, Reap(c) PROVE CleanInv'
  <1>0. /\ pc = "wait" /\ chState[c] = "flying" /\ seen' = seen + 1
        /\ reaped' = [reaped EXCEPT ![c] = @ + 1]
        /\ UNCHANGED <<pc, batch, offset, slotItem, submitted, driveOk, clean, chState, chFile, done, res, fdTable, buffer>>
        /\ UNCHANGED fs
    BY DEF Reap
  <1>1. reaped[c] # 4 /\ reaped[c] \in 0..4
    BY ReapFacts DEF TypeInv, TypeOK, KernelType
  <1>s. PICK s : s = c[2]
    OBVIOUS
  <1>2. s \in 1..submitted /\ s \in Slots /\ c = Mine(s) /\ slotItem[s] \in Files /\ slotItem[s] # NoFile
    BY <1>0, <1>1, <1>s, OwnChain
  <1>3. undefined' = undefined
    BY <1>2, <1>s DEF Reap
  <1>4. \A t \in 1..submitted : t # s => /\ Mine(t) # c /\ Mine(t) \in Chains /\ reaped'[Mine(t)] = reaped[Mine(t)]
                                         /\ t \in Slots /\ slotItem[t] # slotItem[s] /\ slotItem[t] \in Files
    <2>1. \A t \in 1..submitted : t # s => /\ Mine(t) # c /\ Mine(t) \in Chains /\ t \in Slots
                                           /\ slotItem[t] \in Files /\ slotItem[t] # slotItem[s]
      BY <1>2, UsedSlots DEF Mine, TypeInv, SlotsAssigned
    <2> QED BY <1>0, <2>1 DEF TypeInv, TypeOK, KernelType
  <1>5. OthersQuiet'
    <2>1. c[1] = batch
      BY <1>2 DEF Mine
    <2>2. \A d \in Chains : d[1] # batch => reaped'[d] = reaped[d]
      BY <1>0, <2>1 DEF TypeInv, TypeOK, KernelType
    <2> QED BY <1>0, <2>2 DEF CleanInv, OthersQuiet
  <1>6. \A t \in 1..submitted : KernelState(t)'
    BY <1>0 DEF CleanInv, KernelState, Mine, fs
  <1>7. /\ WorkerState(s)'
        /\ IF success'[slotItem[s]] THEN ExactPiece(slotItem[s])' ELSE consumed'[slotItem[s]] = <<>>
    BY <1>0, <1>2, WorkerStateStep
  <1>8. ASSUME NEW t \in 1..submitted PROVE WorkerState(t)'
    <2>1. CASE t = s
      BY <1>7, <2>1
    <2>2. CASE t # s
      <3>1. /\ success'[slotItem[t]] = success[slotItem[t]] /\ errno'[slotItem[t]] = errno[slotItem[t]]
            /\ bytesRead'[t] = bytesRead[t] /\ reaped'[Mine(t)] = reaped[Mine(t)]
        BY <1>4, <1>s, <2>2, ReapFacts
      <3>2. WorkerState(t) /\ Mine(t)' = Mine(t)
        BY <1>0 DEF CleanInv, Mine
      <3> QED BY <1>0, <3>1, <3>2 DEF WorkerState
    <2> QED BY <2>1, <2>2
  <1>9. Untouched' /\ Driven'
    BY <1>0 DEF Untouched, Driven
  <1>10. Counted'
    <2>1. Cardinality(ReapedSet') = Cardinality(ReapedSet) + 1
      BY <1>0, <1>1, <1>2, ReapedCount
    <2>2. seen = Cardinality(ReapedSet) /\ ~ driveOk /\ \A t \in 1..submitted : chState[Mine(t)] = "flying"
      BY <1>0 DEF CleanInv, Counted
    <2>3. \A t \in 1..submitted : chState'[Mine(t)'] = "flying"
      BY <1>0, <2>2 DEF Mine
    <2> QED BY <1>0, <2>1, <2>2, <2>3 DEF Counted
  <1>11. ASSUME NEW i \in 1..ItemCount PROVE ItemUndecided(i)'
    <2>1. Item(i)' = Item(i) /\ Item(i) \in Files /\ ItemUndecided(i)
      BY <1>0, ItemFacts DEF Item, CleanInv, ItemsState, TypeInv
    <2>2. CASE Item(i) = slotItem[s]
      <3>1. Fits(Item(i))
        BY <1>2, <2>2, SlotFacts
      <3>2. Item(i)' = slotItem'[s]
        BY <1>0, <2>1, <2>2
      <3>3. IF success'[Item(i)'] THEN ExactPiece(Item(i))' ELSE consumed'[Item(i)'] = <<>>
        BY <1>0, <1>7, <2>1, <2>2, <3>2 DEF ExactPiece
      <3> QED BY <2>1, <3>1, <3>3 DEF ItemUndecided, Fits
    <2>3. CASE Item(i) # slotItem[s]
      <3>1. success'[Item(i)] = success[Item(i)] /\ consumed'[Item(i)] = consumed[Item(i)]
        BY <1>s, <2>1, <2>3, ReapFacts
      <3> QED BY <2>1, <3>1 DEF ItemUndecided, ExactPiece
    <2> QED BY <2>2, <2>3
  <1>12. ItemsState'
    BY <1>0, <1>11 DEF ItemsState, ItemCount
  <1> QED BY <1>0, <1>3, <1>5, <1>6, <1>8, <1>9, <1>10, <1>12 DEF CleanInv

LEMMA IndInit == Init => IndInv
  <1> SUFFICES ASSUME Init PROVE IndInv
    OBVIOUS
  <1>1. TypeInv /\ CleanInv
    BY TypeInit, CleanInit
  <1>2. FittingHaveSlots
    BY DEF Init, FittingHaveSlots, Looked
  <1>3. FutureItems
    <2> SUFFICES ASSUME NEW b \in BatchNo, NEW i \in 1..Len(Batches[b])
                 PROVE  ~ success[Batches[b][i]] /\ errno[Batches[b][i]] = NoError /\ consumed[Batches[b][i]] = <<>>
      BY DEF FutureItems
    <2>1. Batches[b] \in Seq(Files)
      BY BatchesAssumption DEF BatchNo
    <2>2. Batches[b][i] \in Files
      BY <2>1
    <2> QED BY <2>2 DEF Init
  <1> QED BY <1>1, <1>2, <1>3 DEF IndInv, TypeInv

LEMMA CleanNext == ASSUME TypeInv, FittingHaveSlots, FutureItems, clean => CleanInv, [Next]_vars
                   PROVE  clean' => CleanInv'
  <1>1. CASE NextBatch
    BY <1>1, CleanNextBatch
  <1>2. CASE LeaveStep
    BY <1>2, CleanLeave DEF LeaveStep, NothingToSubmit, QueueFull, SubmitFails, WaitFails, AllSeen
  <1>3. CASE SkipItem \/ PrepareItem \/ Submit
    BY <1>3, CleanSkip, CleanPrepare, CleanSubmit DEF SkipItem, PrepareItem, Submit
  <1>4. CASE \E c \in Chains : Reap(c)
    <2>1. PICK c \in Chains : Reap(c)
      BY <1>4
    <2>2. clean' = clean
      BY <2>1 DEF Reap
    <2> QED BY <2>1, <2>2, CleanReap
  <1>5. CASE FallbackItem \/ LastBatch
    BY <1>5, CleanFallback, CleanLastBatch DEF FallbackItem, LastBatch
  <1>6. CASE \E c \in Chains : KernelStep(c)
    BY <1>6, CleanKernel DEF KernelStep, worker
  <1>7. CASE \E f \in Files : Grow(f) \/ Shrink(f) \/ Vanish(f)
    BY <1>7, CleanFs DEF Grow, Shrink, Vanish, Touch, worker
  <1>8. CASE UNCHANGED vars
    BY <1>8, CleanStutter DEF vars, worker
  <1> QED BY <1>1, <1>2, <1>3, <1>4, <1>5, <1>6, <1>7, <1>8 DEF Next, Worker, Failure, LeaveStep, Finished

LEMMA IndNext == IndInv /\ [Next]_vars => IndInv'
  <1> SUFFICES ASSUME IndInv, [Next]_vars PROVE IndInv'
    OBVIOUS
  <1>1. TypeInv /\ FittingHaveSlots /\ FutureItems /\ (clean => CleanInv)
    BY DEF IndInv, TypeInv
  <1>2. TypeInv'
    BY <1>1, TypeNext
  <1>3. FittingHaveSlots' /\ FutureItems'
    BY <1>1, FittingNext, FutureNext
  <1>4. clean' => CleanInv'
    BY <1>1, CleanNext
  <1> QED BY <1>2, <1>3, <1>4 DEF IndInv, TypeInv

(* The inductive invariant gives the three properties. *)
LEMMA ItemsExact ==
    ASSUME IndInv, clean, NEW i \in 1..ItemCount, success[Item(i)]
    PROVE  /\ OwnBytesOnce(Item(i))
           /\ Fits(Item(i)) /\ (pc = "wait" \/ driveOk) => ExactPiece(Item(i)) /\ ExactSize(Item(i))
  <1>1. CleanInv
    BY DEF IndInv
  <1>2. ItemUndecided(i) \/ (ItemDecided(i) /\ pc # "wait")
    <2>1. ItemsState
      BY <1>1 DEF CleanInv
    <2>2. IF pc \in {"prepare", "wait"} \/ (pc = "fallback" /\ i > offset) THEN ItemUndecided(i) ELSE ItemDecided(i)
      BY <2>1, Zenon DEF ItemsState
    <2> QED BY <2>2
  <1>3. CASE ItemUndecided(i)
    <2>1. ExactPiece(Item(i))
      BY <1>3 DEF ItemUndecided
    <2> QED BY <2>1, ExactIsOwn
  <1>4. CASE ItemDecided(i) /\ pc # "wait"
    <2>1. OwnBytesOnce(Item(i)) /\ (Fits(Item(i)) /\ driveOk => ExactPiece(Item(i)))
      BY <1>4 DEF ItemDecided
    <2> QED BY <1>4, <2>1, ExactIsOwn
  <1> QED BY <1>2, <1>3, <1>4

(* Whatever fails and whatever other processes do to the files, a batch     *)
(* that consume_batch starts on an idle ring accepts an item only with the  *)
(* bytes of its own file, fed to the digest once, and through the ring only *)
(* with exactly file_size of them: for every number of slots, batches and   *)
(* files.                                                                   *)
THEOREM CleanBatchExact == Spec => []CleanBatchIsExact
  <1>1. IndInv => CleanBatchIsExact
    BY ItemsExact DEF CleanBatchIsExact
  <1> QED BY <1>1, IndInit, IndNext, PTL DEF Spec

(* While files only grow or vanish, the growth probe of submit_slot makes   *)
(* what the ring accepts the complete content of the file when it was read. *)
THEOREM RingAcceptsWhole == Spec => []RingAcceptsOnlyWholeFiles
  <1>1. ASSUME IndInv PROVE RingAcceptsOnlyWholeFiles
    <2> SUFFICES ASSUME "shrink" \notin FsOps, clean, NEW i \in 1..ItemCount,
                        success[Item(i)], Fits(Item(i)), pc = "wait" \/ driveOk
                 PROVE  consumed[Item(i)][1].whole
      BY DEF RingAcceptsOnlyWholeFiles
    <2>1. ExactPiece(Item(i))
      BY <1>1, ItemsExact
    <2> QED BY <2>1 DEF ExactPiece
  <1> QED BY <1>1, IndInit, IndNext, PTL DEF Spec

(* A batch that drive_chunk ran to its end on an idle ring leaves the ring  *)
(* idle, and no completion is charged to a slot the batch did not assign.   *)
THEOREM DriveDrains == Spec => []DriveDrainsRing
  <1>1. ASSUME IndInv PROVE DriveDrainsRing
    <2>1. clean => CleanInv /\ ~ undefined
      BY <1>1 DEF IndInv, CleanInv
    <2>2. ASSUME clean, driveOk, NEW c \in Chains
          PROVE  chState[c] = "none" \/ (chState[c] = "flying" /\ reaped[c] = 4)
      <3>1. CASE c[1] # batch
        BY <2>1, <2>2, <3>1 DEF CleanInv, OthersQuiet
      <3>2. CASE c[1] = batch /\ c[2] > submitted
        BY <1>1, <3>2 DEF IndInv, ChainsInOrder
      <3>3. CASE c[1] = batch /\ ~ (c[2] > submitted)
        <4>1. pc \in {"fallback", "finished"}
          BY <1>1, <2>1, <2>2 DEF CleanInv, Counted, IndInv, TypeOK, WorkerType
        <4>2. c[2] \in 1..submitted /\ c = Mine(c[2])
          BY <1>1, <3>3, BoundsAssumption DEF Chains, Slots, Mine, IndInv, TypeOK, WorkerType
        <4> QED BY <2>1, <2>2, <4>1, <4>2 DEF CleanInv, Driven
      <3> QED BY <3>1, <3>2, <3>3
    <2> QED BY <2>1, <2>2 DEF DriveDrainsRing, RingIdle
  <1> QED BY <1>1, IndInit, IndNext, PTL DEF Spec

-----------------------------------------------------------------------------
(* What becomes of an item: FullInv, on top of IndInv.                      *)

(* A file nobody has changed is as discovery listed it. *)
LEMMA ListedNext == ASSUME TypeInv, UntouchedAsListed, [Next]_vars PROVE UntouchedAsListed'
  <1>1. CASE \E f \in Files : Grow(f) \/ Shrink(f) \/ Vanish(f)
    <2>1. PICK f \in Files : Grow(f) \/ Shrink(f) \/ Vanish(f)
      BY <1>1
    <2>2. touched' = touched \cup {f}
      BY <2>1 DEF Grow, Shrink, Vanish, Touch
    <2>3. \A g \in Files : g # f => exists'[g] = exists[g] /\ size'[g] = size[g]
      BY <2>1 DEF Grow, Shrink, Vanish, TypeInv, TypeOK, FsType
    <2> QED BY <2>2, <2>3 DEF UntouchedAsListed
  <1>2. CASE UNCHANGED fs
    BY <1>2 DEF UntouchedAsListed, fs
  <1> QED BY <1>1, <1>2 DEF Next, Worker, Failure, Finished, vars, SkipItem, PrepareItem, QueueFull, NothingToSubmit,
                           Submit, SubmitFails, Reap, WaitFails, AllSeen, FallbackItem, NextBatch, LastBatch, KernelStep

LEMMA OutcomeInit == ASSUME Init PROVE OutcomeInv
  <1>1. \A i \in 1..ItemCount : Item(i) \in Files
    BY TypeInit, ItemFacts DEF TypeInv
  <1>2. 1..submitted = {}
    BY DEF Init
  <1>3. \A i \in 1..ItemCount : errno[Item(i)] = NoError /\ GoodItem(i)
    BY <1>1 DEF Init, GoodItem
  <1> QED BY <1>2, <1>3 DEF OutcomeInv

LEMMA OutcomeLeave == ASSUME TypeInv, OutcomeInv, LeaveStep PROVE OutcomeInv'
  <1>1. ItemCount' = ItemCount /\ ItemCount \in Nat
    BY LeaveFacts, ItemFacts DEF ItemCount, TypeInv
  <1>2. ASSUME NEW s \in 1..submitted PROVE RootCause(s)' /\ GoodChain(s)'
    <2>1. RootCause(s) /\ GoodChain(s)
      BY DEF OutcomeInv
    <2> QED BY <2>1, LeaveFacts DEF RootCause, GoodChain, Mine
  <1>3. ASSUME NEW i \in 1..ItemCount PROVE GoodItem(i)'
    <2>1. Reliable /\ Item(i) \notin touched => errno[Item(i)] = NoError
      BY LeaveFacts DEF OutcomeInv, GoodItem
    <2>2. i > 0
      BY <1>1
    <2> QED BY <2>1, <2>2, LeaveFacts DEF GoodItem, Item
  <1>4. submitted' = submitted /\ pc' # "prepare"
    BY LeaveFacts
  <1> QED BY <1>1, <1>2, <1>3, <1>4 DEF OutcomeInv

LEMMA OutcomeSkip == ASSUME TypeInv, OutcomeInv, SkipItem PROVE OutcomeInv'
  <1>1. /\ pc = "prepare" /\ ItemCount' = ItemCount
        /\ UNCHANGED <<pc, batch, slotItem, submitted, bytesRead, errno, success, done, reaped, res, touched>>
    BY DEF SkipItem, ItemCount, items, kernel, chains, fs
  <1>2. ASSUME NEW s \in 1..submitted PROVE RootCause(s)' /\ GoodChain(s)'
    <2>1. RootCause(s) /\ GoodChain(s)
      BY DEF OutcomeInv
    <2> QED BY <1>1, <2>1 DEF RootCause, GoodChain, Mine
  <1>3. ASSUME NEW i \in 1..ItemCount PROVE GoodItem(i)' /\ errno'[Item(i)'] = NoError
    BY <1>1 DEF OutcomeInv, GoodItem, Item
  <1> QED BY <1>1, <1>2, <1>3 DEF OutcomeInv

LEMMA OutcomePrepare == ASSUME TypeInv, OutcomeInv, PrepareItem PROVE OutcomeInv'
  <1>1. /\ pc = "prepare" /\ ItemCount' = ItemCount /\ submitted' = submitted + 1
        /\ UNCHANGED <<pc, batch, bytesRead, errno, success, done, reaped, res, touched>>
        /\ slotItem' = [slotItem EXCEPT ![submitted + 1] = Item(offset + 1)]
    BY DEF PrepareItem, ItemCount, items, fs
  <1>2. offset + 1 \in 1..ItemCount /\ submitted \in Nat /\ submitted + 1 \in Slots
    <2>1. offset \in 0..ItemCount /\ offset < ItemCount /\ ItemCount \in Nat /\ ItemCount <= SlotCount
      BY ItemFacts DEF PrepareItem, TypeInv, TypeOK, WorkerType
    <2>2. submitted \in 0..SlotCount /\ submitted <= offset
      BY DEF PrepareItem, TypeInv, SlotsAssigned, TypeOK, WorkerType
    <2> QED BY <2>1, <2>2, BoundsAssumption DEF Slots
  <1>3. ASSUME NEW i \in 1..ItemCount PROVE GoodItem(i)' /\ errno'[Item(i)'] = NoError
    BY <1>1 DEF OutcomeInv, GoodItem, Item
  <1>4. ASSUME NEW s \in 1..submitted' PROVE RootCause(s)' /\ GoodChain(s)'
    <2>1. CASE s \in 1..submitted
      <3>1. RootCause(s) /\ GoodChain(s) /\ s \in Slots /\ s # submitted + 1
        BY <1>2, <2>1, UsedSlots DEF OutcomeInv
      <3>2. slotItem'[s] = slotItem[s]
        BY <1>1, <3>1 DEF TypeInv, TypeOK, WorkerType
      <3> QED BY <1>1, <3>1, <3>2 DEF RootCause, GoodChain, Mine
    <2>2. CASE s = submitted + 1
      <3>1. slotItem'[s] = Item(offset + 1) /\ errno'[slotItem'[s]] = NoError
        BY <1>1, <1>2, <2>2 DEF TypeInv, TypeOK, WorkerType, OutcomeInv
      <3>2. Mine(s)' = Mine(s) /\ Mine(s) \in Chains /\ Mine(s)[1] = batch /\ Mine(s)[2] = s
        BY <1>1, <1>2, <2>2 DEF Mine, Chains, TypeInv, TypeOK, WorkerType
      <3>3. chState[Mine(s)] = "none"
        BY <1>2, <2>2, <3>2 DEF TypeInv, ChainsInOrder
      <3>4. done[Mine(s)] = 0 /\ reaped[Mine(s)] = 0
        BY <3>2, <3>3 DEF TypeInv, ChainsInOrder, TypeOK, KernelType
      <3>5. done'[Mine(s)'] = 0 /\ reaped'[Mine(s)'] = 0 /\ errno'[slotItem'[s]] # ECANCELED
        BY <1>1, <3>1, <3>2, <3>4 DEF NoError, ECANCELED
      <3> QED BY <3>5 DEF RootCause, GoodChain
    <2> QED BY <1>1, <1>2, <2>1, <2>2
  <1> QED BY <1>1, <1>3, <1>4 DEF OutcomeInv

LEMMA OutcomeSubmit == ASSUME TypeInv, OutcomeInv, Submit PROVE OutcomeInv'
  <1>1. /\ pc = "prepare" /\ pc' = "wait" /\ ItemCount' = ItemCount
        /\ UNCHANGED <<batch, slotItem, submitted, bytesRead, errno, success, done, reaped, res, touched>>
    BY DEF Submit, ItemCount, items, fs
  <1>2. ASSUME NEW s \in 1..submitted PROVE RootCause(s)' /\ GoodChain(s)'
    <2>1. RootCause(s) /\ GoodChain(s)
      BY DEF OutcomeInv
    <2> QED BY <1>1, <2>1 DEF RootCause, GoodChain, Mine
  <1>3. ASSUME NEW i \in 1..ItemCount PROVE GoodItem(i)'
    BY <1>1 DEF OutcomeInv, GoodItem, Item
  <1> QED BY <1>1, <1>2, <1>3 DEF OutcomeInv

LEMMA OutcomeFallback == ASSUME TypeInv, UntouchedAsListed, OutcomeInv, FallbackItem PROVE OutcomeInv'
  <1>1. /\ pc = "fallback" /\ ItemCount' = ItemCount /\ offset' = offset + 1
        /\ UNCHANGED <<pc, batch, slotItem, submitted, bytesRead, done, reaped, res, touched>>
    BY DEF FallbackItem, ItemCount, kernel, chains, fs
  <1>2. offset \in Nat /\ offset + 1 \in 1..ItemCount /\ ItemCount \in Nat /\ Item(offset + 1) \in Files
    <2>1. offset \in 0..ItemCount /\ offset < ItemCount /\ ItemCount \in Nat
      BY ItemFacts DEF FallbackItem, TypeInv, TypeOK, WorkerType
    <2> QED BY <2>1, ItemFacts DEF TypeInv
  <1>3. ASSUME NEW s \in 1..submitted PROVE RootCause(s)' /\ GoodChain(s)'
    <2>1. RootCause(s) /\ GoodChain(s)
      BY DEF OutcomeInv
    <2> QED BY <1>1, <2>1 DEF RootCause, GoodChain, Mine
  <1>4. ASSUME NEW i \in 1..ItemCount PROVE GoodItem(i)'
    <2> SUFFICES ASSUME Reliable, Item(i) \notin touched
                 PROVE  IF i > offset + 1 THEN errno'[Item(i)] = NoError ELSE success'[Item(i)]
      BY <1>1 DEF GoodItem, Item
    <2>0. Item(i) \in Files /\ i \in Nat
      BY <1>2, <1>4, ItemFacts DEF TypeInv
    <2>1. IF i > offset THEN errno[Item(i)] = NoError ELSE success[Item(i)]
      BY <1>1, <1>4 DEF OutcomeInv, GoodItem
    <2>2. CASE i = offset + 1
      <3>1. errno[Item(i)] = NoError
        BY <1>2, <2>1, <2>2
      <3>2. CASE Settled(Item(i)) /\ UNCHANGED items
        <4>1. success[Item(i)]
          BY <3>1, <3>2 DEF Settled
        <4> QED BY <2>0, <2>2, <3>2, <4>1 DEF items
      <3>3. CASE FallbackSync(Item(i))
        <4>1. exists[Item(i)] /\ Faults \cap {"io", "consumer"} = {}
          BY <2>0 DEF UntouchedAsListed, Reliable
        <4>2. success' = [success EXCEPT ![Item(i)] = TRUE]
          BY <3>3, <4>1 DEF FallbackSync
        <4>3. success'[Item(i)]
          BY <2>0, <4>2 DEF TypeInv, TypeOK, ItemsType
        <4> QED BY <1>2, <2>0, <2>2, <4>3
      <3> QED BY <2>2, <3>2, <3>3 DEF FallbackItem
    <2>3. CASE i # offset + 1
      <3>1. Item(i) # Item(offset + 1)
        BY <1>2, <1>4, <2>3, ItemFacts DEF TypeInv
      <3>2. errno'[Item(i)] = errno[Item(i)] /\ success'[Item(i)] = success[Item(i)]
        BY <1>2, <2>0, <3>1, FallbackFacts DEF FallbackItem, items, TypeInv
      <3>3. i > offset + 1 <=> i > offset
        BY <1>2, <2>0, <2>3
      <3> QED BY <2>1, <3>2, <3>3
    <2> QED BY <2>2, <2>3
  <1> QED BY <1>1, <1>3, <1>4 DEF OutcomeInv

LEMMA OutcomeNextBatch == ASSUME TypeInv, FutureItems, NextBatch PROVE OutcomeInv'
  <1>1. /\ pc' = "prepare" /\ batch' = batch + 1 /\ submitted' = 0 /\ UNCHANGED <<success, errno>>
    BY DEF NextBatch, items
  <1>2. batch' \in BatchNo /\ batch' > batch
    BY <1>1, BatchesAssumption DEF NextBatch, TypeInv, TypeOK, WorkerType, BatchNo
  <1>3. \A i \in 1..Len(Batches[batch']) : errno[Batches[batch'][i]] = NoError
    BY <1>2 DEF FutureItems
  <1>4. \A i \in 1..ItemCount' : errno'[Item(i)'] = NoError
    BY <1>1, <1>3 DEF ItemCount, Item
  <1>5. \A i \in 1..ItemCount' : GoodItem(i)'
    BY <1>1, <1>4 DEF GoodItem
  <1>6. 1..submitted' = {}
    BY <1>1
  <1> QED BY <1>4, <1>5, <1>6 DEF OutcomeInv

LEMMA OutcomeLastBatch == ASSUME TypeInv, OutcomeInv, LastBatch PROVE OutcomeInv'
  <1>1. /\ pc = "fallback" /\ offset = ItemCount /\ pc' = "finished" /\ ItemCount' = ItemCount
        /\ UNCHANGED <<batch, slotItem, submitted, bytesRead, errno, success, done, reaped, res, touched>>
    BY DEF LastBatch, ItemCount, items, kernel, chains, fs
  <1>2. ASSUME NEW s \in 1..submitted PROVE RootCause(s)' /\ GoodChain(s)'
    <2>1. RootCause(s) /\ GoodChain(s)
      BY DEF OutcomeInv
    <2> QED BY <1>1, <2>1 DEF RootCause, GoodChain, Mine
  <1>3. ASSUME NEW i \in 1..ItemCount PROVE GoodItem(i)'
    <2>1. GoodItem(i) /\ ~ (i > offset)
      BY <1>1, ItemFacts DEF OutcomeInv, TypeInv
    <2> QED BY <1>1, <2>1 DEF GoodItem, Item
  <1> QED BY <1>1, <1>2, <1>3 DEF OutcomeInv

LEMMA OutcomeFs == ASSUME TypeInv, OutcomeInv, NEW f \in Files, Grow(f) \/ Shrink(f) \/ Vanish(f) PROVE OutcomeInv'
  <1>1. /\ ItemCount' = ItemCount /\ touched \subseteq touched'
        /\ UNCHANGED <<pc, batch, offset, slotItem, submitted, bytesRead, errno, success, done, reaped, res>>
    BY FsFacts DEF ItemCount, Grow, Shrink, Vanish, Touch
  <1>2. ASSUME NEW s \in 1..submitted PROVE RootCause(s)' /\ GoodChain(s)'
    <2>1. RootCause(s) /\ GoodChain(s)
      BY DEF OutcomeInv
    <2> QED BY <1>1, <2>1 DEF RootCause, GoodChain, Mine
  <1>3. ASSUME NEW i \in 1..ItemCount PROVE GoodItem(i)'
    BY <1>1 DEF OutcomeInv, GoodItem, Item
  <1> QED BY <1>1, <1>2, <1>3 DEF OutcomeInv, Item

LEMMA OutcomeStutter == ASSUME OutcomeInv, UNCHANGED vars PROVE OutcomeInv'
  <1>1. /\ ItemCount' = ItemCount
        /\ UNCHANGED <<pc, batch, offset, slotItem, submitted, bytesRead, errno, success, done, reaped, res, touched>>
    BY DEF ItemCount, vars, worker, items, kernel, chains, fs
  <1>2. ASSUME NEW s \in 1..submitted PROVE RootCause(s)' /\ GoodChain(s)'
    <2>1. RootCause(s) /\ GoodChain(s)
      BY DEF OutcomeInv
    <2> QED BY <1>1, <2>1 DEF RootCause, GoodChain, Mine
  <1>3. ASSUME NEW i \in 1..ItemCount PROVE GoodItem(i)'
    BY <1>1 DEF OutcomeInv, GoodItem, Item
  <1> QED BY <1>1, <1>2, <1>3 DEF OutcomeInv, Item

(* The result a kernel step leaves in the chain it works on. *)
LEMMA CompleteFacts ==
    ASSUME TypeInv, NEW c \in Chains, done[c] \in 0..3, NEW v \in Int, Complete(c, v)
    PROVE  res'[c][done[c] + 1] = v
  <1>1. res' = [res EXCEPT ![c] = [res[c] EXCEPT ![done[c] + 1] = v]]
    BY DEF Complete
  <1>2. res \in [Chains -> [1..4 -> Int]] /\ done[c] + 1 \in 1..4
    BY DEF TypeInv, TypeOK, KernelType
  <1>3. res'[c] = [res[c] EXCEPT ![done[c] + 1] = v] /\ res[c] \in [1..4 -> Int]
    BY <1>1, <1>2
  <1> QED BY <1>2, <1>3

(* One kernel step of the chain of slot s: its open finds the file or does  *)
(* not, a broken link cancels, and the chain of a file nobody changed goes  *)
(* through.                                                                 *)
LEMMA OutcomeKernelSlot ==
    ASSUME TypeInv, CleanInv, UntouchedAsListed, NEW c \in Chains, KernelStep(c),
           NEW s \in 1..submitted, c = Mine(s), s = c[2], RootCause(s), GoodChain(s)
    PROVE  RootCause(s)' /\ GoodChain(s)'
  <1>0. s \in Slots /\ chState[c] = "flying" /\ reaped[c] # 4 /\ reaped[c] <= done[c] /\ done[c] \in 0..3 /\ reaped[c] \in 0..4
    <2>1. chState[c] = "flying" /\ done[c] \in 0..3
      BY KernelFacts
    <2>2. reaped[c] \in 0..4 /\ reaped[c] <= done[c]
      BY DEF TypeInv, TypeOK, KernelType, ChainsInOrder
    <2> QED BY <2>1, <2>2, UsedSlots
  <1>f. PICK f : f = slotItem[s] /\ f = chFile[c] /\ f \in Files /\ f # NoFile /\ StatSize[f] \in Nat /\ size[f] \in Nat
    BY <1>0, OwnChain DEF TypeInv, TypeOK, FsType
  <1>1. /\ Mine(s)' = c /\ slotItem'[s] = f /\ done'[c] = done[c] + 1
        /\ UNCHANGED <<pc, errno, reaped, bytesRead, touched>>
        /\ \A op \in 1..4 : op # done[c] + 1 => res'[c][op] = res[c][op]
    BY <1>f, KernelFacts DEF Mine
  <1>2. /\ done[c] >= 1 => res[c][OPENAT] \in {0, -ENOENT}
        /\ done[c] >= 2 /\ res[c][OPENAT] < 0 => res[c][READ] < 0
        /\ pc \in {"prepare", "wait"} =>
              errno[f] # ECANCELED /\ (reaped[c] > 0 /\ res[c][OPENAT] < 0 => errno[f] = -res[c][OPENAT])
    BY <1>f DEF RootCause
  <1>3. Reliable /\ f \notin touched =>
            /\ done[c] >= 1 => res[c][OPENAT] = 0
            /\ done[c] >= 2 => res[c][READ] = StatSize[f]
            /\ done[c] >= 3 => res[c][PROBE] = 0
            /\ reaped[c] >= 2 => bytesRead[s] = StatSize[f]
    BY <1>f DEF GoodChain
  <1>4. done[c] \in {1, 2, 3} /\ res[c][OPENAT] >= 0 => fdTable[s] = f
    <2>1. KernelState(s)
      BY DEF CleanInv
    <2> QED BY <1>f, <2>1, Zenon DEF KernelState
  <1>5. f \notin touched => exists[f] /\ size[f] = StatSize[f]
    BY <1>f DEF UntouchedAsListed
  <1>6. Reliable => "io" \notin Faults
    BY DEF Reliable
  <1> SUFFICES /\ done'[c] >= 1 => res'[c][OPENAT] \in {0, -ENOENT}
               /\ done'[c] >= 2 /\ res'[c][OPENAT] < 0 => res'[c][READ] < 0
               /\ reaped[c] > 0 => res'[c][OPENAT] = res[c][OPENAT]
               /\ Reliable /\ f \notin touched =>
                      /\ done'[c] >= 1 => res'[c][OPENAT] = 0
                      /\ done'[c] >= 2 => res'[c][READ] = StatSize[f]
                      /\ done'[c] >= 3 => res'[c][PROBE] = 0
    BY <1>1, <1>2, <1>3 DEF RootCause, GoodChain
  <1>7. CASE done[c] = 0
    <2>1. KernelOpen(c)
      BY <1>7 DEF KernelStep, Broken, OPENAT, READ, PROBE, CLOSE
    <2>2. res'[c][1] \in {0, -ENOENT} /\ (exists[f] => res'[c][1] = 0)
      BY <1>0, <1>7, <1>f, <2>1, CompleteFacts DEF KernelOpen, ENOENT
    <2>3. reaped[c] = 0 /\ done'[c] = 1
      BY <1>0, <1>1, <1>7
    <2> QED BY <1>5, <2>2, <2>3 DEF OPENAT
  <1>8. CASE done[c] = 1
    <2>0. res'[c][OPENAT] = res[c][OPENAT] /\ done'[c] = 2 /\ res[c][OPENAT] \in {0, -ENOENT}
      BY <1>1, <1>2, <1>8 DEF OPENAT
    <2>1. CASE Broken(c, READ) /\ Complete(c, -ECANCELED)
      <3>1. res[c][OPENAT] < 0 /\ res'[c][READ] = -ECANCELED
        BY <1>0, <1>8, <2>1, CompleteFacts DEF Broken, READ, PROBE, CLOSE, ECANCELED
      <3> QED BY <1>3, <1>8, <2>0, <3>1 DEF ECANCELED, ENOENT
    <2>2. CASE ~ Broken(c, READ) /\ KernelRead(c)
      <3>1. res[c][OPENAT] = 0
        BY <2>0, <2>2 DEF Broken, READ, ENOENT
      <3>2. fdTable[s] = f
        BY <1>4, <1>8, <3>1
      <3>3. Reliable /\ f \notin touched => Complete(c, StatSize[f])
        BY <1>5, <1>6, <1>f, <2>2, <3>2 DEF KernelRead, Smaller
      <3>4. Reliable /\ f \notin touched => res'[c][READ] = StatSize[f]
        BY <1>0, <1>8, <1>f, <3>3, CompleteFacts DEF READ
      <3> QED BY <2>0, <3>1, <3>4
    <2> QED BY <1>8, <2>1, <2>2 DEF KernelStep, OPENAT, READ, PROBE, CLOSE
  <1>9. CASE done[c] = 2
    <2>0. res'[c][OPENAT] = res[c][OPENAT] /\ res'[c][READ] = res[c][READ] /\ done'[c] = 3
      BY <1>1, <1>9 DEF OPENAT, READ
    <2>1. Reliable /\ f \notin touched => res'[c][PROBE] = 0
      <3> SUFFICES ASSUME Reliable, f \notin touched PROVE res'[c][PROBE] = 0
        OBVIOUS
      <3>1. res[c][READ] = StatSize[f] /\ res[c][OPENAT] = 0
        BY <1>3, <1>9
      <3>2. KernelProbe(c)
        BY <1>9, <1>f, <3>1 DEF KernelStep, Broken, OPENAT, READ, PROBE, CLOSE
      <3>3. fdTable[s] = f
        BY <1>4, <1>9, <3>1
      <3>4. Complete(c, 0)
        BY <1>5, <1>6, <1>f, <3>2, <3>3 DEF KernelProbe
      <3> QED BY <1>0, <1>9, <3>4, CompleteFacts DEF PROBE
    <2> QED BY <1>2, <1>3, <1>9, <2>0, <2>1
  <1>10. CASE done[c] = 3
    <2>1. /\ res'[c][OPENAT] = res[c][OPENAT] /\ res'[c][READ] = res[c][READ] /\ res'[c][PROBE] = res[c][PROBE]
      BY <1>1, <1>10 DEF OPENAT, READ, PROBE
    <2> QED BY <1>2, <1>3, <1>10, <2>1
  <1> QED BY <1>0, <1>7, <1>8, <1>9, <1>10

LEMMA OutcomeKernel ==
    ASSUME TypeInv, CleanInv, UntouchedAsListed, OutcomeInv, NEW c \in Chains, KernelStep(c) PROVE OutcomeInv'
  <1>1. /\ ItemCount' = ItemCount
        /\ UNCHANGED <<pc, batch, offset, slotItem, submitted, bytesRead, errno, success, reaped, touched>>
    BY KernelFacts DEF ItemCount
  <1>2. c[2] \in 1..submitted /\ c = Mine(c[2])
    <2>1. chState[c] = "flying" /\ done[c] \in 0..3
      BY KernelFacts
    <2>2. reaped[c] \in 0..4 /\ reaped[c] <= done[c]
      BY DEF TypeInv, TypeOK, KernelType, ChainsInOrder
    <2>3. reaped[c] # 4
      BY <2>1, <2>2
    <2> QED BY <2>1, <2>3, OwnChain
  <1>3. ASSUME NEW s \in 1..submitted PROVE RootCause(s)' /\ GoodChain(s)'
    <2>0. RootCause(s) /\ GoodChain(s)
      BY DEF OutcomeInv
    <2>1. CASE s = c[2]
      BY <1>2, <2>0, <2>1, OutcomeKernelSlot
    <2>2. CASE s # c[2]
      <3>1. Mine(s) # c /\ Mine(s) \in Chains
        BY <1>2, <2>2, UsedSlots DEF Mine
      <3>2. done'[Mine(s)] = done[Mine(s)] /\ res'[Mine(s)] = res[Mine(s)] /\ Mine(s)' = Mine(s)
        BY <1>1, <3>1, KernelFacts DEF Mine
      <3> QED BY <1>1, <2>0, <3>2 DEF RootCause, GoodChain
    <2> QED BY <2>1, <2>2
  <1>4. ASSUME NEW i \in 1..ItemCount PROVE GoodItem(i)'
    BY <1>1 DEF OutcomeInv, GoodItem, Item
  <1> QED BY <1>1, <1>3, <1>4 DEF OutcomeInv, Item

(* One completion of the chain of slot s: the item keeps open's errno, and  *)
(* nothing rejects a file nobody changed.                                   *)
LEMMA OutcomeReapSlot ==
    ASSUME TypeInv, CleanInv, NEW s \in 1..submitted, Reap(Mine(s)), RootCause(s), GoodChain(s),
           Reliable /\ slotItem[s] \notin touched => errno[slotItem[s]] = NoError
    PROVE  /\ RootCause(s)' /\ GoodChain(s)'
           /\ Reliable /\ slotItem[s] \notin touched => errno'[slotItem[s]] = NoError
  <1>c. PICK c : c = Mine(s)
    OBVIOUS
  <1>f. PICK f : f = slotItem[s] /\ f \in Files /\ f # NoFile /\ StatSize[f] \in Nat /\ StatSize[f] > 0
    BY UsedSlots, SlotFacts
  <1>0. s \in Slots /\ c \in Chains /\ c[2] = s /\ Mine(s)' = c
    BY <1>c, UsedSlots DEF Mine, Reap
  <1>op. PICK op : op = reaped[c] + 1
    OBVIOUS
  <1>r. PICK r : r = res[c][op]
    OBVIOUS
  <1>1. /\ op \in 1..4 /\ op <= done[c] /\ done[c] \in 0..4 /\ reaped[c] \in 0..4 /\ r \in Int
        /\ reaped'[c] = op
    <2>1. /\ reaped[c] + 1 \in 1..4 /\ reaped[c] + 1 <= done[c] /\ res[c][reaped[c] + 1] \in Int
      BY <1>0, <1>c, ReapFacts
    <2>2. done[c] \in 0..4 /\ reaped[c] \in 0..4
      BY <1>0 DEF TypeInv, TypeOK, KernelType
    <2>3. reaped'[c] = reaped[c] + 1
      BY <1>0, <1>c DEF Reap, TypeInv, TypeOK, KernelType
    <2> QED BY <1>op, <1>r, <2>1, <2>2, <2>3
  <1>2. HandleCqe(f, s, op, r) /\ pc = "wait" /\ UNCHANGED <<pc, slotItem, res, done, touched>>
    BY <1>c, <1>f, <1>0, <1>op, <1>r DEF Reap, fs
  <1>3. /\ done[c] >= 1 => res[c][OPENAT] \in {0, -ENOENT}
        /\ done[c] >= 2 /\ res[c][OPENAT] < 0 => res[c][READ] < 0
        /\ errno[f] # ECANCELED /\ (reaped[c] > 0 /\ res[c][OPENAT] < 0 => errno[f] = -res[c][OPENAT])
    BY <1>2, <1>c, <1>f DEF RootCause
  <1>4. Reliable /\ f \notin touched =>
            /\ done[c] >= 1 => res[c][OPENAT] = 0
            /\ done[c] >= 2 => res[c][READ] = StatSize[f]
            /\ done[c] >= 3 => res[c][PROBE] = 0
            /\ reaped[c] >= 2 => bytesRead[s] = StatSize[f]
            /\ errno[f] = NoError
    BY <1>c, <1>f DEF GoodChain
  <1>5. bytesRead \in [Slots -> Nat] /\ bytesRead[s] \in Nat /\ errno \in [Files -> Nat]
    BY <1>0 DEF TypeInv, TypeOK, WorkerType, ItemsType
  <1>6. res[c][OPENAT] \in {0, -ENOENT}
    BY <1>1, <1>3
  <1> SUFFICES /\ errno'[f] # ECANCELED
               /\ res[c][OPENAT] < 0 => errno'[f] = -res[c][OPENAT]
               /\ Reliable /\ f \notin touched => /\ op >= 2 => bytesRead'[s] = StatSize[f]
                                                  /\ errno'[f] = NoError
    BY <1>0, <1>1, <1>2, <1>3, <1>4, <1>f DEF RootCause, GoodChain
  <1>7. CASE op = OPENAT
    <2>1. HandleOpen(f, s, r) /\ r = res[c][OPENAT]
      BY <1>2, <1>7, <1>r DEF HandleCqe, OPENAT, READ, PROBE, CLOSE
    <2>2. CASE r = 0
      <3>1. errno' = errno
        BY <2>1, <2>2 DEF HandleOpen
      <3> QED BY <1>3, <1>4, <1>7, <2>1, <2>2, <3>1 DEF OPENAT
    <2>3. CASE r = -ENOENT
      <3>1. r < 0 /\ r # 0 /\ -r # ECANCELED
        BY <2>3 DEF ENOENT, ECANCELED
      <3>2. Reject(f, -r)
        BY <2>1, <3>1 DEF HandleOpen
      <3>3. errno'[f] = -r
        BY <1>5, <1>f, <3>2 DEF Reject
      <3> QED BY <1>1, <1>4, <1>7, <2>1, <3>1, <3>3 DEF OPENAT
    <2> QED BY <1>6, <2>1, <2>2, <2>3
  <1>8. CASE op = READ
    <2>1. HandleRead(f, s, r) /\ r = res[c][READ] /\ reaped[c] > 0 /\ done[c] >= 2
      BY <1>1, <1>2, <1>8, <1>op, <1>r DEF HandleCqe, OPENAT, READ, PROBE, CLOSE
    <2>2. errno'[f] # ECANCELED
      <3>1. OrEIO(r) # ECANCELED /\ EIO # ECANCELED
        BY <1>1 DEF OrEIO, EIO, ECANCELED
      <3> QED BY <1>3, <1>5, <1>f, <2>1, <3>1 DEF HandleRead, Reject
    <2>3. res[c][OPENAT] < 0 => errno'[f] = -res[c][OPENAT]
      <3> SUFFICES ASSUME res[c][OPENAT] < 0 PROVE errno'[f] = -res[c][OPENAT]
        OBVIOUS
      <3>1. r < 0 /\ errno[f] = -res[c][OPENAT] /\ errno[f] # NoError
        BY <1>3, <1>6, <2>1 DEF NoError, ENOENT
      <3>2. errno' = errno
        BY <1>1, <2>1, <3>1 DEF HandleRead
      <3> QED BY <3>1, <3>2
    <2>4. Reliable /\ f \notin touched => bytesRead'[s] = StatSize[f] /\ errno'[f] = NoError
      <3> SUFFICES ASSUME Reliable, f \notin touched PROVE bytesRead'[s] = StatSize[f] /\ errno'[f] = NoError
        OBVIOUS
      <3>1. r = StatSize[f] /\ r >= 0 /\ ~ (r < 0)
        BY <1>4, <1>f, <2>1
      <3>2. bytesRead' = [bytesRead EXCEPT ![s] = r] /\ errno' = errno
        BY <2>1, <3>1 DEF HandleRead
      <3> QED BY <1>0, <1>4, <1>5, <3>1, <3>2
    <2> QED BY <2>2, <2>3, <2>4
  <1>9. CASE op = PROBE
    <2>1. HandleProbe(f, s, r) /\ r = res[c][PROBE] /\ reaped[c] >= 2 /\ reaped[c] > 0 /\ done[c] >= 3
      BY <1>1, <1>2, <1>9, <1>op, <1>r DEF HandleCqe, OPENAT, READ, PROBE, CLOSE
    <2>2. errno'[f] # ECANCELED
      <3>1. OrEIO(r) # ECANCELED /\ EIO # ECANCELED /\ NoError # ECANCELED
        BY <1>1 DEF OrEIO, EIO, ECANCELED, NoError
      <3> QED BY <1>3, <1>5, <1>f, <2>1, <3>1 DEF HandleProbe, Consume, Reject, items
    <2>3. res[c][OPENAT] < 0 => errno'[f] = -res[c][OPENAT]
      <3> SUFFICES ASSUME res[c][OPENAT] < 0 PROVE errno'[f] = -res[c][OPENAT]
        OBVIOUS
      <3>1. errno[f] = -res[c][OPENAT] /\ errno[f] # NoError
        BY <1>3, <1>6, <2>1 DEF NoError, ENOENT
      <3>2. errno' = errno
        BY <2>1, <3>1 DEF HandleProbe, items
      <3> QED BY <3>1, <3>2
    <2>4. Reliable /\ f \notin touched => bytesRead'[s] = StatSize[f] /\ errno'[f] = NoError
      <3> SUFFICES ASSUME Reliable, f \notin touched PROVE bytesRead'[s] = StatSize[f] /\ errno'[f] = NoError
        OBVIOUS
      <3>1. r = 0 /\ bytesRead[s] > 0 /\ bytesRead[s] # 0 /\ errno[f] = NoError /\ bytesRead[s] = StatSize[f]
        BY <1>4, <1>f, <2>1
      <3>2. Consume(f, s) /\ bytesRead' = bytesRead
        BY <2>1, <3>1 DEF HandleProbe
      <3>3. errno' = [errno EXCEPT ![f] = NoError]
        BY <3>2 DEF Consume, Reliable
      <3> QED BY <1>5, <1>f, <3>1, <3>2, <3>3
    <2> QED BY <2>2, <2>3, <2>4
  <1>10. CASE op = CLOSE
    <2>1. errno' = errno /\ bytesRead' = bytesRead
      BY <1>2, <1>10 DEF HandleCqe, OPENAT, READ, PROBE, CLOSE, items
    <2>2. reaped[c] >= 2 /\ reaped[c] > 0
      BY <1>1, <1>10, <1>op DEF CLOSE
    <2> QED BY <1>3, <1>4, <2>1, <2>2
  <1> QED BY <1>1, <1>7, <1>8, <1>9, <1>10 DEF OPENAT, READ, PROBE, CLOSE

LEMMA OutcomeReap == ASSUME TypeInv, CleanInv, OutcomeInv, NEW c \in Chains, Reap(c) PROVE OutcomeInv'
  <1>1. /\ ItemCount' = ItemCount /\ pc = "wait" /\ chState[c] = "flying"
        /\ UNCHANGED <<pc, batch, offset, slotItem, submitted, res, done, touched>>
    BY DEF Reap, ItemCount, fs
  <1>2. c[2] \in 1..submitted /\ c[2] \in Slots /\ c = Mine(c[2]) /\ slotItem[c[2]] \in Files
    <2>1. reaped[c] < done[c] /\ reaped[c] \in 0..4 /\ done[c] \in 0..4
      BY DEF Reap, TypeInv, TypeOK, KernelType
    <2>2. reaped[c] # 4
      BY <2>1
    <2> QED BY <1>1, <2>2, OwnChain
  <1>3. PICK i \in 1..ItemCount : slotItem[c[2]] = Item(i)
    BY <1>2, SlotFacts, NoFileAssumption
  <1>4. Reliable /\ slotItem[c[2]] \notin touched => errno[slotItem[c[2]]] = NoError
    BY <1>1, <1>3 DEF OutcomeInv, GoodItem
  <1>5. /\ RootCause(c[2])' /\ GoodChain(c[2])'
        /\ Reliable /\ slotItem[c[2]] \notin touched => errno'[slotItem[c[2]]] = NoError
    <2>1. RootCause(c[2]) /\ GoodChain(c[2]) /\ Reap(Mine(c[2]))
      BY <1>2 DEF OutcomeInv
    <2> QED BY <1>2, <1>4, <2>1, OutcomeReapSlot
  <1>6. ASSUME NEW s \in 1..submitted PROVE RootCause(s)' /\ GoodChain(s)'
    <2>1. CASE s = c[2]
      BY <1>5, <2>1
    <2>2. CASE s # c[2]
      <3>0. RootCause(s) /\ GoodChain(s)
        BY DEF OutcomeInv
      <3>1. Mine(s) # c /\ Mine(s) \in Chains /\ s \in Slots /\ slotItem[s] \in Files
        BY <1>2, <2>2, UsedSlots DEF Mine
      <3>2. slotItem[s] # slotItem[c[2]]
        BY <1>2, <2>2 DEF TypeInv, SlotsAssigned
      <3>3. errno'[slotItem[s]] = errno[slotItem[s]] /\ bytesRead'[s] = bytesRead[s]
        BY <2>2, <3>1, <3>2, ReapFacts
      <3>4. reaped'[Mine(s)] = reaped[Mine(s)] /\ Mine(s)' = Mine(s)
        BY <1>1, <3>1 DEF Reap, Mine, TypeInv, TypeOK, KernelType
      <3> QED BY <1>1, <3>0, <3>3, <3>4 DEF RootCause, GoodChain
    <2> QED BY <2>1, <2>2
  <1>7. ASSUME NEW j \in 1..ItemCount PROVE GoodItem(j)'
    <2>1. Item(j) \in Files /\ Item(j)' = Item(j)
      BY <1>1, <1>7, ItemFacts DEF TypeInv, Item
    <2>2. Reliable /\ Item(j) \notin touched => errno[Item(j)] = NoError
      BY <1>1, <1>7 DEF OutcomeInv, GoodItem
    <2>3. Reliable /\ Item(j) \notin touched => errno'[Item(j)] = NoError
      <3>1. CASE Item(j) = slotItem[c[2]]
        BY <1>5, <3>1
      <3>2. CASE Item(j) # slotItem[c[2]]
        <4>1. errno'[Item(j)] = errno[Item(j)]
          BY <2>1, <3>2, ReapFacts
        <4> QED BY <2>2, <4>1
      <3> QED BY <3>1, <3>2
    <2> QED BY <1>1, <2>1, <2>3 DEF GoodItem
  <1> QED BY <1>1, <1>6, <1>7 DEF OutcomeInv

LEMMA OutcomeNext ==
    ASSUME IndInv, UntouchedAsListed, clean => OutcomeInv, [Next]_vars PROVE clean' => OutcomeInv'
  <1>0. TypeInv /\ FutureItems /\ (clean => CleanInv)
    BY DEF IndInv, TypeInv
  <1>1. CASE NextBatch
    BY <1>0, <1>1, OutcomeNextBatch
  <1>2. CASE LeaveStep
    <2>1. clean' = clean
      BY <1>2, LeaveFacts
    <2> QED BY <1>0, <1>2, <2>1, OutcomeLeave
  <1>3. CASE SkipItem \/ PrepareItem \/ Submit
    BY <1>0, <1>3, OutcomeSkip, OutcomePrepare, OutcomeSubmit DEF SkipItem, PrepareItem, Submit
  <1>4. CASE \E c \in Chains : Reap(c)
    <2>1. PICK c \in Chains : Reap(c)
      BY <1>4
    <2>2. clean' = clean
      BY <2>1 DEF Reap
    <2> QED BY <1>0, <2>1, <2>2, OutcomeReap
  <1>5. CASE FallbackItem \/ LastBatch
    BY <1>0, <1>5, OutcomeFallback, OutcomeLastBatch DEF FallbackItem, LastBatch
  <1>6. CASE \E c \in Chains : KernelStep(c)
    BY <1>0, <1>6, OutcomeKernel DEF KernelStep, worker
  <1>7. CASE \E f \in Files : Grow(f) \/ Shrink(f) \/ Vanish(f)
    BY <1>0, <1>7, OutcomeFs DEF Grow, Shrink, Vanish, Touch, worker
  <1>8. CASE UNCHANGED vars
    BY <1>8, OutcomeStutter DEF vars, worker
  <1> QED BY <1>1, <1>2, <1>3, <1>4, <1>5, <1>6, <1>7, <1>8 DEF Next, Worker, Failure, LeaveStep, Finished

LEMMA FullInit == Init => FullInv
  <1> SUFFICES ASSUME Init PROVE FullInv
    OBVIOUS
  <1>1. UntouchedAsListed
    BY DEF Init, UntouchedAsListed
  <1> QED BY <1>1, IndInit, OutcomeInit DEF FullInv

LEMMA FullNext == FullInv /\ [Next]_vars => FullInv'
  <1> SUFFICES ASSUME FullInv, [Next]_vars PROVE FullInv'
    OBVIOUS
  <1>1. IndInv /\ UntouchedAsListed /\ (clean => OutcomeInv) /\ TypeInv
    BY DEF FullInv, IndInv, TypeInv
  <1>2. IndInv' /\ UntouchedAsListed'
    BY <1>1, IndNext, ListedNext
  <1>3. clean' => OutcomeInv'
    BY <1>1, OutcomeNext
  <1> QED BY <1>2, <1>3 DEF FullInv

(* handle_cqe reports a file that could not be opened with open's errno:    *)
(* the completions linked behind it, cancelled by the kernel, never         *)
(* overwrite it and ECANCELED is never stored, in whatever order the slots  *)
(* complete.                                                                *)
THEOREM ErrnoIsFirstFailure == Spec => []ErrnoIsRootCause
  <1>1. ASSUME FullInv PROVE ErrnoIsRootCause
    <2> SUFFICES ASSUME clean, pc = "wait", NEW s \in 1..submitted
                 PROVE  /\ errno[slotItem[s]] # ECANCELED
                        /\ reaped[<<batch, s>>] > 0 /\ res[<<batch, s>>][OPENAT] < 0 =>
                               errno[slotItem[s]] = -res[<<batch, s>>][OPENAT]
      BY DEF ErrnoIsRootCause
    <2>1. RootCause(s)
      BY <1>1 DEF FullInv, OutcomeInv
    <2> QED BY <2>1 DEF RootCause, Mine
  <1> QED BY <1>1, FullInit, FullNext, PTL DEF Spec

(* consume_batch gives up on no good file: when neither the device nor the  *)
(* digest fails, every file of a batch begun on an idle ring that no other  *)
(* process changed is accepted by the end of the batch, although the queue  *)
(* filled up, io_uring_submit or io_uring_wait_cqe failed, or the close of  *)
(* its chain was cancelled.                                                 *)
THEOREM GoodFilesAccepted == Spec => []UntouchedFileAccepted
  <1>1. ASSUME FullInv PROVE UntouchedFileAccepted
    <2> SUFFICES ASSUME clean, Reliable, pc = "fallback", offset = ItemCount,
                        NEW i \in 1..ItemCount, Item(i) \notin touched
                 PROVE  success[Item(i)]
      BY DEF UntouchedFileAccepted, Reliable
    <2>1. GoodItem(i)
      BY <1>1 DEF FullInv, OutcomeInv
    <2>2. ~ (i > offset)
      BY <1>1, ItemFacts DEF FullInv, IndInv
    <2> QED BY <2>1, <2>2 DEF GoodItem
  <1> QED BY <1>1, FullInit, FullNext, PTL DEF Spec

=============================================================================
