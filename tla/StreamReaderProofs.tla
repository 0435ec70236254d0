------------------------- MODULE StreamReaderProofs -------------------------
(***************************************************************************)
(* Proofs about StreamReader: it keeps its types, and its loop of reads     *)
(* implements the single read of AtomicRead, for every buffer size, every   *)
(* length of file and every combination of faults.                          *)
(***************************************************************************)
EXTENDS StreamReader, SequenceTheorems, TLAPS

(* What the loop knows between two reads: until the file is rewritten under *)
(* it, what it has fed is a prefix of what the file holds.                  *)
PrefixFed ==
    /\ pc \in {"open", "reopen"} => fed = <<>>
    /\ pc = "read" /\ ~ torn => IsPrefix(fed, file)

StreamInv == TypeOK /\ PrefixFed

-----------------------------------------------------------------------------
(* The states of a file are the sequences of bounded length *)

(* FileStates, as sequences. *)
LEMMA FileStateIsSequence ==
    ASSUME NEW f \in FileStates
    PROVE  f \in Seq(Bytes) /\ Len(f) \in Nat /\ Len(f) <= MaxLength
<1>0. MaxLength \in Nat
  BY BoundsAssumption
<1>1. PICK k \in 0 .. MaxLength : f \in [1 .. k -> Bytes]
  BY DEF FileStates, Lengths
<1>2. f \in Seq(Bytes) /\ Len(f) = k
  BY <1>1, <1>0
<1> QED BY <1>1, <1>2, <1>0

LEMMA SequenceIsFileState ==
    ASSUME NEW f \in Seq(Bytes), Len(f) <= MaxLength
    PROVE  f \in FileStates
<1>1. Len(f) \in 0 .. MaxLength /\ f \in [1 .. Len(f) -> Bytes]
  BY BoundsAssumption, LenProperties
<1> QED BY <1>1 DEF FileStates, Lengths

(* A read at the end of what was fed appends what the file holds there: the *)
(* offset stays within the file, and a prefix of the file stays one.        *)
LEMMA ReadExtends ==
    ASSUME NEW f \in Seq(Bytes), NEW g \in Seq(Bytes), NEW k \in Nat, Len(g) + k <= Len(f)
    PROVE  /\ SubSeq(f, Len(g) + 1, Len(g) + k) \in Seq(Bytes)
           /\ g \o SubSeq(f, Len(g) + 1, Len(g) + k) \in Seq(Bytes)
           /\ Len(g \o SubSeq(f, Len(g) + 1, Len(g) + k)) = Len(g) + k
           /\ IsPrefix(g, f) => g \o SubSeq(f, Len(g) + 1, Len(g) + k) = SubSeq(f, 1, Len(g) + k)
<1> DEFINE block == SubSeq(f, Len(g) + 1, Len(g) + k)
<1>1. block \in Seq(Bytes) /\ Len(block) = k
  <2>1. CASE k = 0
    <3>1. block = <<>>
      BY <2>1, SubSeqEmpty
    <3> QED BY <3>1, <2>1
  <2>2. CASE k > 0
    <3>1. Len(g) + 1 \in 1 .. Len(f) /\ Len(g) + k \in Len(g) + 1 - 1 .. Len(f)
      BY <2>2, LenProperties
    <3> QED BY <3>1, <2>2, SubSeqProperties
  <2> QED BY <2>1, <2>2
<1>2. g \o block \in Seq(Bytes) /\ Len(g \o block) = Len(g) + k
  BY <1>1, ConcatProperties
<1>3. ASSUME IsPrefix(g, f) PROVE g \o block = SubSeq(f, 1, Len(g) + k)
  <2>1. g = SubSeq(f, 1, Len(g))
    BY <1>3, SubSeqFull DEF IsPrefix
  <2>2. SubSeq(f, 1, Len(g)) \o SubSeq(f, Len(g) + 1, Len(g) + k) = SubSeq(f, 1, Len(g) + k)
    <3>1. Len(f) \in Nat /\ Len(g) \in Nat
      BY LenProperties
    <3>2. 1 \in 1 .. Len(f) + 1 /\ Len(g) \in 1 - 1 .. Len(f) /\ Len(g) + k \in Len(g) .. Len(f)
      BY <3>1
    <3> QED BY <3>2, ConcatAdjacentSubSeq
  <2> QED BY <2>1, <2>2
<1> QED BY <1>1, <1>2, <1>3

-----------------------------------------------------------------------------
(* The invariant *)

(* Every read leaves the offset inside what a file can hold. *)
LEMMA FedStaysBounded ==
    ASSUME TypeOK, NEW k \in Nat, k <= Left
    PROVE  /\ fed \o Got(k) \in FileStates
           /\ fed \o Got(k) \in Seq(Bytes)
           /\ (IsPrefix(fed, file) => fed \o Got(k) = SubSeq(file, 1, Len(fed) + k))
           /\ Len(fed) \in Nat /\ Len(file) \in Nat
           /\ (k = 0 \/ Len(fed) + k <= Len(file))
<1>1. file \in Seq(Bytes) /\ fed \in Seq(Bytes) /\ Len(file) <= MaxLength /\ Len(fed) <= MaxLength
  BY FileStateIsSequence DEF TypeOK
<1>2. Len(file) \in Nat /\ Len(fed) \in Nat /\ MaxLength \in Nat
  BY <1>1, LenProperties, BoundsAssumption
<1>3. CASE Len(fed) + k <= Len(file)
  <2>1. /\ fed \o Got(k) \in Seq(Bytes)
        /\ Len(fed \o Got(k)) = Len(fed) + k
        /\ IsPrefix(fed, file) => fed \o Got(k) = SubSeq(file, 1, Len(fed) + k)
    BY <1>1, <1>3, ReadExtends DEF Got
  <2>2. Len(fed \o Got(k)) <= MaxLength
    BY <2>1, <1>1, <1>2, <1>3
  <2>3. fed \o Got(k) \in FileStates
    BY <2>1, <2>2, SequenceIsFileState
  <2> QED BY <2>1, <2>3, <1>2, <1>3
<1>4. CASE ~ (Len(fed) + k <= Len(file))
  <2>1. k = 0 /\ Len(fed) > Len(file)
    BY <1>2, <1>4 DEF Left
  <2>2. Got(k) = <<>>
    BY <2>1, <1>2, SubSeqEmpty DEF Got
  <2>3. fed \o Got(k) = fed
    BY <2>2, <1>1, ConcatEmptySeq
  <2>4. ~ IsPrefix(fed, file)
    BY <2>1, <1>2 DEF IsPrefix
  <2> QED BY <2>1, <2>3, <2>4, <1>1, <1>2 DEF TypeOK
<1> QED BY <1>3, <1>4

LEMMA InitInv == Init => StreamInv
<1> SUFFICES ASSUME Init PROVE StreamInv
  OBVIOUS
<1>1. <<>> \in FileStates
  <2>1. <<>> \in Seq(Bytes) /\ Len(<<>>) <= MaxLength
    BY EmptySeq, BoundsAssumption
  <2> QED BY <2>1, SequenceIsFileState
<1>2. TypeOK
  <2>1. changes \in 0 .. MaxChanges /\ interrupts \in 0 .. MaxInterrupts
    BY BoundsAssumption DEF Init
  <2> QED BY <1>1, <2>1 DEF Init, TypeOK
<1>3. PrefixFed
  BY DEF Init, PrefixFed
<1> QED BY <1>2, <1>3 DEF StreamInv

LEMMA NextInv == StreamInv /\ [Next]_vars => StreamInv'
<1> SUFFICES ASSUME StreamInv, [Next]_vars PROVE StreamInv'
  OBVIOUS
<1> USE DEF StreamInv
<1>0. /\ file \in Seq(Bytes) /\ fed \in Seq(Bytes) /\ Len(file) \in Nat /\ Len(fed) \in Nat
      /\ BufferSize \in Nat \ {0} /\ MaxChanges \in Nat /\ MaxInterrupts \in Nat
  BY FileStateIsSequence, LenProperties, BufferAssumption, BoundsAssumption DEF TypeOK
<1>1. CASE Change
  <2>1. TypeOK'
    BY <1>1, <1>0 DEF Change, TypeOK
  <2>2. PrefixFed'
    BY <1>1 DEF Change, PrefixFed, TypeOK
  <2> QED BY <2>1, <2>2
<1>2. CASE Open
  <2>1. TypeOK'
    BY <1>2 DEF Open, TypeOK
  <2>2. IsPrefix(fed, file) /\ fed' = fed /\ file' = file
    <3>1. fed = <<>> /\ Len(fed) = 0
      BY <1>2, EmptySeq DEF Open, PrefixFed
    <3>2. SubSeq(fed, 1, Len(fed)) = <<>> /\ SubSeq(file, 1, Len(fed)) = <<>>
      BY <3>1, SubSeqEmpty
    <3> QED BY <3>1, <3>2, <1>0, <1>2 DEF Open, IsPrefix
  <2>3. PrefixFed'
    BY <1>2, <2>2 DEF Open, PrefixFed
  <2> QED BY <2>1, <2>3
<1>3. CASE OpenRefused
  BY <1>3 DEF OpenRefused, TypeOK, PrefixFed
<1>4. CASE OpenFails
  BY <1>4 DEF OpenFails, Abandon, TypeOK, PrefixFed
<1>5. CASE Interrupted
  <2>1. TypeOK'
    BY <1>5, <1>0 DEF Interrupted, TypeOK
  <2>2. PrefixFed'
    BY <1>5 DEF Interrupted, PrefixFed
  <2> QED BY <2>1, <2>2
<1>6. CASE ReadFails
  BY <1>6 DEF ReadFails, Abandon, TypeOK, PrefixFed
<1>7. CASE ReadFull
  <2>1. fed' = fed \o Got(BufferSize) /\ BufferSize <= Left /\ file' = file /\ pc = "read" /\ pc' = "read" /\ torn' = torn
    BY <1>7, <1>0 DEF ReadFull, Left
  <2>2. fed' \in FileStates /\ Len(fed) + BufferSize <= Len(file)
    BY <2>1, <1>0, FedStaysBounded
  <2>3. TypeOK'
    BY <1>7, <2>2 DEF ReadFull, TypeOK
  <2>4. ASSUME ~ torn PROVE IsPrefix(fed', file')
    <3>1. fed' = SubSeq(file, 1, Len(fed) + BufferSize)
      BY <2>1, <2>4, <1>0, FedStaysBounded DEF PrefixFed
    <3>2. fed' \in Seq(Bytes) /\ Len(fed') = Len(fed) + BufferSize
      BY <2>1, <2>2, <1>0, ReadExtends DEF Got
    <3>3. SubSeq(fed', 1, Len(fed')) = fed'
      BY <3>2, SubSeqFull
    <3> QED BY <3>1, <3>2, <3>3, <2>1, <2>2 DEF IsPrefix
  <2>5. PrefixFed'
    BY <2>1, <2>4 DEF PrefixFed
  <2> QED BY <2>3, <2>5
<1>8. CASE ReadLast
  <2>1. Left \in Nat /\ Left <= Left
    BY <1>0 DEF Left
  <2>2. fed' \in FileStates
    BY <1>8, <2>1, FedStaysBounded DEF ReadLast
  <2> QED BY <1>8, <2>2 DEF ReadLast, TypeOK, PrefixFed
<1>9. CASE ReadEnd
  BY <1>9 DEF ReadEnd, TypeOK, PrefixFed
<1>10. CASE ReadShort
  <2>1. PICK k \in 1 .. BufferSize - 1 : k < Left /\ fed' = fed \o Got(k)
    BY <1>10 DEF ReadShort
  <2>2. k \in Nat /\ k <= Left
    BY <2>1, <1>0 DEF Left
  <2>3. fed' \in FileStates
    BY <2>1, <2>2, FedStaysBounded
  <2> QED BY <1>10, <2>3 DEF ReadShort, TypeOK, PrefixFed
<1>11. CASE ConsumerFails
  BY <1>11 DEF ConsumerFails, Abandon, TypeOK, PrefixFed
<1>12. CASE Ended \/ UNCHANGED vars
  BY <1>12 DEF Ended, vars, TypeOK, PrefixFed
<1> QED BY <1>1, <1>2, <1>3, <1>4, <1>5, <1>6, <1>7, <1>8, <1>9, <1>10, <1>11, <1>12 DEF Next, Reader

(* The reader keeps its types for every size of buffer and file: the offset  *)
(* never passes what a file can hold, and an errno is set exactly when the   *)
(* function returns false.                                                   *)
THEOREM TypeCorrect == Spec => []TypeOK
<1>1. Spec => []StreamInv
  BY InitInv, NextInv, PTL DEF Spec
<1>2. StreamInv => TypeOK
  BY DEF StreamInv
<1> QED BY <1>1, <1>2, PTL

-----------------------------------------------------------------------------
(* The refinement *)

LEMMA InitRefines == Init => Abstract!Init
<1> SUFFICES ASSUME Init PROVE Abstract!Init
  OBVIOUS
<1>1. file \in Seq(Bytes)
  BY FileStateIsSequence DEF Init
<1> QED BY <1>1 DEF Init, Abstract!Init

(* When the loop ends well, what it has fed is the file, or the file was torn. *)
LEMMA EndRefines ==
    ASSUME StreamInv, pc = "read", pc' = "done", UNCHANGED file,
           fed' \in Seq(Bytes), torn' \in {torn, TRUE}, torn' \/ fed' = file
    PROVE  Abstract!ReadAll
BY DEF Abstract!ReadAll

LEMMA NextRefines == StreamInv /\ [Next]_vars => [Abstract!Next]_(Abstract!vars)
<1> SUFFICES ASSUME StreamInv, [Next]_vars PROVE [Abstract!Next]_(Abstract!vars)
  OBVIOUS
<1> USE DEF StreamInv
<1>0. /\ file \in Seq(Bytes) /\ fed \in Seq(Bytes) /\ Len(file) \in Nat /\ Len(fed) \in Nat
      /\ BufferSize \in Nat \ {0}
  BY FileStateIsSequence, BufferAssumption DEF TypeOK
<1>1. CASE Change
  <2>1. file' \in Seq(Bytes)
    BY <1>1, FileStateIsSequence DEF Change
  <2>2. torn' \in {torn, TRUE} /\ pc' = pc /\ fed' = fed
    BY <1>1 DEF Change, TypeOK
  <2>3. Abstract!Change
    BY <2>1, <2>2 DEF Abstract!Change
  <2> QED BY <2>3 DEF Abstract!Next
<1>2. CASE Open \/ OpenRefused \/ Interrupted \/ ReadFull
  BY <1>2 DEF Open, OpenRefused, Interrupted, ReadFull, Abstract!vars
<1>3. CASE OpenFails \/ ReadFails \/ ConsumerFails
  <2>1. Abstract!Fail
    BY <1>3 DEF OpenFails, ReadFails, ConsumerFails, Abandon, Abstract!Fail
  <2> QED BY <2>1 DEF Abstract!Next
<1>4. CASE ReadLast
  <2>1. Left \in Nat /\ Left <= Left /\ Left # 0 /\ Len(fed) + Left = Len(file)
    BY <1>4, <1>0 DEF ReadLast, Left
  <2>2. fed' \in Seq(Bytes)
    BY <1>4, <2>1, FedStaysBounded DEF ReadLast
  <2>3. ASSUME ~ torn PROVE fed' = file
    <3>1. fed' = SubSeq(file, 1, Len(file))
      BY <1>4, <2>1, <2>3, FedStaysBounded DEF ReadLast, PrefixFed
    <3> QED BY <3>1, <1>0, SubSeqFull
  <2>4. Abstract!ReadAll
    BY <1>4, <2>2, <2>3, EndRefines DEF ReadLast, TypeOK
  <2> QED BY <2>4 DEF Abstract!Next
<1>5. CASE ReadEnd
  <2>1. Len(file) <= Len(fed)
    BY <1>5, <1>0 DEF ReadEnd, Left
  <2>2. ASSUME ~ torn PROVE fed = file
    <3>1. Len(fed) = Len(file) /\ SubSeq(fed, 1, Len(fed)) = SubSeq(file, 1, Len(fed))
      BY <1>5, <2>1, <2>2, <1>0 DEF ReadEnd, PrefixFed, IsPrefix
    <3> QED BY <3>1, <1>0, SubSeqFull
  <2>3. Abstract!ReadAll
    BY <1>5, <1>0, <2>2, EndRefines DEF ReadEnd, TypeOK
  <2> QED BY <2>3 DEF Abstract!Next
<1>6. CASE ReadShort
  <2>1. PICK k \in 1 .. BufferSize - 1 : k < Left /\ fed' = fed \o Got(k)
    BY <1>6 DEF ReadShort
  <2>2. k \in Nat /\ k <= Left
    BY <2>1, <1>0 DEF Left
  <2>3. fed' \in Seq(Bytes)
    BY <2>1, <2>2, FedStaysBounded
  <2>4. Abstract!ReadAll
    BY <1>6, <2>3, EndRefines DEF ReadShort
  <2> QED BY <2>4 DEF Abstract!Next
<1>7. CASE Ended \/ UNCHANGED vars
  BY <1>7 DEF Ended, vars, Abstract!vars
<1> QED BY <1>1, <1>2, <1>3, <1>4, <1>5, <1>6, <1>7 DEF Next, Reader

(* The loop of reads implements the atomic read, for every size of buffer    *)
(* and file and every interleaving with other processes: what the digest     *)
(* was fed when the function returns true is the whole file at that          *)
(* instant, or the file was rewritten under the reader, or a read was short. *)
THEOREM ReadIsAtomic == Spec => ReadsWholeFile
<1>1. Spec => []StreamInv
  BY InitInv, NextInv, PTL DEF Spec
<1> QED BY <1>1, InitRefines, NextRefines, PTL DEF Spec, ReadsWholeFile, Abstract!Spec
=============================================================================
