--------------------------- MODULE PipelineProofs ---------------------------
(***************************************************************************)
(* Proofs about Pipeline, for any entries, any contents, any number of      *)
(* workers and any batch size, whatever fails and whenever a signal comes.  *)
(***************************************************************************)
EXTENDS Pipeline, FiniteLemmas, TLAPS

(* Splitting a list of groups by a key leaves subsets of the groups, whose  *)
(* members agree on the key.                                                *)
LEMMA SplitFacts ==
    ASSUME NEW U, NEW G \in SUBSET SUBSET U, NEW key
    PROVE  Split(G, key) \subseteq SUBSET U /\ \A g \in Split(G, key) : \A x, y \in g : key[x] = key[y]
  BY DEF Split, Classes

LEMMA ClassesFacts ==
    ASSUME NEW U, NEW S \in SUBSET U, NEW key
    PROVE  Classes(S, key) \subseteq SUBSET U
  BY DEF Classes

-----------------------------------------------------------------------------
(* Type correctness *)

LEMMA TypeInit == Init => TypeOK
  <1> SUFFICES ASSUME Init PROVE TypeOK
    OBVIOUS
  <1> QED BY DEF Init, TypeOK

(* Every content is a member of Contents, so hashing keeps the types. *)
LEMMA ContentFacts ==
    ASSUME TypeOK, NEW e \in Entries
    PROVE  Content(e) \in Contents /\ FastOf[Content(e)] \in Nat /\ PrefixOf[Content(e)] \in Nat
  <1>1. Content(e) \in Contents
    BY DEF TypeOK, Content
  <1> QED BY <1>1, ContentAssumption

(* Steps that leave the groups and the hashes alone. *)
LEMMA TypeQuiet ==
    ASSUME TypeOK, Discover \/ Interrupted \/ NothingFound \/ StartFullPass \/ GiveUp \/ Signal \/ Output
    PROVE  TypeOK'
  <1>1. CASE Discover
    BY <1>1 DEF Discover, hashes, TypeOK
  <1>2. CASE Interrupted \/ NothingFound
    BY <1>2 DEF Interrupted, NothingFound, Exit, hashes, TypeOK
  <1>3. CASE StartFullPass
    BY <1>3 DEF StartFullPass, hashes, TypeOK
  <1>4. CASE GiveUp \/ Signal
    BY <1>4 DEF GiveUp, Signal, Exit, hashes, TypeOK
  <1>5. CASE Output
    BY <1>5 DEF Output, Exit, hashes, TypeOK
  <1> QED BY <1>1, <1>2, <1>3, <1>4, <1>5

LEMMA TypeGroupSizes == ASSUME TypeOK, GroupSizes PROVE TypeOK'
  <1>1. kept' \subseteq found
    BY DEF GroupSizes, KeptChoices
  <1>2. sizeGroups' \subseteq SUBSET Entries
    BY <1>1, ClassesFacts DEF GroupSizes, TypeOK
  <1> QED BY <1>1, <1>2 DEF GroupSizes, Exit, hashes, TypeOK

LEMMA TypeFast == ASSUME TypeOK, NEW e \in Entries, FastSkip(e) \/ FastHash(e) PROVE TypeOK'
  <1>1. CASE FastSkip(e)
    BY <1>1 DEF FastSkip, hashes, TypeOK
  <1>2. CASE FastHash(e)
    <2>1. \E h \in Nat : fastHash' = [fastHash EXCEPT ![e] = h]
      BY <1>2, ContentFacts DEF FastHash
    <2>2. fastHash' \in [Entries -> Nat]
      BY <2>1 DEF TypeOK
    <2>3. fastErrno' \in [Entries -> BOOLEAN]
      <3>1. fastErrno' = fastErrno \/ fastErrno' = [fastErrno EXCEPT ![e] = TRUE]
        BY <1>2 DEF FastHash
      <3>2. fastErrno \in [Entries -> BOOLEAN]
        BY DEF TypeOK
      <3> QED BY <3>1, <3>2
    <2> QED BY <1>2, <2>2, <2>3 DEF FastHash, TypeOK
  <1> QED BY <1>1, <1>2

LEMMA TypeEndPass == ASSUME TypeOK, EndFastPass \/ EndFullPass PROVE TypeOK'
  <1>1. CASE EndFastPass
    <2>1. fastGroups' \subseteq SUBSET Entries
      BY <1>1, SplitFacts DEF EndFastPass, TypeOK
    <2> QED BY <1>1, <2>1 DEF EndFastPass, hashes, TypeOK
  <1>2. CASE EndFullPass
    <2>1. finalGroups' \subseteq SUBSET Entries
      BY <1>2, SplitFacts DEF EndFullPass, TypeOK
    <2> QED BY <1>2, <2>1 DEF EndFullPass, hashes, TypeOK
  <1> QED BY <1>1, <1>2

LEMMA TypeFull ==
    ASSUME TypeOK, NEW b, FullSkip(b) \/ \E w \in Workers : NoSlot(w, b) \/ FullBatch(w, b)
    PROVE  TypeOK'
  <1>1. CASE FullSkip(b)
    BY <1>1 DEF FullSkip, hashes, TypeOK
  <1>2. ASSUME NEW w \in Workers, NoSlot(w, b) PROVE TypeOK'
    BY <1>2 DEF NoSlot, hashes, TypeOK
  <1>3. ASSUME NEW w \in Workers, FullBatch(w, b) PROVE TypeOK'
    <2>1. PICK unread :
             /\ fullHash' = [e \in Entries |-> IF e \in b.members \ unread THEN Content(e) ELSE fullHash[e]]
             /\ fullErrno' = [e \in Entries |-> IF e \in b.members THEN e \in unread ELSE fullErrno[e]]
      BY <1>3 DEF FullBatch, Digest
    <2>2. fullHash' \in [Entries -> Contents \cup {NoDigest}]
      BY <2>1, ContentFacts DEF TypeOK
    <2>3. fullErrno' \in [Entries -> BOOLEAN]
      <3>1. \A e \in Entries : fullErrno[e] \in BOOLEAN
        BY DEF TypeOK
      <3> DEFINE v(e) == IF e \in b.members THEN e \in unread ELSE fullErrno[e]
      <3>2. ASSUME NEW e \in Entries PROVE v(e) \in BOOLEAN
        <4>1. CASE e \in b.members
          <5>1. v(e) = (e \in unread)
            BY <4>1
          <5>2. (e \in unread) \in BOOLEAN
            OBVIOUS
          <5> QED BY <5>1, <5>2
        <4>2. CASE e \notin b.members
          BY <3>1, <4>2
        <4> QED BY <4>1, <4>2
      <3>3. fullErrno' = [e \in Entries |-> v(e)]
        BY <2>1
      <3> HIDE DEF v
      <3> QED BY <3>2, <3>3
    <2> QED BY <1>3, <2>2, <2>3 DEF FullBatch, Digest, TypeOK
  <1> QED BY <1>1, <1>2, <1>3

LEMMA TypeNext == TypeOK /\ [Next]_vars => TypeOK'
  <1> SUFFICES ASSUME TypeOK, [Next]_vars PROVE TypeOK'
    OBVIOUS
  <1>1. CASE UNCHANGED vars
    BY <1>1 DEF vars, hashes, TypeOK
  <1> QED BY <1>1, TypeQuiet, TypeGroupSizes, TypeFast, TypeEndPass, TypeFull DEF Next, Run, Exited

(* Every variable of the run keeps its type; the exit code is 0, 1 or 130   *)
(* whatever fails and whenever a signal arrives.                            *)
THEOREM TypeCorrect == Spec => []TypeOK
  BY TypeInit, TypeNext, PTL DEF Spec

-----------------------------------------------------------------------------
(* HashedGroupsAreIdentical: a digest, once there, is that of the file's    *)
(* own content; the reported groups exist only after the full pass, which   *)
(* is the only writer of digests, so their members still agree.             *)

DigestsAreOwn == \A e \in Entries : fullHash[e] = NoDigest \/ fullHash[e] = Content(e)

GroupsAfterPass == finalGroups # {} => pc \in {"output", "exit"}

GroupsAgree == \A g \in finalGroups : \A x, y \in g : fullHash[x] = fullHash[y]

HashInv == TypeOK /\ DigestsAreOwn /\ GroupsAfterPass /\ GroupsAgree

LEMMA HashInit == Init => HashInv
  <1> SUFFICES ASSUME Init PROVE HashInv
    OBVIOUS
  <1> QED BY TypeInit DEF Init, HashInv, DigestsAreOwn, GroupsAfterPass, GroupsAgree

(* What every step but a batch and the end of the full pass leaves alone,   *)
(* and that no run leaves its output.                                       *)
LEMMA HashQuiet ==
    ASSUME HashInv, TypeOK', UNCHANGED <<inodeOf, contentOf, fullHash, finalGroups>>,
           pc \in {"output", "exit"} => pc' \in {"output", "exit"}
    PROVE  HashInv'
  BY DEF HashInv, DigestsAreOwn, GroupsAfterPass, GroupsAgree, Content

LEMMA HashNext == HashInv /\ [Next]_vars => HashInv'
  <1> SUFFICES ASSUME HashInv, [Next]_vars PROVE HashInv'
    OBVIOUS
  <1>1. TypeOK'
    BY TypeNext DEF HashInv
  <1>2. CASE Discover \/ Interrupted \/ NothingFound \/ GroupSizes
    BY <1>1, <1>2, HashQuiet DEF Discover, Interrupted, NothingFound, GroupSizes, Exit, hashes
  <1>3. CASE \E e \in Entries : FastSkip(e) \/ FastHash(e)
    BY <1>1, <1>3, HashQuiet DEF FastSkip, FastHash, hashes
  <1>4. CASE EndFastPass \/ StartFullPass
    <2>1. UNCHANGED <<inodeOf, contentOf, fullHash, finalGroups>> /\ pc \in {"fast", "dispatch"}
      BY <1>4 DEF EndFastPass, StartFullPass, hashes
    <2> QED BY <1>1, <2>1, HashQuiet
  <1>5. CASE \E b \in todo : FullSkip(b) \/ \E w \in Workers : NoSlot(w, b)
    BY <1>1, <1>5, HashQuiet DEF FullSkip, NoSlot, hashes
  <1>6. ASSUME NEW b, NEW w \in Workers, FullBatch(w, b) PROVE HashInv'
    <2>1. UNCHANGED <<inodeOf, contentOf, pc, finalGroups>> /\ pc = "full"
      BY <1>6 DEF FullBatch, Digest
    <2>2. \A e \in Entries : fullHash'[e] = Content(e) \/ fullHash'[e] = fullHash[e]
      BY <1>6 DEF FullBatch, Digest
    <2>3. finalGroups = {}
      BY <2>1 DEF HashInv, GroupsAfterPass
    <2> QED BY <1>1, <2>1, <2>2, <2>3 DEF HashInv, DigestsAreOwn, GroupsAfterPass, GroupsAgree, Content
  <1>7. CASE EndFullPass
    <2>1. UNCHANGED <<inodeOf, contentOf, fullHash>> /\ pc' = "output"
      BY <1>7 DEF EndFullPass, hashes
    <2>2. \A g \in finalGroups' : \A x, y \in g : fullHash[x] = fullHash[y]
      BY <1>7, SplitFacts DEF EndFullPass, HashInv, TypeOK
    <2> QED BY <1>1, <2>1, <2>2 DEF HashInv, DigestsAreOwn, GroupsAfterPass, GroupsAgree, Content
  <1>8. CASE Output \/ GiveUp
    <2>1. UNCHANGED <<inodeOf, contentOf, fullHash, finalGroups>> /\ pc' = "exit"
      BY <1>8 DEF Output, GiveUp, Exit, hashes
    <2> QED BY <1>1, <2>1, HashQuiet
  <1>9. CASE Signal \/ Exited \/ UNCHANGED vars
    BY <1>1, <1>9, HashQuiet DEF Signal, Exited, vars, hashes
  <1> QED BY <1>2, <1>3, <1>4, <1>5, <1>6, <1>7, <1>8, <1>9 DEF Next, Run

(* No reported group mixes a hashed file with one of another content or     *)
(* with one that was never hashed: reads that fail, rings that cannot be    *)
(* set up and signals only ever remove files from genuine groups.           *)
THEOREM GroupsIdentical == Spec => []HashedGroupsAreIdentical
  <1>1. HashInv => HashedGroupsAreIdentical
    <2> SUFFICES ASSUME HashInv, NEW g \in finalGroups, NEW x \in g, NEW y \in g, Hashed(x)
                 PROVE  Hashed(y) /\ Content(x) = Content(y)
      BY DEF HashedGroupsAreIdentical
    <2>1. x \in Entries /\ y \in Entries
      BY DEF HashInv, TypeOK
    <2>2. fullHash[x] = fullHash[y]
      BY DEF HashInv, GroupsAgree
    <2> QED BY <2>1, <2>2 DEF HashInv, DigestsAreOwn, Hashed
  <1> QED BY <1>1, HashInit, HashNext, PTL DEF Spec

-----------------------------------------------------------------------------
(* TwinsAreReported: each list of groups is the split of the list before it *)
(* as long as the pass that follows has not overwritten the hashes; and     *)
(* while nothing fails, every candidate of a pass has its hash or is still  *)
(* in an iteration that no worker has taken.                                *)

StagesInv ==
    /\ pc \in {"fast", "dispatch", "full", "output"} => sizeGroups = Classes(kept, [e \in kept |-> FileSize(e)])
    /\ pc \in {"dispatch", "full", "output"} => fastGroups = Split(sizeGroups, fastHash)
    /\ pc = "output" => finalGroups = Split(fastGroups, fullHash)

Undisturbed == ~ signalled /\ Faults \cap {"read", "ring"} = {}

FastComplete ==
    pc \in {"fast", "dispatch", "full", "output"} /\ Undisturbed =>
        \A e \in Candidates(sizeGroups) : fastHash[e] = FastOf[Content(e)] \/ (pc = "fast" /\ e \in todo)

FullComplete ==
    pc \in {"full", "output"} /\ Undisturbed =>
        \A e \in Candidates(fastGroups) : Hashed(e) \/ (pc = "full" /\ \E b \in todo : e \in b.members)

TwinInv == HashInv /\ StagesInv /\ FastComplete /\ FullComplete

(* Two members that agree on the key are in one class. *)
LEMMA ClassOfTwo ==
    ASSUME NEW S, IsFiniteSet(S), NEW key, NEW x \in S, NEW y \in S, x # y, key[x] = key[y]
    PROVE  \E C \in Classes(S, key) : x \in C /\ y \in C
  <1>1. PICK C : C = {z \in S : key[z] = key[x]}
    OBVIOUS
  <1>2. x \in C /\ y \in C /\ C \subseteq S
    BY <1>1
  <1>3. IsFiniteSet(C)
    BY <1>2, FS_Subset
  <1>4. Cardinality(C) >= 2
    BY <1>2, <1>3, TwoMembers
  <1> QED BY <1>1, <1>2, <1>4 DEF Classes

(* Two members of a group that agree on the key stay together in the split. *)
LEMMA SplitKeepsTwo ==
    ASSUME NEW U, IsFiniteSet(U), NEW G \in SUBSET SUBSET U, NEW key,
           NEW g \in G, NEW x \in g, NEW y \in g, x # y, key[x] = key[y]
    PROVE  \E C \in Split(G, key) : x \in C /\ y \in C
  <1>1. IsFiniteSet(g)
    BY FS_Subset
  <1>2. PICK C \in Classes(g, key) : x \in C /\ y \in C
    BY <1>1, ClassOfTwo
  <1> QED BY <1>2 DEF Split

(* An injective listing of a finite set by as many numbers leaves out none. *)
LEMMA ListingIsOnto ==
    ASSUME NEW S, IsFiniteSet(S), NEW f, f \in [1..Cardinality(S) -> S],
           \A i, j \in 1..Cardinality(S) : f[i] = f[j] => i = j
    PROVE  \A x \in S : \E i \in 1..Cardinality(S) : f[i] = x
  <1>1. PICK n : n = Cardinality(S) /\ n \in Nat
    BY FS_CardinalityType
  <1>2. PICK D : D = 1..n /\ IsFiniteSet(D) /\ Cardinality(D) = n
    BY <1>1, FS_Interval
  <1>3. PICK R : R = {f[i] : i \in D}
    OBVIOUS
  <1>4. R \in SUBSET S /\ (\A x \in R : \E i \in D : f[i] = x)
    BY <1>1, <1>2, <1>3
  <1>5. Cardinality(R) = n
    <2>1. f \in [D -> R]
      BY <1>1, <1>2, <1>3
    <2>2. \A i, j \in D : f[i] = f[j] => i = j
      BY <1>1, <1>2
    <2>3. \A x \in R : \E i \in D : f[i] = x
      BY <1>4
    <2>4. IsFiniteSet(D)
      BY <1>2
    <2>5. Cardinality(R) = Cardinality(D)
      BY ONLY <2>1, <2>2, <2>3, <2>4, CountByListing, Zenon
    <2> QED BY <1>2, <2>5
  <1>6. R = S
    BY <1>1, <1>4, <1>5, FS_Subset
  <1> QED BY <1>1, <1>2, <1>4, <1>6

(* Item i is in batch (i - 1) \div BatchSize + 1, which is one of them. *)
LEMMA BatchExists ==
    ASSUME NEW n \in Nat, NEW i \in 1..n
    PROVE  \E b \in 1..BatchCount(n) : (i - 1) \div BatchSize = b - 1
  <1>1. PICK B : B = BatchSize /\ B \in Nat /\ B > 0
    BY BatchAssumption
  <1>2. PICK q : q = (i - 1) \div B
    OBVIOUS
  <1>3. PICK p : p = (n + B - 1) \div B
    OBVIOUS
  <1>4. q \in Nat /\ B * q <= i - 1
    BY <1>1, <1>2
  <1>5. p \in Nat /\ n + B - 1 < B * p + B
    BY <1>1, <1>3
  <1>6. B * q < B * p
    <2>1. B * q \in Int /\ B * p \in Int
      BY <1>1, <1>4, <1>5
    <2> QED BY <1>1, <1>4, <1>5, <2>1
  <1>7. q < p
    <2> SUFFICES ASSUME p <= q PROVE FALSE
      BY <1>4, <1>5
    <2>1. PICK d \in Nat : q = p + d
      <3>1. q - p \in Nat /\ q = p + (q - p)
        BY <1>4, <1>5
      <3> QED BY <3>1
    <2>2. B * q = B * p + B * d
      BY <1>1, <1>5, <2>1
    <2>3. B * d >= 0
      BY <1>1, <2>1
    <2>4. B * d \in Int /\ B * p \in Int
      BY <1>1, <1>5, <2>1
    <2> QED BY <1>6, <2>2, <2>3, <2>4
  <1>8. q + 1 \in 1..p /\ q = (q + 1) - 1
    BY <1>4, <1>5, <1>7
  <1> QED BY <1>1, <1>2, <1>3, <1>8 DEF BatchCount

(* The batches of an order hold every candidate. *)
LEMMA BatchesCover ==
    ASSUME NEW S, IsFiniteSet(S), NEW f \in Orders(S), NEW x \in S
    PROVE  \E b \in 1..BatchCount(Cardinality(S)) : x \in BatchOf(f, Cardinality(S), b).members
  <1>1. PICK n : n = Cardinality(S) /\ n \in Nat
    BY FS_CardinalityType
  <1>2. f \in [1..n -> S] /\ \A i, j \in 1..n : f[i] = f[j] => i = j
    BY <1>1 DEF Orders
  <1>3. PICK i \in 1..n : f[i] = x
    BY <1>1, <1>2, ListingIsOnto
  <1>4. PICK b \in 1..BatchCount(n) : (i - 1) \div BatchSize = b - 1
    BY <1>1, BatchExists
  <1>5. x \in {f[j] : j \in {k \in 1..n : (k - 1) \div BatchSize = b - 1}}
    BY <1>3, <1>4
  <1>6. x \in BatchOf(f, n, b).members
    BY <1>5 DEF BatchOf
  <1> QED BY <1>1, <1>6

LEMMA TwinInit == Init => TwinInv
  <1> SUFFICES ASSUME Init PROVE TwinInv
    OBVIOUS
  <1>1. pc = "discovery" /\ HashInv
    BY HashInit DEF Init
  <1> QED BY <1>1 DEF TwinInv, StagesInv, FastComplete, FullComplete

(* Outside the passes and the output nothing is claimed. *)
LEMMA TwinOutside == ASSUME HashInv', pc' \in {"discovery", "discovered", "exit"} PROVE TwinInv'
  BY DEF TwinInv, StagesInv, FastComplete, FullComplete

(* A signal, and an iteration skipped because of one, lift the claims. *)
LEMMA TwinSignalled ==
    ASSUME TwinInv, HashInv', signalled', UNCHANGED <<inodeOf, contentOf, pc, kept, sizeGroups, fastGroups, finalGroups, fastHash, fullHash>>
    PROVE  TwinInv'
  <1>1. StagesInv'
    BY DEF TwinInv, StagesInv, FileSize, Content
  <1>2. ~ Undisturbed'
    BY DEF Undisturbed
  <1> QED BY <1>1, <1>2 DEF TwinInv, FastComplete, FullComplete

LEMMA TwinGroupSizes == ASSUME TwinInv, HashInv', GroupSizes PROVE TwinInv'
  <1>1. CASE pc' = "exit"
    BY <1>1, TwinOutside
  <1>2. CASE pc' = "fast"
    <2>1. /\ todo' = Candidates(sizeGroups') /\ UNCHANGED <<inodeOf, contentOf>>
          /\ sizeGroups' = Classes(kept', [e \in kept' |-> FileSize(e)])
      BY <1>2 DEF GroupSizes, Exit
    <2>2. StagesInv'
      BY <1>2, <2>1 DEF StagesInv, FileSize, Content
    <2>3. FastComplete' /\ FullComplete'
      BY <1>2, <2>1 DEF FastComplete, FullComplete
    <2> QED BY <2>2, <2>3 DEF TwinInv
  <1> QED BY <1>1, <1>2 DEF GroupSizes, Exit

LEMMA TwinFastHash == ASSUME TwinInv, HashInv', NEW e \in Entries, FastHash(e) PROVE TwinInv'
  <1>1. /\ pc = "fast" /\ todo' = todo \ {e}
        /\ UNCHANGED <<inodeOf, contentOf, pc, signalled, kept, sizeGroups>>
    BY DEF FastHash
  <1>2. StagesInv'
    BY <1>1 DEF TwinInv, StagesInv, FileSize, Content
  <1>3. FastComplete'
    <2> SUFFICES ASSUME Undisturbed', NEW d \in Candidates(sizeGroups)
                 PROVE  fastHash'[d] = FastOf[Content(d)] \/ d \in todo'
      BY <1>1 DEF FastComplete, Content
    <2>1. Undisturbed /\ "read" \notin Faults
      BY <1>1 DEF Undisturbed
    <2>2. fastHash' = [fastHash EXCEPT ![e] = FastOf[Content(e)]]
      BY <2>1 DEF FastHash
    <2>3. fastHash \in [Entries -> Nat] /\ d \in Entries
      BY DEF TwinInv, HashInv, TypeOK, Candidates
    <2>4. fastHash[d] = FastOf[Content(d)] \/ d \in todo
      BY <1>1, <2>1 DEF TwinInv, FastComplete
    <2> QED BY <1>1, <2>2, <2>3, <2>4
  <1>4. FullComplete'
    BY <1>1 DEF FullComplete
  <1> QED BY <1>2, <1>3, <1>4 DEF TwinInv

LEMMA TwinEndFast == ASSUME TwinInv, HashInv', EndFastPass PROVE TwinInv'
  <1>1. /\ pc = "fast" /\ todo = {} /\ pc' \in {"output", "dispatch"}
        /\ fastGroups' = Split(sizeGroups, fastHash) /\ (pc' = "output" => fastGroups' = {})
        /\ UNCHANGED <<inodeOf, contentOf, signalled, kept, sizeGroups, finalGroups, fastHash, fullHash>>
    BY DEF EndFastPass, hashes
  <1>2. finalGroups = {}
    BY <1>1 DEF TwinInv, HashInv, GroupsAfterPass
  <1>3. pc' = "output" => finalGroups' = Split(fastGroups', fullHash')
    BY <1>1, <1>2 DEF Split
  <1>4. StagesInv'
    BY <1>1, <1>3 DEF TwinInv, StagesInv, FileSize, Content
  <1>5. FastComplete'
    BY <1>1 DEF TwinInv, FastComplete, Undisturbed, Content
  <1>6. FullComplete'
    BY <1>1 DEF FullComplete, Candidates
  <1> QED BY <1>4, <1>5, <1>6 DEF TwinInv

LEMMA TwinStartFull == ASSUME TwinInv, HashInv', StartFullPass PROVE TwinInv'
  <1>1. /\ pc = "dispatch" /\ pc' = "full"
        /\ UNCHANGED <<inodeOf, contentOf, signalled, kept, sizeGroups, fastGroups, finalGroups, fastHash, fullHash>>
    BY DEF StartFullPass, hashes
  <1>2. StagesInv' /\ FastComplete'
    BY <1>1 DEF TwinInv, StagesInv, FastComplete, Undisturbed, FileSize, Content
  <1>3. ASSUME NEW e \in Candidates(fastGroups) PROVE \E b \in todo' : e \in b.members
    <2>1. PICK S : S = Candidates(fastGroups)
      OBVIOUS
    <2>2. S \subseteq Entries /\ IsFiniteSet(S)
      <3>1. S \subseteq Entries
        BY <2>1 DEF Candidates, TwinInv, HashInv, TypeOK
      <3> QED BY <3>1, EntriesAssumption, FS_Subset
    <2>3. PICK f \in Orders(S) : todo' = {BatchOf(f, Cardinality(S), b) : b \in 1..BatchCount(Cardinality(S))}
      BY <2>1 DEF StartFullPass
    <2>4. PICK b \in 1..BatchCount(Cardinality(S)) : e \in BatchOf(f, Cardinality(S), b).members
      BY <2>1, <2>2, BatchesCover
    <2> QED BY <2>3, <2>4
  <1>4. FullComplete'
    BY <1>1, <1>3 DEF FullComplete
  <1> QED BY <1>2, <1>4 DEF TwinInv

LEMMA TwinFullBatch == ASSUME TwinInv, HashInv', NEW b \in todo, NEW w \in Workers, FullBatch(w, b) PROVE TwinInv'
  <1>1. /\ pc = "full" /\ todo' = todo \ {b}
        /\ UNCHANGED <<inodeOf, contentOf, pc, signalled, kept, sizeGroups, fastGroups, fastHash>>
    BY DEF FullBatch
  <1>2. StagesInv' /\ FastComplete'
    BY <1>1 DEF TwinInv, StagesInv, FastComplete, Undisturbed, FileSize, Content
  <1>3. ASSUME Undisturbed, NEW e \in Candidates(fastGroups)
        PROVE  fullHash'[e] # NoDigest \/ \E c \in todo' : e \in c.members
    <2>1. e \in Entries
      BY DEF Candidates, TwinInv, HashInv, TypeOK
    <2>2. fullHash' = [d \in Entries |-> IF d \in b.members THEN Digest(d) ELSE fullHash[d]]
      BY <1>3 DEF FullBatch, Undisturbed
    <2>3. Digest(e) # NoDigest
      BY <2>1, ContentFacts, ContentAssumption DEF Digest, TwinInv, HashInv
    <2>4. fullHash[e] # NoDigest \/ \E c \in todo : e \in c.members
      BY <1>1, <1>3 DEF TwinInv, FullComplete, Hashed
    <2>5. CASE e \in b.members
      BY <2>1, <2>2, <2>3, <2>5
    <2>6. CASE e \notin b.members
      BY <1>1, <2>1, <2>2, <2>4, <2>6
    <2> QED BY <2>5, <2>6
  <1>4. FullComplete'
    BY <1>1, <1>3 DEF FullComplete, Undisturbed, Hashed
  <1> QED BY <1>2, <1>4 DEF TwinInv

LEMMA TwinEndFull == ASSUME TwinInv, HashInv', EndFullPass PROVE TwinInv'
  <1>1. /\ pc = "full" /\ todo = {} /\ pc' = "output" /\ finalGroups' = Split(fastGroups, fullHash)
        /\ UNCHANGED <<inodeOf, contentOf, signalled, kept, sizeGroups, fastGroups, fastHash, fullHash>>
    BY DEF EndFullPass, hashes
  <1>2. StagesInv' /\ FastComplete'
    BY <1>1 DEF TwinInv, StagesInv, FastComplete, Undisturbed, FileSize, Content
  <1>3. FullComplete'
    BY <1>1 DEF TwinInv, FullComplete, Undisturbed, Hashed
  <1> QED BY <1>2, <1>3 DEF TwinInv

LEMMA TwinNext == TwinInv /\ [Next]_vars => TwinInv'
  <1> SUFFICES ASSUME TwinInv, [Next]_vars PROVE TwinInv'
    OBVIOUS
  <1>1. HashInv'
    BY HashNext DEF TwinInv
  <1>2. CASE Discover \/ Interrupted \/ NothingFound \/ Output \/ GiveUp
    BY <1>1, <1>2, TwinOutside DEF Discover, Interrupted, NothingFound, Output, GiveUp, Exit
  <1>3. CASE GroupSizes
    BY <1>1, <1>3, TwinGroupSizes
  <1>4. CASE \E e \in Entries : FastSkip(e) \/ FastHash(e)
    BY <1>1, <1>4, TwinSignalled, TwinFastHash DEF FastSkip, hashes
  <1>5. CASE EndFastPass \/ StartFullPass \/ EndFullPass
    BY <1>1, <1>5, TwinEndFast, TwinStartFull, TwinEndFull
  <1>6. CASE \E b \in todo : FullSkip(b)
    BY <1>1, <1>6, TwinSignalled DEF FullSkip, hashes
  <1>7. ASSUME NEW b \in todo, NEW w \in Workers, NoSlot(w, b) PROVE TwinInv'
    <2>1. /\ "ring" \in Faults
          /\ UNCHANGED <<inodeOf, contentOf, pc, kept, sizeGroups, fastGroups, finalGroups, fastHash, fullHash>>
      BY <1>7 DEF NoSlot, hashes
    <2>2. ~ Undisturbed'
      BY <2>1 DEF Undisturbed
    <2>3. StagesInv'
      BY <2>1 DEF TwinInv, StagesInv, FileSize, Content
    <2> QED BY <1>1, <2>2, <2>3 DEF TwinInv, FastComplete, FullComplete
  <1>8. CASE \E b \in todo : \E w \in Workers : FullBatch(w, b)
    BY <1>1, <1>8, TwinFullBatch
  <1>9. CASE Signal
    BY <1>1, <1>9, TwinSignalled DEF Signal, hashes
  <1>10. CASE UNCHANGED vars
    <2>1. UNCHANGED <<inodeOf, contentOf, pc, signalled, kept, todo, sizeGroups, fastGroups, finalGroups, fastHash, fullHash>>
      BY <1>10 DEF vars, hashes
    <2> QED BY <1>1, <2>1 DEF TwinInv, StagesInv, FastComplete, FullComplete, Undisturbed, FileSize, Content, Hashed
  <1> QED BY <1>2, <1>3, <1>4, <1>5, <1>6, <1>7, <1>8, <1>9, <1>10 DEF Next, Run, Exited

(* Two kept files of one content: if both have their hashes they are in one *)
(* group, and they have them if nothing has failed and no signal has come.   *)
LEMMA TwinsMeet ==
    ASSUME TwinInv, pc = "output", NEW x \in kept, NEW y \in kept, x # y, Content(x) = Content(y)
    PROVE  /\ fastHash[x] = FastOf[Content(x)] /\ fastHash[y] = FastOf[Content(y)] /\ Hashed(x) /\ Hashed(y) =>
                  \E g \in finalGroups : x \in g /\ y \in g
           /\ Undisturbed => Hashed(x) /\ fastHash[x] = FastOf[Content(x)]
  <1>0. /\ x \in Entries /\ y \in Entries /\ kept \subseteq Entries
        /\ sizeGroups \in SUBSET SUBSET Entries /\ fastGroups \in SUBSET SUBSET Entries
        /\ fastGroups = Split(sizeGroups, fastHash) /\ finalGroups = Split(fastGroups, fullHash)
        /\ sizeGroups = Classes(kept, [e \in kept |-> FileSize(e)])
    BY DEF TwinInv, HashInv, TypeOK, StagesInv
  <1>1. PICK C \in sizeGroups : x \in C /\ y \in C
    <2>1. PICK key : key = [e \in kept |-> FileSize(e)]
      OBVIOUS
    <2>2. key[x] = key[y]
      BY <2>1 DEF FileSize
    <2>3. IsFiniteSet(kept)
      BY <1>0, EntriesAssumption, FS_Subset
    <2> QED BY <1>0, <2>1, <2>2, <2>3, ClassOfTwo
  <1>2. ASSUME fastHash[x] = fastHash[y] PROVE \E D \in fastGroups : x \in D /\ y \in D
    BY <1>0, <1>1, <1>2, EntriesAssumption, SplitKeepsTwo
  <1>3. ASSUME fastHash[x] = FastOf[Content(x)], fastHash[y] = FastOf[Content(y)], Hashed(x), Hashed(y)
        PROVE  \E g \in finalGroups : x \in g /\ y \in g
    <2>1. PICK D \in fastGroups : x \in D /\ y \in D
      BY <1>2, <1>3
    <2>2. fullHash[x] = fullHash[y]
      BY <1>0, <1>3 DEF TwinInv, HashInv, DigestsAreOwn, Hashed
    <2>3. fastGroups \in SUBSET SUBSET Entries /\ x \in D /\ y \in D /\ x # y /\ D \in fastGroups
      BY <1>0, <2>1
    <2>4. \E c \in Split(fastGroups, fullHash) : x \in c /\ y \in c
      BY ONLY <2>2, <2>3, EntriesAssumption, SplitKeepsTwo
    <2> QED BY <1>0, <2>4
  <1>4. ASSUME Undisturbed PROVE Hashed(x) /\ fastHash[x] = FastOf[Content(x)]
    <2>1. x \in Candidates(sizeGroups) /\ y \in Candidates(sizeGroups)
      BY <1>1 DEF Candidates
    <2>2. fastHash[x] = FastOf[Content(x)] /\ fastHash[y] = FastOf[Content(y)]
      BY <1>4, <2>1 DEF TwinInv, FastComplete
    <2>3. x \in Candidates(fastGroups)
      BY <1>2, <2>2 DEF Candidates
    <2> QED BY <1>4, <2>2, <2>3 DEF TwinInv, FullComplete
  <1> QED BY <1>3, <1>4

(* No duplicate is lost between the stages: two kept files of the same      *)
(* content whose two hashes were computed are reported in one group; and    *)
(* without a signal, a read error or a ring that cannot be set up, every    *)
(* file that has a twin gets its digest: for any number of entries and      *)
(* workers, any batch size, and whatever order the workers take the         *)
(* iterations in.                                                           *)
THEOREM TwinsReported == Spec => []TwinsAreReported
  <1>1. ASSUME TwinInv PROVE TwinsAreReported
    <2> SUFFICES ASSUME pc = "output", NEW x \in kept, NEW y \in kept, x # y, Content(x) = Content(y), ~ signalled
                 PROVE  /\ fastHash[x] = FastOf[Content(x)] /\ fastHash[y] = FastOf[Content(y)] /\ Hashed(x) /\ Hashed(y) =>
                               \E g \in finalGroups : {x, y} \subseteq g
                        /\ Faults \cap {"read", "ring"} = {} => Hashed(x)
      BY DEF TwinsAreReported
    <2> QED BY <1>1, TwinsMeet DEF Undisturbed
  <1> QED BY <1>1, TwinInit, TwinNext, PTL DEF Spec

-----------------------------------------------------------------------------
(* StatisticsAgree: the numbers are filled in stage by stage, each the       *)
(* cardinality of what the stage works on, and the groups are disjoint.      *)

Statistics == [scanned : Nat, collapsed : Nat, candidates : Nat, fast : Nat, full : Nat,
               groups : Nat, duplicates : Nat, wasted : Nat]

CountInv ==
    /\ stats \in Statistics
    /\ pc # "exit" => report = NoReport
    /\ pc \in {"fast", "dispatch", "full", "output"} =>
         /\ stats.candidates = Cardinality(Candidates(sizeGroups))
         /\ stats.candidates + stats.collapsed <= stats.scanned
    /\ pc = "fast" => stats.full = 0
    /\ pc \in {"dispatch", "full", "output"} => stats.fast = stats.candidates
    /\ pc = "output" => stats.full = Cardinality(Candidates(fastGroups))
    /\ StatisticsAgree

Disjoint(G) == \A g, h \in G : g # h => g \cap h = {}

LEMMA ClassesDisjoint ==
    ASSUME NEW S, NEW key
    PROVE  Disjoint(Classes(S, key)) /\ UNION Classes(S, key) \subseteq S
  BY DEF Disjoint, Classes

(* A split of disjoint groups is disjoint, and its groups lie in the old ones. *)
LEMMA SplitDisjoint ==
    ASSUME NEW G, Disjoint(G), NEW key
    PROVE  /\ Disjoint(Split(G, key))
           /\ \A c \in Split(G, key) : \E g \in G : c \subseteq g
           /\ UNION Split(G, key) \subseteq UNION G
  <1>1. \A c \in Split(G, key) : \E g \in G : c \in Classes(g, key) /\ c \subseteq g
    BY DEF Split, Classes
  <1>2. ASSUME NEW c \in Split(G, key), NEW d \in Split(G, key), c # d PROVE c \cap d = {}
    <2>1. PICK g \in G : c \in Classes(g, key) /\ c \subseteq g
      BY <1>1
    <2>2. PICK h \in G : d \in Classes(h, key) /\ d \subseteq h
      BY <1>1
    <2>3. CASE g = h
      BY <1>2, <2>1, <2>2, <2>3, ClassesDisjoint DEF Disjoint
    <2>4. CASE g # h
      BY <2>1, <2>2, <2>4 DEF Disjoint
    <2> QED BY <2>3, <2>4
  <1> QED BY <1>1, <1>2 DEF Disjoint

(* The groups that are reported: disjoint, among the candidates of the full  *)
(* pass, of two or more files of one size each.                              *)
LEMMA FinalFacts ==
    ASSUME TwinInv, pc = "output"
    PROVE  /\ IsFiniteSet(finalGroups) /\ Disjoint(finalGroups)
           /\ \A g \in finalGroups : IsFiniteSet(g) /\ g # {} /\ g \subseteq Entries
           /\ \A g \in finalGroups : \A x, y \in g : FileSize(x) = FileSize(y)
           /\ UNION finalGroups \subseteq UNION fastGroups
           /\ UNION fastGroups \subseteq UNION sizeGroups
           /\ UNION sizeGroups \subseteq Entries
  <1>1. /\ sizeGroups = Classes(kept, [e \in kept |-> FileSize(e)])
        /\ fastGroups = Split(sizeGroups, fastHash) /\ finalGroups = Split(fastGroups, fullHash)
        /\ kept \subseteq Entries /\ finalGroups \in SUBSET SUBSET Entries
    BY DEF TwinInv, StagesInv, HashInv, TypeOK
  <1>2. Disjoint(sizeGroups) /\ UNION sizeGroups \subseteq kept
    BY <1>1, ClassesDisjoint
  <1>3. /\ Disjoint(fastGroups) /\ \A c \in fastGroups : \E g \in sizeGroups : c \subseteq g
        /\ UNION fastGroups \subseteq UNION sizeGroups
    <2>1. fastGroups = Split(sizeGroups, fastHash) /\ Disjoint(sizeGroups)
      BY <1>1, <1>2
    <2> QED BY ONLY <2>1, SplitDisjoint
  <1>4. /\ Disjoint(finalGroups) /\ \A c \in finalGroups : \E g \in fastGroups : c \subseteq g
        /\ UNION finalGroups \subseteq UNION fastGroups
    <2>1. finalGroups = Split(fastGroups, fullHash) /\ Disjoint(fastGroups)
      BY <1>1, <1>3
    <2> QED BY ONLY <2>1, SplitDisjoint
  <1>5. \A g \in sizeGroups : \A x, y \in g : FileSize(x) = FileSize(y)
    <2> SUFFICES ASSUME NEW g \in sizeGroups, NEW x \in g, NEW y \in g PROVE FileSize(x) = FileSize(y)
      OBVIOUS
    <2>1. PICK key : key = [e \in kept |-> FileSize(e)]
      OBVIOUS
    <2>2. x \in kept /\ y \in kept /\ key[x] = key[y]
      BY <1>1, <2>1 DEF Classes
    <2> QED BY <2>1, <2>2
  <1>6. \A g \in finalGroups : \A x, y \in g : FileSize(x) = FileSize(y)
    BY <1>3, <1>4, <1>5
  <1>7. IsFiniteSet(SUBSET Entries)
    BY EntriesAssumption, FS_SUBSET
  <1>8. IsFiniteSet(finalGroups)
    BY <1>1, <1>7, FS_Subset
  <1>9. ASSUME NEW g \in finalGroups PROVE IsFiniteSet(g) /\ g # {} /\ g \subseteq Entries
    <2>1. g \subseteq Entries /\ IsFiniteSet(g)
      BY <1>1, EntriesAssumption, FS_Subset
    <2>2. Cardinality(g) >= 2
      BY <1>1 DEF Split, Classes
    <2>3. Cardinality({}) = 0
      BY FS_EmptySet
    <2> QED BY <2>1, <2>2, <2>3
  <1> QED BY <1>1, <1>2, <1>3, <1>4, <1>6, <1>8, <1>9

(* What the sums of the output come to. *)
LEMMA FinalSums ==
    ASSUME TwinInv, pc = "output", stats \in Statistics
    PROVE  /\ FinalStats.groups \in Nat /\ FinalStats.duplicates \in Nat /\ FinalStats.wasted \in Nat
           /\ FinalStats.duplicates + FinalStats.groups = Cardinality(UNION finalGroups)
           /\ FinalStats.wasted + SumFunction([g \in finalGroups |-> FileSize(CHOOSE e \in g : TRUE)])
                  = SumFunction([e \in UNION finalGroups |-> FileSize(e)])
  <1> DEFINE G == finalGroups
             one == [e \in UNION G |-> 1]
             size == [e \in UNION G |-> FileSize(e)]
             count == [g \in G |-> Cardinality(g)]
             extra == [g \in G |-> Extra(g)]
             unit == [g \in G |-> 1]
             wasted == [g \in G |-> Wasted(g)]
             rest == [g \in G |-> FileSize(CHOOSE e \in g : TRUE)]
             bytes == [g \in G |-> Cardinality(g) * FileSize(CHOOSE e \in g : TRUE)]
  <1>1. /\ IsFiniteSet(G) /\ (\A g, h \in G : g # h => g \cap h = {})
        /\ \A g \in G : IsFiniteSet(g) /\ g # {} /\ g \subseteq Entries
        /\ \A g \in G : \A x, y \in g : FileSize(x) = FileSize(y)
    BY FinalFacts DEF Disjoint
  <1>2. \A e \in Entries : FileSize(e) \in Nat
    BY ContentFacts, ContentAssumption DEF TwinInv, HashInv, FileSize
  <1>3. ASSUME NEW g \in G
        PROVE  /\ Cardinality(g) \in Nat /\ Cardinality(g) >= 1
               /\ (CHOOSE e \in g : TRUE) \in g /\ FileSize(CHOOSE e \in g : TRUE) \in Nat
    <2>1. (CHOOSE e \in g : TRUE) \in g
      BY <1>1
    <2>2. Cardinality(g) \in Nat /\ Cardinality(g) # 0
      BY <1>1, FS_CardinalityType, FS_EmptySet
    <2> QED BY <1>1, <1>2, <2>1, <2>2
  <1>4. ASSUME NEW g \in G
        PROVE  /\ extra[g] \in Nat /\ unit[g] \in Nat /\ count[g] = extra[g] + unit[g]
               /\ wasted[g] \in Nat /\ rest[g] \in Nat /\ bytes[g] = wasted[g] + rest[g]
    <2>1. PICK n \in Nat : n = Cardinality(g) - 1 /\ Cardinality(g) = n + 1
      BY <1>3
    <2>2. PICK s \in Nat : s = FileSize(CHOOSE e \in g : TRUE)
      BY <1>3
    <2>3. extra[g] = n /\ wasted[g] = n * s /\ rest[g] = s /\ bytes[g] = (n + 1) * s /\ count[g] = n + 1
      BY <2>1, <2>2 DEF Extra, Wasted
    <2>4. n * s \in Nat /\ (n + 1) * s = n * s + s
      OBVIOUS
    <2> QED BY <2>3, <2>4
  <1>5. ASSUME NEW g \in G PROVE count[g] = SumFunctionOnSet(one, g) /\ bytes[g] = SumFunctionOnSet(size, g)
    <2>1. IsFiniteSet(g) /\ \A x \in g : one[x] = 1 /\ size[x] = FileSize(CHOOSE e \in g : TRUE)
      BY <1>1, <1>3
    <2>2. SumFunctionOnSet(one, g) = Cardinality(g) * 1
      BY <2>1, SumConstant
    <2>3. SumFunctionOnSet(size, g) = Cardinality(g) * FileSize(CHOOSE e \in g : TRUE)
      BY <1>3, <2>1, SumConstant
    <2> QED BY <1>3, <2>2, <2>3
  <1>6. \A e \in UNION G : one[e] \in Nat /\ size[e] \in Nat
    BY <1>1, <1>2
  <1>7. IsFiniteSet(UNION G) /\ SumFunctionOnSet(one, UNION G) = SumFunctionOnSet(count, G)
    <2> HIDE DEF G, one, count, size, bytes, extra, unit, wasted, rest
    <2>1. \A g \in G : count[g] = SumFunctionOnSet(one, g)
      BY <1>5
    <2>2. \A e \in UNION G : one[e] \in Nat
      BY <1>6
    <2>3. IsFiniteSet(G) /\ (\A g \in G : IsFiniteSet(g)) /\ \A g, h \in G : g # h => g \cap h = {}
      BY <1>1
    <2> QED BY ONLY <2>1, <2>2, <2>3, SumOverUnion
  <1>8. SumFunctionOnSet(size, UNION G) = SumFunctionOnSet(bytes, G)
    <2> HIDE DEF G, one, count, size, bytes, extra, unit, wasted, rest
    <2>1. \A g \in G : bytes[g] = SumFunctionOnSet(size, g)
      BY <1>5
    <2>2. \A e \in UNION G : size[e] \in Nat
      BY <1>6
    <2>3. IsFiniteSet(G) /\ (\A g \in G : IsFiniteSet(g)) /\ \A g, h \in G : g # h => g \cap h = {}
      BY <1>1
    <2> QED BY ONLY <2>1, <2>2, <2>3, SumOverUnion
  <1>9. SumFunctionOnSet(count, G) = SumFunctionOnSet(extra, G) + SumFunctionOnSet(unit, G)
    <2> HIDE DEF count, extra, unit, wasted, rest, bytes
    <2> QED BY <1>1, <1>4, SumOfSums
  <1>10. SumFunctionOnSet(bytes, G) = SumFunctionOnSet(wasted, G) + SumFunctionOnSet(rest, G)
    <2> HIDE DEF count, extra, unit, wasted, rest, bytes
    <2> QED BY <1>1, <1>4, SumOfSums
  <1>11. SumFunctionOnSet(one, UNION G) = Cardinality(UNION G) /\ SumFunctionOnSet(unit, G) = Cardinality(G)
    <2>1. SumFunctionOnSet(one, UNION G) = Cardinality(UNION G) * 1
      BY <1>7, SumConstant
    <2>2. SumFunctionOnSet(unit, G) = Cardinality(G) * 1
      BY <1>1, SumConstant
    <2>3. Cardinality(UNION G) \in Nat /\ Cardinality(G) \in Nat
      BY <1>1, <1>7, FS_CardinalityType
    <2> QED BY <2>1, <2>2, <2>3
  <1>12. SumFunctionOnSet(extra, G) \in Nat /\ SumFunctionOnSet(wasted, G) \in Nat /\ Cardinality(G) \in Nat
    <2>1. Cardinality(G) \in Nat
      BY <1>1, FS_CardinalityType
    <2> HIDE DEF count, extra, unit, wasted, rest, bytes
    <2> QED BY <1>1, <1>4, <2>1, SumIsNatural
  <1>13. /\ SumFunction(extra) = SumFunctionOnSet(extra, G) /\ SumFunction(wasted) = SumFunctionOnSet(wasted, G)
         /\ SumFunction(rest) = SumFunctionOnSet(rest, G) /\ SumFunction(size) = SumFunctionOnSet(size, UNION G)
    BY DEF SumFunction
  <1>14. FinalStats.groups = Cardinality(G) /\ FinalStats.duplicates = SumFunction(extra) /\ FinalStats.wasted = SumFunction(wasted)
    BY DEF FinalStats, Statistics
  <1> QED BY <1>7, <1>8, <1>9, <1>10, <1>11, <1>12, <1>13, <1>14

LEMMA CountInit == Init => CountInv
  BY DEF Init, CountInv, Statistics, NoStats, NoReport, StatisticsAgree

(* Steps that leave the numbers and the groups alone. *)
LEMMA CountQuiet ==
    ASSUME CountInv, UNCHANGED <<inodeOf, contentOf, sizeGroups, fastGroups, finalGroups, stats, report>>,
           pc' = pc \/ pc' = "exit" \/ (pc = "discovery" /\ pc' = "discovered") \/ (pc = "dispatch" /\ pc' = "full"),
           pc' = "exit" => pc = "exit" \/ report = NoReport
    PROVE  CountInv'
  <1>1. StatisticsAgree'
    BY DEF CountInv, StatisticsAgree, NoReport, FileSize, Content
  <1>2. pc' # "exit" => pc # "exit"
    OBVIOUS
  <1> QED BY <1>1, <1>2 DEF CountInv

LEMMA CountGroupSizes == ASSUME TwinInv, CountInv, TypeOK', GroupSizes PROVE CountInv'
  <1>1. /\ pc = "discovered" /\ pc' \in {"fast", "exit"} /\ kept' \subseteq found /\ report' = report
        /\ sizeGroups' = Classes(kept', [e \in kept' |-> FileSize(e)])
        /\ stats' = [NoStats EXCEPT !.scanned = Cardinality(found),
                                    !.collapsed = Cardinality(found) - Cardinality(kept'),
                                    !.candidates = Cardinality(Candidates(sizeGroups'))]
    BY DEF GroupSizes, KeptChoices, Exit
  <1>2. found \subseteq Entries /\ Candidates(sizeGroups') \subseteq kept'
    BY <1>1, ClassesDisjoint DEF TwinInv, HashInv, TypeOK, Candidates
  <1>3. /\ IsFiniteSet(found) /\ Cardinality(found) \in Nat
        /\ IsFiniteSet(kept') /\ Cardinality(kept') \in Nat /\ Cardinality(kept') <= Cardinality(found)
        /\ Cardinality(Candidates(sizeGroups')) \in Nat /\ Cardinality(Candidates(sizeGroups')) <= Cardinality(kept')
    <2>1. IsFiniteSet(found) /\ Cardinality(found) \in Nat
      BY <1>2, EntriesAssumption, FS_Subset, FS_CardinalityType
    <2>2. IsFiniteSet(kept') /\ Cardinality(kept') \in Nat /\ Cardinality(kept') <= Cardinality(found)
      BY <1>1, <2>1, FS_Subset, FS_CardinalityType
    <2>3. Cardinality(Candidates(sizeGroups')) \in Nat /\ Cardinality(Candidates(sizeGroups')) <= Cardinality(kept')
      BY <1>2, <2>2, FS_Subset, FS_CardinalityType
    <2> QED BY <2>1, <2>2, <2>3
  <1>4. /\ stats' \in Statistics /\ stats'.full = 0
        /\ stats'.candidates = Cardinality(Candidates(sizeGroups')) /\ stats'.candidates + stats'.collapsed <= stats'.scanned
    <2> DEFINE f == Cardinality(found)
               k == Cardinality(kept')
               c == Cardinality(Candidates(sizeGroups'))
    <2>1. f \in Nat /\ k \in Nat /\ c \in Nat /\ k <= f /\ c <= k
      BY <1>3
    <2>2. stats' = [NoStats EXCEPT !.scanned = f, !.collapsed = f - k, !.candidates = c]
      BY <1>1
    <2> HIDE DEF f, k, c
    <2>3. f - k \in Nat /\ c + (f - k) <= f
      BY <2>1
    <2>4. stats' \in Statistics /\ stats'.full = 0 /\ stats'.candidates = c /\ stats'.collapsed = f - k /\ stats'.scanned = f
      BY <2>1, <2>2, <2>3 DEF NoStats, Statistics
    <2>5. stats'.candidates = Cardinality(Candidates(sizeGroups'))
      BY <2>4 DEF c
    <2> QED BY <2>3, <2>4, <2>5
  <1>5. report = NoReport
    BY <1>1 DEF CountInv
  <1> QED BY <1>1, <1>4, <1>5 DEF CountInv, StatisticsAgree, NoReport

LEMMA CountEndFast == ASSUME CountInv, EndFastPass PROVE CountInv'
  <1>1. /\ pc = "fast" /\ pc' \in {"output", "dispatch"} /\ (pc' = "output" => fastGroups' = {})
        /\ stats' = [stats EXCEPT !.fast = stats.candidates] /\ UNCHANGED <<sizeGroups, report>>
    BY DEF EndFastPass
  <1>2. stats \in Statistics /\ stats.full = 0 /\ report = NoReport
    BY <1>1 DEF CountInv
  <1>3. /\ stats' \in Statistics /\ stats'.fast = stats'.candidates /\ stats'.full = 0
        /\ stats'.candidates = stats.candidates /\ stats'.collapsed = stats.collapsed /\ stats'.scanned = stats.scanned
    BY <1>1, <1>2 DEF Statistics
  <1>4. pc' = "output" => stats'.full = Cardinality(Candidates(fastGroups'))
    <2>1. UNION {} = {} /\ Cardinality({}) = 0
      BY FS_EmptySet
    <2> QED BY <1>1, <1>3, <2>1 DEF Candidates
  <1> QED BY <1>1, <1>2, <1>3, <1>4 DEF CountInv, StatisticsAgree, NoReport

LEMMA CountEndFull == ASSUME TwinInv, CountInv, EndFullPass PROVE CountInv'
  <1>1. /\ pc = "full" /\ pc' = "output" /\ UNCHANGED <<sizeGroups, fastGroups, report>>
        /\ stats' = [stats EXCEPT !.full = Cardinality(Candidates(fastGroups))]
    BY DEF EndFullPass
  <1>2. stats \in Statistics /\ report = NoReport
    BY <1>1 DEF CountInv
  <1>3. Cardinality(Candidates(fastGroups)) \in Nat
    <2>1. Candidates(fastGroups) \subseteq Entries
      BY DEF TwinInv, HashInv, TypeOK, Candidates
    <2> QED BY <2>1, EntriesAssumption, FS_Subset, FS_CardinalityType
  <1>4. /\ stats' \in Statistics /\ stats'.full = Cardinality(Candidates(fastGroups)) /\ stats'.fast = stats.fast
        /\ stats'.candidates = stats.candidates /\ stats'.collapsed = stats.collapsed /\ stats'.scanned = stats.scanned
    BY <1>1, <1>2, <1>3 DEF Statistics
  <1> QED BY <1>1, <1>2, <1>4 DEF CountInv, StatisticsAgree, NoReport

LEMMA CountOutput == ASSUME TwinInv, CountInv, Output PROVE CountInv'
  <1>1. pc = "output" /\ pc' = "exit" /\ stats' = FinalStats /\ UNCHANGED <<inodeOf, contentOf, finalGroups>>
    BY DEF Output, Exit
  <1>2. /\ stats \in Statistics /\ stats.candidates + stats.collapsed <= stats.scanned
        /\ stats.candidates = Cardinality(Candidates(sizeGroups)) /\ stats.fast = stats.candidates
        /\ stats.full = Cardinality(Candidates(fastGroups))
    BY <1>1 DEF CountInv
  <1>3. /\ FinalStats.groups \in Nat /\ FinalStats.duplicates \in Nat /\ FinalStats.wasted \in Nat
        /\ FinalStats.duplicates + FinalStats.groups = Cardinality(UNION finalGroups)
        /\ FinalStats.wasted + SumFunction([g \in finalGroups |-> FileSize(CHOOSE e \in g : TRUE)])
               = SumFunction([e \in UNION finalGroups |-> FileSize(e)])
    BY <1>1, <1>2, FinalSums
  <1>4. /\ FinalStats \in Statistics /\ FinalStats.candidates = stats.candidates /\ FinalStats.collapsed = stats.collapsed
        /\ FinalStats.scanned = stats.scanned /\ FinalStats.full = stats.full /\ FinalStats.fast = stats.fast
    <2>1. FinalStats = [stats EXCEPT !.groups = FinalStats.groups, !.duplicates = FinalStats.duplicates, !.wasted = FinalStats.wasted]
      BY <1>2 DEF FinalStats, Statistics
    <2> QED BY <1>2, <1>3, <2>1 DEF Statistics
  <1>5. /\ Cardinality(UNION finalGroups) <= Cardinality(UNION fastGroups)
        /\ Cardinality(UNION fastGroups) <= Cardinality(UNION sizeGroups)
    <2>1. UNION finalGroups \subseteq UNION fastGroups /\ UNION fastGroups \subseteq UNION sizeGroups /\ UNION sizeGroups \subseteq Entries
      BY <1>1, FinalFacts
    <2>2. IsFiniteSet(UNION sizeGroups)
      BY <2>1, EntriesAssumption, FS_Subset
    <2>3. IsFiniteSet(UNION fastGroups) /\ Cardinality(UNION fastGroups) <= Cardinality(UNION sizeGroups)
      BY <2>1, <2>2, FS_Subset
    <2> QED BY <2>1, <2>3, FS_Subset
  <1>6. StatisticsAgree'
    <2>1. /\ stats'.duplicates + stats'.groups = Cardinality(UNION finalGroups) /\ stats'.duplicates + stats'.groups <= stats'.full
          /\ stats'.full <= stats'.fast /\ stats'.fast = stats'.candidates
          /\ stats'.candidates + stats'.collapsed <= stats'.scanned
      BY <1>1, <1>2, <1>3, <1>4, <1>5 DEF Candidates
    <2>2. stats'.wasted + SumFunction([g \in finalGroups |-> FileSize(CHOOSE e \in g : TRUE)])
               = SumFunction([e \in UNION finalGroups |-> FileSize(e)])
      BY <1>1, <1>3
    <2>3. \A e : FileSize(e)' = FileSize(e)
      BY <1>1 DEF FileSize, Content
    <2> QED BY <1>1, <2>1, <2>2, <2>3 DEF StatisticsAgree
  <1> QED BY <1>1, <1>4, <1>6 DEF CountInv

LEMMA CountNext == TwinInv /\ CountInv /\ [Next]_vars => CountInv'
  <1> SUFFICES ASSUME TwinInv, CountInv, [Next]_vars PROVE CountInv'
    OBVIOUS
  <1>1. CASE Discover \/ Interrupted \/ NothingFound \/ StartFullPass \/ GiveUp \/ Signal
    <2>1. UNCHANGED <<inodeOf, contentOf, sizeGroups, fastGroups, finalGroups, stats, report>> /\ pc # "exit"
      BY <1>1 DEF Discover, Interrupted, NothingFound, StartFullPass, GiveUp, Signal
    <2>2. pc' = pc \/ pc' = "exit" \/ (pc = "discovery" /\ pc' = "discovered") \/ (pc = "dispatch" /\ pc' = "full")
      BY <1>1 DEF Discover, Interrupted, NothingFound, StartFullPass, GiveUp, Signal, Exit
    <2>3. report = NoReport
      BY <2>1 DEF CountInv
    <2> QED BY <2>1, <2>2, <2>3, CountQuiet
  <1>2. CASE GroupSizes
    BY <1>2, TwinNext, CountGroupSizes DEF TwinInv, HashInv
  <1>3. CASE EndFastPass \/ EndFullPass \/ Output
    BY <1>3, CountEndFast, CountEndFull, CountOutput
  <1>4. CASE (\E e \in Entries : FastSkip(e) \/ FastHash(e))
             \/ (\E b \in todo : FullSkip(b) \/ \E w \in Workers : NoSlot(w, b) \/ FullBatch(w, b)) \/ UNCHANGED vars
    <2>1. UNCHANGED <<inodeOf, contentOf, pc, sizeGroups, fastGroups, finalGroups, stats, report>>
      BY <1>4 DEF FastSkip, FastHash, FullSkip, NoSlot, FullBatch, vars
    <2> QED BY <2>1, CountQuiet
  <1> QED BY <1>1, <1>2, <1>3, <1>4 DEF Next, Run, Exited

(* The printed statistics describe the printed groups, for any number of     *)
(* entries and whatever failed on the way: the duplicates and the groups     *)
(* together are the files reported, no stage counts more files than the one  *)
(* before it, and the wasted bytes are what keeping one file of each group   *)
(* would free.                                                               *)
THEOREM StatisticsCorrect == Spec => []StatisticsAgree
  <1>1. CountInv => StatisticsAgree
    BY DEF CountInv
  <1> QED BY <1>1, TwinInit, TwinNext, CountInit, CountNext, PTL DEF Spec

-----------------------------------------------------------------------------
(* FindsDuplicates: a run implements FindDuplicates.  Beside the invariants  *)
(* above the refinement needs that no file is kept before it is selected,    *)
(* and that the full pass, the only one to read files to their end, works    *)
(* on kept files alone.                                                      *)

SelectInv ==
    /\ pc \in {"discovery", "discovered"} => kept = {}
    /\ pc \in {"fast", "dispatch", "full", "output"} => kept # {}
    /\ pc \in {"discovery", "discovered", "fast", "dispatch"} => \A e \in Entries : ~ Hashed(e)
    /\ pc = "full" => \A b \in todo : b.members \subseteq kept
    /\ \A e \in Entries : Hashed(e) => e \in kept

RunInv == TwinInv /\ CountInv /\ SelectInv

LEMMA SelectInit == Init => SelectInv
  BY DEF Init, SelectInv, Hashed

(* The members of a batch are candidates. *)
LEMMA BatchesWithin ==
    ASSUME NEW S, IsFiniteSet(S), NEW f \in Orders(S), NEW b
    PROVE  BatchOf(f, Cardinality(S), b).members \subseteq S
  <1>1. f \in [1..Cardinality(S) -> S]
    BY DEF Orders
  <1>2. BatchOf(f, Cardinality(S), b).members = {f[i] : i \in {k \in 1..Cardinality(S) : (k - 1) \div BatchSize = b - 1}}
    BY DEF BatchOf
  <1> QED BY <1>1, <1>2

(* The files of the full pass are kept ones. *)
LEMMA FastWithinKept ==
    ASSUME TwinInv, pc \in {"dispatch", "full", "output"}
    PROVE  UNION fastGroups \subseteq kept
  <1>1. sizeGroups = Classes(kept, [e \in kept |-> FileSize(e)]) /\ fastGroups = Split(sizeGroups, fastHash)
    BY DEF TwinInv, StagesInv
  <1>2. Disjoint(sizeGroups) /\ UNION sizeGroups \subseteq kept
    BY <1>1, ClassesDisjoint
  <1>3. UNION Split(sizeGroups, fastHash) \subseteq UNION sizeGroups
    BY ONLY <1>2, SplitDisjoint
  <1> QED BY <1>1, <1>2, <1>3

LEMMA SelectNext == TwinInv /\ SelectInv /\ [Next]_vars => SelectInv'
  <1> SUFFICES ASSUME TwinInv, SelectInv, [Next]_vars PROVE SelectInv'
    OBVIOUS
  <1>1. CASE Discover \/ Interrupted \/ NothingFound \/ Output \/ GiveUp \/ Signal \/ UNCHANGED vars
    <2>1. UNCHANGED <<kept, todo, fullHash>> /\ (pc' = pc \/ pc' = "exit" \/ (pc = "discovery" /\ pc' = "discovered"))
      BY <1>1 DEF Discover, Interrupted, NothingFound, Output, GiveUp, Signal, Exit, vars, hashes
    <2> QED BY <2>1 DEF SelectInv, Hashed
  <1>2. CASE GroupSizes
    <2>1. pc = "discovered" /\ pc' \in {"fast", "exit"} /\ UNCHANGED fullHash
      BY <1>2 DEF GroupSizes, Exit, hashes
    <2>2. kept' # {}
      BY <1>2 DEF GroupSizes, KeptChoices
    <2> QED BY <2>1, <2>2 DEF SelectInv, Hashed
  <1>3. CASE (\E e \in Entries : FastSkip(e) \/ FastHash(e)) \/ EndFastPass
    <2>1. pc = "fast" /\ pc' \in {"fast", "dispatch", "output"} /\ UNCHANGED <<kept, fullHash>>
      BY <1>3 DEF FastSkip, FastHash, EndFastPass, hashes
    <2> QED BY <2>1 DEF SelectInv, Hashed
  <1>4. CASE StartFullPass
    <2>1. pc = "dispatch" /\ pc' = "full" /\ UNCHANGED <<kept, fullHash>>
      BY <1>4 DEF StartFullPass, hashes
    <2>2. PICK S : S = Candidates(fastGroups)
      OBVIOUS
    <2>3. S \subseteq Entries /\ S \subseteq kept /\ IsFiniteSet(S)
      <3>1. S \subseteq Entries /\ S \subseteq kept
        BY <2>1, <2>2, FastWithinKept DEF Candidates, TwinInv, HashInv, TypeOK
      <3> QED BY <3>1, EntriesAssumption, FS_Subset
    <2>4. PICK f \in Orders(S) : todo' = {BatchOf(f, Cardinality(S), b) : b \in 1..BatchCount(Cardinality(S))}
      BY <1>4, <2>2 DEF StartFullPass
    <2>5. \A b \in todo' : b.members \subseteq S
      BY <2>3, <2>4, BatchesWithin
    <2> QED BY <2>1, <2>3, <2>5 DEF SelectInv, Hashed
  <1>5. CASE \E b \in todo : FullSkip(b) \/ \E w \in Workers : NoSlot(w, b) \/ FullBatch(w, b)
    <2>1. pc = "full" /\ todo' \subseteq todo /\ UNCHANGED <<pc, kept>>
      BY <1>5 DEF FullSkip, NoSlot, FullBatch
    <2>2. \A e \in Entries : fullHash'[e] = fullHash[e] \/ \E b \in todo : e \in b.members
      BY <1>5 DEF FullSkip, NoSlot, FullBatch, hashes
    <2> QED BY <2>1, <2>2 DEF SelectInv, Hashed
  <1>6. CASE EndFullPass
    BY <1>6 DEF EndFullPass, SelectInv, Hashed, hashes
  <1> QED BY <1>1, <1>2, <1>3, <1>4, <1>5, <1>6 DEF Next, Run, Exited

LEMMA RunInvariance == Spec => []RunInv
  BY TwinInit, TwinNext, CountInit, CountNext, SelectInit, SelectNext, PTL DEF Spec, RunInv

LEMMA TwoOfGroup ==
    ASSUME NEW g, IsFiniteSet(g), Cardinality(g) >= 2
    PROVE  \E x, y \in g : x # y
  <1>1. g # {}
    BY FS_EmptySet
  <1>2. PICK x \in g : TRUE
    BY <1>1
  <1>3. Cardinality({x}) = 1
    BY FS_Singleton
  <1> QED BY <1>2, <1>3

(* What a run may report, whatever happened: groups of two or more kept      *)
(* files, and one file that was read makes the group one of identical files. *)
LEMMA GroupFacts ==
    ASSUME TwinInv, pc = "output", NEW g \in finalGroups
    PROVE  /\ g \subseteq kept /\ g \subseteq Entries
           /\ \E x, y \in g : x # y
           /\ \A x, y \in g : Hashed(x) => Hashed(y) /\ Content(x) = Content(y)
           /\ Undisturbed => \A x \in g : Hashed(x)
  <1>1. g \subseteq UNION fastGroups /\ g \subseteq Entries /\ IsFiniteSet(g)
    BY FinalFacts
  <1>2. g \subseteq kept
    BY <1>1, FastWithinKept
  <1>3. Cardinality(g) >= 2
    BY DEF TwinInv, StagesInv, Split, Classes
  <1>4. \E x, y \in g : x # y
    BY <1>1, <1>3, TwoOfGroup
  <1>5. ASSUME NEW x \in g, NEW y \in g, Hashed(x) PROVE Hashed(y) /\ Content(x) = Content(y)
    <2>1. x \in Entries /\ y \in Entries /\ fullHash[x] = fullHash[y]
      BY <1>1 DEF TwinInv, HashInv, GroupsAgree
    <2> QED BY <1>5, <2>1 DEF TwinInv, HashInv, DigestsAreOwn, Hashed
  <1>6. ASSUME Undisturbed, NEW x \in g PROVE Hashed(x)
    BY <1>1, <1>6 DEF TwinInv, FullComplete, Candidates
  <1> QED BY <1>1, <1>2, <1>4, <1>5, <1>6

(* Without a failure or a signal a group is all of the kept files that hold  *)
(* what one of them holds.                                                   *)
LEMMA GroupIsClass ==
    ASSUME TwinInv, pc = "output", Undisturbed, NEW g \in finalGroups, NEW x \in g
    PROVE  g = {z \in kept : Content(z) = Content(x)}
  <1>1. g \subseteq kept /\ Hashed(x) /\ \A z \in g : Content(z) = Content(x)
    BY GroupFacts
  <1>2. ASSUME NEW z \in kept, Content(z) = Content(x), z # x PROVE z \in g
    <2>1. x \in kept
      BY <1>1
    <2>2. Hashed(x) /\ fastHash[x] = FastOf[Content(x)] /\ Hashed(z) /\ fastHash[z] = FastOf[Content(z)]
      BY <1>2, <2>1, TwinsMeet
    <2>3. PICK h \in finalGroups : x \in h /\ z \in h
      BY <1>2, <2>1, <2>2, TwinsMeet
    <2>4. Disjoint(finalGroups)
      BY FinalFacts
    <2> QED BY <2>3, <2>4 DEF Disjoint
  <1> QED BY <1>1, <1>2

LEMMA ContentsMapped == \A e \in Entries : FileContents[e] = Content(e)
  BY DEF FileContents

LEMMA AnswerExact ==
    ASSUME TwinInv, pc = "output", Undisturbed
    PROVE  finalGroups = Abstract!Duplicates(kept)
  <1>0. kept \subseteq Entries
    BY DEF TwinInv, HashInv, TypeOK
  <1>1. \A x \in kept : {y \in kept : FileContents[y] = FileContents[x]} = {y \in kept : Content(y) = Content(x)}
    BY <1>0, ContentsMapped
  <1>2. ASSUME NEW g \in finalGroups PROVE g \in Abstract!Duplicates(kept)
    <2>1. PICK x \in g, y \in g : x # y
      BY GroupFacts
    <2>2. x \in kept /\ y \in kept /\ Content(x) = Content(y)
      BY GroupFacts
    <2>3. g = {z \in kept : FileContents[z] = FileContents[x]}
      BY <1>1, <2>2, GroupIsClass
    <2>4. FileContents[x] = FileContents[y]
      BY <1>0, <2>2, ContentsMapped
    <2> QED BY <2>1, <2>2, <2>3, <2>4 DEF Abstract!Duplicates, Abstract!Twins
  <1>3. ASSUME NEW d \in Abstract!Duplicates(kept) PROVE d \in finalGroups
    <2>1. PICK x \in kept : /\ \E y \in kept : x # y /\ FileContents[x] = FileContents[y]
                            /\ d = {y \in kept : FileContents[y] = FileContents[x]}
      BY <1>3 DEF Abstract!Duplicates, Abstract!Twins
    <2>2. PICK y \in kept : x # y /\ FileContents[x] = FileContents[y]
      BY <2>1
    <2>3. Content(x) = Content(y)
      BY <1>0, <2>2, ContentsMapped
    <2>4. Hashed(x) /\ fastHash[x] = FastOf[Content(x)] /\ Hashed(y) /\ fastHash[y] = FastOf[Content(y)]
      BY <2>2, <2>3, TwinsMeet
    <2>5. PICK g \in finalGroups : x \in g
      BY <2>2, <2>3, <2>4, TwinsMeet
    <2>6. g = {z \in kept : Content(z) = Content(x)}
      BY <2>5, GroupIsClass
    <2> QED BY <1>1, <2>1, <2>5, <2>6
  <1> QED BY <1>2, <1>3

LEMMA AnswerSound ==
    ASSUME TwinInv, SelectInv, pc = "output"
    PROVE  Abstract!Sound(finalGroups)
  <1>1. ASSUME NEW g \in finalGroups PROVE g \subseteq kept /\ \E x, y \in g : x # y
    BY GroupFacts
  <1>2. \A g, h \in finalGroups : g # h => g \cap h = {}
    BY FinalFacts DEF Disjoint
  <1>3. ASSUME NEW g \in finalGroups, NEW x \in g, NEW y \in g, x \in FilesRead
        PROVE  y \in FilesRead /\ FileContents[x] = FileContents[y]
    <2>1. x \in Entries /\ y \in Entries /\ Hashed(x)
      BY <1>3, GroupFacts DEF FilesRead
    <2>2. Hashed(y) /\ Content(x) = Content(y)
      BY <2>1, GroupFacts
    <2> QED BY <2>1, <2>2, ContentsMapped DEF FilesRead
  <1>4. ASSUME NEW x \in FilesCompared, NEW y \in FilesCompared, x # y, FileContents[x] = FileContents[y]
        PROVE  \E g \in finalGroups : x \in g /\ y \in g
    <2>1. /\ x \in Entries /\ Hashed(x) /\ fastHash[x] = FastOf[Content(x)]
          /\ y \in Entries /\ Hashed(y) /\ fastHash[y] = FastOf[Content(y)]
      BY DEF FilesRead, FilesCompared
    <2>2. Content(x) = Content(y)
      BY <1>4, <2>1, ContentsMapped
    <2>3. x \in kept /\ y \in kept
      BY <2>1 DEF SelectInv
    <2> QED BY <1>4, <2>1, <2>2, <2>3, TwinsMeet
  <1> QED BY <1>1, <1>2, <1>3, <1>4 DEF Abstract!Sound, Abstract!Twins

-----------------------------------------------------------------------------
(* The steps of a run as steps of FindDuplicates *)

(* No file of any two is a twin of the other if no two have one size. *)
LEMMA DifferentSizes ==
    ASSUME NEW S \in SUBSET Entries, Classes(S, [e \in S |-> FileSize(e)]) = {}
    PROVE  \A x, y \in S : x # y => Content(x) # Content(y)
  <1> SUFFICES ASSUME NEW x \in S, NEW y \in S, x # y, Content(x) = Content(y) PROVE FALSE
    OBVIOUS
  <1>1. PICK key : key = [e \in S |-> FileSize(e)]
    OBVIOUS
  <1>2. key[x] = key[y]
    BY <1>1 DEF FileSize
  <1>3. IsFiniteSet(S)
    BY EntriesAssumption, FS_Subset
  <1> QED BY <1>1, <1>2, <1>3, ClassOfTwo

LEMMA RunInitRefines == ASSUME Init PROVE Abstract!Init
  <1>1. \A e \in Entries : Content(e) \in Contents
    BY TypeInit, ContentFacts
  <1>2. FileContents \in [Entries -> Contents]
    BY <1>1 DEF FileContents
  <1>3. FilesRead = {} /\ FilesCompared = {}
    BY DEF Init, FilesRead, FilesCompared, Hashed
  <1>4. kept = {} /\ signalled = FALSE /\ Answered = {} /\ Status = "running"
    BY DEF Init, Answered, Status
  <1> QED BY <1>2, <1>3, <1>4 DEF Abstract!Init

(* Files and contents stay as they are between the batches. *)
LEMMA FilesSame ==
    ASSUME UNCHANGED <<inodeOf, contentOf, fastHash, fullHash>>
    PROVE  UNCHANGED <<FileContents, FilesRead, FilesCompared>>
  BY DEF FileContents, FilesRead, FilesCompared, Content, Hashed

(* Before the full pass no file counts as read, whatever the fast pass does. *)
LEMMA NoneRead ==
    ASSUME UNCHANGED <<inodeOf, contentOf, fullHash>>, \A e \in Entries : ~ Hashed(e)
    PROVE  /\ FilesRead = {} /\ FilesCompared = {} /\ FilesRead' = {} /\ FilesCompared' = {}
           /\ UNCHANGED FileContents
  <1>1. FilesRead = {} /\ FilesRead' = {}
    BY DEF FilesRead, Hashed
  <1>2. FilesCompared = {} /\ FilesCompared' = {}
    BY <1>1 DEF FilesCompared
  <1> QED BY <1>1, <1>2 DEF FileContents, Content

(* A step that goes on changes neither the answer nor the status. *)
LEMMA GoesOn ==
    ASSUME pc # "exit", pc' # "exit"
    PROVE  Answered = {} /\ Answered' = {} /\ Status = "running" /\ Status' = "running"
  BY DEF Answered, Status

LEMMA QuietRefines ==
    ASSUME UNCHANGED <<FileContents, FilesRead, FilesCompared, kept, signalled>>, pc # "exit", pc' # "exit"
    PROVE  UNCHANGED Abstract!vars
  BY GoesOn DEF Abstract!vars

(* A run that gives up, or whose output fails, or that was interrupted. *)
LEMMA FailRefines ==
    ASSUME UNCHANGED <<FileContents, FilesRead, FilesCompared, kept, signalled>>, pc # "exit", pc' = "exit",
           exitCode' = 1 \/ (exitCode' = 130 /\ signalled /\ kept = {})
    PROVE  Abstract!Next
  <1>1. Answered = {} /\ Answered' = {} /\ Status = "running"
    BY DEF Answered, Status
  <1>2. Status' = "failed" \/ (Status' = "interrupted" /\ signalled /\ kept = {})
    BY DEF Status
  <1>3. Abstract!Fail
    BY <1>1, <1>2 DEF Abstract!Fail
  <1> QED BY <1>3 DEF Abstract!Next

LEMMA NothingFoundRefines == ASSUME RunInv, NothingFound PROVE Abstract!Next
  <1>1. /\ pc = "discovered" /\ pc' = "exit" /\ ~ signalled /\ exitCode' \in {0, 1}
        /\ UNCHANGED <<inodeOf, contentOf, signalled, kept, fastHash, fullHash, report>>
    BY DEF NothingFound, Exit, hashes
  <1>2. kept = {} /\ report = NoReport /\ \A e \in Entries : ~ Hashed(e)
    BY <1>1 DEF RunInv, SelectInv, CountInv
  <1>3. UNCHANGED <<FileContents, FilesRead, FilesCompared>> /\ FilesCompared = {}
    BY <1>1, <1>2, NoneRead
  <1>4. CASE exitCode' = 1
    BY <1>1, <1>3, <1>4, FailRefines
  <1>5. CASE exitCode' = 0
    <2>1. Answered' = {} /\ Status = "running" /\ Status' = "done"
      BY <1>1, <1>2, <1>5 DEF Answered, Status, NoReport
    <2>2. Abstract!Sound({}) /\ Abstract!Duplicates({}) = {}
      BY <1>3 DEF Abstract!Sound, Abstract!Duplicates
    <2>3. Abstract!Answer
      BY <1>1, <1>2, <1>3, <2>1, <2>2 DEF Abstract!Answer
    <2> QED BY <2>3 DEF Abstract!Next
  <1> QED BY <1>1, <1>4, <1>5

LEMMA GroupSizesRefines == ASSUME RunInv, TypeOK', GroupSizes PROVE Abstract!Next
  <1>1. /\ pc = "discovered" /\ ~ signalled
        /\ UNCHANGED <<inodeOf, contentOf, signalled, fastHash, fullHash, report>>
        /\ sizeGroups' = Classes(kept', [e \in kept' |-> FileSize(e)])
        /\ pc' = "fast" \/ (pc' = "exit" /\ exitCode' = 0 /\ sizeGroups' = {})
    BY DEF GroupSizes, Exit, hashes
  <1>2. kept = {} /\ report = NoReport /\ \A e \in Entries : ~ Hashed(e)
    BY <1>1 DEF RunInv, SelectInv, CountInv
  <1>3. UNCHANGED <<FileContents, FilesRead, FilesCompared>>
    BY <1>1, <1>2, NoneRead
  <1>4. kept' \in SUBSET Entries
    BY DEF TypeOK
  <1>5. Status = "running" /\ Answered = {} /\ Answered' = {}
    BY <1>1, <1>2 DEF Status, Answered, NoReport
  <1>6. CASE pc' = "fast"
    <2>1. Status' = "running"
      BY <1>6 DEF Status
    <2>2. Abstract!Select
      BY <1>1, <1>2, <1>3, <1>4, <1>5, <2>1 DEF Abstract!Select
    <2> QED BY <2>2 DEF Abstract!Next
  <1>7. CASE pc' = "exit"
    <2>1. Status' = "done"
      BY <1>1, <1>7 DEF Status
    <2>2. Classes(kept', [e \in kept' |-> FileSize(e)]) = {}
      BY <1>1, <1>7
    <2>3. \A x, y \in kept' : x # y => Content(x) # Content(y)
      BY <1>4, <2>2, DifferentSizes
    <2>4. \A x, y \in kept' : ~ Abstract!Twins(x, y)
      BY <1>4, <2>3, ContentsMapped DEF Abstract!Twins
    <2>5. Abstract!Select
      BY <1>1, <1>2, <1>3, <1>4, <1>5, <2>1, <2>4 DEF Abstract!Select
    <2> QED BY <2>5 DEF Abstract!Next
  <1> QED BY <1>1, <1>6, <1>7

LEMMA FullBatchRefines == ASSUME RunInv, NEW b \in todo, NEW w \in Workers, FullBatch(w, b) PROVE Abstract!Next
  <1>1. pc = "full" /\ UNCHANGED <<inodeOf, contentOf, pc, signalled, kept, fastHash>> /\ b.members \subseteq kept
    BY DEF FullBatch, RunInv, SelectInv
  <1>2. PICK unread : fullHash' = [e \in Entries |-> IF e \in b.members \ unread THEN Digest(e) ELSE fullHash[e]]
    BY DEF FullBatch
  <1>3. \A e \in Entries : Digest(e) # NoDigest
    BY ContentFacts, ContentAssumption DEF Digest, RunInv, TwinInv, HashInv
  <1>4. PICK S : S = (Entries \cap (b.members \ unread)) \ FilesRead
    OBVIOUS
  <1>5. S \subseteq kept \ FilesRead
    BY <1>1, <1>4
  <1>6. FilesRead' = FilesRead \cup S
    BY <1>2, <1>3, <1>4 DEF FilesRead, Hashed
  <1>7. PICK T : T = {e \in S : fastHash[e] = FastOf[Content(e)]}
    OBVIOUS
  <1>8. FilesCompared' = FilesCompared \cup T
    BY <1>1, <1>6, <1>7 DEF FilesCompared, Content
  <1>9. Answered' = Answered /\ Status = "running" /\ Status' = Status
    BY <1>1 DEF Answered, Status
  <1>10. UNCHANGED FileContents
    BY <1>1 DEF FileContents, Content
  <1>11. Abstract!Read
    BY <1>1, <1>5, <1>6, <1>7, <1>8, <1>9, <1>10 DEF Abstract!Read
  <1> QED BY <1>11 DEF Abstract!Next

LEMMA OutputRefines == ASSUME RunInv, Output PROVE Abstract!Next
  <1>1. /\ pc = "output" /\ pc' = "exit"
        /\ UNCHANGED <<inodeOf, contentOf, signalled, kept, finalGroups, fastHash, fullHash>>
        /\ exitCode' = 1 \/ (exitCode' = 0 /\ (report'.kind = "summary" \/ report'.groups = finalGroups))
    BY DEF Output, Exit, Format, hashes
  <1>2. UNCHANGED <<FileContents, FilesRead, FilesCompared>>
    BY <1>1, FilesSame
  <1>3. CASE exitCode' = 1
    BY <1>1, <1>2, <1>3, FailRefines
  <1>4. CASE exitCode' = 0
    <2>1. Answered' = finalGroups /\ Status = "running" /\ Status' = "done"
      BY <1>1, <1>4 DEF Answered, Status
    <2>2. kept # {}
      BY <1>1 DEF RunInv, SelectInv
    <2>3. Abstract!Sound(finalGroups)
      BY <1>1, AnswerSound DEF RunInv
    <2>4. Faults \cap {"read", "ring"} = {} /\ ~ signalled => finalGroups = Abstract!Duplicates(kept)
      BY <1>1, AnswerExact DEF RunInv, Undisturbed
    <2>5. Abstract!Answer
      BY <1>1, <1>2, <2>1, <2>2, <2>3, <2>4 DEF Abstract!Answer
    <2> QED BY <2>5 DEF Abstract!Next
  <1> QED BY <1>1, <1>3, <1>4

LEMMA SignalRefines == ASSUME Signal PROVE Abstract!Next
  <1>1. pc # "exit" /\ pc' = pc /\ signalled' = TRUE /\ UNCHANGED <<inodeOf, contentOf, kept, fastHash, fullHash>>
    BY DEF Signal, hashes
  <1>2. UNCHANGED <<FileContents, FilesRead, FilesCompared>>
    BY <1>1, FilesSame
  <1>3. Abstract!Interrupt
    BY <1>1, <1>2, GoesOn DEF Abstract!Interrupt
  <1> QED BY <1>3 DEF Abstract!Next

(* Discovery, the fast pass, and everything in the full pass but a batch     *)
(* that is read: nothing the user could tell.                                *)
LEMMA InnerRefines ==
    ASSUME RunInv, \/ Discover \/ EndFastPass \/ StartFullPass \/ EndFullPass
                   \/ \E e \in Entries : FastSkip(e) \/ FastHash(e)
                   \/ \E b \in todo : FullSkip(b) \/ \E w \in Workers : NoSlot(w, b)
    PROVE  UNCHANGED Abstract!vars
  <1>1. UNCHANGED <<inodeOf, contentOf, kept, signalled, fullHash>> /\ pc # "exit" /\ pc' # "exit"
    BY DEF Discover, EndFastPass, StartFullPass, EndFullPass, FastSkip, FastHash, FullSkip, NoSlot, hashes
  <1>2. UNCHANGED fastHash \/ pc = "fast"
    BY DEF Discover, EndFastPass, StartFullPass, EndFullPass, FastSkip, FastHash, FullSkip, NoSlot, hashes
  <1>3. pc = "fast" => \A e \in Entries : ~ Hashed(e)
    BY DEF RunInv, SelectInv
  <1>4. UNCHANGED <<FileContents, FilesRead, FilesCompared>>
    BY <1>1, <1>2, <1>3, FilesSame, NoneRead
  <1> QED BY <1>1, <1>4, QuietRefines

LEMMA RunRefines == RunInv /\ RunInv' /\ [Next]_vars => [Abstract!Next]_(Abstract!vars)
  <1> SUFFICES ASSUME RunInv, RunInv', [Next]_vars PROVE [Abstract!Next]_(Abstract!vars)
    OBVIOUS
  <1>1. CASE Interrupted \/ GiveUp
    <2>1. /\ UNCHANGED <<inodeOf, contentOf, signalled, kept, fastHash, fullHash>> /\ pc # "exit" /\ pc' = "exit"
          /\ exitCode' = 1 \/ (exitCode' = 130 /\ signalled /\ pc = "discovered")
      BY <1>1 DEF Interrupted, GiveUp, Exit, hashes
    <2>2. UNCHANGED <<FileContents, FilesRead, FilesCompared>>
      BY <2>1, FilesSame
    <2> QED BY <2>1, <2>2, FailRefines DEF RunInv, SelectInv
  <1>2. CASE NothingFound \/ GroupSizes \/ Output \/ Signal
    BY <1>2, NothingFoundRefines, GroupSizesRefines, OutputRefines, SignalRefines DEF RunInv, TwinInv, HashInv
  <1>3. CASE \E b \in todo : \E w \in Workers : FullBatch(w, b)
    BY <1>3, FullBatchRefines
  <1>4. CASE UNCHANGED vars
    <2>1. UNCHANGED <<inodeOf, contentOf, pc, signalled, kept, fastHash, fullHash, exitCode, report, finalGroups>>
      BY <1>4 DEF vars, hashes
    <2>2. UNCHANGED <<FileContents, FilesRead, FilesCompared, Answered, Status>>
      BY <2>1, FilesSame DEF Answered, Status
    <2> QED BY <2>1, <2>2 DEF Abstract!vars
  <1> QED BY <1>1, <1>2, <1>3, <1>4, InnerRefines DEF Next, Run, Exited

(* A run implements FindDuplicates for any entries, hard links and contents,  *)
(* any number of workers, any batch size and every combination of failures:   *)
(* if nothing fails and no signal comes its groups are exactly the classes of *)
(* identical files among those it kept; whatever fails, a file that was read  *)
(* is never grouped with a different or an unread one nor apart from a twin   *)
(* that was compared; and a signal before the files are selected leaves no    *)
(* answer.                                                                    *)
THEOREM RunFindsDuplicates == Spec => FindsDuplicates
  <1>1. Init => Abstract!Init
    BY RunInitRefines
  <1> QED BY <1>1, RunInvariance, RunRefines, PTL DEF Spec, FindsDuplicates, Abstract!Spec
=============================================================================
