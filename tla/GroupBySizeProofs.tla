-------------------------- MODULE GroupBySizeProofs --------------------------
(***************************************************************************)
(* Proofs about GroupBySize, for every array of entries, both settings of   *)
(* --match-hardlinks and every result of the unstable sort.                 *)
(***************************************************************************)
EXTENDS GroupBySize, FiniteLemmas

N == Len(input)

-----------------------------------------------------------------------------
(* The inductive invariant *)

(* Every place of the array holds an entry discovery found, stale places    *)
(* included.                                                                *)
ArrayInv ==
    /\ Len(entries) = N
    /\ \A l \in 1..N : input[l].path = l
    /\ \A i \in 1..N : entries[i].path \in 1..N /\ entries[i] = input[entries[i].path]

(* Where the indices of the compaction stand to each other, and how many    *)
(* links it has dropped.                                                    *)
IndexInv ==
    /\ collapsed + write = run /\ run <= N + 1
    /\ pc \in {"sort", "compact", "collapse"} => count = N
    /\ pc = "sort" => run = 1
    /\ pc \in {"compact", "collapse"} => ~ matchHardlinks
    /\ pc = "collapse" => /\ runLen >= 1 /\ run + runLen <= N + 1
                          /\ write + 1 <= w /\ r <= write + runLen /\ w + collapsedRun = r
    /\ pc \in {"allocate", "scan", "done"} =>
         IF matchHardlinks THEN count = N /\ collapsed = 0 ELSE collapsed + count = N

(* The places whose entries count: those kept, the rest of the run being    *)
(* collapsed, and the runs still to be read.                                *)
Kept ==
    IF pc = "compact" THEN 1..(write - 1)
    ELSE IF pc = "collapse" THEN 1..(w - 1) ELSE 1..count

Live ==
    IF pc = "compact" THEN Kept \cup run..N
    ELSE IF pc = "collapse" THEN Kept \cup r..(write + runLen - 1) \cup (run + runLen)..N
    ELSE Kept

Ordered == pc # "sort" => \A i, j \in Live : i < j => ~ LessThan(entries[j], entries[i])

(* No two entries kept are links to one inode. *)
Strict == pc # "sort" /\ ~ matchHardlinks => \A i, j \in Kept : i < j => LessThan(entries[i], entries[j])

SameKey(x, y) == x.size = y.size /\ x.dev = y.dev /\ x.ino = y.ino

(* No inode has been lost. *)
Complete == \A l \in 1..N : \E i \in Live : SameKey(entries[i], input[l])

(* The run being collapsed has one size, smaller than what is kept before   *)
(* it and larger than what is still to be read.                             *)
SizesInv ==
    /\ pc = "compact" => \A i \in 1..(write - 1), j \in run..N : entries[i].size > entries[j].size
    /\ pc = "collapse" =>
         /\ \A i \in 1..(write - 1) : entries[i].size > entries[write].size
         /\ \A i \in write..(write + runLen - 1) : entries[i].size = entries[write].size
         /\ \A j \in (run + runLen)..N : entries[write].size > entries[j].size

(* What is still to be read is as the sort left it. *)
Unread == IF pc = "collapse" THEN run + runLen ELSE run

UnreadInv ==
    pc \in {"sort", "compact", "collapse"} => \A i, j \in Unread..N : entries[i].path = entries[j].path => i = j

Size(i) == entries[i].size

(* A group is a complete class of one size below the cursor. *)
IsClass(g) ==
    /\ g.start >= 1 /\ g.length >= 2 /\ g.start + g.length <= cursor
    /\ Members(g) \subseteq 1..count
    /\ g.size = Size(g.start)
    /\ \A i \in Members(g) : \A j \in 1..count : j \in Members(g) <=> Size(j) = Size(i)

GroupsInv ==
    /\ \A k \in DOMAIN groups : IsClass(groups[k])
    /\ \A k, l \in DOMAIN groups : k < l => groups[k].start + groups[k].length <= groups[l].start

(* No class crosses the cursor, and those below it have their group. *)
ScanInv ==
    /\ pc \in {"sort", "compact", "collapse", "allocate"} => cursor = 1 /\ groups = <<>> /\ candidates = 0
    /\ pc = "scan" => cursor <= count + 1
    /\ pc = "done" => cursor = count + 1
    /\ \A i, j \in 1..count : i < cursor /\ cursor <= j => Size(i) # Size(j)
    /\ pc # "failed" => \A i, j \in 1..count : i # j /\ i < cursor /\ Size(i) = Size(j) =>
                            \E k \in DOMAIN groups : i \in Members(groups[k])

Grouped(gs) == UNION {Members(gs[k]) : k \in DOMAIN gs}

Counted == pc # "failed" => IsFiniteSet(Grouped(groups)) /\ candidates = Cardinality(Grouped(groups))

IndInv ==
    /\ TypeOK /\ ArrayInv /\ IndexInv
    /\ Ordered /\ Strict /\ Complete /\ SizesInv /\ UnreadInv
    /\ GroupsInv /\ ScanInv /\ Counted

-----------------------------------------------------------------------------
(* Helpers *)

(* The array and the indices of a well-typed state. *)
LEMMA TypeFacts ==
    ASSUME TypeOK, ArrayInv
    PROVE  /\ N \in Nat /\ DOMAIN input = 1..N /\ DOMAIN entries = 1..N
           /\ \A i \in 1..N : /\ entries[i] \in Entry /\ input[i] \in Entry
                              /\ entries[i].size \in Nat /\ entries[i].dev \in Nat /\ entries[i].ino \in Nat
           /\ count \in Nat /\ count <= N
           /\ Len(groups) \in Nat /\ DOMAIN groups = 1..Len(groups)
           /\ \A k \in DOMAIN groups : groups[k].start \in Nat /\ groups[k].length \in Nat
  <1>1. N \in Nat /\ DOMAIN input = 1..N /\ DOMAIN entries = 1..N
    BY LenProperties DEF TypeOK, ArrayInv, N
  <1>2. \A i \in 1..N : entries[i] \in Entry /\ input[i] \in Entry
    BY <1>1, ElementOfSeq DEF TypeOK, ArrayInv, N
  <1>3. \A i \in 1..N : entries[i].size \in Nat /\ entries[i].dev \in Nat /\ entries[i].ino \in Nat
    BY <1>2, SizesAssumption DEF Entry
  <1>4. count \in Nat /\ count <= N
    BY <1>1 DEF TypeOK, N
  <1>5. Len(groups) \in Nat /\ DOMAIN groups = 1..Len(groups) /\ \A k \in DOMAIN groups : groups[k] \in Group
    BY LenProperties, ElementOfSeq DEF TypeOK
  <1> QED BY <1>1, <1>2, <1>3, <1>4, <1>5 DEF Group

(* The loop that measures a run finds its end. *)
LEMMA RunLengthFacts ==
    ASSUME NEW s, NEW i \in Int, NEW n \in Int, i <= n
    PROVE  /\ RunLength(s, i, n) \in 1..(n - i + 1)
           /\ \A k \in i..(i + RunLength(s, i, n) - 1) : s[k].size = s[i].size
           /\ i + RunLength(s, i, n) <= n => s[i + RunLength(s, i, n)].size # s[i].size
  <1> DEFINE E == {k \in Int : s[k].size = s[i].size}
             m == n - i + 1
             P(len) == /\ \A k \in i..(i + len - 1) : s[k].size = s[i].size
                       /\ i + len <= n => s[i + len].size # s[i].size
  <1>1. i \in E /\ m \in Nat \ {0}
    OBVIOUS
  <1>2. PICK len \in 1..m : (\A k \in i..(i + len - 1) : k \in E) /\ (len < m => i + len \notin E)
    <2> HIDE DEF E, m
    <2> QED BY <1>1, RunExists
  <1>3. P(len)
    BY <1>2
  <1>4. RunLength(s, i, n) = CHOOSE l \in 1..m : P(l)
    BY DEF RunLength
  <1>5. RunLength(s, i, n) \in 1..m /\ P(RunLength(s, i, n))
    <2> HIDE DEF P, m
    <2> QED BY <1>3, <1>4
  <1> QED BY <1>5

(* The comparison is a strict order on sizes, devices and inodes, total up  *)
(* to entries of one inode.                                                 *)
LEMMA LessThanOrder ==
    ASSUME NEW x, NEW y, NEW z,
           x.size \in Nat, x.dev \in Nat, x.ino \in Nat,
           y.size \in Nat, y.dev \in Nat, y.ino \in Nat,
           z.size \in Nat, z.dev \in Nat, z.ino \in Nat
    PROVE  /\ LessThan(x, y) /\ LessThan(y, z) => LessThan(x, z)
           /\ ~ LessThan(y, x) /\ ~ SameKey(x, y) => LessThan(x, y)
           /\ ~ (LessThan(x, y) /\ SameKey(x, y))
           /\ ~ LessThan(y, x) => y.size <= x.size
           /\ ~ (LessThan(x, y) /\ LessThan(y, x))
  BY DEF LessThan, SameKey

-----------------------------------------------------------------------------
LEMMA InitInv == Init => IndInv
  <1> SUFFICES ASSUME Init PROVE IndInv
    OBVIOUS
  <1>1. PICK n \in 0..MaxEntries : \E stat \in [1..n -> Sizes \X Devices \X Inodes] :
             input = [i \in 1..n |-> [size |-> stat[i][1], dev |-> stat[i][2], ino |-> stat[i][3], path |-> i]]
    BY DEF Init
  <1>2. n \in Nat /\ input \in [1..n -> Entry] /\ \A i \in 1..n : input[i].path = i
    <2>1. PICK stat \in [1..n -> Sizes \X Devices \X Inodes] :
             input = [i \in 1..n |-> [size |-> stat[i][1], dev |-> stat[i][2], ino |-> stat[i][3], path |-> i]]
      BY <1>1
    <2>2. n \in Nat
      BY BoundsAssumption
    <2>3. \A i \in 1..n : stat[i][1] \in Sizes /\ stat[i][2] \in Devices /\ stat[i][3] \in Inodes
      BY <2>1
    <2> QED BY <2>1, <2>2, <2>3 DEF Entry
  <1>3. input \in Seq(Entry) /\ N = n /\ DOMAIN input = 1..n
    BY <1>2, ArrayIsSeq DEF N
  <1>4. groups = <<>> /\ groups \in Seq(Group) /\ DOMAIN groups = {}
    BY EmptySeq DEF Init
  <1>5. TypeOK
    BY <1>2, <1>3, <1>4, BoundsAssumption DEF Init, TypeOK, N
  <1>6. ArrayInv /\ IndexInv
    <2>1. entries = input /\ Len(input) = n
      BY <1>3 DEF Init, N
    <2>2. ArrayInv
      BY <1>2, <2>1 DEF ArrayInv, N
    <2>3. IndexInv
      BY <1>2, <2>1 DEF Init, IndexInv, N
    <2> QED BY <2>2, <2>3
  <1>7. Live = 1..N /\ entries = input /\ N \in Nat
    BY <1>2, <1>3 DEF Init, Live, Kept, N
  <1>8. Ordered /\ Strict /\ SizesInv
    BY DEF Init, Ordered, Strict, SizesInv
  <1>9. Complete /\ UnreadInv
    <2>1. \A l \in 1..N : SameKey(entries[l], input[l])
      BY <1>7 DEF SameKey
    <2>2. Complete
      BY <1>7, <2>1 DEF Complete
    <2>3. Unread = 1
      BY DEF Init, Unread
    <2> QED BY <1>6, <1>7, <2>2, <2>3 DEF UnreadInv, ArrayInv
  <1>10. GroupsInv
    BY <1>4 DEF GroupsInv
  <1>11. ScanInv
    <2>1. cursor = 1 /\ groups = <<>> /\ candidates = 0 /\ pc = "sort"
      BY DEF Init
    <2> QED BY <2>1 DEF ScanInv
  <1>12. Grouped(groups) = {}
    BY <1>4 DEF Grouped
  <1>13. Counted
    BY <1>12, FS_EmptySet DEF Counted, Init
  <1> QED BY <1>5, <1>6, <1>8, <1>9, <1>10, <1>11, <1>13 DEF IndInv

(* Until it begins, the scan's part of the invariant says nothing. *)
LEMMA BeforeScan ==
    ASSUME TypeOK', cursor' = 1, groups' = <<>>, candidates' = 0, pc' = "done" => count' = 0
    PROVE  GroupsInv' /\ ScanInv' /\ Counted'
  <1>1. DOMAIN groups' = {}
    BY EmptySeq
  <1>2. GroupsInv'
    BY <1>1 DEF GroupsInv
  <1>3. count' \in Nat
    BY LenProperties DEF TypeOK
  <1>4. ScanInv'
    <2>1. \A i \in 1..count' : ~ (i < cursor')
      BY <1>3
    <2>2. cursor' <= count' + 1 /\ (pc' = "done" => cursor' = count' + 1)
      <3>1. PICK c \in Nat : count' = c
        BY <1>3
      <3> QED BY <3>1
    <2>3. \A i, j \in 1..count' : i < cursor' /\ cursor' <= j => Size(i)' # Size(j)'
      BY <2>1
    <2>4. \A i, j \in 1..count' : i # j /\ i < cursor' /\ Size(i)' = Size(j)' =>
                            \E k \in DOMAIN groups' : i \in Members(groups'[k])
      BY <2>1
    <2> QED BY <2>2, <2>3, <2>4 DEF ScanInv
  <1>5. Grouped(groups)' = {}
    BY <1>1 DEF Grouped
  <1>6. Counted'
    BY <1>5, FS_EmptySet DEF Counted
  <1> QED BY <1>2, <1>4, <1>6

-----------------------------------------------------------------------------
(* The compaction *)

(* The numbers of a state before the scan. *)
LEMMA IndexFacts ==
    ASSUME IndInv
    PROVE  /\ N \in Nat /\ write \in Nat \ {0} /\ run \in Nat \ {0} /\ runLen \in Nat
           /\ w \in Nat \ {0} /\ r \in Nat \ {0} /\ collapsedRun \in Nat /\ collapsed \in Nat
           /\ count \in Nat /\ count <= N /\ run <= N + 1 /\ collapsed + write = run
           /\ pc \in {"sort", "compact", "collapse", "allocate"} => cursor = 1 /\ groups = <<>> /\ candidates = 0
  BY TypeFacts DEF IndInv, TypeOK, IndexInv, ScanInv

LEMMA NoEntriesInv == ASSUME IndInv, NoEntries PROVE IndInv'
  <1>1. pc = "sort" /\ count = 0 /\ pc' = "done" /\ UNCHANGED <<input, matchHardlinks, entries, count, compactVars, scanVars>>
    BY DEF NoEntries
  <1>2. /\ UNCHANGED <<input, matchHardlinks, entries, count, cursor, groups, capacity, candidates>>
        /\ UNCHANGED <<write, run, runLen, collapsed, w, r, collapsedRun>>
    BY <1>1 DEF compactVars, scanVars, collapseVars
  <1>3. TypeOK' /\ ArrayInv'
    BY <1>1, <1>2 DEF IndInv, TypeOK, ArrayInv, N
  <1>4. N' = N /\ N = 0 /\ run = 1 /\ collapsed = 0
    <2>1. count = N /\ run = 1
      BY <1>1 DEF IndInv, IndexInv
    <2> QED BY <1>1, <1>2, <2>1, IndexFacts DEF N
  <1>5. IndexInv'
    BY <1>1, <1>2, <1>4, IndexFacts DEF IndInv, IndexInv
  <1>6. Kept' = {} /\ Live' = {}
    BY <1>1, <1>2 DEF Kept, Live
  <1>7. Ordered' /\ Strict' /\ Complete' /\ SizesInv' /\ UnreadInv'
    BY <1>1, <1>4, <1>6 DEF Ordered, Strict, Complete, SizesInv, UnreadInv
  <1>8. GroupsInv' /\ ScanInv' /\ Counted'
    BY <1>1, <1>2, <1>3, BeforeScan, IndexFacts
  <1> QED BY <1>3, <1>5, <1>7, <1>8 DEF IndInv

(* The unstable sort rearranges the array. *)
LEMMA SortInv == ASSUME IndInv, Sort PROVE IndInv'
  <1>0. /\ N \in Nat /\ write \in Nat \ {0} /\ run \in Nat \ {0} /\ runLen \in Nat
        /\ w \in Nat \ {0} /\ r \in Nat \ {0} /\ collapsedRun \in Nat /\ collapsed \in Nat
        /\ count \in Nat /\ count <= N /\ run <= N + 1 /\ collapsed + write = run
    BY IndexFacts
  <1>1. pc = "sort" /\ entries' \in SortedVersions(entries)
        /\ pc' = (IF matchHardlinks THEN "allocate" ELSE "compact")
        /\ UNCHANGED <<input, matchHardlinks, count, cursor, groups, capacity, candidates>>
        /\ UNCHANGED <<write, run, runLen, collapsed, w, r, collapsedRun>>
    BY DEF Sort, compactVars, scanVars, collapseVars
  <1>2. /\ N' = N /\ N \in Nat /\ count = N /\ run = 1 /\ write = 1 /\ collapsed = 0
        /\ DOMAIN entries = 1..N /\ \A i \in 1..N : entries[i] \in Entry
    <2>1. count = N /\ run = 1
      BY <1>1 DEF IndInv, IndexInv
    <2> QED BY <1>1, <2>1, <1>0, TypeFacts DEF IndInv, N
  <1>3. PICK p \in [1..N -> 1..N] : /\ \A i, j \in 1..N : p[i] = p[j] => i = j
                                    /\ \A j \in 1..N : \E i \in 1..N : p[i] = j
                                    /\ entries' = [i \in 1..N |-> entries[p[i]]]
                                    /\ \A i, j \in 1..N : i < j => ~ LessThan(entries'[j], entries'[i])
    BY <1>1, <1>2 DEF SortedVersions, Bijection, Injection, Surjection, IsInjective
  <1>4. \A i \in 1..N : p[i] \in 1..N /\ entries'[i] = entries[p[i]]
    BY <1>3
  <1>5. entries' \in Seq(Entry) /\ Len(entries') = N
    <2>1. entries' \in [1..N -> Entry]
      BY <1>2, <1>3, <1>4
    <2> QED BY <1>2, <2>1, ArrayIsSeq
  <1>6. TypeOK'
    BY <1>1, <1>5 DEF IndInv, TypeOK
  <1>7. ArrayInv'
    <2>1. \A i \in 1..N : entries'[i].path \in 1..N /\ entries'[i] = input[entries'[i].path]
      BY <1>4 DEF IndInv, ArrayInv
    <2> QED BY <1>1, <1>2, <1>5, <2>1 DEF IndInv, ArrayInv
  <1>8. IndexInv'
    BY <1>1, <1>2, <1>0 DEF IndInv, IndexInv
  <1>9. Live' = 1..N /\ (~ matchHardlinks => Kept' = {})
    <2>1. CASE matchHardlinks
      BY <1>1, <1>2, <2>1 DEF Live, Kept
    <2>2. CASE ~ matchHardlinks
      <3>1. Kept' = {}
        BY <1>1, <1>2, <2>2 DEF Kept
      <3> QED BY <1>1, <1>2, <2>2, <3>1 DEF Live
    <2> QED BY <2>1, <2>2
  <1>10. Ordered' /\ Strict'
    BY <1>1, <1>3, <1>9 DEF Ordered, Strict
  <1>11. Complete'
    <2> SUFFICES ASSUME NEW l \in 1..N PROVE \E i \in 1..N : SameKey(entries'[i], input[l])
      BY <1>1, <1>2, <1>9 DEF Complete
    <2>1. Live = 1..N
      BY <1>1, <1>2 DEF Live, Kept
    <2>2. PICK j \in 1..N : SameKey(entries[j], input[l])
      BY <2>1 DEF IndInv, Complete
    <2>3. PICK i \in 1..N : p[i] = j
      BY <1>3
    <2> QED BY <1>4, <2>2, <2>3
  <1>12. SizesInv'
    BY <1>1, <1>2 DEF SizesInv
  <1>13. UnreadInv'
    <2>1. Unread = 1 /\ Unread' = 1
      BY <1>1, <1>2 DEF Unread
    <2>2. \A i, j \in 1..N : entries[i].path = entries[j].path => i = j
      BY <1>1, <2>1 DEF IndInv, UnreadInv
    <2>3. ASSUME NEW i \in 1..N, NEW j \in 1..N, entries'[i].path = entries'[j].path PROVE i = j
      <3>1. p[i] = p[j]
        BY <1>4, <2>2, <2>3
      <3> QED BY <1>3, <3>1
    <2> QED BY <1>2, <2>1, <2>3 DEF UnreadInv
  <1>14. GroupsInv' /\ ScanInv' /\ Counted'
    BY <1>1, <1>6, BeforeScan, IndexFacts
  <1> QED BY <1>6, <1>7, <1>8, <1>10, <1>11, <1>12, <1>13, <1>14 DEF IndInv

(* A link to the inode kept last is dropped. *)
LEMMA SkipHardlinkInv == ASSUME IndInv, SkipHardlink PROVE IndInv'
  <1>0. /\ N \in Nat /\ write \in Nat \ {0} /\ run \in Nat \ {0} /\ runLen \in Nat
        /\ w \in Nat \ {0} /\ r \in Nat \ {0} /\ collapsedRun \in Nat /\ collapsed \in Nat
        /\ count \in Nat /\ count <= N /\ run <= N + 1 /\ collapsed + write = run
    BY IndexFacts
  <1>1. pc = "collapse" /\ r < write + runLen /\ SameInode(entries[r], entries[w - 1]) /\ pc' = "collapse"
        /\ collapsedRun' = collapsedRun + 1 /\ r' = r + 1
        /\ UNCHANGED <<input, matchHardlinks, count, cursor, groups, capacity, candidates>>
        /\ UNCHANGED <<entries, write, run, runLen, collapsed, w>>
    BY DEF SkipHardlink, scanVars
  <1>2. /\ N' = N /\ N \in Nat /\ run + runLen <= N + 1 /\ write + 1 <= w /\ r <= write + runLen /\ w + collapsedRun = r
        /\ runLen >= 1
    BY <1>1, <1>0 DEF IndInv, IndexInv, N
  <1>3. TypeOK' /\ ArrayInv'
    <2>1. collapsedRun' \in Nat /\ r' \in Nat \ {0}
      BY <1>0, <1>1
    <2> QED BY <1>1, <1>2, <2>1 DEF IndInv, TypeOK, ArrayInv
  <1>4. IndexInv'
    BY <1>1, <1>2, <1>0 DEF IndInv, IndexInv
  <1>5. /\ Kept = 1..(w - 1) /\ Kept' = Kept
        /\ Live = 1..(w - 1) \cup r..(write + runLen - 1) \cup (run + runLen)..N
        /\ Live' = 1..(w - 1) \cup (r + 1)..(write + runLen - 1) \cup (run + runLen)..N
    BY <1>1, <1>2 DEF Kept, Live
  <1>6. Live' \subseteq Live /\ w - 1 \in Live' /\ Live = Live' \cup {r}
    BY <1>1, <1>2, <1>5, <1>0
  <1>7. Ordered' /\ Strict'
    BY <1>1, <1>5, <1>6 DEF IndInv, Ordered, Strict
  <1>8. Complete'
    <2>1. r \in write..(write + runLen - 1) /\ w - 1 \in write..(write + runLen - 1)
      BY <1>1, <1>2, <1>0
    <2>2. entries[r].size = entries[w - 1].size
      BY <1>1, <2>1 DEF IndInv, SizesInv
    <2>3. SameKey(entries[r], entries[w - 1])
      BY <1>1, <2>2 DEF SameKey, SameInode
    <2> SUFFICES ASSUME NEW l \in 1..N PROVE \E i \in Live' : SameKey(entries[i], input[l])
      BY <1>1, <1>2 DEF Complete
    <2>4. PICK i \in Live : SameKey(entries[i], input[l])
      BY DEF IndInv, Complete
    <2> QED BY <1>6, <2>3, <2>4 DEF SameKey
  <1>9. SizesInv'
    BY <1>1, <1>2 DEF IndInv, SizesInv
  <1>10. UnreadInv'
    BY <1>1, <1>2 DEF IndInv, UnreadInv, Unread
  <1>11. GroupsInv' /\ ScanInv' /\ Counted'
    BY <1>1, <1>3, BeforeScan, IndexFacts
  <1> QED BY <1>3, <1>4, <1>7, <1>8, <1>9, <1>10, <1>11 DEF IndInv

(* An entry of another inode is moved down to the entries kept. *)
LEMMA KeepEntryInv == ASSUME IndInv, KeepEntry PROVE IndInv'
  <1>0. /\ N \in Nat /\ write \in Nat \ {0} /\ run \in Nat \ {0} /\ runLen \in Nat
        /\ w \in Nat \ {0} /\ r \in Nat \ {0} /\ collapsedRun \in Nat /\ collapsed \in Nat
        /\ count \in Nat /\ count <= N /\ run <= N + 1 /\ collapsed + write = run
    BY IndexFacts
  <1>1. pc = "collapse" /\ r < write + runLen /\ ~ SameInode(entries[r], entries[w - 1]) /\ pc' = "collapse"
        /\ entries' = [entries EXCEPT ![w] = entries[r]] /\ w' = w + 1 /\ r' = r + 1
        /\ UNCHANGED <<input, matchHardlinks, count, cursor, groups, capacity, candidates>>
        /\ UNCHANGED <<write, run, runLen, collapsed, collapsedRun>>
    BY DEF KeepEntry, scanVars
  <1>2. /\ N' = N /\ N \in Nat /\ run + runLen <= N + 1 /\ write + 1 <= w /\ r <= write + runLen /\ w + collapsedRun = r
        /\ runLen >= 1
    BY <1>1, <1>0 DEF IndInv, IndexInv, N
  <1>3. w \in 1..N /\ r \in 1..N /\ w - 1 \in 1..N /\ w <= r /\ write \in 1..N /\ w - 1 < r
        /\ w < run + runLen /\ write < w
    BY <1>0, <1>1, <1>2
  <1>4. /\ DOMAIN entries = 1..N /\ DOMAIN entries' = 1..N /\ entries'[w] = entries[r]
        /\ \A i \in 1..N : i # w => entries'[i] = entries[i]
        /\ \A i \in 1..N : entries[i] \in Entry
        /\ \A i \in 1..N : entries[i].size \in Nat /\ entries[i].dev \in Nat /\ entries[i].ino \in Nat
    BY <1>1, <1>3, TypeFacts DEF IndInv
  <1>5. entries' \in Seq(Entry) /\ Len(entries') = N
    <2>1. entries' \in [1..N -> Entry]
      BY <1>1, <1>3, <1>4
    <2> QED BY <1>2, <2>1, ArrayIsSeq
  <1>6. TypeOK'
    <2>1. w' \in Nat \ {0} /\ r' \in Nat \ {0}
      BY <1>0, <1>1
    <2> QED BY <1>1, <1>5, <2>1 DEF IndInv, TypeOK
  <1>7. ArrayInv'
    <2>1. \A i \in 1..N : entries'[i].path \in 1..N /\ entries'[i] = input[entries'[i].path]
      BY <1>3, <1>4 DEF IndInv, ArrayInv
    <2> QED BY <1>1, <1>2, <1>5, <2>1 DEF IndInv, ArrayInv
  <1>8. IndexInv'
    BY <1>0, <1>1, <1>2 DEF IndInv, IndexInv
  <1>9. /\ Kept = 1..(w - 1) /\ Kept' = 1..w
        /\ Live = 1..(w - 1) \cup r..(write + runLen - 1) \cup (run + runLen)..N
        /\ Live' = 1..w \cup (r + 1)..(write + runLen - 1) \cup (run + runLen)..N
    <2>1. (w + 1) - 1 = w
      BY <1>0
    <2> QED BY <1>1, <1>2, <2>1 DEF Kept, Live
  \* the entries that count, without the one moved
  <1>10. /\ Live' \ {w} = Live \ {r} /\ w \in Live' /\ r \in Live /\ Live \subseteq 1..N /\ Live' \subseteq 1..N
         /\ w - 1 \in Live /\ w - 1 \in Kept
    <2>0. /\ write <= run /\ r < run + runLen /\ r \in r..(write + runLen - 1)
      BY <1>0, <1>1, <1>2
    <2>1. 1..w \ {w} = 1..(w - 1) /\ r..(write + runLen - 1) \ {r} = (r + 1)..(write + runLen - 1)
          /\ w \in 1..w /\ w - 1 \in 1..(w - 1)
      BY <1>0, <1>3
    <2>2. /\ w \notin (r + 1)..(write + runLen - 1) /\ w \notin (run + runLen)..N
          /\ r \notin 1..(w - 1) /\ r \notin (run + runLen)..N
      BY <1>0, <1>3, <2>0
    <2>3. 1..w \subseteq 1..N /\ r..(write + runLen - 1) \subseteq 1..N /\ (run + runLen)..N \subseteq 1..N
          /\ (r + 1)..(write + runLen - 1) \subseteq 1..N /\ 1..(w - 1) \subseteq 1..N
      BY <1>0, <1>2, <1>3, <2>0
    <2> QED BY <1>9, <2>0, <2>1, <2>2, <2>3
  <1>11. \A i \in Live \ {r} : i < w \/ r < i
    <2>0. write <= run /\ r < run + runLen
      BY <1>0, <1>1, <1>2
    <2> TAKE i \in Live \ {r}
    <2>1. i \in 1..(w - 1) \/ i \in r..(write + runLen - 1) \/ i \in (run + runLen)..N
      BY <1>9
    <2> QED BY <1>0, <1>3, <2>0, <2>1
  <1>12. \A i, j \in Live : i < j => ~ LessThan(entries[j], entries[i])
    BY <1>1 DEF IndInv, Ordered
  <1>13. Ordered'
    <2> SUFFICES ASSUME NEW i \in Live', NEW j \in Live', i < j PROVE ~ LessThan(entries'[j], entries'[i])
      BY DEF Ordered
    <2>1. CASE i # w /\ j # w
      BY <1>4, <1>10, <1>12, <2>1
    <2>2. CASE i = w
      <3>1. j \in Live /\ r < j /\ entries'[j] = entries[j]
        BY <1>0, <1>3, <1>4, <1>10, <1>11, <2>2
      <3> QED BY <1>4, <1>10, <1>12, <2>2, <3>1
    <2>3. CASE j = w
      <3>1. i \in Live /\ i < r /\ entries'[i] = entries[i]
        BY <1>0, <1>3, <1>4, <1>10, <2>3
      <3> QED BY <1>4, <1>10, <1>12, <2>3, <3>1
    <2> QED BY <2>1, <2>2, <2>3
  <1>14. LessThan(entries[w - 1], entries[r])
    <2>1. ~ LessThan(entries[r], entries[w - 1])
      BY <1>3, <1>10, <1>12
    <2>2. ~ SameKey(entries[w - 1], entries[r])
      BY <1>1 DEF SameKey, SameInode
    <2> QED BY <1>3, <1>4, <2>1, <2>2, LessThanOrder
  <1>15. Strict'
    <2> SUFFICES ASSUME NEW i \in 1..w, NEW j \in 1..w, i < j PROVE LessThan(entries'[i], entries'[j])
      BY <1>1, <1>9 DEF Strict
    <2>0. i \in 1..(w - 1) /\ i \in 1..N /\ i # w
      BY <1>0, <1>3
    <2>1. \A a, b \in 1..(w - 1) : a < b => LessThan(entries[a], entries[b])
      BY <1>1, <1>9 DEF IndInv, Strict, IndexInv
    <2>2. CASE j # w
      <3>1. j \in 1..(w - 1) /\ j \in 1..N
        BY <1>0, <1>3, <2>2
      <3> QED BY <1>4, <2>0, <2>1, <2>2, <3>1
    <2>3. CASE j = w
      <3>1. i = w - 1 \/ LessThan(entries[i], entries[w - 1])
        <4>1. i = w - 1 \/ i < w - 1
          BY <1>0, <2>0
        <4>2. w - 1 \in 1..(w - 1)
          BY <1>0, <1>3
        <4> QED BY <2>0, <2>1, <4>1, <4>2
      <3>2. LessThan(entries[i], entries[r])
        BY <1>3, <1>4, <1>14, <2>0, <3>1, LessThanOrder
      <3> QED BY <1>4, <2>0, <2>3, <3>2
    <2> QED BY <2>2, <2>3
  <1>16. Complete'
    <2> SUFFICES ASSUME NEW l \in 1..N PROVE \E i \in Live' : SameKey(entries'[i], input[l])
      BY <1>1, <1>2 DEF Complete
    <2>1. PICK i \in Live : SameKey(entries[i], input[l])
      BY DEF IndInv, Complete
    <2>2. CASE i = r
      BY <1>4, <1>10, <2>1, <2>2
    <2>3. CASE i # r
      BY <1>4, <1>10, <2>1, <2>3
    <2> QED BY <2>2, <2>3
  <1>17. SizesInv'
    <2>1. /\ \A i \in 1..(write - 1) : entries[i].size > entries[write].size
          /\ \A i \in write..(write + runLen - 1) : entries[i].size = entries[write].size
          /\ \A j \in (run + runLen)..N : entries[write].size > entries[j].size
      BY <1>1 DEF IndInv, SizesInv
    <2>2. /\ \A i \in 1..(write - 1) : i \in 1..N /\ i # w
          /\ \A i \in write..(write + runLen - 1) : i \in 1..N
          /\ \A j \in (run + runLen)..N : j \in 1..N /\ j # w
          /\ r \in write..(write + runLen - 1) /\ write # w
      BY <1>0, <1>1, <1>2, <1>3
    <2>3. entries'[write] = entries[write]
      BY <1>3, <1>4, <2>2
    <2>4. \A i \in 1..(write - 1) : entries'[i].size > entries'[write].size
      BY <1>4, <2>1, <2>2, <2>3
    <2>5. \A i \in write..(write + runLen - 1) : entries'[i].size = entries'[write].size
      BY <1>4, <2>1, <2>2, <2>3
    <2>6. \A j \in (run + runLen)..N : entries'[write].size > entries'[j].size
      BY <1>4, <2>1, <2>2, <2>3
    <2> QED BY <1>1, <1>2, <2>4, <2>5, <2>6 DEF SizesInv
  <1>18. UnreadInv'
    <2>1. Unread = run + runLen /\ Unread' = Unread
      BY <1>1 DEF Unread
    <2>2. \A i \in (run + runLen)..N : entries'[i] = entries[i]
      BY <1>0, <1>2, <1>3, <1>4
    <2> QED BY <1>1, <1>2, <2>1, <2>2 DEF IndInv, UnreadInv
  <1>19. GroupsInv' /\ ScanInv' /\ Counted'
    BY <1>1, <1>6, BeforeScan, IndexFacts
  <1> QED BY <1>6, <1>7, <1>8, <1>13, <1>15, <1>16, <1>17, <1>18, <1>19 DEF IndInv

(* The next run is copied down behind the entries kept, possibly over part   *)
(* of itself, and never over a run behind it.                                *)
LEMMA CopyRunInv == ASSUME IndInv, CopyRun PROVE IndInv'
  <1>0. /\ N \in Nat /\ write \in Nat \ {0} /\ run \in Nat \ {0} /\ runLen \in Nat
        /\ collapsed \in Nat /\ count \in Nat /\ run <= N + 1 /\ collapsed + write = run
    BY IndexFacts
  <1>1. PICK len : len = RunLength(entries, run, count)
    OBVIOUS
  <1>2. pc = "compact" /\ run <= count /\ runLen' = len /\ pc' = "collapse"
        /\ entries' = (IF write # run THEN CopyDown(entries, write, run, len) ELSE entries)
        /\ w' = write + 1 /\ r' = write + 1 /\ collapsedRun' = 0
        /\ UNCHANGED <<input, matchHardlinks, count, cursor, groups, capacity, candidates>>
        /\ UNCHANGED <<write, run, collapsed>>
    BY <1>1 DEF CopyRun, scanVars
  <1>3. N' = N /\ count = N /\ run <= N
    BY <1>2 DEF IndInv, IndexInv, N
  <1>4. /\ len \in 1..(N - run + 1)
        /\ \A k \in run..(run + len - 1) : entries[k].size = entries[run].size
        /\ run + len <= N => entries[run + len].size # entries[run].size
    <2>1. run \in Int /\ count \in Int /\ run <= count
      BY <1>0, <1>2
    <2>2. /\ len \in 1..(count - run + 1)
          /\ \A k \in run..(run + len - 1) : entries[k].size = entries[run].size
          /\ run + len <= count => entries[run + len].size # entries[run].size
      <3>1. /\ RunLength(entries, run, count) \in 1..(count - run + 1)
            /\ \A k \in run..(run + RunLength(entries, run, count) - 1) : entries[k].size = entries[run].size
            /\ run + RunLength(entries, run, count) <= count =>
                 entries[run + RunLength(entries, run, count)].size # entries[run].size
        BY <2>1, RunLengthFacts
      <3> QED BY <1>1, <3>1
    <2> QED BY <1>3, <2>2
  <1>5. len \in Nat \ {0} /\ run + len <= N + 1 /\ write <= run /\ write + len <= N + 1 /\ write \in 1..N /\ run \in 1..N
    BY <1>0, <1>3, <1>4
  <1>6. /\ DOMAIN entries = 1..N
        /\ \A i \in 1..N : entries[i] \in Entry
        /\ \A i \in 1..N : entries[i].size \in Nat /\ entries[i].dev \in Nat /\ entries[i].ino \in Nat
    BY TypeFacts DEF IndInv
  <1>7. /\ \A i \in write..(write + len - 1) : run + (i - write) \in run..(run + len - 1) /\ i \in 1..N
        /\ run..(run + len - 1) \subseteq 1..N
        /\ (run + len)..N \subseteq 1..N /\ 1..(write - 1) \subseteq 1..N
    BY <1>0, <1>5
  <1>8. /\ entries' \in [1..N -> Entry]
        /\ \A i \in write..(write + len - 1) : entries'[i] = entries[run + (i - write)]
        /\ \A i \in 1..(write - 1) : entries'[i] = entries[i]
        /\ \A i \in (run + len)..N : entries'[i] = entries[i]
    <2>1. CASE write = run
      <3>1. entries' = entries
        BY <1>2, <2>1
      <3>2. entries \in [1..N -> Entry]
        BY <1>6, LenProperties DEF IndInv, TypeOK, ArrayInv
      <3>3. \A i \in write..(write + len - 1) : run + (i - write) = i
        BY <1>0, <1>5, <2>1
      <3> QED BY <3>1, <3>2, <3>3
    <2>2. CASE write # run
      <3>1. entries' = [i \in 1..N |-> IF write <= i /\ i < write + len THEN entries[run + (i - write)] ELSE entries[i]]
        BY <1>2, <1>6, <2>2 DEF CopyDown
      <3>2. ASSUME NEW i \in 1..N, write <= i, i < write + len PROVE run + (i - write) \in 1..N
        BY <1>0, <1>5, <3>2
      <3>3. entries' \in [1..N -> Entry]
        BY <1>6, <3>1, <3>2
      <3>4. \A i \in write..(write + len - 1) : entries'[i] = entries[run + (i - write)]
        BY <1>0, <1>5, <1>7, <3>1
      <3>5. \A i \in 1..(write - 1) : entries'[i] = entries[i]
        BY <1>0, <1>5, <1>7, <3>1
      <3>6. \A i \in (run + len)..N : entries'[i] = entries[i]
        <4> TAKE i \in (run + len)..N
        <4>1. i \in 1..N /\ ~ (i < write + len)
          BY <1>0, <1>5
        <4> QED BY <3>1, <4>1
      <3> QED BY <3>3, <3>4, <3>5, <3>6
    <2> QED BY <2>1, <2>2
  <1>9. entries' \in Seq(Entry) /\ Len(entries') = N
    BY <1>0, <1>8, ArrayIsSeq
  <1>10. TypeOK'
    <2>1. w' \in Nat \ {0} /\ r' \in Nat \ {0} /\ runLen' \in Nat
      BY <1>0, <1>2, <1>5
    <2> QED BY <1>2, <1>9, <2>1 DEF IndInv, TypeOK
  <1>11. IndexInv'
    BY <1>0, <1>2, <1>3, <1>5 DEF IndInv, IndexInv
  <1>12. /\ Kept = 1..(write - 1) /\ Kept' = 1..write
         /\ Live = 1..(write - 1) \cup run..N
         /\ Live' = 1..write \cup (write + 1)..(write + len - 1) \cup (run + len)..N
    <2>1. (write + 1) - 1 = write
      BY <1>0
    <2> QED BY <1>2, <1>3, <2>1 DEF Kept, Live
  \* from -> to: where each entry that counts came from
  <1> DEFINE from == [i \in Live' |-> IF i \in write..(write + len - 1) THEN run + (i - write) ELSE i]
  <1>13. /\ Live' \subseteq 1..N /\ Live \subseteq 1..N
         /\ \A i \in Live' : i \in 1..(write - 1) \/ i \in write..(write + len - 1) \/ i \in (run + len)..N
    BY <1>0, <1>5, <1>12
  <1>14. \A i \in Live' : from[i] \in Live /\ entries'[i] = entries[from[i]]
    <2> TAKE i \in Live'
    <2>1. CASE i \in write..(write + len - 1)
      <3>1. from[i] = run + (i - write)
        BY <2>1
      <3>2. from[i] \in Live
        BY <1>0, <1>5, <1>12, <2>1, <3>1
      <3> QED BY <1>8, <2>1, <3>1, <3>2
    <2>2. CASE i \in 1..(write - 1)
      <3>1. from[i] = i /\ i \in Live
        BY <1>0, <1>12, <2>2
      <3> QED BY <1>8, <2>2, <3>1
    <2>3. CASE i \in (run + len)..N
      <3>1. i \notin write..(write + len - 1) /\ i \in run..N
        BY <1>0, <1>5, <2>3
      <3>2. from[i] = i /\ i \in Live
        BY <1>12, <3>1
      <3> QED BY <1>8, <2>3, <3>2
    <2> QED BY <1>13, <2>1, <2>2, <2>3
  <1>15. \A i, j \in Live' : i < j => from[i] < from[j]
    <2> SUFFICES ASSUME NEW i \in Live', NEW j \in Live', i < j PROVE from[i] < from[j]
      OBVIOUS
    <2>0. from[i] = (IF i \in write..(write + len - 1) THEN run + (i - write) ELSE i)
          /\ from[j] = (IF j \in write..(write + len - 1) THEN run + (j - write) ELSE j)
      OBVIOUS
    <2>1. i \in 1..(write - 1) \/ i \in write..(write + len - 1) \/ i \in (run + len)..N
      BY <1>13
    <2>2. j \in 1..(write - 1) \/ j \in write..(write + len - 1) \/ j \in (run + len)..N
      BY <1>13
    <2> HIDE DEF from
    <2> QED BY <1>0, <1>5, <2>0, <2>1, <2>2
  <1>16. \A j \in Live : \E i \in Live' : from[i] = j
    <2> TAKE j \in Live
    <2>1. CASE j \in run..(run + len - 1)
      <3>1. write + (j - run) \in write..(write + len - 1) /\ run + ((write + (j - run)) - write) = j
        BY <1>0, <1>5, <2>1
      <3>2. write + (j - run) \in Live'
        BY <1>0, <1>5, <1>12, <3>1
      <3> QED BY <3>1, <3>2
    <2>2. CASE j \in 1..(write - 1)
      <3>1. j \in Live' /\ j \notin write..(write + len - 1)
        BY <1>0, <1>5, <1>12, <2>2
      <3> QED BY <3>1
    <2>3. CASE j \in (run + len)..N
      <3>1. j \in Live' /\ j \notin write..(write + len - 1)
        BY <1>0, <1>5, <1>12, <2>3
      <3> QED BY <3>1
    <2>4. j \in 1..(write - 1) \/ j \in run..(run + len - 1) \/ j \in (run + len)..N
      BY <1>0, <1>5, <1>12
    <2> QED BY <2>1, <2>2, <2>3, <2>4
  <1> HIDE DEF from
  <1>17. \A i, j \in Live : i < j => ~ LessThan(entries[j], entries[i])
    BY <1>2 DEF IndInv, Ordered
  <1>18. Ordered'
    BY <1>14, <1>15, <1>17 DEF Ordered
  <1>19. Complete'
    <2> SUFFICES ASSUME NEW l \in 1..N PROVE \E i \in Live' : SameKey(entries'[i], input[l])
      BY <1>2, <1>3 DEF Complete
    <2>1. PICK j \in Live : SameKey(entries[j], input[l])
      BY DEF IndInv, Complete
    <2>2. PICK i \in Live' : from[i] = j
      BY <1>16
    <2> QED BY <1>14, <2>1, <2>2
  <1>20. ArrayInv'
    <2>1. \A i \in 1..N : \E j \in 1..N : entries'[i] = entries[j]
      <3>1. CASE write = run
        BY <1>2, <3>1
      <3>2. CASE write # run
        <4>1. entries' = [i \in 1..N |-> IF write <= i /\ i < write + len THEN entries[run + (i - write)] ELSE entries[i]]
          BY <1>2, <1>6, <3>2 DEF CopyDown
        <4>2. ASSUME NEW i \in 1..N, write <= i, i < write + len PROVE run + (i - write) \in 1..N
          BY <1>0, <1>5, <4>2
        <4> QED BY <4>1, <4>2
      <3> QED BY <3>1, <3>2
    <2>2. \A i \in 1..N : entries'[i].path \in 1..N /\ entries'[i] = input[entries'[i].path]
      <3> TAKE i \in 1..N
      <3>1. PICK j \in 1..N : entries'[i] = entries[j]
        BY <2>1
      <3>2. entries[j].path \in 1..N /\ entries[j] = input[entries[j].path]
        BY DEF IndInv, ArrayInv
      <3> QED BY <3>1, <3>2
    <2> QED BY <1>2, <1>3, <1>9, <2>2 DEF IndInv, ArrayInv
  \* sizes
  <1>21. \A i \in 1..(write - 1), j \in run..N : entries[i].size > entries[j].size
    BY <1>2 DEF IndInv, SizesInv
  <1>22. \A j \in (run + len)..N : entries[run].size > entries[j].size
    <2> TAKE j \in (run + len)..N
    <2>1. run \in Live /\ run + len \in Live /\ j \in Live /\ run + len <= N /\ run < run + len
          /\ (j = run + len \/ run + len < j) /\ run + len \in 1..N /\ j \in 1..N
      BY <1>0, <1>5, <1>12
    <2>2. ~ LessThan(entries[run + len], entries[run])
      BY <1>17, <2>1
    <2>3. j = run + len \/ ~ LessThan(entries[j], entries[run + len])
      BY <1>17, <2>1
    <2>4. entries[run + len].size <= entries[run].size
      BY <1>5, <1>6, <2>1, <2>2, LessThanOrder
    <2>5. j = run + len \/ entries[j].size <= entries[run + len].size
      BY <1>6, <2>1, <2>3, LessThanOrder
    <2>6. entries[run + len].size # entries[run].size
      BY <1>4, <2>1
    <2>7. entries[run].size \in Nat /\ entries[run + len].size \in Nat /\ entries[j].size \in Nat
      BY <1>5, <1>6, <2>1
    <2> QED BY <2>4, <2>5, <2>6, <2>7
  <1>23. entries'[write] = entries[run]
    <2>1. write \in write..(write + len - 1) /\ run + (write - write) = run
      BY <1>0, <1>5
    <2> QED BY <1>8, <2>1
  <1>24. SizesInv'
    <2>1. \A i \in 1..(write - 1) : entries'[i].size > entries'[write].size
      <3>1. run \in run..N
        BY <1>0, <1>3
      <3> QED BY <1>8, <1>21, <1>23, <3>1
    <2>2. \A i \in write..(write + len - 1) : entries'[i].size = entries'[write].size
      BY <1>4, <1>7, <1>8, <1>23
    <2>3. \A j \in (run + len)..N : entries'[write].size > entries'[j].size
      BY <1>8, <1>22, <1>23
    <2> QED BY <1>2, <1>3, <2>1, <2>2, <2>3 DEF SizesInv
  <1>25. Strict'
    <2> SUFFICES ASSUME NEW i \in 1..write, NEW j \in 1..write, i < j PROVE LessThan(entries'[i], entries'[j])
      BY <1>12 DEF Strict
    <2>1. i \in 1..(write - 1) /\ entries'[i] = entries[i]
      BY <1>0, <1>8
    <2>2. CASE j = write
      <3>1. run \in run..N
        BY <1>0, <1>3
      <3>2. entries[i].size > entries[run].size
        BY <1>21, <2>1, <3>1
      <3> QED BY <1>23, <2>1, <2>2, <3>2 DEF LessThan
    <2>3. CASE j # write
      <3>1. j \in 1..(write - 1) /\ entries'[j] = entries[j]
        BY <1>0, <1>8, <2>3
      <3>2. ~ matchHardlinks
        BY <1>2 DEF IndInv, IndexInv
      <3> QED BY <1>2, <1>12, <2>1, <3>1, <3>2 DEF IndInv, Strict
    <2> QED BY <2>2, <2>3
  <1>26. UnreadInv'
    <2>1. Unread = run /\ Unread' = run + len
      BY <1>2 DEF Unread
    <2>2. (run + len)..N \subseteq run..N
      BY <1>0, <1>5
    <2>3. \A i, j \in run..N : entries[i].path = entries[j].path => i = j
      BY <1>2, <2>1 DEF IndInv, UnreadInv
    <2> QED BY <1>3, <1>8, <2>1, <2>2, <2>3 DEF UnreadInv
  <1>27. GroupsInv' /\ ScanInv' /\ Counted'
    BY <1>2, <1>10, BeforeScan, IndexFacts
  <1> QED BY <1>10, <1>11, <1>18, <1>19, <1>20, <1>24, <1>25, <1>26, <1>27 DEF IndInv

(* The run is over: what it kept ends where the next one is copied to. *)
LEMMA EndRunInv == ASSUME IndInv, EndRun PROVE IndInv'
  <1>0. /\ N \in Nat /\ write \in Nat \ {0} /\ run \in Nat \ {0} /\ runLen \in Nat
        /\ w \in Nat \ {0} /\ r \in Nat \ {0} /\ collapsedRun \in Nat /\ collapsed \in Nat
        /\ count \in Nat /\ count <= N /\ run <= N + 1 /\ collapsed + write = run
    BY IndexFacts
  <1>1. pc = "collapse" /\ r = write + runLen /\ pc' = "compact"
        /\ collapsed' = collapsed + collapsedRun /\ write' = write + (runLen - collapsedRun) /\ run' = run + runLen
        /\ UNCHANGED <<input, matchHardlinks, count, cursor, groups, capacity, candidates>>
        /\ UNCHANGED <<entries, runLen, w, r, collapsedRun>>
    BY DEF EndRun, scanVars, collapseVars
  <1>2. /\ N' = N /\ N \in Nat /\ run + runLen <= N + 1 /\ write + 1 <= w /\ w + collapsedRun = r
        /\ runLen >= 1 /\ count = N /\ ~ matchHardlinks
    BY <1>1, <1>0 DEF IndInv, IndexInv, N
  <1>3. write' = w
    BY <1>1, <1>2, <1>0
  <1>4. TypeOK' /\ ArrayInv'
    <2>1. collapsed' \in Nat /\ run' \in Nat \ {0} /\ write' \in Nat \ {0}
      BY <1>1, <1>3, <1>0
    <2> QED BY <1>1, <1>2, <2>1 DEF IndInv, TypeOK, ArrayInv
  <1>5. IndexInv'
    BY <1>1, <1>2, <1>3, <1>0 DEF IndInv, IndexInv
  <1>6. /\ Kept' = Kept /\ Live' = Live /\ Kept = 1..(w - 1)
        /\ Live = 1..(w - 1) \cup (run + runLen)..N
    <2>1. Live = 1..(w - 1) \cup r..(write + runLen - 1) \cup (run + runLen)..N /\ Kept = 1..(w - 1)
      BY <1>1 DEF Live, Kept
    <2>2. Live' = 1..(w - 1) \cup (run + runLen)..N /\ Kept' = 1..(w - 1)
      BY <1>1, <1>2, <1>3 DEF Live, Kept
    <2>3. r..(write + runLen - 1) = {}
      BY <1>1, <1>0
    <2> QED BY <2>1, <2>2, <2>3
  <1>7. Ordered' /\ Strict' /\ Complete'
    BY <1>1, <1>2, <1>6 DEF IndInv, Ordered, Strict, Complete
  <1>8. SizesInv'
    <2> SUFFICES ASSUME NEW i \in 1..(w - 1), NEW j \in (run + runLen)..N
                 PROVE  entries[i].size > entries[j].size
      BY <1>1, <1>2, <1>3 DEF SizesInv
    <2>1. i \in 1..N /\ j \in 1..N /\ write \in 1..N
      BY <1>1, <1>2, <1>0
    <2>2. entries[i].size \in Nat /\ entries[j].size \in Nat /\ entries[write].size \in Nat
      BY <2>1, TypeFacts DEF IndInv
    <2>3. entries[write].size > entries[j].size
      BY <1>1 DEF IndInv, SizesInv
    <2>4. entries[i].size >= entries[write].size
      <3>1. CASE i < write
        BY <1>1, <2>2, <3>1, <1>0 DEF IndInv, SizesInv
      <3>2. CASE i >= write
        <4>1. i \in write..(write + runLen - 1)
          BY <1>1, <1>2, <3>2, <1>0
        <4> QED BY <1>1, <2>2, <4>1 DEF IndInv, SizesInv
      <3> QED BY <3>1, <3>2, <1>0
    <2> QED BY <2>2, <2>3, <2>4
  <1>9. UnreadInv'
    BY <1>1, <1>2 DEF IndInv, UnreadInv, Unread
  <1>10. GroupsInv' /\ ScanInv' /\ Counted'
    BY <1>1, <1>4, BeforeScan, IndexFacts
  <1> QED BY <1>4, <1>5, <1>7, <1>8, <1>9, <1>10 DEF IndInv

LEMMA EndCompactionInv == ASSUME IndInv, EndCompaction PROVE IndInv'
  <1>0. /\ N \in Nat /\ write \in Nat \ {0} /\ run \in Nat \ {0} /\ runLen \in Nat
        /\ w \in Nat \ {0} /\ r \in Nat \ {0} /\ collapsedRun \in Nat /\ collapsed \in Nat
        /\ count \in Nat /\ count <= N /\ run <= N + 1 /\ collapsed + write = run
    BY IndexFacts
  <1>1. pc = "compact" /\ run > count /\ count' = write - 1 /\ pc' = "allocate"
        /\ UNCHANGED <<input, matchHardlinks, entries, cursor, groups, capacity, candidates>>
        /\ UNCHANGED <<write, run, runLen, collapsed, w, r, collapsedRun>>
    BY DEF EndCompaction, compactVars, scanVars, collapseVars
  <1>2. N' = N /\ N \in Nat /\ count = N /\ run = N + 1 /\ ~ matchHardlinks
    BY <1>1, <1>0 DEF IndInv, IndexInv, N
  <1>3. count' \in 0..N /\ collapsed + (write - 1) = N
    BY <1>1, <1>2, <1>0
  <1>4. TypeOK' /\ ArrayInv'
    BY <1>1, <1>2, <1>3 DEF IndInv, TypeOK, ArrayInv, N
  <1>5. IndexInv'
    BY <1>1, <1>2, <1>3, <1>0 DEF IndInv, IndexInv
  <1>6. Kept' = Kept /\ Live' = Live
    <2>1. run..N = {}
      BY <1>2
    <2> QED BY <1>1, <1>2, <2>1 DEF Live, Kept
  <1>7. Ordered' /\ Strict' /\ Complete' /\ SizesInv' /\ UnreadInv'
    BY <1>1, <1>2, <1>6 DEF IndInv, Ordered, Strict, Complete, SizesInv, UnreadInv
  <1>8. GroupsInv' /\ ScanInv' /\ Counted'
    BY <1>1, <1>4, BeforeScan, IndexFacts
  <1> QED BY <1>4, <1>5, <1>7, <1>8 DEF IndInv

-----------------------------------------------------------------------------
(* The scan *)

(* The scan changes nothing the compaction left. *)
Settled ==
    /\ pc \in {"allocate", "scan"} /\ pc' \in {"scan", "done", "failed"}
    /\ UNCHANGED <<input, matchHardlinks, entries, count>>
    /\ UNCHANGED <<write, run, runLen, collapsed, w, r, collapsedRun>>

LEMMA SettledInv ==
    ASSUME IndInv, Settled
    PROVE  ArrayInv' /\ IndexInv' /\ Ordered' /\ Strict' /\ Complete' /\ SizesInv' /\ UnreadInv'
  <1>1. N' = N
    BY DEF Settled, N
  <1>2. Kept' = Kept /\ Live' = Live
    BY <1>1 DEF Settled, Kept, Live
  <1>3. ArrayInv' /\ IndexInv'
    BY <1>1 DEF IndInv, Settled, ArrayInv, IndexInv
  <1>4. Ordered' /\ Strict' /\ Complete'
    BY <1>1, <1>2 DEF IndInv, Settled, Ordered, Strict, Complete
  <1>5. SizesInv' /\ UnreadInv'
    BY DEF Settled, SizesInv, UnreadInv
  <1> QED BY <1>3, <1>4, <1>5

LEMMA AllocateInv == ASSUME IndInv, Allocate PROVE IndInv'
  <1>1. Settled /\ pc = "allocate" /\ pc' \in {"scan", "failed"} /\ UNCHANGED <<cursor, groups, capacity, candidates>>
    BY DEF Allocate, Settled, compactVars, collapseVars, scanVars
  <1>2. TypeOK'
    BY <1>1 DEF IndInv, TypeOK, Settled
  <1>3. GroupsInv' /\ ScanInv' /\ Counted'
    BY <1>1, <1>2, BeforeScan, IndexFacts
  <1> QED BY <1>1, <1>2, <1>3, SettledInv DEF IndInv

LEMMA GrowFailsInv == ASSUME IndInv, GrowFails PROVE IndInv'
  <1>1. Settled /\ pc' = "failed" /\ groups' = <<>> /\ UNCHANGED <<cursor, capacity, candidates>>
    BY DEF GrowFails, Settled, compactVars, collapseVars, scanVars
  <1>2. groups' \in Seq(Group) /\ DOMAIN groups' = {}
    BY <1>1, EmptySeq
  <1>3. TypeOK'
    BY <1>1, <1>2 DEF IndInv, TypeOK, Settled
  <1>4. GroupsInv' /\ Counted'
    BY <1>1, <1>2 DEF GroupsInv, Counted
  <1>5. ScanInv'
    BY <1>1 DEF IndInv, ScanInv, Settled, Size
  <1> QED BY <1>1, <1>3, <1>4, <1>5, SettledInv DEF IndInv

LEMMA EndScanInv == ASSUME IndInv, EndScan PROVE IndInv'
  <1>1. Settled /\ pc = "scan" /\ cursor > count /\ pc' = "done" /\ UNCHANGED <<cursor, groups, capacity, candidates>>
    BY DEF EndScan, Settled, compactVars, collapseVars, scanVars
  <1>2. TypeOK'
    BY <1>1 DEF IndInv, TypeOK, Settled
  <1>3. GroupsInv' /\ Counted'
    BY <1>1 DEF IndInv, GroupsInv, Counted, IsClass, Settled, Size, Grouped
  <1>4. cursor = count + 1
    <2>1. cursor \in Nat /\ count \in Nat /\ cursor <= count + 1
      BY <1>1, IndexFacts DEF IndInv, ScanInv, TypeOK
    <2> QED BY <1>1, <2>1
  <1>5. ScanInv'
    BY <1>1, <1>4 DEF IndInv, ScanInv, Settled, Size
  <1> QED BY <1>1, <1>2, <1>3, <1>5, SettledInv DEF IndInv

(* Moving the cursor over a run of one size. *)
Moves(len) ==
    /\ Settled /\ pc = "scan" /\ pc' = "scan" /\ cursor <= count
    /\ len = RunLength(entries, cursor, count)
    /\ cursor' = cursor + len

LEMMA MovesFacts ==
    ASSUME IndInv, NEW len, Moves(len)
    PROVE  /\ cursor \in Nat \ {0} /\ count \in Nat /\ count <= N /\ N \in Nat
           /\ len \in Nat \ {0} /\ cursor + len <= count + 1 /\ cursor' \in Nat \ {0}
           /\ \A i \in cursor..(cursor + len - 1) : i \in 1..count /\ Size(i) = Size(cursor)
           /\ \A i, j \in 1..count : i < cursor + len /\ cursor + len <= j => Size(i) # Size(j)
  <1>1. cursor \in Nat \ {0} /\ count \in Nat /\ count <= N /\ N \in Nat /\ cursor <= count
    BY IndexFacts DEF IndInv, TypeOK, Moves
  <1>2. /\ len \in 1..(count - cursor + 1)
        /\ \A i \in cursor..(cursor + len - 1) : entries[i].size = entries[cursor].size
        /\ cursor + len <= count => entries[cursor + len].size # entries[cursor].size
    <2>1. cursor \in Int /\ count \in Int
      BY <1>1
    <2>2. /\ RunLength(entries, cursor, count) \in 1..(count - cursor + 1)
          /\ \A i \in cursor..(cursor + RunLength(entries, cursor, count) - 1) : entries[i].size = entries[cursor].size
          /\ cursor + RunLength(entries, cursor, count) <= count =>
               entries[cursor + RunLength(entries, cursor, count)].size # entries[cursor].size
      BY <1>1, <2>1, RunLengthFacts
    <2> QED BY <2>2 DEF Moves
  <1>3. len \in Nat \ {0} /\ cursor + len <= count + 1 /\ cursor + len \in Nat \ {0}
    BY <1>1, <1>2
  <1>4. \A i \in cursor..(cursor + len - 1) : i \in 1..count /\ Size(i) = Size(cursor)
    BY <1>1, <1>2, <1>3 DEF Size
  <1>5. \A i, j \in 1..count : i < j => Size(j) <= Size(i) /\ Size(i) \in Nat /\ Size(j) \in Nat
    <2> SUFFICES ASSUME NEW i \in 1..count, NEW j \in 1..count, i < j
                 PROVE  Size(j) <= Size(i) /\ Size(i) \in Nat /\ Size(j) \in Nat
      OBVIOUS
    <2>1. Live = 1..count
      BY DEF Moves, Live, Kept
    <2>2. ~ LessThan(entries[j], entries[i])
      BY <2>1 DEF IndInv, Ordered, Moves
    <2>3. i \in 1..N /\ j \in 1..N
      BY <1>1
    <2>4. /\ entries[i].size \in Nat /\ entries[i].dev \in Nat /\ entries[i].ino \in Nat
          /\ entries[j].size \in Nat /\ entries[j].dev \in Nat /\ entries[j].ino \in Nat
      BY <2>3, TypeFacts DEF IndInv
    <2> QED BY <2>2, <2>4, LessThanOrder DEF Size
  <1>6. ASSUME NEW i \in 1..count, NEW j \in 1..count, i < cursor + len, cursor + len <= j PROVE Size(i) # Size(j)
    <2>1. CASE i < cursor
      <3>1. cursor <= j
        BY <1>1, <1>3, <1>6
      <3> QED BY <2>1, <3>1 DEF IndInv, ScanInv
    <2>2. CASE cursor <= i
      <3>1. i \in cursor..(cursor + len - 1)
        BY <1>1, <1>3, <1>6, <2>2
      <3>2. Size(i) = Size(cursor)
        BY <1>4, <3>1
      <3>3. cursor \in 1..count /\ cursor + len \in 1..count /\ cursor < cursor + len /\ (j = cursor + len \/ cursor + len < j)
        BY <1>1, <1>3, <1>6
      <3>4. Size(cursor + len) <= Size(cursor) /\ Size(cursor) \in Nat /\ Size(cursor + len) \in Nat
        BY <1>5, <3>3
      <3>5. Size(cursor + len) # Size(cursor)
        BY <1>2, <3>3 DEF Size
      <3>6. j = cursor + len \/ (Size(j) <= Size(cursor + len) /\ Size(j) \in Nat)
        BY <1>5, <3>3
      <3> QED BY <3>2, <3>4, <3>5, <3>6
    <2> QED BY <1>1, <2>1, <2>2
  <1> QED BY <1>1, <1>3, <1>4, <1>6 DEF Moves

LEMMA SkipRunInv == ASSUME IndInv, SkipRun PROVE IndInv'
  <1>1. PICK len : len = RunLength(entries, cursor, count)
    OBVIOUS
  <1>2. Moves(len) /\ len < 2 /\ UNCHANGED <<groups, capacity, candidates>>
    BY <1>1 DEF SkipRun, Moves, Settled, compactVars, collapseVars
  <1>3. /\ Settled /\ pc = "scan" /\ pc' = "scan" /\ cursor' = cursor + 1
        /\ cursor \in Nat \ {0} /\ count \in Nat /\ cursor <= count /\ cursor' \in Nat \ {0}
        /\ \A i, j \in 1..count : i < cursor + 1 /\ cursor + 1 <= j => Size(i) # Size(j)
    <2>1. len = 1
      BY <1>2, MovesFacts
    <2> QED BY <1>2, <2>1, MovesFacts DEF Moves
  <1>4. TypeOK'
    BY <1>2, <1>3 DEF IndInv, TypeOK, Settled
  <1>5. \A i : Size(i)' = Size(i)
    BY <1>3 DEF Settled, Size
  <1>6. GroupsInv'
    <2>1. \A k \in DOMAIN groups : IsClass(groups[k])'
      <3> TAKE k \in DOMAIN groups
      <3>1. IsClass(groups[k]) /\ groups[k].start \in Nat /\ groups[k].length \in Nat
        BY TypeFacts DEF IndInv, GroupsInv
      <3> QED BY <1>2, <1>3, <3>1 DEF IsClass, Settled, Size
    <2> QED BY <1>2, <2>1 DEF IndInv, GroupsInv
  <1>7. Counted'
    BY <1>2, <1>3 DEF IndInv, Counted, Grouped
  <1>8. ScanInv'
    <2>1. ASSUME NEW i \in 1..count, NEW j \in 1..count, i # j, i < cursor + 1, Size(i) = Size(j)
          PROVE  \E k \in DOMAIN groups : i \in Members(groups[k])
      <3>1. CASE i < cursor
        BY <1>3, <2>1, <3>1 DEF IndInv, ScanInv
      <3>2. CASE i = cursor
        <4>1. ~ (cursor + 1 <= j)
          BY <1>3, <2>1
        <4>2. j < cursor
          BY <1>3, <2>1, <3>2, <4>1
        <4> QED BY <1>3, <2>1, <3>2, <4>2 DEF IndInv, ScanInv
      <3> QED BY <1>3, <2>1, <3>1, <3>2
    <2>2. count' = count /\ groups' = groups /\ cursor + 1 <= count + 1
      BY <1>2, <1>3 DEF Settled
    <2> QED BY <1>3, <1>5, <2>1, <2>2 DEF ScanInv
  <1> QED BY <1>3, <1>4, <1>6, <1>7, <1>8, SettledInv DEF IndInv

LEMMA AddGroupInv == ASSUME IndInv, AddGroup PROVE IndInv'
  <1>1. PICK len, g : len = RunLength(entries, cursor, count) /\ g = [start |-> cursor, length |-> len, size |-> entries[cursor].size]
    OBVIOUS
  <1> DEFINE n == Len(groups)
  <1>2. /\ Moves(len) /\ len >= 2 /\ groups' = Append(groups, g) /\ candidates' = candidates + len
        /\ capacity' = IF Len(groups) = capacity THEN capacity * 2 ELSE capacity
    BY <1>1 DEF AddGroup, Moves, Settled, compactVars, collapseVars
  <1>3. /\ Settled /\ pc = "scan" /\ pc' = "scan" /\ cursor' = cursor + len
        /\ cursor \in Nat \ {0} /\ count \in Nat /\ cursor <= count /\ cursor' \in Nat \ {0}
        /\ len \in Nat \ {0} /\ len >= 2 /\ cursor + len <= count + 1 /\ count <= N /\ N \in Nat
        /\ \A i \in cursor..(cursor + len - 1) : i \in 1..count /\ Size(i) = Size(cursor)
        /\ \A i, j \in 1..count : i < cursor + len /\ cursor + len <= j => Size(i) # Size(j)
    BY <1>2, MovesFacts DEF Moves
  <1>4. g \in Group /\ g.start = cursor /\ g.length = len /\ g.size = Size(cursor) /\ Members(g) = cursor..(cursor + len - 1)
    <2>1. cursor \in 1..N
      BY <1>3
    <2>2. entries[cursor].size \in Sizes
      BY <2>1, TypeFacts DEF IndInv, Entry
    <2> QED BY <1>1, <1>3, <2>2 DEF Group, Members, Size
  <1>5. groups \in Seq(Group) /\ n \in Nat /\ DOMAIN groups = 1..n
        /\ \A k \in DOMAIN groups : groups[k].start \in Nat /\ groups[k].length \in Nat
    BY TypeFacts DEF IndInv, TypeOK
  <1>6. /\ groups' \in Seq(Group) /\ Len(groups') = n + 1 /\ DOMAIN groups' = 1..(n + 1)
        /\ groups'[n + 1] = g /\ \A k \in 1..n : groups'[k] = groups[k]
    BY <1>2, <1>4, <1>5, AppendFacts
  <1>7. TypeOK'
    <2>1. capacity' \in Nat \ {0} /\ candidates' \in Nat
      <3>1. capacity \in Nat \ {0} /\ candidates \in Nat
        BY DEF IndInv, TypeOK
      <3> QED BY <1>2, <1>3, <3>1
    <2> QED BY <1>3, <1>6, <2>1 DEF IndInv, TypeOK, Settled
  <1>8. \A i : Size(i)' = Size(i)
    BY <1>3 DEF Settled, Size
  <1>9. \A k \in DOMAIN groups : IsClass(groups[k])
    BY DEF IndInv, GroupsInv
  \* the new class
  <1>10. \A i \in Members(g) : \A j \in 1..count : j \in Members(g) <=> Size(j) = Size(i)
    <2> TAKE i \in Members(g)
    <2> TAKE j \in 1..count
    <2>1. i \in 1..count /\ Size(i) = Size(cursor) /\ cursor <= i /\ i < cursor + len
      BY <1>3, <1>4
    <2>2. CASE j < cursor
      <3>1. Size(j) # Size(i)
        BY <1>3, <2>1, <2>2 DEF IndInv, ScanInv
      <3> QED BY <1>3, <1>4, <2>2, <3>1
    <2>3. CASE cursor + len <= j
      <3>1. Size(i) # Size(j)
        BY <1>3, <2>1, <2>3
      <3> QED BY <1>3, <1>4, <2>3, <3>1
    <2>4. CASE j \in cursor..(cursor + len - 1)
      BY <1>3, <1>4, <2>1, <2>4
    <2> QED BY <1>3, <2>2, <2>3, <2>4
  <1>11. GroupsInv'
    <2>1. \A k \in DOMAIN groups' : IsClass(groups[k])'
      <3> TAKE k \in DOMAIN groups'
      <3>1. CASE k \in 1..n
        <4>1. groups'[k] = groups[k] /\ IsClass(groups[k]) /\ groups[k].start \in Nat /\ groups[k].length \in Nat
          BY <1>5, <1>6, <1>9, <3>1
        <4>2. groups[k].start + groups[k].length <= cursor + len
          BY <1>3, <4>1 DEF IsClass
        <4> QED BY <1>3, <4>1, <4>2 DEF IsClass, Settled, Size
      <3>2. CASE k = n + 1
        <4>1. groups'[k] = g
          BY <1>6, <3>2
        <4>2. /\ g.start >= 1 /\ g.length >= 2 /\ g.start + g.length <= cursor + len
              /\ Members(g) \subseteq 1..count /\ g.size = Size(g.start)
          BY <1>3, <1>4
        <4> QED BY <1>3, <1>10, <4>1, <4>2 DEF IsClass, Settled, Size
      <3> QED BY <1>5, <1>6, <3>1, <3>2
    <2>2. ASSUME NEW k \in 1..(n + 1), NEW l \in 1..(n + 1), k < l
          PROVE  groups'[k].start + groups'[k].length <= groups'[l].start
      <3>1. k \in 1..n /\ groups'[k] = groups[k]
        BY <1>5, <1>6, <2>2
      <3>2. CASE l \in 1..n
        <4>1. groups'[l] = groups[l]
          BY <1>6, <3>2
        <4> QED BY <1>5, <2>2, <3>1, <3>2, <4>1 DEF IndInv, GroupsInv
      <3>3. CASE l = n + 1
        <4>1. groups'[l].start = cursor
          BY <1>4, <1>6, <3>3
        <4>2. groups[k].start + groups[k].length <= cursor
          BY <1>5, <1>9, <3>1 DEF IsClass
        <4> QED BY <3>1, <4>1, <4>2
      <3> QED BY <1>5, <3>2, <3>3
    <2> QED BY <1>6, <2>1, <2>2 DEF GroupsInv
  <1>12. Grouped(groups)' = Grouped(groups) \cup Members(g)
    <2>1. Grouped(groups)' = UNION {Members(groups'[k]) : k \in 1..(n + 1)}
      BY <1>6 DEF Grouped
    <2>2. Grouped(groups) = UNION {Members(groups[k]) : k \in 1..n}
      BY <1>5 DEF Grouped
    <2>3. \A k \in 1..(n + 1) : k \in 1..n \/ k = n + 1
      BY <1>5
    <2>4. n + 1 \in 1..(n + 1) /\ 1..n \subseteq 1..(n + 1)
      BY <1>5
    <2> QED BY <1>6, <2>1, <2>2, <2>3, <2>4
  <1>13. Counted'
    <2>1. Grouped(groups) \cap Members(g) = {}
      <3> SUFFICES ASSUME NEW k \in DOMAIN groups, NEW i \in Members(groups[k]), i \in Members(g) PROVE FALSE
        BY DEF Grouped
      <3>1. groups[k].start + groups[k].length <= cursor
        BY <1>9 DEF IsClass
      <3>2. i < cursor
        BY <1>3, <1>5, <3>1 DEF Members
      <3> QED BY <1>3, <1>4, <3>2
    <2>2. IsFiniteSet(Grouped(groups)) /\ candidates = Cardinality(Grouped(groups))
      BY <1>3 DEF IndInv, Counted
    <2>3. /\ IsFiniteSet(Grouped(groups) \cup Members(g))
          /\ Cardinality(Grouped(groups) \cup Members(g)) = Cardinality(Grouped(groups)) + len
      <3>1. cursor \in Int /\ len \in Nat
        BY <1>3
      <3>2. Members(g) = cursor..(cursor + len - 1)
        BY <1>4
      <3>3. IsFiniteSet(Grouped(groups))
        BY <2>2
      <3> QED BY <3>1, <3>2, <3>3, <2>1, AddInterval, Zenon
    <2> QED BY <1>2, <1>12, <2>2, <2>3 DEF Counted
  <1>14. ScanInv'
    <2>1. ASSUME NEW i \in 1..count, NEW j \in 1..count, i # j, i < cursor + len, Size(i) = Size(j)
          PROVE  \E k \in DOMAIN groups' : i \in Members(groups'[k])
      <3>1. CASE i < cursor
        <4>1. PICK k \in DOMAIN groups : i \in Members(groups[k])
          BY <1>3, <2>1, <3>1 DEF IndInv, ScanInv
        <4>2. k \in DOMAIN groups' /\ groups'[k] = groups[k]
          BY <1>5, <1>6
        <4> QED BY <4>1, <4>2
      <3>2. CASE cursor <= i
        <4>1. i \in Members(g) /\ n + 1 \in DOMAIN groups'
          BY <1>3, <1>4, <1>5, <1>6, <2>1, <3>2
        <4> QED BY <1>6, <4>1
      <3> QED BY <1>3, <3>1, <3>2
    <2>2. count' = count
      BY <1>3 DEF Settled
    <2> QED BY <1>3, <1>8, <2>1, <2>2 DEF ScanInv
  <1> QED BY <1>3, <1>7, <1>11, <1>13, <1>14, SettledInv DEF IndInv

-----------------------------------------------------------------------------
(* The theorems *)

LEMMA InductiveStep == ASSUME IndInv, [Next]_vars PROVE IndInv'
  <1>1. CASE UNCHANGED vars
    <2>1. /\ UNCHANGED <<input, matchHardlinks, pc, entries, count, cursor, groups, capacity, candidates>>
          /\ UNCHANGED <<write, run, runLen, collapsed, w, r, collapsedRun>>
      BY <1>1 DEF vars, compactVars, collapseVars, scanVars
    <2>2. N' = N /\ Kept' = Kept /\ Live' = Live /\ Unread' = Unread
      BY <2>1 DEF N, Kept, Live, Unread
    <2>3. TypeOK' /\ ArrayInv' /\ IndexInv' /\ Ordered' /\ Strict' /\ Complete' /\ SizesInv' /\ UnreadInv'
      BY <2>1, <2>2 DEF IndInv, TypeOK, ArrayInv, IndexInv, Ordered, Strict, Complete, SizesInv, UnreadInv
    <2>4. GroupsInv' /\ ScanInv' /\ Counted'
      BY <2>1 DEF IndInv, GroupsInv, ScanInv, Counted, IsClass, Size, Grouped
    <2> QED BY <2>3, <2>4 DEF IndInv
  <1>2. CASE Returned
    BY <1>1, <1>2 DEF Returned
  <1> QED BY <1>1, <1>2, NoEntriesInv, SortInv, CopyRunInv, SkipHardlinkInv, KeepEntryInv, EndRunInv, EndCompactionInv,
             AllocateInv, SkipRunInv, AddGroupInv, GrowFailsInv, EndScanInv DEF Next

LEMMA Invariance == Spec => []IndInv
  BY InitInv, InductiveStep, PTL DEF Spec

(* The array, the indices of both loops of the compaction and the counters  *)
(* of bc_duplicate_grouping_by_size keep their types.                       *)
THEOREM TypeCorrect == Spec => []TypeOK
  <1>1. IndInv => TypeOK
    BY DEF IndInv
  <1> QED BY <1>1, Invariance, PTL

(* The in-place compaction writes at or below what it reads and inside the  *)
(* array, however many links the runs hold.                                 *)
THEOREM WritesStayBehind == Spec => []WritesBehindReads
  <1>1. ASSUME IndInv PROVE WritesBehindReads
    <2>1. Len(entries) = N /\ write <= run /\ run <= N + 1
      BY <1>1, IndexFacts DEF IndInv, ArrayInv
    <2>2. CASE pc = "collapse"
      <3>1. run + runLen <= N + 1 /\ r <= write + runLen /\ w + collapsedRun = r
        BY <1>1, <2>2 DEF IndInv, IndexInv
      <3>2. w <= r
        BY <1>1, <3>1, IndexFacts
      <3> QED BY <2>1, <3>1, <3>2 DEF WritesBehindReads
    <2> QED BY <2>1, <2>2 DEF WritesBehindReads
  <1> QED BY <1>1, Invariance, PTL

(* The runs the compaction has not read yet are complete: neither the copy  *)
(* nor the collapse of the runs before them has overwritten one of their    *)
(* entries or kept one twice.                                               *)
THEOREM UnreadIntact == Spec => []UnreadRunsIntact
  <1>1. ASSUME IndInv PROVE UnreadRunsIntact
    <2> SUFFICES ASSUME pc \in {"compact", "collapse"} PROVE UnreadRunsIntact
      BY DEF UnreadRunsIntact
    <2> DEFINE next == IF pc = "compact" THEN run ELSE run + runLen
               rest == {entries[i].path : i \in next..N}
               f == [i \in next..N |-> entries[i].path]
    <2>1. /\ N \in Nat /\ write \in Nat \ {0} /\ run \in Nat \ {0} /\ runLen \in Nat /\ run <= N + 1 /\ write <= run
          /\ Len(entries) = N
      BY <1>1, IndexFacts DEF IndInv, ArrayInv
    <2>2. next \in Nat \ {0} /\ next <= N + 1 /\ write <= next
      <3>1. pc = "collapse" => run + runLen <= N + 1
        BY <1>1 DEF IndInv, IndexInv
      <3> QED BY <2>1, <3>1
    <2>3. Unread = next
      BY DEF Unread
    <2>4. Cardinality(rest) = N - next + 1
      <3>1. f \in [next..N -> rest]
        OBVIOUS
      <3>2. \A i, j \in next..N : f[i] = f[j] => i = j
        BY <1>1, <2>3 DEF IndInv, UnreadInv
      <3>3. \A x \in rest : \E i \in next..N : f[i] = x
        OBVIOUS
      <3>4. next \in Int /\ N \in Int
        BY <2>1, <2>2
      <3> HIDE DEF f, rest, next
      <3>5. PICK D : D = next..N
        OBVIOUS
      <3>6. f \in [D -> rest] /\ (\A i, j \in D : f[i] = f[j] => i = j) /\ (\A x \in rest : \E i \in D : f[i] = x)
        BY <3>1, <3>2, <3>3, <3>5, Zenon
      <3>7. IsFiniteSet(D) /\ Cardinality(D) = N - next + 1
        <4>1. IsFiniteSet(D) /\ Cardinality(D) = IF next > N THEN 0 ELSE N - next + 1
          BY <3>4, <3>5, FS_Interval, Zenon
        <4> QED BY <2>1, <2>2, <4>1
      <3>8. Cardinality(rest) = Cardinality(D)
        BY <3>6, <3>7, CountByListing, SMTT(60)
      <3> QED BY <3>7, <3>8
    <2>5. ASSUME NEW i \in 1..(write - 1), NEW j \in next..N PROVE entries[i].path # entries[j].path
      <3>1. i \in 1..N /\ j \in 1..N
        BY <2>1, <2>2
      <3>2. entries[i].size > entries[j].size /\ entries[i].size \in Nat /\ entries[j].size \in Nat
        <4>0. \A k \in 1..N : entries[k].size \in Nat
          BY <1>1, TypeFacts DEF IndInv
        <4>1. CASE pc = "compact"
          BY <1>1, <3>1, <4>0, <4>1 DEF IndInv, SizesInv
        <4>2. CASE pc = "collapse"
          <5>1. entries[i].size > entries[write].size /\ entries[write].size > entries[j].size
            BY <1>1, <4>2 DEF IndInv, SizesInv
          <5>2. write \in 1..N
            <6>1. runLen >= 1 /\ run + runLen <= N + 1
              BY <1>1, <4>2 DEF IndInv, IndexInv
            <6> QED BY <2>1, <6>1
          <5>3. entries[i].size \in Nat /\ entries[j].size \in Nat /\ entries[write].size \in Nat
            BY <3>1, <4>0, <5>2
          <5> QED BY <5>1, <5>3
        <4> QED BY <4>1, <4>2
      <3>3. entries[i] = input[entries[i].path] /\ entries[j] = input[entries[j].path]
        BY <1>1, <3>1 DEF IndInv, ArrayInv
      <3>4. entries[i].size # entries[j].size
        BY <3>2
      <3> QED BY <3>3, <3>4
    <2>6. rest \cap {entries[i].path : i \in 1..(write - 1)} = {}
      BY <2>5
    <2> HIDE DEF rest
    <2>7. Cardinality({entries[i].path : i \in next..N}) = N - next + 1
          /\ {entries[i].path : i \in next..N} \cap {entries[i].path : i \in 1..(write - 1)} = {}
      BY <2>4, <2>6 DEF rest
    <2> QED BY <2>1, <2>7 DEF UnreadRunsIntact
  <1> QED BY <1>1, Invariance, PTL

(* After the compaction one link of every inode is left for each size, and  *)
(* the links dropped are counted, whatever order the unstable sort left     *)
(* equal entries in; with --match-hardlinks nothing is dropped.             *)
THEOREM InodesKeptOnce == Spec => []OneEntryPerInode
  <1>1. ASSUME IndInv PROVE OneEntryPerInode
    <2> SUFFICES ASSUME pc \in {"allocate", "scan", "done"}
                 PROVE  /\ \A i \in 1..count : entries[i] = input[entries[i].path]
                        /\ InodesOf(entries, 1..count) = InodesOf(input, DOMAIN input)
                        /\ IF matchHardlinks
                           THEN count = Len(input) /\ collapsed = 0
                           ELSE /\ Cardinality(InodesOf(input, DOMAIN input)) = count
                                /\ collapsed = Len(input) - count
      BY DEF OneEntryPerInode
    <2> DEFINE Key(x) == <<x.size, x.dev, x.ino>>
               S == InodesOf(entries, 1..count)
               f == [i \in 1..count |-> Key(entries[i])]
    <2>1. /\ N \in Nat /\ count \in Nat /\ count <= N /\ collapsed \in Nat
          /\ N = Len(input) /\ DOMAIN input = 1..N /\ 1..count \subseteq 1..N
      BY <1>1, IndexFacts, TypeFacts DEF IndInv, N
    <2>2. \A i \in 1..count : entries[i] = input[entries[i].path] /\ entries[i].path \in 1..N
      BY <1>1, <2>1 DEF IndInv, ArrayInv
    <2>3. Live = 1..count /\ Kept = 1..count
      BY DEF Live, Kept
    <2>4. S = InodesOf(input, DOMAIN input)
      <3>1. S = {Key(entries[i]) : i \in 1..count} /\ InodesOf(input, DOMAIN input) = {Key(input[l]) : l \in 1..N}
        BY <2>1 DEF InodesOf
      <3>2. \A i \in 1..count : \E l \in 1..N : Key(entries[i]) = Key(input[l])
        BY <2>2
      <3>3. \A l \in 1..N : \E i \in 1..count : Key(entries[i]) = Key(input[l])
        BY <1>1, <2>3 DEF IndInv, Complete, SameKey
      <3> HIDE DEF Key, S
      <3> QED BY <3>1, <3>2, <3>3
    <2>5. CASE matchHardlinks
      <3>1. count = Len(input) /\ collapsed = 0
        BY <1>1, <2>1, <2>5 DEF IndInv, IndexInv
      <3> QED BY <2>2, <2>4, <2>5, <3>1
    <2>6. CASE ~ matchHardlinks
      <3>1. collapsed + count = N
        BY <1>1, <2>6 DEF IndInv, IndexInv
      <3>2. collapsed = Len(input) - count
        BY <2>1, <3>1
      <3>3. f \in [1..count -> S] /\ \A x \in S : \E i \in 1..count : f[i] = x
        BY DEF InodesOf
      <3>4. ASSUME NEW i \in 1..count, NEW j \in 1..count, f[i] = f[j] PROVE i = j
        <4>1. SameKey(entries[i], entries[j])
          BY <3>4 DEF SameKey
        <4>2. \A a, b \in 1..count : a < b => LessThan(entries[a], entries[b])
          BY <1>1, <2>3, <2>6 DEF IndInv, Strict
        <4>3. /\ entries[i].size \in Nat /\ entries[i].dev \in Nat /\ entries[i].ino \in Nat
              /\ entries[j].size \in Nat /\ entries[j].dev \in Nat /\ entries[j].ino \in Nat
          BY <1>1, <2>1, TypeFacts DEF IndInv
        <4>4. ~ LessThan(entries[i], entries[j]) /\ ~ LessThan(entries[j], entries[i])
          BY <4>1, <4>3 DEF LessThan, SameKey
        <4>5. ~ (i < j) /\ ~ (j < i)
          BY <4>2, <4>4
        <4> QED BY <2>1, <4>5
      <3>5. 1 \in Int /\ count \in Int
        BY <2>1
      <3>6. PICK D : D = 1..count
        OBVIOUS
      <3>7. Cardinality(S) = count
        <4>1. Cardinality(S) = count - 1 + 1
          <5> HIDE DEF f, S
          <5>1. f \in [D -> S] /\ (\A i, j \in D : f[i] = f[j] => i = j) /\ (\A x \in S : \E i \in D : f[i] = x)
            BY <3>3, <3>4, <3>6, Zenon
          <5>2. IsFiniteSet(D) /\ Cardinality(D) = count - 1 + 1
            BY <2>1, <3>5, <3>6, FS_Interval
          <5>3. Cardinality(S) = Cardinality(D)
            BY <5>1, <5>2, CountByListing, SMTT(60)
          <5> QED BY <5>2, <5>3
        <4> HIDE DEF S
        <4> QED BY <2>1, <4>1
      <3> QED BY <2>2, <2>4, <2>6, <3>2, <3>7
    <2> QED BY <2>5, <2>6
  <1> QED BY <1>1, Invariance, PTL

(* The groups the scan returns are exactly the classes of two or more files *)
(* of one size, each once, with the size they were formed by, and the       *)
(* candidate count is the number of their files.                            *)
THEOREM GroupsAreExact == Spec => []GroupsAreSizeClasses
  <1>1. ASSUME IndInv PROVE GroupsAreSizeClasses
    <2> SUFFICES ASSUME pc = "done" PROVE GroupsAreSizeClasses
      BY DEF GroupsAreSizeClasses
    <2> DEFINE Class(i) == {j \in 1..count : entries[j].size = entries[i].size}
               Classes == {C \in {Class(i) : i \in 1..count} : Cardinality(C) >= 2}
    <2>1. count \in Nat /\ cursor = count + 1
      BY <1>1, IndexFacts DEF IndInv, ScanInv
    <2>2. \A k \in DOMAIN groups : groups[k].start \in Nat /\ groups[k].length \in Nat /\ IsClass(groups[k])
      BY <1>1, TypeFacts DEF IndInv, GroupsInv
    <2>3. \A i : IsFiniteSet(Class(i))
      <3> TAKE i
      <3>1. IsFiniteSet(1..count)
        BY <2>1, FS_Interval
      <3> QED BY <3>1, FS_Subset
    <2>4. ASSUME NEW k \in DOMAIN groups PROVE Members(groups[k]) \in Classes
      <3>1. PICK a : a = groups[k].start
        OBVIOUS
      <3>2. a \in Members(groups[k]) /\ a + 1 \in Members(groups[k]) /\ a # a + 1
        BY <2>2, <3>1 DEF IsClass, Members
      <3>3. Members(groups[k]) = Class(a) /\ a \in 1..count
        BY <2>2, <3>2 DEF IsClass, Size
      <3>4. Cardinality(Class(a)) >= 2
        <4>1. IsFiniteSet(Class(a)) /\ a \in Class(a) /\ a + 1 \in Class(a)
          BY <2>3, <3>2, <3>3
        <4> HIDE DEF Class
        <4> QED BY <3>2, <4>1, TwoMembers
      <3> HIDE DEF Class
      <3> QED BY <3>3, <3>4
    <2>5. ASSUME NEW C \in Classes PROVE \E k \in DOMAIN groups : C = Members(groups[k])
      <3>1. PICK i \in 1..count : C = Class(i) /\ Cardinality(C) >= 2
        BY <2>5
      <3>2. PICK x \in C, y \in C : x # y
        <4>1. IsFiniteSet(C)
          BY <2>3, <3>1
        <4> HIDE DEF Class, Classes
        <4> QED BY <3>1, <4>1, TwoMembers
      <3>3. x \in 1..count /\ y \in 1..count /\ Size(x) = Size(i) /\ Size(y) = Size(i)
        BY <3>1, <3>2 DEF Size
      <3>4. x < cursor
        BY <2>1, <3>3
      <3>5. PICK k \in DOMAIN groups : x \in Members(groups[k])
        BY <1>1, <3>2, <3>3, <3>4 DEF IndInv, ScanInv
      <3>6. Members(groups[k]) = Class(x)
        BY <2>2, <3>5 DEF IsClass, Size
      <3>7. Class(x) = Class(i)
        BY <3>3 DEF Size
      <3> QED BY <3>1, <3>6, <3>7
    <2>6. {Members(groups[k]) : k \in DOMAIN groups} = Classes
      <3> HIDE DEF Classes
      <3> QED BY <2>4, <2>5
    <2>7. ASSUME NEW k \in DOMAIN groups, NEW l \in DOMAIN groups, Members(groups[k]) \cap Members(groups[l]) # {}
          PROVE  k = l
      <3>1. k \in Nat /\ l \in Nat
        BY <1>1, TypeFacts DEF IndInv
      <3>2. PICK i \in Members(groups[k]) : i \in Members(groups[l])
        BY <2>7
      <3>3. ~ (k < l)
        BY <1>1, <2>2, <3>2 DEF IndInv, GroupsInv, Members
      <3>4. ~ (l < k)
        BY <1>1, <2>2, <3>2 DEF IndInv, GroupsInv, Members
      <3> QED BY <3>1, <3>3, <3>4
    <2>8. candidates = Cardinality(UNION {Members(groups[k]) : k \in DOMAIN groups})
      BY <1>1 DEF IndInv, Counted, Grouped
    <2>9. \A k \in DOMAIN groups : groups[k].size = entries[groups[k].start].size
      BY <2>2 DEF IsClass, Size
    <2> QED BY <2>6, <2>7, <2>8, <2>9 DEF GroupsAreSizeClasses
  <1> QED BY <1>1, Invariance, PTL
=============================================================================
