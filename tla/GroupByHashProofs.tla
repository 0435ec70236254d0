-------------------------- MODULE GroupByHashProofs --------------------------
(***************************************************************************)
(* Proofs about GroupByHash, for every array, every list of parent groups   *)
(* and every result of the unstable sort.                                   *)
(***************************************************************************)
EXTENDS GroupByHash, FiniteLemmas

-----------------------------------------------------------------------------
(* The inductive invariant *)

(* The array handed over: discovery order gives every entry its own path. *)
InputInv == \A i \in DOMAIN input : input[i].path = i

(* The parent groups are disjoint ranges of the array, in increasing order. *)
ParentsInv ==
    /\ \A p \in DOMAIN parents : /\ parents[p].start >= 1 /\ parents[p].length >= 2
                                 /\ parents[p].start + parents[p].length <= Len(input) + 1
    /\ \A p, q \in DOMAIN parents : p < q => parents[p].start + parents[p].length <= parents[q].start

(* The array is a rearrangement of the input inside every parent's range. *)
Rearranged ==
    /\ \A i \in DOMAIN entries : entries[i].path \in DOMAIN input /\ entries[i] = input[entries[i].path]
    /\ \A i, j \in DOMAIN entries : entries[i].path = entries[j].path => i = j
    /\ \A p \in DOMAIN parents : \A i \in Members(parents[p]) : entries[i].path \in Members(parents[p])
    /\ \A p \in DOMAIN parents : \A l \in Members(parents[p]) : \E i \in Members(parents[p]) : entries[i].path = l

(* The range that is being scanned is sorted. *)
ScanInv ==
    /\ pc \in {"allocate", "sort", "scan"} => parent <= Len(parents)
    /\ pc = "scan" => /\ cursor <= Parent.length
                      /\ \A i, j \in Members(Parent) : i < j => entries[i].key <= entries[j].key

(* Everything below the frontier has been scanned. *)
Frontier ==
    IF pc = "scan" THEN Parent.start + cursor
    ELSE IF pc \in {"allocate", "sort"} THEN Parent.start ELSE Len(input) + 1

(* A child group is a complete class of its parent, below the frontier. *)
IsClass(g, p) ==
    /\ Members(g) \subseteq Members(parents[p])
    /\ \A i \in Members(g) : \A j \in Members(parents[p]) : j \in Members(g) <=> entries[j].key = entries[i].key

GroupsAreClasses ==
    \A k \in DOMAIN groups :
        /\ groups[k].start >= 1 /\ groups[k].length >= 2 /\ groups[k].start + groups[k].length <= Frontier
        /\ \E p \in DOMAIN parents : IsClass(groups[k], p)

GroupsOrdered ==
    \A k, l \in DOMAIN groups : k < l => groups[k].start + groups[k].length <= groups[l].start

(* No class crosses the frontier ... *)
Boundary ==
    \A p \in DOMAIN parents : \A i, j \in Members(parents[p]) :
        i < Frontier /\ Frontier <= j => entries[i].key # entries[j].key

(* ... and those of two or more entries below it have their group. *)
Covered ==
    pc # "failed" =>
        \A p \in DOMAIN parents : \A i, j \in Members(parents[p]) :
            i # j /\ i < Frontier /\ entries[i].key = entries[j].key => \E k \in DOMAIN groups : i \in Members(groups[k])

Grouped(gs) == UNION {Members(gs[k]) : k \in DOMAIN gs}

Counted == pc # "failed" => IsFiniteSet(Grouped(groups)) /\ candidates = Cardinality(Grouped(groups))

CapacityInv == Len(groups) <= capacity /\ Len(parents) <= capacity

IndInv ==
    /\ TypeOK /\ InputInv /\ ParentsInv /\ Rearranged /\ ScanInv
    /\ GroupsAreClasses /\ GroupsOrdered /\ Boundary /\ Covered /\ Counted /\ CapacityInv

-----------------------------------------------------------------------------
(* Helpers *)

(* The ranges and the arrays of a well-typed state. *)
LEMMA TypeFacts ==
    ASSUME TypeOK, ParentsInv
    PROVE  /\ Len(input) \in Nat /\ DOMAIN input = 1 .. Len(input) /\ DOMAIN entries = 1 .. Len(input)
           /\ Len(parents) \in Nat /\ DOMAIN parents = 1 .. Len(parents)
           /\ Len(groups) \in Nat /\ DOMAIN groups = 1 .. Len(groups)
           /\ \A i \in 1 .. Len(input) : entries[i] \in Entry /\ input[i] \in Entry
           /\ \A p \in DOMAIN parents : /\ parents[p].start \in Nat /\ parents[p].length \in Nat
                                        /\ Members(parents[p]) \subseteq 1 .. Len(input)
           /\ \A k \in DOMAIN groups : groups[k].start \in Nat /\ groups[k].length \in Nat
  <1>1. Len(input) \in Nat /\ DOMAIN input = 1 .. Len(input) /\ DOMAIN entries = 1 .. Len(input)
        /\ \A i \in 1 .. Len(input) : entries[i] \in Entry /\ input[i] \in Entry
    BY LenProperties, ElementOfSeq DEF TypeOK
  <1>2. Len(parents) \in Nat /\ DOMAIN parents = 1 .. Len(parents)
        /\ \A p \in DOMAIN parents : parents[p] \in Group
    BY LenProperties, ElementOfSeq DEF TypeOK
  <1>3. Len(groups) \in Nat /\ DOMAIN groups = 1 .. Len(groups)
        /\ \A k \in DOMAIN groups : groups[k] \in Group
    BY LenProperties, ElementOfSeq DEF TypeOK
  <1>4. \A p \in DOMAIN parents : parents[p].start \in Nat /\ parents[p].length \in Nat
    BY <1>2 DEF Group
  <1>5. \A p \in DOMAIN parents : Members(parents[p]) \subseteq 1 .. Len(input)
    BY <1>1, <1>4 DEF ParentsInv, Members
  <1> QED BY <1>1, <1>2, <1>3, <1>4, <1>5 DEF Group

(* Members of two parents do not meet. *)
LEMMA ParentsDisjoint ==
    ASSUME TypeOK, ParentsInv, NEW p \in DOMAIN parents, NEW q \in DOMAIN parents,
           NEW i \in Members(parents[p]), i \in Members(parents[q])
    PROVE  p = q
  <1>1. p \in Nat /\ q \in Nat
    BY TypeFacts
  <1>2. parents[p].start \in Nat /\ parents[p].length \in Nat /\ parents[q].start \in Nat /\ parents[q].length \in Nat
    BY TypeFacts
  <1>3. CASE p < q
    BY <1>2, <1>3 DEF ParentsInv, Members
  <1>4. CASE q < p
    BY <1>2, <1>4 DEF ParentsInv, Members
  <1> QED BY <1>1, <1>3, <1>4

(* The run of equal keys at the cursor. *)
LEMMA SubLengthFacts ==
    ASSUME IndInv, pc = "scan", cursor < Parent.length
    PROVE  /\ SubLength \in 1 .. (Parent.length - cursor)
           /\ \A i \in Frontier .. (Frontier + SubLength - 1) : entries[i].key = entries[Frontier].key
           /\ cursor + SubLength < Parent.length => entries[Frontier + SubLength].key # entries[Frontier].key
  <1> DEFINE n == Parent.length - cursor
             E == {i \in Int : entries[i].key = entries[Frontier].key}
             P(len) == /\ \A k \in cursor .. (cursor + len - 1) : At(k).key = At(cursor).key
                       /\ cursor + len < Parent.length => At(cursor + len).key # At(cursor).key
  <1>1. parent \in DOMAIN parents
    BY TypeFacts DEF IndInv, ScanInv, TypeOK
  <1>2. Parent.start \in Nat /\ Parent.length \in Nat /\ cursor \in Nat /\ n \in Nat \ {0}
    BY <1>1, TypeFacts DEF IndInv, TypeOK, Parent
  <1>3. Frontier = Parent.start + cursor /\ Frontier \in Int
    BY <1>2 DEF Frontier
  <1>4. PICK len \in 1 .. n : /\ \A k \in Frontier .. (Frontier + len - 1) : k \in E
                              /\ len < n => Frontier + len \notin E
    <2>1. Frontier \in E
      BY <1>3
    <2> HIDE DEF E, n
    <2> QED BY <1>2, <1>3, <2>1, RunExists
  <1>5. P(len)
    <2>1. \A k \in cursor .. (cursor + len - 1) : Parent.start + k \in Frontier .. (Frontier + len - 1)
      BY <1>2, <1>3
    <2>2. \A k \in cursor .. (cursor + len - 1) : At(k).key = At(cursor).key
      BY <1>2, <1>3, <1>4, <2>1 DEF At
    <2>3. cursor + len < Parent.length => At(cursor + len).key # At(cursor).key
      BY <1>2, <1>3, <1>4 DEF At
    <2> QED BY <2>2, <2>3
  <1>6. SubLength = CHOOSE l \in 1 .. n : P(l)
    BY DEF SubLength
  <1>7. SubLength \in 1 .. n /\ P(SubLength)
    <2> HIDE DEF P
    <2> QED BY <1>5, <1>6
  <1>8. \A i \in Frontier .. (Frontier + SubLength - 1) : entries[i].key = entries[Frontier].key
    <2> TAKE i \in Frontier .. (Frontier + SubLength - 1)
    <2>1. i - Parent.start \in cursor .. (cursor + SubLength - 1) /\ Parent.start + (i - Parent.start) = i
      BY <1>2, <1>3, <1>7
    <2> QED BY <1>3, <1>7, <2>1 DEF At
  <1>9. cursor + SubLength < Parent.length => entries[Frontier + SubLength].key # entries[Frontier].key
    <2>1. Frontier + SubLength = Parent.start + (cursor + SubLength)
      BY <1>2, <1>3, <1>7
    <2> QED BY <1>3, <1>7, <2>1 DEF At
  <1> QED BY <1>7, <1>8, <1>9

-----------------------------------------------------------------------------
LEMMA InitInv == Init => IndInv
  <1> SUFFICES ASSUME Init PROVE IndInv
    OBVIOUS
  <1>1. PICK n \in 0 .. MaxEntries : \E k \in [1 .. n -> Keys] :
             /\ input = [i \in 1 .. n |-> [key |-> k[i], path |-> i]]
             /\ parents \in GroupLists(n)
    BY DEF Init
  <1>2. n \in Nat /\ input \in [1 .. n -> Entry] /\ \A i \in 1 .. n : input[i].path = i
    BY <1>1, BoundsAssumption DEF Entry
  <1>3. input \in Seq(Entry) /\ Len(input) = n /\ DOMAIN input = 1 .. n
    BY <1>2, ArrayIsSeq
  <1> DEFINE ranges == {g \in [start : 1 .. n, length : 2 .. n] : g.start + g.length <= n + 1}
  <1>4. PICK m \in 0 .. (n \div 2) :
             /\ parents \in [1 .. m -> ranges]
             /\ \A i, j \in 1 .. m : i < j => parents[i].start + parents[i].length <= parents[j].start
    BY <1>1 DEF GroupLists
  <1>5. m \in Nat
    BY <1>2, <1>4
  <1>6. ranges \subseteq Group
    BY <1>2 DEF Group
  <1>7. parents \in [1 .. m -> Group]
    BY <1>4, <1>6
  <1>8. parents \in Seq(Group) /\ Len(parents) = m /\ DOMAIN parents = 1 .. m
    BY <1>5, <1>7, ArrayIsSeq
  <1>9. \A p \in 1 .. m : parents[p].start \in 1 .. n /\ parents[p].length \in 2 .. n /\ parents[p].start + parents[p].length <= n + 1
    BY <1>4
  <1>10. groups = <<>> /\ Len(groups) = 0 /\ groups \in Seq(Group) /\ DOMAIN groups = {}
    BY EmptySeq DEF Init
  <1>11. pc = "allocate" => m >= 1
    <2>1. parents = <<>> \/ m # 0
      BY <1>8, EmptySeq
    <2> QED BY <1>5, <2>1 DEF Init
  <1>12. TypeOK
    BY <1>3, <1>5, <1>8, <1>10 DEF Init, TypeOK
  <1>13. InputInv /\ ParentsInv
    BY <1>2, <1>3, <1>4, <1>8, <1>9 DEF InputInv, ParentsInv
  <1>14. Rearranged
    <2>1. \A p \in 1 .. m : Members(parents[p]) \subseteq 1 .. n
      BY <1>2, <1>9 DEF Members
    <2> QED BY <1>2, <1>3, <1>8, <2>1 DEF Rearranged, Init
  <1>15. ScanInv /\ CapacityInv
    BY <1>5, <1>8, <1>10, <1>11 DEF ScanInv, CapacityInv, Init
  <1>16. Grouped(groups) = {}
    BY <1>10 DEF Grouped
  <1>17. GroupsAreClasses /\ GroupsOrdered /\ Counted
    BY <1>10, <1>16, FS_EmptySet DEF GroupsAreClasses, GroupsOrdered, Counted, Init
  <1>18. \A p \in DOMAIN parents : \A i \in Members(parents[p]) : ~ (i < Frontier)
    <2> SUFFICES ASSUME NEW p \in 1 .. m, NEW i \in Members(parents[p]) PROVE ~ (i < Frontier)
      BY <1>8
    <2>1. pc = "allocate" /\ Frontier = parents[1].start
      <3>1. parents # <<>>
        BY <1>8, EmptySeq
      <3> QED BY <3>1 DEF Init, Frontier, Parent
    <2>2. p = 1 \/ parents[1].start + parents[1].length <= parents[p].start
      BY <1>4, <1>5
    <2>3. /\ n \in Nat /\ parents[1].start \in Nat /\ parents[1].length \in Nat
          /\ parents[p].start \in Nat /\ parents[p].length \in Nat
      BY <1>2, <1>5, <1>9
    <2>4. parents[1].start <= parents[p].start
      BY <2>2, <2>3
    <2>5. parents[p].start <= i /\ i \in Int
      BY <2>3 DEF Members
    <2> QED BY <2>1, <2>3, <2>4, <2>5
  <1>19. Boundary /\ Covered
    BY <1>18 DEF Boundary, Covered
  <1> QED BY <1>12, <1>13, <1>14, <1>15, <1>17, <1>19 DEF IndInv

-----------------------------------------------------------------------------
(* The scan of a parent's range *)

(* What the state of a scan says in numbers. *)
LEMMA ScanFacts ==
    ASSUME IndInv, pc = "scan"
    PROVE  /\ parent \in DOMAIN parents /\ Parent = parents[parent]
           /\ Parent.start \in Nat /\ Parent.length \in Nat /\ cursor \in Nat /\ cursor <= Parent.length
           /\ Frontier = Parent.start + cursor
           /\ Members(Parent) \subseteq 1 .. Len(input)
           /\ Len(input) \in Nat
           /\ \A i \in Members(Parent) : i \in Nat /\ entries[i].key \in Nat
  <1>1. parent \in DOMAIN parents
    BY TypeFacts DEF IndInv, ScanInv, TypeOK
  <1>2. Members(Parent) \subseteq 1 .. Len(input) /\ Len(input) \in Nat
    BY <1>1, TypeFacts DEF IndInv, Parent
  <1>3. \A i \in 1 .. Len(input) : entries[i].key \in Nat
    BY TypeFacts, KeysAssumption DEF IndInv, Entry
  <1> QED BY <1>1, <1>2, <1>3, TypeFacts DEF IndInv, ScanInv, TypeOK, Parent, Frontier

(* Moving the frontier over a run of equal keys, in the same range. *)
Moves == /\ pc = "scan" /\ cursor < Parent.length /\ pc' = "scan"
         /\ cursor' = cursor + SubLength
         /\ UNCHANGED <<input, parents, entries, parent>>

LEMMA FrontierMoves ==
    ASSUME IndInv, Moves
    PROVE  /\ Frontier' = Frontier + SubLength
           /\ SubLength \in Nat \ {0}
           /\ Frontier \in Nat
           /\ Frontier .. (Frontier + SubLength - 1) \subseteq Members(Parent)
           /\ Frontier' <= Parent.start + Parent.length
           /\ cursor' \in Nat /\ cursor' <= Parent.length
  <1>1. SubLength \in 1 .. (Parent.length - cursor)
    BY SubLengthFacts DEF Moves
  <1>2. Frontier' = Parent.start + cursor'
    BY DEF Moves, Frontier, Parent
  <1>3. /\ Parent.start \in Nat /\ Parent.length \in Nat /\ cursor \in Nat
        /\ Frontier = Parent.start + cursor /\ cursor' = cursor + SubLength
    BY ScanFacts DEF Moves
  <1>4. Frontier .. (Frontier + SubLength - 1) \subseteq Members(Parent)
    BY <1>1, <1>3 DEF Members
  <1> QED BY <1>1, <1>2, <1>3, <1>4

LEMMA BoundaryMoves ==
    ASSUME IndInv, Moves
    PROVE  Boundary'
  <1> SUFFICES ASSUME NEW p \in DOMAIN parents, NEW i \in Members(parents[p]), NEW j \in Members(parents[p]),
                      i < Frontier', Frontier' <= j
               PROVE  entries[i].key # entries[j].key
    BY DEF Boundary, Moves
  <1>0. i \in Nat /\ j \in Nat
    BY TypeFacts DEF IndInv
  <1>a. /\ Parent.start \in Nat /\ Parent.length \in Nat /\ cursor \in Nat /\ Parent = parents[parent]
        /\ Frontier = Parent.start + cursor /\ SubLength \in Nat \ {0}
        /\ Frontier' = Frontier + SubLength /\ pc = "scan" /\ cursor < Parent.length
    BY ScanFacts, FrontierMoves DEF Moves
  <1>1. CASE i < Frontier
    BY <1>0, <1>1, FrontierMoves DEF IndInv, Boundary
  <1>2. CASE Frontier <= i
    <2>1. i \in Frontier .. (Frontier + SubLength - 1) /\ i \in Members(Parent)
      BY <1>0, <1>2, FrontierMoves
    <2>2. p = parent
      BY <2>1, ScanFacts, ParentsDisjoint DEF IndInv, Moves
    <2>3. entries[i].key = entries[Frontier].key
      BY <2>1, SubLengthFacts DEF Moves
    <2>4. Frontier \in Members(Parent) /\ Frontier + SubLength \in Members(Parent) /\ cursor + SubLength < Parent.length
      BY <1>0, <1>a, <2>2 DEF Members
    <2>5. entries[Frontier + SubLength].key # entries[Frontier].key
      BY <2>4, SubLengthFacts DEF Moves
    <2>6. entries[Frontier].key <= entries[Frontier + SubLength].key
      BY <2>4, FrontierMoves DEF IndInv, ScanInv, Moves
    <2>7. j \in Members(Parent) /\ (j = Frontier + SubLength \/ Frontier + SubLength < j)
      BY <1>0, <1>a, <2>2
    <2>8. entries[Frontier + SubLength].key <= entries[j].key
      BY <2>4, <2>7, ScanFacts DEF IndInv, ScanInv, Moves
    <2> QED BY <2>3, <2>4, <2>5, <2>6, <2>7, <2>8, ScanFacts DEF Moves
  <1>3. Frontier \in Nat
    BY FrontierMoves
  <1> QED BY <1>0, <1>1, <1>2, <1>3

(* The parts of the invariant that do not depend on the groups. *)
LEMMA ArrayMoves ==
    ASSUME IndInv, Moves
    PROVE  InputInv' /\ ParentsInv' /\ Rearranged' /\ ScanInv'
  <1>1. InputInv' /\ ParentsInv' /\ Rearranged'
    BY DEF IndInv, Moves, InputInv, ParentsInv, Rearranged
  <1>2. ScanInv'
    BY FrontierMoves DEF IndInv, Moves, ScanInv, Parent
  <1> QED BY <1>1, <1>2

LEMMA SkipRunInv == ASSUME IndInv, SkipRun PROVE IndInv'
  <1>1. Moves /\ UNCHANGED <<groups, capacity, candidates>> /\ SubLength < 2
    BY DEF SkipRun, Moves
  <1>2. Frontier' = Frontier + SubLength /\ SubLength = 1 /\ Frontier \in Nat /\ cursor' \in Nat
    BY <1>1, FrontierMoves
  <1>3. Boundary' /\ InputInv' /\ ParentsInv' /\ Rearranged' /\ ScanInv'
    BY <1>1, BoundaryMoves, ArrayMoves
  <1>4. TypeOK'
    BY <1>1, <1>2 DEF IndInv, TypeOK, Moves
  <1>5. GroupsAreClasses'
    <2>1. \A k \in DOMAIN groups : groups[k].start \in Nat /\ groups[k].length \in Nat
      BY TypeFacts DEF IndInv
    <2> QED BY <1>1, <1>2, <2>1 DEF IndInv, GroupsAreClasses, IsClass, Moves
  <1>6. GroupsOrdered' /\ Counted' /\ CapacityInv'
    BY <1>1 DEF IndInv, GroupsOrdered, Counted, CapacityInv, Moves
  <1>7. Covered'
    <2> SUFFICES ASSUME NEW p \in DOMAIN parents, NEW i \in Members(parents[p]), NEW j \in Members(parents[p]),
                        i # j, i < Frontier', entries[i].key = entries[j].key
                 PROVE  \E k \in DOMAIN groups : i \in Members(groups[k])
      BY <1>1 DEF Covered, Moves
    <2>0. i \in Nat /\ j \in Nat
      BY TypeFacts DEF IndInv
    <2>1. CASE i < Frontier
      BY <1>1, <2>1 DEF IndInv, Covered, Moves
    <2>2. CASE i = Frontier
      <3>1. ~ (Frontier' <= j)
        BY <1>1, <1>3 DEF Boundary, Moves
      <3>2. j < Frontier
        BY <1>2, <2>0, <2>2, <3>1
      <3> QED BY <2>2, <3>2, <1>2 DEF IndInv, Boundary
    <2> QED BY <1>2, <2>0, <2>1, <2>2
  <1> QED BY <1>3, <1>4, <1>5, <1>6, <1>7 DEF IndInv

LEMMA AddGroupInv == ASSUME IndInv, AddGroup PROVE IndInv'
  <1>0. PICK g, q : g = [start |-> Parent.start + cursor, length |-> SubLength] /\ q = parent
    OBVIOUS
  <1> DEFINE n == Len(groups)
  <1>1. /\ Moves /\ SubLength >= 2 /\ pc = "scan" /\ pc' = "scan"
        /\ groups' = Append(groups, g)
        /\ capacity' = IF Len(groups) = capacity THEN capacity * 2 ELSE capacity
        /\ candidates' = candidates + SubLength
    BY <1>0 DEF AddGroup, Moves
  <1>2. Frontier' = Frontier + SubLength /\ SubLength \in Nat /\ Frontier \in Nat /\ cursor' \in Nat
        /\ Frontier = Parent.start + cursor
        /\ Frontier .. (Frontier + SubLength - 1) \subseteq Members(Parent)
        /\ q \in DOMAIN parents /\ Parent = parents[q]
    BY <1>0, <1>1, FrontierMoves, ScanFacts
  <1>3. Boundary' /\ InputInv' /\ ParentsInv' /\ Rearranged' /\ ScanInv'
    BY <1>1, BoundaryMoves, ArrayMoves
  <1>4. g \in Group /\ g.start = Frontier /\ g.length = SubLength /\ Members(g) = Frontier .. (Frontier + SubLength - 1)
    BY <1>0, <1>2 DEF Group, Members
  <1>5. groups \in Seq(Group) /\ n \in Nat /\ DOMAIN groups = 1 .. n
        /\ \A k \in DOMAIN groups : groups[k].start \in Nat /\ groups[k].length \in Nat
    BY TypeFacts DEF IndInv, TypeOK
  <1>6. /\ groups' \in Seq(Group) /\ Len(groups') = n + 1 /\ DOMAIN groups' = 1 .. (n + 1)
        /\ groups'[n + 1] = g /\ \A k \in 1 .. n : groups'[k] = groups[k]
    BY <1>1, <1>4, <1>5, AppendFacts
  <1>7. TypeOK'
    BY <1>1, <1>2, <1>6 DEF IndInv, TypeOK, Moves
  <1>8. IsClass(g, q)
    <2> SUFFICES ASSUME NEW i \in Members(g), NEW j \in Members(Parent)
                 PROVE  j \in Members(g) <=> entries[j].key = entries[i].key
      BY <1>2, <1>4 DEF IsClass
    <2>a. i \in Members(Parent)
      BY <1>2, <1>4
    <2>b. i \in Nat /\ j \in Nat
      BY <1>1, <2>a, ScanFacts
    <2>0. i \in Members(Parent) /\ i \in Nat /\ j \in Nat /\ Frontier <= i /\ i < Frontier'
      BY <1>2, <1>4, <2>a, <2>b
    <2>1. entries[i].key = entries[Frontier].key
      BY <1>1, <1>4, SubLengthFacts DEF Moves
    <2>2. CASE j \in Members(g)
      <3>1. entries[j].key = entries[Frontier].key
        BY <1>1, <1>4, <2>2, SubLengthFacts DEF Moves
      <3> QED BY <2>1, <2>2, <3>1
    <2>3. CASE j < Frontier
      <3>1. entries[j].key # entries[i].key
        BY <1>2, <2>0, <2>3 DEF IndInv, Boundary
      <3> QED BY <1>2, <1>4, <2>0, <2>3, <3>1
    <2>4. CASE Frontier' <= j
      <3>1. entries[i].key # entries[j].key
        BY <1>1, <1>2, <1>3, <2>0, <2>4 DEF Boundary, Moves
      <3> QED BY <1>2, <1>4, <2>0, <2>4, <3>1
    <2> QED BY <1>2, <1>4, <2>0, <2>2, <2>3, <2>4
  <1>9. GroupsAreClasses'
    <2> SUFFICES ASSUME NEW k \in 1 .. (n + 1)
                 PROVE  /\ groups'[k].start >= 1 /\ groups'[k].length >= 2 /\ groups'[k].start + groups'[k].length <= Frontier'
                        /\ \E p \in DOMAIN parents : IsClass(groups[k], p)'
      BY <1>1, <1>6 DEF GroupsAreClasses, Moves
    <2>1. CASE k \in 1 .. n
      <3>1. groups'[k] = groups[k] /\ k \in DOMAIN groups
        BY <1>5, <1>6, <2>1
      <3>2. PICK p \in DOMAIN parents : IsClass(groups[k], p)
        BY <3>1 DEF IndInv, GroupsAreClasses
      <3>3. IsClass(groups[k], p)'
        BY <1>1, <3>1, <3>2 DEF IsClass, Moves
      <3>4. groups[k].start >= 1 /\ groups[k].length >= 2 /\ groups[k].start + groups[k].length <= Frontier
        BY <3>1 DEF IndInv, GroupsAreClasses
      <3> QED BY <1>2, <1>5, <3>1, <3>3, <3>4
    <2>2. CASE k = n + 1
      <3>1. groups'[k] = g
        BY <1>6, <2>2
      <3>2. g.start >= 1
        <4>1. Parent.start >= 1 /\ Parent.start \in Nat /\ cursor \in Nat
          BY <1>1, <1>2, ScanFacts DEF IndInv, ParentsInv
        <4> QED BY <1>2, <1>4, <4>1
      <3>3. IsClass(groups[k], q)'
        BY <1>8, <3>1, <1>1 DEF IsClass, Moves
      <3>4. groups'[k].start + groups'[k].length <= Frontier' /\ groups'[k].length >= 2
        <4>1. SubLength >= 2
          BY <1>1
        <4> QED BY <1>2, <1>4, <3>1, <4>1
      <3> QED BY <1>2, <3>1, <3>2, <3>3, <3>4
    <2>3. n \in Nat
      BY <1>5
    <2>4. k \in 1 .. n \/ k = n + 1
      BY ONLY <2>3, k \in 1 .. (n + 1)
    <2> QED BY <2>1, <2>2, <2>4
  <1>10. GroupsOrdered'
    <2> SUFFICES ASSUME NEW k \in 1 .. (n + 1), NEW l \in 1 .. (n + 1), k < l
                 PROVE  groups'[k].start + groups'[k].length <= groups'[l].start
      BY <1>6 DEF GroupsOrdered
    <2>0. n \in Nat /\ k \in 1 .. (n + 1) /\ l \in 1 .. (n + 1) /\ k < l
      BY <1>5
    <2>1. k \in 1 .. n /\ (l \in 1 .. n \/ l = n + 1)
      BY ONLY <2>0
    <2>2. groups'[k] = groups[k] /\ k \in DOMAIN groups
      BY <1>5, <1>6, <2>1
    <2>3. CASE l \in 1 .. n
      <3>1. groups'[l] = groups[l] /\ l \in DOMAIN groups
        BY <1>5, <1>6, <2>3
      <3>2. groups[k].start + groups[k].length <= groups[l].start
        BY <2>0, <2>2, <3>1 DEF IndInv, GroupsOrdered
      <3> QED BY <2>2, <3>1, <3>2
    <2>4. CASE l = n + 1
      <3>1. groups'[l].start = Frontier
        BY <1>4, <1>6, <2>4
      <3>2. groups[k].start + groups[k].length <= Frontier
        BY <2>2 DEF IndInv, GroupsAreClasses
      <3> QED BY <2>2, <3>1, <3>2
    <2> QED BY <2>1, <2>3, <2>4
  <1>11. Grouped(groups)' = Grouped(groups) \cup Members(g)
    <2>1. Grouped(groups)' = UNION {Members(groups'[k]) : k \in 1 .. (n + 1)}
      BY <1>6 DEF Grouped
    <2>2. Grouped(groups) = UNION {Members(groups[k]) : k \in 1 .. n}
      BY <1>5 DEF Grouped
    <2>3. \A k \in 1 .. (n + 1) : k \in 1 .. n \/ k = n + 1
      BY <1>5
    <2>4. n + 1 \in 1 .. (n + 1) /\ 1 .. n \subseteq 1 .. (n + 1)
      BY <1>5
    <2> QED BY <1>6, <2>1, <2>2, <2>3, <2>4
  <1>12. Counted'
    <2>1. Grouped(groups) \cap Members(g) = {}
      <3> SUFFICES ASSUME NEW k \in DOMAIN groups, NEW i \in Members(groups[k]), i \in Members(g) PROVE FALSE
        BY DEF Grouped
      <3>1. groups[k].start + groups[k].length <= Frontier
        BY DEF IndInv, GroupsAreClasses
      <3>2. /\ groups[k].start \in Nat /\ groups[k].length \in Nat /\ Frontier \in Nat
            /\ i \in groups[k].start .. (groups[k].start + groups[k].length - 1)
        BY <1>2, <1>5 DEF Members
      <3>3. i < Frontier /\ i \in Int
        BY ONLY <3>1, <3>2
      <3>4. Frontier <= i
        BY <1>2, <1>4, <3>3
      <3> QED BY ONLY <3>2, <3>3, <3>4
    <2>2. IsFiniteSet(Grouped(groups)) /\ candidates = Cardinality(Grouped(groups))
      BY <1>1 DEF IndInv, Counted
    <2>3. /\ IsFiniteSet(Grouped(groups) \cup Members(g))
          /\ Cardinality(Grouped(groups) \cup Members(g)) = Cardinality(Grouped(groups)) + SubLength
      <3>1. Frontier \in Int /\ SubLength \in Nat
        BY <1>2
      <3>2. Members(g) = Frontier .. (Frontier + SubLength - 1)
        BY <1>4
      <3>3. IsFiniteSet(Grouped(groups))
        BY <2>2
      <3> QED BY <3>1, <3>2, <3>3, <2>1, AddInterval, Zenon
    <2> QED BY <1>1, <1>11, <2>2, <2>3 DEF Counted
  <1>13. CapacityInv'
    <2>1. Len(parents) >= 1 /\ Len(parents) \in Nat /\ capacity \in Nat
      BY <1>2, TypeFacts DEF IndInv, TypeOK
    <2>2. n <= capacity /\ Len(parents) <= capacity
      BY DEF IndInv, CapacityInv
    <2>3. capacity' >= capacity /\ n + 1 <= capacity' /\ capacity' \in Nat
      BY <1>1, <1>5, <2>1, <2>2
    <2>4. parents' = parents
      BY <1>1 DEF Moves
    <2> QED BY <1>6, <2>1, <2>2, <2>3, <2>4 DEF CapacityInv
  <1>14. Covered'
    <2> SUFFICES ASSUME NEW p \in DOMAIN parents, NEW i \in Members(parents[p]), NEW j \in Members(parents[p]),
                        i # j, i < Frontier', entries[i].key = entries[j].key
                 PROVE  \E k \in DOMAIN groups' : i \in Members(groups'[k])
      BY <1>1 DEF Covered, Moves
    <2>0. i \in Nat
      BY TypeFacts DEF IndInv
    <2>1. CASE i < Frontier
      <3>1. PICK k \in DOMAIN groups : i \in Members(groups[k])
        BY <1>1, <2>1 DEF IndInv, Covered
      <3>2. k \in DOMAIN groups' /\ groups'[k] = groups[k]
        BY <1>5, <1>6
      <3> QED BY <3>1, <3>2
    <2>2. CASE Frontier <= i
      <3>1. i \in Members(g)
        BY <1>2, <1>4, <2>0, <2>2
      <3>2. n + 1 \in DOMAIN groups'
        BY <1>5, <1>6
      <3> QED BY <1>6, <3>1, <3>2
    <2> QED BY <1>2, <2>0, <2>1, <2>2
  <1> QED BY <1>3, <1>7, <1>9, <1>10, <1>12, <1>13, <1>14 DEF IndInv

-----------------------------------------------------------------------------
(* Between the scans *)

LEMMA AllocateInv == ASSUME IndInv, Allocate PROVE IndInv'
  <1>1. UNCHANGED <<input, parents, entries, parent, cursor, groups, capacity, candidates>>
        /\ pc = "allocate" /\ pc' \in {"sort", "failed"}
    BY DEF Allocate
  <1>2. TypeOK' /\ InputInv' /\ ParentsInv' /\ Rearranged' /\ ScanInv' /\ CapacityInv' /\ GroupsOrdered' /\ Counted'
    BY <1>1 DEF IndInv, TypeOK, InputInv, ParentsInv, Rearranged, ScanInv, CapacityInv, GroupsOrdered, Counted
  <1>3. CASE pc' = "sort"
    <2>1. Frontier' = Frontier
      BY <1>1, <1>3 DEF Frontier, Parent
    <2>2. GroupsAreClasses' /\ Boundary' /\ Covered'
      BY <1>1, <2>1 DEF IndInv, GroupsAreClasses, IsClass, Boundary, Covered
    <2> QED BY <1>2, <2>2 DEF IndInv
  <1>4. CASE pc' = "failed"
    <2>1. Frontier' = Len(input) + 1
      BY <1>1, <1>4 DEF Frontier
    <2>2. Boundary'
      <3>1. \A p \in DOMAIN parents : \A j \in Members(parents[p]) : ~ (Len(input) + 1 <= j)
        BY TypeFacts DEF IndInv
      <3> QED BY <1>1, <2>1, <3>1 DEF Boundary
    <2>3. Covered'
      BY <1>4 DEF Covered
    <2>4. Frontier <= Len(input) + 1 /\ Frontier \in Int /\ Len(input) \in Nat
      <3>1. parent \in DOMAIN parents /\ Frontier = parents[parent].start
        BY <1>1, TypeFacts DEF IndInv, ScanInv, TypeOK, Frontier, Parent
      <3>2. parents[parent].start \in Nat /\ parents[parent].length \in Nat /\ Len(input) \in Nat
        BY <3>1, TypeFacts DEF IndInv
      <3> QED BY <3>1, <3>2 DEF IndInv, ParentsInv
    <2>5. GroupsAreClasses'
      <3>1. \A k \in DOMAIN groups : groups[k].start \in Nat /\ groups[k].length \in Nat
        BY TypeFacts DEF IndInv
      <3> QED BY <1>1, <2>1, <2>4, <3>1 DEF IndInv, GroupsAreClasses, IsClass
    <2> QED BY <1>2, <2>2, <2>3, <2>5 DEF IndInv
  <1> QED BY <1>1, <1>3, <1>4

LEMMA GrowFailsInv == ASSUME IndInv, GrowFails PROVE IndInv'
  <1>1. UNCHANGED <<input, parents, entries, parent, cursor, capacity>> /\ pc' = "failed" /\ groups' = <<>>
    BY DEF GrowFails
  <1>2. groups' \in Seq(Group) /\ Len(groups') = 0 /\ DOMAIN groups' = {}
    BY <1>1, EmptySeq
  <1>3. TypeOK' /\ InputInv' /\ ParentsInv' /\ Rearranged' /\ ScanInv'
    BY <1>1, <1>2 DEF GrowFails, IndInv, TypeOK, InputInv, ParentsInv, Rearranged, ScanInv
  <1>4. GroupsAreClasses' /\ GroupsOrdered' /\ Covered' /\ Counted'
    BY <1>1, <1>2 DEF GroupsAreClasses, GroupsOrdered, Covered, Counted
  <1>5. CapacityInv'
    BY <1>1, <1>2 DEF IndInv, TypeOK, CapacityInv
  <1>6. Boundary'
    <2>1. \A p \in DOMAIN parents : \A j \in Members(parents[p]) : ~ (Len(input) + 1 <= j)
      BY TypeFacts DEF IndInv
    <2>2. Frontier' = Len(input) + 1
      BY <1>1 DEF Frontier
    <2> QED BY <1>1, <2>1, <2>2 DEF Boundary
  <1> QED BY <1>3, <1>4, <1>5, <1>6 DEF IndInv

(* The next range begins behind the one scanned, and no member of a parent  *)
(* lies between them.                                                       *)
LEMMA NextParentInv == ASSUME IndInv, NextParent PROVE IndInv'
  <1>1. UNCHANGED <<input, parents, entries, cursor, groups, capacity, candidates>>
        /\ pc = "scan" /\ cursor >= Parent.length /\ parent' = parent + 1
        /\ pc' = IF parent < Len(parents) THEN "sort" ELSE "done"
    BY DEF NextParent
  <1>2. /\ parent \in DOMAIN parents /\ Parent = parents[parent]
        /\ Parent.start \in Nat /\ Parent.length \in Nat
        /\ Frontier = Parent.start + Parent.length
        /\ Len(input) \in Nat
    BY <1>1, ScanFacts
  <1>3. /\ DOMAIN parents = 1 .. Len(parents) /\ Len(parents) \in Nat
        /\ \A p \in DOMAIN parents : /\ parents[p].start \in Nat /\ parents[p].length \in Nat
                                     /\ Members(parents[p]) \subseteq 1 .. Len(input)
        /\ \A k \in DOMAIN groups : groups[k].start \in Nat /\ groups[k].length \in Nat
    BY TypeFacts DEF IndInv
  <1>4. TypeOK' /\ InputInv' /\ ParentsInv' /\ Rearranged' /\ ScanInv' /\ CapacityInv' /\ GroupsOrdered' /\ Counted'
    BY <1>1, <1>2, <1>3 DEF IndInv, TypeOK, InputInv, ParentsInv, Rearranged, ScanInv, CapacityInv, GroupsOrdered, Counted
  <1>5. /\ Frontier <= Frontier' /\ Frontier' \in Nat
        /\ \A p \in DOMAIN parents : \A i \in Members(parents[p]) : i < Frontier' => i < Frontier
    <2>1. CASE parent < Len(parents)
      <3>1. pc' = "sort" /\ parent + 1 \in DOMAIN parents
        BY <1>1, <1>2, <1>3, <2>1
      <3>2. Frontier' = parents[parent + 1].start
        BY <1>1, <3>1 DEF Frontier, Parent
      <3>3. Frontier <= parents[parent + 1].start
        BY <1>2, <1>3, <3>1 DEF IndInv, ParentsInv
      <3>4. ASSUME NEW p \in DOMAIN parents, NEW i \in Members(parents[p]), i < parents[parent + 1].start
            PROVE  i < Frontier
        <4>1. p <= parent
          <5> SUFFICES ASSUME p > parent PROVE FALSE
            BY <1>2, <1>3
          <5>1. p = parent + 1 \/ parent + 1 < p
            BY <1>2, <1>3
          <5>2. parents[parent + 1].start <= parents[p].start
            BY <1>3, <3>1, <5>1 DEF IndInv, ParentsInv
          <5> QED BY <1>3, <3>1, <3>4, <5>2 DEF Members
        <4>2. parents[p].start + parents[p].length <= Frontier
          <5>1. CASE p = parent
            BY <1>2, <5>1
          <5>2. CASE p < parent
            <6>1. parents[p].start + parents[p].length <= Parent.start
              BY <1>2, <5>2 DEF IndInv, ParentsInv
            <6>2. parents[p].start \in Nat /\ parents[p].length \in Nat
              BY <1>3
            <6> HIDE DEF Frontier, Parent
            <6> QED BY <1>2, <6>1, <6>2
          <5> QED BY <1>2, <1>3, <4>1, <5>1, <5>2
        <4> QED BY <1>2, <1>3, <4>2 DEF Members
      <3> QED BY <1>3, <3>1, <3>2, <3>3, <3>4
    <2>2. CASE ~ (parent < Len(parents))
      <3>1. pc' = "done" /\ parent = Len(parents)
        BY <1>1, <1>2, <1>3, <2>2
      <3>2. Frontier' = Len(input) + 1
        BY <1>1, <3>1 DEF Frontier
      <3>3. Frontier <= Len(input) + 1
        BY <1>2 DEF IndInv, ParentsInv
      <3>4. ASSUME NEW p \in DOMAIN parents, NEW i \in Members(parents[p]) PROVE i < Frontier
        <4>2. parents[p].start + parents[p].length <= Frontier
          <5>1. CASE p = parent
            BY <1>2, <5>1
          <5>2. CASE p < parent
            <6>1. parents[p].start + parents[p].length <= Parent.start
              BY <1>2, <5>2 DEF IndInv, ParentsInv
            <6>2. parents[p].start \in Nat /\ parents[p].length \in Nat
              BY <1>3
            <6> HIDE DEF Frontier, Parent
            <6> QED BY <1>2, <6>1, <6>2
          <5> QED BY <1>2, <1>3, <3>1, <5>1, <5>2
        <4> QED BY <1>2, <1>3, <4>2 DEF Members
      <3> QED BY <1>2, <3>2, <3>3, <3>4
    <2> QED BY <2>1, <2>2
  <1>6. Frontier \in Nat
    BY <1>2
  <1>7. GroupsAreClasses'
    BY <1>1, <1>3, <1>5, <1>6 DEF IndInv, GroupsAreClasses, IsClass
  <1>8. Boundary'
    <2> SUFFICES ASSUME NEW p \in DOMAIN parents, NEW i \in Members(parents[p]), NEW j \in Members(parents[p]),
                        i < Frontier', Frontier' <= j
                 PROVE  entries[i].key # entries[j].key
      BY <1>1 DEF Boundary
    <2>1. i < Frontier /\ Frontier <= j
      BY <1>3, <1>5, <1>6
    <2> QED BY <2>1 DEF IndInv, Boundary
  <1>9. Covered'
    BY <1>1, <1>5 DEF IndInv, Covered
  <1> QED BY <1>4, <1>7, <1>8, <1>9 DEF IndInv

(* What sorting the range of g leaves of s. *)
LEMMA SortedRangeFacts ==
    ASSUME NEW s, NEW g, Members(g) \subseteq DOMAIN s, NEW t \in SortedRange(s, g)
    PROVE  \E f \in [Members(g) -> Members(g)] :
               /\ \A i, j \in Members(g) : f[i] = f[j] => i = j
               /\ \A j \in Members(g) : \E i \in Members(g) : f[i] = j
               /\ t = [i \in DOMAIN s |-> IF i \in Members(g) THEN s[f[i]] ELSE s[i]]
               /\ \A i, j \in Members(g) : i < j => t[i].key <= t[j].key
  BY DEF SortedRange, Bijection, Injection, Surjection, IsInjective

LEMMA SortParentInv == ASSUME IndInv, SortParent PROVE IndInv'
  <1> DEFINE M == Members(Parent)
  <1>1. /\ UNCHANGED <<input, parents, parent, groups, capacity, candidates>>
        /\ pc = "sort" /\ pc' = "scan" /\ cursor' = 0 /\ entries' \in SortedRange(entries, Parent)
    BY DEF SortParent
  <1>2. parent \in DOMAIN parents /\ Parent = parents[parent]
    BY <1>1, TypeFacts DEF IndInv, ScanInv, TypeOK, Parent
  <1>3. /\ DOMAIN entries = 1 .. Len(input) /\ DOMAIN input = 1 .. Len(input) /\ Len(input) \in Nat
        /\ M \subseteq DOMAIN entries
        /\ Parent.start \in Nat /\ Parent.length \in Nat
        /\ \A i \in DOMAIN entries : entries[i] \in Entry
    BY <1>2, TypeFacts DEF IndInv
  <1>4. PICK f \in [M -> M] :
               /\ \A i, j \in M : f[i] = f[j] => i = j
               /\ \A j \in M : \E i \in M : f[i] = j
               /\ entries' = [i \in DOMAIN entries |-> IF i \in M THEN entries[f[i]] ELSE entries[i]]
               /\ \A i, j \in M : i < j => entries'[i].key <= entries'[j].key
    BY <1>1, <1>3, SortedRangeFacts
  <1>5. /\ DOMAIN entries' = DOMAIN entries
        /\ \A i \in M : entries'[i] = entries[f[i]] /\ f[i] \in M
        /\ \A i \in DOMAIN entries \ M : entries'[i] = entries[i]
    BY <1>3, <1>4
  <1>6. entries' \in Seq(Entry) /\ Len(entries') = Len(input)
    <2>1. entries' \in [1 .. Len(input) -> Entry]
      BY <1>3, <1>4
    <2> QED BY <1>3, <2>1, ArrayIsSeq
  <1>7. TypeOK'
    BY <1>1, <1>6 DEF IndInv, TypeOK
  <1>8. InputInv' /\ ParentsInv' /\ CapacityInv' /\ GroupsOrdered' /\ Counted'
    BY <1>1 DEF IndInv, InputInv, ParentsInv, CapacityInv, GroupsOrdered, Counted
  <1>9. Frontier' = Frontier /\ Frontier = Parent.start
    BY <1>1, <1>3 DEF Frontier, Parent
  <1>10. ScanInv'
    <2>1. (Parent = parents[parent])' /\ Parent' = Parent
      BY <1>1 DEF Parent
    <2>2. parent' <= Len(parents')
      BY <1>1 DEF IndInv, ScanInv
    <2>3. cursor' <= Parent'.length
      BY <1>1, <1>3, <2>1
    <2>4. \A i, j \in Members(Parent') : i < j => entries'[i].key <= entries'[j].key
      BY <1>4, <2>1
    <2> QED BY <2>2, <2>3, <2>4 DEF ScanInv
  \* a parent other than the one sorted keeps its entries
  <1>11. ASSUME NEW p \in DOMAIN parents, NEW i \in Members(parents[p]), p # parent
         PROVE  i \in DOMAIN entries /\ entries'[i] = entries[i]
    <2>1. i \notin M
      BY <1>2, <1>11, ParentsDisjoint DEF IndInv
    <2> QED BY <1>3, <1>5, <2>1, TypeFacts DEF IndInv
  <1>12. Rearranged'
    <2>1. \A i \in DOMAIN entries : \E j \in DOMAIN entries : entries'[i] = entries[j]
      BY <1>3, <1>5
    <2>2. \A i \in DOMAIN entries' : entries'[i].path \in DOMAIN input /\ entries'[i] = input[entries'[i].path]
      BY <1>5, <2>1 DEF IndInv, Rearranged
    <2>3. ASSUME NEW i \in DOMAIN entries, NEW j \in DOMAIN entries, entries'[i].path = entries'[j].path PROVE i = j
      <3>1. \A a, b \in DOMAIN entries : entries[a].path = entries[b].path => a = b
        BY DEF IndInv, Rearranged
      <3>2. CASE i \in M /\ j \in M
        BY <1>3, <1>4, <1>5, <2>3, <3>1, <3>2
      <3>3. CASE i \notin M /\ j \notin M
        BY <1>5, <2>3, <3>1, <3>3
      <3>4. CASE i \in M /\ j \notin M
        BY <1>3, <1>5, <2>3, <3>1, <3>4
      <3>5. CASE i \notin M /\ j \in M
        BY <1>3, <1>5, <2>3, <3>1, <3>5
      <3> QED BY <3>2, <3>3, <3>4, <3>5
    <2>4. ASSUME NEW p \in DOMAIN parents
          PROVE  /\ \A i \in Members(parents[p]) : entries'[i].path \in Members(parents[p])
                 /\ \A l \in Members(parents[p]) : \E i \in Members(parents[p]) : entries'[i].path = l
      <3>0. /\ \A i \in Members(parents[p]) : entries[i].path \in Members(parents[p])
            /\ \A l \in Members(parents[p]) : \E i \in Members(parents[p]) : entries[i].path = l
        BY DEF IndInv, Rearranged
      <3>1. CASE p = parent
        <4>1. Members(parents[p]) = M
          BY <1>2, <3>1
        <4>2. \A i \in M : entries'[i].path \in M
          BY <1>5, <3>0, <4>1
        <4>3. ASSUME NEW l \in M PROVE \E i \in M : entries'[i].path = l
          <5>1. PICK j \in M : entries[j].path = l
            BY <3>0, <4>1
          <5>2. PICK i \in M : f[i] = j
            BY <1>4
          <5> QED BY <1>5, <5>1, <5>2
        <4> QED BY <4>1, <4>2, <4>3
      <3>2. CASE p # parent
        BY <1>11, <3>0, <3>2
      <3> QED BY <3>1, <3>2
    <2> QED BY <1>1, <1>5, <2>2, <2>3, <2>4 DEF Rearranged
  \* what lies below the frontier belongs to another parent
  <1>13. ASSUME NEW p \in DOMAIN parents, NEW i \in Members(parents[p]), i < Frontier
         PROVE  \A j \in Members(parents[p]) : entries'[j] = entries[j]
    <2>1. p # parent
      BY <1>2, <1>3, <1>9, <1>13 DEF Members
    <2> QED BY <1>11, <2>1
  <1>14. Boundary' /\ Covered'
    <2>1. \A p \in DOMAIN parents : \A i, j \in Members(parents[p]) :
             i < Frontier => entries'[i] = entries[i] /\ entries'[j] = entries[j]
      BY <1>13
    <2> QED BY <1>1, <1>9, <2>1 DEF IndInv, Boundary, Covered
  <1>15. GroupsAreClasses'
    <2> SUFFICES ASSUME NEW k \in DOMAIN groups
                 PROVE  \E p \in DOMAIN parents : IsClass(groups[k], p)'
      BY <1>1, <1>9 DEF IndInv, GroupsAreClasses
    <2>1. PICK p \in DOMAIN parents : IsClass(groups[k], p)
      BY DEF IndInv, GroupsAreClasses
    <2>2. groups[k].start \in Nat /\ groups[k].length \in Nat /\ groups[k].length >= 2
          /\ groups[k].start + groups[k].length <= Frontier
      BY TypeFacts DEF IndInv, GroupsAreClasses
    <2>3. groups[k].start \in Members(groups[k]) /\ groups[k].start < Frontier
      BY <1>3, <1>9, <2>2 DEF Members
    <2>4. \A j \in Members(parents[p]) : entries'[j] = entries[j]
      BY <1>13, <2>1, <2>3 DEF IsClass
    <2> QED BY <1>1, <2>1, <2>4 DEF IsClass
  <1> QED BY <1>7, <1>8, <1>10, <1>12, <1>14, <1>15 DEF IndInv

-----------------------------------------------------------------------------
(* The theorems *)

LEMMA InductiveStep == ASSUME IndInv, [Next]_vars PROVE IndInv'
  <1>1. CASE UNCHANGED vars
    BY <1>1 DEF vars, IndInv, TypeOK, InputInv, ParentsInv, Rearranged, ScanInv, GroupsAreClasses, GroupsOrdered,
                Boundary, Covered, Counted, CapacityInv, Frontier, Parent, IsClass, Grouped, Members
  <1>2. CASE Returned
    BY <1>1, <1>2 DEF Returned
  <1> QED BY <1>1, <1>2, AllocateInv, SortParentInv, SkipRunInv, AddGroupInv, GrowFailsInv, NextParentInv DEF Next

LEMMA Invariance == Spec => []IndInv
  BY InitInv, InductiveStep, PTL DEF Spec

(* The arrays, the lists and the counters of both groupings keep their types, *)
(* in grouping_by_fast_hash as in grouping_by_full_hash.                      *)
THEOREM TypeCorrect == Spec => []TypeOK
  <1>1. IndInv => TypeOK
    BY DEF IndInv
  <1> QED BY <1>1, Invariance, PTL

(* The group array is grown before a group is written behind its end, for    *)
(* any number of parents and children.                                       *)
THEOREM GroupsFit == Spec => []GroupsFitCapacity
  <1>1. IndInv => GroupsFitCapacity
    BY DEF IndInv, CapacityInv, GroupsFitCapacity
  <1> QED BY <1>1, Invariance, PTL

(* Sorting a parent's range moves entries only inside it: the ranges of the  *)
(* parents and of the child groups found so far keep naming the same files.  *)
THEOREM RangesValid == Spec => []RangesStayValid
  <1>1. ASSUME IndInv PROVE RangesStayValid
    <2>1. ASSUME NEW p \in DOMAIN parents PROVE PathsOf(entries, parents[p]) = PathsOf(input, parents[p])
      <3>1. \A i \in Members(parents[p]) : input[i].path = i
        BY <1>1, TypeFacts DEF IndInv, InputInv
      <3>2. PathsOf(input, parents[p]) = Members(parents[p])
        BY <3>1 DEF PathsOf
      <3>3. PathsOf(entries, parents[p]) = Members(parents[p])
        BY <1>1 DEF IndInv, Rearranged, PathsOf
      <3> QED BY <3>2, <3>3
    <2>2. ASSUME NEW k \in DOMAIN groups
          PROVE  /\ Members(groups[k]) \subseteq DOMAIN entries
                 /\ \A i, j \in Members(groups[k]) : entries[i].key = entries[j].key
      <3>1. PICK p \in DOMAIN parents : IsClass(groups[k], p)
        BY <1>1 DEF IndInv, GroupsAreClasses
      <3>2. Members(groups[k]) \subseteq DOMAIN entries
        BY <1>1, <3>1, TypeFacts DEF IndInv, IsClass
      <3> QED BY <3>1, <3>2 DEF IsClass
    <2> QED BY <2>1, <2>2 DEF RangesStayValid
  <1> QED BY <1>1, Invariance, PTL

(* The files of the parent p whose key is that of the l-th input. *)
KeyClass(p, l) == {j \in Members(parents[p]) : input[j].key = input[l].key}

LEMMA KeyClassIsFinite ==
    ASSUME IndInv, NEW p \in DOMAIN parents, NEW l
    PROVE  IsFiniteSet(KeyClass(p, l))
  <1>1. KeyClass(p, l) \subseteq Members(parents[p])
    BY DEF KeyClass
  <1>2. IsFiniteSet(Members(parents[p]))
    <2>1. parents[p].start \in Int /\ parents[p].start + parents[p].length - 1 \in Int
      BY TypeFacts DEF IndInv
    <2> QED BY <2>1, FS_Interval DEF Members
  <1> QED BY <1>1, <1>2, FS_Subset

(* KeyClasses lists those sets. *)
LEMMA KeyClassesAre ==
    ASSUME IndInv, NEW p \in DOMAIN parents
    PROVE  KeyClasses(parents[p]) = {KeyClass(p, l) : l \in Members(parents[p])}
  <1>1. \A j \in Members(parents[p]) : input[j].path = j
    BY TypeFacts DEF IndInv, InputInv
  <1>2. ASSUME NEW l \in Members(parents[p])
        PROVE  {input[j].path : j \in {m \in Members(parents[p]) : input[m].key = input[l].key}} = KeyClass(p, l)
    <2> DEFINE S == {m \in Members(parents[p]) : input[m].key = input[l].key}
    <2>1. S = KeyClass(p, l)
      BY DEF KeyClass
    <2>2. \A j \in S : input[j].path = j
      BY <1>1
    <2>3. {input[j].path : j \in S} = S
      <3> HIDE DEF S
      <3> QED BY <2>2
    <2> QED BY <2>1, <2>3
  <1> QED BY <1>2 DEF KeyClasses

(* A child group names the files of one class. *)
LEMMA PathsOfClass ==
    ASSUME IndInv, NEW p \in DOMAIN parents, NEW g, IsClass(g, p), NEW i \in Members(g)
    PROVE  entries[i].path \in Members(parents[p]) /\ PathsOf(entries, g) = KeyClass(p, entries[i].path)
  <1>1. /\ Members(parents[p]) \subseteq DOMAIN entries /\ DOMAIN entries = DOMAIN input
        /\ Members(g) \subseteq Members(parents[p])
    BY TypeFacts DEF IndInv, IsClass
  <1>2. \A j \in Members(parents[p]) : /\ entries[j].path \in Members(parents[p])
                                       /\ entries[j].key = input[entries[j].path].key
    BY <1>1 DEF IndInv, Rearranged
  <1>3. ASSUME NEW x \in PathsOf(entries, g) PROVE x \in KeyClass(p, entries[i].path)
    <2>1. PICK j \in Members(g) : x = entries[j].path
      BY <1>3 DEF PathsOf
    <2>2. entries[j].key = entries[i].key
      BY <1>1, <2>1 DEF IsClass
    <2> QED BY <1>1, <1>2, <2>1, <2>2 DEF KeyClass
  <1>4. ASSUME NEW x \in KeyClass(p, entries[i].path) PROVE x \in PathsOf(entries, g)
    <2>1. PICK j \in Members(parents[p]) : entries[j].path = x
      BY <1>4 DEF IndInv, Rearranged, KeyClass
    <2>2. entries[j].key = entries[i].key
      BY <1>1, <1>2, <1>4, <2>1 DEF KeyClass
    <2>3. j \in Members(g)
      BY <2>1, <2>2 DEF IsClass
    <2> QED BY <2>1, <2>3 DEF PathsOf
  <1> QED BY <1>1, <1>2, <1>3, <1>4

LEMMA GroupNamesClass ==
    ASSUME IndInv, NEW k \in DOMAIN groups
    PROVE  \E p \in DOMAIN parents : /\ PathsOf(entries, groups[k]) \in KeyClasses(parents[p])
                                     /\ Cardinality(PathsOf(entries, groups[k])) >= 2
  <1> DEFINE a == groups[k].start
             C == PathsOf(entries, groups[k])
  <1>1. PICK p \in DOMAIN parents : IsClass(groups[k], p)
    BY DEF IndInv, GroupsAreClasses
  <1>2. a \in Members(groups[k]) /\ a + 1 \in Members(groups[k]) /\ a # a + 1
    <2>1. a \in Nat /\ groups[k].length \in Nat
      BY TypeFacts DEF IndInv
    <2>2. groups[k].length >= 2
      BY DEF IndInv, GroupsAreClasses
    <2> QED BY <2>1, <2>2 DEF Members
  <1>3. entries[a].path \in Members(parents[p]) /\ C = KeyClass(p, entries[a].path)
    BY <1>1, <1>2, PathsOfClass
  <1>4. entries[a].path \in C /\ entries[a + 1].path \in C
    BY <1>2 DEF PathsOf
  <1>5. entries[a].path # entries[a + 1].path
    <2>1. a \in DOMAIN entries /\ a + 1 \in DOMAIN entries
      BY <1>1, <1>2, TypeFacts DEF IndInv, IsClass
    <2> QED BY <1>2, <2>1 DEF IndInv, Rearranged
  <1>6. IsFiniteSet(C)
    BY <1>3, KeyClassIsFinite
  <1>7. Cardinality(C) >= 2
    <2> HIDE DEF C, a
    <2> QED BY <1>4, <1>5, <1>6, TwoMembers
  <1>8. C \in KeyClasses(parents[p])
    BY <1>3, KeyClassesAre
  <1> QED BY <1>7, <1>8

LEMMA ClassHasGroup ==
    ASSUME IndInv, pc = "done", NEW p \in DOMAIN parents, NEW C \in KeyClasses(parents[p]), Cardinality(C) >= 2
    PROVE  \E k \in DOMAIN groups : C = PathsOf(entries, groups[k])
  <1>1. PICK l \in Members(parents[p]) : C = KeyClass(p, l)
    BY KeyClassesAre
  <1>2. IsFiniteSet(C)
    BY <1>1, KeyClassIsFinite
  <1>3. PICK x \in C, y \in C : x # y
    BY <1>2, TwoMembers
  <1>4. x \in Members(parents[p]) /\ y \in Members(parents[p]) /\ input[x].key = input[l].key /\ input[y].key = input[l].key
    BY <1>1, <1>3 DEF KeyClass
  <1>5. PICK i \in Members(parents[p]), j \in Members(parents[p]) : entries[i].path = x /\ entries[j].path = y
    BY <1>4 DEF IndInv, Rearranged
  <1>6. i \in DOMAIN entries /\ j \in DOMAIN entries /\ i < Len(input) + 1
    BY <1>5, TypeFacts DEF IndInv
  <1>7. i # j /\ entries[i].key = input[x].key /\ entries[j].key = input[y].key
    BY <1>3, <1>5, <1>6 DEF IndInv, Rearranged
  <1>8. PICK k \in DOMAIN groups : i \in Members(groups[k])
    <2>1. Frontier = Len(input) + 1
      BY DEF Frontier
    <2> QED BY <1>4, <1>5, <1>6, <1>7, <2>1 DEF IndInv, Covered
  <1>9. PICK q \in DOMAIN parents : IsClass(groups[k], q)
    BY DEF IndInv, GroupsAreClasses
  <1>10. q = p
    BY <1>5, <1>8, <1>9, ParentsDisjoint DEF IndInv, IsClass
  <1>11. PathsOf(entries, groups[k]) = KeyClass(p, x)
    BY <1>5, <1>8, <1>9, <1>10, PathsOfClass
  <1>12. KeyClass(p, x) = C
    BY <1>1, <1>4 DEF KeyClass
  <1> QED BY <1>11, <1>12

(* Whatever the unstable sort does, the child groups the two groupings return *)
(* are exactly the classes of two or more files of a parent that share a key, *)
(* each once, and the candidate count they report counts their files.         *)
THEOREM GroupsAreExact == Spec => []GroupsAreKeyClasses
  <1>1. ASSUME IndInv PROVE GroupsAreKeyClasses
    <2> SUFFICES ASSUME pc = "done"
                 PROVE  /\ {PathsOf(entries, groups[k]) : k \in DOMAIN groups} =
                               {C \in UNION {KeyClasses(parents[p]) : p \in DOMAIN parents} : Cardinality(C) >= 2}
                        /\ \A k, l \in DOMAIN groups : Members(groups[k]) \cap Members(groups[l]) # {} => k = l
                        /\ candidates = Cardinality(UNION {Members(groups[k]) : k \in DOMAIN groups})
      BY DEF GroupsAreKeyClasses
    <2>1. \A k \in DOMAIN groups :
            PathsOf(entries, groups[k]) \in {C \in UNION {KeyClasses(parents[p]) : p \in DOMAIN parents} : Cardinality(C) >= 2}
      <3> TAKE k \in DOMAIN groups
      <3>1. PICK p \in DOMAIN parents : /\ PathsOf(entries, groups[k]) \in KeyClasses(parents[p])
                                        /\ Cardinality(PathsOf(entries, groups[k])) >= 2
        BY <1>1, GroupNamesClass
      <3> QED BY <3>1
    <2>2. ASSUME NEW C \in UNION {KeyClasses(parents[p]) : p \in DOMAIN parents}, Cardinality(C) >= 2
          PROVE  \E k \in DOMAIN groups : C = PathsOf(entries, groups[k])
      <3>1. PICK p \in DOMAIN parents : C \in KeyClasses(parents[p])
        BY <2>2
      <3> QED BY <1>1, <2>2, <3>1, ClassHasGroup
    <2>3. {PathsOf(entries, groups[k]) : k \in DOMAIN groups} =
              {C \in UNION {KeyClasses(parents[p]) : p \in DOMAIN parents} : Cardinality(C) >= 2}
      BY <2>1, <2>2
    <2>4. ASSUME NEW k \in DOMAIN groups, NEW l \in DOMAIN groups, Members(groups[k]) \cap Members(groups[l]) # {}
          PROVE  k = l
      <3>1. /\ k \in Nat /\ l \in Nat
            /\ groups[k].start \in Nat /\ groups[k].length \in Nat
            /\ groups[l].start \in Nat /\ groups[l].length \in Nat
        BY <1>1, TypeFacts DEF IndInv
      <3>2. ~ (k < l)
        BY <1>1, <2>4, <3>1 DEF IndInv, GroupsOrdered, Members
      <3>3. ~ (l < k)
        BY <1>1, <2>4, <3>1 DEF IndInv, GroupsOrdered, Members
      <3> QED BY <3>1, <3>2, <3>3
    <2>5. candidates = Cardinality(UNION {Members(groups[k]) : k \in DOMAIN groups})
      BY <1>1 DEF IndInv, Counted, Grouped
    <2> QED BY <2>3, <2>4, <2>5
  <1> QED BY <1>1, Invariance, PTL
=============================================================================
