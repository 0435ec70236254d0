----------------------------- MODULE GroupByHash -----------------------------
(***************************************************************************)
(* bc_duplicate_grouping_by_fast_hash and bc_duplicate_grouping_by_full_hash *)
(* (grouping/): the same loops over two keys.  Every parent group is a range *)
(* of the array; its range is sorted by the key in place and scanned for     *)
(* runs of two equal keys or more, which become the child groups.            *)
(*                                                                           *)
(* A key is a 64-bit fast hash or the digest_size bytes of a digest; only    *)
(* its order and its equality matter, so keys are naturals.  Indices are the *)
(* code's plus one.                                                          *)
(***************************************************************************)
EXTENDS Integers, Sequences, FiniteSets, Functions

CONSTANTS
    Keys,       \* fast_hash or full_hash values
    MaxEntries, \* bound on the length of the array
    MayFail     \* the pool allocator may run out of memory

ASSUME KeysAssumption    == Keys \subseteq Nat
ASSUME BoundsAssumption  == MaxEntries \in Nat
ASSUME MayFailAssumption == MayFail \in BOOLEAN

Entry == [key : Keys, path : Nat]

(* A bc_duplicate_group_t: entry_count entries from start_index on.  The     *)
(* file_size, copied from the parent, decides nothing here and is left out.  *)
Group == [start : Nat, length : Nat]

Members(g) == g.start..(g.start + g.length - 1)

VARIABLES
    input,      \* the array the caller hands over
    parents,    \* size_groups, or fast_hash_groups
    pc,
    entries,    \* the array
    parent,     \* size_group_index, or fast_group_index
    cursor,     \* relative to the parent's range
    groups,
    capacity,   \* group_capacity
    candidates  \* *out_candidate_count

vars == <<input, parents, pc, entries, parent, cursor, groups, capacity, candidates>>

(* Group lists grouping_by_size and grouping_by_fast_hash return: disjoint   *)
(* ranges of two or more entries, in increasing order.                       *)
GroupLists(n) ==
    LET ranges == {g \in [start : 1..n, length : 2..n] : g.start + g.length <= n + 1}
    IN UNION {{gs \in [1..k -> ranges] : \A i, j \in 1..k : i < j => gs[i].start + gs[i].length <= gs[j].start} :
                 k \in 0..(n \div 2)}

Init ==
    /\ \E n \in 0..MaxEntries : \E k \in [1..n -> Keys] :
         /\ input = [i \in 1..n |-> [key |-> k[i], path |-> i]]
         /\ parents \in GroupLists(n)
    /\ pc = IF parents = <<>> THEN "done" ELSE "allocate"
    /\ entries = input
    /\ parent = 1
    /\ cursor = 0
    /\ groups = <<>>
    /\ capacity = Len(parents)
    /\ candidates = 0

Parent == parents[parent]

(* run_begin[k] *)
At(k) == entries[Parent.start + k]

Allocate ==
    /\ pc = "allocate"
    /\ pc' \in {"sort"} \cup (IF MayFail THEN {"failed"} ELSE {})
    /\ UNCHANGED <<input, parents, entries, parent, cursor, groups, capacity, candidates>>

(* Mutant: the entry behind the group is sorted with it. *)
SortedRangeOneMore(s, g) ==
    LET more == (Members(g) \cup {g.start + g.length}) \cap DOMAIN s
    IN {t \in {[i \in DOMAIN s |-> IF i \in more THEN s[p[i]] ELSE s[i]] : p \in Bijection(more, more)} :
           \A i, j \in more : i < j => t[i].key <= t[j].key}

(* What bc_core_sort_with_compare may leave of s after sorting the range g   *)
(* of it by key.                                                             *)
SortedRange(s, g) ==
    {t \in {[i \in DOMAIN s |-> IF i \in Members(g) THEN s[p[i]] ELSE s[i]] : p \in Bijection(Members(g), Members(g))} :
        \A i, j \in Members(g) : i < j => t[i].key <= t[j].key}

SortParent ==
    /\ pc = "sort" /\ parent <= Len(parents)
    /\ entries' \in SortedRange(entries, Parent)
    /\ cursor' = 0
    /\ pc' = "scan"
    /\ UNCHANGED <<input, parents, parent, groups, capacity, candidates>>

(* The length of the run of equal keys at the cursor. *)
SubLength ==
    CHOOSE len \in 1..(Parent.length - cursor) :
        /\ \A k \in cursor..(cursor + len - 1) : At(k).key = At(cursor).key
        /\ cursor + len < Parent.length => At(cursor + len).key # At(cursor).key

(* Mutant: a run of two entries may be skipped too. *)
SkipRunDropsPairs ==
    /\ pc = "scan" /\ cursor < Parent.length
    /\ SubLength <= 2
    /\ cursor' = cursor + SubLength
    /\ UNCHANGED <<input, parents, pc, entries, parent, groups, capacity, candidates>>

SkipRun ==
    /\ pc = "scan" /\ cursor < Parent.length
    /\ SubLength < 2
    /\ cursor' = cursor + SubLength
    /\ UNCHANGED <<input, parents, pc, entries, parent, groups, capacity, candidates>>

(* Mutant: a full group array is written to without growing it. *)
AddGroupNeverGrows ==
    /\ pc = "scan" /\ cursor < Parent.length
    /\ SubLength >= 2
    /\ groups' = Append(groups, [start |-> Parent.start + cursor, length |-> SubLength])
    /\ candidates' = candidates + SubLength
    /\ cursor' = cursor + SubLength
    /\ UNCHANGED <<input, parents, pc, entries, parent, capacity>>

AddGroup ==
    /\ pc = "scan" /\ cursor < Parent.length
    /\ SubLength >= 2
    /\ groups' = Append(groups, [start |-> Parent.start + cursor, length |-> SubLength])
    /\ capacity' = IF Len(groups) = capacity THEN capacity * 2 ELSE capacity
    /\ candidates' = candidates + SubLength
    /\ cursor' = cursor + SubLength
    /\ UNCHANGED <<input, parents, pc, entries, parent>>

GrowFails ==
    /\ MayFail
    /\ pc = "scan" /\ cursor < Parent.length
    /\ SubLength >= 2
    /\ Len(groups) = capacity
    /\ pc' = "failed"
    /\ groups' = <<>>
    /\ UNCHANGED <<input, parents, entries, parent, cursor, capacity, candidates>>

(* Mutant: the loop advances its index twice. *)
NextParentTwice ==
    /\ pc = "scan" /\ cursor >= Parent.length
    /\ parent' = parent + 2
    /\ pc' = IF parent + 1 < Len(parents) THEN "sort" ELSE "done"
    /\ UNCHANGED <<input, parents, entries, cursor, groups, capacity, candidates>>

NextParent ==
    /\ pc = "scan" /\ cursor >= Parent.length
    /\ parent' = parent + 1
    /\ pc' = IF parent < Len(parents) THEN "sort" ELSE "done"
    /\ UNCHANGED <<input, parents, entries, cursor, groups, capacity, candidates>>

Returned == pc \in {"done", "failed"} /\ UNCHANGED vars

Next == Allocate \/ SortParent \/ SkipRun \/ AddGroup \/ GrowFails \/ NextParent \/ Returned

Spec == Init /\ [][Next]_vars

-----------------------------------------------------------------------------
(* Properties *)

TypeOK ==
    /\ input \in Seq(Entry) /\ entries \in Seq(Entry) /\ Len(entries) = Len(input)
    /\ parents \in Seq(Group)
    /\ pc \in {"allocate", "sort", "scan", "done", "failed"}
    /\ parent \in 1..(Len(parents) + 1)
    /\ cursor \in Nat
    /\ groups \in Seq(Group)
    /\ capacity \in Nat /\ candidates \in Nat

(* The files a range of an array stands for. *)
PathsOf(s, g) == {s[i].path : i \in Members(g)}

(* The files of a parent group, split into classes of equal keys. *)
KeyClasses(g) ==
    {{input[j].path : j \in {l \in Members(g) : input[l].key = input[i].key}} : i \in Members(g)}

(* The child groups are exactly the classes of two or more files that share  *)
(* a parent group and a key: a file is never grouped with a file of another  *)
(* parent, none is missed, none is reported twice, although sorting moved    *)
(* the entries while the parent list kept naming them by index.              *)
GroupsAreKeyClasses ==
    pc = "done" =>
        /\ {PathsOf(entries, groups[k]) : k \in DOMAIN groups} =
               {C \in UNION {KeyClasses(parents[p]) : p \in DOMAIN parents} : Cardinality(C) >= 2}
        /\ \A k, l \in DOMAIN groups : Members(groups[k]) \cap Members(groups[l]) # {} => k = l
        /\ candidates = Cardinality(UNION {Members(groups[k]) : k \in DOMAIN groups})

(* The index ranges of the parent groups keep naming the same files, and so  *)
(* do the child groups already returned, whatever is sorted later: both are  *)
(* used again by the passes that follow.                                     *)
RangesStayValid ==
    /\ \A p \in DOMAIN parents : PathsOf(entries, parents[p]) = PathsOf(input, parents[p])
    /\ \A k \in DOMAIN groups :
         /\ Members(groups[k]) \subseteq DOMAIN entries
         /\ \A i, j \in Members(groups[k]) : entries[i].key = entries[j].key

(* A group is only written inside the group array (54-63, 69-78): it starts  *)
(* with one place per parent, which more children than parents outgrow.      *)
GroupsFitCapacity == Len(groups) <= capacity
=============================================================================
