----------------------------- MODULE GroupBySize -----------------------------
(***************************************************************************)
(* bc_duplicate_grouping_by_size (grouping/bc_duplicate_grouping_by_size.c) *)
(* as the loops it is made of: sort the entries by (size desc, dev, ino),   *)
(* compact the array IN PLACE so that one entry per inode is left in every  *)
(* run of equal sizes, then scan the array for runs of two entries or more. *)
(*                                                                          *)
(* The compaction is the delicate part: it copies each run down over the    *)
(* gap the earlier runs left, possibly over part of itself, and collapses   *)
(* it there, while the runs still to come are read from the same array.     *)
(*                                                                          *)
(* Indices are the code's plus one.                                         *)
(***************************************************************************)
EXTENDS Integers, Sequences, FiniteSets, Functions

CONSTANTS
    Sizes,           \* file sizes
    Devices,         \* device_id values
    Inodes,          \* inode_number values
    MaxEntries,      \* bound on the number of discovered entries
    InitialCapacity, \* group_capacity: 16 in the code
    MayFail          \* the pool allocator may run out of memory

ASSUME SizesAssumption    == Sizes \subseteq Nat /\ Devices \subseteq Nat /\ Inodes \subseteq Nat
ASSUME BoundsAssumption   == MaxEntries \in Nat /\ InitialCapacity \in Nat \ {0}
ASSUME MayFailAssumption  == MayFail \in BOOLEAN

(* What grouping looks at in a bc_duplicate_file_entry_t; path tells        *)
(* entries apart.                                                           *)
Entry == [size : Sizes, dev : Devices, ino : Inodes, path : Nat]

VARIABLES
    input,          \* the entries discovery found, in its order
    matchHardlinks, \* the --match-hardlinks option
    pc,
    entries,        \* the array
    count,          \* entry_count
    write,          \* write_index of the outer loop
    run,            \* run_start_index
    runLen,         \* run_length
    w,              \* write_index of collapse_hardlinks_in_run
    r,              \* read_index of collapse_hardlinks_in_run
    collapsedRun,   \* collapsed, in the run
    collapsed,      \* *out_hardlinks_collapsed
    cursor,
    groups,
    capacity,       \* group_capacity
    candidates      \* *out_candidate_count

collapseVars == <<w, r, collapsedRun>>
compactVars  == <<write, run, runLen, collapsed, collapseVars>>
scanVars     == <<cursor, groups, capacity, candidates>>
vars == <<input, matchHardlinks, pc, entries, count, compactVars, scanVars>>

(* bc_duplicate_grouping_size_dev_ino_less_than *)
LessThan(x, y) ==
    \/ x.size > y.size
    \/ x.size = y.size /\ x.dev < y.dev
    \/ x.size = y.size /\ x.dev = y.dev /\ x.ino < y.ino

SameInode(x, y) == x.dev = y.dev /\ x.ino = y.ino

(* The results bc_core_sort_with_compare may leave: it is not stable. *)
SortedVersions(s) ==
    {t \in {[i \in DOMAIN s |-> s[p[i]]] : p \in Bijection(DOMAIN s, DOMAIN s)} :
        \A i, j \in DOMAIN t : i < j => ~ LessThan(t[j], t[i])}

(* The length of the run of equal sizes that starts at i in s[1..n]. *)
RunLength(s, i, n) ==
    CHOOSE len \in 1..(n - i + 1) :
        /\ \A k \in i..(i + len - 1) : s[k].size = s[i].size
        /\ i + len <= n => s[i + len].size # s[i].size

(* Mutant: the entries are copied last to first. *)
CopyDownBackward(s, dst, src, n) ==
    LET end == dst + n
    IN [i \in DOMAIN s |-> IF dst <= i /\ i < end THEN s[end + ((i - end) % (src - dst))] ELSE s[i]]

(* bc_core_copy of n entries from index src down to index dst.  The ranges   *)
(* may overlap: it is taken to copy forward, or as memmove() does, which the *)
(* code relies on and the repository does not show.                          *)
CopyDown(s, dst, src, n) ==
    [i \in DOMAIN s |-> IF dst <= i /\ i < dst + n THEN s[src + (i - dst)] ELSE s[i]]

Init ==
    /\ \E n \in 0..MaxEntries : \E stat \in [1..n -> Sizes \X Devices \X Inodes] :
         input = [i \in 1..n |-> [size |-> stat[i][1], dev |-> stat[i][2], ino |-> stat[i][3], path |-> i]]
    /\ matchHardlinks \in BOOLEAN
    /\ pc = "sort"
    /\ entries = input
    /\ count = Len(input)
    /\ write = 1 /\ run = 1 /\ runLen = 0 /\ collapsed = 0
    /\ w = 1 /\ r = 1 /\ collapsedRun = 0
    /\ cursor = 1 /\ groups = <<>> /\ capacity = InitialCapacity /\ candidates = 0

-----------------------------------------------------------------------------
NoEntries ==
    /\ pc = "sort" /\ count = 0
    /\ pc' = "done"
    /\ UNCHANGED <<input, matchHardlinks, entries, count, compactVars, scanVars>>

Sort ==
    /\ pc = "sort" /\ count > 0
    /\ entries' \in SortedVersions(entries)
    /\ pc' = IF matchHardlinks THEN "allocate" ELSE "compact"
    /\ UNCHANGED <<input, matchHardlinks, count, compactVars, scanVars>>

(* One turn of the outer loop up to the call of collapse_hardlinks_in_run. *)
CopyRun ==
    /\ pc = "compact" /\ run <= count
    /\ runLen' = RunLength(entries, run, count)
    /\ entries' = IF write # run THEN CopyDown(entries, write, run, runLen') ELSE entries
    /\ w' = write + 1 /\ r' = write + 1 /\ collapsedRun' = 0
    /\ pc' = "collapse"
    /\ UNCHANGED <<input, matchHardlinks, count, write, run, collapsed, scanVars>>

SkipHardlink ==
    /\ pc = "collapse" /\ r < write + runLen
    /\ SameInode(entries[r], entries[w - 1])
    /\ collapsedRun' = collapsedRun + 1
    /\ r' = r + 1
    /\ UNCHANGED <<input, matchHardlinks, pc, entries, count, write, run, runLen, w, collapsed, scanVars>>

KeepEntry ==
    /\ pc = "collapse" /\ r < write + runLen
    /\ ~ SameInode(entries[r], entries[w - 1])
    /\ entries' = [entries EXCEPT ![w] = entries[r]]
    /\ w' = w + 1
    /\ r' = r + 1
    /\ UNCHANGED <<input, matchHardlinks, pc, count, write, run, runLen, collapsedRun, collapsed, scanVars>>

(* Mutant: the two lengths are swapped. *)
EndRunSwapped ==
    /\ pc = "collapse" /\ r = write + runLen
    /\ collapsed' = collapsed + collapsedRun
    /\ write' = write + runLen
    /\ run' = run + (runLen - collapsedRun)
    /\ pc' = "compact"
    /\ UNCHANGED <<input, matchHardlinks, entries, count, runLen, collapseVars, scanVars>>

(* Mutant: the next run is looked for behind the entries kept. *)
EndRunAdvancesByKept ==
    /\ pc = "collapse" /\ r = write + runLen
    /\ collapsed' = collapsed + collapsedRun
    /\ write' = write + (runLen - collapsedRun)
    /\ run' = run + (runLen - collapsedRun)
    /\ pc' = "compact"
    /\ UNCHANGED <<input, matchHardlinks, entries, count, runLen, collapseVars, scanVars>>

(* The rest of the outer loop's turn. *)
EndRun ==
    /\ pc = "collapse" /\ r = write + runLen
    /\ collapsed' = collapsed + collapsedRun
    /\ write' = write + (runLen - collapsedRun)
    /\ run' = run + runLen
    /\ pc' = "compact"
    /\ UNCHANGED <<input, matchHardlinks, entries, count, runLen, collapseVars, scanVars>>

(* Mutant: the write index is taken for the count. *)
EndCompactionOneMore ==
    /\ pc = "compact" /\ run > count
    /\ count' = write
    /\ pc' = "allocate"
    /\ UNCHANGED <<input, matchHardlinks, entries, compactVars, scanVars>>

EndCompaction ==
    /\ pc = "compact" /\ run > count
    /\ count' = write - 1
    /\ pc' = "allocate"
    /\ UNCHANGED <<input, matchHardlinks, entries, compactVars, scanVars>>

-----------------------------------------------------------------------------
Allocate ==
    /\ pc = "allocate"
    /\ pc' \in {"scan"} \cup (IF MayFail THEN {"failed"} ELSE {})
    /\ UNCHANGED <<input, matchHardlinks, entries, count, compactVars, scanVars>>

(* Mutant: a run of two files may be skipped too. *)
SkipRunDropsPairs ==
    /\ pc = "scan" /\ cursor <= count
    /\ RunLength(entries, cursor, count) <= 2
    /\ cursor' = cursor + RunLength(entries, cursor, count)
    /\ UNCHANGED <<input, matchHardlinks, pc, entries, count, compactVars, groups, capacity, candidates>>

(* A run of a single file is no candidate. *)
SkipRun ==
    /\ pc = "scan" /\ cursor <= count
    /\ RunLength(entries, cursor, count) < 2
    /\ cursor' = cursor + RunLength(entries, cursor, count)
    /\ UNCHANGED <<input, matchHardlinks, pc, entries, count, compactVars, groups, capacity, candidates>>

AddGroup ==
    /\ pc = "scan" /\ cursor <= count
    /\ LET len == RunLength(entries, cursor, count)
       IN /\ len >= 2
          /\ cursor' = cursor + len
          /\ groups' = Append(groups, [start |-> cursor, length |-> len, size |-> entries[cursor].size])
          /\ capacity' = IF Len(groups) = capacity THEN capacity * 2 ELSE capacity
          /\ candidates' = candidates + len
    /\ UNCHANGED <<input, matchHardlinks, pc, entries, count, compactVars>>

(* bc_allocators_pool_reallocate fails: the groups are freed. *)
GrowFails ==
    /\ MayFail
    /\ pc = "scan" /\ cursor <= count
    /\ RunLength(entries, cursor, count) >= 2
    /\ Len(groups) = capacity
    /\ pc' = "failed"
    /\ groups' = <<>>
    /\ UNCHANGED <<input, matchHardlinks, entries, count, compactVars, cursor, capacity, candidates>>

EndScan ==
    /\ pc = "scan" /\ cursor > count
    /\ pc' = "done"
    /\ UNCHANGED <<input, matchHardlinks, entries, count, compactVars, scanVars>>

Returned == pc \in {"done", "failed"} /\ UNCHANGED vars

Next ==
    \/ NoEntries \/ Sort
    \/ CopyRun \/ SkipHardlink \/ KeepEntry \/ EndRun \/ EndCompaction
    \/ Allocate \/ SkipRun \/ AddGroup \/ GrowFails \/ EndScan
    \/ Returned

Spec == Init /\ [][Next]_vars

-----------------------------------------------------------------------------
(* Properties *)

Group == [start : Nat, length : Nat, size : Sizes]

TypeOK ==
    /\ input \in Seq(Entry) /\ entries \in Seq(Entry)
    /\ matchHardlinks \in BOOLEAN
    /\ pc \in {"sort", "compact", "collapse", "allocate", "scan", "done", "failed"}
    /\ count \in 0..Len(input)
    /\ write \in Nat \ {0} /\ run \in Nat \ {0} /\ runLen \in Nat
    /\ w \in Nat \ {0} /\ r \in Nat \ {0}
    /\ collapsedRun \in Nat /\ collapsed \in Nat
    /\ cursor \in Nat \ {0}
    /\ groups \in Seq(Group)
    /\ capacity \in Nat \ {0} /\ candidates \in Nat

(* Compaction never writes past what it has read, nor outside the array:    *)
(* the copy stays at or below the run it moves (66-68) and the collapse     *)
(* writes at or below the entry it reads (29-39).                           *)
WritesBehindReads ==
    /\ write <= run /\ run <= Len(entries) + 1
    /\ pc = "collapse" => /\ w <= r
                          /\ r <= write + runLen
                          /\ run + runLen <= Len(entries) + 1
                          /\ w + collapsedRun = r

(* The runs still to be compacted are intact: the compaction of the runs    *)
(* before them, whose copies may overlap their own source, has not touched  *)
(* them, so no entry that is still to be read has been lost.                *)
UnreadRunsIntact ==
    pc \in {"compact", "collapse"} =>
        LET next == IF pc = "compact" THEN run ELSE run + runLen
            rest == {entries[i].path : i \in next..Len(entries)}
        IN /\ Cardinality(rest) = Len(entries) - next + 1
           /\ rest \cap {entries[i].path : i \in 1..(write - 1)} = {}

(* The inodes among the entries at the given indices of s. *)
InodesOf(s, I) == {<<s[i].size, s[i].dev, s[i].ino>> : i \in I}

(* Without --match-hardlinks every (size, inode) discovery found is left    *)
(* exactly once, whichever of its links is kept, and the links dropped are  *)
(* counted (README.md:38, "deduplicated by (dev, ino) before hashing");     *)
(* with it nothing is dropped.                                              *)
OneEntryPerInode ==
    pc \in {"allocate", "scan", "done"} =>
        /\ \A i \in 1..count : entries[i] = input[entries[i].path]
        /\ InodesOf(entries, 1..count) = InodesOf(input, DOMAIN input)
        /\ IF matchHardlinks
           THEN count = Len(input) /\ collapsed = 0
           ELSE /\ Cardinality(InodesOf(input, DOMAIN input)) = count
                /\ collapsed = Len(input) - count

(* The indices a group stands for. *)
Members(g) == g.start..(g.start + g.length - 1)

(* The groups returned are exactly the classes of two or more files of one  *)
(* size: no candidate is missed, none is in two groups, and the candidate   *)
(* count is their sum.  (84-116)                                            *)
GroupsAreSizeClasses ==
    pc = "done" =>
        /\ {Members(groups[k]) : k \in DOMAIN groups} =
               {C \in {{j \in 1..count : entries[j].size = entries[i].size} : i \in 1..count} : Cardinality(C) >= 2}
        /\ \A k, l \in DOMAIN groups : Members(groups[k]) \cap Members(groups[l]) # {} => k = l
        /\ candidates = Cardinality(UNION {Members(groups[k]) : k \in DOMAIN groups})
        /\ \A k \in DOMAIN groups : groups[k].size = entries[groups[k].start].size
=============================================================================
