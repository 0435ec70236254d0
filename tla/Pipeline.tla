------------------------------ MODULE Pipeline ------------------------------
(***************************************************************************)
(* bc_duplicate_application_run (bc_duplicate_main.c) with the two hashing  *)
(* passes it dispatches (worker/bc_duplicate_worker_fast.c and _full.c):    *)
(* discovery, grouping by size, fast pass, grouping by fast hash, full      *)
(* pass, grouping by digest, output.  The workers of a pass take its        *)
(* iterations in any order; a signal may arrive at any moment, any read and *)
(* any allocation may fail, and a worker may be unable to set up its ring.  *)
(*                                                                          *)
(* Contents stand for byte strings, with a size and a fast hash (the hash   *)
(* of their first and last block); a digest is taken to be injective, and   *)
(* never the all-zero bytes an entry starts with.  The groupings are        *)
(* modelled by their results, which GroupBySize and GroupByHash establish.  *)
(***************************************************************************)
EXTENDS Integers, Sequences, FiniteSetsExt

CONSTANTS
    Entries,     \* directory entries that discovery may find
    Inodes,      \* inodes they may link to
    Contents,    \* file contents
    SizeOf,      \* Contents -> Nat
    FastOf,      \* Contents -> Nat: 0 is possible, prefix and suffix may cancel out
    PrefixOf,    \* Contents -> Nat: the fast hash without the suffix block
    Workers,     \* worker threads
    BatchSize,   \* BC_DUPLICATE_FULL_BATCH_ITEM_CAPACITY
    NoDigest,    \* the all-zero full_hash of an entry that was never hashed
    Faults       \* which of the calls the code checks may fail

FaultKinds == {"memory", "read", "ring", "signal", "output"}

ASSUME EntriesAssumption == IsFiniteSet(Entries)
ASSUME ContentAssumption == /\ SizeOf \in [Contents -> Nat]
                            /\ FastOf \in [Contents -> Nat]
                            /\ PrefixOf \in [Contents -> Nat]
                            /\ NoDigest \notin Contents
ASSUME BatchAssumption   == BatchSize \in Nat \ {0}
ASSUME FaultsAssumption  == Faults \subseteq FaultKinds

VARIABLES
    inodeOf,      \* the inode each entry links to
    contentOf,    \* the content of each inode
    pc,
    signalled,    \* the runtime's signal handler saw SIGINT or SIGTERM
    found,        \* state->entries
    errorCount,   \* errors collected during discovery
    kept,         \* entries_array after grouping by size
    sizeGroups, fastGroups, finalGroups,
    todo,         \* iterations of the running pass that no worker has taken
    single,       \* full_pass_force_single_thread
    ready,        \* workers whose slot (ring and hash states) is set up
    fastHash, fastErrno,
    fullHash, fullErrno,
    stats,        \* bc_duplicate_statistics_t, once it is filled in
    report,       \* what was written: a set of groups, a summary, or nothing
    exitCode

hashes == <<fastHash, fastErrno, fullHash, fullErrno>>
vars == <<inodeOf, contentOf, pc, signalled, found, errorCount, kept, sizeGroups, fastGroups, finalGroups,
          todo, single, ready, hashes, stats, report, exitCode>>

Content(e) == contentOf[inodeOf[e]]
FileSize(e) == SizeOf[Content(e)]

(* The classes of two or more members of S that agree on key. *)
Classes(S, key) == {C \in {{y \in S : key[y] = key[x]} : x \in S} : Cardinality(C) >= 2}

(* candidate_indices: the members of a list of groups. *)
Candidates(G) == UNION G

(* Each group of a list split by key. *)
Split(G, key) == UNION {Classes(g, key) : g \in G}

NoStats  == [scanned |-> 0, collapsed |-> 0, candidates |-> 0, fast |-> 0, full |-> 0, groups |-> 0, duplicates |-> 0, wasted |-> 0]
NoReport == [kind |-> "none", groups |-> {}]

Init ==
    /\ inodeOf \in [Entries -> Inodes]
    /\ contentOf \in [Inodes -> Contents]
    /\ pc = "discovery"
    /\ signalled = FALSE
    /\ found = {}
    /\ errorCount = 0
    /\ kept = {}
    /\ sizeGroups = {} /\ fastGroups = {} /\ finalGroups = {}
    /\ todo = {}
    /\ single = FALSE
    /\ ready = {}
    /\ fastHash = [e \in Entries |-> 0]
    /\ fastErrno = [e \in Entries |-> FALSE]
    /\ fullHash = [e \in Entries |-> NoDigest]
    /\ fullErrno = [e \in Entries |-> FALSE]
    /\ stats = NoStats
    /\ report = NoReport
    /\ exitCode = 0

Exit(code) ==
    /\ pc' = "exit"
    /\ exitCode' = code

-----------------------------------------------------------------------------
(* Discovery, abstracted to its result: some entries and some errors. *)

Discover ==
    /\ pc = "discovery"
    /\ found' \in SUBSET Entries
    /\ errorCount' \in {0, 1}
    /\ pc' = "discovered"
    /\ UNCHANGED <<inodeOf, contentOf, signalled, kept, sizeGroups, fastGroups, finalGroups, todo, single, ready,
                   hashes, stats, report, exitCode>>

(* The only point at which application_run itself looks at the signal. *)
Interrupted ==
    /\ pc = "discovered" /\ signalled
    /\ Exit(130)
    /\ UNCHANGED <<inodeOf, contentOf, signalled, found, errorCount, kept, sizeGroups, fastGroups, finalGroups, todo,
                   single, ready, hashes, stats, report>>

NothingFound ==
    /\ pc = "discovered" /\ ~ signalled
    /\ found = {}
    /\ Exit(IF errorCount = 0 THEN 0 ELSE 1)
    /\ UNCHANGED <<inodeOf, contentOf, signalled, found, errorCount, kept, sizeGroups, fastGroups, finalGroups, todo,
                   single, ready, hashes, stats, report>>

(* bc_duplicate_grouping_by_size, with and without --match-hardlinks. *)
KeptChoices(match) ==
    IF match THEN {found}
    ELSE {K \in SUBSET found : /\ \A e \in found : \E k \in K : inodeOf[k] = inodeOf[e]
                               /\ \A k, l \in K : inodeOf[k] = inodeOf[l] => k = l}

(* Mutant: the signal is not looked at after discovery. *)
GroupSizesIgnoresSignal ==
    /\ pc = "discovered"
    /\ found # {}
    /\ \E match \in BOOLEAN : kept' \in KeptChoices(match)
    /\ sizeGroups' = Classes(kept', [e \in kept' |-> FileSize(e)])
    /\ stats' = [NoStats EXCEPT !.scanned = Cardinality(found),
                                !.collapsed = Cardinality(found) - Cardinality(kept'),
                                !.candidates = Cardinality(Candidates(sizeGroups'))]
    /\ IF sizeGroups' = {}
       THEN Exit(0) /\ todo' = {}
       ELSE pc' = "fast" /\ todo' = Candidates(sizeGroups') /\ UNCHANGED exitCode
    /\ UNCHANGED <<inodeOf, contentOf, signalled, found, errorCount, fastGroups, finalGroups, single, ready, hashes, report>>

(* The result of grouping by size; the fast pass is dispatched, or there is  *)
(* nothing to compare and the run ends.                                      *)
GroupSizes ==
    /\ pc = "discovered" /\ ~ signalled
    /\ found # {}
    /\ \E match \in BOOLEAN : kept' \in KeptChoices(match)
    /\ sizeGroups' = Classes(kept', [e \in kept' |-> FileSize(e)])
    /\ stats' = [NoStats EXCEPT !.scanned = Cardinality(found),
                                !.collapsed = Cardinality(found) - Cardinality(kept'),
                                !.candidates = Cardinality(Candidates(sizeGroups'))]
    /\ IF sizeGroups' = {}
       THEN Exit(0) /\ todo' = {}
       ELSE pc' = "fast" /\ todo' = Candidates(sizeGroups') /\ UNCHANGED exitCode
    /\ UNCHANGED <<inodeOf, contentOf, signalled, found, errorCount, fastGroups, finalGroups, single, ready, hashes, report>>

-----------------------------------------------------------------------------
(* bc_duplicate_worker_fast_pass: iterations run in any order. *)

(* The iteration returns at once when a signal has been seen. *)
FastSkip(e) ==
    /\ pc = "fast" /\ e \in todo
    /\ signalled
    /\ todo' = todo \ {e}
    /\ UNCHANGED <<inodeOf, contentOf, pc, signalled, found, errorCount, kept, sizeGroups, fastGroups, finalGroups,
                   single, ready, hashes, stats, report, exitCode>>

(* Mutant: a file that cannot be read gets -1 for a hash. *)
FastHashMinusOne(e) ==
    /\ pc = "fast" /\ e \in todo
    /\ ~ signalled
    /\ \/ /\ fastHash' = [fastHash EXCEPT ![e] = FastOf[Content(e)]]
          /\ UNCHANGED fastErrno
       \/ /\ "read" \in Faults
          /\ fastHash' = [fastHash EXCEPT ![e] = -1]
          /\ fastErrno' = [fastErrno EXCEPT ![e] = TRUE]
    /\ todo' = todo \ {e}
    /\ UNCHANGED <<inodeOf, contentOf, pc, signalled, found, errorCount, kept, sizeGroups, fastGroups, finalGroups,
                   single, ready, fullHash, fullErrno, stats, report, exitCode>>

(* The file is opened and its first and last block are hashed.  A suffix     *)
(* that cannot be read is left out and no error is recorded; a file that     *)
(* cannot be opened, or whose prefix cannot be read, gets 0.                 *)
FastHash(e) ==
    /\ pc = "fast" /\ e \in todo
    /\ ~ signalled
    /\ \/ /\ fastHash' = [fastHash EXCEPT ![e] = FastOf[Content(e)]]
          /\ UNCHANGED fastErrno
       \/ /\ "read" \in Faults
          /\ fastHash' = [fastHash EXCEPT ![e] = PrefixOf[Content(e)]]
          /\ UNCHANGED fastErrno
       \/ /\ "read" \in Faults
          /\ fastHash' = [fastHash EXCEPT ![e] = 0]
          /\ fastErrno' = [fastErrno EXCEPT ![e] = TRUE]
    /\ todo' = todo \ {e}
    /\ UNCHANGED <<inodeOf, contentOf, pc, signalled, found, errorCount, kept, sizeGroups, fastGroups, finalGroups,
                   single, ready, fullHash, fullErrno, stats, report, exitCode>>

(* The barrier of bc_concurrency_for, then grouping by fast hash; without    *)
(* a group left the full pass is not run.                                    *)
EndFastPass ==
    /\ pc = "fast" /\ todo = {}
    /\ fastGroups' = Split(sizeGroups, fastHash)
    /\ stats' = [stats EXCEPT !.fast = stats.candidates]
    /\ pc' = IF fastGroups' = {} THEN "output" ELSE "dispatch"
    /\ UNCHANGED <<inodeOf, contentOf, signalled, found, errorCount, kept, sizeGroups, finalGroups, todo, single,
                   ready, hashes, report, exitCode>>

-----------------------------------------------------------------------------
(* bc_duplicate_worker_full_pass: batches of candidates, largest first. *)

Orders(S) == {f \in [1..Cardinality(S) -> S] : \A i, j \in 1..Cardinality(S) :
                 (f[i] = f[j] => i = j) /\ (i < j => FileSize(f[i]) >= FileSize(f[j]))}

(* Batch number b of an order: [number, the entries in it]. *)
BatchOf(f, n, b) ==
    [number |-> b, members |-> {f[i] : i \in {k \in 1..n : (k - 1) \div BatchSize = b - 1}}]

(* Mutant: the last, partial batch is not counted. *)
BatchCountRoundsDown(n) == n \div BatchSize

BatchCount(n) == (n + BatchSize - 1) \div BatchSize

(* The dispatch decision may ask for a single thread. *)
StartFullPass ==
    /\ pc = "dispatch"
    /\ LET candidates == Candidates(fastGroups)
           n == Cardinality(candidates)
       IN \E f \in Orders(candidates) : todo' = {BatchOf(f, n, b) : b \in 1..BatchCount(n)}
    /\ single' \in BOOLEAN
    /\ pc' = "full"
    /\ UNCHANGED <<inodeOf, contentOf, signalled, found, errorCount, kept, sizeGroups, fastGroups, finalGroups,
                   ready, hashes, stats, report, exitCode>>

(* A single thread takes the batches in order, and has one slot. *)
Takes(b) == b \in todo /\ (single => \A c \in todo : b.number <= c.number)

Runs(w) == single => ready \subseteq {w}

(* Mutant: the stopped iteration stays on the list. *)
FullSkipKeepsBatch(b) ==
    /\ pc = "full" /\ Takes(b)
    /\ signalled
    /\ UNCHANGED vars

(* The stop check of the iteration, and of the single-thread loop. *)
FullSkip(b) ==
    /\ pc = "full" /\ Takes(b)
    /\ signalled
    /\ todo' = IF single THEN {} ELSE todo \ {b}
    /\ UNCHANGED <<inodeOf, contentOf, pc, signalled, found, errorCount, kept, sizeGroups, fastGroups, finalGroups,
                   single, ready, hashes, stats, report, exitCode>>

(* ensure_slot fails: the iteration returns and its batch is not hashed. *)
NoSlot(w, b) ==
    /\ "ring" \in Faults
    /\ pc = "full" /\ Takes(b)
    /\ ~ signalled
    /\ Runs(w) /\ w \notin ready
    /\ todo' = todo \ {b}
    /\ UNCHANGED <<inodeOf, contentOf, pc, signalled, found, errorCount, kept, sizeGroups, fastGroups, finalGroups,
                   single, ready, hashes, stats, report, exitCode>>

(* What resetting, feeding and finalizing a digest makes of a file: equal    *)
(* for equal contents only.                                                  *)
Digest(e) == Content(e)

(* process_batch: a file that could not be read keeps its zero digest. *)
FullBatch(w, b) ==
    /\ pc = "full" /\ Takes(b)
    /\ ~ signalled
    /\ Runs(w) /\ ready' = ready \cup {w}
    /\ \E unread \in IF "read" \in Faults THEN SUBSET b.members ELSE {{}} :
         /\ fullHash' = [e \in Entries |-> IF e \in b.members \ unread THEN Digest(e) ELSE fullHash[e]]
         /\ fullErrno' = [e \in Entries |-> IF e \in b.members THEN e \in unread ELSE fullErrno[e]]
    /\ todo' = todo \ {b}
    /\ UNCHANGED <<inodeOf, contentOf, pc, signalled, found, errorCount, kept, sizeGroups, fastGroups, finalGroups,
                   single, fastHash, fastErrno, stats, report, exitCode>>

(* Mutant: no byte of the digests is compared. *)
EndFullPassNoBytes ==
    /\ pc = "full" /\ todo = {}
    /\ finalGroups' = Split(fastGroups, [e \in Entries |-> 0])
    /\ stats' = [stats EXCEPT !.full = Cardinality(Candidates(fastGroups))]
    /\ pc' = "output"
    /\ UNCHANGED <<inodeOf, contentOf, signalled, found, errorCount, kept, sizeGroups, fastGroups, todo, single,
                   ready, hashes, report, exitCode>>

(* Mutant: the inode is compared with the digest. *)
EndFullPassSplitsInodes ==
    /\ pc = "full" /\ todo = {}
    /\ finalGroups' = Split(fastGroups, [e \in Entries |-> <<fullHash[e], inodeOf[e]>>])
    /\ stats' = [stats EXCEPT !.full = Cardinality(Candidates(fastGroups))]
    /\ pc' = "output"
    /\ UNCHANGED <<inodeOf, contentOf, signalled, found, errorCount, kept, sizeGroups, fastGroups, todo, single,
                   ready, hashes, report, exitCode>>

(* The barrier, grouping by digest, and the statistics. *)
EndFullPass ==
    /\ pc = "full" /\ todo = {}
    /\ finalGroups' = Split(fastGroups, fullHash)
    /\ stats' = [stats EXCEPT !.full = Cardinality(Candidates(fastGroups))]
    /\ pc' = "output"
    /\ UNCHANGED <<inodeOf, contentOf, signalled, found, errorCount, kept, sizeGroups, fastGroups, todo, single,
                   ready, hashes, report, exitCode>>

-----------------------------------------------------------------------------
(* Output *)

(* Mutant: every member of a group is counted as a duplicate. *)
ExtraCountsAll(g) == Cardinality(g)

Extra(g)  == Cardinality(g) - 1
Wasted(g) == Extra(g) * FileSize(CHOOSE e \in g : TRUE)

FinalStats == [stats EXCEPT !.groups = Cardinality(finalGroups),
                            !.duplicates = SumFunction([g \in finalGroups |-> Extra(g)]),
                            !.wasted = SumFunction([g \in finalGroups |-> Wasted(g)])]

(* The format depends on the command, the destination and the terminal. *)
Format(command, destination, tty) ==
    IF command = "summary" THEN "summary"
    ELSE IF destination = "file" \/ (destination = "auto" /\ ~ tty) THEN "json" ELSE "simple"

(* The report is written, or the output file cannot be opened, or a write    *)
(* fails and what was written is incomplete.                                 *)
Output ==
    /\ pc = "output"
    /\ stats' = FinalStats
    /\ \E command \in {"scan", "summary"}, destination \in {"auto", "stdout", "file"}, tty \in BOOLEAN :
         \/ /\ report' = [kind |-> Format(command, destination, tty),
                          groups |-> IF command = "summary" THEN {} ELSE finalGroups]
            /\ Exit(0)
         \/ /\ "output" \in Faults
            /\ report' \in {NoReport, [kind |-> "partial", groups |-> {}]}
            /\ report' = NoReport => command = "scan" /\ destination = "file"
            /\ Exit(1)
    /\ UNCHANGED <<inodeOf, contentOf, signalled, found, errorCount, kept, sizeGroups, fastGroups, finalGroups, todo,
                   single, ready, hashes>>

-----------------------------------------------------------------------------
(* Between two of its steps, or before a pass starts and after it ends, the  *)
(* run gives up when an allocation, discovery or a dispatch fails.           *)
GiveUp ==
    /\ "memory" \in Faults
    /\ \/ pc = "discovery"
       \/ pc = "discovered" /\ ~ signalled /\ found # {}
       \/ pc = "fast" /\ todo \in {{}, Candidates(sizeGroups)}
       \/ pc = "dispatch"
       \/ pc = "full" /\ todo = {}
    /\ Exit(1)
    /\ UNCHANGED <<inodeOf, contentOf, signalled, found, errorCount, kept, sizeGroups, fastGroups, finalGroups, todo,
                   single, ready, hashes, stats, report>>

Signal ==
    /\ "signal" \in Faults
    /\ pc # "exit" /\ ~ signalled
    /\ signalled' = TRUE
    /\ UNCHANGED <<inodeOf, contentOf, pc, found, errorCount, kept, sizeGroups, fastGroups, finalGroups, todo, single,
                   ready, hashes, stats, report, exitCode>>

Exited == pc = "exit" /\ UNCHANGED vars

Run ==
    \/ Discover \/ Interrupted \/ NothingFound \/ GroupSizes
    \/ (\E e \in Entries : FastSkip(e) \/ FastHash(e)) \/ EndFastPass
    \/ StartFullPass
    \/ (\E b \in todo : FullSkip(b) \/ \E w \in Workers : NoSlot(w, b) \/ FullBatch(w, b)) \/ EndFullPass
    \/ Output \/ GiveUp

Next == Run \/ Signal \/ Exited

Spec == Init /\ [][Next]_vars
FairSpec == Spec /\ WF_vars(Run)

-----------------------------------------------------------------------------
(* Properties *)

TypeOK ==
    /\ inodeOf \in [Entries -> Inodes] /\ contentOf \in [Inodes -> Contents]
    /\ pc \in {"discovery", "discovered", "fast", "dispatch", "full", "output", "exit"}
    /\ signalled \in BOOLEAN /\ single \in BOOLEAN
    /\ kept \subseteq Entries /\ found \subseteq Entries
    /\ errorCount \in Nat
    /\ sizeGroups \subseteq SUBSET Entries /\ fastGroups \subseteq SUBSET Entries /\ finalGroups \subseteq SUBSET Entries
    /\ ready \subseteq Workers
    /\ fastHash \in [Entries -> Nat] /\ fastErrno \in [Entries -> BOOLEAN]
    /\ fullHash \in [Entries -> Contents \cup {NoDigest}] /\ fullErrno \in [Entries -> BOOLEAN]
    /\ exitCode \in {0, 1, 130}

Hashed(e) == fullHash[e] # NoDigest

(* A group with a hashed file in it is a group of identical, hashed files:   *)
(* a file that was skipped, interrupted or could not be read never joins the *)
(* genuine duplicates of another one, whatever failed in either pass.        *)
HashedGroupsAreIdentical ==
    \A g \in finalGroups : \A x, y \in g :
        Hashed(x) => Hashed(y) /\ Content(x) = Content(y)

(* Two files with the same content that both passes read completely end up   *)
(* in one reported group, whatever happened to the others; and when nothing  *)
(* failed and no signal came every twin is read.                             *)
TwinsAreReported ==
    pc = "output" =>
        \A x, y \in kept :
            x # y /\ Content(x) = Content(y) /\ ~ signalled =>
                /\ fastHash[x] = FastOf[Content(x)] /\ fastHash[y] = FastOf[Content(y)] /\ Hashed(x) /\ Hashed(y) =>
                       \E g \in finalGroups : {x, y} \subseteq g
                /\ Faults \cap {"read", "ring"} = {} => Hashed(x)

(* The numbers of bc_duplicate_statistics_t: every stage counts no more      *)
(* files than the stage before, and wasted bytes are what deleting all but   *)
(* one file of each group would free.                                        *)
StatisticsAgree ==
    pc = "exit" /\ report.kind # "none" =>
        /\ stats.duplicates + stats.groups = Cardinality(UNION finalGroups)
        /\ stats.duplicates + stats.groups <= stats.full
        /\ stats.full <= stats.fast
        /\ stats.fast = stats.candidates
        /\ stats.candidates + stats.collapsed <= stats.scanned
        /\ stats.wasted + SumFunction([g \in finalGroups |-> FileSize(CHOOSE e \in g : TRUE)])
               = SumFunction([e \in UNION finalGroups |-> FileSize(e)])

(* What a run has to show for itself, as its user sees it.  The groups it    *)
(* answers with are those it lists, or those its summary counts.             *)
FileContents == [e \in Entries |-> Content(e)]
FilesRead == {e \in Entries : Hashed(e)}
FilesCompared == {e \in FilesRead : fastHash[e] = FastOf[Content(e)]}
Answered == IF pc # "exit" \/ exitCode # 0 THEN {} ELSE IF report.kind = "summary" THEN finalGroups ELSE report.groups
Status == IF pc # "exit" THEN "running"
          ELSE IF exitCode = 0 THEN "done" ELSE IF exitCode = 130 THEN "interrupted" ELSE "failed"

Abstract == INSTANCE FindDuplicates WITH
    Items <- Entries, Reliable <- Faults \cap {"read", "ring"} = {},
    content <- FileContents, files <- kept, read <- FilesRead, compared <- FilesCompared,
    interrupted <- signalled, answer <- Answered, status <- Status

(* A run implements FindDuplicates: through three groupings, two passes and  *)
(* batches that workers take in any order it answers with exactly the        *)
(* duplicates among the files it kept, if nothing fails; whatever fails, a   *)
(* file that was read is grouped with its twins and with nothing else, and a *)
(* signal before the files are selected leaves no answer.                    *)
FindsDuplicates == Abstract!Spec

(* A signal seen by the end of discovery (135-141) stops the run: it exits   *)
(* with 130, having opened no file and written nothing.                      *)
EarlySignalStops ==
    (pc \in {"discovery", "discovered"} /\ signalled) ~>
        (pc = "exit" /\ exitCode = 130 /\ report = NoReport /\ \A e \in Entries : ~ Hashed(e) /\ fastHash[e] = 0)

(* Both passes drain although their workers skip iterations after a signal   *)
(* or a failed ring set-up, and the run ends.                                *)
RunEnds == <>(pc = "exit")

(* README.md:6: "reports groups of identical files". *)
ReportedFilesAreIdentical ==
    \A g \in report.groups : \A x, y \in g : Content(x) = Content(y)
=============================================================================
