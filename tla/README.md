# Verification of bc-duplicate

bc-duplicate finds duplicate files: it walks directory trees, groups files by
size, then by a fast hash of their first and last block, then by a full digest,
and prints the groups. This directory models its core in TLA+, checks the model
with TLC and proves its central safety properties with TLAPS. Paths below are
relative to the repository's `src/` unless they start with `tests/`,
`CHANGELOG.md` or `README.md`.

## Inventory

| Component (source) | State it keeps | Operations | Interacts with | What is hard | What makes it correct |
|---|---|---|---|---|---|
| Application run (`bc_duplicate_main.c`) | entries, three group lists, statistics, exit code | the stages of a run, early returns, output selection | calls everything else | signals between any two steps, partial failures, early returns | reported groups are identical files; twins are reported; statistics agree; a run ends |
| Fast pass (`worker/..._fast.c`) | `fast_hash`, `fast_hash_errno` per entry | one iteration per candidate, in parallel | the run; the signal flag | iterations skipped after a signal, unreadable prefix or suffix | a hash is the file's own or is not taken for one |
| Full pass (`worker/..._full.c`, `..._sort.c`) | `full_hash`, `full_hash_errno`; one slot (ring, hash states) per worker | batches, in parallel or by one thread | the reader; the dispatch decision | last partial batch, slot set-up failing in one worker only | as above |
| io_uring reader (`worker/..._batch_uring.c`) | ring, slot buffers, direct descriptors; per call `slot_to_item`, `slot_bytes_read` | `consume_batch`, `drive_chunk`, `submit_slot`, `handle_cqe` | kernel, consumer callback, synchronous reader | completions out of order and from earlier batches, broken links, files changing, queue full | an accepted item was fed its own complete bytes, once |
| Synchronous reader (`worker/..._reader.c`) | the offset | `consume_file` | consumer callback, other processes | file changes between reads, short reads, interrupted reads | what it feeds is what the file held at one instant |
| Grouping by size (`grouping/..._by_size.c`) | the entry array, in place | sort, hardlink compaction, run scan | the run | overlapping in-place copies, two indices | no entry lost, one per inode, groups are the size classes |
| Grouping by hash (`grouping/..._by_fast_hash.c`, `..._by_full_hash.c`) | the entry array, a growing group array | sort each parent range, scan | the run | index ranges outlive the sort; array growth | groups are the key classes of each parent |
| Throughput cache (`bench/..._throughput_cache.c`) | a file shared by all runs of a user | load, measure, store | other runs through the file | truncated and written in place, overlapping stores, crashes, other hosts, upgrades | constants are those of the host; a complete file is reused; a broken one is replaced |
| Dispatch decision, throughput measurement (`bench/`) | none | measure, decide | the run | floating point, timing | only speed depends on it |
| Sequential discovery (`discovery/..._walk.c`) | entries, errors, visited directories, root device | inputs, recursion | filter, signal flag | symlink cycles, overlapping roots, mount points | each wanted file once, errors counted, it ends |
| Parallel discovery (`discovery/..._walk_parallel.c`) | per worker a vector and a collector, merged at the end; root device | callbacks of `bc_io_walk_parallel`, merge | workers, filter, signal flag | interleaving of workers, errors per worker | the same files; each once per root; errors reach stderr |
| Filter (`filter/`) | two pattern lists | split, accept | discovery | empty pieces, lists of one | a name is accepted when the lists say so |
| Command line (`cli/`), output (`output/`) | none | parsing, formatting | the run | | text |

## Modules

| Module | Models | Role |
|---|---|---|
| `RingReader` | `worker/bc_duplicate_worker_batch_uring.c`, `worker/..._reader.c` through `fallback_sync` | one worker's ring over a sequence of batches |
| `RingReaderProofs` | | proofs about `RingReader` |
| `GroupBySize` | `grouping/bc_duplicate_grouping_by_size.c` | the algorithm, loop by loop |
| `GroupByHash` | `grouping/bc_duplicate_grouping_by_fast_hash.c`, `..._by_full_hash.c` | the algorithm, loop by loop |
| `GroupBySizeProofs`, `GroupByHashProofs` | | proofs about the two algorithms |
| `StreamReader` | `worker/bc_duplicate_worker_reader.c` | the read loop against a changing file |
| `AtomicRead` | | what a caller of the reader expects; `StreamReader` implements it |
| `StreamReaderProofs` | | proofs about `StreamReader` |
| `Discovery` | `discovery/` (both walks, patterns, pseudo file systems), `filter/` | one discovery over a directory graph |
| `FindFiles` | | what a run expects of discovery; `Discovery` implements it |
| `DiscoveryProofs` | | proofs about `Discovery`, the refinement included |
| `ThroughputCache` | `bench/bc_duplicate_throughput_cache.c` | runs on several hosts sharing the file |
| `ThroughputCacheProofs` | | proofs about `ThroughputCache` |
| `Pipeline` | `bc_duplicate_main.c` (`application_run`), `worker/..._fast.c`, `..._full.c`, `..._sort.c` | the composition of the stages |
| `FindDuplicates` | | what a run promises its user; `Pipeline` implements it |
| `PipelineProofs` | | proofs about `Pipeline`, the refinement included |
| `FiniteLemmas` | | lemmas the proofs share: least number, induction over sets of numbers and over finite sets, intervals, counting, sums over finite sets, arrays as sequences |
| `MC*` | | instances for TLC |

The modules meet at their results. `Pipeline` takes from the groupings that they
return the classes of two or more entries (`Classes`, `Split`, `KeptChoices`),
which is what `GroupsAreSizeClasses`, `OneEntryPerInode` and
`GroupsAreKeyClasses` say of the loops; and from the reader that a batch reads a
subset of its files (`FullBatch`), which is `CleanBatchIsExact` for batches
that find the ring idle. The run `ring_stale` shows what happens to the others.
`RingReader` takes the fallback to the synchronous reader as one step, which is
what `ReadsWholeFile` says of `StreamReader`; and `Pipeline` takes discovery as
any set of entries with or without errors, which `FindsWhatIsWanted` pins down.

### RingReader

A worker owns one ring and takes one batch after another with it. Every item
that fits a slot gets a chain of four linked requests: open into the slot's
direct descriptor, read `file_size` bytes, probe one byte past them, close.

* `pc` is the place in `consume_batch`: `prepare` (187-200), `wait` (213-225),
  `fallback` (254-273), `finished`.
* A chain is named by its batch and slot, so completions of an earlier batch can
  be told from those of the current one; the code cannot (`user_data` holds slot
  and operation), and `Reap` therefore looks the item up by slot only.
  `chState`, `done`, `reaped` and `res` say whether the chain is queued or
  submitted, how far the kernel and the worker are with it, and the results.
* `slotItem[s] = NoFile` is an uninitialised `slot_to_item` entry; using one sets
  `undefined`.
* The kernel (`KernelStep`, external) runs the requests of a chain in order and
  the chains independently; a failed or short request cancels the ones behind it.
* Other processes (`Grow`, `Shrink`, `Vanish`) change files at any time.
* `clean` is a history variable: the ring was idle when the batch began.
* A file's bytes are abstracted to `Piece(file, length, whole)`, `whole` saying
  that it was the complete content at the moment of the read.
* A batch has at most `SlotCount` items, as `process_batch` guarantees, so the
  chunk loop of `consume_batch` runs once. `SqCapacity` counts whole chains: the
  real queue (160 entries requested, rounded up to 256) holds 64 of them, so
  `submit_slot` never gets only some of its four entries.
* `consume_file` is one step: it feeds what the file holds at one instant
  (`AtomicRead`).

### GroupBySize, GroupByHash

One action per loop turn. Indices are the code's plus one. The sort is not
stable, so every sorted permutation is a possible result. `CopyRun` is the copy
of one run down over the gap left by collapsed hardlinks; `SkipHardlink` and
`KeepEntry` are the turns of `collapse_hardlinks_in_run`.

### StreamReader, AtomicRead

`pc` is the place in `consume_file`; `fed` is what the consumer was given, its
length the file offset. One action per outcome of `open` and `read`; `Change` is
another process that appends a byte, cuts the file or overwrites a byte. The
auxiliary `torn` becomes true when bytes already read are changed, or when a
read returns less than there is (`ReadShort`). `AtomicRead` is the abstract
reader: it takes the whole file in one step, or fails, or the file was torn. The
refinement maps `result` to `fed` once the loop is done.

### Discovery, FindFiles

The file system is a graph: names have a parent directory and lead to a
directory, a file, nothing or something else; symbolic links may lead anywhere.
A scenario (`MCDiscovery`) is such a graph with positional arguments and options;
`mode` is `discovery_worker_count >= 2`.

* `pc` is `inputs` (the loop of `expand`), `paths` (the matches of one pattern),
  `walk`, `merge`, `done` or `failed`.
* Sequential: `stack` is the recursion of `walk_directory`, each frame with the
  names `readdir` has not returned yet; `visited` is the inode set. `HandleEntry`
  is `handle_entry` with its outcomes, `PassBy`, `DescendFails` and `Descend`
  those of `descend_child`.
* Parallel: `pending` is the queue of `bc_io_walk_parallel`, `frame` what each
  worker lists, `slot` its vector and collector. The scheduling is external; the
  callbacks `Filter`, `Visit`, `OnError` and the loop that merges the workers'
  slots (`Merge`, one worker at a time, `EndMerge`, `MergeFails`) are the
  repository's; `merged` holds the workers whose slots are merged.
* `bc_io_walk_parallel` may fail at its start or midway (`WalkFails`). The caller
  discards its result (`walk_parallel.c:263`), so what is queued or being listed is
  dropped in silence, which `lost` records, as it does a callback without memory.
* `opaque` are the directories on pseudo file systems for which `statfs()` fails;
  the code takes them for ordinary ones, so only `KnownPseudo` are skipped.
* `Wanted` says what the command line asks for and looks at nothing the walks keep:
  files behind the directories reachable from the roots (a least fixed point) that
  the lists accept (`Listed`, which does not split them). `--one-file-system` stops
  at a name that leads to another device than that of the directory it is in, as
  README.md:31 has it. `asked` is its value, fixed in `Init`.
* The code compares with the device of the first directory argument instead. The
  two agree while the arguments are on one device (`OneBoundary`); the run
  `discovery_boundary` shows that they disagree otherwise.
* `FindFiles`: found files are wanted ones, they are never taken back, and a
  discovery that succeeds has found all of them or met trouble (an error, a
  signal, a callback without memory, a failed walk).

### ThroughputCache

Each process runs `get_or_measure` again and again: `open`, `load`, `hit`,
`measure`, `store`, `write`. The file is a sequence of cells (a signature of one
or more cells, then one per constant); a constant is the signature of the host
that measured it, so that "whose value is this" can be asked of every cell. A
store truncates in one step and writes in a later one from offset 0, over whatever
another store has written since; what is longer of the other text stays and may
begin in the middle of a line (`Behind`). The text fits the writer's buffer of
1024 bytes, so it is one `write`, and a failing one writes nothing; and the reader's
of 512, so it is one `read`.
`foreign`, `tainted` and `served` are auxiliary: the file holds the end of another
host's text; a load saw that or two versions of the file; nothing has given the
run a reason to measure.

### Pipeline, FindDuplicates

`pc` names the stage. Discovery is abstracted to its result (any set of entries,
zero or some errors). Iterations of a pass are taken in any order (`todo`), by
any worker; `single` is the single-thread loop, which takes batches in order.
A content has a size, a fast hash (`FastOf`, possibly 0) and a hash without its
suffix block (`PrefixOf`); a digest is injective and never the zero bytes an
entry starts with (`NoDigest`). `Signal` may happen before any step. `Faults`
selects what may fail: `memory` (allocation, dispatch), `read`, `ring` (slot
set-up), `output`.

`FindDuplicates` is the run without its stages: it selects files once (`files` is
`kept`), reads some of them, is interrupted or not, and answers or fails.
`read` are the files with a digest, `compared` those of them whose fast hash is
right too. An answer is sound for them whatever failed: disjoint groups of two or
more files, a file that was read only with identical files that were read, and
with every compared twin if it was compared itself. It is exactly the duplicates
among `files` when no signal came and nothing that is read can fail. Exit code 130
is for a signal before the files are selected, and such a run never answers. Of
a group without a file that was read it says nothing, which is where
`pipeline_unhashed` finds its counterexample.

## What the runs check

Passing runs:

| Run | Question | Bounds |
|---|---|---|
| `ring_faults` | submit or wait fails, the queue fills, a file grows: exact and complete files, no good file lost, ring drained? | 3 files, 2 slots, 2 batches, queue of 2 chains, 1 change |
| `ring_mixed` | large, fitting and empty files, device and digest errors, files growing, truncated or vanishing: fed once, errno the root cause, every batch ends? | 4 files, 3 slots, 2 batches, 2 changes |
| `group_by_size` | is the in-place compaction right, are the groups the size classes? | arrays of 0-4 files, 2 sizes, 2 devices, 2 inodes, group array of 1 |
| `group_by_hash` | are the groups the key classes of each parent? | arrays of 0-6 keys of 3, every list of parents |
| `pipeline_faults` | with every failure and signals at any moment: identical groups, does the run implement `FindDuplicates`? | 3 entries, 3 inodes, 4 contents, 2 workers, batches of 2 |
| `pipeline_live` | nothing fails but a signal may come: does the run end, is the answer exactly the duplicates, are the statistics right, does an early signal end it with 130? | 3 entries, 3 inodes, 3 contents, 2 workers, batches of 2 |
| `discovery` | do both walks find what is wanted, once (or once per root), explain what is missing, and end? | 12 scenarios over 4 directories, 7 names, 6 paths, arguments on one device; 2 workers; every fault, any number of times |
| `stream` | is the loop of reads one atomic read, does it end? | buffer of 2, files of 0-5 bytes, 2 changes, 1 interrupted read, every fault |
| `cache` | constants of the own host, complete file reused, broken file replaced? | 4 processes (one without a path) on 2 hosts, signatures of 2 lengths, 2 constants, 1 fault, 1 upgrade, any number of runs |

The bounds reach the interesting cases: two slots and two batches are enough for
a completion to be applied to the wrong item, for a full queue, for a partial
batch; four files are enough for a copied run that overlaps itself and for a
group array that grows; three entries with batches of two give a last partial
batch, and the four contents a pair that only the digest tells apart, a pair the
fast hash tells apart and a pair the size tells apart. The scenarios of
`discovery` have a link back to the root, a dangling one and one to a FIFO, a mount
point, a pseudo file system with and without a `statfs()` that works, overlapping
roots, patterns with and without a match, files and links as arguments, and lists
with one, several and empty patterns. A buffer of two bytes gives files of no, half, one, and two and a half
buffers. Two processes of one host and one of another are enough for stores that
overlap, for a load in the middle of a store and for a crash between truncation
and write. Every run checks deadlock: a finished component stutters explicitly.

Runs that end in a counterexample, each a place where the code and what the
repository says of it disagree:

| Run | The code | Said by |
|---|---|---|
| `ring_stale` | after a failed wait the ring is not drained; the next batch takes the old completions for its own and may accept an item with another file's bytes | README.md:6 |
| `pipeline_unhashed` | entries that were not hashed keep zero hashes, which are grouped: two files of one size are reported as duplicates when their reads fail, or when a signal ends a pass (`Faults` may be either one alone), with exit code 0 | README.md:6 |
| `discovery_boundary` | `--one-file-system` compares with the device of the first argument: of a later one on another device the subdirectories are left out | README.md:31 |

Where the code gives no guarantee, a property names the exception instead of leaving
the case out of the model:

* `CleanBatchIsExact`, `UntouchedFileAccepted`, `DriveDrainsRing` and
  `ErrnoIsRootCause` are about batches that begin on an idle ring; `ring_stale` is
  about the others.
* `ReadsWholeFile` excepts a file marked `torn` (a byte overwritten after it was read,
  a short read), which the reader cannot notice.
* `FindsDuplicates` promises a group to twins that were `compared`: a file that no
  worker read, or whose suffix was left out of its fast hash, may be missing from it.
* `LoadedValuesAreLocal` excepts a load marked `tainted` (overlapping stores, two
  versions read), which the code accepts; `CacheHeals` assumes the parent directory.
* `MissingFilesAreExplained` excepts, for the parallel walk only, what `lost` records.
* `ParallelListsPerPath` counts the arguments whose trees hold a name: the parallel
  walk lists `d/sub/f` twice for the arguments `d` and `d/sub`, and `--match-hardlinks`
  then prints it as its own duplicate; the sequential walk does not.
* `FindsWhatIsWanted` takes a directory `statfs()` fails for as an ordinary one, as the
  code does; README.md:41 says that pseudo file systems are always skipped. It speaks
  of arguments on one device; `discovery_boundary` is about the others.
* `EveryBatchEnds` is checked without failing submits and waits: those end the loop.

### Fairness

`RingReader`: the worker's steps, and each chain's steps, are weakly fair: the
thread is scheduled, and a submitted request completes eventually. The
failures (`SubmitFails`, `WaitFails`) and other processes are not fair.
`Pipeline`: a run takes steps until it exits; `bc_concurrency_for` hands out all
iterations before it returns. The signal is not fair.
`Discovery`: the calling thread and each worker are weakly fair; signals are not.
`StreamReader`: the calls that succeed are weakly fair, failures and other
processes are not. `ThroughputCache`: a run that has begun goes on; nobody need
start one, and crashes, failures and upgrades are not fair. `CacheHeals` is about
one process running alone: two runs can go on disturbing each other, each loading
while the other has the file truncated.

## What is proved

Every theorem holds for every value of the constants that the modules' `ASSUME`s
admit (numbers of slots, batches, files, entries, workers, processes; every
directory graph and command line; every combination of failures). Each rests on an
inductive invariant that TLC checked on the run's instance before it was proved.

`RingReaderProofs`
* `TypeCorrect`: the property alone is not inductive: that the worker indexes only
  assigned slots needs the order of a chain's states (`ChainsInOrder`) and the
  assignment of slots (`SlotsAssigned`).
* `CleanBatchExact`, `RingAcceptsWhole`, `DriveDrains`: the three properties of
  batches that begin on an idle ring, from one inductive invariant, `IndInv`.
  Its core, `CleanInv`, says that only this batch's chains are active
  (`OthersQuiet`); what the kernel has left in a slot at every stage of its chain
  (`KernelState`: once the read returned `file_size` bytes the slot buffer holds the
  item's own file, and once the probe returned 0 it is the whole file); what the
  worker has made of it (`WorkerState`); that the completions counted are those
  reaped, as the cardinality of a set (`Counted`), so that four per slot means every
  chain is over (`FullReapedSet`); and that an item not yet settled has been fed
  nothing (`ItemsState`).
* `ErrnoIsFirstFailure`, `GoodFilesAccepted`: `FullInv` adds to `IndInv` what a
  chain's results say about each other (`RootCause`: behind a failed open the read
  is cancelled, and the errno of the item stays open's), that the chain of a file
  nobody changed succeeds request by request (`GoodChain`), and that such a file is
  never given an errno before the second loop and is accepted behind it
  (`GoodItem`).

`PipelineProofs`
* `TypeCorrect`, `GroupsIdentical`: a group with a hashed file in it is a group of
  identical hashed files. `HashInv` adds that a digest is the file's own or the zero
  bytes, that no final group exists before the full pass has ended, and that members
  of a final group agree on the digest.
* `TwinsReported`: `TwinInv` adds that each list of groups is the split of the one
  before it (`StagesInv`) and that, while nothing fails, each candidate of a pass has
  its hash or is in an iteration nobody has taken (`FastComplete`, `FullComplete`).
  That no candidate is in no batch is a lemma of its own (`BatchesCover`): the order
  of the candidates lists all of them, and the rounded-up number of batches reaches
  the last.
* `StatisticsCorrect`: `CountInv` says of each number, from the stage that fills it
  in, which set it is the cardinality of. The groups of a split are disjoint
  (`SplitDisjoint`), so the sum of their sizes is the size of their union, and the
  members of a group have one file size, so its wasted bytes are all of its bytes
  but one file's (`FinalSums`).
* `RunFindsDuplicates`: `Pipeline` implements `FindDuplicates`, initial states and
  every action. `SelectInv` adds that no file is kept before `GroupSizes`, and that
  only kept files are ever hashed. Every step but four kinds is invisible to the
  user: `GroupSizes` selects, a batch reads, `Signal` interrupts, and the exits
  answer or fail. Soundness of the answer is `AnswerSound`; that it is exactly the
  duplicates is `AnswerExact`: a group is the whole class of any of its members
  (`GroupIsClass`), because two twins meet in a group (`TwinsMeet`) and groups are
  disjoint.

`GroupBySizeProofs`
* `TypeCorrect`, `WritesStayBehind`, `UnreadIntact`, `InodesKeptOnce`,
  `GroupsAreExact`. The entries that count are those already kept and those not yet
  read (`Live`): they stay ordered (`Ordered`), the kept ones strictly when hardlinks
  collapse (`Strict`), every entry that was given has one of its inode among them
  (`Complete`), and what is not yet read is as the sort left it (`UnreadInv`), because
  the write index never passes the read index. The groups found so far are the
  classes below the scan (`GroupsInv`, `ScanInv`), and the number of candidates is
  the cardinality of their union (`Counted`).

`GroupByHashProofs`
* `TypeCorrect`, `GroupsFit`, `RangesValid`, `GroupsAreExact`: each parent range is a
  permutation of what it was (`Rearranged`), the groups are key classes of their
  parents (`GroupsAreClasses`), in order and disjoint (`GroupsOrdered`), no class
  lies across the scan position (`Boundary`) and none below it is missing
  (`Covered`).

`ThroughputCacheProofs`
* `TypeCorrect`, `LoadsAreLocal`, `CacheIsReused`: types need that a store about to
  write has its file (`WritersReady`). The file is the text of one store or empty
  unless it is marked `foreign` (`FileIsWhole`), so is what a load has read unless it
  is marked `tainted` (`LoadsAreWhole`), and until something spoils it a run reads
  the complete text it began with (`ServedFromFile`). What a write leaves of the
  text that was there is the subject of `BehindFacts`.

`DiscoveryProofs`
* `TypeCorrect` and `SequentialOnce` hold of every run (`CoreInv`).
  `MissingExplained`, `ListsPerPath` and `BothWalksFindFiles` (`Discovery` implements
  `FindFiles`, initial states and every action) have the precondition `OneBoundary`:
  with `--one-file-system` the arguments are on one device, which makes the device
  the walk compares with that of every directory it is in. Their invariant, `IndInv`,
  says where the main thread is on the command line (`CursorInv`) and that the device
  it knows is that of one of the arguments (`DeviceInv`); that only wanted files are found
  and only reachable directories are queued or open (`SoundInv`); that the sequential
  walk opens a directory once (`SequentialInv`) and that its visited set is closed
  under the links and directories followed, but for the names left over in open
  directories (`SequentialComplete`); and, for the parallel walk, which has no
  visited set, that a wanted file is found or its directory can still be reached from
  a queued directory or a name left over (`ParallelComplete`). `Reachable` is used
  through two facts only: it is closed, and it is the least closed set. That
  splitting the lists at newlines accepts what `Listed` accepts is a lemma
  (`SplitMatches`).
* `ListsPerPath`: the parallel walk has no visited set, so that it opens a directory
  only once per path must come from the tree. `OpenedOnce` says that the directories
  the workers list are different ones and cannot be reached again from the work that
  is left; `ListedPerTree` that each wanted name was listed, by any worker, merged
  or not, as often as there are trees taken that hold it, counting one more while
  the current walk has yet to come to it. That a directory has one name and is not
  reached from below (`OneName`, `NotFromBelow`) is what the assumption of a forest
  is for.

`StreamReaderProofs`
* `TypeCorrect`, `ReadIsAtomic`: `StreamReader` implements `AtomicRead`. The invariant
  `PrefixFed` says that until the file is torn what was fed is a prefix of what the
  file holds; a read extends it to a longer prefix (`ReadExtends`), and the last or
  the empty read makes it the file.

`FiniteLemmas` holds what they share. Where an argument is by induction over data it
is made over a set of numbers with a least member (`LeastNumber`,
`InductionOverSet`) or over a family of finite sets given as a set
(`InductionOverSubsets`), which the provers can instantiate, where an operator
they cannot. The sums of the statistics and of the listings are the community
modules' `SumFunctionOnSet`, a fold: `TableExists` shows that the recursive table it
is chosen from exists for every finite set, and the usual laws follow (`SumAdd`,
`SumOfSums`, `SumDisjoint`, `SumOverUnion`, `SumConstant`).

The assumptions are the named `ASSUME`s of the modules. Batches are non-empty as a
list, hold at most `SlotCount` items and every file once; sizes, keys and inode
numbers are naturals; the first capacity of the group array and the number of
constants in the cache are positive; entries, names and workers are finitely many.
`Discovery`: directories, files, dangling and special targets differ; a directory
has one name that is not a symbolic link (no bind mounts), and without the links
directories are a forest (every non-empty set of them has a member with no name in a
directory of the set); between two patterns of a list there is a
newline, as the command line joins them. TLC evaluates all of them on the instances.

Only model-checked: liveness (`EveryBatchEnds`, `RunEnds`, `EarlySignalStops`,
`DiscoveryEnds`, `ReaderEnds`, `CacheHeals`), because fairness and ENABLED are out of
the prover's reach. Every invariant and every refinement that a passing run
checks is a theorem too.

## Not modelled, and simplifications

* Collisions of the digest, and a digest of zero bytes.
* A file that changes during the passes of `Pipeline` (`RingReader` has them).
* `io_uring_submit` taking only a part of the queue.
* The parallel walk with `--follow-symlinks`: what `bc_io_walk_parallel` does with
  a cycle of links is not in the repository.
* `bc_core_copy` on overlapping ranges is taken to copy forward or like `memmove`
  (`CopyDown`), which `grouping_by_size` relies on and the repository does not show;
  `CopyDownBackward` is what would happen otherwise.
* `file_size` of a group in `GroupByHash`, which decides nothing there.
* Bind mounts: a directory has one name that is not a link, so that the queue of the
  parallel walk can be a set. `statfs()` gives one answer per directory and run.
* A directory tree that changes during discovery, except that a name may be
  refused or be gone; file names that are patterns themselves.
* In the cache: a write that is cut off in the middle of a line, a text longer than the
  reader's buffer, which two reads could take from two versions, and the number of
  workers a measurement was made with, which the signature does not hold.
* Throughput measurement and the dispatch formula (floating point), the text of the
  output, parsing of the command line, `application_init`, cleanup and `main`.

## Plan

Done: `RingReader`, `GroupBySize`, `GroupByHash`, `Pipeline` with `FindDuplicates`,
`Discovery` with `FindFiles`, `StreamReader` with `AtomicRead`, `ThroughputCache`, and
the proofs above. Left:

1. The parallel walk with `--follow-symlinks`, once the treatment of cycles by
   `bc_io_walk_parallel` is settled.
2. A composition of `Discovery` and `Pipeline`, with a tree that changes between the
   two.
3. Files that change during the passes of `Pipeline`, with `CleanBatchIsExact` as the
   contract of the reader.
