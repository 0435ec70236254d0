----------------------------- MODULE Discovery -----------------------------
(***************************************************************************)
(* Discovery: the sequential walk (bc_duplicate_discovery_walk.c) and the   *)
(* parallel one (bc_duplicate_discovery_walk_parallel.c), one of which      *)
(* bc_duplicate_application_run calls, with the name filter                 *)
(* (bc_duplicate_filter.c) and the expansion of patterns.                   *)
(*                                                                          *)
(* The file system is a graph: names in directories, and paths on the       *)
(* command line, lead to directories and files.  A symbolic link may lead   *)
(* anywhere, so with --follow-symlinks the graph has cycles.  The tree does *)
(* not change during the walk except that a name may vanish or be refused   *)
(* (a failing stat or open).                                                *)
(*                                                                          *)
(* The parallel walk runs on bc_io_walk_parallel, which is not part of the  *)
(* repository: its workers take directories from a shared queue, list them  *)
(* in any order and call back the filter, the visitor and the error handler.*)
(***************************************************************************)
EXTENDS Integers, Sequences, FiniteSets, Functions

CONSTANTS
    Dirs, Regs,    \* inodes: directories and regular files
    Gone,          \* what a dangling link or a name that is not there leads to
    Special,       \* a device, a socket or a FIFO
    Names,         \* names in directories
    Paths,         \* paths on the command line
    Parent,        \* Names -> Dirs
    Symlinks,      \* the names and paths that are symbolic links
    HiddenNames,   \* names that begin with a dot
    Device,        \* Dirs -> the device a directory is on
    PseudoDirs,    \* directories on /proc, /sys and the like
    SmallFiles,    \* files below --minimum-size
    Newline,       \* the separator in the values of --include and --exclude
    Matching,      \* pattern -> the names fnmatch() accepts for it
    Scenarios,     \* file trees with the arguments and options of a run, and
                   \* the directories statfs() fails for
    Workers,       \* worker threads of the parallel walk
    None,          \* no device yet, no directory
    Faults         \* which of the calls the code makes may fail

Items == Names \cup Paths
FaultKinds == {"stat", "open", "readdir", "memory", "glob", "walk", "signal"}

(* A list of patterns: one between two newlines, or none. *)
PatternLists == {l \in Seq(DOMAIN Matching \cup {Newline}) :
                    \A i \in 1 .. Len(l) - 1 : l[i] = Newline \/ l[i + 1] = Newline}

ASSUME TreeAssumption ==
    /\ Parent \in [Names -> Dirs]
    /\ Symlinks \subseteq Items
    /\ Device \in [Dirs -> Range(Device)]
    /\ None \notin Dirs /\ None \notin Range(Device)
    /\ Dirs \cap Regs = {} /\ Gone \notin Dirs \cup Regs /\ Special \notin Dirs \cup Regs /\ Gone # Special
    /\ IsFiniteSet(Items) /\ IsFiniteSet(Workers) /\ Names \cap Paths = {}
    /\ Newline \notin DOMAIN Matching
ASSUME ScenarioAssumption ==
    \A s \in Scenarios :
        /\ s.target \in [Items -> Dirs \cup Regs \cup {Gone, Special}]
        /\ s.inputs \in Seq([glob : BOOLEAN, paths : Seq(Paths)])
        /\ s.options \in [follow : BOOLEAN, oneFs : BOOLEAN, hidden : BOOLEAN,
                          include : PatternLists, exclude : PatternLists]
        /\ s.opaque \subseteq PseudoDirs
        \* a directory has one name that is not a symbolic link
        /\ \A n, m \in Names \ Symlinks :
              s.target[n] \in Dirs /\ s.target[n] = s.target[m] => n = m
        \* and without symbolic links directories are a forest: in every set one has its name outside
        /\ \A D \in SUBSET Dirs :
              D # {} => \E d \in D : \A n \in Names \ Symlinks : s.target[n] = d => Parent[n] \notin D
ASSUME DiscoveryFaultsAssumption == Faults \subseteq FaultKinds

VARIABLES
    target,        \* what each name and path leads to
    inputs,        \* the positional arguments: a pattern with its matches, or one path
    options,       \* follow, oneFs, hidden, include, exclude
    mode,          \* "sequential" or "parallel" (discovery_worker_count >= 2)
    opaque,        \* the directories of PseudoDirs for which statfs() fails
    asked,         \* auxiliary: Wanted, the files the command line asks for
    pc,
    next,          \* index of the next input
    paths,         \* paths of the current input that are not processed yet
    rootDevice,    \* root_device_id, None while it is not known
    signalled,     \* the signal handler saw SIGINT or SIGTERM
    entries,       \* how often each path was pushed on the entry vector
    errorCount,    \* errors in the collector application_run looks at
    stack,         \* sequential: the open directories, outermost first
    visited,       \* sequential: visited_directories
    pending,       \* parallel: directories queued for the workers
    frame,         \* parallel: the directory each worker is listing
    slot,          \* parallel: each worker's private entries and errors
    merged,        \* parallel: the workers whose slots are merged
    printed,       \* worker errors the merge wrote to stderr
    lost           \* something was dropped without a word: a callback ran out of
                   \* memory, or bc_io_walk_parallel failed

given   == <<target, inputs, options, mode, opaque, asked>>
walk    == <<stack, visited>>
pool    == <<pending, frame, slot, merged, lost>>
cursor  == <<pc, next, paths>>
results == <<entries, errorCount, printed>>
vars    == <<given, cursor, rootDevice, signalled, results, walk, pool>>

May(fault) == fault \in Faults
Push(e, x) == [e EXCEPT ![x] = @ + 1]
Error == errorCount' = errorCount + 1

(* What fstatat() says of a name or a path. *)
Kind(x) ==
    IF x \in Symlinks /\ ~ options.follow THEN "link"
    ELSE CASE target[x] \in Dirs -> "dir"
           [] target[x] \in Regs -> "file"
           [] target[x] = Gone -> "missing"
           [] OTHER -> "other"

Listing(d) == {n \in Names : Parent[n] = d}
Frame(d) == [dir |-> d, left |-> Listing(d)]
Visible(n) == options.hidden \/ n \notin HiddenNames
Foreign(d) == options.oneFs /\ rootDevice # None /\ Device[d] # rootDevice

(* bc_duplicate_discovery_path_is_pseudo_filesystem: a directory statfs()    *)
(* fails for is taken for an ordinary one.                                   *)
KnownPseudo == PseudoDirs \ opaque

-----------------------------------------------------------------------------
(* What the command line asks for, without reference to any walk *)

(* A path on the command line, by position. *)
Positions == UNION {{i} \X DOMAIN inputs[i].paths : i \in DOMAIN inputs}
PathAt(q) == inputs[q[1]].paths[q[2]]
RootPositions == {q \in Positions : Kind(PathAt(q)) = "dir" /\ target[PathAt(q)] \notin KnownPseudo}

(* x matches a pattern of the list, whatever separates the patterns. *)
Listed(list, x) == \E i \in DOMAIN list : list[i] # Newline /\ x \in Matching[list[i]]

(* The directories reachable from R: the least set that is closed under the  *)
(* names the options let one follow.  --one-file-system stops at every name  *)
(* whose directory is on another device than the one that holds the name.    *)
Followed(n) ==
    /\ Visible(n) /\ Kind(n) = "dir" /\ ~ Listed(options.exclude, n)
    /\ target[n] \notin KnownPseudo
    /\ options.oneFs => Device[target[n]] = Device[Parent[n]]
Reachable(R) ==
    LET edges  == {n \in Names : Followed(n)}
        closed == {S \in SUBSET Dirs : R \subseteq S /\ \A n \in edges : Parent[n] \in S => target[n] \in S}
    IN  {d \in Dirs : \A S \in closed : d \in S}

BigFile(x) == Kind(x) = "file" /\ target[x] \notin SmallFiles
WantedName(n) ==
    /\ Visible(n) /\ BigFile(n) /\ ~ Listed(options.exclude, n)
    /\ options.include = <<>> \/ Listed(options.include, n)

Wanted ==
    LET reached == Reachable({target[PathAt(q)] : q \in RootPositions})
    IN  {x \in {PathAt(q) : q \in Positions} : BigFile(x)}
            \cup {n \in Names : Parent[n] \in reached /\ WantedName(n)}

-----------------------------------------------------------------------------

NoEntries == [x \in Items |-> 0]
Idle == [dir |-> None, left |-> {}]

Init ==
    /\ \E s \in Scenarios :
          target = s.target /\ inputs = s.inputs /\ options = s.options /\ opaque = s.opaque
    /\ mode \in {"sequential", "parallel"}
    /\ asked = Wanted
    \* how bc_io_walk treats a cycle of links is not visible in the repository
    /\ options.follow => mode = "sequential"
    /\ pc = "inputs" /\ next = 1 /\ paths = <<>>
    /\ rootDevice = None
    /\ signalled = FALSE
    /\ entries = NoEntries /\ errorCount = 0 /\ printed = 0
    /\ stack = <<>> /\ visited = {}
    /\ pending = {} /\ frame = [w \in Workers |-> Idle]
    /\ slot = [w \in Workers |-> [entries |-> NoEntries, errors |-> 0]]
    /\ merged = {} /\ lost = FALSE

-----------------------------------------------------------------------------
(* The filter *)

(* Mutant: the pattern after the last newline is lost. *)
PatternsDropsLast(list) ==
    LET cuts == {0} \cup {i \in 1 .. Len(list) : list[i] = Newline}
    IN  {SubSeq(list, c[1] + 1, c[2] - 1) : c \in {c \in cuts \X cuts : c[1] < c[2] /\ ~ \E k \in cuts : c[1] < k /\ k < c[2]}}

(* bc_duplicate_filter_count_and_split: the pieces between the newlines.  A  *)
(* piece may be empty; an empty value has no piece at all.                   *)
Patterns(list) ==
    LET cuts == {0, Len(list) + 1} \cup {i \in 1 .. Len(list) : list[i] = Newline}
    IN  IF list = <<>> THEN {}
        ELSE {SubSeq(list, c[1] + 1, c[2] - 1) : c \in {c \in cuts \X cuts : c[1] < c[2] /\ ~ \E k \in cuts : c[1] < k /\ k < c[2]}}

(* An empty pattern matches no name. *)
MatchesAny(patterns, x) == \E q \in patterns : q # <<>> /\ x \in Matching[q[1]]

AcceptsDirectory(x) ==
    LET exclude == Patterns(options.exclude)
    IN  exclude # {} => ~ MatchesAny(exclude, x)

AcceptsFile(x) ==
    LET include == Patterns(options.include)
    IN  AcceptsDirectory(x) /\ (include # {} => MatchesAny(include, x))

-----------------------------------------------------------------------------
(* The inputs, in order *)

(* The visited set or the worker slots cannot be set up. *)
SetupFails ==
    /\ pc = "inputs" /\ next = 1
    /\ May("memory")
    /\ pc' = "failed"
    /\ UNCHANGED <<given, next, paths, rootDevice, signalled, results, walk, pool>>

(* bc_duplicate_discovery_glob_contains_metacharacter *)
IsPattern(input) == input.glob

(* Mutant: a failing glob() is tried again. *)
NextInputRetries ==
    /\ pc = "inputs" /\ next <= Len(inputs)
    /\ mode = "sequential" => ~ signalled
    /\ \/ /\ inputs[next].paths # <<>>
          /\ next' = next + 1
          /\ pc' = "paths" /\ paths' = inputs[next].paths
          /\ UNCHANGED errorCount
       \/ /\ IsPattern(inputs[next])
          /\ inputs[next].paths = <<>> \/ May("glob")
          /\ UNCHANGED <<next, errorCount>>
          /\ UNCHANGED <<pc, paths>>
    /\ UNCHANGED <<given, rootDevice, signalled, entries, printed, walk, pool>>

(* A path, or a pattern with its matches.  A pattern without a match comes   *)
(* back from glob() as itself: the sequential walk reports it (283-286), the *)
(* parallel one looks for it and fails.                                      *)
NextInput ==
    /\ pc = "inputs" /\ next <= Len(inputs)
    /\ mode = "sequential" => ~ signalled
    /\ next' = next + 1
    /\ UNCHANGED <<given, rootDevice, signalled, entries, printed, walk, pool>>
    /\ \/ /\ inputs[next].paths # <<>>
          /\ pc' = "paths" /\ paths' = inputs[next].paths
          /\ UNCHANGED errorCount
       \/ /\ IsPattern(inputs[next])
          /\ inputs[next].paths = <<>> \/ May("glob")
          /\ Error
          /\ UNCHANGED <<pc, paths>>

(* Only the sequential walk looks at the signal between two inputs. *)
EndInputs ==
    /\ pc = "inputs"
    /\ next > Len(inputs) \/ (mode = "sequential" /\ signalled)
    /\ pc' = IF mode = "sequential" THEN "done" ELSE "merge"
    /\ UNCHANGED <<given, next, paths, rootDevice, signalled, results, walk, pool>>

EndPaths ==
    /\ pc = "paths" /\ paths = <<>>
    /\ pc' = "inputs"
    /\ UNCHANGED <<given, next, paths, rootDevice, signalled, results, walk, pool>>

-----------------------------------------------------------------------------
(* One path of the command line (bc_duplicate_walk_process_input_path) *)

path == Head(paths)

TakePath(nextPc) ==
    /\ pc = "paths" /\ paths # <<>>
    /\ paths' = Tail(paths)
    /\ pc' = nextPc
    /\ UNCHANGED <<given, next, signalled, printed>>

(* The path cannot be examined, is a link that is not followed, or is        *)
(* neither a file nor a directory.                                           *)
PathRejected ==
    /\ TakePath("paths")
    /\ Kind(path) \in {"missing", "link", "other"} \/ May("stat")
    /\ Error
    /\ UNCHANGED <<rootDevice, entries, walk, pool>>

(* A file: the filter is not asked. *)
PathFile ==
    /\ TakePath("paths")
    /\ Kind(path) = "file"
    /\ \/ /\ target[path] \notin SmallFiles
          /\ entries' = Push(entries, path)
          /\ UNCHANGED errorCount
       \/ /\ target[path] \notin SmallFiles /\ May("memory")
          /\ Error
          /\ UNCHANGED entries
       \/ /\ target[path] \in SmallFiles
          /\ UNCHANGED <<entries, errorCount>>
    /\ UNCHANGED <<rootDevice, walk, pool>>

PathPseudo ==
    /\ TakePath("paths")
    /\ Kind(path) = "dir" /\ target[path] \in KnownPseudo
    /\ UNCHANGED <<rootDevice, entries, errorCount, walk, pool>>

(* The first directory on the command line decides which device              *)
(* --one-file-system stays on.                                               *)
LearnDevice == rootDevice' = IF rootDevice = None THEN Device[target[path]] ELSE rootDevice

WalkablePath ==
    /\ Kind(path) = "dir" /\ target[path] \notin KnownPseudo
    /\ LearnDevice

(* The sequential walk opens it unless it was visited before. *)
PathOpened ==
    /\ TakePath("walk") /\ mode = "sequential"
    /\ WalkablePath
    /\ target[path] \notin visited
    /\ visited' = visited \cup {target[path]}
    /\ stack' = <<Frame(target[path])>>
    /\ UNCHANGED <<entries, errorCount, pool>>

PathNotOpened ==
    /\ TakePath("paths") /\ mode = "sequential"
    /\ WalkablePath
    /\ \/ /\ target[path] \in visited
          /\ UNCHANGED <<visited, errorCount>>
       \/ /\ target[path] \notin visited /\ May("open")
          /\ visited' = visited \cup {target[path]}
          /\ Error
       \/ /\ May("memory")
          /\ Error
          /\ UNCHANGED visited
    /\ UNCHANGED <<entries, stack, pool>>

(* bc_duplicate_walk_run_on_directory: no visited set, one bc_io_walk per    *)
(* directory; the path may be too long, and the walk may fail (WalkFails).   *)
PathSpread ==
    /\ TakePath("walk") /\ mode = "parallel"
    /\ WalkablePath
    /\ pending' = {target[path]}
    /\ UNCHANGED <<entries, errorCount, frame, slot, merged, lost, walk>>

PathTooLong ==
    /\ TakePath("paths") /\ mode = "parallel"
    /\ WalkablePath
    /\ May("stat")
    /\ Error
    /\ UNCHANGED <<entries, walk, pool>>

-----------------------------------------------------------------------------
(* The sequential walk: the recursion of bc_duplicate_walk_directory *)

top == stack[Len(stack)]

(* Mutant: the innermost two directories are closed. *)
ReturnTwice ==
    /\ stack' = SubSeq(stack, 1, Len(stack) - 2)
    /\ pc' = IF Len(stack) = 1 THEN "paths" ELSE "walk"

(* Close the innermost directory. *)
Return ==
    /\ stack' = SubSeq(stack, 1, Len(stack) - 1)
    /\ pc' = IF Len(stack) = 1 THEN "paths" ELSE "walk"

EndDirectory ==
    /\ pc = "walk" /\ mode = "sequential"
    /\ \/ top.left = {} /\ UNCHANGED errorCount
       \/ May("readdir") /\ Error
    /\ Return
    /\ UNCHANGED <<given, next, paths, rootDevice, signalled, entries, printed, visited, pool>>

(* readdir() gave another name, but a signal came. *)
StopDirectory ==
    /\ pc = "walk" /\ mode = "sequential"
    /\ top.left # {} /\ signalled
    /\ Return
    /\ UNCHANGED <<given, next, paths, rootDevice, signalled, results, visited, pool>>

(* readdir() returns the names of a directory in any order. *)
ReadName(n) ==
    /\ pc = "walk" /\ mode = "sequential" /\ ~ signalled
    /\ n \in top.left
    /\ UNCHANGED <<given, cursor, rootDevice, signalled, printed, pool>>

Consumed(n) == [stack EXCEPT ![Len(stack)].left = @ \ {n}]

(* Hidden, excluded, not included, too small, or neither file nor directory. *)
SkipName(n) ==
    /\ ReadName(n)
    /\ \/ ~ Visible(n)
       \/ Kind(n) \in {"link", "other"}
       \/ Kind(n) = "file" /\ (~ AcceptsFile(n) \/ target[n] \in SmallFiles)
       \/ Kind(n) = "dir" /\ ~ AcceptsDirectory(n)
    /\ stack' = Consumed(n)
    /\ UNCHANGED <<entries, errorCount, visited>>

(* The joined path is too long, or the name cannot be examined, here or in   *)
(* descend_child.                                                            *)
NameRejected(n) ==
    /\ ReadName(n)
    /\ Visible(n)
    /\ Kind(n) = "missing" \/ May("stat")
    /\ stack' = Consumed(n)
    /\ Error
    /\ UNCHANGED <<entries, visited>>

AppendEntry(n) ==
    /\ ReadName(n)
    /\ Visible(n) /\ Kind(n) = "file" /\ AcceptsFile(n) /\ target[n] \notin SmallFiles
    /\ stack' = Consumed(n)
    /\ \/ entries' = Push(entries, n) /\ UNCHANGED errorCount
       \/ May("memory") /\ Error /\ UNCHANGED entries
    /\ UNCHANGED visited

(* bc_duplicate_walk_descend_child *)
Descendable(n) == Visible(n) /\ Kind(n) = "dir" /\ AcceptsDirectory(n)

PassBy(n) ==
    /\ ReadName(n)
    /\ Descendable(n)
    /\ \/ Foreign(target[n]) /\ UNCHANGED visited
       \/ ~ Foreign(target[n]) /\ target[n] \in visited /\ UNCHANGED visited
       \/ /\ ~ Foreign(target[n]) /\ target[n] \notin visited
          /\ target[n] \in KnownPseudo
          /\ visited' = visited \cup {target[n]}
    /\ stack' = Consumed(n)
    /\ UNCHANGED <<entries, errorCount>>

(* The visited set is full, or openat(), dup() or fdopendir() fails. *)
DescendFails(n) ==
    /\ ReadName(n)
    /\ Descendable(n)
    /\ ~ Foreign(target[n])
    /\ \/ May("memory") /\ UNCHANGED visited
       \/ /\ May("open")
          /\ target[n] \notin visited \cup KnownPseudo
          /\ visited' = visited \cup {target[n]}
    /\ stack' = Consumed(n)
    /\ Error
    /\ UNCHANGED entries

(* Mutant: a directory that was visited is visited again. *)
DescendAgain(n) ==
    /\ ReadName(n)
    /\ Descendable(n)
    /\ ~ Foreign(target[n]) /\ target[n] \notin KnownPseudo
    /\ visited' = visited \cup {target[n]}
    /\ stack' = Append(Consumed(n), Frame(target[n]))
    /\ UNCHANGED <<entries, errorCount>>

Descend(n) ==
    /\ ReadName(n)
    /\ Descendable(n)
    /\ ~ Foreign(target[n]) /\ target[n] \notin visited \cup KnownPseudo
    /\ visited' = visited \cup {target[n]}
    /\ stack' = Append(Consumed(n), Frame(target[n]))
    /\ UNCHANGED <<entries, errorCount>>

HandleEntry(n) == SkipName(n) \/ NameRejected(n) \/ AppendEntry(n) \/ PassBy(n) \/ DescendFails(n) \/ Descend(n)

-----------------------------------------------------------------------------
(* The parallel walk of one directory tree (bc_io_walk_parallel) *)

Walking == pc = "walk" /\ mode = "parallel"

WorkerStep == UNCHANGED <<given, cursor, rootDevice, signalled, results, walk, merged>>

(* bc_duplicate_walk_ensure_slot: the worker's vector and collector are made *)
(* when it first needs them.                                                 *)
NoSlot == May("memory")

(* bc_duplicate_walk_on_error: the error goes to the worker's own collector, *)
(* or nowhere when the slot cannot be created.                               *)
OnError(w) ==
    \/ slot' = [slot EXCEPT ![w].errors = @ + 1] /\ UNCHANGED lost
    \/ NoSlot /\ lost' = TRUE /\ UNCHANGED slot

(* bc_duplicate_walk_visit: no slot, or no memory for the path or the entry, *)
(* and the file is dropped without a word.                                   *)
Visit(w, n) ==
    \/ slot' = [slot EXCEPT ![w].entries = Push(@, n)] /\ UNCHANGED lost
    \/ May("memory") /\ lost' = TRUE /\ UNCHANGED slot

(* Mutant: the device is not looked at. *)
FilterIgnoresDevice(n) ==
    \/ Kind(n) = "file" /\ AcceptsFile(n) /\ target[n] \notin SmallFiles
    \/ Kind(n) = "dir" /\ AcceptsDirectory(n) /\ target[n] \notin KnownPseudo

(* bc_duplicate_walk_filter *)
Filter(n) ==
    \/ Kind(n) = "file" /\ AcceptsFile(n) /\ target[n] \notin SmallFiles
    \/ Kind(n) = "dir" /\ AcceptsDirectory(n) /\ target[n] \notin KnownPseudo /\ ~ Foreign(target[n])

TakeDirectory(w) ==
    /\ Walking /\ ~ signalled
    /\ frame[w] = Idle
    /\ \E d \in pending :
         /\ pending' = pending \ {d}
         /\ \/ frame' = [frame EXCEPT ![w] = Frame(d)] /\ UNCHANGED <<slot, lost>>
            \/ May("open") /\ OnError(w) /\ UNCHANGED frame
    /\ WorkerStep

ListName(w, n) ==
    /\ Walking /\ ~ signalled
    /\ n \in frame[w].left
    /\ frame' = [frame EXCEPT ![w].left = @ \ {n}]
    /\ WorkerStep

WorkerSkips(w, n) ==
    /\ ListName(w, n)
    /\ ~ Visible(n) \/ (Kind(n) # "missing" /\ ~ Filter(n))
    /\ UNCHANGED <<pending, slot, lost>>

WorkerRejects(w, n) ==
    /\ ListName(w, n)
    /\ Visible(n)
    /\ Kind(n) = "missing" \/ May("stat")
    /\ OnError(w)
    /\ UNCHANGED pending

WorkerVisits(w, n) ==
    /\ ListName(w, n)
    /\ Visible(n) /\ Kind(n) = "file" /\ Filter(n)
    /\ Visit(w, n)
    /\ UNCHANGED pending

(* A set will do for the queue: a directory has one name that is no link     *)
(* (ScenarioAssumption; there are no bind mounts), so one walk queues it     *)
(* once.                                                                     *)
WorkerQueues(w, n) ==
    /\ ListName(w, n)
    /\ Visible(n) /\ Kind(n) = "dir" /\ Filter(n)
    /\ pending' = pending \cup {target[n]}
    /\ UNCHANGED <<slot, lost>>

(* The directory is read to its end, or a signal or an error ends it. *)
CloseDirectory(w) ==
    /\ Walking
    /\ frame[w] # Idle
    /\ \/ (frame[w].left = {} \/ signalled) /\ UNCHANGED <<slot, lost>>
       \/ May("readdir") /\ OnError(w)
    /\ frame' = [frame EXCEPT ![w] = Idle]
    /\ UNCHANGED pending
    /\ WorkerStep

(* The call returns when nothing is queued or being listed. *)
EndWalk ==
    /\ Walking
    /\ \A w \in Workers : frame[w] = Idle
    /\ pending = {} \/ signalled
    /\ pc' = "paths"
    /\ pending' = {}
    /\ UNCHANGED <<given, next, paths, rootDevice, signalled, results, walk, frame, slot, merged, lost>>

(* bc_io_walk_parallel fails at the start or midway, and its result is thrown *)
(* away: what is queued or being listed is dropped, and nobody is told.      *)
WalkFails ==
    /\ Walking
    /\ May("walk")
    /\ pc' = "paths"
    /\ pending' = {}
    /\ frame' = [w \in Workers |-> Idle]
    /\ lost' = TRUE
    /\ UNCHANGED <<given, next, paths, rootDevice, signalled, results, walk, slot, merged>>

(* Mutant: a worker without an entry is passed over, its errors too. *)
MergeSkipsEmpty(w) ==
    /\ pc = "merge" /\ w \notin merged
    /\ merged' = merged \cup {w}
    /\ entries' = [x \in Items |-> entries[x] + slot[w].entries[x]]
    /\ printed' = IF slot[w].entries = NoEntries THEN printed ELSE printed + slot[w].errors
    /\ UNCHANGED <<given, cursor, rootDevice, signalled, errorCount, walk, pending, frame, slot, lost>>

(* bc_duplicate_walk_merge_worker_slot: a worker's entries join the entry    *)
(* vector; its errors are written to stderr but not counted by the collector *)
(* of the application.                                                       *)
Merge(w) ==
    /\ pc = "merge" /\ w \notin merged
    /\ merged' = merged \cup {w}
    /\ entries' = [x \in Items |-> entries[x] + slot[w].entries[x]]
    /\ printed' = printed + slot[w].errors
    /\ UNCHANGED <<given, cursor, rootDevice, signalled, errorCount, walk, pending, frame, slot, lost>>

EndMerge ==
    /\ pc = "merge" /\ merged = Workers
    /\ pc' = "done"
    /\ UNCHANGED <<given, next, paths, rootDevice, signalled, results, walk, pool>>

(* The run ends with exit code 1 and uses nothing of what was merged so far. *)
MergeFails ==
    /\ pc = "merge"
    /\ \E w \in Workers \ merged : slot[w].entries # NoEntries
    /\ May("memory")
    /\ pc' = "failed"
    /\ UNCHANGED <<given, next, paths, rootDevice, signalled, results, walk, pool>>

-----------------------------------------------------------------------------

Signal ==
    /\ May("signal")
    /\ ~ signalled /\ pc \notin {"done", "failed"}
    /\ signalled' = TRUE
    /\ UNCHANGED <<given, cursor, rootDevice, results, walk, pool>>

Ended == pc \in {"done", "failed"} /\ UNCHANGED vars

Main ==
    \/ SetupFails \/ NextInput \/ EndInputs \/ EndPaths
    \/ PathRejected \/ PathFile \/ PathPseudo \/ PathOpened \/ PathNotOpened \/ PathSpread \/ PathTooLong
    \/ EndDirectory \/ StopDirectory
    \/ \E n \in Names : HandleEntry(n)
    \/ EndWalk \/ WalkFails \/ (\E w \in Workers : Merge(w)) \/ EndMerge \/ MergeFails

Worker(w) ==
    \/ TakeDirectory(w) \/ CloseDirectory(w)
    \/ \E n \in Names : WorkerSkips(w, n) \/ WorkerRejects(w, n) \/ WorkerVisits(w, n) \/ WorkerQueues(w, n)

Next == Main \/ (\E w \in Workers : Worker(w)) \/ Signal \/ Ended

Spec == Init /\ [][Next]_vars

(* Neither the calling thread nor a worker stops for ever; signals are not   *)
(* owed to anybody.                                                          *)
FairSpec == Spec /\ WF_vars(Main) /\ \A w \in Workers : WF_vars(Worker(w))

-----------------------------------------------------------------------------
(* Properties *)

Found == {x \in Items : entries[x] > 0 \/ \E w \in Workers : slot[w].entries[x] > 0}
Trouble == errorCount > 0 \/ signalled \/ lost \/ \E w \in Workers : slot[w].errors > 0

(* Types, and the sequential walk has open directories exactly while it is   *)
(* inside one of the paths (bc_duplicate_walk_directory closes what it       *)
(* opened on every return).                                                  *)
TypeOK ==
    /\ mode \in {"sequential", "parallel"}
    /\ pc \in {"inputs", "paths", "walk", "merge", "done", "failed"}
    /\ next \in 1 .. Len(inputs) + 1 /\ paths \in Seq(Paths)
    /\ rootDevice \in Range(Device) \cup {None}
    /\ signalled \in BOOLEAN /\ lost \in BOOLEAN
    /\ entries \in [Items -> Nat] /\ errorCount \in Nat /\ printed \in Nat
    /\ stack \in Seq([dir : Dirs, left : SUBSET Names]) /\ visited \subseteq Dirs
    /\ stack # <<>> <=> pc = "walk" /\ mode = "sequential"
    /\ pending \subseteq Dirs
    /\ frame \in [Workers -> [dir : Dirs \cup {None}, left : SUBSET Names]]
    /\ slot \in [Workers -> [entries : [Items -> Nat], errors : Nat]]
    /\ merged \subseteq Workers
    /\ asked \subseteq Items

Abstract == INSTANCE FindFiles WITH
    wanted <- asked, found <- Found, trouble <- Trouble,
    status <- IF pc \in {"done", "failed"} THEN pc ELSE "running"

(* The directories on the command line are on one device, as far as          *)
(* --one-file-system is concerned.                                           *)
OneBoundary ==
    options.oneFs => \A q, r \in RootPositions : Device[target[PathAt(q)]] = Device[target[PathAt(r)]]

(* Both walks implement FindFiles: whatever the order of the names, the      *)
(* interleaving of the workers, the cycles of links and the calls that fail, *)
(* they list only files the command line asks for, and end well only with    *)
(* all of them or after trouble.  It holds of runs with OneBoundary; the     *)
(* others are the subject of StopsAtBoundariesOnly.                          *)
FindsWhatIsWanted == Abstract!Spec

(* Discovery ends, on trees with cyclic links and after a signal too.        *)
DiscoveryEnds == Abstract!Ends

(* The sequential walk lists a name once, though several paths and links may *)
(* lead to its directory (visited_directories): --match-hardlinks would      *)
(* report a second listing as a duplicate of the first.                      *)
SequentialListsOnce == mode = "sequential" => \A n \in Names : entries[n] <= 1

(* The parallel walk lists a name once for every path on the command line    *)
(* whose tree has it, however the workers shared the directories: it loses   *)
(* none, and overlapping arguments are the only way to list a name twice     *)
(* (it has no visited set).                                                  *)
ParallelListsPerPath ==
    mode = "parallel" /\ pc = "done" /\ ~ Trouble =>
        \A n \in Names :
            entries[n] = IF WantedName(n)
                         THEN Cardinality({q \in RootPositions : Parent[n] \in Reachable({target[PathAt(q)]})})
                         ELSE 0

(* A file that is missing from a successful discovery is explained on        *)
(* stderr.  In the sequential walk the collector of the application has an   *)
(* error or the run was interrupted, without exception.  In the parallel one *)
(* the merge may also have printed it, and there are two ways to lose a file *)
(* without a word, both recorded in lost: a callback without memory, and a   *)
(* failing bc_io_walk_parallel, whose result is discarded.                   *)
MissingFilesAreExplained ==
    pc = "done" /\ Found # asked =>
        \/ errorCount > 0 \/ signalled
        \/ mode = "parallel" /\ (printed > 0 \/ lost)

(* --one-file-system keeps a walk from crossing a boundary between file      *)
(* systems, and from nothing else.  It fails when the arguments are on       *)
(* different devices: every walk compares with the device of the first one.  *)
StopsAtBoundariesOnly ==
    /\ Found \subseteq asked
    /\ pc = "done" /\ ~ Trouble => Found = asked
=============================================================================
