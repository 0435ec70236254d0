--------------------------- MODULE ThroughputCache ---------------------------
(***************************************************************************)
(* The cache of throughput constants (bench/bc_duplicate_throughput_cache.c) *)
(* as runs of the program on several hosts share it in one home directory.  *)
(* A run loads the file, accepts it when it holds every constant and the    *)
(* signature of the host, and otherwise measures and writes the file in     *)
(* place: open with O_TRUNC, then one write from offset 0.  Nothing locks   *)
(* the file, so the steps of several runs interleave.                       *)
(*                                                                         *)
(* The text is a sequence of cells, each a line or a fragment of one: the   *)
(* signature takes SignatureLength cells, of which the first carries the    *)
(* key, and every constant takes one.  A constant is represented by the     *)
(* signature of the host that measured it.                                  *)
(***************************************************************************)
EXTENDS Integers, Sequences, FiniteSets

CONSTANTS
    Processes,
    Hosts,
    HostOf,            \* the host each process runs on
    Pathless,          \* processes with neither XDG_CACHE_HOME nor HOME
    Signatures,        \* CPU model, microcode and kernel release together
    SignatureLength,   \* how much of the file each of them takes
    Unreadable,        \* /proc/cpuinfo has no "model name"
    Constants,         \* how many constants there are (six in the code)
    MaxFaults,         \* bound on crashes and failing calls
    MaxUpgrades        \* bound on changes of a host's signature

ASSUME HostAssumption == HostOf \in [Processes -> Hosts] /\ Pathless \subseteq Processes
ASSUME SignatureAssumption ==
    /\ SignatureLength \in [Signatures -> Nat \ {0}]
    /\ Unreadable \notin Signatures
ASSUME CountsAssumption == Constants \in Nat \ {0} /\ MaxFaults \in Nat /\ MaxUpgrades \in Nat

VARIABLES
    directory,    \* "none", "parent" (only ~/.cache) or "ready"
    exists,       \* the cache file is there
    file,         \* its text
    signature,    \* what read_host_signature finds on each host
    pc,           \* where each process is in get_or_measure
    got,          \* what its load has read so far
    faults,
    upgrades,
    foreign,      \* auxiliary: a tail of another host's text is in the file
    tainted,      \* auxiliary: the load saw such a tail, or two versions of the file
    served        \* auxiliary: no reason to measure since the run began

vars == <<directory, exists, file, signature, pc, got, faults, upgrades, foreign, tainted, served>>

environment == <<signature, upgrades>>

-----------------------------------------------------------------------------
(* The text *)

Fragment == -1
Keys == 0 .. Constants     \* 0 is the signature
Cell == [key : Keys \cup {Fragment}, by : Signatures]

(* Mutant: the last constant is not written. *)
TextDropsLast(s) ==
    [i \in 1 .. SignatureLength[s] |-> [key |-> IF i = 1 THEN 0 ELSE Fragment, by |-> s]]
        \o [k \in 1 .. Constants - 1 |-> [key |-> k, by |-> s]]

(* What a store of a host with signature s writes. *)
Text(s) ==
    [i \in 1 .. SignatureLength[s] |-> [key |-> IF i = 1 THEN 0 ELSE Fragment, by |-> s]]
        \o [k \in 1 .. Constants |-> [key |-> k, by |-> s]]

(* What of a text lies behind offset n: it need not begin with a whole line. *)
Behind(text, n, aligned) ==
    LET rest == SubSeq(text, n + 1, Len(text))
    IN  IF aligned \/ n = 0 \/ rest = <<>> THEN rest ELSE [rest EXCEPT ![1].key = Fragment]

(* Lines with the key k; the last one wins. *)
Lines(text, k) == {i \in 1 .. Len(text) : text[i].key = k}
Value(text, k) == text[CHOOSE i \in Lines(text, k) : \A j \in Lines(text, k) : j <= i].by

(* Mutant: the signature is not compared. *)
AcceptsAnyHost(text, s) == \A k \in Keys : Lines(text, k) # {}

(* Every constant was found, and the signature is that of this host. *)
Accepts(text, s) ==
    /\ \A k \in Keys : Lines(text, k) # {}
    /\ Value(text, 0) = s

Here(p) == signature[HostOf[p]]

-----------------------------------------------------------------------------
Init ==
    /\ directory \in {"none", "parent", "ready"}
    /\ \/ exists = FALSE /\ file = <<>>
       \/ exists = TRUE /\ directory = "ready" /\ file \in {Text(s) : s \in Signatures}
    /\ signature \in [Hosts -> Signatures \cup {Unreadable}]
    /\ pc = [p \in Processes |-> "idle"]
    /\ got = [p \in Processes |-> <<>>]
    /\ faults = 0
    /\ upgrades = 0
    /\ foreign = FALSE
    /\ tainted = [p \in Processes |-> FALSE]
    /\ served = [p \in Processes |-> FALSE]

Storing == {p \in Processes : pc[p] = "write"}

-----------------------------------------------------------------------------
(* bc_duplicate_throughput_get_or_measure *)

(* A run asks for the constants; without a path it measures at once. *)
Start(p) ==
    /\ pc[p] = "idle"
    /\ pc' = [pc EXCEPT ![p] = IF p \in Pathless THEN "measure" ELSE "open"]
    /\ served' = [served EXCEPT ![p] =
            /\ p \notin Pathless /\ Here(p) # Unreadable
            /\ exists /\ Storing = {} /\ file = Text(Here(p))]
    /\ UNCHANGED <<directory, exists, file, got, faults, foreign, tainted, environment>>

(* The caller has its constants, loaded or measured. *)
Return(p) ==
    /\ pc' = [pc EXCEPT ![p] = "idle"]
    /\ got' = [got EXCEPT ![p] = <<>>]
    /\ tainted' = [tainted EXCEPT ![p] = FALSE]
    /\ served' = [served EXCEPT ![p] = FALSE]

Use(p) ==
    /\ pc[p] = "hit"
    /\ Return(p)
    /\ UNCHANGED <<directory, exists, file, faults, foreign, environment>>

-----------------------------------------------------------------------------
(* bc_duplicate_throughput_cache_load *)

LoadOpen(p) ==
    /\ pc[p] = "open"
    /\ pc' = [pc EXCEPT ![p] = IF exists THEN "load" ELSE "measure"]
    /\ UNCHANGED <<directory, exists, file, got, faults, foreign, tainted, served, environment>>

(* read() returns what there is behind the reader's offset: the text fits    *)
(* the reader's buffer of 512 bytes.                                         *)
LoadRead(p) ==
    /\ pc[p] = "load"
    /\ Len(file) > Len(got[p])
    /\ \E aligned \in BOOLEAN :
           got' = [got EXCEPT ![p] = @ \o Behind(file, Len(@), aligned)]
    /\ tainted' = [tainted EXCEPT ![p] = @ \/ foreign \/ got[p] # <<>>]
    /\ UNCHANGED <<directory, exists, file, pc, faults, foreign, served, environment>>

(* The end of the file: the lines are judged. *)
LoadEnd(p) ==
    /\ pc[p] = "load"
    /\ Len(file) <= Len(got[p])
    /\ IF Accepts(got[p], Here(p))
       THEN /\ pc' = [pc EXCEPT ![p] = "hit"]
            /\ UNCHANGED <<got, tainted>>
       ELSE /\ pc' = [pc EXCEPT ![p] = "measure"]
            /\ got' = [got EXCEPT ![p] = <<>>]
            /\ tainted' = [tainted EXCEPT ![p] = FALSE]
    /\ UNCHANGED <<directory, exists, file, faults, foreign, served, environment>>

-----------------------------------------------------------------------------
(* bc_duplicate_throughput_measure, seen from outside, then                  *)
(* bc_duplicate_throughput_cache_store; what the store returns is ignored    *)

Measure(p) ==
    /\ pc[p] = "measure"
    /\ IF p \in Pathless
       THEN Return(p)
       ELSE /\ pc' = [pc EXCEPT ![p] = "store"]
            /\ UNCHANGED <<got, tainted, served>>
    /\ UNCHANGED <<directory, exists, file, faults, foreign, environment>>

(* Mutant: mkdir of a directory that is there already counts as a failure. *)
DirectoryFailsIfThere == directory = "parent"

(* ensure_parent_directory: one mkdir, EEXIST is as good; it fails when the  *)
(* directory above is missing.                                              *)
DirectoryEnsured == directory # "none"

(* No directory, or no signature to write: nothing is stored. *)
StoreGivesUp(p) ==
    /\ pc[p] = "store"
    /\ ~ DirectoryEnsured \/ Here(p) = Unreadable
    /\ directory' = IF DirectoryEnsured THEN "ready" ELSE directory
    /\ Return(p)
    /\ UNCHANGED <<exists, file, faults, foreign, environment>>

(* Mutant: the file is created without its directory. *)
StoreOpenSkipsMkdir(p) ==
    /\ pc[p] = "store"
    /\ DirectoryEnsured
    /\ Here(p) # Unreadable
    /\ exists' = TRUE
    /\ file' = <<>>
    /\ foreign' = FALSE
    /\ pc' = [pc EXCEPT ![p] = "write"]
    /\ served' = [q \in Processes |-> FALSE]
    /\ UNCHANGED <<directory, got, faults, tainted, environment>>

(* O_CREAT and O_TRUNC: from here to the write the file is empty. *)
StoreOpen(p) ==
    /\ pc[p] = "store"
    /\ DirectoryEnsured
    /\ Here(p) # Unreadable
    /\ directory' = "ready"
    /\ exists' = TRUE
    /\ file' = <<>>
    /\ foreign' = FALSE
    /\ pc' = [pc EXCEPT ![p] = "write"]
    /\ served' = [q \in Processes |-> FALSE]
    /\ UNCHANGED <<got, faults, tainted, environment>>

(* The writer is flushed: one write from offset 0.  Another store may have  *)
(* written since the open, and what is longer of its text stays.            *)
StoreWrite(p) ==
    LET text == Text(Here(p))
    IN  /\ pc[p] = "write"
        /\ \E aligned \in BOOLEAN : file' = text \o Behind(file, Len(text), aligned)
        /\ foreign' = (Len(file) > Len(text))
        /\ Return(p)
        /\ UNCHANGED <<directory, exists, faults, environment>>

-----------------------------------------------------------------------------
(* What can go wrong *)

(* The run is killed, or one of the calls of the measurement or of the store *)
(* fails: the process is gone or goes on without the cache.  A file it has   *)
(* opened for writing stays empty.                                          *)
Fail(p) ==
    /\ pc[p] # "idle"
    /\ faults < MaxFaults
    /\ faults' = faults + 1
    /\ Return(p)
    /\ UNCHANGED <<directory, exists, file, foreign, environment>>

(* The load cannot open the file, or has no buffer to read it with. *)
LoadFails(p) ==
    /\ pc[p] = "open"
    /\ faults < MaxFaults
    /\ faults' = faults + 1
    /\ pc' = [pc EXCEPT ![p] = "measure"]
    /\ served' = [served EXCEPT ![p] = FALSE]
    /\ UNCHANGED <<directory, exists, file, got, foreign, tainted, environment>>

(* A new kernel or microcode, after a reboot. *)
Upgrade(h) ==
    /\ upgrades < MaxUpgrades
    /\ \A p \in Processes : HostOf[p] = h => pc[p] = "idle"
    /\ signature[h] # Unreadable
    /\ \E s \in Signatures \ {signature[h]} : signature' = [signature EXCEPT ![h] = s]
    /\ upgrades' = upgrades + 1
    /\ UNCHANGED <<directory, exists, file, pc, got, faults, foreign, tainted, served>>

(* Some other program makes ~/.cache. *)
ParentAppears ==
    /\ directory = "none"
    /\ directory' = "parent"
    /\ UNCHANGED <<exists, file, pc, got, faults, foreign, tainted, served, environment>>

Run(p) ==
    \/ LoadOpen(p)
    \/ LoadRead(p)
    \/ LoadEnd(p)
    \/ Use(p)
    \/ Measure(p)
    \/ StoreGivesUp(p)
    \/ StoreOpen(p)
    \/ StoreWrite(p)

Next ==
    \/ \E p \in Processes : Start(p) \/ Run(p) \/ Fail(p) \/ LoadFails(p)
    \/ \E h \in Hosts : Upgrade(h)
    \/ ParentAppears

Spec == Init /\ [][Next]_vars

(* A run that has begun goes on; nobody need start one. *)
FairSpec == Spec /\ \A p \in Processes : WF_vars(Run(p))

-----------------------------------------------------------------------------
(* Properties *)

(* Types; a file is never there without its directory; and a run that has    *)
(* returned leaves nothing of its load behind.                               *)
TypeOK ==
    /\ directory \in {"none", "parent", "ready"}
    /\ exists \in BOOLEAN /\ (exists => directory = "ready")
    /\ file \in Seq(Cell) /\ (~ exists => file = <<>>)
    /\ signature \in [Hosts -> Signatures \cup {Unreadable}]
    /\ pc \in [Processes -> {"idle", "open", "load", "hit", "measure", "store", "write"}]
    /\ got \in [Processes -> Seq(Cell)]
    /\ faults \in 0 .. MaxFaults
    /\ upgrades \in 0 .. MaxUpgrades
    /\ foreign \in BOOLEAN
    /\ tainted \in [Processes -> BOOLEAN]
    /\ served \in [Processes -> BOOLEAN]
    /\ \A p \in Processes : pc[p] \notin {"load", "hit"} => got[p] = <<>> /\ ~ tainted[p]

(* A run decides with constants measured under the signature its own host   *)
(* has now, whoever stored them and whatever crashed, was upgraded or        *)
(* overwrote the file in between.  The one way round it is the one the code  *)
(* leaves open: a store or a load that overlaps another store, whose longer  *)
(* text shows behind the shorter one.                                       *)
LoadedValuesAreLocal ==
    \A p \in Processes :
        pc[p] = "hit" /\ ~ tainted[p] => \A k \in 1 .. Constants : Value(got[p], k) = Here(p)

(* "so subsequent runs reuse them" (README.md): a run that begins when the   *)
(* last store left the constants of its host, and that no other store        *)
(* overlaps, does not measure again.                                         *)
CompleteCacheIsReused ==
    \A p \in Processes : pc[p] \in {"measure", "store", "write"} => ~ served[p]

(* Whatever was left behind - no file, an empty one after a crash, the       *)
(* constants of another kernel, the remains of overlapping stores - runs of  *)
(* one process alone stop measuring, provided ~/.cache is there.             *)
CacheHeals ==
    \A p \in Processes \ Pathless :
        /\ <>[](\A q \in Processes \ {p} : pc[q] = "idle")
        /\ <>[](directory # "none" /\ Here(p) # Unreadable)
        => <>[](pc[p] # "measure")
=============================================================================
