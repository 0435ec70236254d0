--------------------------- MODULE DiscoveryProofs ---------------------------
(***************************************************************************)
(* Proofs about Discovery, for every file tree, every command line and any  *)
(* number of workers: both walks implement FindFiles.                       *)
(***************************************************************************)
EXTENDS Discovery, FiniteLemmas

-----------------------------------------------------------------------------
(* The inductive invariant *)

(* The tree and the command line are those of a scenario. *)
GivenInv == \E s \in Scenarios : target = s.target /\ inputs = s.inputs /\ options = s.options

(* The paths of the input that is being processed. *)
Current == inputs[next - 1].paths

(* paths is the rest of them; the main thread is past the inputs only when   *)
(* there are no more or a signal came.                                       *)
CursorInv ==
    /\ pc \notin {"paths", "walk"} => paths = <<>>
    /\ pc \in {"paths", "walk"} =>
         /\ next >= 2 /\ Len(paths) <= Len(Current)
         /\ \A j \in 1 .. Len(paths) : paths[j] = Current[Len(Current) - Len(paths) + j]
    /\ pc = "merge" => mode = "parallel"
    /\ pc \in {"merge", "done"} => next > Len(inputs) \/ signalled

(* The positions on the command line that are still to come, and the others. *)
ToCome(q) == q[1] >= next \/ (q[1] = next - 1 /\ q[2] > Len(inputs[q[1]].paths) - Len(paths))
Handled == {q \in Positions : ~ ToCome(q)}

(* Names of open directories that are not read yet. *)
LeftOver == (UNION {stack[i].left : i \in DOMAIN stack}) \cup (UNION {frame[w].left : w \in Workers})

(* The device of --one-file-system is that of a directory on the command     *)
(* line, and it is known while one is walked.                                *)
DeviceInv ==
    /\ pc = "walk" => rootDevice # None
    /\ rootDevice # None => \E q \in RootPositions : rootDevice = Device[target[PathAt(q)]]

(* What the whole command line reaches. *)
Roots == {target[PathAt(q)] : q \in RootPositions}
Reached == Reachable(Roots)

(* Only what is asked for is found, and only what is reachable is looked at. *)
SoundInv ==
    /\ asked = Wanted
    /\ Found \subseteq asked
    /\ pending \subseteq Reached
    /\ \A n \in LeftOver : Parent[n] \in Reached

(* The sequential walk has no workers, and opens a directory once: the open   *)
(* ones are different, all are in the visited set, and a listed name is not  *)
(* to be read again.                                                         *)
SequentialInv ==
    mode = "sequential" =>
        /\ ~ lost
        /\ \A w \in Workers : frame[w] = Idle /\ slot[w] = [entries |-> NoEntries, errors |-> 0]
        /\ \A i \in DOMAIN stack : stack[i].dir \in visited /\ stack[i].left \subseteq Listing(stack[i].dir)
        /\ \A i, j \in DOMAIN stack : stack[i].dir = stack[j].dir => i = j
        /\ \A n \in Names : entries[n] <= 1 /\ (entries[n] > 0 => Parent[n] \in visited /\ n \notin LeftOver)

(* Without trouble the visited set is closed but for the names left over: it  *)
(* is how the depth-first search covers what is reachable, cycles included.   *)
Settled(n) == (WantedName(n) => entries[n] > 0) /\ (Followed(n) => target[n] \in visited)
SequentialComplete ==
    mode = "sequential" /\ ~ Trouble =>
        /\ \A n \in Names : Parent[n] \in visited \ KnownPseudo => n \in LeftOver \/ Settled(n)
        /\ \A q \in Handled : /\ BigFile(PathAt(q)) => PathAt(q) \in Found
                              /\ q \in RootPositions => target[PathAt(q)] \in visited

(* The parallel walk of a path ends with nothing queued or open, and the     *)
(* merge prints the errors of the workers it has been through.               *)
ParallelInv ==
    mode = "parallel" =>
        /\ pc # "walk" => pending = {} /\ \A w \in Workers : frame[w] = Idle
        /\ merged # {} => pc \in {"merge", "done", "failed"}
        /\ pc = "done" => merged = Workers
        /\ \A w \in merged : slot[w].errors > 0 => printed > 0

(* There is no visited set here: without trouble a wanted file of a path that *)
(* was given is found, or its directory can still be reached from what is     *)
(* queued or from a name left over.                                           *)
Work == pending \cup {target[n] : n \in {m \in LeftOver : Followed(m)}}
ParallelComplete ==
    mode = "parallel" /\ ~ Trouble =>
        \A q \in Handled :
            /\ BigFile(PathAt(q)) => PathAt(q) \in Found
            /\ q \in RootPositions =>
                   \A n \in Names : WantedName(n) /\ Parent[n] \in Reachable({target[PathAt(q)]}) =>
                       n \in Found \/ n \in LeftOver \/ Parent[n] \in Reachable(Work)

(* What holds of every run. *)
CoreInv ==
    /\ TypeOK
    /\ GivenInv
    /\ CursorInv
    /\ DeviceInv
    /\ SequentialInv

(* What holds of the runs whose arguments are on one device. *)
IndInv ==
    /\ TypeOK
    /\ GivenInv
    /\ CursorInv
    /\ DeviceInv
    /\ SequentialInv
    /\ OneBoundary
    /\ SoundInv
    /\ SequentialComplete
    /\ ParallelInv
    /\ ParallelComplete

-----------------------------------------------------------------------------
(* The tree and the command line *)

LEMMA GivenFacts ==
    ASSUME GivenInv
    PROVE  /\ target \in [Items -> Dirs \cup Regs \cup {Gone, Special}]
           /\ inputs \in Seq([glob : BOOLEAN, paths : Seq(Paths)])
           /\ options.include \in PatternLists /\ options.exclude \in PatternLists
  <1>1. PICK s \in Scenarios : target = s.target /\ inputs = s.inputs /\ options = s.options
    BY DEF GivenInv
  <1>2. /\ s.target \in [Items -> Dirs \cup Regs \cup {Gone, Special}]
        /\ s.inputs \in Seq([glob : BOOLEAN, paths : Seq(Paths)])
        /\ s.options \in [follow : BOOLEAN, oneFs : BOOLEAN, hidden : BOOLEAN,
                          include : PatternLists, exclude : PatternLists]
    BY ScenarioAssumption
  <1>3. s.options.include \in PatternLists /\ s.options.exclude \in PatternLists
    BY <1>2
  <1> QED BY <1>1, <1>2, <1>3

LEMMA KindFacts ==
    ASSUME NEW x
    PROVE  /\ Kind(x) = "dir" => target[x] \in Dirs
           /\ Kind(x) = "file" => target[x] \in Regs
           /\ Kind(x) \in {"link", "dir", "file", "missing", "other"}
  <1>1. /\ ~ (target[x] \in Dirs /\ target[x] \in Regs)
        /\ ~ (target[x] \in Dirs /\ target[x] = Gone)
        /\ ~ (target[x] \in Regs /\ target[x] = Gone)
    BY TreeAssumption
  <1> QED BY <1>1 DEF Kind

(* A path on the command line. *)
LEMMA PositionFacts ==
    ASSUME GivenInv, NEW q
    PROVE  /\ q \in Positions <=> \E i \in 1 .. Len(inputs) : \E k \in 1 .. Len(inputs[i].paths) : q = <<i, k>>
           /\ q \in Positions => PathAt(q) \in Paths
           /\ q \in RootPositions => q \in Positions /\ target[PathAt(q)] \in Dirs \ KnownPseudo
  <1>1. inputs \in Seq([glob : BOOLEAN, paths : Seq(Paths)])
    BY GivenFacts
  <1>2. DOMAIN inputs = 1 .. Len(inputs) /\ \A i \in DOMAIN inputs : inputs[i].paths \in Seq(Paths)
    <2>1. /\ DOMAIN inputs = 1 .. Len(inputs)
          /\ \A i \in DOMAIN inputs : inputs[i] \in [glob : BOOLEAN, paths : Seq(Paths)]
      <3> DEFINE T == [glob : BOOLEAN, paths : Seq(Paths)]
      <3>1. inputs \in Seq(T)
        BY <1>1
      <3> HIDE DEF T
      <3>2. DOMAIN inputs = 1 .. Len(inputs) /\ \A i \in DOMAIN inputs : inputs[i] \in T
        BY <3>1
      <3> QED BY <3>2 DEF T
    <2>2. \A r \in [glob : BOOLEAN, paths : Seq(Paths)] : r.paths \in Seq(Paths)
      OBVIOUS
    <2> QED BY <2>1, <2>2
  <1>3. \A i \in DOMAIN inputs : DOMAIN inputs[i].paths = 1 .. Len(inputs[i].paths)
    BY <1>2
  <1>4. q \in Positions <=> \E i \in DOMAIN inputs : \E k \in DOMAIN inputs[i].paths : q = <<i, k>>
    <2>1. q \in Positions <=> \E i \in DOMAIN inputs : q \in {i} \X DOMAIN inputs[i].paths
      BY DEF Positions
    <2>2. \A i \in DOMAIN inputs :
            q \in {i} \X DOMAIN inputs[i].paths <=> \E k \in DOMAIN inputs[i].paths : q = <<i, k>>
      OBVIOUS
    <2> QED BY <2>1, <2>2
  <1>5. q \in Positions => PathAt(q) \in Paths
    BY <1>2, <1>4 DEF PathAt
  <1>6. q \in RootPositions => q \in Positions /\ target[PathAt(q)] \in Dirs \ KnownPseudo
    BY KindFacts DEF RootPositions
  <1> QED BY <1>2, <1>3, <1>4, <1>5, <1>6

-----------------------------------------------------------------------------
(* The filter *)

(* Splitting a list at its newlines and matching the pieces finds a name     *)
(* exactly when a pattern of the list matches it.                            *)
LEMMA SplitMatches ==
    ASSUME NEW list \in PatternLists, NEW x
    PROVE  /\ MatchesAny(Patterns(list), x) <=> Listed(list, x)
           /\ Patterns(list) = {} <=> list = <<>>
  <1> DEFINE cuts == {0, Len(list) + 1} \cup {i \in 1 .. Len(list) : list[i] = Newline}
             pairs == {c \in cuts \X cuts : c[1] < c[2] /\ ~ \E k \in cuts : c[1] < k /\ k < c[2]}
             piece(c) == SubSeq(list, c[1] + 1, c[2] - 1)
  <1>1. /\ list \in Seq(DOMAIN Matching \cup {Newline}) /\ Len(list) \in Nat /\ DOMAIN list = 1 .. Len(list)
        /\ \A i \in 1 .. Len(list) - 1 : list[i] = Newline \/ list[i + 1] = Newline
    BY DEF PatternLists
  <1>2. Patterns(list) = IF list = <<>> THEN {} ELSE {piece(c) : c \in pairs}
    BY DEF Patterns
  <1>3. list # <<>> => \A p : p \in Patterns(list) <=> \E c \in pairs : p = piece(c)
    <2> HIDE DEF pairs, piece
    <2> QED BY <1>2
  <1>4. CASE list = <<>>
    BY <1>2, <1>4 DEF MatchesAny, Listed
  <1>5. CASE list # <<>>
    <2>1. ASSUME NEW i \in DOMAIN list, list[i] # Newline, x \in Matching[list[i]]
          PROVE  MatchesAny(Patterns(list), x)
      <3>1. i \in 1 .. Len(list)
        BY <1>1
      <3>2. i - 1 \in cuts
        BY <1>1, <2>1, <3>1
      <3>3. i + 1 \in cuts
        BY <1>1, <2>1, <3>1
      <3>4. i \notin cuts
        BY <1>1, <2>1, <3>1
      <3>5. \A k \in cuts : k \in Int
        BY <1>1
      <3> DEFINE c == <<i - 1, i + 1>>
      <3>6. c \in pairs
        <4>1. c \in cuts \X cuts /\ c[1] < c[2] /\ c[1] = i - 1 /\ c[2] = i + 1
          BY <3>1, <3>2, <3>3
        <4>2. ~ \E k \in cuts : i - 1 < k /\ k < i + 1
          BY <3>1, <3>4, <3>5
        <4> QED BY <4>1, <4>2
      <3>7. piece(c) = SubSeq(list, i, i)
        BY <3>1
      <3>8. piece(c) # <<>> /\ piece(c)[1] = list[i]
        BY <1>1, <3>1, <3>7
      <3>9. piece(c) \in Patterns(list)
        <4> HIDE DEF pairs, piece, c
        <4> QED BY <1>5, <1>3, <3>6
      <3> QED BY <2>1, <3>8, <3>9 DEF MatchesAny
    <2>2. ASSUME NEW c \in pairs, piece(c) # <<>>, x \in Matching[piece(c)[1]]
          PROVE  Listed(list, x)
      <3>1. PICK a \in cuts, b \in cuts : c = <<a, b>> /\ a < b /\ ~ \E k \in cuts : a < k /\ k < b
        <4> HIDE DEF cuts
        <4>1. c \in cuts \X cuts /\ c[1] < c[2] /\ ~ \E k \in cuts : c[1] < k /\ k < c[2]
          BY <2>2
        <4>2. c[1] \in cuts /\ c[2] \in cuts /\ c = <<c[1], c[2]>>
          BY <4>1
        <4> QED BY <4>1, <4>2
      <3>2. a \in 0 .. Len(list) + 1 /\ b \in 0 .. Len(list) + 1
        BY <1>1
      <3>3. piece(c) = SubSeq(list, a + 1, b - 1)
        BY <3>1
      <3>4. a + 1 < b
        BY <1>1, <2>2, <3>1, <3>2, <3>3
      <3>5. piece(c)[1] = list[a + 1] /\ a + 1 \in DOMAIN list
        BY <1>1, <3>2, <3>3, <3>4
      <3>6. a + 1 \notin cuts
        BY <3>1, <3>2, <3>4
      <3>7. list[a + 1] # Newline
        BY <1>1, <3>5, <3>6
      <3> QED BY <2>2, <3>5, <3>7 DEF Listed
    <2>3. pairs # {}
      <3>1. CASE 1 \in cuts
        <4>1. <<0, 1>> \in pairs
          BY <1>1, <3>1
        <4> QED BY <4>1
      <3>2. CASE 1 \notin cuts
        <4>1. 1 \in DOMAIN list /\ list[1] # Newline
          BY <1>1, <1>5, <3>2
        <4>2. 2 \in cuts
          BY <1>1, <4>1
        <4>3. <<0, 2>> \in pairs
          <5>1. \A k \in cuts : k \in Int
            BY <1>1
          <5> QED BY <3>2, <4>2, <5>1
        <4> QED BY <4>3
      <3> QED BY <3>1, <3>2
    <2>4. Patterns(list) # {}
      <3> HIDE DEF pairs, piece
      <3> QED BY <1>5, <1>3, <2>3
    <2>5. MatchesAny(Patterns(list), x) => Listed(list, x)
      <3> HIDE DEF pairs, piece
      <3> QED BY <1>5, <1>3, <2>2 DEF MatchesAny
    <2>6. Listed(list, x) => MatchesAny(Patterns(list), x)
      BY <2>1 DEF Listed
    <2> QED BY <1>5, <2>4, <2>5, <2>6
  <1> QED BY <1>4, <1>5

LEMMA FilterFacts ==
    ASSUME GivenInv, NEW x
    PROVE  /\ AcceptsDirectory(x) <=> ~ Listed(options.exclude, x)
           /\ AcceptsFile(x) <=> /\ ~ Listed(options.exclude, x)
                                 /\ options.include = <<>> \/ Listed(options.include, x)
  <1>1. options.include \in PatternLists /\ options.exclude \in PatternLists
    BY GivenFacts
  <1>2. /\ MatchesAny(Patterns(options.exclude), x) <=> Listed(options.exclude, x)
        /\ Patterns(options.exclude) = {} <=> options.exclude = <<>>
        /\ MatchesAny(Patterns(options.include), x) <=> Listed(options.include, x)
        /\ Patterns(options.include) = {} <=> options.include = <<>>
    BY <1>1, SplitMatches
  <1>3. options.exclude = <<>> => ~ Listed(options.exclude, x)
    BY DEF Listed
  <1> QED BY <1>2, <1>3 DEF AcceptsDirectory, AcceptsFile

-----------------------------------------------------------------------------
(* What can be reached *)

LEMMA ReachContains ==
    ASSUME NEW R \in SUBSET Dirs
    PROVE  R \subseteq Reachable(R) /\ Reachable(R) \in SUBSET Dirs
  BY DEF Reachable

LEMMA ReachStep ==
    ASSUME NEW R, NEW n \in Names, Followed(n), Parent[n] \in Reachable(R)
    PROVE  target[n] \in Reachable(R)
  <1>1. target[n] \in Dirs
    BY KindFacts DEF Followed
  <1> QED BY <1>1 DEF Reachable

LEMMA ReachLeast ==
    ASSUME NEW R, NEW S \in SUBSET Dirs, R \subseteq S,
           \A n \in Names : Followed(n) /\ Parent[n] \in S => target[n] \in S
    PROVE  Reachable(R) \subseteq S
  BY DEF Reachable

LEMMA ReachWithin ==
    ASSUME NEW R, NEW Q \in SUBSET Dirs, R \subseteq Reachable(Q)
    PROVE  Reachable(R) \subseteq Reachable(Q)
  <1> DEFINE S == Reachable(Q)
  <1>1. S \in SUBSET Dirs
    BY ReachContains
  <1>2. \A n \in Names : Followed(n) /\ Parent[n] \in S => target[n] \in S
    BY ReachStep
  <1>3. R \subseteq S
    OBVIOUS
  <1> HIDE DEF S
  <1>4. Reachable(R) \subseteq S
    BY <1>1, <1>2, <1>3, ReachLeast
  <1> QED BY <1>4 DEF S

(* Opening the directory d replaces it by the names in it. *)
LEMMA ReachOpened ==
    ASSUME NEW W \in SUBSET Dirs, NEW V \in SUBSET Dirs, NEW d \in Dirs,
           W \ {d} \subseteq V,
           \A n \in Names : Followed(n) /\ Parent[n] = d => target[n] \in V
    PROVE  Reachable(W) \subseteq Reachable(V) \cup {d}
  <1> DEFINE S == Reachable(V) \cup {d}
  <1>1. V \subseteq Reachable(V) /\ Reachable(V) \in SUBSET Dirs
    BY ReachContains
  <1>2. S \in SUBSET Dirs /\ W \subseteq S
    BY <1>1
  <1>3. \A n \in Names : Followed(n) /\ Parent[n] \in S => target[n] \in S
    BY <1>1, ReachStep
  <1> HIDE DEF S
  <1>4. Reachable(W) \subseteq S
    BY <1>2, <1>3, ReachLeast
  <1> QED BY <1>4 DEF S

(* What the tree and the command line say does not change during the walk;   *)
(* nor does what can be reached.                                             *)
LEMMA SameGiven ==
    ASSUME UNCHANGED given
    PROVE  /\ \A x : Kind(x)' = Kind(x) /\ Visible(x)' = Visible(x)
           /\ \A x : BigFile(x)' = BigFile(x) /\ WantedName(x)' = WantedName(x)
           /\ Positions' = Positions
           /\ \A q : PathAt(q)' = PathAt(q)
           /\ RootPositions' = RootPositions
           /\ Roots' = Roots
           /\ KnownPseudo' = KnownPseudo
           /\ OneBoundary' = OneBoundary
           /\ asked' = asked
  <1>0. /\ target' = target /\ inputs' = inputs /\ options' = options /\ asked' = asked
        /\ KnownPseudo' = KnownPseudo
    BY DEF given, KnownPseudo
  <1>1. \A x : Kind(x)' = Kind(x) /\ Visible(x)' = Visible(x)
    BY <1>0 DEF Kind, Visible
  <1>2. \A x : BigFile(x)' = BigFile(x)
    BY <1>0, <1>1 DEF BigFile
  <1>3. \A x : WantedName(x)' = WantedName(x)
    BY <1>0, <1>1, <1>2 DEF WantedName
  <1>4. Positions' = Positions /\ \A q : PathAt(q)' = PathAt(q)
    BY <1>0 DEF Positions, PathAt
  <1>5. RootPositions' = RootPositions
    BY <1>0, <1>1, <1>4 DEF RootPositions
  <1>6. Roots' = Roots
    BY <1>0, <1>4, <1>5 DEF Roots
  <1>7. OneBoundary' = OneBoundary
    BY <1>0, <1>4, <1>5 DEF OneBoundary
  <1> QED BY <1>0, <1>1, <1>2, <1>3, <1>4, <1>5, <1>6, <1>7

LEMMA SameReach ==
    ASSUME UNCHANGED given
    PROVE  /\ \A n : Followed(n)' = Followed(n)
           /\ \A R : Reachable(R)' = Reachable(R)
           /\ Reached' = Reached
           /\ Wanted' = Wanted
  <1>0. target' = target /\ inputs' = inputs /\ options' = options
    BY DEF given
  <1>1. \A n : Followed(n)' = Followed(n)
    BY <1>0, SameGiven DEF Followed
  <1>2. \A R : Reachable(R)' = Reachable(R)
    BY <1>0, <1>1 DEF Reachable
  <1>3. Reached' = Reached
    BY <1>2, SameGiven DEF Reached
  <1>4. Wanted' = Wanted
    <2>1. /\ Wanted = {x \in {PathAt(q) : q \in Positions} : BigFile(x)}
                         \cup {n \in Names : Parent[n] \in Reached /\ WantedName(n)}
          /\ Wanted' = {x \in {PathAt(q)' : q \in Positions'} : BigFile(x)'}
                         \cup {n \in Names : Parent[n] \in Reached' /\ WantedName(n)'}
      BY DEF Wanted, Reached, Roots
    <2> QED BY <1>3, <2>1, SameGiven
  <1> QED BY <1>1, <1>2, <1>3, <1>4

-----------------------------------------------------------------------------
(* The cursor on the command line *)

LEMMA CursorTypes ==
    ASSUME TypeOK, GivenInv
    PROVE  /\ next \in Nat /\ next >= 1 /\ next <= Len(inputs) + 1 /\ Len(inputs) \in Nat
           /\ paths \in Seq(Paths) /\ Len(paths) \in Nat
           /\ \A i \in 1 .. Len(inputs) : inputs[i].paths \in Seq(Paths) /\ Len(inputs[i].paths) \in Nat
  <1> DEFINE T == [glob : BOOLEAN, paths : Seq(Paths)]
  <1>1. inputs \in Seq(T)
    BY GivenFacts
  <1>2. \A r \in T : r.paths \in Seq(Paths)
    OBVIOUS
  <1> HIDE DEF T
  <1>3. Len(inputs) \in Nat /\ \A i \in 1 .. Len(inputs) : inputs[i] \in T
    BY <1>1
  <1>4. \A i \in 1 .. Len(inputs) : inputs[i].paths \in Seq(Paths) /\ Len(inputs[i].paths) \in Nat
    BY <1>2, <1>3
  <1> QED BY <1>3, <1>4 DEF TypeOK

(* The path that is taken next, and where it is on the command line. *)
Here == <<next - 1, Len(Current) - Len(paths) + 1>>

LEMMA HereFacts ==
    ASSUME TypeOK, GivenInv, CursorInv, pc = "paths", paths # <<>>
    PROVE  /\ Here \in Positions /\ PathAt(Here) = path
           /\ path \in Paths
           /\ ToCome(Here)
  <1>1. /\ next \in Nat /\ next >= 2 /\ next <= Len(inputs) + 1 /\ Len(inputs) \in Nat
        /\ paths \in Seq(Paths) /\ Len(paths) \in Nat /\ Len(paths) >= 1
        /\ Current \in Seq(Paths) /\ Len(Current) \in Nat /\ Len(paths) <= Len(Current)
        /\ paths[1] = Current[Len(Current) - Len(paths) + 1]
    BY CursorTypes DEF CursorInv, Current
  <1>2. path = paths[1] /\ path \in Paths
    BY <1>1 DEF path
  <1>3. next - 1 \in 1 .. Len(inputs) /\ Len(Current) - Len(paths) + 1 \in 1 .. Len(Current)
    BY <1>1
  <1>4. Here \in Positions
    BY <1>3, PositionFacts DEF Here, Current
  <1>5. PathAt(Here) = path
    BY <1>1, <1>2 DEF PathAt, Here, Current
  <1>6. ToCome(Here)
    <2>1. Here[1] = next - 1 /\ Here[2] = Len(Current) - Len(paths) + 1 /\ inputs[Here[1]].paths = Current
      BY DEF Here, Current
    <2>2. Len(Current) - Len(paths) + 1 > Len(Current) - Len(paths)
      BY <1>1
    <2> QED BY <2>1, <2>2 DEF ToCome
  <1> QED BY <1>2, <1>4, <1>5, <1>6

(* A path is taken: it, and it alone, is no longer to come. *)
LEMMA TakeHere ==
    ASSUME TypeOK, GivenInv, CursorInv, pc = "paths", paths # <<>>,
           paths' = Tail(paths), next' = next, UNCHANGED given
    PROVE  /\ \A q \in Positions : ToCome(q)' <=> ToCome(q) /\ q # Here
           /\ Handled' = Handled \cup {Here}
           /\ Len(paths') = Len(paths) - 1
           /\ \A j \in 1 .. Len(paths') : paths'[j] = paths[j + 1]
  <1>1. /\ next \in Nat /\ next >= 2 /\ next <= Len(inputs) + 1 /\ Len(inputs) \in Nat
        /\ paths \in Seq(Paths) /\ Len(paths) \in Nat /\ Len(paths) >= 1
        /\ Current \in Seq(Paths) /\ Len(Current) \in Nat /\ Len(paths) <= Len(Current)
    BY CursorTypes DEF CursorInv, Current
  <1>2. Len(paths') = Len(paths) - 1 /\ \A j \in 1 .. Len(paths') : paths'[j] = paths[j + 1]
    BY <1>1
  <1>3. ASSUME NEW q \in Positions
        PROVE  ToCome(q)' <=> ToCome(q) /\ q # Here
    <2>0. PICK i \in 1 .. Len(inputs) : \E k \in 1 .. Len(inputs[i].paths) : q = <<i, k>>
      BY PositionFacts
    <2>1. PICK k \in 1 .. Len(inputs[i].paths) : q = <<i, k>>
      BY <2>0
    <2>2. i \in Nat /\ k \in Nat
      BY <1>1, <2>1, CursorTypes
    <2>3. ToCome(q) <=> i >= next \/ (i = next - 1 /\ k > Len(inputs[i].paths) - Len(paths))
      BY <2>1 DEF ToCome
    <2>4. ToCome(q)' <=> i >= next \/ (i = next - 1 /\ k > Len(inputs[i].paths) - Len(paths'))
      BY <2>1 DEF ToCome, given
    <2>5. i = next - 1 => Len(inputs[i].paths) = Len(Current)
      BY DEF Current
    <2>6. q = Here <=> i = next - 1 /\ k = Len(Current) - Len(paths) + 1
      BY <2>1 DEF Here
    <2>7. PICK n \in Nat, m \in Nat, c \in Nat :
              next = n /\ Len(paths) = m /\ Len(paths') = m - 1 /\ Len(Current) = c
      BY <1>1, <1>2
    <2>8. CASE i = n - 1
      <3>1. ToCome(q) <=> k > c - m
        BY <2>2, <2>3, <2>5, <2>7, <2>8
      <3>2. ToCome(q)' <=> k > c - (m - 1)
        BY <2>2, <2>4, <2>5, <2>7, <2>8
      <3> QED BY <2>2, <2>6, <2>7, <2>8, <3>1, <3>2
    <2>9. CASE i # n - 1
      BY <2>3, <2>4, <2>6, <2>7, <2>9
    <2> QED BY <2>8, <2>9
  <1>4. Positions' = Positions
    BY SameGiven
  <1>5. Handled' = {q \in Positions : ~ ToCome(q)'}
    BY <1>4 DEF Handled
  <1>6. Here \in Positions
    BY HereFacts
  <1> QED BY <1>2, <1>3, <1>5, <1>6 DEF Handled

(* The next input begins: the same positions are to come. *)
LEMMA BeginInput ==
    ASSUME TypeOK, GivenInv, CursorInv, pc = "inputs", next <= Len(inputs),
           paths' = inputs[next].paths, next' = next + 1, UNCHANGED given
    PROVE  /\ \A q \in Positions : ToCome(q)' <=> ToCome(q)
           /\ Handled' = Handled
  <1>1. /\ next \in Nat /\ next >= 1 /\ Len(inputs) \in Nat /\ next \in 1 .. Len(inputs)
        /\ paths = <<>> /\ inputs[next].paths \in Seq(Paths) /\ Len(inputs[next].paths) \in Nat
    BY CursorTypes DEF CursorInv
  <1>2. ASSUME NEW q \in Positions
        PROVE  ToCome(q)' <=> ToCome(q)
    <2>0. PICK i \in 1 .. Len(inputs) : \E k \in 1 .. Len(inputs[i].paths) : q = <<i, k>>
      BY PositionFacts
    <2>1. PICK k \in 1 .. Len(inputs[i].paths) : q = <<i, k>>
      BY <2>0
    <2>2. i \in Nat /\ k \in Nat /\ Len(inputs[i].paths) \in Nat /\ k >= 1 /\ k <= Len(inputs[i].paths)
      BY <1>1, <2>1, CursorTypes
    <2>3. ToCome(q) <=> i >= next \/ (i = next - 1 /\ k > Len(inputs[i].paths) - 0)
      BY <1>1, <2>1 DEF ToCome
    <2>4. ToCome(q)' <=> i >= next' \/ (i = next' - 1 /\ k > Len(inputs[i].paths) - Len(inputs[next].paths))
      BY <2>1 DEF ToCome, given
    <2>5. PICK n \in Nat, m \in Nat : next = n /\ next' = n + 1 /\ Len(inputs[next].paths) = m
      BY <1>1
    <2>6. ToCome(q) <=> i >= n
      BY <2>2, <2>3, <2>5
    <2>7. ToCome(q)' <=> i >= n + 1 \/ i = n
      BY <2>2, <2>4, <2>5
    <2> QED BY <2>2, <2>5, <2>6, <2>7
  <1>3. Positions' = Positions
    BY SameGiven
  <1> QED BY <1>2, <1>3 DEF Handled

-----------------------------------------------------------------------------
(* The device of --one-file-system *)

(* A directory of the command line is taken. *)
LEMMA DeviceLearnt ==
    ASSUME TypeOK, GivenInv, CursorInv, pc = "paths", paths # <<>>, WalkablePath
    PROVE  /\ rootDevice' \in Range(Device) /\ rootDevice' # None
           /\ rootDevice' = rootDevice \/ rootDevice' = Device[target[PathAt(Here)]]
           /\ Here \in RootPositions /\ target[path] \in Dirs \ KnownPseudo
  <1>1. Here \in Positions /\ PathAt(Here) = path
    BY HereFacts
  <1>2. Here \in RootPositions /\ target[path] \in Dirs \ KnownPseudo
    BY <1>1, PositionFacts DEF RootPositions, WalkablePath
  <1>3. Device[target[path]] \in Range(Device) /\ None \notin Range(Device)
    BY <1>2, TreeAssumption
  <1>4. rootDevice' \in Range(Device) /\ rootDevice' # None
    BY <1>3 DEF TypeOK, WalkablePath, LearnDevice
  <1>5. rootDevice' = rootDevice \/ rootDevice' = Device[target[PathAt(Here)]]
    BY <1>1 DEF WalkablePath, LearnDevice
  <1> QED BY <1>2, <1>4, <1>5

(* With the arguments on one device, everything that is reachable from them  *)
(* is on it.                                                                 *)
LEMMA ReachedDevice ==
    ASSUME GivenInv, DeviceInv, OneBoundary, options.oneFs, rootDevice # None, NEW d \in Reached
    PROVE  Device[d] = rootDevice
  <1> DEFINE S == {e \in Dirs : Device[e] = rootDevice}
  <1>1. Roots \subseteq S
    <2>1. \A q \in RootPositions : target[PathAt(q)] \in Dirs /\ Device[target[PathAt(q)]] = rootDevice
      BY PositionFacts DEF DeviceInv, OneBoundary
    <2> QED BY <2>1 DEF Roots
  <1>2. \A n \in Names : Followed(n) /\ Parent[n] \in S => target[n] \in S
    BY KindFacts DEF Followed
  <1>3. Reached \subseteq S
    BY <1>1, <1>2, ReachLeast DEF Reached
  <1> QED BY <1>3

-----------------------------------------------------------------------------
(* The data the steps work on *)

OpenDirectory == [dir : Dirs, left : SUBSET Names]

LEMMA PushFacts ==
    ASSUME NEW e \in [Items -> Nat], NEW x \in Items
    PROVE  /\ Push(e, x) \in [Items -> Nat]
           /\ Push(e, x)[x] = e[x] + 1
           /\ \A y \in Items : Push(e, x)[y] > 0 <=> e[y] > 0 \/ y = x
           /\ \A y \in Items \ {x} : Push(e, x)[y] = e[y]
  BY DEF Push

LEMMA FrameFacts ==
    ASSUME NEW d \in Dirs
    PROVE  /\ Frame(d) \in OpenDirectory
           /\ Frame(d).dir = d /\ Frame(d).left = {n \in Names : Parent[n] = d}
           /\ Frame(d) # Idle
  BY TreeAssumption DEF Frame, Listing, OpenDirectory, Idle

LEMMA TopFacts ==
    ASSUME TypeOK, pc = "walk", mode = "sequential"
    PROVE  /\ stack \in Seq(OpenDirectory) /\ Len(stack) \in Nat /\ Len(stack) >= 1
           /\ DOMAIN stack = 1 .. Len(stack) /\ Len(stack) \in DOMAIN stack
           /\ top = stack[Len(stack)] /\ top \in OpenDirectory
           /\ top.left \in SUBSET Names
  <1>1. stack \in Seq(OpenDirectory) /\ stack # <<>>
    BY DEF TypeOK, OpenDirectory
  <1>2. /\ Len(stack) \in Nat /\ Len(stack) >= 1 /\ DOMAIN stack = 1 .. Len(stack)
        /\ Len(stack) \in DOMAIN stack /\ stack[Len(stack)] \in OpenDirectory
    BY <1>1
  <1> QED BY <1>1, <1>2 DEF top, OpenDirectory

(* Reading a name takes it from the innermost directory. *)
LEMMA ConsumedFacts ==
    ASSUME TypeOK, pc = "walk", mode = "sequential", NEW n \in top.left
    PROVE  /\ Consumed(n) \in Seq(OpenDirectory)
           /\ Len(Consumed(n)) = Len(stack) /\ DOMAIN Consumed(n) = DOMAIN stack
           /\ \A i \in DOMAIN stack : Consumed(n)[i].dir = stack[i].dir
           /\ \A i \in DOMAIN stack :
                  Consumed(n)[i].left = IF i = Len(stack) THEN stack[i].left \ {n} ELSE stack[i].left
           /\ Consumed(n) # <<>>
  <1>1. /\ stack \in Seq(OpenDirectory) /\ Len(stack) \in Nat /\ Len(stack) >= 1
        /\ DOMAIN stack = 1 .. Len(stack) /\ Len(stack) \in DOMAIN stack
    BY TopFacts
  <1>2. stack \in [1 .. Len(stack) -> OpenDirectory]
    BY <1>1
  <1> DEFINE m == Len(stack)
             c == [stack EXCEPT ![m].left = @ \ {n}]
  <1>3. Consumed(n) = c
    BY DEF Consumed
  <1>4. m \in 1 .. m /\ m \in Nat /\ m >= 1 /\ stack \in [1 .. m -> OpenDirectory] /\ DOMAIN stack = 1 .. m
    BY <1>1, <1>2
  <1> HIDE DEF m
  <1>5. \A r \in OpenDirectory : [r EXCEPT !.left = r.left \ {n}] \in OpenDirectory
    BY DEF OpenDirectory
  <1>6. /\ c \in [1 .. m -> OpenDirectory]
        /\ c[m] = [stack[m] EXCEPT !.left = stack[m].left \ {n}]
        /\ \A i \in 1 .. m : i # m => c[i] = stack[i]
    BY <1>4, <1>5
  <1> HIDE DEF c
  <1>7. c \in Seq(OpenDirectory) /\ Len(c) = m /\ DOMAIN c = 1 .. m
    BY <1>4, <1>6, ArrayIsSeq
  <1>8. c[m].dir = stack[m].dir /\ c[m].left = stack[m].left \ {n}
    BY <1>4, <1>6 DEF OpenDirectory
  <1>9. c # <<>>
    BY <1>4, <1>7
  <1> QED BY <1>3, <1>4, <1>6, <1>7, <1>8, <1>9 DEF m

(* A directory is opened inside the innermost one. *)
LEMMA AppendedFacts ==
    ASSUME TypeOK, pc = "walk", mode = "sequential", NEW n \in top.left, NEW d \in Dirs,
           NEW s, s = Append(Consumed(n), Frame(d))
    PROVE  /\ s \in Seq(OpenDirectory) /\ s # <<>>
           /\ DOMAIN s = DOMAIN stack \cup {Len(stack) + 1}
           /\ \A i \in DOMAIN stack : s[i] = Consumed(n)[i]
           /\ s[Len(stack) + 1] = Frame(d)
           /\ Len(stack) + 1 \notin DOMAIN stack
  <1>1. /\ Consumed(n) \in Seq(OpenDirectory) /\ Len(Consumed(n)) = Len(stack)
        /\ Frame(d) \in OpenDirectory
        /\ Len(stack) \in Nat /\ DOMAIN stack = 1 .. Len(stack)
    BY ConsumedFacts, FrameFacts, TopFacts
  <1> DEFINE c == Consumed(n)
             f == Frame(d)
  <1>2. c \in Seq(OpenDirectory) /\ Len(c) = Len(stack) /\ f \in OpenDirectory /\ s = Append(c, f)
    BY <1>1
  <1> HIDE DEF c, f
  <1>3. /\ s \in Seq(OpenDirectory) /\ Len(s) = Len(c) + 1
        /\ DOMAIN s = 1 .. (Len(c) + 1)
        /\ \A i \in 1 .. Len(c) : s[i] = c[i]
        /\ s[Len(c) + 1] = f
    BY <1>2, AppendFacts
  <1>4. s # <<>>
    BY <1>1, <1>2, <1>3
  <1>5. DOMAIN s = DOMAIN stack \cup {Len(stack) + 1} /\ Len(stack) + 1 \notin DOMAIN stack
    BY <1>1, <1>2, <1>3
  <1> QED BY <1>1, <1>2, <1>3, <1>4, <1>5 DEF c, f

(* The innermost directory is closed. *)
LEMMA ClosedFacts ==
    ASSUME TypeOK, pc = "walk", mode = "sequential", Return
    PROVE  /\ stack' \in Seq(OpenDirectory)
           /\ DOMAIN stack' = DOMAIN stack \ {Len(stack)}
           /\ \A i \in DOMAIN stack' : stack'[i] = stack[i]
           /\ stack' # <<>> <=> pc' = "walk"
           /\ pc' \in {"paths", "walk"}
  <1>1. /\ stack \in Seq(OpenDirectory) /\ Len(stack) \in Nat /\ Len(stack) >= 1
        /\ DOMAIN stack = 1 .. Len(stack)
    BY TopFacts
  <1>2. /\ stack' \in Seq(OpenDirectory) /\ Len(stack') = Len(stack) - 1
        /\ \A i \in 1 .. Len(stack) - 1 : stack'[i] = stack[i]
    BY <1>1 DEF Return
  <1>3. DOMAIN stack' = 1 .. Len(stack) - 1
    BY <1>1, <1>2
  <1>4. stack' # <<>> <=> Len(stack) # 1
    BY <1>1, <1>2
  <1> QED BY <1>1, <1>2, <1>3, <1>4 DEF Return

(* An error of a worker is kept in its slot or lost; its entries stay. *)
LEMMA OnErrorFacts ==
    ASSUME TypeOK, NEW w \in Workers, OnError(w)
    PROVE  /\ slot' \in [Workers -> [entries : [Items -> Nat], errors : Nat]]
           /\ lost' \in BOOLEAN
           /\ \A v \in Workers : slot'[v].entries = slot[v].entries
           /\ \A v \in Workers : slot[v].errors > 0 => slot'[v].errors > 0
           /\ lost' \/ slot'[w].errors > 0
  <1>1. slot \in [Workers -> [entries : [Items -> Nat], errors : Nat]]
    BY DEF TypeOK
  <1>2. CASE slot' = [slot EXCEPT ![w].errors = @ + 1] /\ UNCHANGED lost
    <2>1. slot[w].errors \in Nat
      BY <1>1
    <2>2. PICK k \in Nat : k = slot[w].errors + 1 /\ k > 0
      BY <2>1
    <2>3. slot' = [slot EXCEPT ![w].errors = k]
      BY <1>2, <2>2
    <2>4. /\ slot' \in [Workers -> [entries : [Items -> Nat], errors : Nat]]
          /\ slot'[w].errors = k
          /\ \A v \in Workers \ {w} : slot'[v] = slot[v]
          /\ \A v \in Workers : slot'[v].entries = slot[v].entries
      BY <1>1, <2>2, <2>3
    <2>5. lost' \in BOOLEAN
      BY <1>2 DEF TypeOK
    <2> QED BY <2>2, <2>4, <2>5
  <1>3. CASE lost' = TRUE /\ UNCHANGED slot
    BY <1>1, <1>3
  <1> QED BY <1>2, <1>3 DEF OnError

(* A file a worker visits joins its entries or is lost. *)
LEMMA VisitFacts ==
    ASSUME TypeOK, NEW w \in Workers, NEW n \in Items, Visit(w, n)
    PROVE  /\ slot' \in [Workers -> [entries : [Items -> Nat], errors : Nat]]
           /\ lost' \in BOOLEAN
           /\ \A v \in Workers : slot'[v].errors = slot[v].errors
           /\ \/ /\ slot'[w].entries = Push(slot[w].entries, n)
                 /\ \A v \in Workers \ {w} : slot'[v] = slot[v]
                 /\ lost' = lost
              \/ lost' /\ slot' = slot
  <1>1. slot \in [Workers -> [entries : [Items -> Nat], errors : Nat]]
    BY DEF TypeOK
  <1>2. CASE slot' = [slot EXCEPT ![w].entries = Push(@, n)] /\ UNCHANGED lost
    <2>1. Push(slot[w].entries, n) \in [Items -> Nat]
      BY <1>1, PushFacts
    <2> DEFINE e == Push(slot[w].entries, n)
    <2>2. slot' = [slot EXCEPT ![w].entries = e] /\ e \in [Items -> Nat]
      BY <1>2, <2>1
    <2> HIDE DEF e
    <2>3. /\ slot' \in [Workers -> [entries : [Items -> Nat], errors : Nat]]
          /\ slot'[w].entries = e
          /\ \A v \in Workers \ {w} : slot'[v] = slot[v]
          /\ \A v \in Workers : slot'[v].errors = slot[v].errors
      BY <1>1, <2>2
    <2> QED BY <1>2, <2>3 DEF e, TypeOK
  <1>3. CASE lost' = TRUE /\ UNCHANGED slot
    BY <1>1, <1>3
  <1> QED BY <1>2, <1>3 DEF Visit

-----------------------------------------------------------------------------
(* Types *)

LEMMA TypeInit ==
    ASSUME Init
    PROVE  TypeOK /\ GivenInv
  <1>1. GivenInv
    BY DEF Init, GivenInv
  <1>2. NoEntries \in [Items -> Nat]
    BY DEF NoEntries
  <1>3. asked \subseteq Items
    BY <1>1, PositionFacts DEF Init, Wanted, Items
  <1>4. /\ mode \in {"sequential", "parallel"} /\ pc = "inputs" /\ next = 1 /\ paths = <<>>
        /\ rootDevice = None /\ signalled = FALSE /\ lost = FALSE
        /\ entries = NoEntries /\ errorCount = 0 /\ printed = 0
        /\ stack = <<>> /\ visited = {} /\ pending = {} /\ merged = {}
    BY DEF Init
  <1>5. /\ frame \in [Workers -> [dir : Dirs \cup {None}, left : SUBSET Names]]
        /\ slot \in [Workers -> [entries : [Items -> Nat], errors : Nat]]
    BY <1>2 DEF Init, Idle
  <1>6. Len(inputs) \in Nat
    BY <1>1, GivenFacts
  <1>7. next \in 1 .. Len(inputs) + 1 /\ paths \in Seq(Paths)
    BY <1>4, <1>6
  <1>8. signalled \in BOOLEAN /\ lost \in BOOLEAN
    BY <1>4
  <1>9. stack \in Seq([dir : Dirs, left : SUBSET Names]) /\ (stack # <<>> <=> pc = "walk" /\ mode = "sequential")
    BY <1>4
  <1> QED BY <1>1, <1>2, <1>3, <1>4, <1>5, <1>7, <1>8, <1>9 DEF TypeOK

(* The steps of the main thread over the inputs and their paths. *)
LEMMA TypeInputs ==
    ASSUME TypeOK, GivenInv, CursorInv,
           SetupFails \/ NextInput \/ EndInputs \/ EndPaths
    PROVE  TypeOK'
  <1>0. UNCHANGED <<walk, pool, rootDevice, signalled, entries, printed, given>>
    BY DEF SetupFails, NextInput, EndInputs, EndPaths, results
  <1>1. CASE NextInput
    <2>1. /\ pc = "inputs" /\ next \in 1 .. Len(inputs) /\ next' = next + 1
          /\ inputs' = inputs
      BY <1>1, CursorTypes DEF NextInput, given
    <2>2. next' \in 1 .. Len(inputs) + 1 /\ inputs[next].paths \in Seq(Paths)
      BY <2>1, CursorTypes
    <2>3. paths' \in Seq(Paths) /\ pc' \in {"inputs", "paths"} /\ errorCount' \in Nat
      BY <1>1, <2>1, <2>2 DEF NextInput, TypeOK, Error
    <2> QED BY <1>0, <2>1, <2>2, <2>3 DEF TypeOK, walk, pool, given
  <1>2. CASE SetupFails \/ EndInputs \/ EndPaths
    <2>1. /\ pc' \in {"inputs", "paths", "merge", "done", "failed"} /\ pc \in {"inputs", "paths"}
          /\ next' = next /\ paths' = paths /\ errorCount' = errorCount
      BY <1>2 DEF SetupFails, EndInputs, EndPaths, results
    <2> QED BY <1>0, <2>1 DEF TypeOK, walk, pool, given
  <1> QED BY <1>1, <1>2

LEMMA TypePaths ==
    ASSUME TypeOK, GivenInv, CursorInv,
           PathRejected \/ PathFile \/ PathPseudo \/ PathOpened \/ PathNotOpened \/ PathSpread \/ PathTooLong
    PROVE  TypeOK'
  <1>1. /\ pc = "paths" /\ paths # <<>> /\ paths' = Tail(paths) /\ pc' \in {"paths", "walk"}
        /\ UNCHANGED <<given, next, signalled, printed, frame, slot, merged, lost>>
    BY DEF PathRejected, PathFile, PathPseudo, PathOpened, PathNotOpened, PathSpread, PathTooLong, TakePath, pool
  <1>2. /\ mode' = mode /\ inputs' = inputs /\ target' = target
        /\ next' = next /\ signalled' = signalled /\ printed' = printed
        /\ frame' = frame /\ slot' = slot /\ merged' = merged /\ lost' = lost
    BY <1>1 DEF given
  <1>3. paths' \in Seq(Paths) /\ path \in Paths /\ path \in Items
    BY <1>1, CursorTypes, HereFacts DEF Items
  <1>4. rootDevice' \in Range(Device) \cup {None}
    <2>1. CASE UNCHANGED rootDevice
      BY <2>1 DEF TypeOK
    <2>2. CASE WalkablePath
      BY <1>1, <2>2, DeviceLearnt
    <2> QED BY <2>1, <2>2
            DEF PathRejected, PathFile, PathPseudo, PathOpened, PathNotOpened, PathSpread, PathTooLong
  <1>5. errorCount' \in Nat
    BY DEF TypeOK, Error, PathRejected, PathFile, PathPseudo, PathOpened, PathNotOpened, PathSpread, PathTooLong
  <1>6. asked' \subseteq Items
    BY <1>1 DEF TypeOK, given
  <1>7. entries' \in [Items -> Nat]
    <2>1. entries' = entries \/ entries' = Push(entries, path)
      BY DEF PathRejected, PathFile, PathPseudo, PathOpened, PathNotOpened, PathSpread, PathTooLong
    <2>2. entries \in [Items -> Nat]
      BY DEF TypeOK
    <2>3. Push(entries, path) \in [Items -> Nat]
      BY <1>3, <2>2, PushFacts
    <2> QED BY <2>1, <2>2, <2>3
  <1>8. CASE PathRejected \/ PathFile \/ PathPseudo \/ PathTooLong
    <2>1. pc' = "paths" /\ stack' = stack /\ visited' = visited /\ pending' = pending
      BY <1>8 DEF PathRejected, PathFile, PathPseudo, PathTooLong, TakePath, walk, pool
    <2> QED BY <1>1, <1>2, <1>3, <1>4, <1>5, <1>6, <1>7, <2>1 DEF TypeOK
  <1>9. CASE PathOpened
    <2>1. /\ pc' = "walk" /\ mode = "sequential" /\ pending' = pending
          /\ stack' = <<Frame(target[path])>> /\ visited' = visited \cup {target[path]}
      BY <1>9 DEF PathOpened, TakePath, pool
    <2>2. target[path] \in Dirs
      BY <1>1, <1>9, DeviceLearnt DEF PathOpened
    <2>3. stack' \in Seq(OpenDirectory) /\ stack' # <<>>
      BY <2>1, <2>2, FrameFacts
    <2> QED BY <1>2, <1>3, <1>4, <1>5, <1>6, <1>7, <2>1, <2>2, <2>3 DEF TypeOK, OpenDirectory
  <1>10. CASE PathNotOpened
    <2>1. pc' = "paths" /\ stack' = stack /\ pending' = pending
      BY <1>10 DEF PathNotOpened, TakePath, pool
    <2>2. target[path] \in Dirs
      BY <1>1, <1>10, DeviceLearnt DEF PathNotOpened
    <2>3. visited' \subseteq Dirs
      BY <1>10, <2>2 DEF PathNotOpened, TypeOK
    <2> QED BY <1>1, <1>2, <1>3, <1>4, <1>5, <1>6, <1>7, <2>1, <2>3 DEF TypeOK
  <1>11. CASE PathSpread
    <2>1. /\ pc' = "walk" /\ mode = "parallel" /\ pending' = {target[path]}
          /\ stack' = stack /\ visited' = visited
      BY <1>11 DEF PathSpread, TakePath, walk
    <2>2. target[path] \in Dirs
      BY <1>1, <1>11, DeviceLearnt DEF PathSpread
    <2> QED BY <1>1, <1>2, <1>3, <1>4, <1>5, <1>6, <1>7, <2>1, <2>2 DEF TypeOK
  <1> QED BY <1>8, <1>9, <1>10, <1>11

(* The sequential walk. *)
LEMMA TypeWalk ==
    ASSUME TypeOK, GivenInv,
           EndDirectory \/ StopDirectory \/ \E n \in Names : HandleEntry(n)
    PROVE  TypeOK'
  <1>1. CASE EndDirectory \/ StopDirectory
    <2>1. /\ pc = "walk" /\ mode = "sequential" /\ Return
          /\ UNCHANGED <<given, next, paths, rootDevice, signalled, entries, printed, visited, pool>>
      BY <1>1 DEF EndDirectory, StopDirectory, results
    <2>2. errorCount' \in Nat
      BY <1>1 DEF EndDirectory, StopDirectory, results, Error, TypeOK
    <2>3. stack' \in Seq(OpenDirectory) /\ (stack' # <<>> <=> pc' = "walk") /\ pc' \in {"paths", "walk"}
      BY <2>1, ClosedFacts
    <2> QED BY <2>1, <2>2, <2>3 DEF TypeOK, given, pool, OpenDirectory
  <1>2. ASSUME NEW n \in Names, HandleEntry(n)
        PROVE  TypeOK'
    <2>1. ReadName(n)
      BY <1>2 DEF HandleEntry, SkipName, NameRejected, AppendEntry, PassBy, DescendFails, Descend
    <2>2. /\ pc = "walk" /\ mode = "sequential" /\ n \in top.left
          /\ UNCHANGED <<given, cursor, rootDevice, signalled, printed, pool>>
      BY <2>1 DEF ReadName
    <2>3. errorCount' \in Nat
      BY <1>2 DEF TypeOK, Error, HandleEntry, SkipName, NameRejected, AppendEntry, PassBy, DescendFails, Descend
    <2>4. entries' \in [Items -> Nat]
      <3>1. entries' = entries \/ entries' = Push(entries, n)
        BY <1>2 DEF HandleEntry, SkipName, NameRejected, AppendEntry, PassBy, DescendFails, Descend
      <3>2. entries \in [Items -> Nat] /\ n \in Items
        BY DEF TypeOK, Items
      <3>3. Push(entries, n) \in [Items -> Nat]
        BY <3>2, PushFacts
      <3> QED BY <3>1, <3>2, <3>3
    <2>5. Kind(n) = "dir" => target[n] \in Dirs
      BY KindFacts
    <2>6. visited' \subseteq Dirs
      BY <1>2, <2>5 DEF TypeOK, Descendable, HandleEntry, SkipName, NameRejected, AppendEntry, PassBy, DescendFails, Descend
    <2>7. stack' \in Seq(OpenDirectory) /\ stack' # <<>>
      <3>1. CASE stack' = Consumed(n)
        BY <2>2, <3>1, ConsumedFacts
      <3>2. CASE Kind(n) = "dir" /\ stack' = Append(Consumed(n), Frame(target[n]))
        BY <2>2, <2>5, <3>2, AppendedFacts
      <3> QED BY <1>2, <3>1, <3>2
              DEF Descendable, HandleEntry, SkipName, NameRejected, AppendEntry, PassBy, DescendFails, Descend
    <2> QED BY <2>2, <2>3, <2>4, <2>6, <2>7 DEF TypeOK, given, cursor, pool, OpenDirectory
  <1> QED BY <1>1, <1>2

(* The workers of the parallel walk. *)
LEMMA TypeWorker ==
    ASSUME TypeOK, GivenInv, NEW w \in Workers, Worker(w)
    PROVE  TypeOK'
  <1>1. /\ pc = "walk" /\ mode = "parallel"
        /\ UNCHANGED <<given, cursor, rootDevice, signalled, results, walk, merged>>
    BY DEF Worker, TakeDirectory, CloseDirectory, WorkerSkips, WorkerRejects, WorkerVisits, WorkerQueues,
           ListName, WorkerStep, Walking
  <1>2. slot' \in [Workers -> [entries : [Items -> Nat], errors : Nat]] /\ lost' \in BOOLEAN
    <2>1. CASE OnError(w)
      BY <2>1, OnErrorFacts
    <2>2. ASSUME NEW n \in Names, Visit(w, n)
          PROVE  slot' \in [Workers -> [entries : [Items -> Nat], errors : Nat]] /\ lost' \in BOOLEAN
      <3>1. n \in Items
        BY DEF Items
      <3> QED BY <2>2, <3>1, VisitFacts
    <2>3. CASE UNCHANGED <<slot, lost>>
      BY <2>3 DEF TypeOK
    <2> QED BY <2>1, <2>2, <2>3
            DEF Worker, TakeDirectory, CloseDirectory, WorkerSkips, WorkerRejects, WorkerVisits, WorkerQueues
  <1>3. pending' \subseteq Dirs
    <2>1. ASSUME NEW n \in Names, WorkerQueues(w, n)
          PROVE  pending' \subseteq Dirs
      BY <2>1, KindFacts DEF WorkerQueues, TypeOK
    <2> QED BY <2>1 DEF TypeOK, Worker, TakeDirectory, CloseDirectory, WorkerSkips, WorkerRejects, WorkerVisits
  <1>4. frame' \in [Workers -> [dir : Dirs \cup {None}, left : SUBSET Names]]
    <2>0. frame \in [Workers -> [dir : Dirs \cup {None}, left : SUBSET Names]]
      BY DEF TypeOK
    <2>1. ASSUME NEW d \in pending, frame' = [frame EXCEPT ![w] = Frame(d)]
          PROVE  frame' \in [Workers -> [dir : Dirs \cup {None}, left : SUBSET Names]]
      <3>1. d \in Dirs
        BY DEF TypeOK
      <3>2. Frame(d) \in [dir : Dirs \cup {None}, left : SUBSET Names]
        BY <3>1, FrameFacts DEF OpenDirectory
      <3> QED BY <2>0, <2>1, <3>2
    <2>2. ASSUME NEW n, frame' = [frame EXCEPT ![w].left = @ \ {n}]
          PROVE  frame' \in [Workers -> [dir : Dirs \cup {None}, left : SUBSET Names]]
      BY <2>0, <2>2
    <2>3. CASE frame' = [frame EXCEPT ![w] = Idle]
      BY <2>0, <2>3 DEF Idle
    <2> QED BY <2>0, <2>1, <2>2, <2>3
            DEF Worker, TakeDirectory, CloseDirectory, WorkerSkips, WorkerRejects, WorkerVisits, WorkerQueues, ListName
  <1> QED BY <1>1, <1>2, <1>3, <1>4 DEF TypeOK, given, cursor, results, walk

LEMMA TypeEnd ==
    ASSUME TypeOK, EndWalk \/ WalkFails \/ EndMerge \/ MergeFails \/ Signal \/ Ended
    PROVE  TypeOK'
  <1>1. CASE EndWalk \/ WalkFails
    <2>1. /\ frame' \in [Workers -> [dir : Dirs \cup {None}, left : SUBSET Names]]
          /\ pending' \subseteq Dirs /\ lost' \in BOOLEAN
      <3>1. frame' = frame \/ frame' = [w \in Workers |-> Idle]
        BY <1>1 DEF EndWalk, WalkFails
      <3>2. Idle \in [dir : Dirs \cup {None}, left : SUBSET Names]
        BY DEF Idle
      <3>3. frame' \in [Workers -> [dir : Dirs \cup {None}, left : SUBSET Names]]
        BY <3>1, <3>2 DEF TypeOK
      <3>4. pending' = {} /\ (lost' = lost \/ lost' = TRUE)
        BY <1>1 DEF EndWalk, WalkFails
      <3> QED BY <3>3, <3>4 DEF TypeOK
    <2>2. /\ pc = "walk" /\ pc' = "paths" /\ mode = "parallel" /\ next' = next /\ paths' = paths
          /\ rootDevice' = rootDevice /\ signalled' = signalled /\ slot' = slot /\ merged' = merged
          /\ UNCHANGED <<given, results, walk>>
      BY <1>1 DEF EndWalk, WalkFails, Walking
    <2> QED BY <2>1, <2>2 DEF TypeOK, given, results, walk
  <1>2. CASE EndMerge \/ MergeFails
    BY <1>2 DEF TypeOK, EndMerge, MergeFails, given, results, walk, pool
  <1>3. CASE Signal
    BY <1>3 DEF TypeOK, Signal, given, cursor, results, walk, pool
  <1>4. CASE Ended
    BY <1>4 DEF TypeOK, Ended, vars, given, cursor, results, walk, pool
  <1> QED BY <1>1, <1>2, <1>3, <1>4

LEMMA TypeMerge ==
    ASSUME TypeOK, NEW w \in Workers, Merge(w)
    PROVE  /\ TypeOK'
           /\ \A x \in Items : entries'[x] = entries[x] + slot[w].entries[x]
  <1>1. /\ entries \in [Items -> Nat] /\ printed \in Nat
        /\ slot[w].entries \in [Items -> Nat] /\ slot[w].errors \in Nat
    BY DEF TypeOK
  <1>2. entries' = [x \in Items |-> entries[x] + slot[w].entries[x]] /\ printed' = printed + slot[w].errors
    BY DEF Merge
  <1>3. entries' \in [Items -> Nat] /\ printed' \in Nat
    BY <1>1, <1>2
  <1> QED BY <1>2, <1>3 DEF TypeOK, Merge, given, cursor, walk

LEMMA TypeNext ==
    ASSUME TypeOK, GivenInv, CursorInv, [Next]_vars
    PROVE  TypeOK'
  <1>1. CASE UNCHANGED vars
    BY <1>1 DEF TypeOK, vars, given, cursor, results, walk, pool
  <1> QED BY <1>1, TypeInputs, TypePaths, TypeWalk, TypeWorker, TypeEnd, TypeMerge DEF Next, Main

LEMMA GivenNext ==
    ASSUME GivenInv, [Next]_vars
    PROVE  UNCHANGED given /\ GivenInv'
  <1>1. UNCHANGED given
    BY DEF Next, Main, SetupFails, NextInput, EndInputs, EndPaths, PathRejected, PathFile, PathPseudo, PathOpened,
           PathNotOpened, PathSpread, PathTooLong, TakePath, EndDirectory, StopDirectory, HandleEntry, SkipName,
           NameRejected, AppendEntry, PassBy, DescendFails, Descend, ReadName, EndWalk, WalkFails, Merge, EndMerge, MergeFails,
           Worker, TakeDirectory, CloseDirectory, WorkerSkips, WorkerRejects, WorkerVisits, WorkerQueues, ListName,
           WorkerStep, Signal, Ended, vars
  <1> QED BY <1>1 DEF GivenInv, given

-----------------------------------------------------------------------------
(* The cursor and the device, step by step *)

LEMMA CursorNext ==
    ASSUME TypeOK, GivenInv, CursorInv, [Next]_vars
    PROVE  CursorInv'
  <1>0. UNCHANGED given
    BY GivenNext
  <1>1. mode' = mode /\ inputs' = inputs
    BY <1>0 DEF given
  <1>2. CASE NextInput
    <2>1. /\ pc = "inputs" /\ paths = <<>> /\ next \in Nat /\ next >= 1 /\ next <= Len(inputs) /\ next' = next + 1
      BY <1>2, CursorTypes DEF NextInput, CursorInv
    <2>2. CASE pc' = "paths" /\ paths' = inputs[next].paths
      <3>1. PICK n \in Nat : next = n /\ next' = n + 1 /\ n >= 1
        BY <2>1
      <3>2. next' - 1 = next /\ next' >= 2
        BY <3>1
      <3>3. Current' = inputs[next].paths
        BY <1>1, <3>2 DEF Current
      <3>4. Len(paths') \in Nat
        BY <2>1, <2>2, CursorTypes
      <3>5. \A j \in 1 .. Len(paths') : Len(paths') - Len(paths') + j = j
        BY <3>4
      <3> QED BY <2>2, <3>2, <3>3, <3>4, <3>5 DEF CursorInv
    <2>3. CASE pc' = pc /\ paths' = paths
      BY <2>1, <2>3 DEF CursorInv
    <2> QED BY <1>2, <2>2, <2>3 DEF NextInput
  <1>3. CASE EndInputs
    BY <1>1, <1>3 DEF EndInputs, CursorInv, TypeOK
  <1>4. CASE SetupFails \/ EndPaths
    BY <1>1, <1>4 DEF SetupFails, EndPaths, CursorInv
  <1>5. CASE PathRejected \/ PathFile \/ PathPseudo \/ PathOpened \/ PathNotOpened \/ PathSpread \/ PathTooLong
    <2>1. /\ pc = "paths" /\ paths # <<>> /\ paths' = Tail(paths) /\ pc' \in {"paths", "walk"} /\ next' = next
      BY <1>5 DEF PathRejected, PathFile, PathPseudo, PathOpened, PathNotOpened, PathSpread, PathTooLong, TakePath
    <2>2. Len(paths') = Len(paths) - 1 /\ \A j \in 1 .. Len(paths') : paths'[j] = paths[j + 1]
      BY <1>0, <2>1, TakeHere
    <2>3. /\ next >= 2 /\ Len(paths) <= Len(Current)
          /\ \A j \in 1 .. Len(paths) : paths[j] = Current[Len(Current) - Len(paths) + j]
      BY <2>1 DEF CursorInv
    <2>4. Current' = Current
      BY <1>1, <2>1 DEF Current
    <2>5. /\ Len(paths) \in Nat /\ Len(paths) >= 1 /\ Len(Current) \in Nat
      BY <2>1, <2>3, CursorTypes DEF Current
    <2>6. PICK m \in Nat : Len(paths) = m /\ Len(paths') = m - 1 /\ m >= 1
      BY <2>2, <2>5
    <2>7. ASSUME NEW j \in 1 .. m - 1
          PROVE  paths'[j] = Current[Len(Current) - (m - 1) + j]
      <3>1. j \in 1 .. Len(paths') /\ j + 1 \in 1 .. Len(paths)
        BY <2>6
      <3>2. paths'[j] = Current[Len(Current) - m + (j + 1)]
        BY <2>2, <2>3, <2>6, <3>1
      <3>3. Len(Current) - m + (j + 1) = Len(Current) - (m - 1) + j
        BY <2>5
      <3> QED BY <3>2, <3>3
    <2>8. Len(paths') <= Len(Current)
      BY <2>3, <2>5, <2>6
    <2> QED BY <2>1, <2>3, <2>4, <2>6, <2>7, <2>8 DEF CursorInv
  <1>6. CASE EndDirectory \/ StopDirectory
    <2>1. /\ pc = "walk" /\ pc' \in {"paths", "walk"} /\ next' = next /\ paths' = paths
      BY <1>6 DEF EndDirectory, StopDirectory, Return
    <2> QED BY <1>1, <2>1 DEF CursorInv, Current
  <1>7. CASE \/ \E n \in Names : HandleEntry(n)
             \/ \E w \in Workers : Worker(w)
             \/ \E w \in Workers : Merge(w)
             \/ Ended \/ UNCHANGED vars
    <2>1. /\ pc' = pc /\ next' = next /\ paths' = paths /\ signalled' = signalled
      BY <1>7 DEF HandleEntry, SkipName, NameRejected, AppendEntry, PassBy, DescendFails, Descend, ReadName,
           Worker, TakeDirectory, CloseDirectory, WorkerSkips, WorkerRejects, WorkerVisits, WorkerQueues, ListName,
           WorkerStep, Merge, Ended, vars, cursor
    <2> QED BY <1>1, <2>1 DEF CursorInv, Current
  <1>8. CASE EndWalk \/ WalkFails
    BY <1>1, <1>8 DEF EndWalk, WalkFails, Walking, CursorInv, Current
  <1>9. CASE EndMerge \/ MergeFails
    BY <1>1, <1>9 DEF EndMerge, MergeFails, CursorInv
  <1>10. CASE Signal
    BY <1>1, <1>10 DEF Signal, cursor, CursorInv, Current
  <1> QED BY <1>2, <1>3, <1>4, <1>5, <1>6, <1>7, <1>8, <1>9, <1>10 DEF Next, Main

LEMMA DeviceNext ==
    ASSUME TypeOK, GivenInv, CursorInv, DeviceInv, [Next]_vars
    PROVE  DeviceInv'
  <1>1. target' = target /\ RootPositions' = RootPositions /\ \A q : PathAt(q)' = PathAt(q)
    BY GivenNext, SameGiven DEF given
  <1>2. CASE rootDevice' = rootDevice /\ (pc' = "walk" => pc = "walk")
    BY <1>1, <1>2 DEF DeviceInv
  <1>3. CASE pc = "paths" /\ paths # <<>> /\ WalkablePath
    <2>1. /\ rootDevice' # None /\ Here \in RootPositions
          /\ rootDevice' = rootDevice \/ rootDevice' = Device[target[PathAt(Here)]]
      BY <1>3, DeviceLearnt
    <2> QED BY <1>1, <2>1 DEF DeviceInv
  <1>4. \/ rootDevice' = rootDevice /\ (pc' = "walk" => pc = "walk")
        \/ pc = "paths" /\ paths # <<>> /\ WalkablePath
    <2>1. CASE PathOpened \/ PathNotOpened \/ PathSpread \/ PathTooLong
      BY <2>1 DEF PathOpened, PathNotOpened, PathSpread, PathTooLong, TakePath
    <2>2. CASE \/ SetupFails \/ NextInput \/ EndInputs \/ EndPaths \/ PathRejected \/ PathFile \/ PathPseudo
               \/ EndWalk \/ WalkFails \/ EndMerge \/ MergeFails
      BY <2>2 DEF SetupFails, NextInput, EndInputs, EndPaths, PathRejected, PathFile, PathPseudo, TakePath,
                  EndWalk, WalkFails, EndMerge, MergeFails
    <2>3. CASE \/ EndDirectory \/ StopDirectory \/ (\E n \in Names : HandleEntry(n)) \/ (\E w \in Workers : Merge(w))
               \/ (\E w \in Workers : Worker(w)) \/ Signal \/ Ended \/ UNCHANGED vars
      BY <2>3 DEF EndDirectory, StopDirectory, HandleEntry, SkipName, NameRejected, AppendEntry, PassBy,
                  DescendFails, Descend, ReadName, Merge, Worker, TakeDirectory, CloseDirectory, WorkerSkips,
                  WorkerRejects, WorkerVisits, WorkerQueues, ListName, WorkerStep, Signal, Ended, vars, cursor
    <2> QED BY <2>1, <2>2, <2>3 DEF Next, Main
  <1> QED BY <1>2, <1>3, <1>4

-----------------------------------------------------------------------------
(* The sequential walk lists a name once, on whatever devices *)

(* Only the open directories of the recursion have names left over. *)
LEMMA LeftOnStack ==
    ASSUME SequentialInv, mode = "sequential"
    PROVE  LeftOver = UNION {stack[i].left : i \in DOMAIN stack}
  BY DEF SequentialInv, LeftOver, Idle

LEMMA LeftOnStackNext ==
    ASSUME SequentialInv, mode = "sequential", UNCHANGED pool
    PROVE  LeftOver' = UNION {stack'[i].left : i \in DOMAIN stack'}
  <1>1. \A w \in Workers : frame'[w].left = {}
    BY DEF SequentialInv, Idle, pool
  <1> QED BY <1>1 DEF LeftOver

(* What a step of the sequential walk has to show. *)
LEMMA OnceStep ==
    ASSUME SequentialInv, UNCHANGED given, UNCHANGED pool, mode = "sequential",
           \A i \in DOMAIN stack' : stack'[i].dir \in visited' /\ stack'[i].left \subseteq Listing(stack'[i].dir),
           \A i, j \in DOMAIN stack' : stack'[i].dir = stack'[j].dir => i = j,
           \A n \in Names : entries'[n] <= 1 /\ (entries'[n] > 0 => Parent[n] \in visited' /\ n \notin LeftOver')
    PROVE  SequentialInv'
  <1>1. mode' = mode /\ frame' = frame /\ slot' = slot /\ lost' = lost
    BY DEF pool, given
  <1>2. \A i \in DOMAIN stack' : (stack[i].left \subseteq Listing(stack[i].dir))'
    BY DEF Listing
  <1> QED BY <1>1, <1>2 DEF SequentialInv

LEMMA OnceOpened ==
    ASSUME CoreInv, PathOpened
    PROVE  /\ LeftOver = {} /\ LeftOver' = {n \in Names : Parent[n] = target[path]}
           /\ SequentialInv'
  <1> DEFINE d == target[path]
  <1>1. /\ pc = "paths" /\ paths # <<>> /\ mode = "sequential" /\ UNCHANGED given
        /\ WalkablePath /\ d \notin visited /\ visited' = visited \cup {d} /\ stack' = <<Frame(d)>>
        /\ UNCHANGED pool /\ entries' = entries
    BY DEF PathOpened, TakePath
  <1>2. d \in Dirs
    BY <1>1, DeviceLearnt DEF CoreInv
  <1>3. /\ DOMAIN stack' = {1} /\ stack'[1] = Frame(d)
        /\ Frame(d).dir = d /\ Frame(d).left = {n \in Names : Parent[n] = d}
    BY <1>1, <1>2, FrameFacts
  <1>4. LeftOver = {}
    <2>1. stack = <<>>
      BY <1>1 DEF CoreInv, TypeOK
    <2> QED BY <1>1, <2>1, LeftOnStack DEF CoreInv
  <1>5. LeftOver' = {n \in Names : Parent[n] = d}
    <2>1. LeftOver' = UNION {stack'[i].left : i \in DOMAIN stack'}
      BY <1>1, LeftOnStackNext DEF CoreInv
    <2> QED BY <1>3, <2>1
  <1>6. \A n \in Names : entries[n] <= 1 /\ (entries[n] > 0 => Parent[n] \in visited)
    BY <1>1 DEF CoreInv, SequentialInv
  <1> HIDE DEF d
  <1>7. \A i \in DOMAIN stack' : stack'[i].dir \in visited' /\ stack'[i].left \subseteq Listing(stack'[i].dir)
    BY <1>1, <1>3 DEF Listing
  <1>8. \A i, j \in DOMAIN stack' : stack'[i].dir = stack'[j].dir => i = j
    BY <1>3
  <1>9. \A n \in Names : entries'[n] <= 1 /\ (entries'[n] > 0 => Parent[n] \in visited' /\ n \notin LeftOver')
    BY <1>1, <1>5, <1>6
  <1>10. SequentialInv'
    BY <1>1, <1>7, <1>8, <1>9, OnceStep DEF CoreInv
  <1> QED BY <1>4, <1>5, <1>10 DEF d

LEMMA OnceClosed ==
    ASSUME CoreInv, EndDirectory \/ StopDirectory
    PROVE  /\ LeftOver' \subseteq LeftOver
           /\ top.left = {} => LeftOver' = LeftOver
           /\ SequentialInv'
  <1>1. /\ pc = "walk" /\ mode = "sequential" /\ Return
        /\ entries' = entries /\ visited' = visited /\ UNCHANGED pool /\ UNCHANGED given
    BY DEF EndDirectory, StopDirectory, results
  <1>2. DOMAIN stack' = DOMAIN stack \ {Len(stack)} /\ \A i \in DOMAIN stack' : stack'[i] = stack[i]
    BY <1>1, ClosedFacts DEF CoreInv
  <1>3. LeftOver = UNION {stack[i].left : i \in DOMAIN stack} /\ LeftOver' = UNION {stack'[i].left : i \in DOMAIN stack'}
    BY <1>1, LeftOnStack, LeftOnStackNext DEF CoreInv
  <1>4. LeftOver' \subseteq LeftOver
    BY <1>2, <1>3
  <1>5. top = stack[Len(stack)]
    BY DEF top
  <1>6. top.left = {} => LeftOver' = LeftOver
    BY <1>2, <1>3, <1>5
  <1>7. /\ \A i \in DOMAIN stack' : stack'[i].dir \in visited' /\ stack'[i].left \subseteq Listing(stack'[i].dir)
        /\ \A i, j \in DOMAIN stack' : stack'[i].dir = stack'[j].dir => i = j
    BY <1>1, <1>2 DEF CoreInv, SequentialInv
  <1>8. \A n \in Names : entries'[n] <= 1 /\ (entries'[n] > 0 => Parent[n] \in visited' /\ n \notin LeftOver')
    BY <1>1, <1>4 DEF CoreInv, SequentialInv
  <1>9. SequentialInv'
    BY <1>1, <1>7, <1>8, OnceStep DEF CoreInv
  <1> QED BY <1>4, <1>6, <1>9

(* The names left over when n is read. *)
Rest(n) == UNION {Consumed(n)[i].left : i \in DOMAIN stack}

(* A name that is read belongs to the innermost directory and to no other,   *)
(* and has not been listed.                                                  *)
LEMMA ReadFacts ==
    ASSUME CoreInv, NEW n \in Names, ReadName(n)
    PROVE  /\ pc = "walk" /\ mode = "sequential" /\ UNCHANGED pool
           /\ rootDevice # None /\ rootDevice' = rootDevice
           /\ Parent[n] \in visited /\ entries[n] = 0
           /\ Handled' = Handled
           /\ n \notin Rest(n)
           /\ LeftOver = Rest(n) \cup {n}
           /\ \A i \in DOMAIN stack :
                  /\ Consumed(n)[i].dir = stack[i].dir /\ stack[i].dir \in visited
                  /\ Consumed(n)[i].left \subseteq Listing(Consumed(n)[i].dir)
           /\ \A i, j \in DOMAIN stack : stack[i].dir = stack[j].dir => i = j
  <1>1. /\ pc = "walk" /\ mode = "sequential" /\ UNCHANGED pool /\ n \in top.left
        /\ rootDevice' = rootDevice /\ UNCHANGED given /\ UNCHANGED cursor
    BY DEF ReadName
  <1>2. rootDevice # None
    BY <1>1 DEF CoreInv, DeviceInv
  <1>3. /\ DOMAIN stack = 1 .. Len(stack) /\ Len(stack) \in DOMAIN stack /\ top = stack[Len(stack)]
    BY <1>1, TopFacts DEF CoreInv
  <1>4. /\ \A i \in DOMAIN stack : Consumed(n)[i].dir = stack[i].dir
        /\ \A i \in DOMAIN stack :
               Consumed(n)[i].left = IF i = Len(stack) THEN stack[i].left \ {n} ELSE stack[i].left
    BY <1>1, ConsumedFacts DEF CoreInv
  <1>5. /\ \A i \in DOMAIN stack : stack[i].dir \in visited /\ stack[i].left \subseteq Listing(stack[i].dir)
        /\ \A i, j \in DOMAIN stack : stack[i].dir = stack[j].dir => i = j
        /\ \A m \in Names : entries[m] > 0 => m \notin LeftOver
    BY <1>1 DEF CoreInv, SequentialInv
  <1>6. LeftOver = UNION {stack[i].left : i \in DOMAIN stack}
    BY <1>1, LeftOnStack DEF CoreInv
  <1>7. n \in LeftOver
    BY <1>1, <1>3, <1>6
  <1>8. Parent[n] = top.dir
    BY <1>1, <1>3, <1>5 DEF Listing
  <1>9. \A i \in DOMAIN stack : n \in stack[i].left => i = Len(stack)
    BY <1>3, <1>5, <1>8 DEF Listing
  <1>10. n \notin Rest(n)
    BY <1>4, <1>9 DEF Rest
  <1>11. LeftOver = Rest(n) \cup {n}
    <2>1. ASSUME NEW m
          PROVE  m \in LeftOver <=> m \in Rest(n) \/ m = n
      <3>1. m \in LeftOver <=> \E i \in DOMAIN stack : m \in stack[i].left
        BY <1>6
      <3>2. m # n => \A i \in DOMAIN stack : m \in Consumed(n)[i].left <=> m \in stack[i].left
        BY <1>4
      <3>3. m \in Rest(n) <=> \E i \in DOMAIN stack : m \in Consumed(n)[i].left
        BY DEF Rest
      <3> QED BY <1>7, <1>10, <3>1, <3>2, <3>3
    <2> QED BY <2>1
  <1>12. Handled' = Handled
    <2>1. Positions' = Positions
      BY <1>1, SameGiven
    <2> QED BY <1>1, <2>1 DEF Handled, ToCome, cursor, given
  <1>13. Parent[n] \in visited
    BY <1>3, <1>5, <1>8
  <1>14. entries[n] = 0
    <2>1. entries[n] \in Nat
      BY DEF CoreInv, TypeOK, Items
    <2> QED BY <1>5, <1>7, <2>1
  <1>15. \A i \in DOMAIN stack : Consumed(n)[i].left \subseteq Listing(Consumed(n)[i].dir)
    BY <1>4, <1>5
  <1> QED BY <1>1, <1>2, <1>4, <1>5, <1>10, <1>11, <1>12, <1>13, <1>14, <1>15

(* A name is read and no directory is opened. *)
LEMMA OnceRead ==
    ASSUME CoreInv, NEW n \in Names, ReadName(n), stack' = Consumed(n),
           visited \subseteq visited', entries' = entries \/ entries' = Push(entries, n)
    PROVE  /\ LeftOver' = Rest(n)
           /\ \A y \in Items : entries[y] > 0 => entries'[y] > 0
           /\ \A y \in Items \ {n} : entries'[y] = entries[y]
           /\ SequentialInv'
  <1>1. /\ pc = "walk" /\ mode = "sequential" /\ UNCHANGED pool
        /\ Parent[n] \in visited /\ entries[n] = 0
        /\ n \notin Rest(n)
        /\ LeftOver = Rest(n) \cup {n}
        /\ \A i \in DOMAIN stack :
               /\ Consumed(n)[i].dir = stack[i].dir /\ stack[i].dir \in visited
               /\ Consumed(n)[i].left \subseteq Listing(Consumed(n)[i].dir)
        /\ \A i, j \in DOMAIN stack : stack[i].dir = stack[j].dir => i = j
    BY ReadFacts
  <1>2. DOMAIN stack' = DOMAIN stack
    BY <1>1, ConsumedFacts DEF CoreInv, ReadName
  <1>3. LeftOver' = Rest(n)
    <2>1. LeftOver' = UNION {stack'[i].left : i \in DOMAIN stack'}
      BY <1>1, LeftOnStackNext DEF CoreInv
    <2> QED BY <1>2, <2>1 DEF Rest
  <1>4. entries \in [Items -> Nat] /\ n \in Items /\ Names \subseteq Items
    BY DEF CoreInv, TypeOK, Items
  <1>5. /\ \A y \in Items : entries[y] > 0 => entries'[y] > 0
        /\ \A y \in Items \ {n} : entries'[y] = entries[y]
        /\ entries'[n] <= 1
    <2>1. CASE entries' = entries
      BY <1>1, <2>1
    <2>2. CASE entries' = Push(entries, n)
      BY <1>1, <1>4, <2>2, PushFacts
    <2> QED BY <2>1, <2>2
  <1>6. /\ \A i \in DOMAIN stack' : stack'[i].dir \in visited' /\ stack'[i].left \subseteq Listing(stack'[i].dir)
        /\ \A i, j \in DOMAIN stack' : stack'[i].dir = stack'[j].dir => i = j
    BY <1>1, <1>2
  <1>7. \A m \in Names : entries'[m] <= 1 /\ (entries'[m] > 0 => Parent[m] \in visited' /\ m \notin LeftOver')
    <2>1. \A m \in Names : entries[m] <= 1 /\ (entries[m] > 0 => Parent[m] \in visited /\ m \notin LeftOver)
      BY <1>1 DEF CoreInv, SequentialInv
    <2>2. ASSUME NEW m \in Names
          PROVE  entries'[m] <= 1 /\ (entries'[m] > 0 => Parent[m] \in visited' /\ m \notin LeftOver')
      <3>1. CASE m = n
        BY <1>1, <1>3, <1>5, <3>1
      <3>2. CASE m # n
        BY <1>1, <1>3, <1>4, <1>5, <2>1, <3>2
      <3> QED BY <3>1, <3>2
    <2> QED BY <2>2
  <1>8. SequentialInv'
    BY <1>1, <1>6, <1>7, OnceStep DEF CoreInv, ReadName
  <1> QED BY <1>3, <1>5, <1>8

LEMMA OnceDescended ==
    ASSUME CoreInv, NEW n \in Names, Descend(n)
    PROVE  /\ LeftOver' = Rest(n) \cup {k \in Names : Parent[k] = target[n]}
           /\ SequentialInv'
  <1> DEFINE d == target[n]
             m == Len(stack) + 1
  <1>1. /\ ReadName(n) /\ Descendable(n) /\ d \notin visited
        /\ visited' = visited \cup {d} /\ stack' = Append(Consumed(n), Frame(d))
        /\ entries' = entries
    BY DEF Descend
  <1>2. /\ pc = "walk" /\ mode = "sequential" /\ UNCHANGED pool
        /\ LeftOver = Rest(n) \cup {n}
        /\ \A i \in DOMAIN stack :
               /\ Consumed(n)[i].dir = stack[i].dir /\ stack[i].dir \in visited
               /\ Consumed(n)[i].left \subseteq Listing(Consumed(n)[i].dir)
        /\ \A i, j \in DOMAIN stack : stack[i].dir = stack[j].dir => i = j
    BY <1>1, ReadFacts
  <1>3. d \in Dirs
    BY <1>1, KindFacts DEF Descendable
  <1>4. /\ DOMAIN stack' = DOMAIN stack \cup {m} /\ m \notin DOMAIN stack
        /\ \A i \in DOMAIN stack : stack'[i] = Consumed(n)[i]
        /\ stack'[m] = Frame(d)
    <2>1. TypeOK /\ n \in top.left
      BY <1>1 DEF CoreInv, ReadName
    <2>2. d \in Dirs /\ stack' = Append(Consumed(n), Frame(d))
      BY <1>1, <1>3
    <2>3. pc = "walk" /\ mode = "sequential"
      BY <1>2
    <2> HIDE DEF d
    <2> QED BY <2>1, <2>2, <2>3, AppendedFacts
  <1>5. Frame(d).dir = d /\ Frame(d).left = {k \in Names : Parent[k] = d}
    BY <1>3, FrameFacts
  <1> HIDE DEF d, m
  <1>6. LeftOver' = Rest(n) \cup {k \in Names : Parent[k] = d}
    <2>1. LeftOver' = UNION {stack'[i].left : i \in DOMAIN stack'}
      BY <1>2, LeftOnStackNext DEF CoreInv
    <2>2. ASSUME NEW k
          PROVE  k \in LeftOver' <=> k \in Rest(n) \/ k \in {b \in Names : Parent[b] = d}
      <3>1. k \in LeftOver' <=> \E i \in DOMAIN stack' : k \in stack'[i].left
        BY <2>1
      <3>2. k \in Rest(n) <=> \E i \in DOMAIN stack : k \in Consumed(n)[i].left
        BY DEF Rest
      <3>3. k \in stack'[m].left <=> k \in {b \in Names : Parent[b] = d}
        BY <1>4, <1>5
      <3> QED BY <1>4, <3>1, <3>2, <3>3
    <2> QED BY <2>2
  <1>7. \A i \in DOMAIN stack' : stack'[i].dir \in visited' /\ stack'[i].left \subseteq Listing(stack'[i].dir)
    BY <1>1, <1>2, <1>4, <1>5 DEF Listing
  <1>8. \A i, j \in DOMAIN stack' : stack'[i].dir = stack'[j].dir => i = j
    BY <1>1, <1>2, <1>4, <1>5
  <1>9. \A k \in Names : entries'[k] <= 1 /\ (entries'[k] > 0 => Parent[k] \in visited' /\ k \notin LeftOver')
    BY <1>1, <1>2, <1>6 DEF CoreInv, SequentialInv
  <1>10. SequentialInv'
    BY <1>1, <1>2, <1>7, <1>8, <1>9, OnceStep DEF CoreInv, ReadName
  <1> QED BY <1>6, <1>10 DEF d

(* A step that opens, closes and reads no directory. *)
LEMMA OnceElse ==
    ASSUME CoreInv, UNCHANGED given, mode = "sequential", UNCHANGED <<stack, pool>>, visited \subseteq visited',
           \A n \in Names : entries'[n] = entries[n]
    PROVE  SequentialInv'
  <1>1. LeftOver' = LeftOver
    BY DEF LeftOver, pool
  <1>2. stack' = stack
    OBVIOUS
  <1>3. /\ \A i \in DOMAIN stack' : stack'[i].dir \in visited' /\ stack'[i].left \subseteq Listing(stack'[i].dir)
        /\ \A i, j \in DOMAIN stack' : stack'[i].dir = stack'[j].dir => i = j
    BY <1>2 DEF CoreInv, SequentialInv
  <1>4. \A n \in Names : entries'[n] <= 1 /\ (entries'[n] > 0 => Parent[n] \in visited' /\ n \notin LeftOver')
    BY <1>1 DEF CoreInv, SequentialInv
  <1> QED BY <1>3, <1>4, OnceStep DEF CoreInv

LEMMA OnceNext ==
    ASSUME CoreInv, [Next]_vars
    PROVE  SequentialInv'
  <1>1. UNCHANGED given /\ mode' = mode
    BY GivenNext DEF CoreInv, given
  <1> SUFFICES ASSUME mode = "sequential"
               PROVE  SequentialInv'
    BY <1>1 DEF SequentialInv
  <1>2. CASE PathOpened
    BY <1>2, OnceOpened
  <1>3. CASE EndDirectory \/ StopDirectory
    BY <1>3, OnceClosed
  <1>4. ASSUME NEW n \in Names, HandleEntry(n)
        PROVE  SequentialInv'
    <2>1. CASE Descend(n)
      BY <2>1, OnceDescended
    <2>2. CASE SkipName(n) \/ NameRejected(n) \/ AppendEntry(n) \/ PassBy(n) \/ DescendFails(n)
      <3>1. /\ ReadName(n) /\ stack' = Consumed(n) /\ visited \subseteq visited'
            /\ entries' = entries \/ entries' = Push(entries, n)
        BY <2>2 DEF SkipName, NameRejected, AppendEntry, PassBy, DescendFails
      <3> QED BY <3>1, OnceRead
    <2> QED BY <1>4, <2>1, <2>2 DEF HandleEntry
  <1>5. CASE PathFile
    <2>1. /\ pc = "paths" /\ paths # <<>> /\ UNCHANGED <<walk, pool>>
          /\ entries' = entries \/ entries' = Push(entries, path)
      BY <1>5 DEF PathFile, TakePath
    <2>2. path \in Paths /\ path \in Items /\ entries \in [Items -> Nat] /\ Names \subseteq Items \ {path}
      BY <2>1, HereFacts, TreeAssumption DEF CoreInv, TypeOK, Items
    <2>3. \A n \in Names : entries'[n] = entries[n]
      BY <2>1, <2>2, PushFacts
    <2> QED BY <1>1, <2>1, <2>3, OnceElse DEF walk
  <1>6. CASE PathNotOpened
    <2>1. UNCHANGED <<stack, pool>> /\ visited \subseteq visited' /\ entries' = entries
      BY <1>6 DEF PathNotOpened
    <2> QED BY <1>1, <2>1, OnceElse
  <1>7. CASE \/ SetupFails \/ NextInput \/ EndInputs \/ EndPaths \/ PathRejected \/ PathPseudo
             \/ Signal \/ Ended \/ UNCHANGED vars
    <2>1. UNCHANGED <<walk, pool>> /\ entries' = entries
      BY <1>7 DEF SetupFails, NextInput, EndInputs, EndPaths, PathRejected, PathPseudo, Signal, Ended, vars, results
    <2> QED BY <1>1, <2>1, OnceElse DEF walk
  <1>8. /\ ~ PathSpread /\ ~ PathTooLong /\ ~ EndWalk /\ ~ WalkFails /\ ~ EndMerge /\ ~ MergeFails
        /\ \A w \in Workers : ~ Merge(w) /\ ~ Worker(w)
    <2>1. pc # "merge"
      BY DEF CoreInv, CursorInv
    <2> QED BY <2>1 DEF PathSpread, PathTooLong, EndWalk, WalkFails, Walking, EndMerge, MergeFails, Merge, Worker,
                        TakeDirectory, CloseDirectory, WorkerSkips, WorkerRejects, WorkerVisits, WorkerQueues, ListName
  <1> QED BY <1>2, <1>3, <1>4, <1>5, <1>6, <1>7, <1>8 DEF Next, Main

LEMMA CoreNext ==
    ASSUME CoreInv, [Next]_vars
    PROVE  CoreInv' /\ UNCHANGED given
  BY GivenNext, TypeNext, CursorNext, DeviceNext, OnceNext DEF CoreInv

LEMMA CoreInit ==
    ASSUME Init
    PROVE  CoreInv
  <1>1. TypeOK /\ GivenInv
    BY TypeInit
  <1>2. pc = "inputs" /\ paths = <<>> /\ rootDevice = None /\ stack = <<>> /\ entries = NoEntries
    BY DEF Init
  <1>3. CursorInv /\ DeviceInv
    BY <1>2 DEF CursorInv, DeviceInv
  <1>4. LeftOver = {}
    BY DEF Init, LeftOver, Idle
  <1>5. SequentialInv
    BY <1>2, <1>4 DEF Init, SequentialInv, NoEntries, Items
  <1> QED BY <1>1, <1>3, <1>5 DEF CoreInv

LEMMA CoreInvariance == Spec => []CoreInv
  <1>1. Init => CoreInv
    BY CoreInit
  <1>2. CoreInv /\ [Next]_vars => CoreInv'
    BY CoreNext
  <1> QED BY <1>1, <1>2, PTL DEF Spec

-----------------------------------------------------------------------------
(* Steps that list nothing and open nothing *)

LEMMA FoundKept ==
    ASSUME entries' = entries, \A w \in Workers : slot'[w].entries = slot[w].entries
    PROVE  Found' = Found
  BY DEF Found

(* What every step has in common. *)
LEMMA NextBasics ==
    ASSUME IndInv, [Next]_vars
    PROVE  /\ UNCHANGED given
           /\ TypeOK' /\ GivenInv' /\ CursorInv' /\ DeviceInv' /\ SequentialInv' /\ OneBoundary'
           /\ asked' = asked /\ asked' = Wanted'
  <1>1. CoreInv
    BY DEF IndInv, CoreInv
  <1>2. CoreInv' /\ UNCHANGED given
    BY <1>1, CoreNext
  <1>3. OneBoundary' = OneBoundary /\ asked' = asked /\ Wanted' = Wanted
    BY <1>2, SameGiven, SameReach
  <1> QED BY <1>2, <1>3 DEF IndInv, CoreInv, SoundInv

LEMMA SoundKept ==
    ASSUME IndInv, UNCHANGED given, UNCHANGED <<entries, pool, stack>>
    PROVE  SoundInv'
  <1>1. Found' = Found /\ LeftOver' = LeftOver /\ pending' = pending
    BY FoundKept DEF pool, LeftOver
  <1>2. asked' = asked /\ Wanted' = Wanted /\ Reached' = Reached
    BY SameGiven, SameReach
  <1> QED BY <1>1, <1>2 DEF IndInv, SoundInv

(* One more path is dealt with: a file is listed or too small, a directory   *)
(* was visited before.                                                       *)
Dealt ==
    /\ Handled' = Handled \cup {Here}
    /\ PathAt(Here) = path
    /\ BigFile(path) => path \in Found
    /\ Here \in RootPositions => mode = "sequential" /\ target[path] \in visited

LEMMA ControlStep ==
    ASSUME IndInv, [Next]_vars,
           UNCHANGED <<entries, pool, stack, printed>>,
           visited' = visited \/ Trouble',
           pc' = "walk" <=> pc = "walk",
           mode = "parallel" /\ merged # {} => pc' \in {"merge", "done", "failed"},
           mode = "parallel" /\ pc' = "done" => merged = Workers,
           Trouble => Trouble',
           Trouble' \/ Handled' = Handled \/ Dealt
    PROVE  IndInv'
  <1>0. /\ UNCHANGED given
        /\ TypeOK' /\ GivenInv' /\ CursorInv' /\ DeviceInv' /\ SequentialInv' /\ OneBoundary'
    BY NextBasics
  <1>1. /\ Found' = Found /\ LeftOver' = LeftOver /\ pending' = pending /\ frame' = frame /\ slot' = slot
        /\ merged' = merged /\ lost' = lost /\ mode' = mode /\ target' = target
        /\ stack' = stack /\ entries' = entries /\ printed' = printed
    BY <1>0, FoundKept DEF pool, LeftOver, given
  <1>3. SoundInv'
    BY <1>0, SoundKept
  <1>5. ParallelInv'
    BY <1>1 DEF IndInv, ParallelInv
  <1>6. SequentialComplete' /\ ParallelComplete'
    <2>1. CASE Trouble'
      BY <2>1 DEF SequentialComplete, ParallelComplete
    <2>2. CASE ~ Trouble'
      <3>1. visited' = visited /\ ~ Trouble
        BY <2>2
      <3>2. /\ \A n : Followed(n)' = Followed(n)
            /\ \A R : Reachable(R)' = Reachable(R)
        BY <1>0, SameReach
      <3>3. /\ \A x : BigFile(x)' = BigFile(x) /\ WantedName(x)' = WantedName(x)
            /\ \A q : PathAt(q)' = PathAt(q)
            /\ RootPositions' = RootPositions /\ KnownPseudo' = KnownPseudo
        BY <1>0, SameGiven
      <3>4. Handled' = Handled \/ Dealt
        BY <2>2
      <3>5. SequentialComplete'
        <4> SUFFICES ASSUME mode = "sequential"
                     PROVE  SequentialComplete'
          BY <1>1 DEF SequentialComplete
        <4>1. \A n \in Names : Parent[n] \in visited' \ KnownPseudo' => n \in LeftOver' \/ Settled(n)'
          BY <1>1, <3>1, <3>2, <3>3 DEF IndInv, SequentialComplete, Settled
        <4>2. \A q \in Handled : /\ BigFile(PathAt(q)) => PathAt(q) \in Found
                                 /\ q \in RootPositions => target[PathAt(q)] \in visited
          BY <3>1 DEF IndInv, SequentialComplete
        <4>3. \A q \in Handled' : /\ BigFile(PathAt(q)) => PathAt(q) \in Found
                                  /\ q \in RootPositions => target[PathAt(q)] \in visited
          BY <3>4, <4>2 DEF Dealt
        <4>4. \A q \in Handled' : /\ BigFile(PathAt(q))' => PathAt(q)' \in Found'
                                  /\ q \in RootPositions' => target'[PathAt(q)'] \in visited'
          BY <1>1, <3>1, <3>3, <4>3
        <4> QED BY <4>1, <4>4 DEF SequentialComplete
      <3>6. ParallelComplete'
        <4> SUFFICES ASSUME mode = "parallel"
                     PROVE  ParallelComplete'
          BY <1>1 DEF ParallelComplete
        <4>1. Work' = Work
          BY <1>1, <3>2 DEF Work
        <4>2. \A q \in Handled' :
                /\ BigFile(PathAt(q)) => PathAt(q) \in Found
                /\ q \in RootPositions =>
                       \A n \in Names : WantedName(n) /\ Parent[n] \in Reachable({target[PathAt(q)]}) =>
                           n \in Found \/ n \in LeftOver \/ Parent[n] \in Reachable(Work)
          BY <3>1, <3>4 DEF IndInv, ParallelComplete, Dealt
        <4>3. \A q \in Handled' :
                /\ BigFile(PathAt(q))' => PathAt(q)' \in Found'
                /\ q \in RootPositions' =>
                       \A n \in Names : WantedName(n)' /\ Parent[n] \in Reachable({target[PathAt(q)]}) =>
                           n \in Found' \/ n \in LeftOver' \/ Parent[n] \in Reachable(Work)
          BY <1>1, <3>3, <4>2
        <4>4. \A q : Reachable({target[PathAt(q)]})' = Reachable({target[PathAt(q)]})
          BY <1>1, <3>2, <3>3
        <4>5. Reachable(Work)' = Reachable(Work)
          BY <3>2, <4>1
        <4> QED BY <4>3, <4>4, <4>5 DEF ParallelComplete
      <3> QED BY <3>5, <3>6
    <2> QED BY <2>1, <2>2
  <1> QED BY <1>0, <1>3, <1>5, <1>6 DEF IndInv

LEMMA ErrorIsTrouble ==
    ASSUME TypeOK, Error
    PROVE  Trouble'
  <1>1. errorCount' > 0
    BY DEF TypeOK, Error
  <1> QED BY <1>1 DEF Trouble

LEMMA TroubleKept ==
    ASSUME errorCount' = errorCount, signalled => signalled', lost => lost',
           \A w \in Workers : slot[w].errors > 0 => slot'[w].errors > 0
    PROVE  Trouble => Trouble'
  BY DEF Trouble

LEMMA InputStep ==
    ASSUME IndInv, SetupFails \/ NextInput \/ EndInputs \/ EndPaths
    PROVE  IndInv'
  <1>0. Next
    BY DEF Next, Main
  <1>1. /\ UNCHANGED <<given, entries, pool, stack, visited, printed, rootDevice, signalled>>
        /\ pc \in {"inputs", "paths"} /\ pc' # "walk"
    BY DEF SetupFails, NextInput, EndInputs, EndPaths, results, walk
  <1>2. /\ visited' = visited /\ rootDevice' = rootDevice /\ lost' = lost /\ slot' = slot
        /\ signalled' = signalled
    BY <1>1 DEF pool
  <1>3. mode = "parallel" => merged = {}
    BY <1>1 DEF IndInv, ParallelInv
  <1>4. mode = "parallel" => pc' # "done"
    BY <1>1 DEF SetupFails, NextInput, EndInputs, EndPaths
  <1>5. Trouble => Trouble'
    <2>1. CASE errorCount' = errorCount
      BY <1>2, <2>1, TroubleKept
    <2>2. CASE Error
      BY <2>2, ErrorIsTrouble DEF IndInv
    <2> QED BY <2>1, <2>2 DEF SetupFails, NextInput, EndInputs, EndPaths, results
  <1>6. Trouble' \/ Handled' = Handled
    <2>1. CASE NextInput /\ Error
      BY <2>1, ErrorIsTrouble DEF IndInv
    <2>2. CASE NextInput /\ paths' = inputs[next].paths
      BY <1>1, <2>2, BeginInput DEF NextInput, IndInv
    <2>3. CASE next' = next /\ paths' = paths
      <3>1. Positions' = Positions
        BY <1>1, SameGiven
      <3>2. inputs' = inputs
        BY <1>1 DEF given
      <3> QED BY <2>3, <3>1, <3>2 DEF Handled, ToCome
    <2> QED BY <2>1, <2>2, <2>3 DEF SetupFails, NextInput, EndInputs, EndPaths
  <1> QED BY <1>0, <1>1, <1>2, <1>3, <1>4, <1>5, <1>6, ControlStep

(* A path that is not walked and not listed. *)
LEMMA PathStep ==
    ASSUME IndInv,
           \/ PathRejected \/ PathPseudo \/ PathNotOpened \/ PathTooLong
           \/ PathFile /\ UNCHANGED entries
    PROVE  IndInv'
  <1>0. Next
    BY DEF Next, Main
  <1>1. /\ UNCHANGED <<given, entries, pool, stack, printed, signalled>>
        /\ pc = "paths" /\ paths # <<>> /\ paths' = Tail(paths) /\ next' = next /\ pc' = "paths"
    BY DEF PathRejected, PathPseudo, PathNotOpened, PathTooLong, PathFile, TakePath, walk
  <1>2. lost' = lost /\ slot' = slot /\ signalled' = signalled
    BY <1>1 DEF pool
  <1>3. mode = "parallel" => merged = {}
    BY <1>1 DEF IndInv, ParallelInv
  <1>6. Trouble => Trouble'
    <2>1. CASE errorCount' = errorCount
      BY <1>2, <2>1, TroubleKept
    <2>2. CASE Error
      BY <2>2, ErrorIsTrouble DEF IndInv
    <2> QED BY <2>1, <2>2 DEF PathRejected, PathPseudo, PathNotOpened, PathTooLong, PathFile
  <1>7. visited' = visited \/ Trouble'
    <2>1. CASE PathNotOpened
      BY <2>1, ErrorIsTrouble DEF PathNotOpened, IndInv
    <2> QED BY <2>1 DEF PathRejected, PathPseudo, PathTooLong, PathFile, walk
  <1>8. Handled' = Handled \cup {Here} /\ PathAt(Here) = path
    BY <1>1, TakeHere, HereFacts DEF IndInv
  <1>9. Trouble' \/ Dealt
    <2>1. CASE Error
      BY <2>1, ErrorIsTrouble DEF IndInv
    <2>2. CASE PathPseudo
      <3>1. Kind(path) = "dir" /\ target[path] \in KnownPseudo
        BY <2>2 DEF PathPseudo
      <3>2. Here \notin RootPositions
        BY <1>8, <3>1 DEF RootPositions
      <3> QED BY <1>8, <3>1, <3>2 DEF Dealt, BigFile
    <2>3. CASE PathNotOpened /\ target[path] \in visited
      BY <1>8, <2>3 DEF Dealt, BigFile, PathNotOpened, WalkablePath
    <2>4. CASE PathFile /\ UNCHANGED entries
      <3>1. Kind(path) = "file"
        BY <2>4 DEF PathFile
      <3>2. Error \/ target[path] \in SmallFiles
        <4>1. entries' # Push(entries, path)
          <5>1. path \in Items /\ entries \in [Items -> Nat] /\ entries' = entries
            BY <1>1, <2>4, HereFacts DEF IndInv, TypeOK, Items
          <5>2. Push(entries, path)[path] = entries[path] + 1
            BY <5>1, PushFacts
          <5>3. entries[path] + 1 # entries[path]
            BY <5>1
          <5> QED BY <5>1, <5>2, <5>3
        <4> QED BY <2>4, <4>1 DEF PathFile
      <3>3. Here \notin RootPositions
        BY <1>8, <3>1 DEF RootPositions
      <3> QED BY <1>8, <2>1, <3>1, <3>2, <3>3 DEF Dealt, BigFile
    <2> QED BY <2>1, <2>2, <2>3, <2>4 DEF PathRejected, PathNotOpened, PathTooLong
  <1> QED BY <1>0, <1>1, <1>3, <1>6, <1>7, <1>9, ControlStep

LEMMA EndStep ==
    ASSUME IndInv, EndMerge \/ MergeFails \/ Signal \/ Ended \/ UNCHANGED vars
    PROVE  IndInv'
  <1>0. [Next]_vars
    BY DEF Next, Main
  <1>1. /\ UNCHANGED <<given, entries, pool, stack, visited, printed, rootDevice, next, paths, errorCount>>
        /\ pc' = "walk" <=> pc = "walk"
    BY DEF EndMerge, MergeFails, Signal, Ended, vars, cursor, results, walk
  <1>2. /\ visited' = visited /\ rootDevice' = rootDevice /\ lost' = lost /\ slot' = slot
        /\ next' = next /\ paths' = paths /\ inputs' = inputs
    BY <1>1 DEF pool, given
  <1>3. Trouble => Trouble'
    <2>1. signalled => signalled'
      BY DEF EndMerge, MergeFails, Signal, Ended, vars
    <2> QED BY <1>1, <1>2, <2>1, TroubleKept
  <1>4. Handled' = Handled
    <2>1. Positions' = Positions
      BY <1>1, SameGiven
    <2> QED BY <1>2, <2>1 DEF Handled, ToCome
  <1>5. /\ mode = "parallel" /\ merged # {} => pc' \in {"merge", "done", "failed"}
        /\ mode = "parallel" /\ pc' = "done" => merged = Workers
    BY DEF IndInv, ParallelInv, EndMerge, MergeFails, Signal, Ended, vars, cursor
  <1> QED BY <1>0, <1>1, <1>2, <1>3, <1>4, <1>5, ControlStep

-----------------------------------------------------------------------------
(* Paths that are listed or walked *)

(* While a directory is walked the device is known, it is that of everything *)
(* that is reachable, and the tests of the walks select what the command     *)
(* line asks for.                                                            *)
LEMMA NameFacts ==
    ASSUME IndInv, rootDevice # None, NEW n \in Names, Parent[n] \in Reached
    PROVE  /\ WantedName(n) <=> /\ Visible(n) /\ Kind(n) = "file"
                                /\ AcceptsFile(n) /\ target[n] \notin SmallFiles
           /\ Followed(n) <=> /\ Visible(n) /\ Kind(n) = "dir" /\ AcceptsDirectory(n)
                              /\ target[n] \notin KnownPseudo /\ ~ Foreign(target[n])
           /\ Followed(n) => target[n] \in Dirs
  <1>1. GivenInv /\ (options.oneFs => Device[Parent[n]] = rootDevice)
    BY ReachedDevice DEF IndInv
  <1>2. Foreign(target[n]) <=> ~ (options.oneFs => Device[target[n]] = Device[Parent[n]])
    BY <1>1 DEF Foreign
  <1> QED BY <1>1, <1>2, FilterFacts, KindFacts DEF WantedName, BigFile, Followed

LEMMA WantedFacts ==
    Wanted = {x \in {PathAt(q) : q \in Positions} : BigFile(x)}
                 \cup {n \in Names : Parent[n] \in Reached /\ WantedName(n)}
  BY DEF Wanted, Reached, Roots

LEMMA RootsFacts ==
    ASSUME GivenInv
    PROVE  Roots \in SUBSET Dirs /\ Roots \subseteq Reached /\ Reached \in SUBSET Dirs
  <1>1. Roots \in SUBSET Dirs
    BY PositionFacts DEF Roots
  <1> QED BY <1>1, ReachContains DEF Reached

LEMMA ListPathStep ==
    ASSUME IndInv, PathFile, entries' = Push(entries, path), target[path] \notin SmallFiles, UNCHANGED errorCount
    PROVE  IndInv'
  <1>0. Next
    BY DEF Next, Main
  <1>1. /\ UNCHANGED <<pool, walk, printed, signalled, rootDevice>>
        /\ pc = "paths" /\ paths # <<>> /\ paths' = Tail(paths) /\ next' = next /\ pc' = "paths"
        /\ Kind(path) = "file"
    BY DEF PathFile, TakePath
  <1>2. /\ UNCHANGED given /\ asked' = Wanted'
        /\ TypeOK' /\ GivenInv' /\ CursorInv' /\ DeviceInv' /\ SequentialInv' /\ OneBoundary'
    BY <1>0, NextBasics
  <1>3. /\ Here \in Positions /\ PathAt(Here) = path /\ path \in Paths /\ path \in Items
        /\ entries \in [Items -> Nat]
    BY <1>1, HereFacts DEF IndInv, TypeOK, Items
  <1>4. /\ \A y \in Items : entries'[y] > 0 <=> entries[y] > 0 \/ y = path
        /\ \A y \in Items \ {path} : entries'[y] = entries[y]
    BY <1>3, PushFacts
  <1>6. /\ mode' = mode /\ target' = target /\ inputs' = inputs /\ stack' = stack /\ visited' = visited
        /\ pending' = pending /\ frame' = frame /\ slot' = slot /\ merged' = merged /\ lost' = lost
        /\ LeftOver' = LeftOver /\ signalled' = signalled /\ printed' = printed /\ rootDevice' = rootDevice
    BY <1>1, <1>2 DEF given, walk, pool, LeftOver
  <1>7. Found' = Found \cup {path}
    BY <1>3, <1>4, <1>6 DEF Found
  <1>8. Names \subseteq Items \ {path}
    BY <1>3, TreeAssumption DEF Items
  <1>9. /\ Wanted' = Wanted /\ Reached' = Reached
        /\ \A n : Followed(n)' = Followed(n)
        /\ \A R : Reachable(R)' = Reachable(R)
    BY <1>2, SameReach
  <1>10. /\ \A x : BigFile(x)' = BigFile(x) /\ WantedName(x)' = WantedName(x)
         /\ \A q : PathAt(q)' = PathAt(q)
         /\ RootPositions' = RootPositions /\ KnownPseudo' = KnownPseudo
    BY <1>2, SameGiven
  <1>11. Handled' = Handled \cup {Here} /\ Here \notin RootPositions
    BY <1>1, <1>2, <1>3, TakeHere DEF IndInv, RootPositions
  <1>12. Trouble => Trouble'
    BY <1>6, TroubleKept
  <1>14. SoundInv'
    <2>1. path \in Wanted
      BY <1>1, <1>3, WantedFacts DEF BigFile
    <2> QED BY <1>2, <1>6, <1>7, <1>9, <2>1 DEF IndInv, SoundInv
  <1>16. SequentialComplete'
    <2> SUFFICES ASSUME mode = "sequential", ~ Trouble'
                 PROVE  SequentialComplete'
      BY <1>6 DEF SequentialComplete
    <2>1. ~ Trouble
      BY <1>12
    <2>2. \A n \in Names : Parent[n] \in visited' \ KnownPseudo' => n \in LeftOver' \/ Settled(n)'
      BY <1>4, <1>6, <1>8, <1>9, <1>10, <2>1 DEF IndInv, SequentialComplete, Settled
    <2>3. \A q \in Handled' : /\ BigFile(PathAt(q)) => PathAt(q) \in Found'
                              /\ q \in RootPositions => target[PathAt(q)] \in visited
      BY <1>3, <1>7, <1>11, <2>1 DEF IndInv, SequentialComplete
    <2>4. \A q \in Handled' : /\ BigFile(PathAt(q))' => PathAt(q)' \in Found'
                              /\ q \in RootPositions' => target'[PathAt(q)'] \in visited'
      BY <1>6, <1>10, <2>3
    <2> QED BY <2>2, <2>4 DEF SequentialComplete
  <1>17. ParallelInv'
    BY <1>1, <1>6 DEF IndInv, ParallelInv
  <1>18. ParallelComplete'
    <2> SUFFICES ASSUME mode = "parallel", ~ Trouble'
                 PROVE  ParallelComplete'
      BY <1>6 DEF ParallelComplete
    <2>1. ~ Trouble
      BY <1>12
    <2>2. Work' = Work
      BY <1>6, <1>9 DEF Work
    <2>3. \A q \in Handled' :
            /\ BigFile(PathAt(q)) => PathAt(q) \in Found'
            /\ q \in RootPositions =>
                   \A n \in Names : WantedName(n) /\ Parent[n] \in Reachable({target[PathAt(q)]}) =>
                       n \in Found' \/ n \in LeftOver \/ Parent[n] \in Reachable(Work)
      BY <1>3, <1>7, <1>11, <2>1 DEF IndInv, ParallelComplete
    <2>4. \A q \in Handled' :
            /\ BigFile(PathAt(q))' => PathAt(q)' \in Found'
            /\ q \in RootPositions' =>
                   \A n \in Names : WantedName(n)' /\ Parent[n] \in Reachable({target[PathAt(q)]}) =>
                       n \in Found' \/ n \in LeftOver' \/ Parent[n] \in Reachable(Work)
      BY <1>6, <1>10, <2>3
    <2>5. \A q : Reachable({target[PathAt(q)]})' = Reachable({target[PathAt(q)]})
      BY <1>6, <1>9, <1>10
    <2>6. Reachable(Work)' = Reachable(Work)
      BY <1>9, <2>2
    <2> QED BY <2>4, <2>5, <2>6 DEF ParallelComplete
  <1> QED BY <1>2, <1>14, <1>16, <1>17, <1>18 DEF IndInv

-----------------------------------------------------------------------------
(* The sequential walk *)

(* What a step of the sequential walk has to show, in terms of the tree as    *)
(* it was before the step.                                                    *)
LEMMA SequentialStep ==
    ASSUME IndInv, Next, mode = "sequential", UNCHANGED pool,
           Found' \subseteq asked,
           \A n \in LeftOver' : Parent[n] \in Reached,
           ~ Trouble' =>
               /\ \A n \in Names : Parent[n] \in visited' \ KnownPseudo =>
                      \/ n \in LeftOver'
                      \/ (WantedName(n) => entries'[n] > 0) /\ (Followed(n) => target[n] \in visited')
               /\ \A q \in Handled' : /\ BigFile(PathAt(q)) => PathAt(q) \in Found'
                                      /\ q \in RootPositions => target[PathAt(q)] \in visited'
    PROVE  IndInv'
  <1>1. /\ UNCHANGED given /\ asked' = Wanted'
        /\ TypeOK' /\ GivenInv' /\ CursorInv' /\ DeviceInv' /\ SequentialInv' /\ OneBoundary'
    BY NextBasics
  <1>2. /\ mode' = mode /\ target' = target /\ pending' = pending /\ frame' = frame /\ slot' = slot
    BY <1>1 DEF pool, given
  <1>3. /\ Wanted' = Wanted /\ Reached' = Reached
        /\ \A n : Followed(n)' = Followed(n)
    BY <1>1, SameReach
  <1>4. /\ \A x : BigFile(x)' = BigFile(x) /\ WantedName(x)' = WantedName(x)
        /\ \A q : PathAt(q)' = PathAt(q)
        /\ RootPositions' = RootPositions /\ KnownPseudo' = KnownPseudo
    BY <1>1, SameGiven
  <1>6. SoundInv'
    BY <1>1, <1>2, <1>3 DEF IndInv, SoundInv
  <1>8. SequentialComplete'
    <2> SUFFICES ASSUME ~ Trouble'
                 PROVE  SequentialComplete'
      BY DEF SequentialComplete
    <2>1. \A n \in Names : Parent[n] \in visited' \ KnownPseudo' => n \in LeftOver' \/ Settled(n)'
      BY <1>2, <1>3, <1>4 DEF Settled
    <2>2. \A q \in Handled' : /\ BigFile(PathAt(q))' => PathAt(q)' \in Found'
                              /\ q \in RootPositions' => target'[PathAt(q)'] \in visited'
      BY <1>2, <1>4
    <2> QED BY <2>1, <2>2 DEF SequentialComplete
  <1>9. ParallelInv' /\ ParallelComplete'
    BY <1>2 DEF ParallelInv, ParallelComplete
  <1> QED BY <1>1, <1>6, <1>8, <1>9 DEF IndInv

LEMMA PathOpenedStep ==
    ASSUME IndInv, PathOpened
    PROVE  IndInv'
  <1>0. Next
    BY DEF Next, Main
  <1> DEFINE d == target[path]
  <1>1. /\ pc = "paths" /\ paths # <<>> /\ paths' = Tail(paths) /\ next' = next /\ mode = "sequential"
        /\ WalkablePath /\ d \notin visited /\ visited' = visited \cup {d} /\ stack' = <<Frame(d)>>
        /\ UNCHANGED pool /\ entries' = entries /\ errorCount' = errorCount /\ signalled' = signalled
    BY DEF PathOpened, TakePath
  <1>2. UNCHANGED given
    BY <1>0, NextBasics
  <1>3. Here \in RootPositions /\ d \in Dirs \ KnownPseudo
    BY <1>1, <1>2, DeviceLearnt DEF IndInv
  <1>4. Handled' = Handled \cup {Here} /\ PathAt(Here) = path
    BY <1>1, <1>2, TakeHere, HereFacts DEF IndInv
  <1>5. slot' = slot /\ lost' = lost
    BY <1>1 DEF pool
  <1>6. Found' = Found
    BY <1>1, <1>5, FoundKept
  <1>8. LeftOver = {} /\ LeftOver' = {n \in Names : Parent[n] = d}
    BY OnceOpened DEF IndInv, CoreInv
  <1>10. d \in Reached
    <2>1. d \in Roots
      BY <1>3, <1>4 DEF Roots
    <2> QED BY <2>1, RootsFacts DEF IndInv
  <1>11. Trouble => Trouble'
    BY <1>1, <1>5, TroubleKept
  <1> HIDE DEF d
  <1>15. ASSUME ~ Trouble'
         PROVE  /\ \A n \in Names : Parent[n] \in visited' \ KnownPseudo =>
                      \/ n \in LeftOver'
                      \/ (WantedName(n) => entries'[n] > 0) /\ (Followed(n) => target[n] \in visited')
                /\ \A q \in Handled' : /\ BigFile(PathAt(q)) => PathAt(q) \in Found'
                                       /\ q \in RootPositions => target[PathAt(q)] \in visited'
    <2>1. /\ \A n \in Names : Parent[n] \in visited \ KnownPseudo => n \in LeftOver \/ Settled(n)
          /\ \A q \in Handled : /\ BigFile(PathAt(q)) => PathAt(q) \in Found
                                /\ q \in RootPositions => target[PathAt(q)] \in visited
      BY <1>1, <1>11, <1>15 DEF IndInv, SequentialComplete
    <2>2. ~ BigFile(path)
      BY <1>1 DEF BigFile, WalkablePath
    <2>3. target[PathAt(Here)] \in visited'
      BY <1>1, <1>4 DEF d
    <2>4. \A n \in Names : Parent[n] \in visited' \ KnownPseudo =>
              \/ n \in LeftOver'
              \/ (WantedName(n) => entries'[n] > 0) /\ (Followed(n) => target[n] \in visited')
      BY <1>1, <1>8, <2>1 DEF Settled
    <2>5. \A q \in Handled' : /\ BigFile(PathAt(q)) => PathAt(q) \in Found'
                              /\ q \in RootPositions => target[PathAt(q)] \in visited'
      BY <1>1, <1>4, <1>6, <2>1, <2>2, <2>3
    <2> QED BY <2>4, <2>5
  <1>16. Found' \subseteq asked /\ \A n \in LeftOver' : Parent[n] \in Reached
    BY <1>6, <1>8, <1>10 DEF IndInv, SoundInv
  <1> QED BY <1>0, <1>1, <1>15, <1>16, SequentialStep

LEMMA CloseStep ==
    ASSUME IndInv, EndDirectory \/ StopDirectory
    PROVE  IndInv'
  <1>0. Next
    BY DEF Next, Main
  <1>1. /\ pc = "walk" /\ mode = "sequential" /\ Return
        /\ next' = next /\ paths' = paths /\ rootDevice' = rootDevice /\ signalled' = signalled
        /\ entries' = entries /\ visited' = visited /\ UNCHANGED pool /\ UNCHANGED given
    BY DEF EndDirectory, StopDirectory, results
  <1>2. slot' = slot /\ lost' = lost /\ inputs' = inputs
    BY <1>1 DEF pool, given
  <1>3. Found' = Found
    BY <1>1, <1>2, FoundKept
  <1>7. LeftOver' \subseteq LeftOver /\ (top.left = {} => LeftOver' = LeftOver)
    BY OnceClosed DEF IndInv, CoreInv
  <1>9. Trouble' \/ (LeftOver' = LeftOver /\ ~ Trouble)
    <2>1. CASE EndDirectory /\ Error
      BY <2>1, ErrorIsTrouble DEF IndInv
    <2>2. CASE top.left = {} /\ errorCount' = errorCount
      <3>1. Trouble => Trouble'
        BY <1>1, <1>2, <2>2, TroubleKept
      <3>2. LeftOver' = LeftOver
        BY <1>7, <2>2
      <3> QED BY <3>1, <3>2
    <2>3. CASE signalled
      BY <1>1, <2>3 DEF Trouble
    <2> QED BY <2>1, <2>2, <2>3 DEF EndDirectory, StopDirectory
  <1>10. Handled' = Handled
    <2>1. Positions' = Positions
      BY <1>1, SameGiven
    <2> QED BY <1>1, <1>2, <2>1 DEF Handled, ToCome
  <1>13. ASSUME ~ Trouble'
         PROVE  /\ \A n \in Names : Parent[n] \in visited' \ KnownPseudo =>
                      \/ n \in LeftOver'
                      \/ (WantedName(n) => entries'[n] > 0) /\ (Followed(n) => target[n] \in visited')
                /\ \A q \in Handled' : /\ BigFile(PathAt(q)) => PathAt(q) \in Found'
                                       /\ q \in RootPositions => target[PathAt(q)] \in visited'
    BY <1>1, <1>3, <1>9, <1>10, <1>13 DEF IndInv, SequentialComplete, Settled
  <1>14. Found' \subseteq asked /\ \A n \in LeftOver' : Parent[n] \in Reached
    BY <1>3, <1>7 DEF IndInv, SoundInv
  <1> QED BY <1>0, <1>1, <1>13, <1>14, SequentialStep

(* A name is read and no directory is opened: without trouble it is settled. *)
LEMMA ReadStep ==
    ASSUME IndInv, Next, NEW n \in Names, ReadName(n), stack' = Consumed(n),
           visited \subseteq visited',
           entries' = entries \/ (WantedName(n) /\ entries' = Push(entries, n)),
           ~ Trouble' =>
               /\ ~ Trouble
               /\ visited' \subseteq visited \cup KnownPseudo
               /\ WantedName(n) => entries'[n] > 0
               /\ Followed(n) => target[n] \in visited'
    PROVE  IndInv'
  <1>0. CoreInv
    BY DEF IndInv, CoreInv
  <1>1. /\ mode = "sequential" /\ UNCHANGED pool
        /\ Handled' = Handled /\ LeftOver = Rest(n) \cup {n} /\ n \notin Rest(n)
    BY <1>0, ReadFacts
  <1>2. Parent[n] \in Reached
    BY <1>1 DEF IndInv, SoundInv
  <1>3. /\ LeftOver' = Rest(n)
        /\ \A y \in Items : entries[y] > 0 => entries'[y] > 0
        /\ \A y \in Items \ {n} : entries'[y] = entries[y]
    BY <1>0, OnceRead
  <1>4. LeftOver = LeftOver' \cup {n} /\ n \notin LeftOver'
    BY <1>1, <1>3
  <1>5. entries \in [Items -> Nat] /\ n \in Items /\ Names \subseteq Items
    BY DEF IndInv, TypeOK, Items
  <1>6. \A y \in Items : entries'[y] > 0 => entries[y] > 0 \/ (y = n /\ WantedName(n))
    BY <1>3
  <1>7. slot' = slot
    BY <1>1 DEF pool
  <1>8. Found \subseteq Found' /\ Found' \subseteq asked
    <2>1. Found \subseteq Found'
      BY <1>3, <1>7 DEF Found
    <2>2. \A x \in Found' : x \in Found \/ (x = n /\ WantedName(n))
      BY <1>6, <1>7 DEF Found
    <2>3. WantedName(n) => n \in Wanted
      BY <1>2, WantedFacts
    <2> QED BY <2>1, <2>2, <2>3 DEF IndInv, SoundInv
  <1>9. \A m \in LeftOver' : Parent[m] \in Reached
    BY <1>4 DEF IndInv, SoundInv
  <1>12. ASSUME ~ Trouble'
         PROVE  /\ \A m \in Names : Parent[m] \in visited' \ KnownPseudo =>
                      \/ m \in LeftOver'
                      \/ (WantedName(m) => entries'[m] > 0) /\ (Followed(m) => target[m] \in visited')
                /\ \A q \in Handled' : /\ BigFile(PathAt(q)) => PathAt(q) \in Found'
                                       /\ q \in RootPositions => target[PathAt(q)] \in visited'
    <2>1. /\ \A m \in Names : Parent[m] \in visited \ KnownPseudo => m \in LeftOver \/ Settled(m)
          /\ \A q \in Handled : /\ BigFile(PathAt(q)) => PathAt(q) \in Found
                                /\ q \in RootPositions => target[PathAt(q)] \in visited
      BY <1>1, <1>12 DEF IndInv, SequentialComplete
    <2>2. ASSUME NEW m \in Names, Parent[m] \in visited' \ KnownPseudo
          PROVE  \/ m \in LeftOver'
                 \/ (WantedName(m) => entries'[m] > 0) /\ (Followed(m) => target[m] \in visited')
      <3>1. CASE m = n
        BY <1>12, <3>1
      <3>2. CASE m # n
        <4>1. m \in LeftOver' \/ Settled(m)
          BY <1>4, <1>12, <2>1, <2>2, <3>2
        <4> QED BY <1>3, <1>5, <4>1 DEF Settled
      <3> QED BY <3>1, <3>2
    <2>3. \A q \in Handled' : /\ BigFile(PathAt(q)) => PathAt(q) \in Found'
                              /\ q \in RootPositions => target[PathAt(q)] \in visited'
      BY <1>1, <1>8, <2>1
    <2> QED BY <2>2, <2>3
  <1> QED BY <1>1, <1>8, <1>9, <1>12, SequentialStep

LEMMA DescendStep ==
    ASSUME IndInv, NEW n \in Names, Descend(n)
    PROVE  IndInv'
  <1>0. Next
    BY DEF Next, Main, HandleEntry
  <1> DEFINE d == target[n]
  <1>1. /\ ReadName(n) /\ Descendable(n) /\ ~ Foreign(d) /\ d \notin visited \cup KnownPseudo
        /\ visited' = visited \cup {d} /\ stack' = Append(Consumed(n), Frame(d))
        /\ entries' = entries /\ errorCount' = errorCount
    BY DEF Descend
  <1>4. CoreInv
    BY DEF IndInv, CoreInv
  <1>2. /\ mode = "sequential" /\ UNCHANGED pool /\ rootDevice # None
        /\ Handled' = Handled /\ LeftOver = Rest(n) \cup {n}
    BY <1>1, <1>4, ReadFacts
  <1>5. Parent[n] \in Reached
    BY <1>2 DEF IndInv, SoundInv
  <1>3. Followed(n) /\ d \in Dirs /\ Kind(n) = "dir"
    BY <1>1, <1>2, <1>5, NameFacts DEF Descendable
  <1>6. LeftOver' = Rest(n) \cup {k \in Names : Parent[k] = d}
    BY <1>4, OnceDescended
  <1> HIDE DEF d
  <1>7. slot' = slot /\ lost' = lost /\ signalled' = signalled
    BY <1>1, <1>2 DEF pool, ReadName
  <1>8. Found' = Found
    BY <1>1, <1>7, FoundKept
  <1>9. d \in Reached
    BY <1>3, <1>5, ReachStep DEF Reached, d
  <1>10. Found' \subseteq asked /\ \A k \in LeftOver' : Parent[k] \in Reached
    BY <1>2, <1>6, <1>8, <1>9 DEF IndInv, SoundInv
  <1>14. ASSUME ~ Trouble'
         PROVE  /\ \A k \in Names : Parent[k] \in visited' \ KnownPseudo =>
                      \/ k \in LeftOver'
                      \/ (WantedName(k) => entries'[k] > 0) /\ (Followed(k) => target[k] \in visited')
                /\ \A q \in Handled' : /\ BigFile(PathAt(q)) => PathAt(q) \in Found'
                                       /\ q \in RootPositions => target[PathAt(q)] \in visited'
    <2>0. ~ Trouble
      BY <1>1, <1>7, <1>14, TroubleKept
    <2>1. /\ \A k \in Names : Parent[k] \in visited \ KnownPseudo => k \in LeftOver \/ Settled(k)
          /\ \A q \in Handled : /\ BigFile(PathAt(q)) => PathAt(q) \in Found
                                /\ q \in RootPositions => target[PathAt(q)] \in visited
      BY <1>2, <2>0 DEF IndInv, SequentialComplete
    <2>2. ~ WantedName(n) /\ target[n] \in visited'
      BY <1>1, <1>3 DEF WantedName, BigFile, d
    <2>3. ASSUME NEW k \in Names, Parent[k] \in visited' \ KnownPseudo
          PROVE  \/ k \in LeftOver'
                 \/ (WantedName(k) => entries'[k] > 0) /\ (Followed(k) => target[k] \in visited')
      <3>1. CASE Parent[k] = d
        BY <1>6, <3>1
      <3>2. CASE k = n
        BY <2>2, <3>2
      <3>3. CASE Parent[k] # d /\ k # n
        <4>1. k \in LeftOver' \/ Settled(k)
          BY <1>1, <1>2, <1>6, <2>1, <2>3, <3>3
        <4> QED BY <1>1, <4>1 DEF Settled
      <3> QED BY <3>1, <3>2, <3>3
    <2>4. \A q \in Handled' : /\ BigFile(PathAt(q)) => PathAt(q) \in Found'
                              /\ q \in RootPositions => target[PathAt(q)] \in visited'
      BY <1>1, <1>2, <1>8, <2>1
    <2> QED BY <2>3, <2>4
  <1> QED BY <1>0, <1>2, <1>10, <1>14, SequentialStep

LEMMA HandleStep ==
    ASSUME IndInv, NEW n \in Names, HandleEntry(n)
    PROVE  IndInv'
  <1>0. Next
    BY DEF Next, Main
  <1>1. ReadName(n)
    BY DEF HandleEntry, SkipName, NameRejected, AppendEntry, PassBy, DescendFails, Descend
  <1>2. rootDevice # None /\ entries[n] = 0 /\ Parent[n] \in Reached
    <2>1. rootDevice # None /\ entries[n] = 0 /\ n \in LeftOver
      BY <1>1, ReadFacts DEF IndInv, CoreInv
    <2> QED BY <2>1 DEF IndInv, SoundInv
  <1>3. /\ WantedName(n) <=> /\ Visible(n) /\ Kind(n) = "file"
                             /\ AcceptsFile(n) /\ target[n] \notin SmallFiles
        /\ Followed(n) <=> /\ Visible(n) /\ Kind(n) = "dir" /\ AcceptsDirectory(n)
                           /\ target[n] \notin KnownPseudo /\ ~ Foreign(target[n])
    BY <1>2, NameFacts
  <1>4. slot' = slot /\ lost' = lost /\ signalled' = signalled
    BY <1>1 DEF ReadName, pool
  <1>5. errorCount' = errorCount => (Trouble => Trouble')
    BY <1>4, TroubleKept
  <1>6. Error => Trouble'
    BY ErrorIsTrouble DEF IndInv
  <1>7. CASE SkipName(n)
    <2>1. stack' = Consumed(n) /\ entries' = entries /\ errorCount' = errorCount /\ visited' = visited
      BY <1>7 DEF SkipName
    <2>2. ~ WantedName(n) /\ ~ Followed(n)
      BY <1>3, <1>7 DEF SkipName
    <2> QED BY <1>0, <1>1, <1>5, <2>1, <2>2, ReadStep
  <1>8. CASE NameRejected(n)
    <2>1. stack' = Consumed(n) /\ entries' = entries /\ Error /\ visited' = visited
      BY <1>8 DEF NameRejected
    <2> QED BY <1>0, <1>1, <1>6, <2>1, ReadStep
  <1>9. CASE AppendEntry(n)
    <2>1. stack' = Consumed(n) /\ visited' = visited /\ WantedName(n) /\ Kind(n) = "file"
      BY <1>3, <1>9 DEF AppendEntry
    <2>2. ~ Followed(n)
      BY <1>3, <2>1
    <2>3. CASE entries' = Push(entries, n) /\ errorCount' = errorCount
      <3>1. entries'[n] > 0
        <4>1. entries \in [Items -> Nat] /\ n \in Items
          BY DEF IndInv, TypeOK, Items
        <4>2. Push(entries, n)[n] = entries[n] + 1
          BY <4>1, PushFacts
        <4> QED BY <1>2, <2>3, <4>2
      <3> QED BY <1>0, <1>1, <1>5, <2>1, <2>2, <2>3, <3>1, ReadStep
    <2>4. CASE Error /\ entries' = entries
      BY <1>0, <1>1, <1>6, <2>1, <2>4, ReadStep
    <2> QED BY <1>9, <2>3, <2>4 DEF AppendEntry
  <1>10. CASE PassBy(n)
    <2>1. stack' = Consumed(n) /\ entries' = entries /\ errorCount' = errorCount /\ Kind(n) = "dir"
      BY <1>10 DEF PassBy, Descendable
    <2>2. ~ WantedName(n)
      BY <1>3, <2>1
    <2>3. visited \subseteq visited' /\ visited' \subseteq visited \cup KnownPseudo
      BY <1>10 DEF PassBy
    <2>4. Followed(n) => target[n] \in visited'
      BY <1>3, <1>10 DEF PassBy
    <2> QED BY <1>0, <1>1, <1>5, <2>1, <2>2, <2>3, <2>4, ReadStep
  <1>11. CASE DescendFails(n)
    <2>1. stack' = Consumed(n) /\ entries' = entries /\ Error /\ visited \subseteq visited'
      BY <1>11 DEF DescendFails
    <2> QED BY <1>0, <1>1, <1>6, <2>1, ReadStep
  <1>12. CASE Descend(n)
    BY <1>12, DescendStep
  <1> QED BY <1>7, <1>8, <1>9, <1>10, <1>11, <1>12 DEF HandleEntry

-----------------------------------------------------------------------------
(* The parallel walk *)

(* The work after a step, in terms of the tree as it was before the step. *)
WorkAfter == pending' \cup {target[n] : n \in {m \in LeftOver' : Followed(m)}}

LEMMA ParallelStep ==
    ASSUME IndInv, Next, mode = "parallel", UNCHANGED walk, ParallelInv',
           Found' \subseteq asked, pending' \subseteq Reached,
           \A n \in LeftOver' : Parent[n] \in Reached,
           ~ Trouble' =>
               \A q \in Handled' :
                   /\ BigFile(PathAt(q)) => PathAt(q) \in Found'
                   /\ q \in RootPositions =>
                          \A n \in Names : WantedName(n) /\ Parent[n] \in Reachable({target[PathAt(q)]}) =>
                              n \in Found' \/ n \in LeftOver' \/ Parent[n] \in Reachable(WorkAfter)
    PROVE  IndInv'
  <1>1. /\ UNCHANGED given /\ asked' = Wanted'
        /\ TypeOK' /\ GivenInv' /\ CursorInv' /\ DeviceInv' /\ SequentialInv' /\ OneBoundary'
    BY NextBasics
  <1>2. mode' = mode /\ target' = target
    BY <1>1 DEF given
  <1>3. /\ Wanted' = Wanted /\ Reached' = Reached
        /\ \A n : Followed(n)' = Followed(n)
        /\ \A R : Reachable(R)' = Reachable(R)
    BY <1>1, SameReach
  <1>4. /\ \A x : BigFile(x)' = BigFile(x) /\ WantedName(x)' = WantedName(x)
        /\ \A q : PathAt(q)' = PathAt(q)
        /\ RootPositions' = RootPositions
    BY <1>1, SameGiven
  <1>5. SoundInv'
    BY <1>1, <1>3 DEF IndInv, SoundInv
  <1>6. SequentialComplete'
    BY <1>2 DEF SequentialComplete
  <1>7. ParallelComplete'
    <2> SUFFICES ASSUME ~ Trouble'
                 PROVE  ParallelComplete'
      BY DEF ParallelComplete
    <2>1. Work' = WorkAfter
      BY <1>2, <1>3 DEF Work, WorkAfter
    <2>2. Reachable(Work)' = Reachable(WorkAfter)
      BY <1>3, <2>1
    <2>3. \A q : Reachable({target[PathAt(q)]})' = Reachable({target[PathAt(q)]})
      BY <1>2, <1>3, <1>4
    <2>4. \A q \in Handled' :
            /\ BigFile(PathAt(q))' => PathAt(q)' \in Found'
            /\ q \in RootPositions' =>
                   \A n \in Names : WantedName(n)' /\ Parent[n] \in Reachable({target[PathAt(q)]}) =>
                       n \in Found' \/ n \in LeftOver' \/ Parent[n] \in Reachable(WorkAfter)
      BY <1>4
    <2> QED BY <2>2, <2>3, <2>4 DEF ParallelComplete
  <1> QED BY <1>1, <1>5, <1>6, <1>7 DEF IndInv

(* The parallel walk has no directories open on the stack. *)
LEMMA LeftInFrames ==
    ASSUME IndInv, mode = "parallel"
    PROVE  /\ stack = <<>>
           /\ LeftOver = UNION {frame[w].left : w \in Workers}
           /\ stack' = stack => LeftOver' = UNION {frame'[w].left : w \in Workers}
           /\ LeftOver \subseteq Names
           /\ Work \in SUBSET Dirs
  <1>1. stack = <<>>
    BY DEF IndInv, TypeOK
  <1>0. DOMAIN stack = {} /\ (stack' = stack => DOMAIN stack' = {})
    BY <1>1
  <1>2. LeftOver = UNION {frame[w].left : w \in Workers}
    BY <1>0 DEF LeftOver
  <1>3. stack' = stack => LeftOver' = UNION {frame'[w].left : w \in Workers}
    BY <1>0 DEF LeftOver
  <1>4. LeftOver \subseteq Names
    <2>1. \A w \in Workers : frame[w].left \in SUBSET Names
      BY DEF IndInv, TypeOK
    <2> QED BY <1>2, <2>1
  <1>5. Work \in SUBSET Dirs
    <2>1. pending \subseteq Dirs
      BY DEF IndInv, TypeOK
    <2>2. \A n : Followed(n) => target[n] \in Dirs
      BY KindFacts DEF Followed
    <2> QED BY <2>1, <2>2 DEF Work
  <1> QED BY <1>1, <1>2, <1>3, <1>4, <1>5

LEMMA NothingReached ==
    Reachable({}) = {}
  <1>1. Reachable({}) \subseteq {}
    BY ReachLeast
  <1> QED BY <1>1

LEMMA PathSpreadStep ==
    ASSUME IndInv, PathSpread
    PROVE  IndInv'
  <1>0. Next
    BY DEF Next, Main
  <1> DEFINE d == target[path]
  <1>1. /\ pc = "paths" /\ paths # <<>> /\ paths' = Tail(paths) /\ next' = next /\ mode = "parallel"
        /\ WalkablePath /\ pending' = {d} /\ pc' = "walk"
        /\ UNCHANGED walk /\ entries' = entries /\ errorCount' = errorCount /\ signalled' = signalled
        /\ frame' = frame /\ slot' = slot /\ merged' = merged /\ lost' = lost
    BY DEF PathSpread, TakePath
  <1>2. UNCHANGED given /\ mode' = mode
    BY <1>0, NextBasics DEF given
  <1>3. Here \in RootPositions /\ d \in Dirs
    BY <1>1, <1>2, DeviceLearnt DEF IndInv
  <1>4. Handled' = Handled \cup {Here} /\ PathAt(Here) = path
    BY <1>1, <1>2, TakeHere, HereFacts DEF IndInv
  <1>5. Found' = Found
    BY <1>1, FoundKept
  <1>6. pending = {} /\ \A w \in Workers : frame[w] = Idle
    BY <1>1 DEF IndInv, ParallelInv
  <1>7. LeftOver = {} /\ LeftOver' = {}
    <2>1. /\ LeftOver = UNION {frame[w].left : w \in Workers}
          /\ LeftOver' = UNION {frame'[w].left : w \in Workers}
      BY <1>1, LeftInFrames DEF walk
    <2> QED BY <1>1, <1>6, <2>1 DEF Idle
  <1>8. Work = {} /\ WorkAfter = {d}
    BY <1>1, <1>6, <1>7 DEF Work, WorkAfter
  <1>9. d \in Reached
    <2>1. d \in Roots
      BY <1>3, <1>4 DEF Roots
    <2> QED BY <2>1, RootsFacts DEF IndInv
  <1>10. merged = {}
    BY <1>1 DEF IndInv, ParallelInv
  <1>11. ParallelInv'
    BY <1>1, <1>10 DEF ParallelInv
  <1>12. Found' \subseteq asked /\ pending' \subseteq Reached /\ \A n \in LeftOver' : Parent[n] \in Reached
    BY <1>1, <1>5, <1>7, <1>9 DEF IndInv, SoundInv
  <1>13. ASSUME ~ Trouble', NEW q \in Handled'
         PROVE  /\ BigFile(PathAt(q)) => PathAt(q) \in Found'
                /\ q \in RootPositions =>
                       \A n \in Names : WantedName(n) /\ Parent[n] \in Reachable({target[PathAt(q)]}) =>
                           n \in Found' \/ n \in LeftOver' \/ Parent[n] \in Reachable(WorkAfter)
    <2>0. ~ Trouble
      BY <1>1, <1>13, TroubleKept
    <2>1. CASE q = Here
      <3>1. ~ BigFile(PathAt(q))
        BY <1>1, <1>4, <2>1 DEF BigFile, WalkablePath
      <3>2. Reachable({target[PathAt(q)]}) = Reachable(WorkAfter)
        BY <1>4, <1>8, <2>1
      <3> QED BY <3>1, <3>2
    <2>2. CASE q \in Handled
      <3>1. /\ BigFile(PathAt(q)) => PathAt(q) \in Found
            /\ q \in RootPositions =>
                   \A n \in Names : WantedName(n) /\ Parent[n] \in Reachable({target[PathAt(q)]}) =>
                       n \in Found \/ n \in LeftOver \/ Parent[n] \in Reachable(Work)
        BY <1>1, <2>0, <2>2 DEF IndInv, ParallelComplete
      <3>2. Reachable(Work) = {}
        BY <1>8, NothingReached
      <3> QED BY <1>5, <1>7, <3>1, <3>2
    <2> QED BY <1>4, <2>1, <2>2
  <1> QED BY <1>0, <1>1, <1>11, <1>12, <1>13, ParallelStep

(* The steps inside a walk: what was found stays found, and what is found or  *)
(* queued was asked for.                                                      *)
LEMMA WalkerStep ==
    ASSUME IndInv, Next, Walking, UNCHANGED <<cursor, rootDevice, walk, merged, errorCount, signalled, entries, printed>>,
           lost => lost', \A w \in Workers : slot[w].errors > 0 => slot'[w].errors > 0,
           Found \subseteq Found',
           \A x \in Found' \ Found : x \in Names /\ WantedName(x) /\ Parent[x] \in Reached,
           pending' \subseteq Reached,
           \A n \in LeftOver' : Parent[n] \in Reached,
           ~ Trouble' =>
               \A n \in Names : WantedName(n) /\ (n \in LeftOver \/ Parent[n] \in Reachable(Work)) =>
                   n \in Found' \/ n \in LeftOver' \/ Parent[n] \in Reachable(WorkAfter)
    PROVE  IndInv'
  <1>1. pc = "walk" /\ pc' = "walk" /\ mode = "parallel" /\ next' = next /\ paths' = paths
    BY DEF Walking, cursor
  <1>2. UNCHANGED given /\ mode' = mode /\ inputs' = inputs
    BY NextBasics DEF given
  <1>5. merged = {} /\ merged' = {}
    BY <1>1 DEF IndInv, ParallelInv
  <1>6. ParallelInv'
    BY <1>1, <1>2, <1>5 DEF ParallelInv
  <1>7. Found' \subseteq asked
    BY WantedFacts DEF IndInv, SoundInv
  <1>8. Trouble => Trouble'
    BY TroubleKept
  <1>9. Handled' = Handled
    <2>1. Positions' = Positions
      BY <1>2, SameGiven
    <2> QED BY <1>1, <1>2, <2>1 DEF Handled, ToCome
  <1>10. ASSUME ~ Trouble'
         PROVE  \A q \in Handled' :
                   /\ BigFile(PathAt(q)) => PathAt(q) \in Found'
                   /\ q \in RootPositions =>
                          \A n \in Names : WantedName(n) /\ Parent[n] \in Reachable({target[PathAt(q)]}) =>
                              n \in Found' \/ n \in LeftOver' \/ Parent[n] \in Reachable(WorkAfter)
    <2>1. \A q \in Handled :
              /\ BigFile(PathAt(q)) => PathAt(q) \in Found
              /\ q \in RootPositions =>
                     \A n \in Names : WantedName(n) /\ Parent[n] \in Reachable({target[PathAt(q)]}) =>
                         n \in Found \/ n \in LeftOver \/ Parent[n] \in Reachable(Work)
      BY <1>1, <1>8, <1>10 DEF IndInv, ParallelComplete
    <2> QED BY <1>9, <1>10, <2>1
  <1> QED BY <1>1, <1>6, <1>7, <1>10, ParallelStep

(* What a worker has in hand, and what the others have. *)
LEMMA FrameStep ==
    ASSUME IndInv, Walking, UNCHANGED walk, NEW w \in Workers, NEW f, frame' = [frame EXCEPT ![w] = f]
    PROVE  \A n : n \in LeftOver' <=> n \in f.left \/ \E v \in Workers \ {w} : n \in frame[v].left
  <1>1. LeftOver' = UNION {frame'[v].left : v \in Workers}
    BY LeftInFrames DEF Walking, walk
  <1>2. frame \in [Workers -> [dir : Dirs \cup {None}, left : SUBSET Names]]
    BY DEF IndInv, TypeOK
  <1>3. frame'[w] = f /\ \A v \in Workers \ {w} : frame'[v] = frame[v]
    BY <1>2
  <1> QED BY <1>1, <1>3

LEMMA LeftNow ==
    ASSUME IndInv, Walking, NEW w \in Workers
    PROVE  \A n : n \in LeftOver <=> n \in frame[w].left \/ \E v \in Workers \ {w} : n \in frame[v].left
  <1>1. LeftOver = UNION {frame[v].left : v \in Workers}
    BY LeftInFrames DEF Walking
  <1> QED BY <1>1

(* More work reaches more. *)
LEMMA ReachMore ==
    ASSUME IndInv, mode = "parallel", TypeOK', UNCHANGED given, LeftOver' \subseteq Names, Work \subseteq WorkAfter
    PROVE  Reachable(Work) \subseteq Reachable(WorkAfter)
  <1>1. WorkAfter \in SUBSET Dirs
    <2>1. pending' \subseteq Dirs
      BY DEF TypeOK
    <2>2. \A n : Followed(n) => target[n] \in Dirs
      BY KindFacts DEF Followed
    <2> QED BY <2>1, <2>2 DEF WorkAfter
  <1>2. WorkAfter \subseteq Reachable(WorkAfter)
    BY <1>1, ReachContains
  <1> QED BY <1>1, <1>2, ReachWithin

LEMMA ErrorOfWorker ==
    ASSUME IndInv, NEW w \in Workers, OnError(w), entries' = entries
    PROVE  /\ Trouble' /\ Found' = Found
           /\ lost => lost'
           /\ \A v \in Workers : slot[v].errors > 0 => slot'[v].errors > 0
  <1>1. /\ \A v \in Workers : slot'[v].entries = slot[v].entries
        /\ \A v \in Workers : slot[v].errors > 0 => slot'[v].errors > 0
        /\ lost' \/ slot'[w].errors > 0
    BY OnErrorFacts DEF IndInv
  <1>2. lost => lost'
    BY DEF OnError
  <1>3. Trouble'
    BY <1>1 DEF Trouble
  <1> QED BY <1>1, <1>2, <1>3, FoundKept

LEMMA TakeStep ==
    ASSUME IndInv, NEW w \in Workers, TakeDirectory(w)
    PROVE  IndInv'
  <1>0. Next
    BY DEF Next, Worker
  <1>1. /\ Walking /\ frame[w] = Idle /\ entries' = entries
        /\ UNCHANGED <<cursor, rootDevice, walk, merged, errorCount, signalled, entries, printed>>
    BY DEF TakeDirectory, WorkerStep, results
  <1>2. PICK d \in pending :
          /\ pending' = pending \ {d}
          /\ \/ frame' = [frame EXCEPT ![w] = Frame(d)] /\ UNCHANGED <<slot, lost>>
             \/ May("open") /\ OnError(w) /\ UNCHANGED frame
    BY DEF TakeDirectory
  <1>3. d \in Dirs /\ d \in Reached /\ pending' \subseteq Reached
    BY <1>2 DEF IndInv, TypeOK, SoundInv
  <1>4. CASE frame' = [frame EXCEPT ![w] = Frame(d)] /\ slot' = slot /\ lost' = lost
    <2>1. Found' = Found
      BY <1>1, <1>4, FoundKept
    <2>2. Frame(d).left = {n \in Names : Parent[n] = d}
      BY <1>3, FrameFacts
    <2>3. \A n : n \in LeftOver' <=> n \in LeftOver \/ n \in {m \in Names : Parent[m] = d}
      <3>1. \A n : n \in LeftOver' <=> n \in Frame(d).left \/ \E v \in Workers \ {w} : n \in frame[v].left
        <4> DEFINE f == Frame(d)
        <4>1. frame' = [frame EXCEPT ![w] = f] /\ UNCHANGED walk
          BY <1>1, <1>4
        <4> HIDE DEF f
        <4>2. \A n : n \in LeftOver' <=> n \in f.left \/ \E v \in Workers \ {w} : n \in frame[v].left
          BY <1>1, <4>1, FrameStep
        <4> QED BY <4>2 DEF f
      <3>2. \A n : n \in LeftOver <=> n \in frame[w].left \/ \E v \in Workers \ {w} : n \in frame[v].left
        BY <1>1, LeftNow
      <3> QED BY <1>1, <2>2, <3>1, <3>2 DEF Idle
    <2>4. \A n \in LeftOver' : Parent[n] \in Reached
      BY <1>3, <2>3 DEF IndInv, SoundInv
    <2>5. ASSUME NEW n \in Names, n \in LeftOver \/ Parent[n] \in Reachable(Work)
          PROVE  n \in LeftOver' \/ Parent[n] \in Reachable(WorkAfter)
      <3>1. Work \in SUBSET Dirs
        BY <1>1, LeftInFrames DEF Walking
      <3>2. WorkAfter \in SUBSET Dirs
        <4>1. pending' \subseteq Dirs
          BY <1>2 DEF IndInv, TypeOK
        <4>2. \A m : Followed(m) => target[m] \in Dirs
          BY KindFacts DEF Followed
        <4> QED BY <4>1, <4>2 DEF WorkAfter
      <3>3. Work \ {d} \subseteq WorkAfter
        BY <1>2, <2>3 DEF Work, WorkAfter
      <3>4. \A m \in Names : Followed(m) /\ Parent[m] = d => target[m] \in WorkAfter
        BY <2>3 DEF WorkAfter
      <3>5. Reachable(Work) \subseteq Reachable(WorkAfter) \cup {d}
        BY <1>3, <3>1, <3>2, <3>3, <3>4, ReachOpened
      <3> QED BY <2>3, <2>5, <3>5
    <2> QED BY <1>0, <1>1, <1>3, <1>4, <2>1, <2>4, <2>5, WalkerStep
  <1>5. CASE OnError(w) /\ frame' = frame
    <2>1. LeftOver' = LeftOver
      BY <1>1, <1>5 DEF walk, LeftOver
    <2>2. \A n \in LeftOver' : Parent[n] \in Reached
      BY <2>1 DEF IndInv, SoundInv
    <2> QED BY <1>0, <1>1, <1>3, <1>5, <2>2, ErrorOfWorker, WalkerStep
  <1> QED BY <1>2, <1>4, <1>5

LEMMA CloseFrameStep ==
    ASSUME IndInv, NEW w \in Workers, CloseDirectory(w)
    PROVE  IndInv'
  <1>0. Next
    BY DEF Next, Worker
  <1>1. /\ Walking /\ pending' = pending /\ frame' = [frame EXCEPT ![w] = Idle] /\ entries' = entries
        /\ UNCHANGED <<cursor, rootDevice, walk, merged, errorCount, signalled, entries, printed>>
    BY DEF CloseDirectory, WorkerStep, results
  <1>2. \A n : n \in LeftOver' <=> \E v \in Workers \ {w} : n \in frame[v].left
    <2> DEFINE f == Idle
    <2>1. frame' = [frame EXCEPT ![w] = f] /\ UNCHANGED walk /\ f.left = {}
      BY <1>1 DEF Idle
    <2> HIDE DEF f
    <2>2. \A n : n \in LeftOver' <=> n \in f.left \/ \E v \in Workers \ {w} : n \in frame[v].left
      BY <1>1, <2>1, FrameStep
    <2> QED BY <2>1, <2>2
  <1>3. \A n : n \in LeftOver <=> n \in frame[w].left \/ \E v \in Workers \ {w} : n \in frame[v].left
    BY <1>1, LeftNow
  <1>4. pending' \subseteq Reached /\ \A n \in LeftOver' : Parent[n] \in Reached
    BY <1>1, <1>2, <1>3 DEF IndInv, SoundInv
  <1>5. CASE OnError(w)
    BY <1>0, <1>1, <1>4, <1>5, ErrorOfWorker, WalkerStep
  <1>6. CASE (frame[w].left = {} \/ signalled) /\ slot' = slot /\ lost' = lost
    <2>1. Found' = Found
      BY <1>1, <1>6, FoundKept
    <2>2. signalled => Trouble'
      BY <1>1 DEF Trouble
    <2>3. frame[w].left = {} => LeftOver' = LeftOver
      BY <1>2, <1>3
    <2>4. frame[w].left = {} => WorkAfter = Work
      BY <1>1, <2>3 DEF WorkAfter, Work
    <2> QED BY <1>0, <1>1, <1>4, <1>6, <2>1, <2>2, <2>3, <2>4, WalkerStep
  <1> QED BY <1>5, <1>6 DEF CloseDirectory

LEMMA ListStep ==
    ASSUME IndInv, NEW w \in Workers, NEW n \in Names,
           WorkerSkips(w, n) \/ WorkerRejects(w, n) \/ WorkerVisits(w, n) \/ WorkerQueues(w, n)
    PROVE  IndInv'
  <1>0. Next
    BY DEF Next, Worker
  <1>1. /\ ListName(w, n) /\ Walking /\ frame' = [frame EXCEPT ![w].left = @ \ {n}] /\ entries' = entries
        /\ n \in frame[w].left
        /\ UNCHANGED <<cursor, rootDevice, walk, merged, errorCount, signalled, entries, printed>>
    BY DEF WorkerSkips, WorkerRejects, WorkerVisits, WorkerQueues, ListName, WorkerStep, results
  <1>2. UNCHANGED given /\ TypeOK' /\ mode = "parallel"
    BY <1>0, <1>1, NextBasics DEF Walking
  <1>3. \A m : m \in LeftOver <=> m \in frame[w].left \/ \E v \in Workers \ {w} : m \in frame[v].left
    BY <1>1, LeftNow
  <1>4. \A m : m \in LeftOver' <=> m \in frame[w].left \ {n} \/ \E v \in Workers \ {w} : m \in frame[v].left
    <2>1. frame \in [Workers -> [dir : Dirs \cup {None}, left : SUBSET Names]]
      BY DEF IndInv, TypeOK
    <2> DEFINE f == [frame[w] EXCEPT !.left = frame[w].left \ {n}]
    <2>2. frame' = [frame EXCEPT ![w] = f] /\ UNCHANGED walk
      BY <1>1, <2>1
    <2>3. f.left = frame[w].left \ {n}
      BY <2>1
    <2> HIDE DEF f
    <2>4. \A m : m \in LeftOver' <=> m \in f.left \/ \E v \in Workers \ {w} : m \in frame[v].left
      BY <1>1, <2>2, FrameStep
    <2> QED BY <2>3, <2>4
  <1>5. LeftOver' \subseteq LeftOver /\ LeftOver \ {n} \subseteq LeftOver' /\ n \in LeftOver
    BY <1>1, <1>3, <1>4
  <1>6. Parent[n] \in Reached /\ \A m \in LeftOver' : Parent[m] \in Reached
    BY <1>5 DEF IndInv, SoundInv
  <1>7. LeftOver' \subseteq Names
    BY <1>2, <1>5, LeftInFrames
  <1>8. rootDevice # None
    BY <1>1 DEF IndInv, DeviceInv, Walking
  <1>9. /\ WantedName(n) <=> /\ Visible(n) /\ Kind(n) = "file"
                             /\ AcceptsFile(n) /\ target[n] \notin SmallFiles
        /\ Followed(n) <=> /\ Visible(n) /\ Kind(n) = "dir" /\ AcceptsDirectory(n)
                           /\ target[n] \notin KnownPseudo /\ ~ Foreign(target[n])
    BY <1>6, <1>8, NameFacts
  <1>10. ~ Followed(n) /\ pending' = pending => Work \subseteq WorkAfter
    BY <1>5 DEF Work, WorkAfter
  <1>11. Work \subseteq WorkAfter => Reachable(Work) \subseteq Reachable(WorkAfter)
    BY <1>2, <1>7, ReachMore
  <1>12. pending \subseteq Reached
    BY DEF IndInv, SoundInv
  <1>13. CASE WorkerSkips(w, n)
    <2>1. pending' = pending /\ slot' = slot /\ lost' = lost
      BY <1>13 DEF WorkerSkips
    <2>2. ~ WantedName(n) /\ ~ Followed(n)
      BY <1>9, <1>13 DEF WorkerSkips, Filter
    <2>3. Found' = Found
      BY <1>1, <2>1, FoundKept
    <2>4. \A m \in Names : WantedName(m) /\ (m \in LeftOver \/ Parent[m] \in Reachable(Work)) =>
                m \in Found' \/ m \in LeftOver' \/ Parent[m] \in Reachable(WorkAfter)
      BY <1>5, <1>10, <1>11, <2>1, <2>2
    <2> QED BY <1>0, <1>1, <1>6, <1>12, <2>1, <2>3, <2>4, WalkerStep
  <1>14. CASE WorkerRejects(w, n)
    <2>1. pending' = pending /\ OnError(w)
      BY <1>14 DEF WorkerRejects
    <2> QED BY <1>0, <1>1, <1>6, <1>12, <2>1, ErrorOfWorker, WalkerStep
  <1>15. CASE WorkerVisits(w, n)
    <2>1. pending' = pending /\ Visit(w, n) /\ Kind(n) = "file" /\ Visible(n) /\ Filter(n)
      BY <1>15 DEF WorkerVisits
    <2>2. WantedName(n) /\ ~ Followed(n)
      BY <1>9, <2>1 DEF Filter
    <2>3. n \in Items
      BY DEF Items
    <2>4. /\ \A v \in Workers : slot'[v].errors = slot[v].errors
          /\ \/ /\ slot'[w].entries = Push(slot[w].entries, n)
                /\ \A v \in Workers \ {w} : slot'[v] = slot[v]
                /\ lost' = lost
             \/ lost' /\ slot' = slot
      BY <2>1, <2>3, VisitFacts DEF IndInv
    <2>5. lost => lost'
      BY <2>1 DEF Visit
    <2>6. CASE /\ slot'[w].entries = Push(slot[w].entries, n)
               /\ \A v \in Workers \ {w} : slot'[v] = slot[v]
      <3>1. slot[w].entries \in [Items -> Nat]
        BY DEF IndInv, TypeOK
      <3>2. \A y \in Items : slot'[w].entries[y] > 0 <=> slot[w].entries[y] > 0 \/ y = n
        <4> DEFINE e == slot[w].entries
        <4>1. e \in [Items -> Nat]
          BY <3>1
        <4> HIDE DEF e
        <4>2. \A y \in Items : Push(e, n)[y] > 0 <=> e[y] > 0 \/ y = n
          BY <2>3, <4>1, PushFacts
        <4> QED BY <2>6, <4>2 DEF e
      <3>3. \A x \in Items : x \in Found' <=> x \in Found \/ x = n
        BY <1>1, <2>6, <3>2 DEF Found
      <3>4. Found \subseteq Items /\ Found' \subseteq Items
        BY DEF Found
      <3>5. Found' = Found \cup {n}
        BY <2>3, <3>3, <3>4
      <3>6. \A m \in Names : WantedName(m) /\ (m \in LeftOver \/ Parent[m] \in Reachable(Work)) =>
                m \in Found' \/ m \in LeftOver' \/ Parent[m] \in Reachable(WorkAfter)
        BY <1>5, <1>10, <1>11, <2>1, <2>2, <3>5
      <3> QED BY <1>0, <1>1, <1>6, <1>12, <2>1, <2>2, <2>4, <2>5, <3>5, <3>6, WalkerStep
    <2>7. CASE lost' /\ slot' = slot
      <3>1. Found' = Found /\ Trouble'
        BY <1>1, <2>7, FoundKept DEF Trouble
      <3> QED BY <1>0, <1>1, <1>6, <1>12, <2>1, <2>5, <2>7, <3>1, WalkerStep
    <2> QED BY <2>4, <2>6, <2>7
  <1>16. CASE WorkerQueues(w, n)
    <2>1. /\ pending' = pending \cup {target[n]} /\ slot' = slot /\ lost' = lost
          /\ Kind(n) = "dir" /\ Visible(n) /\ Filter(n)
      BY <1>16 DEF WorkerQueues
    <2>2. ~ WantedName(n) /\ Followed(n)
      BY <1>9, <2>1 DEF Filter
    <2>3. Found' = Found
      BY <1>1, <2>1, FoundKept
    <2>4. target[n] \in Reached
      BY <1>6, <2>2, ReachStep DEF Reached
    <2>5. Work \subseteq WorkAfter
      BY <1>5, <2>1 DEF Work, WorkAfter
    <2>6. \A m \in Names : WantedName(m) /\ (m \in LeftOver \/ Parent[m] \in Reachable(Work)) =>
                m \in Found' \/ m \in LeftOver' \/ Parent[m] \in Reachable(WorkAfter)
      BY <1>5, <1>11, <2>2, <2>5
    <2> QED BY <1>0, <1>1, <1>6, <1>12, <2>1, <2>3, <2>4, <2>6, WalkerStep
  <1> QED BY <1>13, <1>14, <1>15, <1>16

LEMMA EndWalkStep ==
    ASSUME IndInv, EndWalk \/ WalkFails
    PROVE  IndInv'
  <1>0. Next
    BY DEF Next, Main
  <1>1. /\ pc = "walk" /\ mode = "parallel" /\ pc' = "paths" /\ pending' = {}
        /\ \A w \in Workers : frame'[w] = Idle
        /\ UNCHANGED walk /\ next' = next /\ paths' = paths /\ signalled' = signalled
        /\ entries' = entries /\ errorCount' = errorCount
        /\ slot' = slot /\ merged' = merged
    BY DEF EndWalk, WalkFails, Walking, results
  <1>2. UNCHANGED given /\ mode' = mode /\ inputs' = inputs
    BY <1>0, NextBasics DEF given
  <1>3. merged = {}
    BY <1>1 DEF IndInv, ParallelInv
  <1>4. ParallelInv'
    BY <1>1, <1>2, <1>3 DEF ParallelInv
  <1>5. Found' = Found /\ LeftOver' = {}
    <2>1. LeftOver' = UNION {frame'[w].left : w \in Workers}
      BY <1>1, LeftInFrames DEF walk
    <2> QED BY <1>1, <2>1, FoundKept DEF Idle
  <1>6. Found' \subseteq asked /\ pending' \subseteq Reached /\ \A n \in LeftOver' : Parent[n] \in Reached
    BY <1>1, <1>5 DEF IndInv, SoundInv
  <1>7. Handled' = Handled
    <2>1. Positions' = Positions
      BY <1>2, SameGiven
    <2> QED BY <1>1, <1>2, <2>1 DEF Handled, ToCome
  <1>8. ASSUME ~ Trouble'
        PROVE  \A q \in Handled' :
                  /\ BigFile(PathAt(q)) => PathAt(q) \in Found'
                  /\ q \in RootPositions =>
                         \A n \in Names : WantedName(n) /\ Parent[n] \in Reachable({target[PathAt(q)]}) =>
                             n \in Found' \/ n \in LeftOver' \/ Parent[n] \in Reachable(WorkAfter)
    <2>1. EndWalk
      BY <1>8 DEF WalkFails, Trouble
    <2>2. lost' = lost /\ frame' = frame /\ (pending = {} \/ signalled)
      BY <2>1 DEF EndWalk
    <2>3. ~ Trouble
      BY <1>1, <1>8, <2>2, TroubleKept
    <2>4. pending = {} /\ LeftOver' = LeftOver
      BY <1>1, <2>2, <2>3 DEF Trouble, LeftOver, walk
    <2>5. WorkAfter = Work
      BY <1>1, <2>4 DEF WorkAfter, Work
    <2> QED BY <1>1, <1>5, <1>7, <2>3, <2>4, <2>5 DEF IndInv, ParallelComplete
  <1> QED BY <1>0, <1>1, <1>4, <1>6, <1>8, ParallelStep

(* Merging adds what the worker found, which counted as found before. *)
LEMMA MergeFinds ==
    ASSUME IndInv, NEW w \in Workers, Merge(w)
    PROVE  Found' = Found
  <1>1. slot' = slot
    BY DEF Merge
  <1>2. \A x \in Items : entries'[x] = entries[x] + slot[w].entries[x]
    BY TypeMerge DEF IndInv
  <1>3. \A x \in Items : entries[x] \in Nat /\ slot[w].entries[x] \in Nat
    BY DEF IndInv, TypeOK
  <1>4. ASSUME NEW x \in Items
        PROVE  entries'[x] > 0 <=> entries[x] > 0 \/ slot[w].entries[x] > 0
    <2>1. PICK a \in Nat, b \in Nat : entries[x] = a /\ slot[w].entries[x] = b
      BY <1>3
    <2>2. entries'[x] = a + b
      BY <1>2, <2>1
    <2> QED BY <2>1, <2>2
  <1> QED BY <1>1, <1>4 DEF Found

LEMMA MergeStep ==
    ASSUME IndInv, NEW w \in Workers, Merge(w)
    PROVE  IndInv'
  <1>0. Next
    BY DEF Next, Main
  <1>1. /\ pc = "merge" /\ w \notin merged /\ merged' = merged \cup {w} /\ printed' = printed + slot[w].errors
        /\ UNCHANGED <<cursor, walk>> /\ rootDevice' = rootDevice /\ signalled' = signalled /\ errorCount' = errorCount
        /\ pending' = pending /\ frame' = frame /\ slot' = slot /\ lost' = lost
    BY DEF Merge
  <1>2. UNCHANGED given /\ mode' = mode /\ inputs' = inputs
    BY <1>0, NextBasics DEF given
  <1>3. mode = "parallel" /\ next' = next /\ paths' = paths /\ pc' = "merge"
    BY <1>1 DEF IndInv, CursorInv, cursor
  <1>4. Handled' = Handled
    <2>1. \A q : ToCome(q)' <=> ToCome(q)
      BY <1>2, <1>3 DEF ToCome
    <2>2. Positions' = Positions
      BY <1>2, SameGiven
    <2> QED BY <2>1, <2>2 DEF Handled
  <1>5. Found' = Found
    BY MergeFinds
  <1>6. LeftOver' = LeftOver
    BY <1>1 DEF LeftOver, walk
  <1>7. WorkAfter = Work
    BY <1>1, <1>6 DEF WorkAfter, Work
  <1>9. ParallelInv'
    <2>1. printed \in Nat /\ slot[w].errors \in Nat
      BY DEF IndInv, TypeOK
    <2>2. PICK a \in Nat, b \in Nat : printed = a /\ slot[w].errors = b
      BY <2>1
    <2>3. printed' = a + b
      BY <1>1, <2>2
    <2>4. (printed > 0 => printed' > 0) /\ (slot[w].errors > 0 => printed' > 0)
      BY <2>2, <2>3
    <2>5. \A v \in merged' : slot'[v].errors > 0 => printed' > 0
      BY <1>1, <1>3, <2>4 DEF IndInv, ParallelInv
    <2> QED BY <1>1, <1>2, <1>3, <2>5 DEF IndInv, ParallelInv
  <1>10. Found' \subseteq asked /\ pending' \subseteq Reached /\ \A n \in LeftOver' : Parent[n] \in Reached
    BY <1>1, <1>5, <1>6 DEF IndInv, SoundInv
  <1>11. ASSUME ~ Trouble'
         PROVE  \A q \in Handled' :
                   /\ BigFile(PathAt(q)) => PathAt(q) \in Found'
                   /\ q \in RootPositions =>
                          \A n \in Names : WantedName(n) /\ Parent[n] \in Reachable({target[PathAt(q)]}) =>
                              n \in Found' \/ n \in LeftOver' \/ Parent[n] \in Reachable(WorkAfter)
    <2>1. ~ Trouble
      BY <1>1, <1>11, TroubleKept
    <2> QED BY <1>3, <1>4, <1>5, <1>6, <1>7, <2>1 DEF IndInv, ParallelComplete
  <1> QED BY <1>0, <1>1, <1>3, <1>9, <1>10, <1>11, ParallelStep

-----------------------------------------------------------------------------
(* The invariant holds *)

LEMMA IndInit ==
    ASSUME Init, OneBoundary
    PROVE  IndInv
  <1>1. TypeOK /\ GivenInv /\ CursorInv /\ DeviceInv /\ SequentialInv
    BY CoreInit DEF CoreInv
  <1>2. /\ pc = "inputs" /\ next = 1 /\ paths = <<>> /\ rootDevice = None /\ signalled = FALSE
        /\ entries = NoEntries /\ stack = <<>> /\ visited = {} /\ pending = {} /\ merged = {}
        /\ asked = Wanted
        /\ \A w \in Workers : frame[w] = Idle /\ slot[w] = [entries |-> NoEntries, errors |-> 0]
    BY DEF Init
  <1>3. \A x \in Items : NoEntries[x] = 0
    BY DEF NoEntries
  <1>4. Found = {}
    BY <1>2, <1>3 DEF Found
  <1>5. LeftOver = {}
    BY <1>2 DEF LeftOver, Idle
  <1>6. Handled = {}
    <2>1. ASSUME NEW q \in Positions
          PROVE  ToCome(q)
      <3>0. PICK i \in 1 .. Len(inputs) : \E k \in 1 .. Len(inputs[i].paths) : q = <<i, k>>
        BY <1>1, PositionFacts
      <3>1. PICK k \in 1 .. Len(inputs[i].paths) : q = <<i, k>>
        BY <3>0
      <3>2. q[1] = i /\ i >= 1
        BY <1>1, <3>1, CursorTypes
      <3> QED BY <1>2, <3>2 DEF ToCome
    <2> QED BY <2>1 DEF Handled
  <1>9. SoundInv
    BY <1>2, <1>4, <1>5 DEF SoundInv
  <1>11. SequentialComplete
    BY <1>2, <1>6 DEF SequentialComplete
  <1>12. ParallelInv
    BY <1>2 DEF ParallelInv
  <1>13. ParallelComplete
    BY <1>6 DEF ParallelComplete
  <1> QED BY <1>1, <1>9, <1>11, <1>12, <1>13 DEF IndInv

LEMMA IndNext ==
    ASSUME IndInv, [Next]_vars
    PROVE  IndInv'
  <1>1. CASE SetupFails \/ NextInput \/ EndInputs \/ EndPaths
    BY <1>1, InputStep
  <1>2. CASE PathFile
    <2>1. CASE entries' = Push(entries, path) /\ target[path] \notin SmallFiles /\ UNCHANGED errorCount
      BY <1>2, <2>1, ListPathStep
    <2>2. CASE UNCHANGED entries
      BY <1>2, <2>2, PathStep
    <2> QED BY <1>2, <2>1, <2>2 DEF PathFile
  <1>3. CASE PathRejected \/ PathPseudo \/ PathNotOpened \/ PathTooLong
    BY <1>3, PathStep
  <1>4. CASE PathOpened
    BY <1>4, PathOpenedStep
  <1>5. CASE PathSpread
    BY <1>5, PathSpreadStep
  <1>6. CASE EndDirectory \/ StopDirectory
    BY <1>6, CloseStep
  <1>7. CASE \E n \in Names : HandleEntry(n)
    BY <1>7, HandleStep
  <1>8. CASE EndWalk \/ WalkFails
    BY <1>8, EndWalkStep
  <1>9. CASE \E w \in Workers : Merge(w)
    BY <1>9, MergeStep
  <1>10. CASE EndMerge \/ MergeFails \/ Signal \/ Ended \/ UNCHANGED vars
    BY <1>10, EndStep
  <1>11. CASE \E w \in Workers : Worker(w)
    BY <1>11, TakeStep, CloseFrameStep, ListStep DEF Worker
  <1> QED BY <1>1, <1>2, <1>3, <1>4, <1>5, <1>6, <1>7, <1>8, <1>9, <1>10, <1>11 DEF Next, Main

LEMMA Invariance == Spec /\ OneBoundary => []IndInv
  <1>1. Init /\ OneBoundary => IndInv
    BY IndInit
  <1>2. IndInv /\ [Next]_vars => IndInv'
    BY IndNext
  <1> QED BY <1>1, <1>2, PTL DEF Spec

(* Types, and open directories exactly while a path is walked               *)
(* sequentially: bc_duplicate_walk_directory closes what it opened on every  *)
(* return, for every tree and every command line.                            *)
THEOREM TypeCorrect == Spec => []TypeOK
  <1>1. CoreInv => TypeOK
    BY DEF CoreInv
  <1> QED BY <1>1, CoreInvariance, PTL

(* The visited set keeps the sequential walk from listing a name twice,      *)
(* whatever the links, the overlaps of the command line and its devices.     *)
THEOREM SequentialOnce == Spec => []SequentialListsOnce
  <1>1. CoreInv => SequentialListsOnce
    BY DEF CoreInv, SequentialInv, SequentialListsOnce
  <1> QED BY <1>1, CoreInvariance, PTL

-----------------------------------------------------------------------------
(* Completeness *)

LEMMA AllHandled ==
    ASSUME IndInv, pc = "done", ~ Trouble
    PROVE  Handled = Positions
  <1>1. next > Len(inputs) /\ paths = <<>> /\ Len(paths) = 0
    BY DEF IndInv, CursorInv, Trouble
  <1>2. ASSUME NEW q \in Positions
        PROVE  ~ ToCome(q)
    <2>0. PICK i \in 1 .. Len(inputs) : \E k \in 1 .. Len(inputs[i].paths) : q = <<i, k>>
      BY PositionFacts DEF IndInv
    <2>1. PICK k \in 1 .. Len(inputs[i].paths) : q = <<i, k>>
      BY <2>0
    <2>2. /\ i \in Nat /\ k \in Nat /\ next \in Nat /\ Len(inputs) \in Nat /\ Len(inputs[i].paths) \in Nat
          /\ i <= Len(inputs) /\ k <= Len(inputs[i].paths)
      BY <2>1, CursorTypes DEF IndInv
    <2>3. ToCome(q) <=> i >= next \/ (i = next - 1 /\ k > Len(inputs[i].paths) - Len(paths))
      BY <2>1 DEF ToCome
    <2> QED BY <1>1, <2>2, <2>3
  <1> QED BY <1>2 DEF Handled

(* Depth first: the visited directories are closed under the names the walk  *)
(* follows, so they are all that can be reached.                             *)
LEMMA SequentialFindsAll ==
    ASSUME IndInv, pc = "done", ~ Trouble, mode = "sequential",
           NEW n \in Names, WantedName(n), Parent[n] \in Reached
    PROVE  n \in Found
  <1>1. Handled = Positions
    BY AllHandled
  <1>2. LeftOver = {}
    <2>1. stack = <<>>
      BY DEF IndInv, TypeOK
    <2> QED BY <2>1, LeftOnStack DEF IndInv
  <1>3. /\ \A m \in Names : Parent[m] \in visited \ KnownPseudo => Settled(m)
        /\ \A q \in RootPositions : target[PathAt(q)] \in visited
    <2>1. \A q \in RootPositions : q \in Positions
      BY PositionFacts DEF IndInv
    <2> QED BY <1>1, <1>2, <2>1 DEF IndInv, SequentialComplete
  <1> DEFINE S == visited \ KnownPseudo
  <1>4. S \in SUBSET Dirs
    BY DEF IndInv, TypeOK
  <1>5. Roots \subseteq S
    <2>1. \A q \in RootPositions : target[PathAt(q)] \in S
      BY <1>3, PositionFacts DEF IndInv
    <2> QED BY <2>1 DEF Roots
  <1>6. \A m \in Names : Followed(m) /\ Parent[m] \in S => target[m] \in S
    BY <1>3 DEF Settled, Followed
  <1>7. Reached \subseteq S
    <2> HIDE DEF S
    <2>1. Reachable(Roots) \subseteq S
      BY <1>4, <1>5, <1>6, ReachLeast
    <2> QED BY <2>1 DEF Reached
  <1>8. entries[n] > 0
    BY <1>3, <1>7 DEF Settled
  <1> QED BY <1>8 DEF Found, Items

(* Tree by tree: what the whole command line reaches is what its paths reach. *)
LEMMA ParallelFindsAll ==
    ASSUME IndInv, pc = "done", ~ Trouble, mode = "parallel",
           NEW n \in Names, WantedName(n), Parent[n] \in Reached
    PROVE  n \in Found
  <1>1. Handled = Positions
    BY AllHandled
  <1>2. pending = {} /\ \A w \in Workers : frame[w] = Idle
    BY DEF IndInv, ParallelInv
  <1>3. LeftOver = {}
    <2>1. LeftOver = UNION {frame[w].left : w \in Workers}
      BY LeftInFrames
    <2> QED BY <1>2, <2>1 DEF Idle
  <1>4. Reachable(Work) = {}
    <2>1. Work = {}
      BY <1>2, <1>3 DEF Work
    <2> QED BY <2>1, NothingReached
  <1> DEFINE S == {d \in Dirs : \E q \in RootPositions : d \in Reachable({target[PathAt(q)]})}
  <1>5. S \in SUBSET Dirs
    OBVIOUS
  <1>6. Roots \subseteq S
    <2>1. ASSUME NEW q \in RootPositions
          PROVE  target[PathAt(q)] \in S
      <3>1. target[PathAt(q)] \in Dirs
        BY PositionFacts DEF IndInv
      <3>2. {target[PathAt(q)]} \subseteq Reachable({target[PathAt(q)]})
        BY <3>1, ReachContains
      <3> QED BY <3>1, <3>2
    <2> QED BY <2>1 DEF Roots
  <1>7. ASSUME NEW m \in Names, Followed(m), Parent[m] \in S
        PROVE  target[m] \in S
    <2>1. PICK q \in RootPositions : Parent[m] \in Reachable({target[PathAt(q)]})
      BY <1>7
    <2>2. target[m] \in Reachable({target[PathAt(q)]})
      BY <1>7, <2>1, ReachStep
    <2>3. target[m] \in Dirs
      BY <1>7, KindFacts DEF Followed
    <2> QED BY <2>2, <2>3
  <1>8. Reached \subseteq S
    <2> HIDE DEF S
    <2>1. Reachable(Roots) \subseteq S
      BY <1>5, <1>6, <1>7, ReachLeast
    <2> QED BY <2>1 DEF Reached
  <1>9. PICK q \in RootPositions : Parent[n] \in Reachable({target[PathAt(q)]})
    BY <1>8
  <1>10. q \in Handled
    BY <1>1, PositionFacts DEF IndInv
  <1> QED BY <1>3, <1>4, <1>9, <1>10 DEF IndInv, ParallelComplete

LEMMA Complete ==
    ASSUME IndInv, pc = "done", ~ Trouble
    PROVE  Found = asked
  <1>1. Found \subseteq asked /\ asked = Wanted
    BY DEF IndInv, SoundInv
  <1>2. mode = "sequential" \/ mode = "parallel"
    BY DEF IndInv, TypeOK
  <1>3. \A n \in Names : WantedName(n) /\ Parent[n] \in Reached => n \in Found
    BY <1>2, SequentialFindsAll, ParallelFindsAll
  <1>4. \A q \in Positions : BigFile(PathAt(q)) => PathAt(q) \in Found
    BY <1>2, AllHandled DEF IndInv, SequentialComplete, ParallelComplete
  <1> QED BY <1>1, <1>3, <1>4, WantedFacts

(* A discovery that succeeds without one of the files the command line asks  *)
(* for has said why: the sequential walk in the collector of the application *)
(* or because it was interrupted; the parallel walk also by printing the     *)
(* errors of the workers, every one of them before it ends.  The two silent  *)
(* drops of the parallel walk are the only exceptions.                       *)
THEOREM MissingExplained == Spec /\ OneBoundary => []MissingFilesAreExplained
  <1>1. IndInv => MissingFilesAreExplained
    <2> SUFFICES ASSUME IndInv, pc = "done", Found # asked
                 PROVE  \/ errorCount > 0 \/ signalled
                        \/ mode = "parallel" /\ (printed > 0 \/ lost)
      BY DEF MissingFilesAreExplained
    <2>1. Trouble
      BY Complete
    <2>2. CASE mode = "sequential"
      <3>1. ~ lost /\ \A w \in Workers : slot[w].errors = 0
        BY <2>2 DEF IndInv, SequentialInv
      <3> QED BY <2>1, <3>1 DEF Trouble
    <2>3. CASE mode = "parallel"
      <3>1. \A w \in Workers : slot[w].errors > 0 => printed > 0
        BY <2>3 DEF IndInv, ParallelInv
      <3> QED BY <2>1, <2>3, <3>1 DEF Trouble
    <2> QED BY <2>2, <2>3 DEF IndInv, TypeOK
  <1> QED BY <1>1, Invariance, PTL

-----------------------------------------------------------------------------
(* Refinement of FindFiles *)

Status == IF pc \in {"done", "failed"} THEN pc ELSE "running"

(* A discovery that succeeds is complete or has met trouble. *)
AllFound == pc = "done" => Found = asked \/ Trouble

LEMMA InitRefines ==
    ASSUME Init
    PROVE  Abstract!Init
  <1>1. asked \subseteq Items
    BY TypeInit DEF TypeOK
  <1>2. \A x \in Items : NoEntries[x] = 0
    BY DEF NoEntries
  <1>3. Found = {}
    BY <1>2 DEF Init, Found
  <1>4. Trouble = FALSE
    BY DEF Init, Trouble
  <1>5. pc = "inputs"
    BY DEF Init
  <1> QED BY <1>1, <1>3, <1>4, <1>5 DEF Abstract!Init

(* What a step may do: nothing, meet trouble, find a file, or end. *)
LEMMA Nothing ==
    ASSUME asked' = asked, Found' = Found, Trouble' = Trouble, pc' = pc \/ (Status' = Status)
    PROVE  UNCHANGED Abstract!vars
  BY DEF Abstract!vars, Status

LEMMA Meets ==
    ASSUME asked' = asked, Found' = Found, Trouble', Status = "running", Status' = "running"
    PROVE  Abstract!Next
  <1>1. Trouble' = TRUE
    BY DEF Trouble
  <1>2. Abstract!MeetTrouble
    BY <1>1 DEF Abstract!MeetTrouble, Status
  <1> QED BY <1>2 DEF Abstract!Next

LEMMA Finds ==
    ASSUME IndInv', NEW x, Found' = Found \cup {x}, asked' = asked, Trouble' = Trouble,
           Status = "running", Status' = "running"
    PROVE  [Abstract!Next]_(Abstract!vars)
  <1>1. CASE x \in Found
    <2>1. Found' = Found
      BY <1>1
    <2> QED BY <2>1, Nothing
  <1>2. CASE x \notin Found
    <2>1. x \in asked
      BY DEF IndInv, SoundInv
    <2>2. Abstract!Find
      BY <1>2, <2>1 DEF Abstract!Find, Status
    <2> QED BY <2>2 DEF Abstract!Next
  <1> QED BY <1>1, <1>2

LEMMA Stops ==
    ASSUME AllFound', Found' = Found, asked' = asked, Trouble' = Trouble, Status = "running",
           pc' \in {"done", "failed"}
    PROVE  Abstract!Next
  <1>1. CASE pc' = "done"
    <2>1. Found = asked \/ Trouble
      BY <1>1 DEF AllFound
    <2>2. Abstract!Finish
      BY <1>1, <2>1 DEF Abstract!Finish, Status
    <2> QED BY <2>2 DEF Abstract!Next
  <1>2. CASE pc' = "failed"
    <2>1. Abstract!GiveUp
      BY <1>2 DEF Abstract!GiveUp, Status
    <2> QED BY <2>1 DEF Abstract!Next
  <1> QED BY <1>1, <1>2

LEMMA TroubleSame ==
    ASSUME errorCount' = errorCount, signalled' = signalled, lost' = lost,
           \A w \in Workers : slot'[w].errors = slot[w].errors
    PROVE  Trouble' = Trouble
  BY DEF Trouble

LEMMA InputRefines ==
    ASSUME IndInv, IndInv', AllFound', SetupFails \/ NextInput \/ EndInputs \/ EndPaths
    PROVE  [Abstract!Next]_(Abstract!vars)
  <1>1. /\ entries' = entries /\ slot' = slot /\ lost' = lost /\ signalled' = signalled
        /\ pc \in {"inputs", "paths"} /\ asked' = asked
    BY DEF SetupFails, NextInput, EndInputs, EndPaths, results, pool, given
  <1>2. Found' = Found /\ Status = "running"
    BY <1>1, FoundKept DEF Status
  <1>3. errorCount' = errorCount => Trouble' = Trouble
    BY <1>1, TroubleSame
  <1>4. CASE SetupFails \/ EndInputs \/ EndPaths
    <2>1. errorCount' = errorCount /\ pc' \in {"inputs", "merge", "done", "failed"}
      BY <1>4 DEF SetupFails, EndInputs, EndPaths, results
    <2>2. CASE pc' \in {"done", "failed"}
      BY <1>1, <1>2, <1>3, <2>1, <2>2, Stops
    <2>3. CASE pc' \in {"inputs", "merge"}
      <3>1. Status' = Status
        BY <1>2, <2>3 DEF Status
      <3> QED BY <1>1, <1>2, <1>3, <2>1, <3>1, Nothing
    <2> QED BY <2>1, <2>2, <2>3
  <1>5. CASE NextInput
    <2>1. pc' \in {"inputs", "paths"}
      BY <1>5 DEF NextInput
    <2>2. Status' = "running"
      BY <2>1 DEF Status
    <2>3. CASE Error
      <3>1. Trouble'
        BY <2>3, ErrorIsTrouble DEF IndInv
      <3> QED BY <1>1, <1>2, <2>2, <3>1, Meets
    <2>4. CASE errorCount' = errorCount
      BY <1>1, <1>2, <1>3, <2>2, <2>4, Nothing
    <2> QED BY <1>5, <2>3, <2>4 DEF NextInput
  <1> QED BY <1>4, <1>5

LEMMA PathRefines ==
    ASSUME IndInv, IndInv',
           PathRejected \/ PathFile \/ PathPseudo \/ PathOpened \/ PathNotOpened \/ PathSpread \/ PathTooLong
    PROVE  [Abstract!Next]_(Abstract!vars)
  <1>1. /\ slot' = slot /\ lost' = lost /\ signalled' = signalled
        /\ pc = "paths" /\ pc' \in {"paths", "walk"} /\ paths # <<>>
        /\ asked' = asked /\ (Error \/ errorCount' = errorCount)
    BY DEF PathRejected, PathFile, PathPseudo, PathOpened, PathNotOpened, PathSpread, PathTooLong, TakePath, pool, given
  <1>2. Status = "running" /\ Status' = "running"
    BY <1>1 DEF Status
  <1>3. errorCount' = errorCount => Trouble' = Trouble
    BY <1>1, TroubleSame
  <1>4. Error => Trouble'
    BY ErrorIsTrouble DEF IndInv
  <1>5. CASE entries' = entries
    <2>1. Found' = Found
      BY <1>1, <1>5, FoundKept
    <2> QED BY <1>1, <1>2, <1>3, <1>4, <2>1, Meets, Nothing
  <1>6. CASE PathFile /\ entries' = Push(entries, path) /\ errorCount' = errorCount
    <2>2. path \in Items /\ entries \in [Items -> Nat]
      BY <1>1, HereFacts DEF IndInv, TypeOK, Items
    <2>3. \A y \in Items : entries'[y] > 0 <=> entries[y] > 0 \/ y = path
      BY <1>6, <2>2, PushFacts
    <2>4. Found' = Found \cup {path}
      BY <1>1, <2>2, <2>3 DEF Found
    <2> QED BY <1>1, <1>2, <1>3, <1>6, <2>4, Finds
  <1>7. \/ entries' = entries
        \/ PathFile /\ entries' = Push(entries, path) /\ errorCount' = errorCount
    BY DEF PathRejected, PathFile, PathPseudo, PathOpened, PathNotOpened, PathSpread, PathTooLong
  <1> QED BY <1>5, <1>6, <1>7

LEMMA WalkRefines ==
    ASSUME IndInv, IndInv', EndDirectory \/ StopDirectory \/ \E n \in Names : HandleEntry(n)
    PROVE  [Abstract!Next]_(Abstract!vars)
  <1>1. /\ slot' = slot /\ lost' = lost /\ signalled' = signalled /\ asked' = asked
        /\ pc = "walk" /\ pc' \in {"paths", "walk"}
        /\ Error \/ errorCount' = errorCount
    BY DEF EndDirectory, StopDirectory, Return, HandleEntry, SkipName, NameRejected, AppendEntry, PassBy, DescendFails,
           Descend, ReadName, pool, results, cursor, given
  <1>2. Status = "running" /\ Status' = "running"
    BY <1>1 DEF Status
  <1>3. errorCount' = errorCount => Trouble' = Trouble
    BY <1>1, TroubleSame
  <1>4. Error => Trouble'
    BY ErrorIsTrouble DEF IndInv
  <1>5. CASE entries' = entries
    <2>1. Found' = Found
      BY <1>1, <1>5, FoundKept
    <2> QED BY <1>1, <1>2, <1>3, <1>4, <2>1, Meets, Nothing
  <1>6. ASSUME NEW n \in Names, entries' = Push(entries, n), errorCount' = errorCount
        PROVE  [Abstract!Next]_(Abstract!vars)
    <2>1. n \in Items /\ entries \in [Items -> Nat]
      BY DEF IndInv, TypeOK, Items
    <2>2. \A y \in Items : entries'[y] > 0 <=> entries[y] > 0 \/ y = n
      BY <1>6, <2>1, PushFacts
    <2>3. Found' = Found \cup {n}
      BY <1>1, <2>1, <2>2 DEF Found
    <2> QED BY <1>1, <1>2, <1>3, <1>6, <2>3, Finds
  <1>7. \/ entries' = entries
        \/ \E n \in Names : entries' = Push(entries, n) /\ errorCount' = errorCount
    BY DEF EndDirectory, StopDirectory, HandleEntry, SkipName, NameRejected, AppendEntry, PassBy, DescendFails,
           Descend, results
  <1> QED BY <1>5, <1>6, <1>7

LEMMA WorkerRefines ==
    ASSUME IndInv, IndInv', NEW w \in Workers, Worker(w)
    PROVE  [Abstract!Next]_(Abstract!vars)
  <1>1. /\ entries' = entries /\ errorCount' = errorCount /\ signalled' = signalled /\ asked' = asked
        /\ pc = "walk" /\ pc' = "walk"
    BY DEF Worker, TakeDirectory, CloseDirectory, WorkerSkips, WorkerRejects, WorkerVisits, WorkerQueues, ListName,
           WorkerStep, Walking, results, cursor, given
  <1>2. Status = "running" /\ Status' = "running"
    BY <1>1 DEF Status
  <1>3. CASE slot' = slot /\ lost' = lost
    <2>1. Found' = Found /\ Trouble' = Trouble
      BY <1>1, <1>3, FoundKept, TroubleSame
    <2> QED BY <1>1, <1>2, <2>1, Nothing
  <1>4. CASE OnError(w)
    <2>1. Found' = Found /\ Trouble'
      BY <1>1, <1>4, ErrorOfWorker
    <2> QED BY <1>1, <1>2, <2>1, Meets
  <1>5. ASSUME NEW n \in Names, Visit(w, n)
        PROVE  [Abstract!Next]_(Abstract!vars)
    <2>1. n \in Items /\ slot[w].entries \in [Items -> Nat]
      BY DEF IndInv, TypeOK, Items
    <2>2. /\ \A v \in Workers : slot'[v].errors = slot[v].errors
          /\ \/ /\ slot'[w].entries = Push(slot[w].entries, n)
                /\ \A v \in Workers \ {w} : slot'[v] = slot[v]
                /\ lost' = lost
             \/ lost' /\ slot' = slot
      BY <1>5, <2>1, VisitFacts DEF IndInv
    <2>3. CASE lost' /\ slot' = slot
      <3>1. Found' = Found /\ Trouble'
        BY <1>1, <2>3, FoundKept DEF Trouble
      <3> QED BY <1>1, <1>2, <3>1, Meets
    <2>4. CASE /\ slot'[w].entries = Push(slot[w].entries, n)
               /\ \A v \in Workers \ {w} : slot'[v] = slot[v]
               /\ lost' = lost
      <3>1. Trouble' = Trouble
        BY <1>1, <2>2, <2>4, TroubleSame
      <3> DEFINE e == slot[w].entries
      <3>2. e \in [Items -> Nat]
        BY <2>1
      <3>3. \A y \in Items : Push(e, n)[y] > 0 <=> e[y] > 0 \/ y = n
        <4> HIDE DEF e
        <4> QED BY <2>1, <3>2, PushFacts
      <3>4. \A y \in Items : slot'[w].entries[y] > 0 <=> slot[w].entries[y] > 0 \/ y = n
        BY <2>4, <3>3
      <3>5. \A y \in Items : y \in Found' <=> y \in Found \/ y = n
        BY <1>1, <2>4, <3>4 DEF Found
      <3>6. Found \subseteq Items /\ Found' \subseteq Items
        BY DEF Found
      <3>7. Found' = Found \cup {n}
        BY <2>1, <3>5, <3>6
      <3> QED BY <1>1, <1>2, <3>1, <3>7, Finds
    <2> QED BY <2>2, <2>3, <2>4
  <1> QED BY <1>3, <1>4, <1>5
          DEF Worker, TakeDirectory, CloseDirectory, WorkerSkips, WorkerRejects, WorkerVisits, WorkerQueues

LEMMA EndRefines ==
    ASSUME IndInv, IndInv', AllFound',
           \/ EndWalk \/ WalkFails \/ (\E w \in Workers : Merge(w)) \/ EndMerge \/ MergeFails
           \/ Signal \/ Ended \/ UNCHANGED vars
    PROVE  [Abstract!Next]_(Abstract!vars)
  <1>1. /\ slot' = slot /\ errorCount' = errorCount /\ asked' = asked
        /\ WalkFails \/ lost' = lost
    BY DEF EndWalk, WalkFails, Merge, EndMerge, MergeFails, Signal, Ended, vars, results, pool, given
  <1>2. signalled' = signalled /\ lost' = lost => Trouble' = Trouble
    BY <1>1, TroubleSame
  <1>3. CASE EndWalk \/ EndMerge \/ MergeFails
    <2>1. /\ entries' = entries /\ signalled' = signalled /\ lost' = lost /\ pc \in {"walk", "merge"}
          /\ pc' \in {"paths", "done", "failed"}
      BY <1>3 DEF EndWalk, EndMerge, MergeFails, Walking, results, pool
    <2>2. Found' = Found /\ Status = "running"
      BY <1>1, <2>1, FoundKept DEF Status
    <2>3. CASE pc' = "paths"
      <3>1. Status' = Status
        BY <2>2, <2>3 DEF Status
      <3> QED BY <1>1, <1>2, <2>1, <2>2, <3>1, Nothing
    <2>4. CASE pc' \in {"done", "failed"}
      BY <1>1, <1>2, <2>1, <2>2, <2>4, Stops
    <2> QED BY <2>1, <2>3, <2>4
  <1>4. ASSUME NEW w \in Workers, Merge(w)
        PROVE  [Abstract!Next]_(Abstract!vars)
    <2>1. signalled' = signalled /\ lost' = lost /\ pc' = pc
      BY <1>4 DEF Merge, cursor
    <2>2. Found' = Found
      BY <1>4, MergeFinds
    <2> QED BY <1>1, <1>2, <2>1, <2>2, Nothing
  <1>5. CASE Signal
    <2>1. entries' = entries /\ pc' = pc /\ pc \notin {"done", "failed"} /\ signalled'
      BY <1>5 DEF Signal, cursor, results
    <2>2. Found' = Found /\ Trouble' /\ Status = "running" /\ Status' = "running"
      BY <1>1, <2>1, FoundKept DEF Status, Trouble
    <2> QED BY <1>1, <2>2, Meets
  <1>6. CASE Ended \/ UNCHANGED vars
    <2>1. entries' = entries /\ signalled' = signalled /\ lost' = lost /\ pc' = pc
      BY <1>6 DEF Ended, vars, cursor, results, pool
    <2>2. Found' = Found
      BY <1>1, <2>1, FoundKept
    <2> QED BY <1>1, <1>2, <2>1, <2>2, Nothing
  <1>7. CASE WalkFails
    <2>1. entries' = entries /\ lost' /\ pc = "walk" /\ pc' = "paths"
      BY <1>7 DEF WalkFails, Walking, results
    <2>2. Found' = Found /\ Trouble' /\ Status = "running" /\ Status' = "running"
      BY <1>1, <2>1, FoundKept DEF Status, Trouble
    <2> QED BY <1>1, <2>2, Meets
  <1> QED BY <1>3, <1>4, <1>5, <1>6, <1>7

LEMMA NextRefines == IndInv /\ IndInv' /\ AllFound' /\ [Next]_vars => [Abstract!Next]_(Abstract!vars)
  <1> SUFFICES ASSUME IndInv, IndInv', AllFound', [Next]_vars
               PROVE  [Abstract!Next]_(Abstract!vars)
    OBVIOUS
  <1> QED BY InputRefines, PathRefines, WalkRefines, WorkerRefines, EndRefines DEF Next, Main

(* Both walks implement FindFiles, for every tree with its links and cycles,  *)
(* every command line with OneBoundary, every filter, any number of workers   *)
(* and any of the failures, that of bc_io_walk_parallel and of statfs() too:  *)
(* they list only what is asked for, and succeed only with all of it or after *)
(* trouble.                                                                   *)
THEOREM BothWalksFindFiles == Spec /\ OneBoundary => FindsWhatIsWanted
  <1>1. Init => Abstract!Init
    BY InitRefines
  <1>2. IndInv => AllFound
    BY Complete DEF AllFound
  <1> QED BY <1>1, <1>2, Invariance, NextRefines, PTL DEF Spec, FindsWhatIsWanted, Abstract!Spec

-----------------------------------------------------------------------------
(* How often the parallel walk lists a name *)

(* The directories f the workers list are different ones and are not reached  *)
(* again from the work W that is left: what is queued (q) and the names left  *)
(* over (L).  The parent of a directory in W was opened before it.            *)
OpenedOnce(f, q, L, W) ==
    /\ \A w \in Workers : f[w].dir # None => f[w].left \subseteq Listing(f[w].dir) /\ f[w].dir \notin Reachable(W)
    /\ \A w \in Workers : f[w].dir = None => f[w].left = {}
    /\ \A v, w \in Workers : f[v].dir = f[w].dir /\ f[v].dir # None => v = w
    /\ \A m \in Names : Followed(m) /\ target[m] \in W => Parent[m] \notin Reachable(W)
    /\ \A m \in L : Followed(m) => target[m] \notin q

(* How often n was listed, by the workers whose slots are not merged too. *)
ListedBy(n) == [w \in Workers |-> slot[w].entries[n]]
Total(n) == entries[n] + SumFunctionOnSet(ListedBy(n), Workers \ merged)

(* The current walk will come to n. *)
Awaited(n, L, W) == n \in L \/ Parent[n] \in Reachable(W)

(* The paths that were taken and whose tree has n. *)
Trees(n) == {q \in RootPositions \cap Handled : Parent[n] \in Reachable({target[PathAt(q)]})}

(* Every tree that was taken listed a wanted name once, or will. *)
ListedPerTree ==
    \A n \in Names :
        /\ WantedName(n) => Cardinality(Trees(n)) = Total(n) + (IF Awaited(n, LeftOver, Work) THEN 1 ELSE 0)
        /\ ~ WantedName(n) => Total(n) = 0

ListingInv ==
    mode = "parallel" =>
        /\ ~ options.follow
        /\ ~ Trouble => OpenedOnce(frame, pending, LeftOver, Work) /\ ListedPerTree

(* What is reached is where one begins or is led to by the name that a       *)
(* reached directory has for it.                                             *)
LEMMA LastEdge ==
    ASSUME NEW R \in SUBSET Dirs, NEW x \in Reachable(R)
    PROVE  x \in R \/ \E m \in Names : Followed(m) /\ target[m] = x /\ Parent[m] \in Reachable(R)
  <1> DEFINE S == R \cup {y \in Reachable(R) : \E m \in Names : Followed(m) /\ target[m] = y /\ Parent[m] \in Reachable(R)}
  <1>1. R \subseteq Reachable(R) /\ Reachable(R) \in SUBSET Dirs
    BY ReachContains
  <1>2. S \in SUBSET Dirs /\ R \subseteq S /\ S \subseteq Reachable(R)
    BY <1>1
  <1>3. ASSUME NEW n \in Names, Followed(n), Parent[n] \in S
        PROVE  target[n] \in S
    <2>1. Parent[n] \in Reachable(R)
      BY <1>2, <1>3
    <2>2. target[n] \in Reachable(R)
      BY <1>3, <2>1, ReachStep
    <2> QED BY <1>3, <2>1, <2>2
  <1>4. x \in S
    <2> HIDE DEF S
    <2>1. Reachable(R) \subseteq S
      BY <1>2, <1>3, ReachLeast
    <2> QED BY <2>1
  <1> QED BY <1>4

(* Without --follow-symlinks a directory is reached by its own name only, and *)
(* not from below.                                                            *)
LEMMA OneName ==
    ASSUME GivenInv, ~ options.follow, NEW m \in Names, NEW n \in Names, Followed(m), Followed(n), target[m] = target[n]
    PROVE  m = n
  <1>1. PICK s \in Scenarios : target = s.target /\ inputs = s.inputs /\ options = s.options
    BY DEF GivenInv
  <1>2. \A a, b \in Names \ Symlinks : target[a] \in Dirs /\ target[a] = target[b] => a = b
    BY <1>1, ScenarioAssumption
  <1>3. m \notin Symlinks /\ n \notin Symlinks /\ target[m] \in Dirs
    BY KindFacts DEF Followed, Kind
  <1> QED BY <1>2, <1>3

LEMMA NotFromBelow ==
    ASSUME GivenInv, ~ options.follow, NEW m \in Names, Followed(m)
    PROVE  Parent[m] \notin Reachable({target[m]})
  <1> DEFINE d == target[m]
             D == Reachable({d})
  <1>1. PICK s \in Scenarios : target = s.target /\ inputs = s.inputs /\ options = s.options
    BY DEF GivenInv
  <1>2. d \in Dirs
    BY KindFacts DEF Followed
  <1>3. d \in D /\ D \in SUBSET Dirs
    BY <1>2, ReachContains
  <1>4. PICK t \in D : \A n \in Names \ Symlinks : target[n] = t => Parent[n] \notin D
    <2>1. \A E \in SUBSET Dirs :
              E # {} => \E t \in E : \A n \in Names \ Symlinks : s.target[n] = t => Parent[n] \notin E
      BY ScenarioAssumption
    <2> HIDE DEF D
    <2> QED BY <1>1, <1>3, <2>1
  <1>5. \A n \in Names : Followed(n) => n \notin Symlinks
    BY DEF Followed, Kind
  <1>6. CASE t = d
    BY <1>4, <1>5, <1>6
  <1>7. CASE t # d
    <2>1. \E n \in Names : Followed(n) /\ target[n] = t /\ Parent[n] \in Reachable({d})
      <3>1. {d} \in SUBSET Dirs /\ t \in Reachable({d}) /\ t \notin {d}
        BY <1>2, <1>7
      <3> HIDE DEF d
      <3> QED BY <3>1, LastEdge
    <2> QED BY <1>4, <1>5, <2>1
  <1> QED BY <1>6, <1>7

LEMMA FinitePositions ==
    ASSUME GivenInv
    PROVE  IsFiniteSet(Positions)
  <1>1. inputs \in Seq([glob : BOOLEAN, paths : Seq(Paths)])
    BY GivenFacts
  <1>2. DOMAIN inputs = 1 .. Len(inputs) /\ Len(inputs) \in Nat
    BY <1>1
  <1>3. IsFiniteSet(DOMAIN inputs)
    <2>1. IsFiniteSet(1 .. Len(inputs))
      BY <1>2, FS_Interval
    <2> QED BY <1>2, <2>1
  <1> DEFINE part == [i \in DOMAIN inputs |-> {i} \X DOMAIN inputs[i].paths]
  <1>4. ASSUME NEW i \in DOMAIN inputs
        PROVE  IsFiniteSet({i} \X DOMAIN inputs[i].paths)
    <2>1. inputs[i].paths \in Seq(Paths)
      <3> DEFINE T == [glob : BOOLEAN, paths : Seq(Paths)]
      <3>1. inputs \in Seq(T) /\ \A r \in T : r.paths \in Seq(Paths)
        BY <1>1
      <3> HIDE DEF T
      <3>2. inputs[i] \in T
        BY <1>2, <3>1
      <3> QED BY <3>1, <3>2
    <2>2. DOMAIN inputs[i].paths = 1 .. Len(inputs[i].paths) /\ Len(inputs[i].paths) \in Nat
      BY <2>1
    <2>3. IsFiniteSet(1 .. Len(inputs[i].paths))
      BY <2>2, FS_Interval
    <2>4. IsFiniteSet({i})
      BY FS_Singleton
    <2> QED BY <2>2, <2>3, <2>4, FS_Product
  <1>5. IsFiniteSet({{i} \X DOMAIN inputs[i].paths : i \in DOMAIN inputs})
    <2> DEFINE I == DOMAIN inputs
               G == {{i} \X DOMAIN inputs[i].paths : i \in I}
    <2>1. part \in Surjection(I, G)
      BY DEF Surjection
    <2> HIDE DEF part, I, G
    <2>2. IsFiniteSet(G)
      <3>1. IsFiniteSet(I)
        BY <1>3 DEF I
      <3> QED BY <2>1, <3>1, FS_Surjection
    <2> QED BY <2>2 DEF G, I
  <1> QED BY <1>4, <1>5, FS_UNION DEF Positions

LEMMA TotalFacts ==
    ASSUME TypeOK, NEW n \in Names
    PROVE  /\ Total(n) \in Nat /\ entries[n] \in Nat
           /\ \A w \in Workers : ListedBy(n)[w] = slot[w].entries[n] /\ ListedBy(n)[w] \in Nat
           /\ IsFiniteSet(Workers \ merged)
           /\ SumFunctionOnSet(ListedBy(n), Workers \ merged) \in Nat
  <1>1. n \in Items
    BY DEF Items
  <1>2. entries[n] \in Nat /\ \A w \in Workers : slot[w].entries[n] \in Nat
    BY <1>1 DEF TypeOK
  <1>3. \A w \in Workers : ListedBy(n)[w] = slot[w].entries[n] /\ ListedBy(n)[w] \in Nat
    BY <1>2 DEF ListedBy
  <1>4. IsFiniteSet(Workers \ merged)
    BY TreeAssumption, FS_Subset
  <1>5. SumFunctionOnSet(ListedBy(n), Workers \ merged) \in Nat
    <2> DEFINE f == ListedBy(n)
               S == Workers \ merged
    <2>1. IsFiniteSet(S) /\ \A w \in S : f[w] \in Nat
      BY <1>3, <1>4
    <2> HIDE DEF f, S
    <2>2. SumFunctionOnSet(f, S) \in Nat
      BY <2>1, SumIsNatural
    <2> QED BY <2>2 DEF f, S
  <1> QED BY <1>2, <1>3, <1>4, <1>5 DEF Total

(* Nothing listed, nothing merged: the same totals. *)
LEMMA TotalKept ==
    ASSUME NEW n, entries'[n] = entries[n], merged' = merged, \A w \in Workers : slot'[w].entries = slot[w].entries
    PROVE  Total(n)' = Total(n)
  <1>1. ListedBy(n)' = ListedBy(n)
    BY DEF ListedBy
  <1> QED BY <1>1 DEF Total

TreesAfter(n) == {q \in RootPositions \cap Handled' : Parent[n] \in Reachable({target[PathAt(q)]})}

(* What was said of the walk in terms of the tree before the step. *)
LEMMA ListingCarried ==
    ASSUME IndInv, [Next]_vars, mode = "parallel", ListingInv,
           OpenedOnce(frame', pending', LeftOver', WorkAfter),
           \A n \in Names :
               /\ WantedName(n) => Cardinality(TreesAfter(n)) = Total(n)' + (IF Awaited(n, LeftOver', WorkAfter) THEN 1 ELSE 0)
               /\ ~ WantedName(n) => Total(n)' = 0
    PROVE  ListingInv'
  <1>1. UNCHANGED given
    BY NextBasics
  <1>2. mode' = mode /\ target' = target /\ options' = options
    BY <1>1 DEF given
  <1>3. /\ \A n : Followed(n)' = Followed(n)
        /\ \A R : Reachable(R)' = Reachable(R)
    BY <1>1, SameReach
  <1>4. /\ \A x : WantedName(x)' = WantedName(x)
        /\ \A q : PathAt(q)' = PathAt(q)
        /\ RootPositions' = RootPositions
    BY <1>1, SameGiven
  <1>5. Work' = WorkAfter
    BY <1>2, <1>3 DEF Work, WorkAfter
  <1>6. Reachable(Work)' = Reachable(WorkAfter)
    BY <1>3, <1>5
  <1>7. OpenedOnce(frame, pending, LeftOver, Work)'
    BY <1>2, <1>3, <1>5, <1>6 DEF OpenedOnce
  <1>8. \A n : Awaited(n, LeftOver, Work)' <=> Awaited(n, LeftOver', WorkAfter)
    BY <1>6 DEF Awaited
  <1>9. \A n : Trees(n)' = TreesAfter(n)
    <2>1. \A q : Reachable({target[PathAt(q)]})' = Reachable({target[PathAt(q)]})
      BY <1>2, <1>3, <1>4
    <2> QED BY <1>4, <2>1 DEF Trees, TreesAfter
  <1>10. ListedPerTree'
    <2>1. ASSUME NEW n \in Names
          PROVE  /\ WantedName(n)' => Cardinality(Trees(n))' = Total(n)' + (IF Awaited(n, LeftOver, Work)' THEN 1 ELSE 0)
                 /\ ~ WantedName(n)' => Total(n)' = 0
      BY <1>4, <1>8, <1>9
    <2> QED BY <2>1 DEF ListedPerTree
  <1>11. ~ options'.follow
    BY <1>2 DEF ListingInv
  <1> QED BY <1>7, <1>10, <1>11 DEF ListingInv

(* Steps that list, queue and open nothing. *)
LEMMA ListingKept ==
    ASSUME IndInv, [Next]_vars, mode = "parallel", ListingInv, ~ Trouble, ~ Trouble',
           frame' = frame, pending' = pending, stack' = stack, slot' = slot, merged' = merged,
           \A n \in Names : entries'[n] = entries[n],
           RootPositions \cap Handled' = RootPositions \cap Handled
    PROVE  ListingInv'
  <1>2. LeftOver' = LeftOver
    BY DEF LeftOver
  <1>3. WorkAfter = Work
    BY <1>2 DEF WorkAfter, Work
  <1>4. OpenedOnce(frame, pending, LeftOver, Work) /\ ListedPerTree
    BY DEF ListingInv
  <1>5. \A n \in Names : Total(n)' = Total(n) /\ TreesAfter(n) = Trees(n)
    BY TotalKept DEF TreesAfter, Trees
  <1>6. OpenedOnce(frame', pending', LeftOver', WorkAfter)
    BY <1>2, <1>3, <1>4
  <1>7. \A n \in Names :
           /\ WantedName(n) => Cardinality(TreesAfter(n)) = Total(n)' + (IF Awaited(n, LeftOver', WorkAfter) THEN 1 ELSE 0)
           /\ ~ WantedName(n) => Total(n)' = 0
    BY <1>2, <1>3, <1>4, <1>5 DEF ListedPerTree
  <1> QED BY <1>6, <1>7, ListingCarried

LEMMA ListingControl ==
    ASSUME IndInv, mode = "parallel", ListingInv, ~ Trouble',
           \/ SetupFails \/ NextInput \/ EndInputs \/ EndPaths \/ EndMerge \/ MergeFails \/ Ended \/ UNCHANGED vars
    PROVE  ListingInv'
  <1>0. [Next]_vars
    BY DEF Next, Main
  <1>1. /\ UNCHANGED given
        /\ frame' = frame /\ pending' = pending /\ stack' = stack /\ slot' = slot /\ merged' = merged /\ lost' = lost
        /\ entries' = entries /\ signalled' = signalled
    BY DEF SetupFails, NextInput, EndInputs, EndPaths, EndMerge, MergeFails, Ended, vars, given, walk, pool, results
  <1>2. ~ Error
    BY ErrorIsTrouble DEF IndInv
  <1>3. errorCount' = errorCount
    BY <1>2 DEF SetupFails, NextInput, EndInputs, EndPaths, EndMerge, MergeFails, Ended, vars, results
  <1>4. ~ Trouble
    BY <1>1, <1>3, TroubleKept
  <1>5. Handled' = Handled
    <2>1. CASE NextInput
      BY <1>1, <1>2, <2>1, BeginInput DEF NextInput, IndInv
    <2>2. CASE next' = next /\ paths' = paths
      <3>1. Positions' = Positions
        BY <1>1, SameGiven
      <3>2. inputs' = inputs
        BY <1>1 DEF given
      <3> QED BY <2>2, <3>1, <3>2 DEF Handled, ToCome
    <2> QED BY <2>1, <2>2 DEF SetupFails, EndInputs, EndPaths, EndMerge, MergeFails, Ended, vars, cursor
  <1> QED BY <1>0, <1>1, <1>4, <1>5, ListingKept

(* A path that is not walked: a path is no name. *)
LEMMA ListingPath ==
    ASSUME IndInv, mode = "parallel", ListingInv, ~ Trouble', PathRejected \/ PathFile \/ PathPseudo \/ PathTooLong
    PROVE  ListingInv'
  <1>0. [Next]_vars
    BY DEF Next, Main
  <1>1. ~ Error
    BY ErrorIsTrouble DEF IndInv
  <1>2. PathFile \/ PathPseudo
    BY <1>1 DEF PathRejected, PathTooLong
  <1>3. /\ UNCHANGED given
        /\ frame' = frame /\ pending' = pending /\ stack' = stack /\ slot' = slot /\ merged' = merged /\ lost' = lost
        /\ errorCount' = errorCount /\ signalled' = signalled
        /\ entries' = entries \/ entries' = Push(entries, path)
        /\ pc = "paths" /\ paths # <<>> /\ paths' = Tail(paths) /\ next' = next
        /\ Kind(path) = "file" \/ target[path] \in KnownPseudo
    BY <1>1, <1>2 DEF PathFile, PathPseudo, TakePath, walk, pool
  <1>4. ~ Trouble
    BY <1>3, TroubleKept
  <1>5. Handled' = Handled \cup {Here} /\ PathAt(Here) = path /\ path \in Paths
    BY <1>3, TakeHere, HereFacts DEF IndInv
  <1>6. Here \notin RootPositions
    BY <1>3, <1>5 DEF RootPositions
  <1>7. \A n \in Names : entries'[n] = entries[n]
    <2>1. entries \in [Items -> Nat] /\ path \in Items /\ \A n \in Names : n \in Items /\ n # path
      BY <1>5, TreeAssumption DEF IndInv, TypeOK, Items
    <2> QED BY <1>3, <2>1, PushFacts
  <1>8. RootPositions \cap Handled' = RootPositions \cap Handled
    BY <1>5, <1>6
  <1> QED BY <1>0, <1>3, <1>4, <1>7, <1>8, ListingKept

LEMMA ListingEndWalk ==
    ASSUME IndInv, mode = "parallel", ListingInv, ~ Trouble', EndWalk
    PROVE  ListingInv'
  <1>0. [Next]_vars
    BY DEF Next, Main
  <1>1. /\ UNCHANGED given /\ next' = next /\ paths' = paths
        /\ frame' = frame /\ stack' = stack /\ slot' = slot /\ merged' = merged /\ lost' = lost
        /\ entries' = entries /\ signalled' = signalled /\ errorCount' = errorCount
        /\ pending' = {} /\ (pending = {} \/ signalled)
    BY DEF EndWalk, walk, results
  <1>2. ~ Trouble
    BY <1>1, TroubleKept
  <1>3. pending' = pending
    BY <1>1, <1>2 DEF Trouble
  <1>4. Handled' = Handled
    <2>1. Positions' = Positions
      BY <1>1, SameGiven
    <2>2. inputs' = inputs
      BY <1>1 DEF given
    <2> QED BY <1>1, <2>1, <2>2 DEF Handled, ToCome
  <1> QED BY <1>0, <1>1, <1>2, <1>3, <1>4, ListingKept

(* A worker's slot moves into the vector; the sum stays. *)
LEMMA ListingMerge ==
    ASSUME IndInv, mode = "parallel", ListingInv, ~ Trouble', NEW w \in Workers, Merge(w)
    PROVE  ListingInv'
  <1>0. [Next]_vars
    BY DEF Next, Main
  <1>1. /\ UNCHANGED <<given, cursor>> /\ w \notin merged /\ merged' = merged \cup {w}
        /\ frame' = frame /\ pending' = pending /\ stack' = stack /\ slot' = slot /\ lost' = lost
        /\ signalled' = signalled /\ errorCount' = errorCount
    BY DEF Merge, walk
  <1>2. ~ Trouble
    BY <1>1, TroubleKept
  <1>4. LeftOver' = LeftOver
    BY <1>1 DEF LeftOver
  <1>5. WorkAfter = Work
    BY <1>1, <1>4 DEF WorkAfter, Work
  <1>6. OpenedOnce(frame, pending, LeftOver, Work) /\ ListedPerTree
    BY <1>2 DEF ListingInv
  <1>7. Handled' = Handled
    <2>1. Positions' = Positions
      BY <1>1, SameGiven
    <2>2. inputs' = inputs /\ next' = next /\ paths' = paths
      BY <1>1 DEF given, cursor
    <2> QED BY <2>1, <2>2 DEF Handled, ToCome
  <1>8. ASSUME NEW n \in Names
        PROVE  Total(n)' = Total(n) /\ TreesAfter(n) = Trees(n)
    <2> DEFINE f == ListedBy(n)
               S == Workers \ merged
    <2>1. /\ entries[n] \in Nat /\ IsFiniteSet(S) /\ \A v \in S : f[v] \in Nat
          /\ f[w] = slot[w].entries[n] /\ w \in S /\ SumFunctionOnSet(f, S) \in Nat
      BY <1>1, TotalFacts DEF IndInv
    <2>2. entries'[n] = entries[n] + slot[w].entries[n]
      BY TypeMerge DEF IndInv, Items
    <2>3. Total(n) = entries[n] + SumFunctionOnSet(f, S) /\ Total(n)' = entries'[n] + SumFunctionOnSet(f, S \ {w})
      <3>1. ListedBy(n)' = ListedBy(n) /\ Workers \ merged' = S \ {w}
        BY <1>1 DEF ListedBy
      <3> QED BY <3>1 DEF Total
    <2> HIDE DEF f, S
    <2>4. SumFunctionOnSet(f, S) = f[w] + SumFunctionOnSet(f, S \ {w})
      BY <2>1, SumRemove
    <2>5. SumFunctionOnSet(f, S \ {w}) \in Nat
      <3>1. IsFiniteSet(S \ {w})
        BY <2>1, FS_Subset
      <3> QED BY <2>1, <3>1, SumIsNatural
    <2>6. Total(n)' = Total(n)
      <3> DEFINE a == entries[n]
                 b == f[w]
                 c == SumFunctionOnSet(f, S \ {w})
      <3>1. a \in Nat /\ b \in Nat /\ c \in Nat
        BY <2>1, <2>5
      <3>2. Total(n) = a + (b + c) /\ Total(n)' = (a + b) + c
        BY <2>1, <2>2, <2>3, <2>4
      <3> HIDE DEF a, b, c
      <3> QED BY <3>1, <3>2
    <2> QED BY <1>7, <2>6 DEF TreesAfter, Trees
  <1>9. OpenedOnce(frame', pending', LeftOver', WorkAfter)
    BY <1>1, <1>4, <1>5, <1>6
  <1>10. \A n \in Names :
           /\ WantedName(n) => Cardinality(TreesAfter(n)) = Total(n)' + (IF Awaited(n, LeftOver', WorkAfter) THEN 1 ELSE 0)
           /\ ~ WantedName(n) => Total(n)' = 0
    BY <1>4, <1>5, <1>6, <1>8 DEF ListedPerTree
  <1> QED BY <1>0, <1>9, <1>10, ListingCarried

(* A new tree: it alone is the work, and its names are awaited. *)
LEMMA ListingSpread ==
    ASSUME IndInv, mode = "parallel", ListingInv, ~ Trouble', PathSpread
    PROVE  ListingInv'
  <1>0. [Next]_vars
    BY DEF Next, Main
  <1> DEFINE d == target[path]
  <1>1. /\ pc = "paths" /\ paths # <<>> /\ paths' = Tail(paths) /\ next' = next /\ UNCHANGED given
        /\ WalkablePath /\ pending' = {d}
        /\ frame' = frame /\ stack' = stack /\ slot' = slot /\ merged' = merged /\ lost' = lost
        /\ entries' = entries /\ signalled' = signalled /\ errorCount' = errorCount
    BY DEF PathSpread, TakePath, walk
  <1>2. ~ Trouble
    BY <1>1, TroubleKept
  <1>4. Here \in RootPositions /\ d \in Dirs
    BY <1>1, DeviceLearnt DEF IndInv
  <1>5. /\ Handled' = Handled \cup {Here} /\ PathAt(Here) = path /\ Here \in Positions
        /\ ToCome(Here)
    BY <1>1, TakeHere, HereFacts DEF IndInv
  <1>6. Here \notin Handled
    BY <1>5 DEF Handled
  <1>7. pending = {} /\ \A w \in Workers : frame[w] = Idle
    BY <1>1 DEF IndInv, ParallelInv
  <1>8. LeftOver = {} /\ LeftOver' = {}
    <2>1. /\ LeftOver = UNION {frame[w].left : w \in Workers}
          /\ LeftOver' = UNION {frame'[w].left : w \in Workers}
      BY <1>1, LeftInFrames
    <2> QED BY <1>1, <1>7, <2>1 DEF Idle
  <1>9. Work = {} /\ WorkAfter = {d} /\ Reachable(Work) = {}
    BY <1>1, <1>7, <1>8, NothingReached DEF Work, WorkAfter
  <1>10. OpenedOnce(frame', pending', LeftOver', WorkAfter)
    <2>1. \A w \in Workers : frame'[w].dir = None /\ frame'[w].left = {}
      BY <1>1, <1>7 DEF Idle
    <2>2. ~ options.follow
      BY DEF ListingInv
    <2>3. \A m \in Names : Followed(m) /\ target[m] = d => Parent[m] \notin Reachable({d})
      BY <2>2, NotFromBelow DEF IndInv
    <2> HIDE DEF d
    <2> QED BY <1>8, <1>9, <2>1, <2>3 DEF OpenedOnce
  <1>11. ASSUME NEW n \in Names
         PROVE  /\ WantedName(n) => Cardinality(TreesAfter(n)) = Total(n)' + (IF Awaited(n, LeftOver', WorkAfter) THEN 1 ELSE 0)
                /\ ~ WantedName(n) => Total(n)' = 0
    <2>1. Total(n)' = Total(n) /\ Total(n) \in Nat
      BY <1>1, TotalKept, TotalFacts DEF IndInv
    <2>2. /\ WantedName(n) => Cardinality(Trees(n)) = Total(n)
          /\ ~ WantedName(n) => Total(n) = 0
      <3>1. ~ Awaited(n, LeftOver, Work)
        BY <1>8, <1>9 DEF Awaited
      <3>2. /\ WantedName(n) => Cardinality(Trees(n)) = Total(n) + 0
            /\ ~ WantedName(n) => Total(n) = 0
        BY <1>2, <3>1 DEF ListingInv, ListedPerTree
      <3> QED BY <2>1, <3>2
    <2>3. IsFiniteSet(Trees(n)) /\ Here \notin Trees(n)
      <3>1. Trees(n) \subseteq Positions
        BY DEF Trees, RootPositions
      <3>2. IsFiniteSet(Positions)
        BY FinitePositions DEF IndInv
      <3> QED BY <1>6, <3>1, <3>2, FS_Subset DEF Trees
    <2>4. CASE Parent[n] \in Reachable({d})
      <3>1. TreesAfter(n) = Trees(n) \cup {Here}
        BY <1>4, <1>5, <2>4 DEF TreesAfter, Trees
      <3>2. Cardinality(TreesAfter(n)) = Cardinality(Trees(n)) + 1
        BY <2>3, <3>1, FS_AddElement
      <3>3. Awaited(n, LeftOver', WorkAfter)
        BY <1>9, <2>4 DEF Awaited
      <3> QED BY <2>1, <2>2, <3>2, <3>3
    <2>5. CASE Parent[n] \notin Reachable({d})
      <3>1. TreesAfter(n) = Trees(n)
        BY <1>4, <1>5, <2>5 DEF TreesAfter, Trees
      <3>2. ~ Awaited(n, LeftOver', WorkAfter)
        BY <1>8, <1>9, <2>5 DEF Awaited
      <3> QED BY <2>1, <2>2, <3>1, <3>2
    <2> QED BY <2>4, <2>5
  <1> QED BY <1>0, <1>10, <1>11, ListingCarried

(* A step of a worker: the trees are the same. *)
LEMMA ListingWorker ==
    ASSUME IndInv, ListingInv, ~ Trouble, ~ Trouble', NEW w \in Workers, Worker(w),
           OpenedOnce(frame', pending', LeftOver', WorkAfter),
           \A n \in Names :
              \/ Total(n)' = Total(n) /\ (WantedName(n) => (Awaited(n, LeftOver', WorkAfter) <=> Awaited(n, LeftOver, Work)))
              \/ /\ Total(n)' = Total(n) + 1 /\ WantedName(n)
                 /\ Awaited(n, LeftOver, Work) /\ ~ Awaited(n, LeftOver', WorkAfter)
    PROVE  ListingInv'
  <1>0. [Next]_vars
    BY DEF Next
  <1>1. Walking /\ UNCHANGED <<given, cursor>>
    BY DEF Worker, TakeDirectory, CloseDirectory, WorkerSkips, WorkerRejects, WorkerVisits, WorkerQueues, ListName, WorkerStep
  <1>2. mode = "parallel"
    BY <1>1 DEF Walking
  <1>3. Handled' = Handled
    <2>1. Positions' = Positions
      BY <1>1, SameGiven
    <2>2. inputs' = inputs /\ next' = next /\ paths' = paths
      BY <1>1 DEF given, cursor
    <2> QED BY <2>1, <2>2 DEF Handled, ToCome
  <1>4. \A n : TreesAfter(n) = Trees(n)
    BY <1>3 DEF TreesAfter, Trees
  <1>5. ListedPerTree
    BY <1>2 DEF ListingInv
  <1>6. ASSUME NEW n \in Names
         PROVE  /\ WantedName(n) => Cardinality(TreesAfter(n)) = Total(n)' + (IF Awaited(n, LeftOver', WorkAfter) THEN 1 ELSE 0)
                /\ ~ WantedName(n) => Total(n)' = 0
    <2>1. Total(n) \in Nat
      BY TotalFacts DEF IndInv
    <2>2. /\ WantedName(n) => Cardinality(Trees(n)) = Total(n) + (IF Awaited(n, LeftOver, Work) THEN 1 ELSE 0)
          /\ ~ WantedName(n) => Total(n) = 0
      BY <1>5 DEF ListedPerTree
    <2>3. CASE Total(n)' = Total(n) /\ (WantedName(n) => (Awaited(n, LeftOver', WorkAfter) <=> Awaited(n, LeftOver, Work)))
      BY <1>4, <2>2, <2>3
    <2>4. CASE /\ Total(n)' = Total(n) + 1 /\ WantedName(n)
               /\ Awaited(n, LeftOver, Work) /\ ~ Awaited(n, LeftOver', WorkAfter)
      BY <1>4, <2>1, <2>2, <2>4
    <2> QED BY <2>3, <2>4
  <1> QED BY <1>0, <1>2, <1>6, ListingCarried

(* A worker lists n once more. *)
LEMMA TotalVisited ==
    ASSUME TypeOK, TypeOK', NEW w \in Workers \ merged, NEW n \in Names, entries' = entries, merged' = merged,
           slot'[w].entries = Push(slot[w].entries, n), \A v \in Workers \ {w} : slot'[v] = slot[v]
    PROVE  /\ Total(n)' = Total(n) + 1
           /\ \A m \in Names \ {n} : Total(m)' = Total(m)
  <1>1. n \in Items /\ slot[w].entries \in [Items -> Nat]
    BY DEF Items, TypeOK
  <1>2. /\ slot'[w].entries[n] = slot[w].entries[n] + 1
        /\ \A m \in Names \ {n} : slot'[w].entries[m] = slot[w].entries[m]
    <2> DEFINE e == slot[w].entries
    <2>1. e \in [Items -> Nat] /\ \A m \in Names : m \in Items
      BY <1>1 DEF Items
    <2> HIDE DEF e
    <2>2. Push(e, n)[n] = e[n] + 1 /\ \A m \in Names \ {n} : Push(e, n)[m] = e[m]
      BY <1>1, <2>1, PushFacts
    <2> QED BY <2>2 DEF e
  <1>3. ASSUME NEW m \in Names \ {n}
        PROVE  Total(m)' = Total(m)
    <2>1. ListedBy(m)' = ListedBy(m)
      BY <1>2 DEF ListedBy
    <2> QED BY <2>1 DEF Total
  <1>4. Total(n)' = Total(n) + 1
    <2> DEFINE f == ListedBy(n)
               g == [v \in Workers |-> slot'[v].entries[n]]
               S == Workers \ merged
               R == S \ {w}
    <2>1. /\ entries[n] \in Nat /\ IsFiniteSet(S) /\ w \in S
          /\ \A v \in S : f[v] \in Nat /\ f[v] = slot[v].entries[n]
      BY TotalFacts
    <2>2. g[w] = f[w] + 1 /\ \A v \in R : g[v] = f[v]
      BY <1>2, <2>1
    <2>3. Total(n) = entries[n] + SumFunctionOnSet(f, S) /\ Total(n)' = entries[n] + SumFunctionOnSet(g, S)
      BY DEF Total, ListedBy
    <2>4. R = S \ {w}
      OBVIOUS
    <2> HIDE DEF f, g, S, R
    <2>5. \A v \in S : g[v] \in Nat
      BY <2>1, <2>2, <2>4
    <2>6. IsFiniteSet(R)
      BY <2>1, <2>4, FS_Subset
    <2>7. SumFunctionOnSet(f, S) = f[w] + SumFunctionOnSet(f, R)
      BY <2>1, <2>4, SumRemove
    <2>8. SumFunctionOnSet(g, S) = g[w] + SumFunctionOnSet(g, R)
      BY <2>1, <2>4, <2>5, SumRemove
    <2>9. SumFunctionOnSet(f, R) = SumFunctionOnSet(g, R) /\ SumFunctionOnSet(f, R) \in Nat
      BY <2>1, <2>2, <2>4, <2>6, SumSame, SumIsNatural
    <2>10. PICK a \in Nat, b \in Nat, c \in Nat : a = entries[n] /\ b = f[w] /\ c = SumFunctionOnSet(f, R)
      BY <2>1, <2>9
    <2>11. Total(n) = a + (b + c) /\ Total(n)' = a + ((b + 1) + c)
      BY <2>2, <2>3, <2>7, <2>8, <2>9, <2>10
    <2> QED BY <2>10, <2>11
  <1> QED BY <1>3, <1>4

(* The directory d that a worker opens is not reached again. *)
LEMMA OpenedAway ==
    ASSUME IndInv, mode = "parallel", ~ options.follow, OpenedOnce(frame, pending, LeftOver, Work), NEW d \in pending,
           pending' = pending \ {d}, \A n : n \in LeftOver' <=> n \in LeftOver \/ (n \in Names /\ Parent[n] = d)
    PROVE  /\ Reachable(Work) = Reachable(WorkAfter) \cup {d}
           /\ d \notin Reachable(WorkAfter)
  <1>1. Work \in SUBSET Dirs /\ LeftOver \subseteq Names
    BY LeftInFrames
  <1>2. pending \subseteq Dirs /\ d \in Dirs /\ d \in Work
    BY DEF IndInv, TypeOK, Work
  <1>3. WorkAfter \in SUBSET Dirs
    <2>1. \A m : Followed(m) => target[m] \in Dirs
      BY KindFacts DEF Followed
    <2> QED BY <1>2, <2>1 DEF WorkAfter
  <1>4. Reachable(Work) \subseteq Reachable(WorkAfter) \cup {d}
    <2>1. Work \ {d} \subseteq WorkAfter
      BY DEF Work, WorkAfter
    <2>2. \A m \in Names : Followed(m) /\ Parent[m] = d => target[m] \in WorkAfter
      BY DEF WorkAfter
    <2> QED BY <1>1, <1>2, <1>3, <2>1, <2>2, ReachOpened
  <1>5. Reachable(WorkAfter) \subseteq Reachable(Work) /\ d \in Reachable(Work)
    <2>1. Work \subseteq Reachable(Work)
      BY <1>1, ReachContains
    <2>2. \A m \in Names : Followed(m) /\ Parent[m] = d => target[m] \in Reachable(Work)
      BY <1>2, <2>1, ReachStep
    <2>3. WorkAfter \subseteq Reachable(Work)
      BY <2>1, <2>2 DEF WorkAfter, Work
    <2> QED BY <1>1, <1>2, <2>1, <2>3, ReachWithin
  <1>6. ASSUME d \in Reachable(WorkAfter)
        PROVE  FALSE
    <2>1. CASE d \in WorkAfter
      <3>1. PICK m \in LeftOver' : Followed(m) /\ target[m] = d
        BY <2>1 DEF WorkAfter
      <3>2. m \notin LeftOver
        BY <3>1 DEF OpenedOnce
      <3>3. m \in Names /\ Parent[m] = d
        BY <3>2
      <3>4. d \in Reachable({d})
        BY <1>2, ReachContains
      <3> QED BY <3>1, <3>3, <3>4, NotFromBelow DEF IndInv
    <2>2. CASE \E m \in Names : Followed(m) /\ target[m] = d /\ Parent[m] \in Reachable(WorkAfter)
      BY <1>2, <1>5, <2>2 DEF OpenedOnce
    <2> QED BY <1>3, <1>6, <2>1, <2>2, LastEdge
  <1> QED BY <1>4, <1>5, <1>6

LEMMA ListingTake ==
    ASSUME IndInv, ListingInv, ~ Trouble', NEW w \in Workers, TakeDirectory(w)
    PROVE  ListingInv'
  <1>1. /\ Walking /\ mode = "parallel" /\ frame[w] = Idle /\ entries' = entries /\ merged' = merged
        /\ UNCHANGED <<given, walk, errorCount, signalled>>
    BY DEF TakeDirectory, WorkerStep, results, Walking
  <1>2. PICK d \in pending :
          /\ pending' = pending \ {d}
          /\ \/ frame' = [frame EXCEPT ![w] = Frame(d)] /\ UNCHANGED <<slot, lost>>
             \/ May("open") /\ OnError(w) /\ UNCHANGED frame
    BY DEF TakeDirectory
  <1>3. frame' = [frame EXCEPT ![w] = Frame(d)] /\ slot' = slot /\ lost' = lost
    BY <1>1, <1>2, ErrorOfWorker
  <1>4. ~ Trouble
    BY <1>1, <1>3, TroubleKept
  <1>5. ~ options.follow /\ OpenedOnce(frame, pending, LeftOver, Work)
    BY <1>1, <1>4 DEF ListingInv
  <1>6. /\ d \in Dirs /\ Work \in SUBSET Dirs /\ LeftOver \subseteq Names
        /\ frame \in [Workers -> [dir : Dirs \cup {None}, left : SUBSET Names]]
    BY <1>1, LeftInFrames DEF IndInv, TypeOK
  <1>7. /\ frame'[w].dir = d /\ frame'[w].left = Listing(d) /\ d # None
        /\ \A v \in Workers \ {w} : frame'[v] = frame[v]
    BY <1>3, <1>6, TreeAssumption DEF Frame
  <1>8. \A n : n \in LeftOver' <=> n \in LeftOver \/ (n \in Names /\ Parent[n] = d)
    <2>1. LeftOver' = UNION {frame'[v].left : v \in Workers}
      BY <1>1, LeftInFrames DEF walk
    <2>2. LeftOver = UNION {frame[v].left : v \in Workers}
      BY <1>1, LeftInFrames
    <2> QED BY <1>1, <1>7, <2>1, <2>2 DEF Idle, Listing
  <1>9. Reachable(Work) = Reachable(WorkAfter) \cup {d} /\ d \notin Reachable(WorkAfter)
    BY <1>1, <1>2, <1>5, <1>8, OpenedAway
  <1>10. OpenedOnce(frame', pending', LeftOver', WorkAfter)
    <2>1. ASSUME NEW v \in Workers
          PROVE  /\ frame'[v].dir # None => frame'[v].left \subseteq Listing(frame'[v].dir) /\ frame'[v].dir \notin Reachable(WorkAfter)
                 /\ frame'[v].dir = None => frame'[v].left = {}
      BY <1>5, <1>7, <1>9 DEF OpenedOnce
    <2>2. ASSUME NEW u \in Workers, NEW v \in Workers, frame'[u].dir = frame'[v].dir, frame'[u].dir # None
          PROVE  u = v
      <3>1. \A x \in Workers \ {w} : frame[x].dir # d
        BY <1>5, <1>7, <1>9 DEF OpenedOnce
      <3> QED BY <1>5, <1>7, <2>2, <3>1 DEF OpenedOnce
    <2>3. ASSUME NEW m \in Names, Followed(m), target[m] \in WorkAfter
          PROVE  Parent[m] \notin Reachable(WorkAfter)
      <3>1. CASE target[m] \in Work
        BY <1>5, <1>9, <2>3, <3>1 DEF OpenedOnce
      <3>2. CASE target[m] \notin Work
        <4>1. PICK k \in Names : Followed(k) /\ target[k] = target[m] /\ Parent[k] = d
          BY <1>2, <1>8, <2>3, <3>2 DEF WorkAfter, Work
        <4>2. k = m
          BY <1>5, <2>3, <4>1, OneName DEF IndInv
        <4> QED BY <1>9, <4>1, <4>2
      <3> QED BY <3>1, <3>2
    <2>4. ASSUME NEW m \in LeftOver', Followed(m)
          PROVE  target[m] \notin pending'
      <3>1. CASE m \in LeftOver
        BY <1>2, <1>5, <2>4, <3>1 DEF OpenedOnce
      <3>2. CASE m \in Names /\ Parent[m] = d
        BY <1>2, <1>5, <1>9, <2>4, <3>2 DEF OpenedOnce, Work
      <3> QED BY <1>8, <3>1, <3>2
    <2> QED BY <2>1, <2>2, <2>3, <2>4 DEF OpenedOnce
  <1>11. \A n \in Names : Awaited(n, LeftOver', WorkAfter) <=> Awaited(n, LeftOver, Work)
    BY <1>8, <1>9 DEF Awaited
  <1>12. \A n \in Names : Total(n)' = Total(n)
    BY <1>1, <1>3, TotalKept
  <1> QED BY <1>4, <1>10, <1>11, <1>12, ListingWorker DEF Worker

(* The frames only lose names, and the work stays. *)
LEMMA OpenedLess ==
    ASSUME OpenedOnce(frame, pending, LeftOver, Work), WorkAfter = Work,
           \A v \in Workers : \/ frame'[v].dir = frame[v].dir /\ frame'[v].left \subseteq frame[v].left
                              \/ frame'[v].dir = None /\ frame'[v].left = {},
           \A m \in LeftOver' : Followed(m) => target[m] \notin pending'
    PROVE  OpenedOnce(frame', pending', LeftOver', WorkAfter)
  <1>1. ASSUME NEW v \in Workers
        PROVE  /\ frame'[v].dir # None => frame'[v].left \subseteq Listing(frame'[v].dir) /\ frame'[v].dir \notin Reachable(WorkAfter)
               /\ frame'[v].dir = None => frame'[v].left = {}
    BY DEF OpenedOnce
  <1>2. ASSUME NEW u \in Workers, NEW v \in Workers, frame'[u].dir = frame'[v].dir, frame'[u].dir # None
        PROVE  u = v
    BY <1>2 DEF OpenedOnce
  <1>3. \A m \in Names : Followed(m) /\ target[m] \in WorkAfter => Parent[m] \notin Reachable(WorkAfter)
    BY DEF OpenedOnce
  <1> QED BY <1>1, <1>2, <1>3 DEF OpenedOnce

LEMMA ListingClose ==
    ASSUME IndInv, ListingInv, ~ Trouble', NEW w \in Workers, CloseDirectory(w)
    PROVE  ListingInv'
  <1>1. /\ Walking /\ mode = "parallel" /\ pending' = pending /\ frame' = [frame EXCEPT ![w] = Idle]
        /\ entries' = entries /\ merged' = merged /\ UNCHANGED <<given, walk, errorCount, signalled>>
    BY DEF CloseDirectory, WorkerStep, results, Walking
  <1>2. ~ OnError(w)
    BY <1>1, ErrorOfWorker
  <1>3. (frame[w].left = {} \/ signalled) /\ slot' = slot /\ lost' = lost
    BY <1>2 DEF CloseDirectory
  <1>4. ~ Trouble
    BY <1>1, <1>3, TroubleKept
  <1>5. frame[w].left = {}
    BY <1>3, <1>4 DEF Trouble
  <1>6. OpenedOnce(frame, pending, LeftOver, Work)
    BY <1>1, <1>4 DEF ListingInv
  <1>7. /\ frame'[w].dir = None /\ frame'[w].left = {}
        /\ \A v \in Workers \ {w} : frame'[v] = frame[v]
    BY <1>1 DEF IndInv, TypeOK, Idle
  <1>8. LeftOver' = LeftOver
    <2>1. LeftOver' = UNION {frame'[v].left : v \in Workers}
      BY <1>1, LeftInFrames DEF walk
    <2>2. LeftOver = UNION {frame[v].left : v \in Workers}
      BY <1>1, LeftInFrames
    <2> QED BY <1>5, <1>7, <2>1, <2>2
  <1>9. WorkAfter = Work
    BY <1>1, <1>8 DEF WorkAfter, Work
  <1>10. OpenedOnce(frame', pending', LeftOver', WorkAfter)
    <2>1. \A m \in LeftOver' : Followed(m) => target[m] \notin pending'
      BY <1>1, <1>6, <1>8 DEF OpenedOnce
    <2> QED BY <1>6, <1>7, <1>9, <2>1, OpenedLess
  <1>11. \A n \in Names : Total(n)' = Total(n)
    BY <1>1, <1>3, TotalKept
  <1> QED BY <1>4, <1>8, <1>9, <1>10, <1>11, ListingWorker DEF Worker

LEMMA ListingList ==
    ASSUME IndInv, ListingInv, ~ Trouble', NEW w \in Workers, NEW n \in Names,
           WorkerSkips(w, n) \/ WorkerRejects(w, n) \/ WorkerVisits(w, n) \/ WorkerQueues(w, n)
    PROVE  ListingInv'
  <1>0. [Next]_vars /\ Worker(w)
    BY DEF Next, Worker
  <1>1. /\ Walking /\ mode = "parallel" /\ frame' = [frame EXCEPT ![w].left = @ \ {n}] /\ n \in frame[w].left
        /\ entries' = entries /\ merged' = merged /\ UNCHANGED <<given, walk, errorCount, signalled>>
    BY DEF WorkerSkips, WorkerRejects, WorkerVisits, WorkerQueues, ListName, WorkerStep, results, Walking
  <1>2. ~ OnError(w)
    BY <1>1, ErrorOfWorker
  <1>3. ~ WorkerRejects(w, n)
    BY <1>2 DEF WorkerRejects
  <1>4. /\ \A v \in Workers : slot[v].errors > 0 => slot'[v].errors > 0
        /\ lost' = lost
    <2>1. CASE WorkerVisits(w, n)
      <3>1. Visit(w, n) /\ n \in Items
        BY <2>1 DEF WorkerVisits, Items
      <3>2. /\ \A v \in Workers : slot'[v].errors = slot[v].errors
            /\ lost' = lost \/ lost'
        BY <3>1, VisitFacts DEF IndInv
      <3>3. ~ lost'
        BY DEF Trouble
      <3> QED BY <3>1, <3>2, <3>3 DEF Visit
    <2>2. CASE slot' = slot /\ lost' = lost
      BY <2>2
    <2> QED BY <1>3, <2>1, <2>2 DEF WorkerSkips, WorkerQueues
  <1>5. ~ Trouble
    BY <1>1, <1>4, TroubleKept
  <1>6. ~ options.follow /\ OpenedOnce(frame, pending, LeftOver, Work)
    BY <1>1, <1>5 DEF ListingInv
  <1>7. frame \in [Workers -> [dir : Dirs \cup {None}, left : SUBSET Names]] /\ LeftOver \subseteq Names
    BY <1>1, LeftInFrames DEF IndInv, TypeOK
  <1>8. /\ frame'[w].dir = frame[w].dir /\ frame'[w].left = frame[w].left \ {n}
        /\ \A v \in Workers \ {w} : frame'[v] = frame[v]
    BY <1>1, <1>7
  <1>9. /\ Parent[n] = frame[w].dir /\ Parent[n] \notin Reachable(Work)
        /\ \A v \in Workers \ {w} : n \notin frame[v].left
    <2>1. frame[w].dir # None /\ Parent[n] = frame[w].dir /\ frame[w].dir \notin Reachable(Work)
      BY <1>1, <1>6 DEF OpenedOnce, Listing
    <2>2. \A v \in Workers : n \in frame[v].left => frame[v].dir # None /\ Parent[n] = frame[v].dir
      BY <1>6 DEF OpenedOnce, Listing
    <2> QED BY <1>6, <2>1, <2>2 DEF OpenedOnce
  <1>10. LeftOver' = LeftOver \ {n} /\ n \in LeftOver
    <2>1. LeftOver' = UNION {frame'[v].left : v \in Workers}
      BY <1>1, LeftInFrames DEF walk
    <2>2. LeftOver = UNION {frame[v].left : v \in Workers}
      BY <1>1, LeftInFrames
    <2> QED BY <1>1, <1>8, <1>9, <2>1, <2>2
  <1>11. /\ WantedName(n) <=> /\ Visible(n) /\ Kind(n) = "file"
                              /\ AcceptsFile(n) /\ target[n] \notin SmallFiles
         /\ Followed(n) <=> /\ Visible(n) /\ Kind(n) = "dir" /\ AcceptsDirectory(n)
                            /\ target[n] \notin KnownPseudo /\ ~ Foreign(target[n])
    <2>1. rootDevice # None
      BY <1>1 DEF IndInv, DeviceInv, Walking
    <2>2. Parent[n] \in Reached
      BY <1>10 DEF IndInv, SoundInv
    <2> QED BY <2>1, <2>2, NameFacts
  <1>12. /\ WorkAfter = Work
         /\ OpenedOnce(frame', pending', LeftOver', WorkAfter)
    <2>1. WorkAfter = Work /\ \A m \in LeftOver' : Followed(m) => target[m] \notin pending'
      <3>1. CASE WorkerQueues(w, n)
        <4>1. pending' = pending \cup {target[n]} /\ Followed(n)
          BY <1>11, <3>1 DEF WorkerQueues, Filter
        <4>2. WorkAfter = Work
          BY <1>10, <4>1 DEF WorkAfter, Work
        <4>3. ASSUME NEW m \in LeftOver', Followed(m)
              PROVE  target[m] \notin pending'
          <5>1. m \in LeftOver /\ m \in Names /\ m # n
            BY <1>7, <1>10
          <5>2. target[m] \notin pending
            BY <1>6, <4>3, <5>1 DEF OpenedOnce
          <5>3. target[m] # target[n]
            BY <1>6, <4>1, <4>3, <5>1, OneName DEF IndInv
          <5> QED BY <4>1, <5>2, <5>3
        <4> QED BY <4>2, <4>3
      <3>2. CASE WorkerSkips(w, n) \/ WorkerVisits(w, n)
        <4>1. pending' = pending /\ ~ Followed(n)
          BY <1>11, <3>2 DEF WorkerSkips, WorkerVisits, Filter
        <4>2. WorkAfter = Work
          BY <1>10, <4>1 DEF WorkAfter, Work
        <4>3. \A m \in LeftOver' : Followed(m) => target[m] \notin pending'
          BY <1>6, <1>10, <4>1 DEF OpenedOnce
        <4> QED BY <4>2, <4>3
      <3> QED BY <1>3, <3>1, <3>2
    <2> QED BY <1>6, <1>8, <2>1, OpenedLess
  <1>13. \A m \in Names \ {n} : Awaited(m, LeftOver', WorkAfter) <=> Awaited(m, LeftOver, Work)
    BY <1>10, <1>12 DEF Awaited
  <1>14. CASE WorkerSkips(w, n) \/ WorkerQueues(w, n)
    <2>1. slot' = slot /\ ~ WantedName(n)
      BY <1>11, <1>14 DEF WorkerSkips, WorkerQueues, Filter
    <2>2. \A m \in Names : Total(m)' = Total(m)
      BY <1>1, <2>1, TotalKept
    <2> QED BY <1>0, <1>5, <1>12, <1>13, <2>1, <2>2, ListingWorker
  <1>15. CASE WorkerVisits(w, n)
    <2>1. Visit(w, n) /\ WantedName(n) /\ n \in Items
      BY <1>11, <1>15 DEF WorkerVisits, Filter, Items
    <2>2. /\ slot'[w].entries = Push(slot[w].entries, n)
          /\ \A v \in Workers \ {w} : slot'[v] = slot[v]
      <3>1. ~ lost'
        BY DEF Trouble
      <3> QED BY <2>1, <3>1, VisitFacts DEF IndInv
    <2>3. merged = {}
      BY <1>1 DEF IndInv, ParallelInv, Walking
    <2>4. TypeOK' /\ TypeOK
      BY <1>0, NextBasics DEF IndInv
    <2>5. Total(n)' = Total(n) + 1 /\ \A m \in Names \ {n} : Total(m)' = Total(m)
      BY <1>1, <2>2, <2>3, <2>4, TotalVisited
    <2>6. Awaited(n, LeftOver, Work) /\ ~ Awaited(n, LeftOver', WorkAfter)
      BY <1>9, <1>10, <1>12 DEF Awaited
    <2> QED BY <1>0, <1>5, <1>12, <1>13, <2>1, <2>5, <2>6, ListingWorker
  <1> QED BY <1>3, <1>14, <1>15

LEMMA ListingInit ==
    ASSUME Init, OneBoundary
    PROVE  ListingInv
  <1> SUFFICES ASSUME mode = "parallel"
               PROVE  ListingInv
    BY DEF ListingInv
  <1>1. IndInv
    BY IndInit
  <1>2. /\ ~ options.follow /\ entries = NoEntries /\ stack = <<>> /\ pending = {} /\ next = 1 /\ paths = <<>>
        /\ \A w \in Workers : frame[w] = Idle /\ slot[w] = [entries |-> NoEntries, errors |-> 0]
    BY DEF Init
  <1>3. LeftOver = {}
    BY <1>2 DEF LeftOver, Idle
  <1>4. Work = {} /\ Reachable(Work) = {}
    BY <1>2, <1>3, NothingReached DEF Work
  <1>5. OpenedOnce(frame, pending, LeftOver, Work)
    BY <1>2, <1>3, <1>4 DEF OpenedOnce, Idle
  <1>6. Handled = {}
    <2>1. ASSUME NEW q \in Positions
          PROVE  ToCome(q)
      <3>0. PICK i \in 1 .. Len(inputs) : \E k \in 1 .. Len(inputs[i].paths) : q = <<i, k>>
        BY <1>1, PositionFacts DEF IndInv
      <3>1. PICK k \in 1 .. Len(inputs[i].paths) : q = <<i, k>>
        BY <3>0
      <3>2. q[1] = i /\ i >= 1
        BY <1>1, <3>1, CursorTypes DEF IndInv
      <3> QED BY <1>2, <3>2 DEF ToCome
    <2> QED BY <2>1 DEF Handled
  <1>7. ASSUME NEW n \in Names
        PROVE  Total(n) = 0 /\ Cardinality(Trees(n)) = 0 /\ ~ Awaited(n, LeftOver, Work)
    <2>1. n \in Items /\ entries[n] = 0 /\ \A w \in Workers : slot[w].entries[n] = 0
      BY <1>2 DEF NoEntries, Items
    <2> DEFINE f == ListedBy(n)
               S == Workers \ merged
    <2>2. IsFiniteSet(S) /\ \A w \in S : f[w] = 0
      BY <1>1, <2>1, TotalFacts DEF IndInv
    <2>3. Total(n) = entries[n] + SumFunctionOnSet(f, S)
      BY DEF Total
    <2> HIDE DEF f, S
    <2>4. SumFunctionOnSet(f, S) = Cardinality(S) * 0 /\ Cardinality(S) \in Nat
      BY <2>2, SumConstant, FS_CardinalityType
    <2>5. Trees(n) = {} /\ Cardinality({}) = 0
      BY <1>6, FS_EmptySet DEF Trees
    <2> QED BY <1>3, <1>4, <2>1, <2>3, <2>4, <2>5 DEF Awaited
  <1>8. ListedPerTree
    BY <1>7 DEF ListedPerTree
  <1> QED BY <1>2, <1>5, <1>8 DEF ListingInv

LEMMA ListingNext ==
    ASSUME IndInv, ListingInv, [Next]_vars
    PROVE  ListingInv'
  <1>1. mode' = mode /\ options' = options
    BY NextBasics DEF given
  <1>2. CASE mode # "parallel" \/ Trouble'
    BY <1>1, <1>2 DEF ListingInv
  <1>3. CASE mode = "parallel" /\ ~ Trouble'
    <2>1. mode # "sequential"
      BY <1>3
    <2>2. ~ (PathOpened \/ PathNotOpened \/ EndDirectory \/ StopDirectory \/ \E n \in Names : HandleEntry(n))
      BY <2>1 DEF PathOpened, PathNotOpened, EndDirectory, StopDirectory, HandleEntry, SkipName, NameRejected,
                  AppendEntry, PassBy, DescendFails, Descend, ReadName
    <2>3. ~ Signal /\ ~ WalkFails
      BY <1>3 DEF Signal, WalkFails, Trouble
    <2>4. CASE SetupFails \/ NextInput \/ EndInputs \/ EndPaths \/ EndMerge \/ MergeFails \/ Ended \/ UNCHANGED vars
      BY <1>3, <2>4, ListingControl
    <2>5. CASE PathRejected \/ PathFile \/ PathPseudo \/ PathTooLong
      BY <1>3, <2>5, ListingPath
    <2>6. CASE PathSpread \/ EndWalk
      BY <1>3, <2>6, ListingSpread, ListingEndWalk
    <2>7. CASE \E w \in Workers : Merge(w)
      BY <1>3, <2>7, ListingMerge
    <2>8. CASE \E w \in Workers : Worker(w)
      BY <1>3, <2>8, ListingTake, ListingClose, ListingList DEF Worker
    <2> QED BY <2>2, <2>3, <2>4, <2>5, <2>6, <2>7, <2>8 DEF Next, Main
  <1> QED BY <1>2, <1>3

(* The workers of the parallel walk open a directory once for every path on  *)
(* the command line that leads to it, and list each of its files once,       *)
(* whoever takes which directory and in whichever order the slots are        *)
(* merged: without links the directories are a forest.  So a file is never   *)
(* lost between two workers, and is listed twice only for overlapping paths, *)
(* which the walk, having no visited set, does not notice.                   *)
THEOREM ListsPerPath == Spec /\ OneBoundary => []ParallelListsPerPath
  <1>1. Init /\ OneBoundary => ListingInv
    BY ListingInit
  <1>2. IndInv /\ ListingInv /\ [Next]_vars => ListingInv'
    BY ListingNext
  <1>3. ASSUME IndInv, ListingInv
        PROVE  ParallelListsPerPath
    <2> SUFFICES ASSUME mode = "parallel", pc = "done", ~ Trouble, NEW n \in Names
                 PROVE  entries[n] = IF WantedName(n)
                                     THEN Cardinality({q \in RootPositions : Parent[n] \in Reachable({target[PathAt(q)]})})
                                     ELSE 0
      BY DEF ParallelListsPerPath
    <2>1. pending = {} /\ merged = Workers /\ \A w \in Workers : frame[w] = Idle
      BY <1>3 DEF IndInv, ParallelInv
    <2>2. LeftOver = {}
      <3>1. LeftOver = UNION {frame[w].left : w \in Workers}
        BY <1>3, LeftInFrames
      <3> QED BY <2>1, <3>1 DEF Idle
    <2>3. Work = {} /\ ~ Awaited(n, LeftOver, Work)
      BY <2>1, <2>2, NothingReached DEF Work, Awaited
    <2>4. Handled = Positions
      BY <1>3, AllHandled
    <2>5. Trees(n) = {q \in RootPositions : Parent[n] \in Reachable({target[PathAt(q)]})}
      BY <2>4 DEF Trees, RootPositions
    <2>6. Total(n) = entries[n] /\ entries[n] \in Nat
      <3>1. Workers \ merged = {} /\ entries[n] \in Nat
        BY <1>3, <2>1, TotalFacts DEF IndInv
      <3>2. SumFunctionOnSet(ListedBy(n), {}) = 0
        BY SumEmpty
      <3> QED BY <3>1, <3>2 DEF Total
    <2>7. /\ WantedName(n) => Cardinality(Trees(n)) = Total(n) + 0
          /\ ~ WantedName(n) => Total(n) = 0
      BY <1>3, <2>3 DEF ListingInv, ListedPerTree
    <2> QED BY <2>5, <2>6, <2>7
  <1> QED BY <1>1, <1>2, <1>3, Invariance, PTL DEF Spec
=============================================================================
