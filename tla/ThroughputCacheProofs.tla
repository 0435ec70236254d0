------------------------- MODULE ThroughputCacheProofs -------------------------
(***************************************************************************)
(* Proofs about ThroughputCache, for every number of hosts, of processes    *)
(* and of constants and for signatures of any length.                       *)
(***************************************************************************)
EXTENDS ThroughputCache, FiniteLemmas

-----------------------------------------------------------------------------
(* The text of the cache *)

(* A store writes one line or fragment per cell of the signature and one     *)
(* line per constant, all of them under the signature of its host.           *)
LEMMA TextFacts ==
    ASSUME NEW s \in Signatures
    PROVE  /\ Text(s) \in Seq(Cell)
           /\ Len(Text(s)) = SignatureLength[s] + Constants
           /\ Len(Text(s)) \in Nat \ {0}
           /\ \A i \in 1 .. Len(Text(s)) :
                  /\ Text(s)[i].by = s
                  /\ Text(s)[i].key = IF i <= SignatureLength[s]
                                      THEN IF i = 1 THEN 0 ELSE Fragment
                                      ELSE i - SignatureLength[s]
  <1> DEFINE n == SignatureLength[s]
             a == [i \in 1 .. n |-> [key |-> IF i = 1 THEN 0 ELSE Fragment, by |-> s]]
             b == [k \in 1 .. Constants |-> [key |-> k, by |-> s]]
  <1>1. n \in Nat /\ n >= 1 /\ Constants \in Nat /\ Constants >= 1
    BY SignatureAssumption, CountsAssumption
  <1>2. a \in [1 .. n -> Cell] /\ b \in [1 .. Constants -> Cell]
    BY <1>1 DEF Cell, Keys, Fragment
  <1>3. /\ a \in Seq(Cell) /\ Len(a) = n
        /\ b \in Seq(Cell) /\ Len(b) = Constants
    BY <1>1, <1>2, ArrayIsSeq
  <1>4. Text(s) = a \o b
    BY DEF Text
  <1>5. /\ \A i \in 1 .. n : a[i].by = s /\ a[i].key = IF i = 1 THEN 0 ELSE Fragment
        /\ \A i \in 1 .. Constants : b[i].by = s /\ b[i].key = i
    OBVIOUS
  <1> HIDE DEF a, b
  <1>6. /\ a \o b \in Seq(Cell)
        /\ Len(a \o b) = n + Constants
        /\ \A i \in 1 .. n + Constants : (a \o b)[i] = IF i <= n THEN a[i] ELSE b[i - n]
    BY <1>1, <1>3
  <1> HIDE DEF n
  <1>7. ASSUME NEW i \in 1 .. n + Constants
        PROVE  /\ (a \o b)[i].by = s
               /\ (a \o b)[i].key = IF i <= n THEN IF i = 1 THEN 0 ELSE Fragment ELSE i - n
    <2>1. CASE i <= n
      <3>1. i \in 1 .. n
        BY <1>1, <2>1
      <3> QED BY <1>5, <1>6, <2>1, <3>1
    <2>2. CASE ~ (i <= n)
      <3>1. i - n \in 1 .. Constants
        BY <1>1, <2>2
      <3> QED BY <1>5, <1>6, <2>2, <3>1
    <2> QED BY <2>1, <2>2
  <1> QED BY <1>1, <1>4, <1>6, <1>7 DEF n

(* What lies behind an offset of a text is a text again; from offset 0 it is  *)
(* the whole, and at or past the end it is empty.                            *)
LEMMA BehindFacts ==
    ASSUME NEW text \in Seq(Cell), NEW n \in Nat, NEW aligned \in BOOLEAN
    PROVE  /\ Behind(text, n, aligned) \in Seq(Cell)
           /\ n = 0 => Behind(text, n, aligned) = text
           /\ Len(text) <= n => Behind(text, n, aligned) = <<>>
  <1> DEFINE rest == SubSeq(text, n + 1, Len(text))
  <1>1. rest \in Seq(Cell) /\ (n = 0 => rest = text) /\ (Len(text) <= n => rest = <<>>)
    OBVIOUS
  <1> HIDE DEF rest
  <1>2. [rest EXCEPT ![1].key = Fragment] \in Seq(Cell) \/ rest = <<>>
    <2>1. CASE rest # <<>>
      <3>1. 1 \in DOMAIN rest /\ rest[1] \in Cell
        BY <1>1, <2>1
      <3>2. PICK m \in Nat : rest \in [1 .. m -> Cell]
        BY <1>1, SeqDef
      <3>3. [rest[1] EXCEPT !.key = Fragment] \in Cell
        BY <3>1 DEF Cell
      <3>4. [rest EXCEPT ![1].key = Fragment] \in [1 .. m -> Cell]
        BY <3>1, <3>2, <3>3
      <3> QED BY <3>4, ArrayIsSeq
    <2> QED BY <2>1
  <1>3. Behind(text, n, aligned) =
            IF aligned \/ n = 0 \/ rest = <<>> THEN rest ELSE [rest EXCEPT ![1].key = Fragment]
    BY DEF Behind, rest
  <1> QED BY <1>1, <1>2, <1>3

(* The text of a store has every key once: whoever reads it finds the       *)
(* signature of the host that wrote it and that host's constants.           *)
LEMMA TextValues ==
    ASSUME NEW s \in Signatures, NEW k \in Keys
    PROVE  Lines(Text(s), k) # {} /\ Value(Text(s), k) = s
  <1> DEFINE t == Text(s)
             n == SignatureLength[s]
             m == IF k = 0 THEN 1 ELSE n + k
  <1>1. n \in Nat /\ n >= 1 /\ Constants \in Nat /\ k \in 0 .. Constants
    BY SignatureAssumption, CountsAssumption DEF Keys
  <1>2. Len(t) = n + Constants
        /\ \A i \in 1 .. Len(t) :
                  /\ t[i].by = s
                  /\ t[i].key = IF i <= n THEN IF i = 1 THEN 0 ELSE -1 ELSE i - n
    BY TextFacts DEF Fragment
  <1> HIDE DEF t, n
  <1>3. Lines(t, k) = {m}
    BY <1>1, <1>2 DEF Lines
  <1>4. m \in 1 .. Len(t)
    BY <1>1, <1>2
  <1> DEFINE last == CHOOSE i \in Lines(t, k) : \A j \in Lines(t, k) : j <= i
  <1>5. last \in Lines(t, k)
    <2>1. \E i \in Lines(t, k) : \A j \in Lines(t, k) : j <= i
      BY <1>3, <1>4
    <2> QED BY <2>1
  <1>6. Value(t, k) = t[last].by
    BY DEF Value
  <1> HIDE DEF last
  <1>7. Value(t, k) = s
    BY <1>2, <1>3, <1>4, <1>5, <1>6
  <1> QED BY <1>3, <1>7 DEF t

-----------------------------------------------------------------------------
(* The inductive invariant *)

(* Between the open and the write of a store the file is there, and the host *)
(* has the signature the store was begun with: nothing upgrades a host under *)
(* a running process.                                                        *)
WritersReady == \A p \in Processes : pc[p] = "write" => exists /\ Here(p) \in Signatures

(* The texts a reader may find when no two stores overlapped. *)
Whole == {<<>>} \cup {Text(s) : s \in Signatures}

(* The file is the text of one store, or empty, unless a longer text of an   *)
(* overlapping store shows behind it.                                        *)
FileIsWhole == foreign \/ file \in Whole

(* So is what a load has read, unless it is marked. *)
LoadsAreWhole == \A p \in Processes : tainted[p] \/ got[p] \in Whole

(* What a run uses passed the test, and passes it still. *)
HitsAreAccepted == \A p \in Processes : pc[p] = "hit" => Accepts(got[p], Here(p))

(* While nothing spoils it, the text the run found when it began is the one  *)
(* it reads, and no store is under way.                                      *)
ServedFromFile ==
    \A p \in Processes : served[p] =>
        /\ pc[p] \in {"open", "load", "hit"}
        /\ exists
        /\ \A q \in Processes : pc[q] # "write"
        /\ Here(p) \in Signatures
        /\ file = Text(Here(p))
        /\ got[p] \in {<<>>, file}

IndInv ==
    /\ TypeOK
    /\ WritersReady
    /\ FileIsWhole
    /\ LoadsAreWhole
    /\ HitsAreAccepted
    /\ ServedFromFile

-----------------------------------------------------------------------------
(* Types *)

LEMMA HereType ==
    ASSUME TypeOK, NEW p \in Processes
    PROVE  Here(p) \in Signatures \cup {Unreadable}
  BY HostAssumption DEF TypeOK, Here

LEMMA TypeInit == Init => TypeOK
  <1> SUFFICES ASSUME Init PROVE TypeOK
    OBVIOUS
  <1>1. file \in Seq(Cell)
    <2>1. CASE exists = FALSE /\ file = <<>>
      BY <2>1
    <2>2. CASE exists = TRUE /\ directory = "ready" /\ file \in {Text(s) : s \in Signatures}
      <3>1. PICK s \in Signatures : file = Text(s)
        BY <2>2
      <3> QED BY <3>1, TextFacts
    <2> QED BY <2>1, <2>2 DEF Init
  <1>2. /\ directory \in {"none", "parent", "ready"}
        /\ exists \in BOOLEAN /\ (exists => directory = "ready")
        /\ ~ exists => file = <<>>
    BY DEF Init
  <1>3. /\ signature \in [Hosts -> Signatures \cup {Unreadable}]
        /\ pc \in [Processes -> {"idle", "open", "load", "hit", "measure", "store", "write"}]
        /\ got \in [Processes -> Seq(Cell)]
        /\ faults \in 0 .. MaxFaults
        /\ upgrades \in 0 .. MaxUpgrades
    BY CountsAssumption DEF Init
  <1>4. /\ foreign \in BOOLEAN
        /\ tainted \in [Processes -> BOOLEAN]
        /\ served \in [Processes -> BOOLEAN]
        /\ \A p \in Processes : got[p] = <<>> /\ ~ tainted[p]
    BY Zenon DEF Init
  <1> QED BY <1>1, <1>2, <1>3, <1>4 DEF TypeOK

(* The end of a run, however it comes about. *)
LEMMA TypeReturn ==
    ASSUME TypeOK, NEW p \in Processes, Return(p),
           directory' \in {"none", "parent", "ready"}, exists' = exists,
           exists => directory' = "ready",
           file' \in Seq(Cell), ~ exists => file' = <<>>,
           faults' \in 0 .. MaxFaults, foreign' \in BOOLEAN, UNCHANGED environment
    PROVE  TypeOK'
  BY DEF TypeOK, Return, environment

LEMMA TypeNext ==
    ASSUME TypeOK, WritersReady, [Next]_vars
    PROVE  TypeOK'
  <1>0. MaxFaults \in Nat /\ MaxUpgrades \in Nat
    BY CountsAssumption
  <1>1. ASSUME NEW p \in Processes, Start(p) PROVE TypeOK'
    BY <1>1 DEF TypeOK, Start, environment
  <1>2. ASSUME NEW p \in Processes, LoadOpen(p) PROVE TypeOK'
    BY <1>2 DEF TypeOK, LoadOpen, environment
  <1>3. ASSUME NEW p \in Processes, LoadRead(p) PROVE TypeOK'
    <2>1. PICK aligned \in BOOLEAN : got' = [got EXCEPT ![p] = @ \o Behind(file, Len(@), aligned)]
      BY <1>3 DEF LoadRead
    <2>2. got[p] \in Seq(Cell) /\ Len(got[p]) \in Nat /\ file \in Seq(Cell)
      BY DEF TypeOK
    <2>3. got[p] \o Behind(file, Len(got[p]), aligned) \in Seq(Cell)
      BY <2>2, BehindFacts
    <2>4. got' \in [Processes -> Seq(Cell)]
      BY <2>1, <2>3 DEF TypeOK
    <2>5. \A q \in Processes : q # p => got'[q] = got[q] /\ tainted'[q] = tainted[q]
      BY <1>3, <2>1 DEF TypeOK, LoadRead
    <2>6. tainted' \in [Processes -> BOOLEAN]
      BY <1>3 DEF TypeOK, LoadRead
    <2>7. /\ directory' = directory /\ exists' = exists /\ file' = file /\ pc' = pc
          /\ faults' = faults /\ foreign' = foreign /\ served' = served
          /\ signature' = signature /\ upgrades' = upgrades
          /\ pc[p] = "load"
      BY <1>3 DEF LoadRead, environment
    <2> QED BY <2>4, <2>5, <2>6, <2>7 DEF TypeOK
  <1>4. ASSUME NEW p \in Processes, LoadEnd(p) PROVE TypeOK'
    <2>1. CASE Accepts(got[p], Here(p))
      BY <1>4, <2>1 DEF TypeOK, LoadEnd, environment
    <2>2. CASE ~ Accepts(got[p], Here(p))
      <3>1. /\ pc' = [pc EXCEPT ![p] = "measure"]
            /\ got' = [got EXCEPT ![p] = <<>>]
            /\ tainted' = [tainted EXCEPT ![p] = FALSE]
        BY <1>4, <2>2 DEF LoadEnd
      <3>2. /\ directory' = directory /\ exists' = exists /\ file' = file
            /\ faults' = faults /\ foreign' = foreign /\ served' = served
            /\ signature' = signature /\ upgrades' = upgrades
        BY <1>4 DEF LoadEnd, environment
      <3> QED BY <3>1, <3>2 DEF TypeOK
    <2> QED BY <2>1, <2>2
  <1>5. ASSUME NEW p \in Processes, Use(p) PROVE TypeOK'
    BY <1>5, TypeReturn DEF TypeOK, Use, environment
  <1>6. ASSUME NEW p \in Processes, Measure(p) PROVE TypeOK'
    <2>1. CASE p \in Pathless
      BY <1>6, <2>1, TypeReturn DEF TypeOK, Measure, environment
    <2>2. CASE p \notin Pathless
      BY <1>6, <2>2 DEF TypeOK, Measure, environment
    <2> QED BY <2>1, <2>2
  <1>7. ASSUME NEW p \in Processes, StoreGivesUp(p) PROVE TypeOK'
    BY <1>7, TypeReturn DEF TypeOK, StoreGivesUp, DirectoryEnsured, environment
  <1>8. ASSUME NEW p \in Processes, StoreOpen(p) PROVE TypeOK'
    BY <1>8 DEF TypeOK, StoreOpen, environment
  <1>9. ASSUME NEW p \in Processes, StoreWrite(p) PROVE TypeOK'
    <2>1. PICK aligned \in BOOLEAN :
              file' = Text(Here(p)) \o Behind(file, Len(Text(Here(p))), aligned)
      BY <1>9 DEF StoreWrite
    <2>2. exists /\ Here(p) \in Signatures
      BY <1>9 DEF WritersReady, StoreWrite
    <2>3. file \in Seq(Cell)
      BY DEF TypeOK
    <2>4. file' \in Seq(Cell)
      BY <2>1, <2>2, <2>3, TextFacts, BehindFacts
    <2>5. foreign' \in BOOLEAN
      BY <1>9 DEF StoreWrite
    <2> QED BY <1>9, <2>2, <2>4, <2>5, TypeReturn DEF TypeOK, StoreWrite, environment
  <1>10. ASSUME NEW p \in Processes, Fail(p) PROVE TypeOK'
    BY <1>0, <1>10, TypeReturn DEF TypeOK, Fail, environment
  <1>11. ASSUME NEW p \in Processes, LoadFails(p) PROVE TypeOK'
    BY <1>0, <1>11 DEF TypeOK, LoadFails, environment
  <1>12. ASSUME NEW h \in Hosts, Upgrade(h) PROVE TypeOK'
    BY <1>0, <1>12 DEF TypeOK, Upgrade
  <1>13. CASE ParentAppears
    BY <1>13 DEF TypeOK, ParentAppears, environment
  <1>14. CASE UNCHANGED vars
    BY <1>14 DEF TypeOK, vars
  <1> QED BY <1>1, <1>2, <1>3, <1>4, <1>5, <1>6, <1>7, <1>8, <1>9, <1>10, <1>11, <1>12, <1>13, <1>14
          DEF Next, Run

-----------------------------------------------------------------------------
(* The steps *)

LEMMA IndInit == Init => IndInv
  <1> SUFFICES ASSUME Init PROVE IndInv
    OBVIOUS
  <1>1. /\ \A p \in Processes : pc[p] = "idle" /\ got[p] = <<>>
        /\ file \in Whole
    BY DEF Init, Whole
  <1>2. \A p \in Processes : ~ served[p]
    BY Zenon DEF Init
  <1> QED BY <1>1, <1>2, TypeInit
          DEF IndInv, WritersReady, FileIsWhole, LoadsAreWhole, HitsAreAccepted, ServedFromFile, Whole

(* What a step of one process leaves alone. *)
LEMMA ReturnFacts ==
    ASSUME TypeOK, NEW p \in Processes, Return(p)
    PROVE  /\ pc'[p] = "idle" /\ got'[p] = <<>> /\ ~ served'[p]
           /\ \A q \in Processes \ {p} : /\ pc'[q] = pc[q] /\ got'[q] = got[q]
                                        /\ tainted'[q] = tainted[q] /\ served'[q] = served[q]
  BY DEF TypeOK, Return

(* A run that ends without touching the file. *)
LEMMA ReturnStep ==
    ASSUME IndInv, TypeOK', NEW p \in Processes, Return(p),
           exists' = exists, file' = file, foreign' = foreign, signature' = signature
    PROVE  IndInv'
  <1>1. /\ pc'[p] = "idle" /\ got'[p] = <<>> /\ ~ served'[p]
        /\ \A q \in Processes \ {p} : /\ pc'[q] = pc[q] /\ got'[q] = got[q]
                                     /\ tainted'[q] = tainted[q] /\ served'[q] = served[q]
    BY ReturnFacts DEF IndInv
  <1>2. \A q \in Processes : Here(q)' = Here(q)
    BY DEF Here
  <1>3. WritersReady'
    BY <1>1, <1>2 DEF IndInv, WritersReady
  <1>4. FileIsWhole' /\ LoadsAreWhole'
    BY <1>1 DEF IndInv, FileIsWhole, LoadsAreWhole, Whole
  <1>5. HitsAreAccepted'
    BY <1>1, <1>2 DEF IndInv, HitsAreAccepted
  <1>6. ServedFromFile'
    BY <1>1, <1>2 DEF IndInv, ServedFromFile
  <1> QED BY <1>3, <1>4, <1>5, <1>6 DEF IndInv

LEMMA StartStep ==
    ASSUME IndInv, TypeOK', NEW p \in Processes, Start(p)
    PROVE  IndInv'
  <1>1. /\ pc[p] = "idle" /\ pc'[p] \in {"measure", "open"}
        /\ exists' = exists /\ file' = file /\ foreign' = foreign /\ signature' = signature
        /\ got' = got /\ tainted' = tainted
        /\ \A q \in Processes \ {p} : pc'[q] = pc[q]
    BY DEF IndInv, TypeOK, Start, environment
  <1>2. \A q \in Processes \ {p} : served'[q] = served[q]
    BY DEF IndInv, TypeOK, Start
  <1>3. served'[p] => /\ p \notin Pathless /\ Here(p) # Unreadable
                      /\ exists /\ Storing = {} /\ file = Text(Here(p))
    BY DEF IndInv, TypeOK, Start
  <1>4. \A q \in Processes : Here(q)' = Here(q)
    BY <1>1 DEF Here
  <1>5. WritersReady'
    BY <1>1, <1>4 DEF IndInv, WritersReady
  <1>6. FileIsWhole' /\ LoadsAreWhole'
    BY <1>1 DEF IndInv, FileIsWhole, LoadsAreWhole, Whole
  <1>7. HitsAreAccepted'
    BY <1>1, <1>4 DEF IndInv, HitsAreAccepted
  <1>8. ServedFromFile'
    <2> SUFFICES ASSUME NEW q \in Processes, served'[q]
                 PROVE  /\ pc'[q] \in {"open", "load", "hit"}
                        /\ exists'
                        /\ \A r \in Processes : pc'[r] # "write"
                        /\ Here(q)' \in Signatures
                        /\ file' = Text(Here(q)')
                        /\ got'[q] \in {<<>>, file'}
      BY DEF ServedFromFile
    <2>1. CASE q = p
      <3>1. pc'[p] = "open"
        BY <1>3, <2>1 DEF IndInv, TypeOK, Start
      <3>2. got[p] = <<>>
        BY <1>1 DEF IndInv, TypeOK
      <3>3. Here(p) \in Signatures
        BY <1>3, <2>1, HereType DEF IndInv
      <3> QED BY <1>1, <1>3, <1>4, <2>1, <3>1, <3>2, <3>3 DEF Storing
    <2>2. CASE q # p
      <3>1. served[q]
        BY <1>2, <2>2
      <3> QED BY <1>1, <1>4, <2>2, <3>1 DEF IndInv, ServedFromFile
    <2> QED BY <2>1, <2>2
  <1> QED BY <1>5, <1>6, <1>7, <1>8 DEF IndInv

(* A step that only moves one process on, short of using or storing. *)
LEMMA MoveStep ==
    ASSUME IndInv, TypeOK', NEW p \in Processes,
           exists' = exists, file' = file, foreign' = foreign, signature' = signature,
           got' = got, tainted' = tainted,
           \A q \in Processes \ {p} : pc'[q] = pc[q],
           pc'[p] \notin {"write", "hit"},
           \A q \in Processes : served'[q] => served[q],
           served'[p] => pc'[p] \in {"open", "load"}
    PROVE  IndInv'
  <1>1. \A q \in Processes : Here(q)' = Here(q)
    BY DEF Here
  <1>2. WritersReady'
    BY <1>1 DEF IndInv, WritersReady
  <1>3. FileIsWhole' /\ LoadsAreWhole'
    BY DEF IndInv, FileIsWhole, LoadsAreWhole, Whole
  <1>4. HitsAreAccepted'
    BY <1>1 DEF IndInv, HitsAreAccepted
  <1>5. ServedFromFile'
    BY <1>1 DEF IndInv, ServedFromFile
  <1> QED BY <1>2, <1>3, <1>4, <1>5 DEF IndInv

(* What a load reads in one piece is the file as it is; a second piece, or a  *)
(* file that two stores share, marks the load.                               *)
LEMMA LoadReadStep ==
    ASSUME IndInv, TypeOK', NEW p \in Processes, LoadRead(p)
    PROVE  IndInv'
  <1>1. /\ pc[p] = "load" /\ Len(file) > Len(got[p])
        /\ exists' = exists /\ file' = file /\ foreign' = foreign /\ signature' = signature
        /\ pc' = pc /\ served' = served
    BY DEF LoadRead, environment
  <1>2. PICK aligned \in BOOLEAN : got' = [got EXCEPT ![p] = @ \o Behind(file, Len(@), aligned)]
    BY DEF LoadRead
  <1>3. \A q \in Processes \ {p} : got'[q] = got[q] /\ tainted'[q] = tainted[q]
    BY <1>2 DEF IndInv, TypeOK, LoadRead
  <1>4. tainted'[p] = (tainted[p] \/ foreign \/ got[p] # <<>>)
    BY DEF IndInv, TypeOK, LoadRead
  <1>5. got[p] \in Seq(Cell) /\ file \in Seq(Cell)
    BY DEF IndInv, TypeOK
  <1>6. got[p] = <<>> => got'[p] = file
    <2> SUFFICES ASSUME got[p] = <<>> PROVE got'[p] = file
      OBVIOUS
    <2>1. got'[p] = <<>> \o Behind(file, 0, aligned)
      BY <1>2 DEF IndInv, TypeOK
    <2>2. Behind(file, 0, aligned) = file
      BY <1>5, BehindFacts
    <2> QED BY <1>5, <2>1, <2>2
  <1>7. \A q \in Processes : Here(q)' = Here(q)
    BY <1>1 DEF Here
  <1>8. WritersReady'
    BY <1>1, <1>7 DEF IndInv, WritersReady
  <1>9. FileIsWhole'
    BY <1>1 DEF IndInv, FileIsWhole, Whole
  <1>10. LoadsAreWhole'
    <2>1. tainted'[p] \/ got'[p] \in Whole
      BY <1>4, <1>6 DEF IndInv, FileIsWhole
    <2> QED BY <1>3, <2>1 DEF IndInv, LoadsAreWhole, Whole
  <1>11. HitsAreAccepted'
    BY <1>1, <1>3, <1>7 DEF IndInv, HitsAreAccepted
  <1>12. ServedFromFile'
    <2>1. served[p] => got[p] = <<>>
      BY <1>1, <1>5 DEF IndInv, ServedFromFile
    <2> QED BY <1>1, <1>3, <1>6, <1>7, <2>1 DEF IndInv, ServedFromFile
  <1> QED BY <1>8, <1>9, <1>10, <1>11, <1>12 DEF IndInv

(* The end of a load: a run served from the file has read the whole text of   *)
(* its own host, which passes the test.                                      *)
LEMMA LoadEndStep ==
    ASSUME IndInv, TypeOK', NEW p \in Processes, LoadEnd(p)
    PROVE  IndInv'
  <1>1. /\ pc[p] = "load" /\ Len(file) <= Len(got[p])
        /\ exists' = exists /\ file' = file /\ foreign' = foreign /\ signature' = signature
        /\ served' = served
    BY DEF LoadEnd, environment
  <1>2. \A q \in Processes : Here(q)' = Here(q)
    BY <1>1 DEF Here
  <1>3. served[p] => Accepts(got[p], Here(p))
    <2> SUFFICES ASSUME served[p] PROVE Accepts(got[p], Here(p))
      OBVIOUS
    <2>1. Here(p) \in Signatures /\ file = Text(Here(p)) /\ got[p] \in {<<>>, file}
      BY DEF IndInv, ServedFromFile
    <2>2. Len(file) \in Nat \ {0}
      BY <2>1, TextFacts
    <2>3. got[p] = Text(Here(p))
      BY <1>1, <2>1, <2>2
    <2>4. 0 \in Keys
      BY CountsAssumption DEF Keys
    <2> QED BY <2>1, <2>3, <2>4, TextValues DEF Accepts
  <1>4. CASE Accepts(got[p], Here(p))
    <2>1. pc' = [pc EXCEPT ![p] = "hit"] /\ got' = got /\ tainted' = tainted
      BY <1>4 DEF LoadEnd
    <2>2. pc'[p] = "hit" /\ \A q \in Processes \ {p} : pc'[q] = pc[q]
      BY <2>1 DEF IndInv, TypeOK
    <2>3. WritersReady'
      BY <1>1, <1>2, <2>2 DEF IndInv, WritersReady
    <2>4. FileIsWhole' /\ LoadsAreWhole'
      BY <1>1, <2>1 DEF IndInv, FileIsWhole, LoadsAreWhole, Whole
    <2>5. HitsAreAccepted'
      BY <1>2, <1>4, <2>1, <2>2 DEF IndInv, HitsAreAccepted
    <2>6. ServedFromFile'
      BY <1>1, <1>2, <2>1, <2>2 DEF IndInv, ServedFromFile
    <2> QED BY <2>3, <2>4, <2>5, <2>6 DEF IndInv
  <1>5. CASE ~ Accepts(got[p], Here(p))
    <2>1. /\ pc' = [pc EXCEPT ![p] = "measure"] /\ got' = [got EXCEPT ![p] = <<>>]
          /\ tainted' = [tainted EXCEPT ![p] = FALSE]
      BY <1>5 DEF LoadEnd
    <2>2. /\ pc'[p] = "measure" /\ got'[p] = <<>>
          /\ \A q \in Processes \ {p} : pc'[q] = pc[q] /\ got'[q] = got[q] /\ tainted'[q] = tainted[q]
      BY <2>1 DEF IndInv, TypeOK
    <2>3. WritersReady'
      BY <1>1, <1>2, <2>2 DEF IndInv, WritersReady
    <2>4. FileIsWhole' /\ LoadsAreWhole'
      BY <1>1, <2>2 DEF IndInv, FileIsWhole, LoadsAreWhole, Whole
    <2>5. HitsAreAccepted'
      BY <1>2, <2>2 DEF IndInv, HitsAreAccepted
    <2>6. ServedFromFile'
      BY <1>1, <1>2, <1>3, <1>5, <2>2 DEF IndInv, ServedFromFile
    <2> QED BY <2>3, <2>4, <2>5, <2>6 DEF IndInv
  <1> QED BY <1>4, <1>5

LEMMA StoreOpenStep ==
    ASSUME IndInv, TypeOK', NEW p \in Processes, StoreOpen(p)
    PROVE  IndInv'
  <1>1. /\ exists' = TRUE /\ file' = <<>> /\ signature' = signature
        /\ got' = got /\ tainted' = tainted
        /\ pc'[p] = "write" /\ \A q \in Processes \ {p} : pc'[q] = pc[q]
    BY DEF IndInv, TypeOK, StoreOpen, environment
  <1>2. \A q \in Processes : ~ served'[q]
    BY Zenon DEF StoreOpen
  <1>3. \A q \in Processes : Here(q)' = Here(q)
    BY <1>1 DEF Here
  <1>4. Here(p) \in Signatures
    BY HereType DEF IndInv, StoreOpen
  <1>5. WritersReady'
    BY <1>1, <1>3, <1>4 DEF IndInv, WritersReady
  <1>6. FileIsWhole' /\ LoadsAreWhole'
    BY <1>1 DEF IndInv, FileIsWhole, LoadsAreWhole, Whole
  <1>7. HitsAreAccepted'
    BY <1>1, <1>3 DEF IndInv, HitsAreAccepted
  <1>8. ServedFromFile'
    BY <1>2 DEF ServedFromFile
  <1> QED BY <1>5, <1>6, <1>7, <1>8 DEF IndInv

(* The write of a store leaves its own text, with nothing of another behind   *)
(* it unless that was longer; and it serves nobody who has begun before.      *)
LEMMA StoreWriteStep ==
    ASSUME IndInv, TypeOK', NEW p \in Processes, StoreWrite(p)
    PROVE  IndInv'
  <1>1. /\ pc[p] = "write" /\ exists' = exists /\ signature' = signature
        /\ foreign' = (Len(file) > Len(Text(Here(p))))
    BY DEF StoreWrite, environment
  <1>2. PICK aligned \in BOOLEAN :
            file' = Text(Here(p)) \o Behind(file, Len(Text(Here(p))), aligned)
    BY DEF StoreWrite
  <1>3. /\ pc'[p] = "idle" /\ got'[p] = <<>> /\ ~ served'[p]
        /\ \A q \in Processes \ {p} : /\ pc'[q] = pc[q] /\ got'[q] = got[q]
                                     /\ tainted'[q] = tainted[q] /\ served'[q] = served[q]
    BY ReturnFacts DEF IndInv, StoreWrite
  <1>4. exists /\ Here(p) \in Signatures /\ file \in Seq(Cell)
    BY <1>1 DEF IndInv, WritersReady, TypeOK
  <1>5. \A q \in Processes : Here(q)' = Here(q)
    BY <1>1 DEF Here
  <1>6. FileIsWhole'
    <2> SUFFICES ASSUME ~ foreign' PROVE file' \in Whole
      BY DEF FileIsWhole, Whole
    <2>1. Text(Here(p)) \in Seq(Cell) /\ Len(Text(Here(p))) \in Nat
      BY <1>4, TextFacts
    <2>2. Len(file) <= Len(Text(Here(p)))
      <3>1. ~ (Len(file) > Len(Text(Here(p))))
        BY <1>1, Zenon
      <3> QED BY <1>4, <2>1, <3>1
    <2>3. Behind(file, Len(Text(Here(p))), aligned) = <<>>
      BY <1>4, <2>1, <2>2, BehindFacts
    <2>4. file' = Text(Here(p))
      BY <1>2, <2>1, <2>3
    <2> QED BY <1>4, <2>4 DEF Whole
  <1>7. WritersReady'
    BY <1>1, <1>3, <1>5 DEF IndInv, WritersReady
  <1>8. LoadsAreWhole'
    BY <1>3 DEF IndInv, LoadsAreWhole, Whole
  <1>9. HitsAreAccepted'
    BY <1>3, <1>5 DEF IndInv, HitsAreAccepted
  <1>10. ServedFromFile'
    BY <1>1, <1>3 DEF IndInv, ServedFromFile
  <1> QED BY <1>6, <1>7, <1>8, <1>9, <1>10 DEF IndInv

(* A host changes its signature only while none of its processes runs. *)
LEMMA UpgradeStep ==
    ASSUME IndInv, TypeOK', NEW h \in Hosts, Upgrade(h)
    PROVE  IndInv'
  <1>1. /\ exists' = exists /\ file' = file /\ foreign' = foreign
        /\ pc' = pc /\ got' = got /\ tainted' = tainted /\ served' = served
        /\ \A q \in Processes : pc[q] # "idle" => HostOf[q] # h
    BY DEF Upgrade
  <1>2. \A q \in Processes : pc[q] # "idle" => Here(q)' = Here(q)
    BY <1>1 DEF IndInv, TypeOK, Upgrade, Here
  <1>3. WritersReady'
    BY <1>1, <1>2 DEF IndInv, WritersReady
  <1>4. FileIsWhole' /\ LoadsAreWhole'
    BY <1>1 DEF IndInv, FileIsWhole, LoadsAreWhole, Whole
  <1>5. HitsAreAccepted'
    BY <1>1, <1>2 DEF IndInv, HitsAreAccepted
  <1>6. ServedFromFile'
    BY <1>1, <1>2 DEF IndInv, ServedFromFile
  <1> QED BY <1>3, <1>4, <1>5, <1>6 DEF IndInv

LEMMA IndNext ==
    ASSUME IndInv, [Next]_vars
    PROVE  IndInv'
  <1>0. TypeOK'
    BY TypeNext DEF IndInv
  <1>1. ASSUME NEW p \in Processes, Start(p) PROVE IndInv'
    BY <1>0, <1>1, StartStep
  <1>2. ASSUME NEW p \in Processes, LoadOpen(p) PROVE IndInv'
    <2>1. served[p] => exists
      BY DEF IndInv, ServedFromFile
    <2> QED BY <1>0, <1>2, <2>1, MoveStep DEF LoadOpen, environment, IndInv, TypeOK
  <1>3. ASSUME NEW p \in Processes, LoadRead(p) PROVE IndInv'
    BY <1>0, <1>3, LoadReadStep
  <1>4. ASSUME NEW p \in Processes, LoadEnd(p) PROVE IndInv'
    BY <1>0, <1>4, LoadEndStep
  <1>5. ASSUME NEW p \in Processes, Use(p) PROVE IndInv'
    BY <1>0, <1>5, ReturnStep DEF Use, environment
  <1>6. ASSUME NEW p \in Processes, Measure(p) PROVE IndInv'
    <2>1. CASE p \in Pathless
      BY <1>0, <1>6, <2>1, ReturnStep DEF Measure, environment
    <2>2. CASE p \notin Pathless
      <3>1. ~ served[p]
        BY <1>6 DEF IndInv, ServedFromFile, Measure
      <3> QED BY <1>0, <1>6, <2>2, <3>1, MoveStep DEF Measure, environment, IndInv, TypeOK
    <2> QED BY <2>1, <2>2
  <1>7. ASSUME NEW p \in Processes, StoreGivesUp(p) PROVE IndInv'
    BY <1>0, <1>7, ReturnStep DEF StoreGivesUp, environment
  <1>8. ASSUME NEW p \in Processes, StoreOpen(p) PROVE IndInv'
    BY <1>0, <1>8, StoreOpenStep
  <1>9. ASSUME NEW p \in Processes, StoreWrite(p) PROVE IndInv'
    BY <1>0, <1>9, StoreWriteStep
  <1>10. ASSUME NEW p \in Processes, Fail(p) PROVE IndInv'
    BY <1>0, <1>10, ReturnStep DEF Fail, environment
  <1>11. ASSUME NEW p \in Processes, LoadFails(p) PROVE IndInv'
    <2>1. ~ served'[p] /\ \A q \in Processes \ {p} : served'[q] = served[q]
      BY <1>11 DEF LoadFails, IndInv, TypeOK
    <2> QED BY <1>0, <1>11, <2>1, MoveStep DEF LoadFails, environment, IndInv, TypeOK
  <1>12. ASSUME NEW h \in Hosts, Upgrade(h) PROVE IndInv'
    BY <1>0, <1>12, UpgradeStep
  <1>13. CASE ParentAppears \/ UNCHANGED vars
    <2>1. /\ exists' = exists /\ file' = file /\ foreign' = foreign /\ signature' = signature
          /\ pc' = pc /\ got' = got /\ tainted' = tainted /\ served' = served
      BY <1>13 DEF ParentAppears, environment, vars
    <2>2. \A q \in Processes : Here(q)' = Here(q)
      BY <2>1 DEF Here
    <2> QED BY <1>0, <2>1, <2>2
            DEF IndInv, WritersReady, FileIsWhole, LoadsAreWhole, HitsAreAccepted, ServedFromFile, Whole
  <1> QED BY <1>1, <1>2, <1>3, <1>4, <1>5, <1>6, <1>7, <1>8, <1>9, <1>10, <1>11, <1>12, <1>13
          DEF Next, Run

LEMMA Invariance == Spec => []IndInv
  BY IndInit, IndNext, PTL DEF Spec

-----------------------------------------------------------------------------
(* The results *)

(* Types, with the file never there without its directory and nothing of a   *)
(* load left behind when a run of get_or_measure has returned.               *)
THEOREM TypeCorrect == Spec => []TypeOK
  <1>1. IndInv => TypeOK
    BY DEF IndInv
  <1> QED BY <1>1, Invariance, PTL

(* Constants a run takes from the cache were measured under the signature    *)
(* its host has, for any number of runs, hosts, crashes and upgrades, unless  *)
(* the load or the store it read overlapped another store.                    *)
THEOREM LoadsAreLocal == Spec => []LoadedValuesAreLocal
  <1>1. ASSUME IndInv PROVE LoadedValuesAreLocal
    <2> SUFFICES ASSUME NEW p \in Processes, pc[p] = "hit", ~ tainted[p], NEW k \in 1 .. Constants
                 PROVE  Value(got[p], k) = Here(p)
      BY DEF LoadedValuesAreLocal
    <2>1. 0 \in Keys /\ k \in Keys
      BY CountsAssumption DEF Keys
    <2>2. Lines(got[p], 0) # {} /\ Value(got[p], 0) = Here(p)
      BY <1>1, <2>1 DEF IndInv, HitsAreAccepted, Accepts
    <2>3. got[p] # <<>>
      BY <2>2 DEF Lines
    <2>4. PICK s \in Signatures : got[p] = Text(s)
      BY <1>1, <2>3 DEF IndInv, LoadsAreWhole, Whole
    <2> QED BY <2>1, <2>2, <2>4, TextValues
  <1> QED BY <1>1, Invariance, PTL

(* A run that begins when the last store left the constants of its host, and  *)
(* that no store overlaps, reads them and does not measure.                  *)
THEOREM CacheIsReused == Spec => []CompleteCacheIsReused
  <1>1. IndInv => CompleteCacheIsReused
    BY DEF IndInv, ServedFromFile, CompleteCacheIsReused
  <1> QED BY <1>1, Invariance, PTL
=============================================================================
