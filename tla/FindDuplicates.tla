--------------------------- MODULE FindDuplicates ---------------------------
(***************************************************************************)
(* What a run of bc_duplicate_application_run promises its user, without    *)
(* its stages: it selects the files to compare, reads some of them, and     *)
(* answers with groups.  The answer is exact when every read succeeds and   *)
(* no signal comes; otherwise the files that were read are still grouped    *)
(* rightly among themselves.                                                *)
(***************************************************************************)
CONSTANTS
    Items,         \* the paths a run may compare
    Contents,      \* what a file may hold
    Reliable       \* no file is unreadable and every worker has its ring

VARIABLES
    content,       \* what the files hold
    files,         \* the files to compare
    read,          \* the files read to their end
    compared,      \* those among them whose first and last block were read before
    interrupted,   \* a signal has come
    answer,        \* the groups of a run that ended well
    status         \* "running", "done" (exit code 0), "interrupted" (130) or "failed" (1)

vars == <<content, files, read, compared, interrupted, answer, status>>

Init ==
    /\ content \in [Items -> Contents]
    /\ files = {} /\ read = {} /\ compared = {}
    /\ interrupted = FALSE
    /\ answer = {}
    /\ status = "running"

Twins(x, y) == x # y /\ content[x] = content[y]

(* The duplicates in S: the classes of files with one content. *)
Duplicates(S) == {{y \in S : content[y] = content[x]} : x \in {z \in S : \E y \in S : Twins(z, y)}}

(* The files are selected once; a run that sees at once that all of them     *)
(* differ ends without reading.                                              *)
Select ==
    /\ status = "running" /\ ~ interrupted
    /\ files = {}
    /\ files' \in SUBSET Items
    /\ \/ UNCHANGED status
       \/ status' = "done" /\ \A x, y \in files' : ~ Twins(x, y)
    /\ UNCHANGED <<content, read, compared, interrupted, answer>>

Read ==
    /\ status = "running"
    /\ \E S \in SUBSET (files \ read) :
         /\ read' = read \cup S
         /\ \E T \in SUBSET S : compared' = compared \cup T
    /\ UNCHANGED <<content, files, interrupted, answer, status>>

Interrupt ==
    /\ status = "running"
    /\ interrupted' = TRUE
    /\ UNCHANGED <<content, files, read, compared, answer, status>>

(* Groups are disjoint sets of two or more of the files.  A file that was    *)
(* read is only with files that were read and hold the same, and with every  *)
(* twin that was compared as it was.                                         *)
Sound(G) ==
    /\ \A g \in G : g \subseteq files /\ \E x, y \in g : x # y
    /\ \A g, h \in G : g # h => g \cap h = {}
    /\ \A g \in G : \A x, y \in g : x \in read => y \in read /\ content[x] = content[y]
    /\ \A x, y \in compared : Twins(x, y) => \E g \in G : x \in g /\ y \in g

(* A run interrupted before it has selected its files has no answer. *)
Answer ==
    /\ status = "running"
    /\ interrupted => files # {}
    /\ Sound(answer')
    /\ Reliable /\ ~ interrupted => answer' = Duplicates(files)
    /\ status' = "done"
    /\ UNCHANGED <<content, files, read, compared, interrupted>>

(* Only a run interrupted that early exits with 130. *)
Fail ==
    /\ status = "running"
    /\ \/ status' = "failed"
       \/ status' = "interrupted" /\ interrupted /\ files = {}
    /\ UNCHANGED <<content, files, read, compared, interrupted, answer>>

Next == Select \/ Read \/ Interrupt \/ Answer \/ Fail

Spec == Init /\ [][Next]_vars
=============================================================================
