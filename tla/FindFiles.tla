----------------------------- MODULE FindFiles -----------------------------
(***************************************************************************)
(* What discovery promises to bc_duplicate_application_run, whichever of    *)
(* its two implementations runs (bc_duplicate_main.c:115-133): it collects  *)
(* files one by one, only files the options ask for, and when it claims     *)
(* success it has them all or has met trouble: an error, a signal, an       *)
(* exhausted memory pool or a walk that failed.                             *)
(***************************************************************************)
CONSTANT Items         \* paths discovery may list

VARIABLES
    wanted,            \* the files the command line asks for
    found,             \* the files listed so far
    trouble,           \* something kept discovery from looking at a path
    status             \* "running", "done" (discovery_ok) or "failed"

vars == <<wanted, found, trouble, status>>

Init ==
    /\ wanted \in SUBSET Items
    /\ found = {}
    /\ trouble = FALSE
    /\ status = "running"

Find ==
    /\ status = "running"
    /\ \E x \in wanted \ found : found' = found \cup {x}
    /\ UNCHANGED <<wanted, trouble, status>>

MeetTrouble ==
    /\ status = "running"
    /\ trouble' = TRUE
    /\ UNCHANGED <<wanted, found, status>>

Finish ==
    /\ status = "running"
    /\ found = wanted \/ trouble
    /\ status' = "done"
    /\ UNCHANGED <<wanted, found, trouble>>

(* discovery_ok is false and application_run exits with 1. *)
GiveUp ==
    /\ status = "running"
    /\ status' = "failed"
    /\ UNCHANGED <<wanted, found, trouble>>

Next == Find \/ MeetTrouble \/ Finish \/ GiveUp

Spec == Init /\ [][Next]_vars

(* Discovery comes to an end. *)
Ends == <>(status # "running")
=============================================================================
