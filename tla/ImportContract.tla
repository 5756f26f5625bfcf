--------------------------- MODULE ImportContract ---------------------------
(***************************************************************************)
(* What one bulk import job promises the administrator who started it,     *)
(* without rows, batches, runs or processes: rows that are due land and    *)
(* stay, the checkpoint only moves forward and only over rows that have    *)
(* landed, and the job is reported complete only when all of them have.    *)
(***************************************************************************)
EXTENDS Naturals

VARIABLES
    due,        \* the rows of the file that must be imported
    landed,     \* those whose data is in the database
    committed,  \* the checkpoint: every due row at or below it has landed
    status      \* what the job is reported to be

vars == <<due, landed, committed, status>>

Running == status \in {"PROCESSING", "INTERRUPTED"}

Init ==
    /\ due \subseteq Nat
    /\ landed = {} /\ committed = 0 /\ status = "NONE"

Start ==
    /\ status = "NONE" /\ status' = "PROCESSING"
    /\ UNCHANGED <<due, landed, committed>>

Land ==
    /\ Running
    /\ landed \subseteq landed' /\ landed' \subseteq due
    /\ UNCHANGED <<due, committed, status>>

Commit ==
    /\ Running
    /\ committed' \in Nat /\ committed' >= committed
    /\ \A r \in due : r <= committed' => r \in landed
    /\ UNCHANGED <<due, landed, status>>

Finish ==
    /\ Running /\ due = landed
    /\ status' = "COMPLETED"
    /\ UNCHANGED <<due, landed, committed>>

GiveUp ==
    /\ Running
    /\ status' \in {"FAILED", "FAILED_INCOMPLETE", "INTERRUPTED"}
    /\ UNCHANGED <<due, landed, committed>>

Next == Start \/ Land \/ Commit \/ Finish \/ GiveUp

Spec == Init /\ [][Next]_vars
=============================================================================
