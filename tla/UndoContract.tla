---------------------------- MODULE UndoContract ----------------------------
(***************************************************************************)
(* What the undo of an import promises, without its guardrails, its        *)
(* transaction and the steps between them: a request names records of one  *)
(* job; they disappear at once or not at all, and with them what users     *)
(* added to them; unless it is forced it spares what users were relying on *)
(* when it came in; a job is reported undone only when they are gone.      *)
(***************************************************************************)
CONSTANTS Jobs, Records, Admins, None

VARIABLES
    records,    \* candidates; i.by is the job that created i
    activity,   \* what users added to them: <<kind, candidate>>
    undone,     \* the jobs that are reported undone
    request     \* the undo requests

vars == <<records, activity, undone, request>>

Idle == [at |-> "idle", job |-> None, force |-> FALSE, ids |-> {}, standing |-> {}]

Active == {a \in activity : a[1] \in {"interview", "feedback"}}

Init ==
    /\ records \subseteq {i \in Records : i.by = None} /\ activity = {} /\ undone = {}
    /\ request = [u \in Admins |-> Idle]

\* Imports create records, and a run of a job may give it another status.
Import(j) ==
    /\ records \subseteq records' /\ records' \subseteq records \cup {i \in Records : i.by = j}
    /\ undone \ {j} \subseteq undone' /\ undone' \subseteq undone
    /\ UNCHANGED <<activity, request>>

\* What a request still owes: nothing that was taken back meanwhile.
Spared(u) == [request[u] EXCEPT !.standing = @ \cap activity']

\* Users work with the candidate i; feedback stays.
Work(i) ==
    /\ \A a \in activity \ activity' : a = <<"interview", i>>
    /\ \A a \in activity' \ activity : a[2] = i
    /\ request' = [u \in Admins |-> Spared(u)]
    /\ UNCHANGED <<records, undone>>

\* A request takes a list of what the job created; an empty one is done with at once.
Ask(u, j) ==
    /\ request[u].at = "idle" /\ j \notin undone
    /\ \E force \in BOOLEAN, ids \in SUBSET {i \in Records : i.by = j} :
        \/ request' = [request EXCEPT ![u] = [at |-> "asked", job |-> j, force |-> force,
                                              ids |-> ids, standing |-> Active]]
        \/ /\ ids = {}
           /\ request' = [request EXCEPT ![u] = [at |-> "removed", job |-> j, force |-> force,
                                                 ids |-> {}, standing |-> {}]]
    /\ UNCHANGED <<records, activity, undone>>

\* All of the list goes at once.  No feedback outlives its candidate, nor does anything
\* that has been there since the request came in.
Remove(u) ==
    /\ request[u].at = "asked"
    /\ records' = records \ request[u].ids
    /\ activity' \subseteq activity
    /\ \A a \in activity \ activity' : a[2] \in request[u].ids
    /\ \A a \in activity' : a[2] \in request[u].ids \cap records =>
          a[1] # "feedback" /\ a \notin request[u].standing
    /\ ~request[u].force => request[u].standing \subseteq activity'
    /\ request' = [v \in Admins |-> IF v = u THEN [request[u] EXCEPT !.at = "removed", !.standing = {}]
                                    ELSE Spared(v)]
    /\ UNCHANGED undone

Report(u) ==
    /\ request[u].at = "removed" /\ request[u].ids \cap records = {}
    /\ undone' = undone \cup {request[u].job}
    /\ request' = [request EXCEPT ![u] = Idle]
    /\ UNCHANGED <<records, activity>>

\* A request is refused or fails, or the process ends and takes all of them along:
\* what was not removed stays.
Drop(U) ==
    /\ request' = [u \in Admins |-> IF u \in U THEN Idle ELSE request[u]]
    /\ UNCHANGED <<records, activity, undone>>

Next ==
    \/ \E j \in Jobs : Import(j) \/ \E u \in Admins : Ask(u, j)
    \/ \E i \in Records : Work(i)
    \/ \E u \in Admins : Remove(u) \/ Report(u)
    \/ \E U \in SUBSET Admins : Drop(U)

Spec == Init /\ [][Next]_vars
=============================================================================
