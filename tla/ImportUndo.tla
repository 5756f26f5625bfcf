----------------------------- MODULE ImportUndo -----------------------------
(***************************************************************************)
(* The administrators' undo of an import job: bulkUploadUndo.js, beside    *)
(* everything that may happen while it waits for the database: runs of the *)
(* same job and of others over the same people, recruiters who schedule    *)
(* interviews and record feedback, other undos, and the end of the         *)
(* process.                                                                *)
(*                                                                         *)
(* A record is named by the row it came from, the job that created it and  *)
(* the run: what a later run creates in its place is another record.  One  *)
(* run of a job at a time and batches of one row; ImportPipeline and       *)
(* ImportJobManager are about the rest.                                    *)
(***************************************************************************)
EXTENDS Naturals

CONSTANTS
    Jobs,           \* import jobs; their files name the same people
    Admins,         \* undo requests
    None,           \* "no job"
    Flow,           \* "candidates" or "interviews": the table the jobs write to
    NRows,          \* rows of every file
    MaxRuns,        \* bound: runs of all jobs
    MaxUndos,       \* bound: undo requests
    MaxActs         \* bound: interviews scheduled, cancelled and feedback given

ASSUME UndoAssumption ==
    /\ None \notin Jobs /\ Flow \in {"candidates", "interviews"}
    /\ NRows \in Nat /\ MaxRuns \in Nat /\ MaxUndos \in Nat /\ MaxActs \in Nat

Rows    == 1 .. NRows
Records == [row : Rows, by : Jobs \cup {None}, run : 0 .. MaxRuns]
Kinds   == {"interview", "cancelled", "feedback"}

VARIABLES
    jobs,       \* import_jobs
    records,    \* the rows of the table the jobs write to
    activity,   \* what users added to candidates: <<kind, candidate>>
    asked,      \* candidates that a request to schedule an interview has looked up
    run,        \* the run of each job, if it has one
    undo,       \* the undo requests
    runs, undos, acts

\* The field standing of an undo request is a history variable: the active interviews
\* and feedback that have been there since the request came in.
vars   == <<jobs, records, activity, asked, run, undo, runs, undos, acts>>
bounds == <<runs, undos, acts>>

NoRow    == [status |-> "NONE", committed |-> 0, count |-> 0, ids |-> {}]
IdleRun  == [pc |-> "idle", no |-> 0, row |-> 0, count |-> 0, fresh |-> {}, ids |-> {}]
IdleUndo == [pc |-> "idle", job |-> None, force |-> FALSE, conflict |-> FALSE, ids |-> {},
             gone |-> {}, standing |-> {}]

Init ==
    /\ jobs = [j \in Jobs |-> NoRow]
    /\ \E known \in SUBSET Rows : records = {[row |-> r, by |-> None, run |-> 0] : r \in known}
    /\ activity = {} /\ asked = {} /\ run = [j \in Jobs |-> IdleRun] /\ undo = [u \in Admins |-> IdleUndo]
    /\ runs = 0 /\ undos = 0 /\ acts = 0

-----------------------------------------------------------------------------
(* The runs.                                                               *)

\* A job is uploaded, resumed or retried, whatever its status: the run goes on where
\* the checkpoint says.
StartRun(j) ==
    /\ run[j].pc = "idle" /\ runs < MaxRuns
    /\ runs' = runs + 1
    /\ jobs' = IF jobs[j].status = "NONE" THEN [jobs EXCEPT ![j].status = "PROCESSING"] ELSE jobs
    /\ run' = [run EXCEPT ![j] = [IdleRun EXCEPT !.pc = "reading", !.no = runs + 1,
                  !.row = jobs[j].committed, !.count = jobs[j].count, !.ids = jobs[j].ids]]
    /\ UNCHANGED <<records, activity, asked, undo, undos, acts>>

Existing(r) == {i \in records : i.row = r}

\* Mutant of InsertRow: the record that was updated is reported as created.
ReportUpdated(j) ==
    LET r    == run[j].row + 1
        news == IF Existing(r) # {} THEN Existing(r)
                ELSE {[row |-> r, by |-> j, run |-> run[j].no]}
    IN  /\ run[j].pc = "reading" /\ run[j].row < NRows
        /\ records' = records \cup news
        /\ run' = [run EXCEPT ![j].pc = "inserted", ![j].row = r, ![j].fresh = news,
                              ![j].count = @ + 1, ![j].ids = @ \cup news]
        /\ UNCHANGED <<jobs, activity, asked, undo, bounds>>

\* The row is created, unless there is a record for it: that one is updated by a
\* candidate import and left alone by an interview import.
InsertRow(j) ==
    LET r    == run[j].row + 1
        news == IF Existing(r) # {} THEN {} ELSE {[row |-> r, by |-> j, run |-> run[j].no]}
    IN  /\ run[j].pc = "reading" /\ run[j].row < NRows
        /\ records' = records \cup news
        /\ run' = [run EXCEPT ![j].pc = "inserted", ![j].row = r, ![j].fresh = news,
                              ![j].count = IF news = {} THEN @ ELSE @ + 1,
                              ![j].ids = @ \cup news]
        /\ UNCHANGED <<jobs, activity, asked, undo, bounds>>

\* The row cannot be written: among other things because an undo deletes the record
\* between its look-up and its update.
RowFails(j) ==
    /\ run[j].pc = "reading" /\ run[j].row < NRows
    /\ run' = [run EXCEPT ![j].pc = "inserted", ![j].row = @ + 1, ![j].fresh = {}]
    /\ UNCHANGED <<jobs, records, activity, asked, undo, bounds>>

\* Mutant of Checkpoint: it names the row to resume at.
CheckpointNext(j) ==
    /\ run[j].pc = "inserted"
    /\ jobs' = [jobs EXCEPT ![j].committed = run[j].row + 1, ![j].count = run[j].count,
                            ![j].ids = @ \cup run[j].fresh]
    /\ run' = [run EXCEPT ![j].pc = "reading", ![j].fresh = {}]
    /\ UNCHANGED <<records, activity, asked, undo, bounds>>

\* The ids of a batch that was inserted again row by row do not go with the
\* checkpoint: the run still has them and adds them when it completes.
Checkpoint(j) ==
    /\ run[j].pc = "inserted"
    /\ \E listed \in {run[j].fresh, {}} :
        jobs' = [jobs EXCEPT ![j].committed = run[j].row, ![j].count = run[j].count,
                             ![j].ids = @ \cup listed]
    /\ run' = [run EXCEPT ![j].pc = "reading", ![j].fresh = {}]
    /\ UNCHANGED <<records, activity, asked, undo, bounds>>

CompleteRun(j) ==
    /\ run[j].pc = "reading" /\ run[j].row = NRows
    /\ jobs' = [jobs EXCEPT ![j].status = "COMPLETED", ![j].count = run[j].count,
                            ![j].ids = @ \cup run[j].ids]
    /\ run' = [run EXCEPT ![j] = IdleRun]
    /\ UNCHANGED <<records, activity, asked, undo, bounds>>

FailRun(j) ==
    /\ run[j].pc = "reading"
    /\ jobs' = [jobs EXCEPT ![j].status = "FAILED", ![j].count = run[j].count]
    /\ run' = [run EXCEPT ![j] = IdleRun]
    /\ UNCHANGED <<records, activity, asked, undo, bounds>>

-----------------------------------------------------------------------------
(* The users.                                                              *)

\* The candidates that users work with.
Candidates == IF Flow = "candidates" THEN records ELSE {}

\* Rows that a transaction has deleted and not yet committed are locked.
Locked(a) == \E u \in Admins : a \in undo[u].gone

\* A request to schedule an interview finds its candidate ...
AskInterview(i) ==
    /\ acts < MaxActs /\ acts' = acts + 1
    /\ i \in Candidates /\ i \notin asked /\ <<"interview", i>> \notin activity
    /\ asked' = asked \cup {i}
    /\ UNCHANGED <<jobs, records, activity, run, undo, runs, undos>>

\* ... and several awaits later inserts the interview: no foreign key ties it to the
\* candidate.
Schedule(i) ==
    /\ i \in asked /\ ~Locked(<<"interview", i>>)
    /\ asked' = asked \ {i}
    /\ activity' = activity \cup {<<"interview", i>>}
    /\ UNCHANGED <<jobs, records, run, undo, bounds>>

\* Feedback has a foreign key: it is refused when the candidate is gone.
GiveFeedback(i) ==
    /\ acts < MaxActs /\ acts' = acts + 1
    /\ i \in Candidates /\ ~Locked(<<"feedback", i>>)
    /\ activity' = activity \cup {<<"feedback", i>>}
    /\ UNCHANGED <<jobs, records, asked, run, undo, runs, undos>>

Cancel(i) ==
    /\ acts < MaxActs /\ acts' = acts + 1
    /\ <<"interview", i>> \in activity /\ ~Locked(<<"interview", i>>)
    /\ activity' = (activity \ {<<"interview", i>>}) \cup {<<"cancelled", i>>}
    /\ undo' = [u \in Admins |-> [undo[u] EXCEPT !.standing = @ \ {<<"interview", i>>}]]
    /\ UNCHANGED <<jobs, records, asked, run, runs, undos>>

-----------------------------------------------------------------------------
(* undoImport.                                                             *)

\* The job row is read; whether a run of it is going on is not asked.  A job without
\* any record is marked at once; without a list of ids the guardrails are skipped.
\* (The look-up of candidates by a source that names the job finds none: no importer
\* writes such a source.)
ReadJob(u, j, force) ==
    /\ undo[u].pc = "idle" /\ undos < MaxUndos /\ jobs[j].status \notin {"NONE", "UNDONE"}
    /\ undos' = undos + 1
    /\ undo' = [undo EXCEPT ![u] = [IdleUndo EXCEPT !.job = j, !.force = force, !.ids = jobs[j].ids,
                   !.standing = activity \cap ({"interview", "feedback"} \X Records),
                   !.pc = IF jobs[j].ids # {} THEN "interviews"
                          ELSE IF jobs[j].count = 0 THEN "marking" ELSE "deleting"]]
    /\ UNCHANGED <<jobs, records, activity, asked, run, runs, acts>>

Conflict(u, kind) == \E i \in undo[u].ids : <<kind, i>> \in activity

CheckInterviews(u) ==
    /\ undo[u].pc = "interviews"
    /\ undo' = [undo EXCEPT ![u].pc = "feedback", ![u].conflict = Conflict(u, "interview")]
    /\ UNCHANGED <<jobs, records, activity, asked, run, bounds>>

\* Mutant of CheckFeedback: of the two queries only the last one counts.
CheckLast(u) ==
    /\ undo[u].pc = "feedback"
    /\ undo' = [undo EXCEPT ![u] = IF Conflict(u, "feedback") /\ ~undo[u].force THEN IdleUndo
                                   ELSE [undo[u] EXCEPT !.pc = "deleting"]]
    /\ UNCHANGED <<jobs, records, activity, asked, run, bounds>>

\* Conflicts end an undo that is not forced (409).
CheckFeedback(u) ==
    /\ undo[u].pc = "feedback"
    /\ LET conflict == undo[u].conflict \/ Conflict(u, "feedback") IN
        undo' = [undo EXCEPT ![u] = IF conflict /\ ~undo[u].force THEN IdleUndo
                                    ELSE [undo[u] EXCEPT !.pc = "deleting"]]
    /\ UNCHANGED <<jobs, records, activity, asked, run, bounds>>

\* The transaction deletes feedback and interviews of the candidates with these ids ...
DeleteActivity(u) ==
    /\ undo[u].pc = "deleting"
    /\ undo' = [undo EXCEPT ![u].pc = "committing",
                            ![u].gone = {a \in activity : a[2] \in undo[u].ids}]
    /\ UNCHANGED <<jobs, records, activity, asked, run, bounds>>

Deleted(u) == undo[u].gone \cup ({"feedback"} \X (undo[u].ids \cap Candidates))

\* ... then the candidates, which takes along feedback given meanwhile, and commits.
Commit(u) ==
    /\ undo[u].pc = "committing"
    /\ records' = records \ (undo[u].ids \cap Candidates)
    /\ activity' = activity \ Deleted(u)
    /\ undo' = [v \in Admins |-> IF v = u THEN [undo[u] EXCEPT !.pc = "marking", !.gone = {}]
                                 ELSE [undo[v] EXCEPT !.standing = @ \ Deleted(u)]]
    /\ UNCHANGED <<jobs, asked, run, bounds>>

\* Mutant of TransactionFails: the error is swallowed and the job reported undone.
FailureSwallowed(u) ==
    /\ undo[u].pc \in {"deleting", "committing"}
    /\ undo' = [undo EXCEPT ![u].pc = "marking", ![u].gone = {}]
    /\ UNCHANGED <<jobs, records, activity, asked, run, bounds>>

\* The transaction times out or meets a foreign key, and is rolled back.
TransactionFails(u) ==
    /\ undo[u].pc \in {"deleting", "committing"}
    /\ undo' = [undo EXCEPT ![u] = IdleUndo]
    /\ UNCHANGED <<jobs, records, activity, asked, run, bounds>>

MarkUndone(u) ==
    /\ undo[u].pc = "marking"
    /\ jobs' = [jobs EXCEPT ![undo[u].job].status = "UNDONE"]
    /\ undo' = [undo EXCEPT ![u] = IdleUndo]
    /\ UNCHANGED <<records, activity, asked, run, bounds>>

-----------------------------------------------------------------------------
\* The process ends and is replaced: open transactions are rolled back.
ProcessEnds ==
    /\ run' = [j \in Jobs |-> IdleRun] /\ undo' = [u \in Admins |-> IdleUndo] /\ asked' = {}
    /\ UNCHANGED <<jobs, records, activity, bounds>>

RunNext(j) ==
    \/ StartRun(j) \/ InsertRow(j) \/ RowFails(j) \/ Checkpoint(j) \/ CompleteRun(j) \/ FailRun(j)

UserNext(i) == AskInterview(i) \/ Schedule(i) \/ GiveFeedback(i) \/ Cancel(i)

UndoNext(u) ==
    \/ \E j \in Jobs, force \in BOOLEAN : ReadJob(u, j, force)
    \/ CheckInterviews(u) \/ CheckFeedback(u) \/ DeleteActivity(u) \/ Commit(u)
    \/ TransactionFails(u) \/ MarkUndone(u)

Next ==
    \/ \E j \in Jobs : RunNext(j)
    \/ \E i \in Records : UserNext(i)
    \/ \E u \in Admins : UndoNext(u)
    \/ ProcessEnds

Spec == Init /\ [][Next]_vars

-----------------------------------------------------------------------------
(* Properties.                                                             *)

Activities == Kinds \X Records

TypeOK ==
    /\ jobs \in [Jobs -> [status : {"NONE", "PROCESSING", "COMPLETED", "FAILED", "UNDONE"},
                          committed : 0 .. NRows, count : Nat, ids : SUBSET Records]]
    /\ records \subseteq Records /\ activity \subseteq Activities /\ asked \subseteq Records
    /\ run \in [Jobs -> [pc : {"idle", "reading", "inserted"}, no : 0 .. MaxRuns, row : 0 .. NRows,
                         count : Nat, fresh : SUBSET Records, ids : SUBSET Records]]
    /\ undo \in [Admins -> [pc : {"idle", "interviews", "feedback", "deleting", "committing",
                                  "marking"},
                            job : Jobs \cup {None}, force : BOOLEAN, conflict : BOOLEAN,
                            ids : SUBSET Records, gone : SUBSET Activities,
                            standing : SUBSET Activities]]
    /\ runs \in 0 .. MaxRuns /\ undos \in 0 .. MaxUndos /\ acts \in 0 .. MaxActs

\* "deleting only records created by that specific job": what an undo removes was
\* created by the job it undoes, never a record that was there before or that another
\* import made, also when runs of several jobs update each other's records.
OnlyOwnRecordsDeleted ==
    [][\A i \in records \ records' :
        \E u \in Admins : undo[u].pc = "committing" /\ undo[u].job = i.by]_vars

\* An undo that is not forced never removes an active interview or feedback that has
\* been there since the request came in, whatever runs and users do meanwhile.
StandingActivitySurvives ==
    [][\A u \in Admins :
        undo[u].pc = "committing" /\ ~undo[u].force /\ undo'[u].pc = "marking"
            => undo[u].standing \cap activity \subseteq activity']_vars

\* An undo is reported only when the records it set out to remove are gone: also
\* after transactions that fail, a second undo of the same job, runs that go on.
ReportedUndoRemoved ==
    [][\A u \in Admins :
        undo[u].pc = "marking" /\ jobs'[undo[u].job].status = "UNDONE" /\ undo'[u].pc = "idle"
            => undo[u].ids \cap records = {}]_vars
-----------------------------------------------------------------------------
(* The inductive invariant behind the three of them.                       *)

\* The record is in some list of created ids: of a job, a run, or an undo request.
Listed(i) ==
    \/ \E j \in Jobs : i \in jobs[j].ids \cup run[j].ids \cup run[j].fresh
    \/ \E u \in Admins : i \in undo[u].ids

ListsNameOwnRecords ==
    /\ \A j \in Jobs : \A i \in jobs[j].ids \cup run[j].ids \cup run[j].fresh : i.by = j
    /\ \A u \in Admins : \A i \in undo[u].ids : i.by = undo[u].job

\* A run never creates a record again that is in some list.
ListedAreOld ==
    /\ \A j \in Jobs : run[j].no <= runs
    /\ \A i \in Records : Listed(i) =>
        /\ i.run <= runs
        /\ \A j \in Jobs : run[j].pc # "idle" /\ i.by = j /\ i.run = run[j].no
                               => i.row <= run[j].row

MarkedAreGone ==
    Flow = "candidates" =>
        \A u \in Admins : undo[u].pc = "marking" => undo[u].ids \cap records = {}

GuardrailsHold ==
    \A u \in Admins :
        /\ undo[u].standing \subseteq {"interview", "feedback"} \X Records
        /\ undo[u].pc # "marking" => undo[u].standing \subseteq activity
        /\ undo[u].pc = "feedback" /\ ~undo[u].conflict =>
            \A i \in undo[u].ids : <<"interview", i>> \notin undo[u].standing
        /\ undo[u].pc \in {"deleting", "committing"} /\ ~undo[u].force =>
            \A a \in undo[u].standing : a[2] \notin undo[u].ids
        /\ \A a \in undo[u].gone : a[2] \in undo[u].ids

\* What the transaction has deleted includes all that the request found.
GoneCoversStanding ==
    \A u \in Admins : undo[u].pc = "committing" =>
        \A a \in undo[u].standing : a[2] \in undo[u].ids => a \in undo[u].gone

\* What the lists of ids, the guardrails and the transaction of an undo may rely on,
\* whatever runs, users and other undos do between its steps.
UndoInv ==
    ListsNameOwnRecords /\ ListedAreOld /\ MarkedAreGone /\ GuardrailsHold /\ GoneCoversStanding
-----------------------------------------------------------------------------
(* What the steps of a request amount to.                                  *)

\* A request has removed its records when the transaction has committed.
Abstracted(x) ==
    [at       |-> CASE x.pc = "idle" -> "idle" [] x.pc = "marking" -> "removed" [] OTHER -> "asked",
     job      |-> x.job, force |-> x.force, ids |-> x.ids,
     standing |-> IF x.pc = "marking" THEN {} ELSE x.standing]

Contract == INSTANCE UndoContract WITH
    undone  <- {j \in Jobs : jobs[j].status = "UNDONE"},
    request <- [u \in Admins |-> Abstracted(undo[u])]

\* The deletion transaction of undoImport: two statements that others come between,
\* behind guardrails that others overtake, are one removal of records of the job, all
\* or nothing, that leaves no feedback without its candidate and spares what was there
\* when an undo that is not forced came in; nothing but a run of the job takes a
\* report back.
ImplementsContract == Contract!Spec
=============================================================================
