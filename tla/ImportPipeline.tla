--------------------------- MODULE ImportPipeline ---------------------------
(***************************************************************************)
(* One bulk import, row by row: runStreamingBulkUploadPipeline             *)
(* (backend/src/lib/streamingBulkUploadPipeline.js) driven by one run at a *)
(* time in one server process, with the batch inserter of the candidate    *)
(* and interview processors, the import_jobs row it checkpoints to         *)
(* (importJobRepository.js), and what interrupts it: a process that dies,  *)
(* the graceful shutdown of importJobManager.js, swallowed database        *)
(* errors.  Two runs of one job at a time are in ImportJobManager.         *)
(*                                                                         *)
(* Row r is the r-th data row of the file; the code numbers it r + 1       *)
(* because the header is row 1, and 0 still means "nothing committed".     *)
(* A row carries an identity of Keys (a phone or an e-mail), none (Anon:   *)
(* placeholder contact details, or, in an interview file, a candidate the  *)
(* database does not have yet) or fails its validator (Invalid).           *)
(* A database statement takes effect in the step that issues it.           *)
(***************************************************************************)
EXTENDS Naturals, FiniteSets, Sequences

CONSTANTS
    NRows,          \* data rows of the file
    Keys,           \* identities a row can carry
    Anon, Invalid,  \* the other two kinds of row
    Contents,       \* what the rows of the files considered may be
    BatchSize,      \* BULK_UPLOAD_LIMITS.BATCH_SIZE_*
    Flows,          \* job types considered: "candidates" (upsert), "interviews" (insert only)
    MaxAttempts,    \* MAX_RESUME_ATTEMPTS
    MaxCrashes,     \* bound: processes that end, each followed by another
    MaxFaults,      \* bound: errors of the database, the parser or a completion hook
    Graceful        \* whether the host sends SIGTERM before it stops a process

ASSUME RowsAssumption  == NRows \in Nat /\ BatchSize \in Nat \ {0}
ASSUME KindsAssumption ==
    /\ Anon \notin Keys /\ Invalid \notin Keys /\ Anon # Invalid
    /\ Contents \subseteq Keys \cup {Anon, Invalid}
ASSUME FlowAssumption  == Flows \subseteq {"candidates", "interviews"}
ASSUME BoundAssumption ==
    MaxAttempts \in Nat \ {0} /\ MaxCrashes \in Nat /\ MaxFaults \in Nat /\ Graceful \in BOOLEAN

Rows     == 1 .. NRows
Flushes  == {"main", "abort"}   \* the row callback's flush and abortForShutdown's
Statuses == {"NONE", "PROCESSING", "INTERRUPTED", "COMPLETED", "FAILED", "FAILED_INCOMPLETE"}

VARIABLES
    file,       \* the uploaded file: Rows -> Contents
    job,        \* the import_jobs row
    cands,      \* the records the job writes to; a record's id is its index
    unchecked,  \* history: rows imported although the duplicate check of theirs failed
    server,     \* "up", "draining" (isShuttingDown) or "down"
    swept,      \* this process's startup sweep: "no", "passed", "refused" (history: it
                \* left a job behind that it was there to resume)
    manager,    \* handleGracefulShutdown's entry for the job: "idle", "pending", "done",
                \* "failed"
    run,        \* locals of the running pipeline; history: mark, what its last status update
                \* wrote, "lost" if that failed
    flush,      \* locals of each flushBatch call
    crashes, faults

vars == <<file, job, cands, unchecked, server, swept, manager, run, flush, crashes, faults>>
process == <<server, swept, manager>>
bounds  == <<crashes, faults>>

-----------------------------------------------------------------------------
NoJob(flow) ==
    [flowType |-> flow, status |-> "NONE", lastRow |-> 0, created |-> 0, updated |-> 0,
     dups |-> 0, failed |-> 0, attempts |-> 0, ids |-> {}]

\* The processor the job's row names, and with it how rows are looked up and saved.
Flow == job.flowType

IdleRun == [pc |-> "idle", pos |-> 1, start |-> 0, processed |-> 0, created |-> 0,
            updated |-> 0, dups |-> 0, failed |-> 0, attempt |-> 0, batch |-> {},
            seen |-> {}, stripped |-> {}, aborting |-> FALSE, resolver |-> FALSE, ids |-> {},
            size |-> BatchSize, mark |-> "none"]

IdleFlush == [phase |-> "idle", todo |-> {}, last |-> 0, created |-> 0, updated |-> 0,
              failed |-> 0, isolated |-> FALSE, ids |-> {}]

LastOf(rows) == CHOOSE r \in rows : \A q \in rows : q <= r

\* Mutant of FlushOf: the checkpoint names the row to resume at, not the last one written.
NextAsLast(rows) ==
    [IdleFlush EXCEPT !.phase = "insert", !.todo = rows, !.last = LastOf(rows) + 1]

FlushOf(rows) ==
    [IdleFlush EXCEPT !.phase = "insert", !.todo = rows, !.last = LastOf(rows)]

Init ==
    /\ file \in [Rows -> Contents]
    /\ job \in {NoJob(flow) : flow \in Flows} /\ cands = <<>> /\ unchecked = {}
    /\ server = "up" /\ swept = "no" /\ manager = "idle"
    /\ run = IdleRun /\ flush = [f \in Flushes |-> IdleFlush]
    /\ crashes = 0 /\ faults = 0

Fault == faults < MaxFaults /\ faults' = faults + 1

-----------------------------------------------------------------------------
(* Starting a run.                                                         *)

\* The upload route hands the file to the background processor.
Upload ==
    /\ server # "down" /\ run.pc = "idle" /\ job.status = "NONE"
    /\ run' = [run EXCEPT !.pc = "opening"]
    /\ UNCHANGED <<file, unchecked, job, cands, process, flush, bounds>>

\* Mutant of Recoverable: the sweep only looks for jobs a graceful shutdown marked.
RecoverableMarked == job.status = "INTERRUPTED" /\ job.attempts < MaxAttempts

\* getInterruptedJobs.
Recoverable == job.status \in {"INTERRUPTED", "PROCESSING"} /\ job.attempts < MaxAttempts

\* A run of the job, or a flush that outlived one, is going on in this process.
Busy == run.pc # "idle" \/ \E f \in Flushes : flush[f].phase # "idle"

\* The startup sweep picks an interrupted job below the attempt cap, persists
\* the new attempt count and launches the processor.
Resume ==
    /\ server = "up" /\ swept = "no" /\ ~Busy /\ Recoverable
    /\ swept' = "passed"
    /\ job' = [job EXCEPT !.attempts = @ + 1]
    /\ run' = [run EXCEPT !.pc = "opening"]
    /\ UNCHANGED <<file, unchecked, cands, server, manager, flush, bounds>>

\* The sweep runs once per process, whether there is a job for it or not.
SweepFindsNothing ==
    /\ server = "up" /\ swept = "no" /\ (Busy \/ ~Recoverable)
    /\ swept' = "passed"
    /\ UNCHANGED <<file, unchecked, job, cands, server, manager, run, flush, bounds>>

\* It leaves the job alone: its query failed, the circuit breaker is tripped by other
\* jobs, or too much memory is in use.
ResumeRefused ==
    /\ server = "up" /\ swept = "no" /\ ~Busy /\ Recoverable
    /\ swept' = "refused"
    /\ UNCHANGED <<file, unchecked, job, cands, server, manager, run, flush, bounds>>

\* Mutant of Open: the counters are loaded, the checkpoint is not.
OpenFromTop ==
    /\ run.pc = "opening"
    /\ job' = IF job.status = "NONE" THEN [job EXCEPT !.status = "PROCESSING"] ELSE job
    /\ run' = [IdleRun EXCEPT !.pc = "reading"]
    /\ UNCHANGED <<file, unchecked, cands, process, flush, bounds>>

\* The pipeline loads the checkpoint of a job it knows, or inserts the job row.
Open ==
    /\ run.pc = "opening"
    /\ job' = IF job.status = "NONE" THEN [job EXCEPT !.status = "PROCESSING"] ELSE job
    /\ run' = [IdleRun EXCEPT !.pc = "reading", !.start = job.lastRow,
                  !.created = job.created, !.updated = job.updated, !.dups = job.dups,
                  !.failed = job.failed, !.ids = job.ids,
                  !.attempt = IF job.status = "NONE" THEN 0 ELSE job.attempts + 1]
    /\ UNCHANGED <<file, unchecked, cands, process, flush, bounds>>

\* getJobById fails and is read as "no such job": the insert only resets the
\* status, and the run starts at the caller's row with every counter at zero.
OpenBlind ==
    /\ run.pc = "opening" /\ job.status # "NONE" /\ Fault
    /\ job' = [job EXCEPT !.status = "PROCESSING"]
    /\ run' = [IdleRun EXCEPT !.pc = "reading", !.start = job.lastRow]
    /\ UNCHANGED <<file, unchecked, cands, process, flush, crashes>>

-----------------------------------------------------------------------------
(* The row callback.                                                       *)

\* A row read while the server shuts down is dropped before it is counted; a
\* row at or below the checkpoint is counted and skipped.
ReadRow ==
    /\ run.pc = "reading" /\ run.pos <= NRows
    /\ run' = IF run.aborting \/ server = "draining" THEN [run EXCEPT !.pos = @ + 1]
              ELSE IF run.pos <= run.start
                   THEN [run EXCEPT !.processed = @ + 1, !.pos = @ + 1]
                   ELSE [run EXCEPT !.processed = @ + 1, !.pc = "row"]
    /\ UNCHANGED <<file, unchecked, job, cands, process, flush, bounds>>

\* Mutant of IsDuplicate: only the file is searched, not the database.
InFileDuplicate(r) == Flow = "interviews" /\ file[r] # Invalid /\ file[r] \in run.seen

\* duplicateCheckInterview: the row's key is already in the file or the database.
\* The key of a candidate that has no id yet is the same for all of them, and
\* the database query then matches any interview of the round.
\* duplicateCheckCandidate never drops a row.
IsDuplicate(r) ==
    /\ Flow = "interviews" /\ file[r] # Invalid
    /\ \/ file[r] \in run.seen
       \/ \E i \in DOMAIN cands : file[r] \in {cands[i].key, Anon}

\* duplicateCheckCandidate: a row that repeats an identity loses it.
IsStripped(r) == Flow = "candidates" /\ file[r] \in Keys /\ file[r] \in run.seen

NextRow(rn) == [rn EXCEPT !.pc = "reading", !.pos = @ + 1]

RejectRow ==
    /\ run.pc = "row" /\ file[run.pos] = Invalid
    /\ run' = NextRow([run EXCEPT !.failed = @ + 1])
    /\ UNCHANGED <<file, unchecked, job, cands, process, flush, bounds>>

\* The validator of a good row, or its transformation, throws: the row is counted as
\* failed like a bad one.  Candidates are transformed after their duplicate check.
RowThrows ==
    /\ run.pc = "row" /\ file[run.pos] # Invalid /\ Fault
    /\ \E noted \in {{}} \cup (IF Flow = "candidates" THEN {{file[run.pos]}} ELSE {}) :
          run' = NextRow([run EXCEPT !.failed = @ + 1, !.seen = @ \cup noted])
    /\ UNCHANGED <<file, unchecked, job, cands, process, flush, crashes>>

SkipDuplicate ==
    /\ run.pc = "row" /\ IsDuplicate(run.pos)
    /\ run' = NextRow([run EXCEPT !.dups = @ + 1, !.seen = @ \cup {file[run.pos]}])
    /\ UNCHANGED <<file, unchecked, job, cands, process, flush, bounds>>

\* A row joins the batch; a full batch is flushed before the next row.
Batched(r) ==
    LET rows == run.batch \cup {r}
        rn   == [run EXCEPT !.seen = @ \cup {file[r]},
                            !.stripped = IF IsStripped(r) THEN @ \cup {r} ELSE @]
    IN IF Cardinality(rows) >= run.size
       THEN /\ run' = [rn EXCEPT !.pc = "flushing", !.pos = @ + 1, !.batch = {}]
            /\ flush' = [flush EXCEPT !["main"] = FlushOf(rows)]
       ELSE /\ run' = NextRow([rn EXCEPT !.batch = rows])
            /\ UNCHANGED flush

BatchRow ==
    /\ run.pc = "row" /\ file[run.pos] # Invalid /\ ~IsDuplicate(run.pos)
    /\ Batched(run.pos)
    /\ UNCHANGED <<file, unchecked, job, cands, process, bounds>>

\* The look-up of the duplicate check, which comes after the search of the file, throws:
\* that is only logged, and the row is imported unchecked.
DuplicateCheckFails ==
    /\ run.pc = "row" /\ Flow = "interviews" /\ file[run.pos] # Invalid
    /\ file[run.pos] \notin run.seen /\ Fault
    /\ unchecked' = unchecked \cup {run.pos}
    /\ Batched(run.pos)
    /\ UNCHANGED <<file, job, cands, process, crashes>>

\* End of the file: the rest of the batch is flushed.
EndOfFile ==
    /\ run.pc = "reading" /\ run.pos > NRows
    /\ IF run.batch = {}
       THEN run' = [run EXCEPT !.pc = "closing"] /\ UNCHANGED flush
       ELSE /\ run' = [run EXCEPT !.pc = "flushing", !.batch = {}]
            /\ flush' = [flush EXCEPT !["main"] = FlushOf(run.batch)]
    /\ UNCHANGED <<file, unchecked, job, cands, process, bounds>>

-----------------------------------------------------------------------------
(* flushBatch: the batch inserter writes row after row, the counters are   *)
(* added when it returns, and the checkpoint is written last.              *)

Inserting(f, r) ==
    /\ flush[f].phase = "insert" /\ r \in flush[f].todo
    /\ \A q \in flush[f].todo : r <= q

\* The identity under which a row reaches the database.
IdentityOf(r) == IF file[r] \in Keys /\ r \notin run.stripped THEN file[r] ELSE Anon

\* Mutants of Existing: a placeholder contact counts as an identity; no look-up at all.
ExistingOrPlaceholder(r) ==
    {i \in DOMAIN cands : Flow = "candidates" /\ cands[i].key = IdentityOf(r)}
NoneExisting(r) == {i \in DOMAIN cands : FALSE}

\* findExistingCandidate; the interview inserter never looks for a record.
Existing(r) ==
    {i \in DOMAIN cands : /\ Flow = "candidates" /\ IdentityOf(r) # Anon
                          /\ cands[i].key = IdentityOf(r)}

\* Update the record found, or create one; errs more failures are counted with it.
SaveRecord(f, r, errs) ==
    \/ \E i \in Existing(r) :
        /\ cands' = [cands EXCEPT ![i].row = r]
        /\ flush' = [flush EXCEPT ![f].todo = @ \ {r}, ![f].updated = @ + 1,
                                  ![f].failed = @ + errs]
    \/ /\ Existing(r) = {}
       /\ cands' = Append(cands, [key |-> IdentityOf(r), row |-> r])
       /\ flush' = [flush EXCEPT ![f].todo = @ \ {r}, ![f].created = @ + 1,
                                 ![f].failed = @ + errs, ![f].ids = @ \cup {Len(cands) + 1}]

InsertRow(f) ==
    /\ \E r \in Rows : Inserting(f, r) /\ SaveRecord(f, r, 0)
    /\ run' = [run EXCEPT !.resolver = TRUE]
    /\ UNCHANGED <<file, unchecked, job, process, bounds>>

\* Mutant of InsertRowFails: the record is counted before it is written.
CountedBeforeWrite(f) ==
    /\ \E r \in Rows :
        /\ Inserting(f, r) /\ Fault
        /\ flush' = [flush EXCEPT ![f].todo = @ \ {r}, ![f].created = @ + 1]
    /\ run' = [run EXCEPT !.resolver = TRUE]
    /\ UNCHANGED <<file, unchecked, job, cands, process, crashes>>

\* The write of one row fails: the inserter counts it and goes on.  In the
\* row-by-row fallback the pipeline ignores the count the inserter returns.
InsertRowFails(f) ==
    /\ \E r \in Rows :
        /\ Inserting(f, r) /\ Fault
        /\ flush' = [flush EXCEPT ![f].todo = @ \ {r},
                                  ![f].failed = IF flush[f].isolated THEN @ ELSE @ + 1]
    /\ run' = [run EXCEPT !.resolver = TRUE]
    /\ UNCHANGED <<file, unchecked, job, cands, process, crashes>>

\* The candidate is saved and counted, then linking it to the college drive
\* fails: the same row is counted as failed too.
LinkFails(f) ==
    /\ Flow = "candidates" /\ Fault
    /\ \E r \in Rows : Inserting(f, r) /\ SaveRecord(f, r, 1)
    /\ UNCHANGED <<file, unchecked, job, process, run, crashes>>

\* The interview inserter sets up its job resolver on the first batch of a run.
\* When that fails the batch is rejected before its first row, and the pipeline
\* falls back to inserting the rows one by one, with the resolver as it is.
BatchThrows(f) ==
    /\ Flow = "interviews" /\ flush[f].phase = "insert" /\ ~run.resolver /\ Fault
    /\ flush' = [flush EXCEPT ![f].isolated = TRUE]
    /\ run' = [run EXCEPT !.resolver = TRUE]
    /\ UNCHANGED <<file, unchecked, job, cands, process, crashes>>

BatchReturns(f) ==
    /\ flush[f].phase = "insert" /\ flush[f].todo = {}
    /\ run' = [run EXCEPT !.created = @ + flush[f].created, !.updated = @ + flush[f].updated,
                          !.failed = @ + flush[f].failed, !.ids = @ \cup flush[f].ids]
    /\ flush' = [flush EXCEPT ![f].phase = "checkpoint"]
    /\ UNCHANGED <<file, unchecked, job, cands, process, bounds>>

\* Mutant of Checkpointed: the ids of the batch wait for the end of the run.
CheckpointedNoIds(f) ==
    [job EXCEPT !.lastRow = flush[f].last, !.created = run.created,
                !.updated = run.updated, !.dups = run.dups, !.failed = run.failed]

\* updateCheckpoint writes the batch's last row, the run's counters and the ids
\* of this batch, none of them when it went through the row-by-row fallback.
\* The batch size of what follows depends on the memory in use.
Checkpointed(f) ==
    [job EXCEPT !.lastRow = flush[f].last, !.created = run.created,
                !.updated = run.updated, !.dups = run.dups, !.failed = run.failed,
                !.ids = IF flush[f].isolated THEN @ ELSE @ \cup flush[f].ids]

FlushReturns(f) ==
    /\ flush' = [flush EXCEPT ![f] = IdleFlush]
    /\ \E n \in 1 .. BatchSize :
          run' = [run EXCEPT !.size = n,
                             !.pc = IF f = "main" /\ run.pc = "flushing" THEN "reading" ELSE @]

WriteCheckpoint(f) ==
    /\ flush[f].phase = "checkpoint"
    /\ job' = Checkpointed(f)
    /\ FlushReturns(f)
    /\ UNCHANGED <<file, unchecked, cands, process, bounds>>

\* The checkpoint's update fails and is only logged.
CheckpointLost(f) ==
    /\ flush[f].phase = "checkpoint" /\ Fault
    /\ FlushReturns(f)
    /\ UNCHANGED <<file, unchecked, job, cands, process, crashes>>

-----------------------------------------------------------------------------
(* The end of a run.                                                       *)

Accounted(rn) == rn.created + rn.updated + rn.dups + rn.failed

Counters(j) ==
    [j EXCEPT !.created = run.created, !.updated = run.updated,
              !.dups = run.dups, !.failed = run.failed]

\* Mutant of CloseRun: the row accounting is not checked.
CloseUnchecked ==
    /\ run.pc = "closing"
    /\ run' = [run EXCEPT !.pc = "marking"]
    /\ UNCHANGED <<file, unchecked, job, cands, process, flush, bounds>>

\* The row accounting invariant holds, or is not asked of a run being aborted.
CloseRun ==
    /\ run.pc = "closing" /\ (run.processed = Accounted(run) \/ run.aborting)
    /\ run' = [run EXCEPT !.pc = "marking"]
    /\ UNCHANGED <<file, unchecked, job, cands, process, flush, bounds>>

\* It does not hold; or reading the file or the completion hook throws, whatever the run
\* was told.  A stream that fails does not wait for a flush that is on its way.
Throws ==
    \/ run.pc = "closing" /\ run.processed # Accounted(run) /\ ~run.aborting /\ UNCHANGED faults
    \/ run.pc \in {"reading", "flushing", "closing"} /\ Fault

FailedStatus == IF run.attempt >= MaxAttempts THEN "FAILED_INCOMPLETE" ELSE "FAILED"

FailRun ==
    /\ Throws
    /\ job' = Counters([job EXCEPT !.status = FailedStatus])
    /\ run' = [run EXCEPT !.pc = "idle", !.mark = FailedStatus]
    /\ UNCHANGED <<file, unchecked, cands, process, flush, crashes>>

\* Mutant of MarkRun: the abort is forgotten when the run is marked.
MarkCompleted ==
    /\ run.pc = "marking"
    /\ job' = Counters([job EXCEPT !.status = "COMPLETED", !.ids = @ \cup run.ids])
    /\ run' = [run EXCEPT !.pc = "leaving", !.mark = "COMPLETED"]
    /\ UNCHANGED <<file, unchecked, cands, process, flush, bounds>>

EndStatus == IF run.aborting THEN "INTERRUPTED" ELSE "COMPLETED"

MarkRun ==
    /\ run.pc = "marking"
    /\ job' = Counters([job EXCEPT !.status = EndStatus, !.ids = @ \cup run.ids])
    /\ run' = [run EXCEPT !.pc = "leaving", !.mark = EndStatus]
    /\ UNCHANGED <<file, unchecked, cands, process, flush, bounds>>

\* The update has returned: the run unregisters itself, and its caller is done.
Leave ==
    /\ run.pc = "leaving"
    /\ run' = [run EXCEPT !.pc = "idle"]
    /\ UNCHANGED <<file, unchecked, job, cands, process, flush, bounds>>

\* The final status update fails and the error is dropped; what made a run throw may
\* be the same outage.
MarkLost ==
    /\ Fault
    /\ \/ /\ run.pc = "marking"
          /\ run' = [run EXCEPT !.pc = "leaving", !.mark = "lost"]
       \/ /\ run.pc \in {"reading", "flushing", "closing"}
          /\ run' = [run EXCEPT !.pc = "idle", !.mark = "lost"]
    /\ UNCHANGED <<file, unchecked, job, cands, process, flush, crashes>>

-----------------------------------------------------------------------------
(* The process.                                                            *)

Registered == run.pc \notin {"idle", "opening"}

\* SIGTERM: a registered run is told to abort and its batch is flushed beside
\* whatever its row callback is doing.
Shutdown ==
    /\ Graceful /\ server = "up" /\ crashes < MaxCrashes
    /\ server' = "draining"
    /\ IF Registered
       THEN /\ manager' = "pending"
            /\ run' = [run EXCEPT !.aborting = TRUE, !.batch = {}]
            /\ flush' = IF run.batch = {} THEN flush
                        ELSE [flush EXCEPT !["abort"] = FlushOf(run.batch)]
       ELSE manager' = "done" /\ UNCHANGED <<run, flush>>
    /\ UNCHANGED <<file, unchecked, job, cands, swept, bounds>>

\* Once the abort's flush has returned the manager marks the job.
ManagerMarks ==
    /\ manager = "pending" /\ flush["abort"].phase = "idle"
    /\ manager' = "done"
    /\ job' = [job EXCEPT !.status = "INTERRUPTED"]
    /\ UNCHANGED <<file, unchecked, cands, server, swept, run, flush, bounds>>

\* Its update fails, which is only logged.
ManagerFails ==
    /\ manager = "pending" /\ flush["abort"].phase = "idle" /\ Fault
    /\ manager' = "failed"
    /\ UNCHANGED <<file, unchecked, job, cands, server, swept, run, flush, crashes>>

\* The process exits after the drain or its 8 second limit, is killed, or crashes.
ProcessEnds ==
    /\ server # "down" /\ crashes < MaxCrashes
    /\ crashes' = crashes + 1
    /\ server' = "down" /\ manager' = "idle" /\ swept' = "no"
    /\ run' = IdleRun /\ flush' = [f \in Flushes |-> IdleFlush]
    /\ UNCHANGED <<file, unchecked, job, cands, faults>>

\* The host starts another process.
Restart ==
    /\ server = "down"
    /\ server' = "up"
    /\ UNCHANGED <<file, unchecked, job, cands, swept, manager, run, flush, bounds>>

-----------------------------------------------------------------------------
FlushNext(f) ==
    \/ InsertRow(f) \/ InsertRowFails(f) \/ LinkFails(f) \/ BatchThrows(f)
    \/ BatchReturns(f) \/ WriteCheckpoint(f) \/ CheckpointLost(f)

RunNext ==
    \/ Open \/ OpenBlind \/ ReadRow \/ RejectRow \/ RowThrows \/ SkipDuplicate \/ BatchRow
    \/ DuplicateCheckFails \/ EndOfFile \/ CloseRun \/ FailRun \/ MarkRun \/ MarkLost \/ Leave
    \/ \E f \in Flushes : FlushNext(f)

Sweep == Resume \/ SweepFindsNothing \/ ResumeRefused

Next ==
    \/ Upload \/ Sweep \/ RunNext
    \/ Shutdown \/ ManagerMarks \/ ManagerFails \/ ProcessEnds \/ Restart

Spec == Init /\ [][Next]_vars

\* The event loop runs what is ready, the sweep's timer fires once, the host replaces
\* a process that ended, and one that drains does exit.
FairSpec ==
    /\ Spec
    /\ WF_vars(RunNext) /\ WF_vars(Sweep) /\ WF_vars(Restart)
    /\ WF_vars(ManagerMarks \/ ManagerFails) /\ WF_vars(server = "draining" /\ ProcessEnds)

-----------------------------------------------------------------------------
(* Properties.                                                             *)

JobRecord ==
    [flowType : Flows, status : Statuses, lastRow : 0 .. NRows, created : Nat, updated : Nat,
     dups : Nat, failed : Nat, attempts : Nat, ids : SUBSET Nat]

RunRecord ==
    [pc : {"idle", "opening", "reading", "row", "flushing", "closing", "marking", "leaving"},
     pos : 1 .. NRows + 1, start : 0 .. NRows, processed : Nat, created : Nat, updated : Nat,
     dups : Nat, failed : Nat, attempt : Nat, batch : SUBSET Rows, seen : SUBSET Contents,
     stripped : SUBSET Rows, aborting : BOOLEAN, resolver : BOOLEAN, ids : SUBSET Nat,
     size : Nat, mark : Statuses \cup {"none", "lost"}]

FlushRecord ==
    [phase : {"idle", "insert", "checkpoint"}, todo : SUBSET Rows, last : 0 .. NRows,
     created : Nat, updated : Nat, failed : Nat, isolated : BOOLEAN, ids : SUBSET Nat]

CandRecord == [key : Keys \cup {Anon}, row : Rows]

TypeOK ==
    /\ file \in [Rows -> Contents]
    /\ job \in JobRecord /\ cands \in Seq(CandRecord)
    /\ unchecked \subseteq Rows
    /\ server \in {"up", "draining", "down"} /\ swept \in {"no", "passed", "refused"}
    /\ manager \in {"idle", "pending", "done", "failed"}
    /\ run \in RunRecord /\ (run.pc = "row" => run.pos \in Rows)
    /\ flush \in [Flushes -> FlushRecord]
    /\ crashes \in Nat /\ faults \in Nat

\* A row has landed: a record holds it, or the record of its identity was later
\* overwritten by another row of that identity (in an interview file, which drops
\* the second of them, was there already).
Landed(r) ==
    \E i \in DOMAIN cands :
        \/ cands[i].row = r
        \/ /\ file[r] \in Keys /\ cands[i].key = file[r]
           /\ Flow = "interviews" \/ cands[i].row > r

Valid(r) == file[r] # Invalid

\* No committed row is lost: every valid row at or below last_committed_row is in
\* the database, whatever batch, crash or resumption got it there.
CheckpointCoversRows == \A r \in Rows : r <= job.lastRow /\ Valid(r) => Landed(r)

\* COMPLETED is only reported for a file all of whose valid rows landed.
CompletedIsComplete ==
    job.status = "COMPLETED" => \A r \in Rows : Valid(r) => Landed(r)

\* The counters of a COMPLETED job account for each row of the file once (the
\* "strict accounting invariant" as the job row shows it to the administrator).
CompletedAccounts == job.status = "COMPLETED" => Accounted(job) = NRows

\* A COMPLETED job admits to the valid rows it did not import: there are at most as
\* many as it counts failed writes and (rows repeating one of those) duplicates.
UnlandedAreCounted ==
    job.status = "COMPLETED" =>
        Cardinality({r \in Rows : Valid(r) /\ ~Landed(r)}) <= job.failed + job.dups

\* findExistingCandidate, and duplicateCheckInterview for interviews: an identity only
\* gets a second record for a row whose check failed, however often the file is read
\* again after crashes and shutdowns, and with two flushes of a run side by side.
OneRecordPerIdentity ==
    \A i, j \in DOMAIN cands :
        i < j /\ cands[i].key = cands[j].key /\ cands[i].key # Anon
            => cands[j].row \in unchecked

\* created_count is the number of recorded created_entity_ids, so that an undo by
\* id and the reported count are about the same records.
CreatedIdsMatchCount == job.created = Cardinality(job.ids)

\* Resumption starts where the job stopped: a checkpoint never moves back.
CheckpointNeverRetreats == [][job'.lastRow >= job.lastRow]_job

\* A resumed run never writes a row at or below the checkpoint again.
NoRewriteBelowCheckpoint ==
    [][\A r \in Rows : r <= job.lastRow =>
          \A i \in DOMAIN cands' : cands'[i].row = r =>
              i \in DOMAIN cands /\ cands[i].row = r]_cands

\* handleGracefulShutdown: once a run told to abort and the manager have both
\* finished with a job it is INTERRUPTED, whichever of the two wrote last.  It is
\* otherwise only if the run threw, if it was already being marked and the manager's
\* update failed, or if neither could write.
ShutdownLeavesInterrupted ==
    run.aborting /\ manager \in {"done", "failed"} /\ run.pc = "idle" =>
        \/ job.status = "INTERRUPTED"
        \/ job.status = run.mark /\ run.mark \in {"FAILED", "FAILED_INCOMPLETE"}
        \/ job.status = run.mark /\ manager = "failed"
        \/ job.status = "PROCESSING" /\ run.mark = "lost" /\ manager = "failed"

\* A job that was started is eventually reported finished, as long as the host
\* interrupts it fewer times than there are attempts, no sweep leaves it behind, and
\* its runs can write their last status: what is left undone in one process is done
\* by the next one.
JobFinishes ==
    job.status \in {"PROCESSING", "INTERRUPTED"}
        ~> \/ job.status \in {"COMPLETED", "FAILED", "FAILED_INCOMPLETE"}
           \/ swept = "refused" \/ run.mark = "lost"

\* The pipeline keeps the promise of ImportContract.
Contract ==
    INSTANCE ImportContract WITH
        due <- {r \in Rows : Valid(r)}, landed <- {r \in Rows : Landed(r)},
        committed <- job.lastRow, status <- job.status

ImplementsContract == Contract!Spec
=============================================================================
