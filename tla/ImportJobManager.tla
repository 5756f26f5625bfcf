-------------------------- MODULE ImportJobManager --------------------------
(***************************************************************************)
(* The life of the import jobs of a server: importJobManager.js            *)
(* (registration, graceful shutdown, stuck-job reaper, startup recovery    *)
(* sweep, attempt cap, circuit breaker), the manual retry route, and as    *)
(* much of the pipeline as shows who runs a job and how far it got.        *)
(*                                                                         *)
(* Everything runs in one event loop; an action is what runs between two   *)
(* awaits.  A caller is what awaits a run: the upload of a job, the sweep  *)
(* or a manual retry.  The rows of a job are counted in whole batches; a   *)
(* flush and what it writes is ImportPipeline's subject.                   *)
(***************************************************************************)
EXTENDS Naturals

CONSTANTS
    Jobs,           \* the import jobs; the upload of job j is caller j
    Sweeper,        \* the startup recovery sweep as a caller of resumeSingleJob
    Retriers,       \* the administrators' retry requests
    None,           \* "no caller", "no job"
    NBatches,       \* batches of every file
    MaxAttempts,    \* MAX_RESUME_ATTEMPTS
    MaxFailures,    \* MAX_CONSECUTIVE_FAILURES
    MaxCrashes,     \* bound: processes that end
    MaxRetries,     \* bound: manual retries
    Graceful        \* whether the host sends SIGTERM before it stops a process

ASSUME CallersAssumption ==
    /\ Sweeper \notin Jobs \cup Retriers /\ Jobs \cap Retriers = {}
    /\ None \notin Jobs \cup Retriers \cup {Sweeper}
ASSUME LimitsAssumption ==
    /\ NBatches \in Nat /\ MaxAttempts \in Nat \ {0} /\ MaxFailures \in Nat \ {0}
    /\ MaxCrashes \in Nat /\ MaxRetries \in Nat /\ Graceful \in BOOLEAN

Callers  == Jobs \cup Retriers \cup {Sweeper}
Statuses == {"NONE", "PROCESSING", "INTERRUPTED", "COMPLETED", "FAILED", "FAILED_INCOMPLETE"}

VARIABLES
    jobs,       \* import_jobs
    landed,     \* the batches of a job that have ever been written
    server,     \* "up", "draining" (isShuttingDown) or "down"
    sweep,      \* runStartupRecoverySweep: has it run, and what is left of its list
    stuckJobs,  \* what is left of the reaper's list
    active,     \* activeJobsMap
    pausing,    \* jobs that handleGracefulShutdown has yet to mark
    breaker,    \* consecutiveFailures and isCircuitBreakerTripped; history: missed, a
                \* failure was counted that nobody compared with the limit
    call,       \* what each caller awaits
    resumed,    \* history: runs the sweep launched for each job, in any process
    unheard,    \* history: jobs with a run that did not hear of a shutdown
    crashes, retries

vars == <<jobs, landed, server, sweep, stuckJobs, active, pausing, breaker, call, resumed,
          unheard, crashes, retries>>
lists  == <<server, sweep, stuckJobs, pausing>>
bounds == <<resumed, unheard, crashes, retries>>

-----------------------------------------------------------------------------
NoRow == [status |-> "NONE", attempts |-> 0, committed |-> 0, stale |-> FALSE, onDisk |-> FALSE]

IdleCall == [pc |-> "idle", job |-> None, snap |-> 0, count |-> 0, rows |-> 0, attempt |-> 0,
             aborting |-> FALSE]

NoFailures == [failures |-> 0, tripped |-> FALSE, missed |-> FALSE]

Init ==
    /\ jobs = [j \in Jobs |-> NoRow] /\ landed = [j \in Jobs |-> {}]
    /\ server = "up" /\ sweep = [done |-> FALSE, due |-> {}] /\ stuckJobs = {}
    /\ active = [j \in Jobs |-> None] /\ pausing = {}
    /\ breaker = NoFailures
    /\ call = [c \in Callers |-> IdleCall]
    /\ resumed = [j \in Jobs |-> 0] /\ unheard = {} /\ crashes = 0 /\ retries = 0

JobOf(c) == jobs[call[c].job]

Marked(j, status) == [jobs EXCEPT ![j].status = status]

Returned(c) == [call EXCEPT ![c] = IdleCall]

\* What the lists of getInterruptedJobs and getStuckJobs say of a job.
Snapshots(S) == {[job |-> j, attempts |-> jobs[j].attempts] : j \in S}

\* Mutant of Failed: the breaker is looked at before the failure is counted.
FailedLate == [failures |-> breaker.failures + 1, missed |-> FALSE,
               tripped |-> breaker.tripped \/ breaker.failures >= MaxFailures]

\* One more recovery failed.
Failed == [failures |-> breaker.failures + 1, missed |-> FALSE,
           tripped |-> breaker.tripped \/ breaker.failures + 1 >= MaxFailures]

-----------------------------------------------------------------------------
(* Who asks for a run.                                                     *)

\* An upload is stored on disk and handed to the processor.
Upload(j) ==
    /\ server # "down" /\ jobs[j].status = "NONE" /\ call[j].pc = "idle"
    /\ jobs' = [jobs EXCEPT ![j].onDisk = TRUE]
    /\ call' = [call EXCEPT ![j] = [IdleCall EXCEPT !.pc = "opening", !.job = j]]
    /\ UNCHANGED <<landed, lists, active, breaker, bounds>>

Recoverable(j) ==
    jobs[j].status \in {"INTERRUPTED", "PROCESSING"} /\ jobs[j].attempts < MaxAttempts

\* Once per process, a minute after it started, the sweep lists the jobs to resume;
\* it has none when the query fails, and is not repeated.
SweepReads ==
    /\ server = "up" /\ ~sweep.done
    /\ \/ sweep' = [done |-> TRUE, due |-> {}]
       \/ /\ ~breaker.tripped
          /\ sweep' = [done |-> TRUE, due |-> Snapshots({j \in Jobs : Recoverable(j)})]
    /\ UNCHANGED <<jobs, landed, server, stuckJobs, pausing, active, breaker, call, bounds>>

\* The jobs of the list are resumed one after the other (the order by creation
\* time is not modelled).
SweepPicks ==
    /\ call[Sweeper].pc = "idle" /\ server = "up" /\ ~breaker.tripped
    /\ \E s \in sweep.due :
        /\ call' = [call EXCEPT ![Sweeper] =
                       [IdleCall EXCEPT !.pc = "validating", !.job = s.job, !.snap = s.attempts]]
        /\ sweep' = [sweep EXCEPT !.due = @ \ {s}]
    /\ UNCHANGED <<jobs, landed, server, stuckJobs, pausing, active, breaker, bounds>>

SweepStops ==
    /\ call[Sweeper].pc = "idle" /\ sweep.due # {}
    /\ server = "draining" \/ breaker.tripped
    /\ sweep' = [sweep EXCEPT !.due = {}]
    /\ UNCHANGED <<jobs, landed, server, stuckJobs, pausing, active, breaker, call, bounds>>

\* The retry route reads the job row, whatever its status, and resumes it.
Retry(c, j) ==
    /\ server # "down" /\ call[c].pc = "idle" /\ jobs[j].status # "NONE"
    /\ retries < MaxRetries /\ retries' = retries + 1
    /\ call' = [call EXCEPT ![c] = [IdleCall EXCEPT !.pc = "validating", !.job = j,
                                                    !.snap = jobs[j].attempts]]
    /\ UNCHANGED <<jobs, landed, lists, active, breaker, resumed, unheard, crashes>>

-----------------------------------------------------------------------------
(* resumeSingleJob, up to the launch.  The job it validates is the snapshot *)
(* its caller read; the attempts it counts are those of the row.           *)

RejectAtCap(c) ==
    /\ call[c].pc = "validating" /\ call[c].snap >= MaxAttempts
    /\ jobs' = Marked(call[c].job, "FAILED_INCOMPLETE")
    /\ call' = Returned(c)
    /\ UNCHANGED <<landed, lists, active, breaker, bounds>>

FileMissing(c) ==
    /\ call[c].pc = "validating" /\ call[c].snap < MaxAttempts /\ ~JobOf(c).onDisk
    /\ jobs' = [jobs EXCEPT ![call[c].job].attempts = @ + 1]
    /\ call' = [call EXCEPT ![c].pc = "missing"]
    /\ UNCHANGED <<landed, lists, active, breaker, bounds>>

MarkMissing(c) ==
    /\ call[c].pc = "missing"
    /\ jobs' = Marked(call[c].job, "FAILED_INCOMPLETE")
    /\ breaker' = Failed
    /\ call' = Returned(c)
    /\ UNCHANGED <<landed, lists, active, bounds>>

\* Too much memory is in use: the job is left for another cycle.
Defer(c) ==
    /\ call[c].pc = "validating" /\ call[c].snap < MaxAttempts /\ JobOf(c).onDisk
    /\ call' = Returned(c)
    /\ UNCHANGED <<jobs, landed, lists, active, breaker, bounds>>

\* Mutant of Launch: the attempt is only counted in memory.
LaunchUncounted(c) ==
    /\ call[c].pc = "validating" /\ call[c].snap < MaxAttempts /\ JobOf(c).onDisk
    /\ call' = [call EXCEPT ![c].pc = "opening", ![c].count = call[c].snap + 1]
    /\ resumed' = [resumed EXCEPT ![call[c].job] = IF c = Sweeper THEN @ + 1 ELSE @]
    /\ UNCHANGED <<jobs, landed, lists, active, breaker, unheard, crashes, retries>>

Launch(c) ==
    /\ call[c].pc = "validating" /\ call[c].snap < MaxAttempts /\ JobOf(c).onDisk
    /\ jobs' = [jobs EXCEPT ![call[c].job].attempts = @ + 1]
    /\ call' = [call EXCEPT ![c].pc = "opening", ![c].count = JobOf(c).attempts + 1]
    /\ resumed' = [resumed EXCEPT ![call[c].job] = IF c = Sweeper THEN @ + 1 ELSE @]
    /\ UNCHANGED <<landed, lists, active, breaker, unheard, crashes, retries>>

\* What is left of the sweep's list when a call it made throws: nothing.
SweepAfterThrow(c) == sweep' = IF c = Sweeper THEN [sweep EXCEPT !.due = {}] ELSE sweep

\* A statement before the launch fails (the mark at the cap or of a missing file, the
\* count of the attempt): no handler is near, and no failure is counted.
CallThrows(c) ==
    /\ call[c].pc \in {"validating", "missing"}
    /\ SweepAfterThrow(c)
    /\ call' = Returned(c)
    /\ UNCHANGED <<jobs, landed, server, stuckJobs, pausing, active, breaker, bounds>>

-----------------------------------------------------------------------------
(* The run.                                                                *)

\* The run loads the row of its job, or inserts it, and registers its controller:
\* in place of the one that is there, if the job runs already.
Open(c) ==
    /\ call[c].pc = "opening"
    /\ jobs' = IF JobOf(c).status = "NONE" THEN Marked(call[c].job, "PROCESSING") ELSE jobs
    /\ call' = [call EXCEPT ![c].pc = "running", ![c].rows = JobOf(c).committed,
                   ![c].attempt = IF JobOf(c).status = "NONE" THEN 0 ELSE JobOf(c).attempts + 1]
    /\ active' = [active EXCEPT ![call[c].job] = c]
    /\ unheard' = IF server = "draining" THEN unheard \cup {call[c].job} ELSE unheard
    /\ UNCHANGED <<landed, lists, breaker, resumed, crashes, retries>>

\* The run is between its registration and its last row.
InFile(c) == call[c].pc \in {"running", "checkpoint"}

Dropping(c) == call[c].aborting \/ server = "draining"

Write(c) ==
    /\ call[c].pc = "running" /\ call[c].rows < NBatches /\ ~Dropping(c)
    /\ landed' = [landed EXCEPT ![call[c].job] = @ \cup {call[c].rows + 1}]
    /\ call' = [call EXCEPT ![c].pc = "checkpoint", ![c].rows = @ + 1]
    /\ UNCHANGED <<jobs, lists, active, breaker, bounds>>

\* Mutant of Checkpoint: the checkpoint names the batch to resume at.
CheckpointNext(c) ==
    /\ call[c].pc = "checkpoint"
    /\ jobs' = [jobs EXCEPT ![call[c].job].committed = call[c].rows + 1,
                            ![call[c].job].stale = FALSE]
    /\ call' = [call EXCEPT ![c].pc = "running"]
    /\ UNCHANGED <<landed, lists, active, breaker, bounds>>

Checkpoint(c) ==
    /\ call[c].pc = "checkpoint"
    /\ jobs' = [jobs EXCEPT ![call[c].job].committed = call[c].rows, ![call[c].job].stale = FALSE]
    /\ call' = [call EXCEPT ![c].pc = "running"]
    /\ UNCHANGED <<landed, lists, active, breaker, bounds>>

\* Mutant of MarkRun: a run that was told to abort marks its job like any other.
MarkRunCompleted(c) ==
    /\ call[c].pc = "running" /\ (call[c].rows = NBatches \/ Dropping(c))
    /\ jobs' = Marked(call[c].job, "COMPLETED")
    /\ call' = [call EXCEPT ![c].pc = "leaving"]
    /\ UNCHANGED <<landed, lists, active, breaker, bounds>>

\* The file has been read, or what is left of it was dropped.
MarkRun(c) ==
    /\ call[c].pc = "running" /\ (call[c].rows = NBatches \/ Dropping(c))
    /\ jobs' = Marked(call[c].job, IF call[c].aborting THEN "INTERRUPTED" ELSE "COMPLETED")
    /\ call' = [call EXCEPT ![c].pc = "leaving"]
    /\ UNCHANGED <<landed, lists, active, breaker, bounds>>

\* The run unregisters its job; a resumed one that completed closes the breaker's count.
Leave(c) ==
    /\ call[c].pc = "leaving"
    /\ active' = [active EXCEPT ![call[c].job] = None]
    /\ breaker' = IF c \notin Jobs /\ JobOf(c).status = "COMPLETED"
                  THEN [breaker EXCEPT !.failures = 0, !.missed = FALSE] ELSE breaker
    /\ call' = Returned(c)
    /\ UNCHANGED <<jobs, landed, lists, bounds>>

\* The final look at the job row fails: that counts as a failed resumption, whatever
\* the run achieved.
RecheckFails(c) ==
    /\ call[c].pc = "leaving" /\ c \notin Jobs
    /\ active' = [active EXCEPT ![call[c].job] = None]
    /\ call' = [call EXCEPT ![c].pc = "caught"]
    /\ UNCHANGED <<jobs, landed, lists, breaker, bounds>>

\* Mutant of FailRun: only a run that completes unregisters its job.
FailRegistered(c) ==
    /\ call[c].pc = "running"
    /\ jobs' = Marked(call[c].job, IF call[c].attempt >= MaxAttempts
                                   THEN "FAILED_INCOMPLETE" ELSE "FAILED")
    /\ call' = IF c \in Jobs THEN Returned(c) ELSE [call EXCEPT ![c].pc = "caught"]
    /\ UNCHANGED <<landed, lists, active, breaker, bounds>>

\* The run throws: the parser, the accounting check, an error of the processor.
FailRun(c) ==
    /\ call[c].pc = "running"
    /\ active' = [active EXCEPT ![call[c].job] = None]
    /\ jobs' = Marked(call[c].job, IF call[c].attempt >= MaxAttempts
                                   THEN "FAILED_INCOMPLETE" ELSE "FAILED")
    /\ call' = IF c \in Jobs THEN Returned(c) ELSE [call EXCEPT ![c].pc = "caught"]
    /\ UNCHANGED <<landed, lists, breaker, bounds>>

\* resumeSingleJob counts the failure; on the last attempt it marks the job before
\* it looks at the breaker.
Caught(c) ==
    /\ call[c].pc = "caught" /\ call[c].count < MaxAttempts
    /\ breaker' = Failed
    /\ call' = Returned(c)
    /\ UNCHANGED <<jobs, landed, lists, active, bounds>>

CaughtAtCap(c) ==
    /\ call[c].pc = "caught" /\ call[c].count >= MaxAttempts
    /\ jobs' = Marked(call[c].job, "FAILED_INCOMPLETE")
    /\ breaker' = [breaker EXCEPT !.failures = @ + 1]
    /\ call' = [call EXCEPT ![c].pc = "tripping"]
    /\ UNCHANGED <<landed, lists, active, bounds>>

\* That mark fails: the handler itself throws, and its look at the breaker is skipped.
CapMarkFails(c) ==
    /\ call[c].pc = "caught" /\ call[c].count >= MaxAttempts
    /\ breaker' = [breaker EXCEPT !.failures = @ + 1, !.missed = TRUE]
    /\ SweepAfterThrow(c)
    /\ call' = Returned(c)
    /\ UNCHANGED <<jobs, landed, server, stuckJobs, pausing, active, bounds>>

TripCheck(c) ==
    /\ call[c].pc = "tripping"
    /\ breaker' = [breaker EXCEPT !.tripped = @ \/ breaker.failures >= MaxFailures,
                                  !.missed = FALSE]
    /\ call' = Returned(c)
    /\ UNCHANGED <<jobs, landed, lists, active, bounds>>

ResetBreaker ==
    /\ server # "down" /\ breaker.failures + (IF breaker.tripped THEN 1 ELSE 0) > 0
    /\ breaker' = NoFailures
    /\ UNCHANGED <<jobs, landed, lists, active, call, bounds>>

-----------------------------------------------------------------------------
(* The stuck-job reaper.                                                   *)

\* Ten minutes pass without a checkpoint.
GrowStale(j) ==
    /\ jobs[j].status = "PROCESSING" /\ ~jobs[j].stale
    /\ jobs' = [jobs EXCEPT ![j].stale = TRUE]
    /\ UNCHANGED <<landed, lists, active, breaker, call, bounds>>

\* Mutant of Stuck: a job that was resumed once is left alone.
StuckUntried(j) == jobs[j].status = "PROCESSING" /\ jobs[j].stale /\ jobs[j].attempts = 0

Stuck(j) == jobs[j].status = "PROCESSING" /\ jobs[j].stale /\ jobs[j].attempts < MaxAttempts

ReaperReads ==
    /\ server # "down" /\ stuckJobs = {}
    /\ stuckJobs' = Snapshots({j \in Jobs : Stuck(j)})
    /\ UNCHANGED <<jobs, landed, server, sweep, pausing, active, breaker, call, bounds>>

\* The jobs of the list are marked one by one, as the list has them.
ReaperMarks ==
    /\ \E s \in stuckJobs :
        /\ jobs' = Marked(s.job, IF s.attempts >= MaxAttempts THEN "FAILED_INCOMPLETE"
                                                               ELSE "INTERRUPTED")
        /\ stuckJobs' = stuckJobs \ {s}
    /\ UNCHANGED <<landed, server, sweep, pausing, active, breaker, call, bounds>>

-----------------------------------------------------------------------------
(* The process.                                                            *)

Registered(c) == \E j \in Jobs : active[j] = c

\* SIGTERM: every registered controller is told to abort; of two runs of one job
\* that is the one that registered last.
Shutdown ==
    /\ Graceful /\ server = "up" /\ crashes < MaxCrashes
    /\ server' = "draining"
    /\ pausing' = {j \in Jobs : active[j] # None}
    /\ call' = [c \in Callers |->
                   IF Registered(c) THEN [call[c] EXCEPT !.aborting = TRUE] ELSE call[c]]
    /\ unheard' = unheard \cup
           {call[c].job : c \in {d \in Callers : InFile(d) /\ ~Registered(d)}}
    /\ UNCHANGED <<jobs, landed, sweep, stuckJobs, active, breaker, resumed, crashes, retries>>

ManagerMarks ==
    /\ \E j \in pausing : jobs' = Marked(j, "INTERRUPTED") /\ pausing' = pausing \ {j}
    /\ UNCHANGED <<landed, server, sweep, stuckJobs, active, breaker, call, bounds>>

\* The mark fails, and that is only logged.
ManagerMarkFails ==
    /\ \E j \in pausing : pausing' = pausing \ {j}
    /\ UNCHANGED <<jobs, landed, server, sweep, stuckJobs, active, breaker, call, bounds>>

\* The process exits, is killed, or crashes.
ProcessEnds ==
    /\ server # "down" /\ crashes < MaxCrashes
    /\ crashes' = crashes + 1 /\ server' = "down"
    /\ sweep' = [done |-> FALSE, due |-> {}] /\ stuckJobs' = {} /\ pausing' = {}
    /\ active' = [j \in Jobs |-> None] /\ call' = [c \in Callers |-> IdleCall]
    /\ breaker' = NoFailures
    /\ unheard' = {j \in unheard : jobs[j].status = "COMPLETED"}
    /\ UNCHANGED <<jobs, landed, resumed, retries>>

\* The host starts another one, with or without the files the old one stored.
Restart ==
    /\ server = "down" /\ server' = "up"
    /\ \E lost \in SUBSET Jobs :
        jobs' = [j \in Jobs |-> IF j \in lost THEN [jobs[j] EXCEPT !.onDisk = FALSE] ELSE jobs[j]]
    /\ UNCHANGED <<landed, sweep, stuckJobs, pausing, active, breaker, call, bounds>>

-----------------------------------------------------------------------------
CallNext(c) ==
    \/ RejectAtCap(c) \/ FileMissing(c) \/ MarkMissing(c) \/ Defer(c) \/ Launch(c)
    \/ Open(c) \/ Write(c) \/ Checkpoint(c) \/ MarkRun(c) \/ Leave(c)
    \/ FailRun(c) \/ Caught(c) \/ CaughtAtCap(c) \/ TripCheck(c)
    \/ CallThrows(c) \/ RecheckFails(c) \/ CapMarkFails(c)

ServerNext ==
    \/ SweepReads \/ SweepPicks \/ SweepStops \/ ReaperReads \/ ReaperMarks
    \/ Shutdown \/ ManagerMarks \/ ManagerMarkFails \/ ProcessEnds \/ Restart \/ ResetBreaker

Next ==
    \/ \E c \in Callers : CallNext(c)
    \/ \E j \in Jobs : Upload(j) \/ GrowStale(j) \/ \E c \in Retriers : Retry(c, j)
    \/ ServerNext

Spec == Init /\ [][Next]_vars

\* The event loop serves every caller, the sweep and the reaper; time passes; the
\* host replaces a process that ended.
FairSpec ==
    /\ Spec
    /\ \A c \in Callers : WF_vars(CallNext(c))
    /\ WF_vars(SweepReads) /\ WF_vars(SweepPicks) /\ WF_vars(SweepStops)
    /\ WF_vars(ReaperReads) /\ WF_vars(ReaperMarks) /\ \A j \in Jobs : WF_vars(GrowStale(j))
    /\ WF_vars(Restart) /\ WF_vars(ManagerMarks \/ ManagerMarkFails)
    /\ WF_vars(server = "draining" /\ ProcessEnds)

-----------------------------------------------------------------------------
(* Properties.                                                             *)

JobRow == [status : Statuses, attempts : Nat, committed : 0 .. NBatches, stale : BOOLEAN,
           onDisk : BOOLEAN]
CallRecord ==
    [pc : {"idle", "validating", "missing", "opening", "running", "checkpoint", "leaving",
           "caught", "tripping"},
     job : Jobs \cup {None}, snap : Nat, count : Nat, rows : 0 .. NBatches, attempt : Nat,
     aborting : BOOLEAN]
BreakerRecord == [failures : Nat, tripped : BOOLEAN, missed : BOOLEAN]
Snapshot == [job : Jobs, attempts : Nat]

TypeOK ==
    /\ jobs \in [Jobs -> JobRow] /\ landed \in [Jobs -> SUBSET (1 .. NBatches)]
    /\ server \in {"up", "draining", "down"}
    /\ sweep \in [done : BOOLEAN, due : SUBSET Snapshot] /\ stuckJobs \subseteq Snapshot
    /\ active \in [Jobs -> Callers \cup {None}] /\ pausing \subseteq Jobs
    /\ breaker \in BreakerRecord
    /\ call \in [Callers -> CallRecord]
    /\ \A c \in Callers : call[c].pc # "idle" => call[c].job \in Jobs
    /\ resumed \in [Jobs -> Nat] /\ unheard \subseteq Jobs /\ crashes \in Nat /\ retries \in Nat

\* activeJobsMap only holds controllers of runs that are there to be aborted, even
\* when two runs of one job register and unregister in any order.
NoStaleController ==
    \A j \in Jobs : active[j] # None =>
        /\ call[active[j]].job = j
        /\ call[active[j]].pc \in {"running", "checkpoint", "leaving"}

\* A job that kills every process that touches it is resumed by the sweep at most
\* MAX_RESUME_ATTEMPTS times, whatever administrators retry in between.
AutoResumesCapped == \A j \in Jobs : resumed[j] <= MaxAttempts

\* Two recoveries in a row that failed leave the breaker tripped as soon as the last
\* of them is through, however many run side by side; the one way past it is a last
\* attempt whose mark failed too, and the next failure that is counted makes up for it.
BreakerTrips ==
    breaker.failures >= MaxFailures =>
        \/ breaker.tripped \/ breaker.missed
        \/ \E c \in Callers : call[c].pc = "tripping"

\* Checkpoints hold what they say even when two runs of one job take turns writing
\* them: every batch at or below last_committed_row has been written.
CommittedBatchesLanded == \A j \in Jobs : 1 .. jobs[j].committed \subseteq landed[j]

\* With two runs of one job racing for its status, COMPLETED still means that every
\* batch was written.
CompletedJobsLanded == \A j \in Jobs : jobs[j].status = "COMPLETED" => landed[j] = 1 .. NBatches

\* With shutdowns as well, the one way to a COMPLETED job that misses rows is a run
\* the shutdown did not reach: it registered while the server drained, or another
\* run of the job had taken its place in activeJobsMap.
CompletedIsExplained ==
    \A j \in Jobs :
        jobs[j].status = "COMPLETED" => landed[j] = 1 .. NBatches \/ j \in unheard

\* The reaper gets to every stalled job that has attempts left: no job is shown as
\* PROCESSING for ever.
StuckJobsAreReaped ==
    \A j \in Jobs :
        jobs[j].status = "PROCESSING" /\ jobs[j].attempts < MaxAttempts
            ~> jobs[j].status # "PROCESSING" \/ jobs[j].attempts >= MaxAttempts
=============================================================================
