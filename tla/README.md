# A verification project for the recruiting backend

This directory holds TLA+ modules, TLC configurations and TLAPS proofs about the
recruiting application in this repository: an Express and Prisma server
(`backend/`), a React client (`frontend/`) and their scripts. The server is one
Node process: everything runs in one event loop, and what can interleave is what
happens between two `await`s. State lives in PostgreSQL, in module variables of
the process, and in caches. What makes it hard is that work outlives requests:
imports of thousands of rows run in the background, are told to stop when the
host replaces the process, and are picked up by the next one.

## 1. Inventory

| Component | State | Operations | What is hard |
|---|---|---|---|
| Import pipeline (`lib/streamingBulkUploadPipeline.js`, `lib/importJobRepository.js`, the batch processors) | `import_jobs` row (status, checkpoint, counters, created ids), candidates and interviews, the run's locals (batch, counters, flags) | open or create the job, read a row, reject, skip, batch, flush, checkpoint, close, mark; abort | crash between insert and checkpoint; counters against checkpoint; the abort's flush beside the row callback's; swallowed database errors |
| Import job manager (`lib/importJobManager.js`, `routes/bulkUploadHistoryRoutes.js`) | `activeJobsMap`, `isShuttingDown`, circuit breaker, attempts in `import_jobs` | register, graceful shutdown, recovery sweep, stuck-job reaper, manual retry, breaker reset | stale lists, overlapping runs of one job, attempt cap, two writers of a status, jobs nobody resumes |
| Admission and preview (`routes/bulkUpload.js`, `routes/interviewUpload.js`, `lib/bulkUploadPreview.js`) | upload idempotency map, organization lock, user cooldown, preview sessions | upload, preview, confirm | check before an await, act after; expiry |
| Undo (`lib/bulkUploadUndo.js`) | job status, created ids | plan, conflict check, delete | undo of a job that still runs; gap between check and delete |
| Resume parse queue (`modules/matching/jobQueue.js`) | `resume_parse_jobs`, active count | enqueue, claim, execute, reap | its worker is started by nobody (see "Not modelled") |
| Read path (`middleware/deduplication.js`, `loadShedding.js`, `concurrencyLimiter.js`, `utils/cache.js`, `l1Cache.js`, `cacheInvalidation.js`, the job list of `modules/jobs/routes.js`) | in-flight entries and their waiters, the limiter's counter, L1 entries, in-flight fetches | arrive, coalesce, admit, answer, time out, fetch, share, invalidate, expire | an answer that comes after the time-out's; a fill that races an invalidation; slots released twice |
| Quality checks and offers (`modules/quality-check/service.js`, `jobs/qualityCheckReconciliation.js`, every route or import that writes a candidate's or an application's status) | `quality_checks`, `candidates.status`, `applications.status`, `interview_feedbacks` | enqueue hook, sweep, decide, gate, status routes, board, join and reject, feedback, imports | a gate of three reads before the write; two records written one after the other; a hook nobody awaits |
| Recruit-AI (`modules/integrations/recruit-ai/`) | result rows with a review state, inbox events, `lastSyncAt`, rounds | webhook, processing, poll, confirm, relink, dismiss | calls lost, repeated and reordered; windows of polls; a recruiter beside a delivery |
| External API keys, notifications | rows with a status each, retry timers | handlers and periodic jobs | overlapping ticks, late answers |
| Candidates, interviews, scheduling, telecalling, drives, sales, users, teams | database rows | request handlers | concurrent edits of one row |
| Reports, analytics, dashboard, audit | none of their own | queries | none that a state machine shows |
| File parsing, normalization, scoring | none | functions of text | none that a state machine shows |
| Frontend | component state, request cache | views, API client | token refresh, stale lists |

`PROJECT.json` lists each with its files and its status. What makes the
six that are modelled here correct:

* **Pipeline.** No committed row is lost; a checkpoint never moves back; nothing
  below it is written again; `COMPLETED` means all valid rows landed and the
  counters account for every row once; an identity gets a second record only for a
  row whose duplicate check failed; an aborted job is left INTERRUPTED; an
  interrupted job is finished in the end unless a sweep leaves it behind.
* **Undo.** It deletes records of its own job only; unless forced it spares a
  candidate with an active interview or feedback; what is reported undone is gone.
* **Manager.** `activeJobsMap` only holds runs that can be aborted; checkpoints
  and `COMPLETED` mean what they say even when two runs of one job overlap; the
  sweep respects the attempt cap; failures trip the breaker unless the handler of the
  last one failed itself; the reaper gets to every stalled job that has attempts left.
* **Offer gate.** An offer rests on an approval, on a candidacy older than the
  gate, or on a join; while every check is rejected nothing stands at OFFER_SENT; a
  selection gets a check even when its hook is lost.
* **Read path.** A server at rest admits again; a user never reads backwards; a
  list is outdated only when an invalidation slipped, and not for ever; whoever is
  coalesced is answered.
* **Result inbox.** What is marked processed was stored; a dated old version does not
  overwrite a new one; a recruiter's decisions stand; the window of the next poll
  covers what is missing, and in the end nothing is, but for what the limit of a poll
  cuts off and what undated payloads shut out.

## 2. Modules

| Module | What it is |
|---|---|
| `ImportContract` | abstract specification: what one import job promises |
| `ImportPipeline` | one job, row by row, one run at a time, with crashes, SIGTERM and swallowed errors |
| `ImportPipelineInvariant` | the inductive invariant of a resumption |
| `ImportPipelineProofs` | type correctness of the pipeline, proved |
| `ImportResumptionProofs` | what a resumption owes to its checkpoint, and that the pipeline implements `ImportContract`, proved |
| `ImportAccountingProofs` | its counters, identities and final status under swallowed errors and SIGTERM, proved |
| `ImportJobManager` | several jobs and everybody who starts runs of them |
| `ImportJobManagerProofs` | its safety properties, proved |
| `UndoContract` | abstract specification: what an undo promises |
| `ImportUndo` | undo requests beside runs, users and each other |
| `ImportUndoProofs` | what an undo removes and spares, and that it implements `UndoContract`, proved |
| `OfferGate` | one candidate and application: checks, gate, every writer of a status |
| `OfferGateProofs` | what stands behind an offer, proved |
| `ReadPath` | one URL and its users: coalescing, timer, limiter, cache, invalidation |
| `ReadPathProofs` | staleness, monotonic reads, slots, who serves the waiters, proved |
| `InboxContract` | abstract specification: what the inbox promises |
| `RecruitInbox` | results of AI interviews: webhook, processing, poller, review queue |
| `RecruitInboxProofs` | its five safety properties, and that it implements `InboxContract`, proved |
| `MC...` | constants and symmetry of each for TLC |

Each definition is preceded by what it stands for; the table from definitions to
source lines is `map` in `PROJECT.json`. Operators whose comment begins with
"Mutant of" are plausible faults of the operator they name; no specification uses
them, they show that the properties tell the code from a faulty version of it.

### ImportPipeline

`job` is the `import_jobs` row, `cands` the records the import writes (a record
keeps the identity it was created under and the last row written to it), `run` the
locals of `runStreamingBulkUploadPipeline`, and `flush` those of its two possible
concurrent `flushBatch` calls: `"main"` for the row callback's and
`"abort"` for the one `abortForShutdown` makes. `run.pc` is the `await` the
run is suspended at:

    idle -> opening -> reading <-> row -> flushing -> reading
                          |
                          +-> closing -> marking -> leaving -> idle

A flush goes through `insert` (one action per row of the batch, each with the
outcomes the inserter has: update, create, a write error, a drive link that fails
after the candidate was counted, a batch that throws and is inserted row by row)
and `checkpoint` (written or lost). A graceful shutdown sets `run.aborting`,
takes the batch and starts the second flush, all in the synchronous part of
`handleGracefulShutdown`; `ManagerMarks` is what follows its await, `ManagerFails`
the same with an update that fails and is only logged. `ProcessEnds` is the end of a
process for any reason: it drops every local and keeps the database.

The sweep runs once in a process (`swept`): it resumes the job (`Resume`), has nothing
to resume (`SweepFindsNothing`), or leaves the job behind (`ResumeRefused`: its query
failed, other jobs have tripped the breaker, memory is short).

A run throws (`FailRun`) when its accounting does not add up, and also when reading
the file or the completion hook fails. The latter may happen to a run that was told to
abort, whose job is then FAILED or FAILED_INCOMPLETE, over an INTERRUPTED the manager
may have written. A stream that fails does not wait for the flush on its way, so a
flush may outlive its run (`Busy`). A row may throw in its validator or its
transformation, which counts it as failed (`RowThrows`). When the look-up of the
duplicate check throws, that is logged and the row is imported
(`DuplicateCheckFails`). Two history variables: `unchecked` holds such rows, `run.mark`
what the last status update of a run wrote, `"lost"` if it failed.

The contents of the file are chosen in `Init`: every sequence of identities,
rows without an identity and invalid rows. `Flow` tells the candidate importer,
which updates the record it finds and strips a contact that repeats in the file,
from the interview importer, which only inserts and skips what it finds.

Abstractions:

* one run at a time; two runs of a job, and uploaded files that are gone after a
  restart, are `ImportJobManager`'s subject;
* the insertion of the job row by the very first run does not fail;
* a row's validator gives the same answer in every run, apart from `RowThrows`; a
  stream that fails while a row is in hand fails after that row;
* a database statement takes effect in the step that issues it;
* the batch size that follows a flush depends on memory: any size up to the limit;
* `import_processed_keys` is left out: it is written and never read
  (`isKeyProcessed` has no caller), and the in-memory key set only ever holds keys
  of rows the same run has passed;
* created ids are a set: the code appends to a list that may repeat them;
* a candidate is found by one identity; the look-up by name within a drive
  (processor lines 209-226) and the preview branch are not modelled;
* the database holds no other records when the job starts.

### ImportJobManager

`call` holds one record for everybody who awaits a run: the upload of a job, the
sweep, each manual retry. `snap` is the attempt count of the row its caller read,
`count` what `incrementResumeAttempts` returned, `rows` the batches written or
skipped. Rows are counted in whole batches, `landed` remembers which were ever
written. `sweep.due` and `stuckJobs` are what is left of the lists that the sweep
and the reaper read, with what they said when they were read. `resumed` and
`unheard` are history variables. `unheard` names the jobs with a run that the
shutdown around it did not reach: `handleGracefulShutdown` aborts the controllers
that are in `activeJobsMap` when it is called, which are neither those of runs that
register later nor those that another run of the job has replaced or removed. Such a
run drops its rows (`isServerShuttingDown`) and marks its job COMPLETED, a known
deviation; `CompletedIsExplained` says that nothing else leads to a COMPLETED
job that misses rows.

The manager's own statements fail too. The sweep's query may fail (`SweepReads`, with an
empty list), so may a statement before the launch (`CallThrows`), the last look at the
job row (`RecheckFails`) and the manager's mark (`ManagerMarkFails`). On the last attempt
`resumeSingleJob` marks the job inside its handler, before it looks at the breaker: when
that mark fails (`CapMarkFails`) the handler throws and the look is skipped.
`breaker.missed`, a history field, says so until the next failure is counted.

Abstractions: an aborted run's own partial flush is the pipeline's subject; the
sweep takes its list in any order instead of by creation time; the passing of ten
minutes is the step `GrowStale`; the stored file of a job may be gone after a
restart; undo is `ImportUndo`'s subject.

### ImportUndo

`undo[u]` holds the locals of one call of `undoImport` and, in `pc`, the `await` it
is suspended at:

    idle -> interviews -> feedback -> deleting -> committing -> marking -> idle

`jobs` has the columns that matter here (status, checkpoint, created ids, created
count), `records` the rows of the table that `Flow` names, `activity` the
interviews and feedback that users attached to candidates. A record is named by its
row, its creator and the run, so a record that a later run creates for the same
person is another one, as it is in the database. The transaction has two steps,
because what is inserted between its statements is not deleted by the earlier ones:
`DeleteActivity` notes what it has deleted (locked until the commit), `Commit`
makes it visible. `asked` is what lies between the look-up of a candidate and the
insertion of an interview in the schedule route, which no foreign key protects.
`standing` is a history variable: the active interviews and feedback that have been
there since the request came in.

`UndoContract` has no guardrails, transaction or ids to compare: a request names records
of a job, all of them go at once or none, with what users attached, and a request
that is not forced goes through only if what was standing when it came in still
stands. `ImplementsContract` maps a request to it by where its transaction is
(`Abstracted`): two statements and the guardrails in front of them, with users, runs
and other undos between them, are one removal. A run may take the report UNDONE back
and nothing else does.

Abstractions: batches of one row and one run of a job at a time; the look-up and
the insertion of a row are one step; one outstanding schedule request for a
candidate; applications and drive links go with the candidate (that an application
with pipeline events makes the transaction fail is one of the outcomes of
`TransactionFails`).

### OfferGate

`cand`, `app`, `fb`, `checks` are the rows of one candidate, one application, the
feedback of each round and the quality checks in the order of their creation. `req`
holds the requests that change a status; `pc` is the statement each waits for:

    idle -> [status -> count -> approval ->] candidate -> [application ->] idle
                                             application -> [candidate ->] idle

The bracketed first part is `assertOfferSentAllowed`, three reads with awaits
between them, taken only by requests that ask for OFFER_SENT. `route` decides which
record is written first and whether the other follows; an import row that finds no
candidate passes no gate. `hook` is the fire-and-forget `enqueueCandidate`, `sweep`
the reconciliation, both with the statement that may fail in between; `Decide` is
the one transaction `recordDecision` runs. `excused` is a history variable; it names
the ways the code lets an offer through without an approval: a join, a rejection
recorded while an offer was past the gate, and a candidate that came into being with
the offer. The last is an import row that finds nobody (`ImportRow`) or a create
request: both create routes take ACTIVE, OFFER_SENT, JOINED or REJECTED from the body
and write it ungated (`CreateCandidate`).

Abstractions: the time of feedback is after the sweep's cut-off; stage definitions
and pipeline events are left out; a salary is present exactly when a check is
approved. An import row that found no candidate writes to the one that came into being
meanwhile, as the fallback of its failed create does.

### ReadPath

One URL, the list of jobs or a file download, and the PATCH that changes what it
returns. The body of an answer is the version of the data it shows, so staleness
and order are comparisons of numbers. `leading` and `waiting` are the entries of
`inFlightRequests`, `dedup` the three-second response entries, `l1` and `flight` the
cache entry of the list and the request whose fetch others await, `active` the
limiter's counter. A request's `pc` is the await of its handler, `sent` says that
some answer went out (its own or the timer's 504), `conn` that the connection is
open. `Answer` is what `res.json` does once the middleware has wrapped it: it takes
the entry of its user, which need no longer be its own, sends, and hands the body to
the waiters; when the request was answered before, the send throws and the
waiters are lost (`stranded`). `slipped` and `seen` are history variables too.
`WaitersAreServed` is the safety half of `OnTimeAnswered`: whoever is coalesced
stands in the entry of its user, and of that user a request is yet to answer.

Abstractions: a refused request (503 of the shedding, 429, a full limiter) leaves
nothing behind and is no step; the waiters a resumed microtask batch answers are
answered in one step; the second cache tier and the stale-while-revalidate entry
points are not in use on this route; the store of the rate limiter is synchronous.

### RecruitInbox

The provider publishes versions of a result. A webhook call may carry any version
published so far, any number of times, and `ids`, chosen in `Init`, says what its event
id stands for (one version, one result, one call). Whether a payload names the time its
version was made is a choice of each delivery (`Dating`); one that does not gets the
time of its arrival. The code compares these times, so the model keeps them in
`stamp` as far as versions tell them apart: `2v` for a dated version `v`, and for an
undated one `2 * latest + 1`, after the latest version published when it arrives and
before the next. `Outdated` is the comparison. Two payloads that arrived undated between the
same publications have equal stamps, and either may count as the older one (`Tied`).
`row` is the stored result with the recruiter's review and link, `processed` the inbox
events, `interview` the rounds, `lastSync` the poller's time stamp. A delivery goes
through

    read -> match -> upsert -> check -> status -> (webhook: mark | sync: next item)

with an await at each arrow, the recruiter through `confirm -> outcome`, a sync
through `fetch -> items`. A poll asks for `PageLimit` results and for no next page:
the provider returns all that changed or `PageLimit` of them, any ones (`Pages`).
`beside` notes that another write of the row came between a delivery's read and its
upsert, `decided` the rounds that had their outcome when it came in. `stored` is the
latest stamp a result was ever stored with. `excused` names the results whose latest
version a poll has cut off, a sync has failed on, or an old version has overwritten or
shut out by arriving undated after it was made; the next version, or the storing of
this one, takes the excuse back.

`InboxContract` keeps of a delivery that it looked and that it wrote. A delivery that no other
write of the row came between is one atomic step there: judged on the row as it is
when it writes, it replaces none that is newer by its date, keeps a confirmation and a
link. One that was overtaken (`beside`) may lose what the other wrote, which is what the
code does, and nothing else is excused. `ImplementsContract` follows both kinds to the
status of their round.

Abstractions: whom a result matches is a free choice (the scores of
`matchingService.js` are data); a payload that names no result is stored as a result
of its own and is left out; the very first sync, which looks back a day, is assumed to
come within that day, and edits of the round by other routes are left out. `Tick` states
the one assumption about time: a sync is done with its items within `Overlap` of having
fetched them, and the provider stamps results with the same clock. Without it a poll
that takes longer than ten minutes would leave a gap.

## 3. Runs

| Run | Instance | Shows |
|---|---|---|
| `import_crash` | 4 rows, 2 identities, all kinds of row, batches of 2, 2 kills | resumption: what a checkpoint covers, ids, no rewriting below it, refinement of `ImportContract` |
| `import_faults` | 3 rows of all kinds, both flows, 2 kills, 2 errors of any kind | what a COMPLETED job's counters say, and that checkpoints advance, under every error that is swallowed or thrown |
| `import_shutdown` | 3 valid rows, 1 identity, both flows, 2 processes that end, SIGTERM, 1 error, fair | the final status after an abort; one record per identity; every job is finished unless a sweep left it or its mark was lost |
| `manager_recovery` | 2 jobs of 1 batch, cap 2, breaker at 2, SIGTERM, 1 process that ends | breaker, controllers, what COMPLETED means, also while a server drains |
| `manager_retries` | 1 job of 2 batches, 2 crashes, 1 retry, fair | checkpoints of overlapping runs, the cap over three processes, the reaper gets everywhere |
| `undo_candidates` | 2 imports of one person who may be known before, 2 runs, 2 undo requests, 2 user actions, restarts | what activity an undo spares, what its report means, refinement of `UndoContract` |
| `offer_gate` | 2 checked rounds, 1 request, 1 hook, 3 user actions, 1 fault or restart, fair sweep | what stands behind an offer, rejections, lost hooks |
| `read_caches` | 2 users, 3 requests, limit 2, 1 update, both kinds of URL | slots, staleness, monotonic reads |
| `read_answers` | 1 user, 3 requests, limit 1, 1 update, fair | coalesced requests are answered, caches end up fresh |
| `read_download` | 1 user, 3 requests, a download, fair | a coalesced download is never answered (must be violated) |
| `recruit_reviews` | 1 result in 2 versions, 2 dated webhook calls, 1 recruiter, 1 round, all kinds of id, 1 fault | events, reviews, links and outcomes, refinement of `InboxContract` |
| `recruit_polls` | 2 results, one in 2 versions and one in 1 that no call brings, 1 call with or without a date, 1 sync limited to 1 result, clock to 2, overlap 1, 1 fault, fair | order of versions, poll windows, every version stored in the end unless excused |

The bounds are as large as makes every interesting case happen. Four rows in
batches of two give a checkpoint in the middle of the file, a batch after it, and
a partial last batch when a row is skipped or memory is short; two identities over
four rows give repeats within a batch, across batches, and across the checkpoint.
Two kills give a resumption that is itself interrupted. In the manager two jobs
are enough for the sweep to have a list, a cap of two below two crashes lets a job
use up its attempts, and one retry beside the upload and the sweep gives two runs
of one job (three at most, which need nothing the two do not do). For the undo one
person in two files is enough for one job to update what the other created, two
user actions schedule and cancel, or schedule and give feedback, and two requests
undo the same job or both jobs at once. For the gate one request is enough for TLC to
put a decision, a sweep and feedback between any two of its statements, three
actions to reject what was selected and ask for the offer, and the proofs cover any
number of requests. Three requests on the read path are a leader, a late answer and
a waiter; two users are enough to share a flight without sharing an entry; one
update makes a version stale. The inbox has two runs since its parts meet only in
the row: two deliveries and a recruiter race for the row without a clock, a delivery
and a poller need the clock but no recruiter; an overlap of one with a clock of two lets a
version come before, inside and after the window of the next poll. Two results under a
limit of one are enough for a poll to cut one off, and the second of them gets one version
and no call because it is there to be cut off or to displace the first. Two
versions are enough for an undated old one to arrive after the new one was made. One
error at a time is enough for SIGTERM, since each of the failures that explain a final
status does so alone or with a kill; the proof of `ShutdownLeavesInterrupted` covers
any number, and two faults are in `import_faults`. `Silent` and `Dating` say which
choices of the provider an instance has; the proofs have no such limits. `MaxVersions`,
`MaxTime`, `MaxWrites`, `MaxRuns`, `MaxUndos`, `MaxActs`, `MaxCrashes`,
`MaxFaults` and `MaxRetries` bound how often the environment acts; they are not
limits of the code, and `MaxAttempts`, `BatchSize`, `MaxFailures` and `PageLimit` are
(the hundred results of a poll, the batches of hundreds of rows made small). Runs say
`CHECK_DEADLOCK FALSE` because a server that has finished its jobs and is not
killed has nothing to do.

**Fairness.** `FairSpec` assumes weak fairness only: the event loop runs what is
ready (one condition for the run, since its next step is always a single
continuation or one of several concurrent ones; in the manager one per caller, on
the read path one per request), the sweep's timeout fires once in a process and the
reaper's interval again and again, the manager marks a job or fails to, the host
replaces a process that ended, and a process that drains exits (it calls
`process.exit`). That the sweep resumes a job is not assumed: it may have left it
behind, and `JobFinishes` then promises nothing until a next process, nor for a run
whose last mark was lost. `EventuallyCurrent` likewise promises nothing of a version
in `excused`. The gate needs the five-minute reconciliation only, the inbox the
fifteen-minute poll of each sync; cache entries expire. A kill, an upload, a retry,
SIGTERM, a database error, a webhook call, a time-out and what users do are never
required to happen. Weak fairness is enough because nothing disables a waiting
continuation for good but the end of its process.

### Disagreements with the code's own statements

`read_download` is a run that TLC must find violated: "Send the identical response
to all coalesced waiting requests" (`middleware/deduplication.js:66`), but only
`res.json` does; a route below the deduplicated prefixes that answers with `res.send`
leaves its entry, and every later identical request of that user waits in it without
timer or answer.

Disagreements that counterexamples of TLC showed in these models, not kept as runs:

| The code says | What happens |
|---|---|
| "Enforce Strict Accounting Invariant" (`streamingBulkUploadPipeline.js:572`) | an invalid row after the last batched row is in the checkpoint's counters but above its row number; a resumed run counts it again and fails |
| "If graceful shutdown requested, stop accepting new rows" (`:377`) | a run that starts after SIGTERM, or is no longer in `activeJobsMap` when it comes, drops its rows and is marked COMPLETED (excused by `unheard` in `CompletedIsExplained`) |
| "Process jobs SEQUENTIALLY (never concurrently)" (`importJobManager.js:275`) | the sweep lists a job its own process is running and starts it again |
| "or FAILED_INCOMPLETE if at cap" (`importJobManager.js:117`) | a job that dies on its last attempt is listed by nobody and stays PROCESSING |
| "Safely removes records created by a specific bulk upload job" (`bulkUploadUndo.js:5`) | the ids of an interview import are interview ids, every deletion is by candidate id: nothing is deleted, the job is UNDONE |
| "automatically pull any results if a webhook delivery was interrupted" (`docs/integrations/recruit-ai.md:22`) | an item whose processing fails is counted and skipped, and what is beyond the hundred results of a poll (`pollerService.js:99`) is not asked for, while `lastSyncAt` moves on: outside the ten-minute overlap neither is ever pulled again (`excused` in `NoGap` and `EventuallyCurrent`) |
| "successfully checkpointed as INTERRUPTED" (`importJobManager.js:96`) | a run told to abort whose stream or completion hook throws writes FAILED or FAILED_INCOMPLETE over it, and the sweep does not take the job up again (excused by `run.mark` in `ShutdownLeavesInterrupted`) |

Read off the code while modelling, without a run of their own: SIGTERM's flush
checkpoints later rows while the earlier batch is still being inserted, and a kill
then loses rows (`CheckpointCoversRows`, a part of `ResumptionInv`, fails when SIGTERM is allowed); rows without
contact details are inserted twice when a crash falls between insert and
checkpoint; after a resumption a repeated contact overwrites the first row's
candidate; a duplicate check that throws is only logged and its row imported, so that a
row of an interview file that a killed run had inserted gets a second interview;
a stream that fails leaves its flush behind, whose checkpoint then comes after the
final status; the manager's mark may fail, and then an aborted run's job is what the run
wrote, PROCESSING or COMPLETED included; the handler of a failed last attempt throws
when its mark fails, and the breaker is not looked at; a sweep that finds the breaker
tripped, memory short or its query failing is not repeated in its process;
ids of records whose checkpoint was lost are never recorded for undo;
the row-by-row fallback ignores the `failed` count it is given; interview rows of
candidates that do not exist yet share one duplicate key; concurrent retries pass
the attempt cap together; the retry route does not look at the status of the job;
the reaper marks jobs that completed after it listed them; a job it marks waits
for the next process. Undo does not ask whether its job still runs: the run's
COMPLETED overwrites UNDONE, records it creates after the ids were read stay, and a
retry of an undone job goes on from its checkpoint. An interview scheduled between
the guardrails and the transaction is deleted without a conflict; one scheduled
during the transaction, or by a request that had found the candidate before, is
left with the id of a candidate that is gone. A confirmed preview hands the
duplicate maps that the preview filled to the real run, which then sees every row as
a repetition.

Offers: a PATCH to JOINED passes no gate, and a JOINED candidate passes the gate's first
read; a candidate created by an offer import, or by a create request whose body says
OFFER_SENT or JOINED (`candidates/routes.js:1008` and `:1171`), passes none at all
although the gate is described as the server-side check for OFFER_SENT; deleting a
rejected feedback makes the candidate ACTIVE over any other status; checks of two
rounds can disagree, and one approval opens the gate; checks without a round can be
duplicated; join and reject test OFFER_SENT before they await; the sweep misses
feedback of before its cut-off.

Read path: a response that emits `finish` and `close` releases its slot twice, so
the limiter admits more than its limit (it never counts too many, which is
`NeverOvercounts`); the three-second response entries are never invalidated
(`cacheInvalidation.js:7-8`); an answer after the 504 takes the entry of the request
that leads by then and drops its waiters; an update that was timed out never
invalidates; `invalidateAll` clears the L1 store and not its byte count;
`heavyEndpointConcurrency` is mounted nowhere.

Inbox: the result list is cut at a hundred without a next page; payloads without a time
stamp let a late old version overwrite a new one, and shut it out when it comes after
(`inboxService.js:69` and `:90`: an old version that arrived undated is dated by its
arrival, so the newer one, dated by its making, is skipped as older, in polls too);
with an event id per result a re-score
by webhook is refused as a duplicate (the poll recovers it); a delivery that read
the row before a confirmation, a relink or another delivery writes back what it
read; a dismissed result returns to the queue with a re-score; the status is set
after a separate look at the outcome; a confirmation is two updates; a status that is
neither completed nor missed is written back as it was read.

## 4. Proofs

Run `tlapm` on the eight modules named `...Proofs.tla`. They depend only on the
named ASSUMEs of the modules they extend: what kinds the constants have, and that
the special values differ from the others. Nothing bounds jobs, rows, batches,
requests, users, results, crashes or retries.

* `ImportPipelineProofs!TypeCorrect`: `Spec => []TypeOK`. Two facts make the
  type invariant inductive: `run.pc = "row" => run.pos \in Rows` is part of it,
  and a flush only ever starts on a non-empty batch, so that `LastOf` is defined.
* `ImportResumptionProofs!CheckpointsAdvance` (no SIGTERM, any error):
  `WhereInv` says where a run is: one flush at a time, which may have outlived its run,
  the last row of its batch beyond the checkpoint, everything pending beyond it too.
* `ResumptionHolds`, `CommittedRowsLanded`, `CompletedJobsAreComplete`,
  `CommittedRowsAreNotRewritten` (crashes only, `CrashOnly`): `CrashInv` is
  `ResumptionInv` with `RowsValid` (no record holds an invalid row). Why the parts are
  needed: a checkpoint covers what the run passed because nothing is pending then
  (`HandledInv`); a record that an update overwrites keeps its earlier rows landed
  because the row that overwrites it comes later (`RecordInv`), which holds because
  only the first row of an identity since the start of a run keeps it (`SeenInv`,
  `StrippedInv`). Lemma `SavedKeeps` is that step, `WrittenIsFresh` its premise.
* `CreatedIdsAreCounted` (crashes only): `IdsInv` follows the ids from the flush to the
  run to the row; they are counted by the cardinality of a union of disjoint sets.
* `PipelineImplementsContract` (crashes only): from `CrashInv` and `StatusInv`. Opening a
  new job is `Start`, a row written is `Land`, a checkpoint `Commit`, the mark `Finish`,
  a failed accounting `GiveUp`; all else stutters.
* `ImportAccountingProofs!CompletedJobsAccount` (no SIGTERM, any error):
  `AccountInv` counts the rows a run has read by its position.
* `IdentitiesAreUnique` (any host, any error): `FreshKeys` says that the keys of an
  interview import's batch and of both its flushes differ and are new to the
  database, the latter but for rows in `unchecked`. A run's flush and the abort's write
  side by side, so no row may wait in two places (`Apart`); a flush that outlived its
  run counts as well.
* `ShutdownsInterrupt` (any host, any error): once told to abort a run stays told, and
  after the manager's mark nothing but INTERRUPTED is written unless the run throws.
  `ShutdownInv` adds what a run leaves behind (`Left`): where the manager could not
  write, the status is what the run wrote last, or what it was before.
* `UnlandedRowsAreCounted` (no SIGTERM, any error): `RunCount` bounds what a
  run has counted as created or updated by the landed rows it has left behind, up to the
  last row of its batch (`Counted`), so that a checkpoint hands the job a bound over the
  rows it covers (`JobCount`). With `CompletedAccounts` the rest is failed or duplicate.
* `ImportJobManagerProofs!TypeCorrect`: the same for the manager.
* `ControllersAreLive`: `NoStaleController` is inductive with the types. What has
  to be seen is that a run that unregisters removes whatever controller is there,
  so an entry can vanish too early but never too late.
* `CheckpointsCover`: `CommittedBatchesLanded` alone is not inductive, since a run
  writes a checkpoint from its own counter. `RunsCover` adds that every run has
  all batches up to its `rows` behind it; `CoverInv` is the conjunction.
* `AutoResumesAreCapped`: `SweepInv` bounds `resumed` by the attempts of the row
  and keeps the sweep's snapshots at or below them; with the cap on the snapshot a
  launch by the sweep cannot exceed it. Lemma `AttemptsGrow`: attempts never fall.
* `CompletedExplained` (any host): `CompletedIsExplained` becomes inductive with
  `UnheardRuns`: while a server drains, a run in its file that was not told to abort
  belongs to a job in `unheard`. Lemma `CompletedSteps`, from `CoverInv`: a job becomes
  COMPLETED with all batches written or by such a run. At the end of
  a process `unheard` forgets the jobs that are not COMPLETED, so that a later run of
  theirs has no excuse.
* `CompletedIsLanded` (for a host that does not send SIGTERM): by the same lemma, since no
  server drains then.
* `BreakerTripsInTime`: every action that counts a failure trips the breaker in
  the same step, is `CaughtAtCap`, whose next step looks at it, or is `CapMarkFails`,
  which sets `missed`; the next count clears it by looking at the sum.
* `ImportUndoProofs!OnlyOwnRecords`: `ListsNameOwnRecords` says that every list of
  ids (of a job, a run, an undo request) names records its job created. It is
  inductive because a run lists only what it has just created (`RunLists`) and an
  undo only takes over its job's list (`UndoLists`).
* `ReportedIsRemoved` (for candidate imports; for interview imports TLC shows it
  false): `MarkedAreGone` needs that a deleted record never comes back, which
  is `ListedAreOld`: a run has passed the row of every listed record that bears its
  number.
* `StandingSurvives`: `GuardrailsHold` says what each check establishes for the
  activity that has been there all along, and that a transaction only deletes
  what belongs to the ids that were checked. Lemma `GuardedSmaller` carries it over
  the deletions of others.
* `UndoInvariant`: the conjunction of these and of `GoneCoversStanding`, what a
  transaction noted as deleted includes what was standing, as an invariant for both flows.
* `UndoImplementsContract` (for candidate imports, the flow `undo_candidates` checks): from
  `UndoInvariant`, one lemma per abstract action. `ReadJob` is `Ask` (the list may be
  empty); `Commit` is `Remove`, where `GuardrailsHold` and
  `GoneCoversStanding` give what the request owes; `MarkUndone` is `Report`, by
  `MarkedAreGone`; refusals, failures and the end of the process are `Drop`.
* `OfferGateProofs!TypeCorrect`: what a request will write is a status of the record
  it writes to (`ReqOK` ties route and target to the pending write).
* `OffersAreBacked`, `RejectionsHold`: `GateInv` takes a request that is past the gate
  for an offer (`AnOffer`): an offer that stands or is on its way has an approval, an
  old candidate or an excuse behind it, and none is there while every check is
  rejected. Lemma `GateKeeps` is the step through the three reads.
* `ReadPathProofs!ReadInvariant`: who leads, waits and is on board of a flight, and
  which versions each cache, flight and answer under way may hold: never one below
  what its user has seen, and never an outdated one without a reason. From it
  `TypeCorrect`, `StalenessIsExplained` and `ReadsAreMonotonic`.
* `WaitersHaveServer`: `ServedInv` says that every entry of the list has an unanswered
  request of its user. `ReadInvariant` gives what else is needed: a timer, a late
  answer and a failure each take the entry they leave unserved. It is proved and not in
  the cfg of a run; `OnTimeAnswered` is what `read_answers` checks of it.
* `SlotsAreReleased`: `CountInv` bounds the counter by the admitted requests whose
  connection is open; needed are cardinalities of finite sets only.
* `RecruitInboxProofs!NoGapTheorem`: `NoGap` is not inductive, since a sync moves
  `lastSync` at its end by what it knew at its fetch. `GapInv` adds that a sync asked
  from at most `lastSync`, that `Overlap` has not passed since, and that whatever is
  behind was published after the fetch, is among its items, is in its hand, or is
  excused. `KnownInv` places every stamp between the version it belongs to and the
  next one after the latest (`RowsDated` for the rows), and `Shut` draws from it that an
  unexcused row that is behind does not look newer than the version it misses, so that the
  comparison lets that version in.
* `ProcessedIsStored`: `Landed` says that a delivery past its upsert has stored something
  at least as new by its stamp as the payload, and `stored` never falls.
* `NoRollbackTheorem`, `DecisionsHold`: `SeenInv` says that what a delivery read of the
  row is still so unless `beside` was set. For dated payloads the stamps then order
  the versions; `NoRollback` exempts undated and overtaken ones.
* `OutcomesFreeze`: an outcome is never taken back, so the check in front of the
  status update covers every round that was decided when the payload came.
* `InboxImplementsContract`: every await of a delivery is a stutter but three, the look
  at the row, the upsert and the status. What was read still holds at the upsert unless
  `beside` says otherwise (`SeenInv`); the version it carries was published
  (`KnownInv`), the round it writes undecided when it came in (`DecidedInv`).

Every safety property that a run checks is proved, the three refinements included,
those with a setting in brackets under that setting, which is the one of the run.
Only model-checked: the six liveness properties (`JobFinishes`,
`StuckJobsAreReaped`, `QualifiedGetsChecked`, `OnTimeAnswered`, `EventuallyFresh`,
`EventuallyCurrent`), which need fairness, and `EveryoneAnswered`, which is false; the
proof system does not reach them.

## 5. Plan and what is not modelled

Done: `ImportPipeline`, `ImportJobManager`, `ImportUndo`, `OfferGate`, `ReadPath`,
`RecruitInbox`, with proofs of all their safety properties; `ImportContract`,
`UndoContract` and `InboxContract`, with proofs of the refinements. What the proofs
could say next: contracts for the offer gate (three reads and a write as one check
that may be out of date) and for the read path, and the safety halves of the other
liveness properties. What would come next in the model:
the admission of uploads (idempotency, organization lock, cooldown, preview and
confirm), the other flows of the import pipeline, the rounds of an interview, and
API key rotation.

Not modelled:

* **Resume parse queue.** `startParseWorker` (`modules/matching/jobQueue.js`) is called
  nowhere in the server: jobs are put in the table and never taken out, so its
  claims, retries and reaper are behaviours that no run of the program has.
* **Interviews and notifications.** Routes and the scheduler write back whole rows
  of what they read before (`jobs/notificationScheduler.js:77-223`, `230-365`), a
  lost update that the code does nothing to prevent. A model would show the
  loss and nothing that holds. Known besides: switching a round off never restores
  it, because the fields it is to be restored from are dropped on the way to the database
  (`schedulingCacheService.js:357-412`, `interviews/routes.js:2068`), and a repeated
  query (`config/db.js:76-109`) may repeat a create that was committed.
* **Parsing, normalization, matching and scoring.** Functions of text without state.
* **Reports, analytics, dashboard, audit.** Queries.
* **Candidates, drives, sales, companies, users.** Handlers of one statement each;
  where they write a status that others rely on they are in `OfferGate`.
* **Frontend, realtime events, scripts.** The look of the client, fire-and-forget
  broadcasts, one-off maintenance.

These leave most of the repository's lines uncovered: more than half of them are the
client and the scripts, and most of the server's are queries and the shaping of
their results.
