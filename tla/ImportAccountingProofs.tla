----------------------- MODULE ImportAccountingProofs -----------------------
(***************************************************************************)
(* What ImportPipeline reports of a job and does to its records, whatever  *)
(* errors the code swallows.  On a host that sends no SIGTERM a completed  *)
(* job accounts for its rows and admits to those it did not import.  On    *)
(* any host no identity gets a second record but for a row whose check     *)
(* failed, and a job that was shut down is left for the next process       *)
(* unless its run threw or nobody could write that.                        *)
(***************************************************************************)
EXTENDS ImportResumptionProofs

-----------------------------------------------------------------------------
(* The row accounting of a completed job, whatever errors are swallowed.   *)

AccountInv ==
    /\ run.pc \notin {"idle", "opening"} =>
          run.processed = IF run.pc = "row" THEN run.pos ELSE run.pos - 1
    /\ run.pc = "marking" => run.processed = Accounted(run)
    /\ CompletedAccounts

LEMMA AccountStep ==
  ASSUME TypeOK, WhereInv, StatusInv, AccountInv, ~ Graceful, [Next]_vars
  PROVE  AccountInv'
  <1> USE DEF AccountInv
  <1>01. /\ run \in RunRecord /\ job \in JobRecord
         /\ run.pos \in Nat /\ run.processed \in Nat /\ NRows \in Nat
    BY RowsAssumption DEF TypeOK, RunRecord
  <1>02. /\ flush["main"].phase # "idle" => run.pc \in {"flushing", "idle"}
         /\ manager # "pending" /\ server # "draining" /\ ~ run.aborting
         /\ run.pc \in {"closing", "marking"} => run.pos > NRows
    BY DEF WhereInv, FlushInv, NoAbort
  <1>03. ASSUME \/ UNCHANGED job
                \/ Accounted(job') = Accounted(job) /\ job'.status = job.status
                \/ job'.status # "COMPLETED"
         PROVE  CompletedAccounts'
    BY <1>03 DEF CompletedAccounts, Accounted
  <1>1. CASE Upload \/ Resume
    <2>1. run'.pc = "opening" /\ (UNCHANGED job \/ job'.status # "COMPLETED")
      BY <1>1, <1>01 DEF Upload, Resume, Recoverable, RunRecord, JobRecord
    <2> QED
      BY <1>03, <2>1
  <1>2. CASE Open \/ OpenBlind
    <2>1. /\ run'.pc = "reading" /\ run'.pos = 1 /\ run'.processed = 0
          /\ job'.status # "COMPLETED"
      BY <1>2, <1>01 DEF Open, OpenBlind, IdleRun, JobRecord, StatusInv
    <2> QED
      BY <1>03, <2>1
  <1>3. CASE ReadRow
    <2>1. /\ UNCHANGED job /\ run.pc = "reading" /\ run'.processed = run.processed + 1
          /\ \/ run'.pc = "reading" /\ run'.pos = run.pos + 1
             \/ run'.pc = "row" /\ run'.pos = run.pos
      <3>1. CASE run' = [run EXCEPT !.processed = @ + 1, !.pos = @ + 1]
        BY <1>3, <1>01, <3>1 DEF ReadRow, RunRecord
      <3>2. CASE run' = [run EXCEPT !.processed = @ + 1, !.pc = "row"]
        BY <1>3, <1>01, <3>2 DEF ReadRow, RunRecord
      <3> QED
        BY <1>3, <1>02, <3>1, <3>2 DEF ReadRow
    <2>2. run.processed = run.pos - 1
      BY <2>1
    <2> QED
      BY <1>01, <1>03, <2>1, <2>2
  <1>4. CASE RejectRow \/ RowThrows \/ SkipDuplicate \/ BatchRow \/ DuplicateCheckFails
    <2>1. UNCHANGED job /\ run.pc = "row"
      BY <1>4 DEF RejectRow, RowThrows, SkipDuplicate, BatchRow, DuplicateCheckFails
    <2>2. /\ run'.pc \in {"reading", "flushing"} /\ run'.pos = run.pos + 1
          /\ run'.processed = run.processed
      <3>1. CASE RejectRow \/ SkipDuplicate
        BY <3>1, <1>01 DEF RejectRow, SkipDuplicate, NextRow, RunRecord
      <3>3. CASE RowThrows
        <4>1. PICK noted : run' = NextRow([run EXCEPT !.failed = @ + 1, !.seen = @ \cup noted])
          BY <3>3 DEF RowThrows
        <4> QED
          BY <4>1, <1>01 DEF NextRow, RunRecord
      <3>2. CASE BatchRow \/ DuplicateCheckFails
        <4> DEFINE rn == [run EXCEPT !.seen = @ \cup {file[run.pos]},
                              !.stripped = IF IsStripped(run.pos) THEN @ \cup {run.pos} ELSE @]
        <4>1. \/ run' = [rn EXCEPT !.pc = "flushing", !.pos = @ + 1, !.batch = {}]
              \/ run' = NextRow([rn EXCEPT !.batch = run.batch \cup {run.pos}])
          BY <3>2 DEF BatchRow, DuplicateCheckFails, Batched
        <4>2. DOMAIN rn = {"pc", "pos", "start", "processed", "created", "updated", "dups",
                           "failed", "attempt", "batch", "seen", "stripped", "aborting",
                           "resolver", "ids", "size", "mark"}
              /\ rn.pos = run.pos /\ rn.processed = run.processed
          BY <1>01 DEF RunRecord
        <4> HIDE DEF rn
        <4> QED
          BY <4>1, <4>2 DEF NextRow
      <3> QED
        BY <1>4, <3>1, <3>2, <3>3
    <2>3. run.processed = run.pos
      BY <2>1
    <2> QED
      BY <1>01, <1>03, <2>1, <2>2, <2>3
  <1>5. CASE EndOfFile \/ CloseRun \/ Leave \/ MarkLost
    <2>1. /\ UNCHANGED job
          /\ run.pc \in {"reading", "flushing", "closing", "marking", "leaving"}
          /\ run'.pc \in {"flushing", "closing", "marking", "leaving", "idle"}
          /\ run'.pos = run.pos /\ run'.processed = run.processed
          /\ Accounted(run') = Accounted(run)
      BY <1>5, <1>01 DEF EndOfFile, CloseRun, Leave, MarkLost, RunRecord, Accounted
    <2>2. run'.pc = "marking" => run.processed = Accounted(run)
      BY <1>5, <1>01, <1>02 DEF EndOfFile, CloseRun, Leave, MarkLost, RunRecord
    <2>3. run.processed = run.pos - 1
      BY <2>1
    <2> QED
      BY <1>03, <2>1, <2>2, <2>3
  <1>6. CASE FailRun
    <2>1. run'.pc = "idle" /\ job'.status # "COMPLETED"
      BY <1>6, <1>01 DEF FailRun, FailedStatus, Counters, RunRecord, JobRecord
    <2> QED
      BY <1>03, <2>1
  <1>7. CASE MarkRun
    <2>1. /\ run.pc = "marking" /\ run'.pc = "leaving" /\ run'.pos = run.pos
          /\ run'.processed = run.processed
      BY <1>7, <1>01 DEF MarkRun, RunRecord
    <2>2. /\ job'.created = run.created /\ job'.updated = run.updated
          /\ job'.dups = run.dups /\ job'.failed = run.failed
      BY <1>7, <1>01 DEF MarkRun, Counters, JobRecord
    <2>3. run.pos = NRows + 1
      BY <1>01, <1>02, <2>1 DEF RunRecord
    <2>4. run.processed = run.pos - 1 /\ run.processed = Accounted(run)
      BY <2>1
    <2>5. Accounted(job') = NRows
      BY <1>01, <2>2, <2>3, <2>4 DEF Accounted
    <2> QED
      BY <2>1, <2>4, <2>5 DEF CompletedAccounts, Accounted
  <1>8. CASE Shutdown \/ ManagerMarks \/ ManagerFails
    BY <1>8, <1>02 DEF Shutdown, ManagerMarks, ManagerFails
  <1>9. CASE \E f \in Flushes : FlushNext(f)
    <2>1. PICK f \in Flushes : FlushNext(f)
      BY <1>9
    <2>2. /\ flush["main"].phase # "idle" /\ run'.pos = run.pos
          /\ \/ run.pc = "flushing" /\ run'.pc \in {"flushing", "reading"}
             \/ run.pc = "idle" /\ run'.pc = "idle"
      BY <1>02, <2>1, FlushNextWhere, FlushStep
    <2>3. job'.status = job.status /\ run'.processed = run.processed
      <3>1. CASE WriteCheckpoint(f) \/ CheckpointLost(f)
        <4>1. PICK n \in 1 .. BatchSize :
                 run' = [run EXCEPT !.size = n,
                            !.pc = IF f = "main" /\ run.pc = "flushing" THEN "reading" ELSE @]
          BY <3>1 DEF WriteCheckpoint, CheckpointLost, FlushReturns
        <4>2. run'.processed = run.processed
          BY <1>01, <4>1 DEF RunRecord
        <4>3. job'.status = job.status
          BY <1>01, <3>1 DEF WriteCheckpoint, Checkpointed, CheckpointLost, JobRecord
        <4> QED
          BY <4>2, <4>3
      <3>2. CASE ~ (WriteCheckpoint(f) \/ CheckpointLost(f))
        BY <1>01, <2>1, <3>2 DEF FlushNext, InsertRow, InsertRowFails, LinkFails, BatchThrows,
           BatchReturns, JobRecord, RunRecord
      <3> QED
        BY <3>1, <3>2
    <2>4. /\ job.status # "COMPLETED"
          /\ run.pc = "flushing" => run.processed = run.pos - 1
      BY <2>2 DEF StatusInv
    <2> QED
      BY <1>03, <2>2, <2>3, <2>4
  <1>10. CASE ProcessEnds
    BY <1>10, <1>03 DEF ProcessEnds, IdleRun
  <1>11. CASE Restart \/ SweepFindsNothing \/ ResumeRefused \/ UNCHANGED vars
    <2>1. UNCHANGED <<job, run>>
      BY <1>11 DEF Restart, SweepFindsNothing, ResumeRefused, vars
    <2> QED
      BY <2>1 DEF CompletedAccounts, Accounted
  <1> QED
    BY <1>1, <1>2, <1>3, <1>4, <1>5, <1>6, <1>7, <1>8, <1>9, <1>10, <1>11
       DEF Next, Sweep, RunNext

\* The counters of a COMPLETED job add up to the rows of its file, whichever database
\* errors were swallowed and wherever processes were killed.
THEOREM CompletedJobsAccount == ~ Graceful => (Spec => []CompletedAccounts)
  <1> SUFFICES ASSUME ~ Graceful PROVE Spec => []CompletedAccounts
    OBVIOUS
  <1>1. Init => StatusInv /\ AccountInv
    BY DEF Init, StatusInv, AccountInv, CompletedAccounts, IdleRun, IdleFlush, NoJob, Flushes
  <1>2. TypeOK /\ WhereInv /\ StatusInv /\ AccountInv /\ [Next]_vars => StatusInv' /\ AccountInv'
    BY StatusStep, AccountStep
  <1>3. AccountInv => CompletedAccounts
    BY DEF AccountInv
  <1> QED
    BY <1>1, <1>2, <1>3, WhereAlways, TypeCorrect, PTL DEF Spec

-----------------------------------------------------------------------------
(* What is on its way in a process, on any host.                           *)

\* A flush has rows to write only while it inserts, no run is opened beside one, and
\* whatever is going on is about a job that has a row.
HostInv ==
    /\ \A f \in Flushes : flush[f].phase # "insert" => flush[f].todo = {}
    /\ run.pc = "opening" => \A f \in Flushes : flush[f].phase = "idle"
    /\ Busy /\ run.pc # "opening" => job.status # "NONE"

\* The batch goes to the flush of f, or stays what it is; the rest is left alone.
LEMMA HandedOver ==
  ASSUME TypeOK, NEW f \in Flushes, NEW rows \in SUBSET Rows, rows # {},
         flush' = [flush EXCEPT ![f] = FlushOf(rows)]
  PROVE  /\ flush'[f].phase = "insert" /\ flush'[f].todo = rows
         /\ \A g \in Flushes \ {f} : flush'[g] = flush[g]
  BY BatchFlushed DEF TypeOK

\* A row that joins the batch.
LEMMA BatchedRow ==
  ASSUME TypeOK, run.pc = "row", Batched(run.pos)
  PROVE  /\ run'.pos = run.pos + 1 /\ run'.start = run.start
         /\ run'.created = run.created /\ run'.updated = run.updated
         /\ run'.seen = run.seen \cup {file[run.pos]}
         /\ run'.stripped = IF IsStripped(run.pos) THEN run.stripped \cup {run.pos} ELSE run.stripped
         /\ run'.aborting = run.aborting /\ run'.mark = run.mark
         /\ run.pos \in Rows /\ run.batch \cup {run.pos} \in SUBSET Rows
         /\ \/ /\ run'.pc = "flushing" /\ run'.batch = {}
               /\ flush' = [flush EXCEPT !["main"] = FlushOf(run.batch \cup {run.pos})]
            \/ /\ run'.pc = "reading" /\ run'.batch = run.batch \cup {run.pos}
               /\ UNCHANGED flush
  <1> DEFINE rows == run.batch \cup {run.pos}
             rn   == [run EXCEPT !.seen = @ \cup {file[run.pos]},
                                 !.stripped = IF IsStripped(run.pos) THEN @ \cup {run.pos} ELSE @]
  <1>1. \/ /\ run' = [rn EXCEPT !.pc = "flushing", !.pos = @ + 1, !.batch = {}]
           /\ flush' = [flush EXCEPT !["main"] = FlushOf(rows)]
        \/ run' = NextRow([rn EXCEPT !.batch = rows]) /\ UNCHANGED flush
    BY DEF Batched
  <1>2. run \in RunRecord /\ run.pos \in Rows /\ run.batch \in SUBSET Rows
    BY DEF TypeOK, RunRecord
  <1>3. DOMAIN rn = {"pc", "pos", "start", "processed", "created", "updated", "dups", "failed",
                     "attempt", "batch", "seen", "stripped", "aborting", "resolver", "ids",
                     "size", "mark"}
        /\ rn.seen = run.seen \cup {file[run.pos]} /\ rn.pos = run.pos /\ rn.start = run.start
        /\ rn.created = run.created /\ rn.updated = run.updated
        /\ rn.aborting = run.aborting /\ rn.mark = run.mark
        /\ rn.stripped = IF IsStripped(run.pos) THEN run.stripped \cup {run.pos} ELSE run.stripped
    BY <1>2 DEF RunRecord
  <1> HIDE DEF rn
  <1>4. CASE /\ run' = [rn EXCEPT !.pc = "flushing", !.pos = @ + 1, !.batch = {}]
             /\ flush' = [flush EXCEPT !["main"] = FlushOf(rows)]
    <2>1. /\ run'.pc = "flushing" /\ run'.batch = {} /\ run'.pos = rn.pos + 1
          /\ run'.start = rn.start /\ run'.created = rn.created /\ run'.updated = rn.updated
          /\ run'.seen = rn.seen /\ run'.stripped = rn.stripped
          /\ run'.aborting = rn.aborting /\ run'.mark = rn.mark
      BY <1>3, <1>4
    <2> QED
      BY <1>2, <1>3, <1>4, <2>1
  <1>5. CASE run' = NextRow([rn EXCEPT !.batch = rows]) /\ UNCHANGED flush
    <2> HIDE DEF rows
    <2>1. /\ run'.pc = "reading" /\ run'.batch = rows /\ run'.pos = rn.pos + 1
          /\ run'.start = rn.start /\ run'.created = rn.created /\ run'.updated = rn.updated
          /\ run'.seen = rn.seen /\ run'.stripped = rn.stripped
          /\ run'.aborting = rn.aborting /\ run'.mark = rn.mark
      BY <1>3, <1>5 DEF NextRow
    <2> QED
      BY <1>2, <1>3, <1>5, <2>1 DEF rows
  <1> QED
    BY <1>1, <1>4, <1>5

\* A step of a flush does not touch the job's status or what the run was told.
LEMMA FlushLeaves ==
  ASSUME TypeOK, NEW f \in Flushes, FlushNext(f)
  PROVE  /\ job'.status = job.status /\ job'.flowType = job.flowType
         /\ run'.mark = run.mark /\ UNCHANGED unchecked
         /\ run'.pc = run.pc \/ (run.pc = "flushing" /\ run'.pc = "reading")
         /\ flush'[f].phase = "idle" \/ run'.pc = run.pc
  <1>1. run \in RunRecord /\ job \in JobRecord /\ flush \in [Flushes -> FlushRecord]
    BY DEF TypeOK
  <1>2. /\ job'.status = job.status /\ job'.flowType = job.flowType /\ UNCHANGED unchecked
    BY <1>1 DEF FlushNext, InsertRow, InsertRowFails, LinkFails, BatchThrows, BatchReturns,
       WriteCheckpoint, Checkpointed, CheckpointLost, JobRecord
  <1>3. run'.mark = run.mark
    <2>1. CASE WriteCheckpoint(f) \/ CheckpointLost(f)
      <3>1. PICK n \in 1 .. BatchSize :
               run' = [run EXCEPT !.size = n,
                          !.pc = IF f = "main" /\ run.pc = "flushing" THEN "reading" ELSE @]
        BY <2>1 DEF WriteCheckpoint, CheckpointLost, FlushReturns
      <3> QED
        BY <1>1, <3>1 DEF RunRecord
    <2>2. CASE ~ (WriteCheckpoint(f) \/ CheckpointLost(f))
      BY <1>1, <2>2 DEF FlushNext, InsertRow, InsertRowFails, LinkFails, BatchThrows,
         BatchReturns, RunRecord
    <2> QED
      BY <2>1, <2>2
  <1>4. /\ run'.pc = run.pc \/ (run.pc = "flushing" /\ run'.pc = "reading")
        /\ flush'[f].phase = "idle" \/ run'.pc = run.pc
    BY FlushStep DEF IdleFlush
  <1> QED
    BY <1>2, <1>3, <1>4

LEMMA HostStep ==
  ASSUME TypeOK, HostInv, [Next]_vars
  PROVE  HostInv'
  <1> USE DEF HostInv, Busy
  <1>01. run \in RunRecord /\ job \in JobRecord /\ flush \in [Flushes -> FlushRecord]
    BY DEF TypeOK
  <1>1. CASE Upload \/ Resume
    BY <1>1, <1>01 DEF Upload, Resume, RunRecord, JobRecord
  <1>2. CASE Open \/ OpenBlind
    BY <1>2, <1>01 DEF Open, OpenBlind, IdleRun, JobRecord
  <1>3. CASE ReadRow \/ RejectRow \/ RowThrows \/ SkipDuplicate \/ CloseRun \/ MarkLost \/ Leave
    <2>1. /\ UNCHANGED <<job, flush>> /\ run.pc \notin {"idle", "opening"} /\ run'.pc # "opening"
      BY <1>3, <1>01
         DEF ReadRow, RejectRow, RowThrows, SkipDuplicate, CloseRun, MarkLost, Leave, NextRow,
             RunRecord
    <2> QED
      BY <2>1
  <1>4. CASE BatchRow \/ DuplicateCheckFails
    <2>1. run.pc = "row" /\ Batched(run.pos) /\ UNCHANGED job
      BY <1>4 DEF BatchRow, DuplicateCheckFails
    <2>2. CASE /\ run'.pc = "flushing"
               /\ flush' = [flush EXCEPT !["main"] = FlushOf(run.batch \cup {run.pos})]
      <3>1. /\ flush'["main"].phase = "insert"
            /\ \A g \in Flushes \ {"main"} : flush'[g] = flush[g]
        BY <2>1, <2>2, BatchedRow, HandedOver DEF Flushes
      <3> QED
        BY <2>1, <2>2, <3>1
    <2>3. CASE run'.pc = "reading" /\ UNCHANGED flush
      BY <2>1, <2>3
    <2> QED
      BY <2>1, <2>2, <2>3, BatchedRow
  <1>5. CASE EndOfFile
    <2>1. /\ UNCHANGED job /\ run.pc = "reading" /\ run'.pc \in {"closing", "flushing"}
      BY <1>5, <1>01 DEF EndOfFile, RunRecord
    <2>2. CASE UNCHANGED flush
      BY <2>1, <2>2
    <2>3. CASE run.batch # {} /\ flush' = [flush EXCEPT !["main"] = FlushOf(run.batch)]
      <3>1. run.batch \in SUBSET Rows
        BY <1>01 DEF RunRecord
      <3>2. /\ flush'["main"].phase = "insert"
            /\ \A g \in Flushes \ {"main"} : flush'[g] = flush[g]
        BY <2>3, <3>1, HandedOver DEF Flushes
      <3> QED
        BY <2>1, <3>2
    <2> QED
      BY <1>5, <2>2, <2>3 DEF EndOfFile
  <1>6. CASE FailRun \/ MarkRun
    <2>1. UNCHANGED flush /\ run'.pc # "opening" /\ job'.status # "NONE"
      BY <1>6, <1>01 DEF FailRun, FailedStatus, MarkRun, EndStatus, Counters, RunRecord, JobRecord
    <2> QED
      BY <2>1
  <1>7. CASE Shutdown
    <2>1. UNCHANGED job /\ run'.pc = run.pc
      BY <1>7, <1>01 DEF Shutdown, RunRecord
    <2>2. CASE UNCHANGED flush
      BY <2>1, <2>2
    <2>3. CASE Registered /\ run.batch # {} /\ flush' = [flush EXCEPT !["abort"] = FlushOf(run.batch)]
      <3>1. run.batch \in SUBSET Rows
        BY <1>01 DEF RunRecord
      <3>2. /\ flush'["abort"].phase = "insert"
            /\ \A g \in Flushes \ {"abort"} : flush'[g] = flush[g]
        BY <2>3, <3>1, HandedOver DEF Flushes
      <3> QED
        BY <2>1, <2>3, <3>2 DEF Registered
    <2> QED
      BY <1>7, <2>2, <2>3 DEF Shutdown
  <1>8. CASE ManagerMarks \/ ManagerFails
    BY <1>8, <1>01 DEF ManagerMarks, ManagerFails, JobRecord
  <1>9. CASE \E f \in Flushes : FlushNext(f)
    <2>1. PICK f \in Flushes : FlushNext(f)
      BY <1>9
    <2>2. flush[f].phase # "idle" /\ \A g \in Flushes \ {f} : flush'[g] = flush[g]
      BY <2>1, FlushStep
    <2>3. flush'[f].phase # "insert" => flush'[f].todo = {}
      BY <2>1, FlushStep DEF IdleFlush
    <2>4. run.pc # "opening" /\ run'.pc # "opening" /\ job'.status = job.status
      BY <2>1, <2>2, FlushLeaves
    <2> QED
      BY <2>2, <2>3, <2>4
  <1>10. CASE ProcessEnds
    BY <1>10 DEF ProcessEnds, IdleRun, IdleFlush
  <1>11. CASE Restart \/ SweepFindsNothing \/ ResumeRefused \/ UNCHANGED vars
    BY <1>11 DEF Restart, SweepFindsNothing, ResumeRefused, vars
  <1> QED
    BY <1>1, <1>2, <1>3, <1>4, <1>5, <1>6, <1>7, <1>8, <1>9, <1>10, <1>11
       DEF Next, Sweep, RunNext

LEMMA InitHost == Init => HostInv
  BY DEF Init, HostInv, Busy, IdleRun, IdleFlush, NoJob

-----------------------------------------------------------------------------
(* One record per identity, whatever errors are swallowed, on any host.    *)

\* The rows with an identity that are kept and not yet written: the batch, and the two
\* flushes that can be going on side by side.
Queued == run.batch \cup flush["main"].todo \cup flush["abort"].todo

\* No such row waits in two places.
Apart(q) ==
    /\ q \in run.batch => q \notin flush["main"].todo /\ q \notin flush["abort"].todo
    /\ q \in flush["main"].todo => q \notin flush["abort"].todo

\* The keys of the interviews on their way are known to the run, differ, and are new to
\* the database if they were checked; the candidate inserter looks each of its own up.
FreshKeys ==
    /\ Flow = "candidates" => unchecked = {}
    /\ Flow # "candidates" =>
          \A q \in Queued : file[q] \in Keys =>
              /\ file[q] \in run.seen /\ Apart(q)
              /\ q \notin unchecked => \A i \in DOMAIN cands : cands[i].key # file[q]
              /\ \A p \in Queued : file[p] = file[q] => p = q

\* Steps that write no record and batch no row.
LEMMA QuietKeys ==
  ASSUME FreshKeys, UNCHANGED <<file, cands, unchecked>>, job'.flowType = job.flowType,
         \/ Queued' = {}
         \/ /\ run.seen \subseteq run'.seen /\ run'.batch \subseteq run.batch
            /\ flush'["main"].todo \subseteq flush["main"].todo
            /\ flush'["abort"].todo \subseteq flush["abort"].todo
         \/ /\ run.seen \subseteq run'.seen /\ run'.batch = {}
            /\ flush'["main"].todo \subseteq run.batch
            /\ flush'["abort"].todo \subseteq flush["abort"].todo
         \/ /\ run.seen \subseteq run'.seen /\ run'.batch = {}
            /\ flush'["main"].todo \subseteq flush["main"].todo
            /\ flush'["abort"].todo \subseteq run.batch
  PROVE  FreshKeys'
  <1>1. Flow' = Flow
    BY DEF Flow
  <1>2. CASE Queued' = {}
    BY <1>1, <1>2 DEF FreshKeys
  <1>3. ASSUME Queued' \subseteq Queued, run.seen \subseteq run'.seen,
               \A q \in Queued' : Apart(q) => Apart(q)'
        PROVE  FreshKeys'
    BY <1>1, <1>3 DEF FreshKeys
  <1> QED
    BY <1>2, <1>3 DEF Queued, Apart

\* A row that joins the batch, with a key new to the file and, if checked, the database.
LEMMA KeptKeys ==
  ASSUME TypeOK, FreshKeys, UNCHANGED <<file, cands, job>>,
         run.pc = "row", Batched(run.pos),
         unchecked' \in {unchecked, unchecked \cup {run.pos}},
         Flow = "candidates" => UNCHANGED unchecked,
         Flow # "candidates" =>
            /\ file[run.pos] \notin run.seen
            /\ run.pos \in unchecked' \/ \A i \in DOMAIN cands : cands[i].key # file[run.pos]
  PROVE  FreshKeys'
  <1>1. Flow' = Flow
    BY DEF Flow
  <1>2. run'.seen = run.seen \cup {file[run.pos]} /\ run.pos \in Rows
    BY BatchedRow
  <1>3. \/ /\ run'.batch = {} /\ flush'["main"].todo = run.batch \cup {run.pos}
           /\ flush'["abort"].todo = flush["abort"].todo
        \/ run'.batch = run.batch \cup {run.pos} /\ UNCHANGED flush
    BY BatchedRow, HandedOver DEF Flushes
  <1>4. Queued' \subseteq Queued \cup {run.pos}
    BY <1>3 DEF Queued
  <1> SUFFICES ASSUME Flow # "candidates", NEW q \in Queued', file[q] \in Keys
               PROVE  /\ file[q] \in run'.seen /\ Apart(q)'
                      /\ q \notin unchecked' => \A i \in DOMAIN cands : cands[i].key # file[q]
                      /\ \A p \in Queued' : file[p] = file[q] => p = q
    BY <1>1 DEF FreshKeys
  <1>5. \A p \in Queued : file[p] # file[run.pos] \/ file[p] \notin Keys
    BY DEF FreshKeys
  <1>6. CASE q \in Queued /\ q # run.pos
    <2>1. /\ file[q] \in run.seen /\ Apart(q)
          /\ q \notin unchecked => \A i \in DOMAIN cands : cands[i].key # file[q]
          /\ \A p \in Queued : file[p] = file[q] => p = q
      BY <1>6 DEF FreshKeys
    <2>2. Apart(q)'
      BY <1>3, <1>6, <2>1 DEF Apart
    <2> QED
      BY <1>2, <1>4, <1>5, <1>6, <2>1, <2>2
  <1>7. CASE q = run.pos
    <2>1. q \notin Queued
      BY <1>5, <1>7
    <2>2. Apart(q)'
      BY <1>3, <1>7, <2>1 DEF Apart, Queued
    <2> QED
      BY <1>2, <1>4, <1>5, <1>7, <2>2
  <1> QED
    BY <1>4, <1>6, <1>7

\* A record created by one of the flushes is the only one of its identity, unless the
\* check of its row had failed.
LEMMA SavedKeys ==
  ASSUME TypeOK, OneRecordPerIdentity, FreshKeys,
         NEW f \in Flushes, NEW r \in Rows, NEW e \in Nat, Inserting(f, r), SaveRecord(f, r, e),
         UNCHANGED <<file, job, unchecked>>, run'.batch = run.batch, run'.seen = run.seen
  PROVE  OneRecordPerIdentity' /\ FreshKeys'
  <1>1. /\ r \in flush[f].todo /\ r \in Queued
    BY DEF Inserting, Queued, Flushes
  <1>2. /\ flush'[f].todo = flush[f].todo \ {r}
        /\ \A g \in Flushes \ {f} : flush'[g] = flush[g]
    BY SavedFlush
  <1>3. /\ Flow' = Flow /\ Queued' \subseteq Queued
        /\ \A q \in Queued' : (Apart(q) => Apart(q)') /\ (Apart(q) => q # r)
    BY <1>1, <1>2 DEF Flow, Queued, Apart, Flushes
  <1>4. ASSUME NEW i \in Existing(r), DOMAIN cands' = DOMAIN cands,
               \A j \in DOMAIN cands : cands'[j].key = cands[j].key
        PROVE  OneRecordPerIdentity' /\ FreshKeys'
    <2>1. Flow = "candidates" /\ unchecked = {}
      BY DEF Existing, FreshKeys
    <2> QED
      BY <1>3, <1>4, <2>1 DEF OneRecordPerIdentity, FreshKeys
  <1>5. ASSUME Existing(r) = {}, NEW i \in Nat,
               \A j \in DOMAIN cands : j < i /\ j \in Nat, DOMAIN cands' = DOMAIN cands \cup {i},
               \A j \in DOMAIN cands : cands'[j] = cands[j],
               cands'[i].key = IdentityOf(r), cands'[i].row = r
        PROVE  OneRecordPerIdentity' /\ FreshKeys'
    <2>1. ASSUME IdentityOf(r) # Anon, r \notin unchecked, NEW j \in DOMAIN cands
          PROVE  cands[j].key # IdentityOf(r)
      <3>1. CASE Flow = "candidates"
        BY <1>5, <2>1, <3>1 DEF Existing
      <3>2. CASE Flow # "candidates"
        <4>1. IdentityOf(r) = file[r] /\ file[r] \in Keys
          BY <2>1 DEF IdentityOf
        <4> QED
          BY <1>1, <2>1, <3>2, <4>1 DEF FreshKeys
      <3> QED
        BY <3>1, <3>2
    <2>2. OneRecordPerIdentity'
      <3> SUFFICES ASSUME NEW k \in DOMAIN cands', NEW j \in DOMAIN cands', k < j,
                          cands'[k].key = cands'[j].key, cands'[k].key # Anon
                   PROVE  cands'[j].row \in unchecked
        BY DEF OneRecordPerIdentity
      <3>1. k \in DOMAIN cands
        BY <1>5
      <3>2. CASE j \in DOMAIN cands
        BY <1>5, <3>1, <3>2 DEF OneRecordPerIdentity
      <3>3. CASE j = i
        BY <1>5, <2>1, <3>1, <3>3
      <3> QED
        BY <1>5, <3>2, <3>3
    <2>3. ASSUME Flow # "candidates", NEW q \in Queued', file[q] \in Keys
          PROVE  IdentityOf(r) # file[q]
      <3>1. q \in Queued /\ q # r
        BY <1>3, <2>3 DEF FreshKeys
      <3>2. file[q] # file[r]
        BY <1>1, <2>3, <3>1 DEF FreshKeys
      <3> QED
        BY <2>3, <3>2, KindsAssumption DEF IdentityOf
    <2>4. FreshKeys'
      BY <1>3, <1>5, <2>3 DEF FreshKeys
    <2> QED
      BY <2>2, <2>4
  <1>6. \/ \E i \in Existing(r) :
              /\ DOMAIN cands' = DOMAIN cands
              /\ \A j \in DOMAIN cands : cands'[j].key = cands[j].key
        \/ \E i \in Nat :
               /\ Existing(r) = {} /\ (\A j \in DOMAIN cands : j < i /\ j \in Nat)
               /\ DOMAIN cands' = DOMAIN cands \cup {i}
               /\ \A j \in DOMAIN cands : cands'[j] = cands[j]
               /\ cands'[i].key = IdentityOf(r) /\ cands'[i].row = r
    BY SavedRecords
  <1> QED
    BY <1>4, <1>5, <1>6

LEMMA KeysStep ==
  ASSUME TypeOK, HostInv, OneRecordPerIdentity, FreshKeys, [Next]_vars
  PROVE  OneRecordPerIdentity' /\ FreshKeys'
  <1>01. /\ run \in RunRecord /\ job \in JobRecord /\ flush \in [Flushes -> FlushRecord]
    BY DEF TypeOK
  <1>02. UNCHANGED <<cands, unchecked>> => OneRecordPerIdentity'
    BY DEF OneRecordPerIdentity
  <1>03. Flow \in {"candidates", "interviews"}
    BY <1>01, FlowAssumption DEF JobRecord, Flow
  <1>1. CASE Upload \/ Resume
    <2>1. /\ UNCHANGED <<file, cands, unchecked, flush>> /\ job'.flowType = job.flowType
          /\ run'.batch = run.batch /\ run'.seen = run.seen
      BY <1>1, <1>01 DEF Upload, Resume, RunRecord, JobRecord
    <2> QED
      BY <1>02, <2>1, QuietKeys
  <1>2. CASE Open \/ OpenBlind
    <2>1. /\ UNCHANGED <<file, cands, unchecked, flush>> /\ job'.flowType = job.flowType
          /\ run'.batch = {} /\ run.pc = "opening"
      BY <1>2, <1>01 DEF Open, OpenBlind, IdleRun, JobRecord
    <2>2. Queued' = {}
      BY <2>1 DEF Queued, HostInv, Flushes
    <2> QED
      BY <1>02, <2>1, <2>2, QuietKeys
  <1>3. CASE \/ ReadRow \/ RejectRow \/ RowThrows \/ SkipDuplicate \/ CloseRun
             \/ FailRun \/ MarkRun \/ MarkLost \/ Leave
    <2>1. /\ UNCHANGED <<file, cands, unchecked, flush>> /\ job'.flowType = job.flowType
          /\ run'.batch = run.batch /\ run.seen \subseteq run'.seen
      <3>1. CASE ReadRow
        BY <3>1, <1>01 DEF ReadRow, RunRecord
      <3>2. CASE RejectRow
        BY <3>2, <1>01 DEF RejectRow, NextRow, RunRecord
      <3>3. CASE RowThrows
        <4>1. PICK noted : run' = NextRow([run EXCEPT !.failed = @ + 1, !.seen = @ \cup noted])
          BY <3>3 DEF RowThrows
        <4>2. run' = [run EXCEPT !.failed = @ + 1, !.seen = run.seen \cup noted,
                                 !.pc = "reading", !.pos = @ + 1]
          BY <4>1, <1>01 DEF NextRow, RunRecord
        <4> QED
          BY <3>3, <4>2, <1>01 DEF RowThrows, RunRecord
      <3>4. CASE SkipDuplicate
        <4>1. run' = [run EXCEPT !.dups = @ + 1, !.seen = run.seen \cup {file[run.pos]},
                                 !.pc = "reading", !.pos = @ + 1]
          BY <3>4, <1>01 DEF SkipDuplicate, NextRow, RunRecord
        <4> QED
          BY <3>4, <4>1, <1>01 DEF SkipDuplicate, RunRecord
      <3>5. CASE MarkRun \/ FailRun
        BY <3>5, <1>01 DEF MarkRun, FailRun, Counters, RunRecord, JobRecord
      <3>6. CASE CloseRun \/ MarkLost \/ Leave
        BY <3>6, <1>01 DEF CloseRun, MarkLost, Leave, RunRecord
      <3> QED
        BY <1>3, <3>1, <3>2, <3>3, <3>4, <3>5, <3>6
    <2> QED
      BY <1>02, <2>1, QuietKeys
  <1>4. CASE BatchRow
    <2>1. /\ UNCHANGED <<file, cands, job, unchecked>> /\ run.pc = "row"
          /\ ~ IsDuplicate(run.pos) /\ file[run.pos] # Invalid /\ Batched(run.pos)
      BY <1>4 DEF BatchRow
    <2>2. Flow # "candidates" =>
            /\ file[run.pos] \notin run.seen
            /\ \A i \in DOMAIN cands : cands[i].key # file[run.pos]
      BY <1>03, <2>1 DEF IsDuplicate
    <2> QED
      BY <1>02, <2>1, <2>2, KeptKeys
  <1>5. CASE DuplicateCheckFails
    <2>1. /\ UNCHANGED <<file, cands, job>> /\ run.pc = "row" /\ Batched(run.pos)
          /\ unchecked' = unchecked \cup {run.pos} /\ Flow = "interviews"
          /\ file[run.pos] \notin run.seen
      BY <1>5 DEF DuplicateCheckFails
    <2>2. OneRecordPerIdentity'
      BY <2>1 DEF OneRecordPerIdentity
    <2> QED
      BY <2>1, <2>2, KeptKeys
  <1>6. CASE EndOfFile
    <2>1. /\ UNCHANGED <<file, cands, unchecked, job>> /\ run'.seen = run.seen
          /\ \/ run'.batch = run.batch /\ UNCHANGED flush
             \/ /\ run'.batch = {} /\ run.batch # {}
                /\ flush' = [flush EXCEPT !["main"] = FlushOf(run.batch)]
      BY <1>6, <1>01 DEF EndOfFile, RunRecord
    <2>2. CASE run'.batch = run.batch /\ UNCHANGED flush
      BY <1>02, <2>1, <2>2, QuietKeys
    <2>3. CASE /\ run'.batch = {} /\ run.batch # {}
               /\ flush' = [flush EXCEPT !["main"] = FlushOf(run.batch)]
      <3>1. run.batch \in SUBSET Rows
        BY <1>01 DEF RunRecord
      <3>2. flush'["main"].todo = run.batch /\ flush'["abort"] = flush["abort"]
        BY <2>3, <3>1, HandedOver DEF Flushes
      <3> QED
        BY <1>02, <2>1, <2>3, <3>2, QuietKeys
    <2> QED
      BY <2>1, <2>2, <2>3
  <1>7. CASE Shutdown
    <2>1. UNCHANGED <<file, cands, unchecked, job>>
      BY <1>7 DEF Shutdown
    <2>2. CASE UNCHANGED <<run, flush>>
      BY <1>02, <2>1, <2>2, QuietKeys
    <2>3. CASE /\ run' = [run EXCEPT !.aborting = TRUE, !.batch = {}]
               /\ run.batch = {} /\ flush' = flush
      BY <1>01, <1>02, <2>1, <2>3, QuietKeys DEF RunRecord
    <2>4. CASE /\ run' = [run EXCEPT !.aborting = TRUE, !.batch = {}]
               /\ run.batch # {} /\ flush' = [flush EXCEPT !["abort"] = FlushOf(run.batch)]
      <3>1. run.batch \in SUBSET Rows /\ run'.batch = {} /\ run'.seen = run.seen
        BY <1>01, <2>4 DEF RunRecord
      <3>2. flush'["abort"].todo = run.batch /\ flush'["main"] = flush["main"]
        BY <2>4, <3>1, HandedOver DEF Flushes
      <3> QED
        BY <1>02, <2>1, <3>1, <3>2, QuietKeys
    <2> QED
      BY <1>7, <2>2, <2>3, <2>4 DEF Shutdown
  <1>8. CASE ManagerMarks \/ ManagerFails
    <2>1. /\ UNCHANGED <<file, cands, unchecked, run, flush>> /\ job'.flowType = job.flowType
      BY <1>8, <1>01 DEF ManagerMarks, ManagerFails, JobRecord
    <2> QED
      BY <1>02, <2>1, QuietKeys
  <1>9. CASE \E f \in Flushes : FlushNext(f)
    <2>1. PICK f \in Flushes : FlushNext(f)
      BY <1>9
    <2>2. /\ UNCHANGED <<file, unchecked>> /\ run'.batch = run.batch /\ run'.seen = run.seen
          /\ job'.flowType = job.flowType
      BY <2>1, FlushStep, FlushLeaves
    <2>3. CASE InsertRow(f) \/ LinkFails(f)
      <3>1. PICK r \in Rows, e \in {0, 1} : Inserting(f, r) /\ SaveRecord(f, r, e)
        BY <2>3 DEF InsertRow, LinkFails
      <3>2. UNCHANGED job
        BY <2>3 DEF InsertRow, LinkFails
      <3> QED
        BY <2>2, <3>1, <3>2, SavedKeys
    <2>4. CASE ~ (InsertRow(f) \/ LinkFails(f))
      <3>1. UNCHANGED cands
        BY <2>1, <2>4 DEF FlushNext, InsertRowFails, BatchThrows, BatchReturns,
           WriteCheckpoint, CheckpointLost
      <3>2. flush'[f].todo \subseteq flush[f].todo \/ flush'[f] = IdleFlush
        BY <2>1, FlushStep
      <3>3. \A g \in Flushes : flush'[g].todo \subseteq flush[g].todo
        BY <2>1, <3>2, FlushStep DEF IdleFlush
      <3> QED
        BY <1>02, <2>2, <3>1, <3>3, QuietKeys DEF Flushes
    <2> QED
      BY <2>3, <2>4
  <1>10. CASE ProcessEnds
    <2>1. /\ UNCHANGED <<file, cands, unchecked, job>> /\ Queued' = {}
      BY <1>10 DEF ProcessEnds, IdleRun, IdleFlush, Queued, Flushes
    <2> QED
      BY <1>02, <2>1, QuietKeys
  <1>11. CASE Restart \/ SweepFindsNothing \/ ResumeRefused \/ UNCHANGED vars
    <2>1. UNCHANGED <<file, job, cands, unchecked, run, flush>>
      BY <1>11 DEF Restart, SweepFindsNothing, ResumeRefused, vars
    <2> QED
      BY <1>02, <2>1, QuietKeys
  <1> QED
    BY <1>1, <1>2, <1>3, <1>4, <1>5, <1>6, <1>7, <1>8, <1>9, <1>10, <1>11
       DEF Next, Sweep, RunNext

\* An identity gets a second record only for a row whose duplicate check failed: from one
\* file or over any number of resumptions, with the flush of an abort beside a run's own
\* or one that a run left behind, whatever other errors were swallowed.
THEOREM IdentitiesAreUnique == Spec => []OneRecordPerIdentity
  <1>1. Init => OneRecordPerIdentity /\ FreshKeys
    BY DEF Init, OneRecordPerIdentity, FreshKeys, Queued, IdleRun, IdleFlush, Flushes
  <1>2. TypeOK /\ HostInv /\ OneRecordPerIdentity /\ FreshKeys /\ [Next]_vars
        => HostInv' /\ OneRecordPerIdentity' /\ FreshKeys'
    BY HostStep, KeysStep
  <1> QED
    BY <1>1, <1>2, InitHost, TypeCorrect, PTL DEF Spec

-----------------------------------------------------------------------------
(* The graceful shutdown, for any host and any errors.                     *)

\* The manager has marked the job of a run it told to abort.
Cancelled == run.aborting /\ manager = "done"

\* What a run leaves behind it.
Left ==
    IF Cancelled THEN \/ job.status = "INTERRUPTED"
                      \/ job.status = run.mark /\ run.mark \in {"FAILED", "FAILED_INCOMPLETE"}
                 ELSE \/ job.status = run.mark
                      \/ run.mark = "lost" /\ job.status \in {"PROCESSING", "INTERRUPTED"}

\* Told to abort, a run stays told until its process ends, and until it throws or is
\* marked nothing but INTERRUPTED is written over the manager's mark.
ShutdownInv ==
    /\ manager = "pending" => run.aborting
    /\ run.aborting => /\ server = "draining" /\ manager # "idle" /\ run.pc # "opening"
                       /\ job.status # "NONE"
    /\ run.pc = "opening" => job.status \in {"NONE", "PROCESSING", "INTERRUPTED"}
    /\ run.pc \in {"reading", "row", "flushing", "closing", "marking"} =>
          /\ job.status \in {"PROCESSING", "INTERRUPTED"}
          /\ Cancelled => job.status = "INTERRUPTED"
    /\ run.pc = "leaving" \/ (run.aborting /\ run.pc = "idle") => Left

LEMMA ShutdownStep ==
  ASSUME TypeOK, HostInv, ShutdownInv, [Next]_vars
  PROVE  ShutdownInv'
  <1> USE DEF ShutdownInv, Cancelled, Left
  <1>01. run \in RunRecord /\ job \in JobRecord
    BY DEF TypeOK
  <1>1. CASE Upload
    <2>1. /\ UNCHANGED <<job, server, manager>> /\ run'.pc = "opening"
          /\ run'.aborting = run.aborting /\ job.status = "NONE"
      BY <1>1, <1>01 DEF Upload, process, RunRecord
    <2> QED
      BY <2>1
  <1>2. CASE Resume
    <2>1. /\ UNCHANGED <<server, manager>> /\ job'.status = job.status /\ server = "up"
          /\ job.status \in {"PROCESSING", "INTERRUPTED"}
          /\ run'.pc = "opening" /\ run'.aborting = run.aborting
      BY <1>2, <1>01 DEF Resume, Recoverable, RunRecord, JobRecord
    <2> QED
      BY <2>1
  <1>3. CASE Open \/ OpenBlind
    <2>1. /\ UNCHANGED <<server, manager>> /\ run.pc = "opening" /\ run'.pc = "reading"
          /\ run'.aborting = FALSE /\ job'.status \in {job.status, "PROCESSING"}
          /\ job'.status # "NONE"
      BY <1>3, <1>01 DEF Open, OpenBlind, process, IdleRun, JobRecord
    <2> QED
      BY <2>1
  <1>4. CASE ReadRow \/ RejectRow \/ RowThrows \/ SkipDuplicate \/ EndOfFile \/ CloseRun
    <2>1. /\ UNCHANGED <<server, manager, job>> /\ run.pc \in {"reading", "row", "closing"}
          /\ run'.pc \in {"reading", "row", "flushing", "closing", "marking"}
          /\ run'.aborting = run.aborting
      BY <1>4, <1>01
         DEF ReadRow, RejectRow, RowThrows, SkipDuplicate, EndOfFile, CloseRun, NextRow, process,
             RunRecord
    <2> QED
      BY <2>1
  <1>5. CASE BatchRow \/ DuplicateCheckFails
    <2>1. /\ UNCHANGED <<server, manager, job>> /\ run.pc = "row" /\ Batched(run.pos)
      BY <1>5 DEF BatchRow, DuplicateCheckFails, process
    <2>2. run'.pc \in {"reading", "flushing"} /\ run'.aborting = run.aborting
      BY <2>1, BatchedRow
    <2> QED
      BY <2>1, <2>2
  <1>6. CASE FailRun
    <2>1. /\ UNCHANGED <<server, manager>> /\ run'.pc = "idle" /\ run'.aborting = run.aborting
          /\ run.pc \in {"reading", "flushing", "closing"}
          /\ job'.status = FailedStatus /\ run'.mark = FailedStatus
      BY <1>6, <1>01 DEF FailRun, Throws, Counters, process, RunRecord, JobRecord
    <2>2. FailedStatus \in {"FAILED", "FAILED_INCOMPLETE"}
      BY DEF FailedStatus
    <2> QED
      BY <2>1, <2>2
  <1>7. CASE MarkRun
    <2>1. /\ UNCHANGED <<server, manager>> /\ run.pc = "marking" /\ run'.pc = "leaving"
          /\ run'.aborting = run.aborting /\ job'.status = EndStatus /\ run'.mark = EndStatus
      BY <1>7, <1>01 DEF MarkRun, Counters, process, RunRecord, JobRecord
    <2>2. EndStatus = IF run.aborting THEN "INTERRUPTED" ELSE "COMPLETED"
      BY DEF EndStatus
    <2> QED
      BY <2>1, <2>2
  <1>8. CASE MarkLost
    <2>1. /\ UNCHANGED <<server, manager, job>> /\ run'.pc \in {"leaving", "idle"}
          /\ run.pc \in {"reading", "flushing", "closing", "marking"}
          /\ run'.aborting = run.aborting /\ run'.mark = "lost"
      BY <1>8, <1>01 DEF MarkLost, process, RunRecord
    <2> QED
      BY <2>1
  <1>9. CASE Leave
    <2>1. /\ UNCHANGED <<server, manager, job>> /\ run.pc = "leaving" /\ run'.pc = "idle"
          /\ run'.aborting = run.aborting /\ run'.mark = run.mark
      BY <1>9, <1>01 DEF Leave, process, RunRecord
    <2> QED
      BY <2>1
  <1>10. CASE Shutdown
    <2>1. UNCHANGED job /\ server' = "draining" /\ server = "up" /\ ~ run.aborting
      BY <1>10 DEF Shutdown
    <2>2. CASE Registered
      <3>1. /\ manager' = "pending" /\ run'.pc = run.pc /\ run'.mark = run.mark
            /\ run'.aborting = TRUE
        BY <1>10, <1>01, <2>2 DEF Shutdown, RunRecord
      <3>2. job.status # "NONE"
        BY <2>2 DEF Registered, HostInv, Busy
      <3> QED
        BY <2>1, <2>2, <3>1, <3>2 DEF Registered
    <2>3. CASE ~ Registered
      BY <1>10, <2>1, <2>3 DEF Shutdown, Registered
    <2> QED
      BY <2>2, <2>3
  <1>11. CASE ManagerMarks
    <2>1. /\ UNCHANGED <<server, run>> /\ manager = "pending" /\ manager' = "done"
          /\ job'.status = "INTERRUPTED"
      BY <1>11, <1>01 DEF ManagerMarks, JobRecord
    <2> QED
      BY <2>1
  <1>12. CASE ManagerFails
    <2>1. UNCHANGED <<server, run, job>> /\ manager = "pending" /\ manager' = "failed"
      BY <1>12 DEF ManagerFails
    <2> QED
      BY <2>1
  <1>13. CASE ProcessEnds
    BY <1>13 DEF ProcessEnds, IdleRun
  <1>14. CASE \E f \in Flushes : FlushNext(f)
    <2>1. PICK f \in Flushes : FlushNext(f)
      BY <1>14
    <2>2. /\ UNCHANGED <<server, manager>> /\ run'.aborting = run.aborting
          /\ job'.status = job.status /\ run'.mark = run.mark
          /\ run'.pc = run.pc \/ (run.pc = "flushing" /\ run'.pc = "reading")
      BY <2>1, FlushStep, FlushLeaves DEF process
    <2> QED
      BY <2>2
  <1>15. CASE Restart \/ SweepFindsNothing \/ ResumeRefused \/ UNCHANGED vars
    <2>1. UNCHANGED <<job, run, manager>> /\ (server' = server \/ server = "down")
      BY <1>15 DEF Restart, SweepFindsNothing, ResumeRefused, vars
    <2> QED
      BY <2>1
  <1> QED
    BY <1>1, <1>2, <1>3, <1>4, <1>5, <1>6, <1>7, <1>8, <1>9, <1>10, <1>11, <1>12, <1>13, <1>14, <1>15
       DEF Next, Sweep, RunNext

\* A run told to abort and the shutdown handler both write the job's status, and either
\* may fail to: once both are through, the job is INTERRUPTED for the next process unless
\* the run threw or the handler's update failed.
THEOREM ShutdownsInterrupt == Spec => []ShutdownLeavesInterrupted
  <1>1. Init => ShutdownInv
    BY DEF Init, ShutdownInv, IdleRun
  <1>2. TypeOK /\ HostInv /\ ShutdownInv /\ [Next]_vars => HostInv' /\ ShutdownInv'
    BY HostStep, ShutdownStep
  <1>3. ShutdownInv => ShutdownLeavesInterrupted
    BY DEF ShutdownInv, Cancelled, Left, ShutdownLeavesInterrupted
  <1> QED
    BY <1>1, <1>2, <1>3, InitHost, TypeCorrect, PTL DEF Spec

-----------------------------------------------------------------------------
(* The rows a completed job did not import, whatever errors are swallowed. *)

\* A record under an identity holds a row that carries it.
RowKeys == \A i \in DOMAIN cands : cands[i].key \in Keys => file[cands[i].row] = cands[i].key

\* The rows that the counters of a run may be about: those it has left behind, before any
\* row it still has to write.  A later run may write a row before one that landed.
Counted ==
    {r \in Rows : /\ Landed(r) /\ \A q \in Pending : r < q
                  /\ IF flush["main"].phase # "idle" THEN r <= flush["main"].last
                     ELSE r < run.pos \/ r <= run.start}

\* What a flush has saved and the run does not count yet.
Unadded == IF flush["main"].phase = "insert"
           THEN flush["main"].created + flush["main"].updated ELSE 0

Ended == job.status \in {"COMPLETED", "FAILED", "FAILED_INCOMPLETE"}

JobCount ==
    /\ ~ Ended => job.created + job.updated
                      <= Cardinality({r \in Rows : r <= job.lastRow /\ Landed(r)})
    /\ job.status = "COMPLETED" => job.created + job.updated
                                       <= Cardinality({r \in Rows : Landed(r)})

RunCount ==
    /\ Active => run.created + run.updated + Unadded <= Cardinality(Counted)
    /\ \A q \in flush["main"].todo : q <= flush["main"].last

CountInv == RowKeys /\ JobCount /\ RunCount

LEMMA RowsFinite ==
  ASSUME NEW T \in SUBSET Rows
  PROVE  /\ IsFiniteSet(T) /\ Cardinality(T) \in Nat
         /\ \A S \in SUBSET T : Cardinality(S) <= Cardinality(T)
  <1>1. IsFiniteSet(Rows)
    BY RowsAssumption, FS_Interval DEF Rows
  <1>2. IsFiniteSet(T)
    BY <1>1, FS_Subset
  <1> QED
    BY <1>2, FS_Subset, FS_CardinalityType

\* A row written by the inserter: it has landed, and those before it stay where they are.
LEMMA WrittenLands ==
  ASSUME TypeOK, RowKeys, NEW f \in Flushes, NEW r \in Rows, NEW e \in Nat,
         SaveRecord(f, r, e), UNCHANGED <<file, job>>
  PROVE  (\A q \in Rows : Landed(q) /\ q < r => Landed(q)') /\ Landed(r)' /\ RowKeys'
  <1>0. Flow' = Flow /\ Anon \notin Keys
        /\ (IdentityOf(r) \in Keys => IdentityOf(r) = file[r])
        /\ (IdentityOf(r) # Anon => IdentityOf(r) \in Keys)
    BY KindsAssumption DEF Flow, IdentityOf
  <1>1. ASSUME NEW i \in Existing(r),
               DOMAIN cands' = DOMAIN cands,
               \A j \in DOMAIN cands : cands'[j].key = cands[j].key,
               \A j \in DOMAIN cands \ {i} : cands'[j] = cands[j],
               cands'[i].row = r
        PROVE  (\A q \in Rows : Landed(q) /\ q < r => Landed(q)') /\ Landed(r)' /\ RowKeys'
    <2>1. i \in DOMAIN cands /\ cands[i].key \in Keys /\ cands[i].key = file[r]
      BY <1>0 DEF Existing
    <2>2. ASSUME NEW q \in Rows, Landed(q), q < r PROVE Landed(q)'
      <3>1. PICK j \in DOMAIN cands :
                \/ cands[j].row = q
                \/ /\ file[q] \in Keys /\ cands[j].key = file[q]
                   /\ Flow = "interviews" \/ cands[j].row > q
        BY <2>2 DEF Landed
      <3>2. CASE j # i
        BY <1>0, <1>1, <3>1, <3>2 DEF Landed
      <3>3. CASE j = i
        <4>1. file[q] \in Keys /\ cands[i].key = file[q]
          BY <2>1, <3>1, <3>3 DEF RowKeys
        <4>2. cands'[i].key = file[q] /\ cands'[i].row > q /\ i \in DOMAIN cands'
          BY <1>1, <2>1, <2>2, <4>1 DEF Rows
        <4> QED
          BY <4>1, <4>2 DEF Landed
      <3> QED
        BY <3>2, <3>3
    <2>3. RowKeys'
      BY <1>1, <2>1 DEF RowKeys
    <2> QED
      BY <1>1, <2>1, <2>2, <2>3 DEF Landed
  <1>2. ASSUME NEW i \in Nat, DOMAIN cands' = DOMAIN cands \cup {i},
               \A j \in DOMAIN cands : cands'[j] = cands[j],
               cands'[i].row = r, cands'[i].key = IdentityOf(r)
        PROVE  (\A q \in Rows : Landed(q) /\ q < r => Landed(q)') /\ Landed(r)' /\ RowKeys'
    <2>1. i \in DOMAIN cands \/ \A j \in DOMAIN cands' : j = i \/ j \in DOMAIN cands
      BY <1>2
    <2>2. RowKeys'
      BY <1>0, <1>2 DEF RowKeys
    <2>3. \A q \in Rows : Landed(q) => Landed(q)'
      BY <1>0, <1>2 DEF Landed
    <2> QED
      BY <1>2, <2>2, <2>3 DEF Landed
  <1> QED
    BY <1>1, <1>2, SavedRecords

\* The rows that landed and that a job may count stay landed.
LEMMA JobCountKept ==
  ASSUME TypeOK, JobCount,
         \A q \in Rows : Landed(q) /\ (q <= job.lastRow \/ job.status = "COMPLETED") => Landed(q)',
         job'.created = job.created, job'.updated = job.updated, job'.lastRow = job.lastRow,
         job'.status = job.status \/ (~ Ended /\ ~ Ended')
  PROVE  JobCount'
  <1> DEFINE low  == {r \in Rows : r <= job.lastRow /\ Landed(r)}
             all  == {r \in Rows : Landed(r)}
  <1>1. /\ low \subseteq low' /\ (job.status = "COMPLETED" => all \subseteq all')
        /\ low' \subseteq Rows /\ all' \subseteq Rows
    OBVIOUS
  <1>2. /\ Cardinality(low) <= Cardinality(low')
        /\ job.status = "COMPLETED" => Cardinality(all) <= Cardinality(all')
        /\ Cardinality(low) \in Nat /\ Cardinality(low') \in Nat
        /\ Cardinality(all) \in Nat /\ Cardinality(all') \in Nat
    <2>1. low \subseteq Rows /\ all \subseteq Rows
      OBVIOUS
    <2> HIDE DEF low, all
    <2> QED
      BY <1>1, <2>1, RowsFinite
  <1>3. job.created \in Nat /\ job.updated \in Nat
    BY DEF TypeOK, JobRecord
  <1>4. (~ Ended => job.created + job.updated <= Cardinality(low))
        /\ (job.status = "COMPLETED" => job.created + job.updated <= Cardinality(all))
    BY DEF JobCount
  <1>5. (~ Ended' => ~ Ended) /\ (job'.status = "COMPLETED" => job.status = "COMPLETED")
    BY DEF Ended
  <1>6. (~ Ended' => job'.created + job'.updated <= Cardinality(low'))
        /\ (job'.status = "COMPLETED" => job'.created + job'.updated <= Cardinality(all'))
    <2> HIDE DEF low, all
    <2> QED
      BY <1>2, <1>3, <1>4, <1>5
  <1> QED
    BY <1>6 DEF JobCount

\* What a run counts is bounded as long as the rows it may be about only grow.
LEMMA RunCountKept ==
  ASSUME TypeOK, RunCount,
         \A q \in flush'["main"].todo : q <= flush'["main"].last,
         \/ ~ Active'
         \/ /\ Active /\ Counted \subseteq Counted'
            /\ run'.created + run'.updated + Unadded' = run.created + run.updated + Unadded
  PROVE  RunCount'
  <1>1. CASE ~ Active'
    BY <1>1 DEF RunCount
  <1>2. CASE /\ Active /\ Counted \subseteq Counted'
             /\ run'.created + run'.updated + Unadded' = run.created + run.updated + Unadded
    <2>1. Counted \in SUBSET Rows /\ Counted' \in SUBSET Rows
      BY DEF Counted
    <2>2. Cardinality(Counted) <= Cardinality(Counted')
          /\ Cardinality(Counted) \in Nat /\ Cardinality(Counted') \in Nat
      BY <1>2, <2>1, RowsFinite
    <2>3. run.created + run.updated + Unadded <= Cardinality(Counted)
      BY <1>2 DEF RunCount
    <2>4. run.created + run.updated + Unadded \in Nat
      <3>1. run \in RunRecord /\ flush["main"] \in FlushRecord
        BY DEF TypeOK, Flushes
      <3>2. run.created \in Nat /\ run.updated \in Nat /\ Unadded \in Nat
        BY <3>1 DEF RunRecord, FlushRecord, Unadded
      <3> QED
        BY <3>2
    <2> QED
      BY <1>2, <2>2, <2>3, <2>4 DEF RunCount
  <1> QED
    BY <1>1, <1>2

\* Steps that write no record.
LEMMA QuietCount ==
  ASSUME TypeOK, CountInv, UNCHANGED <<file, cands>>, job'.flowType = job.flowType,
         JobCount',
         \A q \in flush'["main"].todo : q <= flush'["main"].last,
         \/ ~ Active'
         \/ /\ Active
            /\ run'.created + run'.updated + Unadded' = run.created + run.updated + Unadded
            /\ \A r \in Rows : r \in Counted /\ Landed(r)' => r \in Counted'
  PROVE  CountInv'
  <1>1. RowKeys' /\ \A q \in Rows : Landed(q)' <=> Landed(q)
    BY SameLanded DEF CountInv, RowKeys
  <1>2. Counted \subseteq Rows /\ \A r \in Counted : Landed(r)
    BY DEF Counted
  <1>3. ~ Active' \/ Counted \subseteq Counted'
    BY <1>1, <1>2
  <1>4. RunCount'
    BY <1>3, RunCountKept DEF CountInv
  <1> QED
    BY <1>1, <1>4 DEF CountInv

\* The inserter saves a row, which lands, is counted, and was not before.
LEMMA WrittenCount ==
  ASSUME TypeOK, WhereInv, StatusInv, CountInv, NEW r \in Rows, NEW e \in Nat,
         Inserting("main", r), SaveRecord("main", r, e), UNCHANGED <<file, job>>,
         run'.pc = run.pc, run'.pos = run.pos, run'.start = run.start, run'.batch = run.batch,
         run'.created = run.created, run'.updated = run.updated
  PROVE  CountInv'
  <1>1. /\ flush["main"].phase = "insert" /\ r \in flush["main"].todo /\ run.batch = {}
        /\ \A q \in flush["main"].todo : r <= q
        /\ Active /\ job.status # "COMPLETED"
    BY DEF Inserting, WhereInv, FlushInv, Active, StatusInv
  <1>2. /\ flush'["main"].phase = "insert" /\ flush'["main"].todo = flush["main"].todo \ {r}
        /\ flush'["main"].last = flush["main"].last /\ "main" \in Flushes
    BY <1>1, SavedFlush DEF Flushes
  <1>3. Pending = flush["main"].todo /\ Pending' = Pending \ {r} /\ Active'
    BY <1>1, <1>2 DEF Pending, Active
  <1>4. (\A q \in Rows : Landed(q) /\ q < r => Landed(q)') /\ Landed(r)' /\ RowKeys'
    BY <1>2, WrittenLands DEF CountInv
  <1>5. job.lastRow < r /\ job.lastRow \in Nat /\ \A q \in Rows : q \in Nat
    BY <1>1, <1>3 DEF WhereInv, PositionInv, TypeOK, JobRecord, Rows
  <1>6. JobCount'
    <2>1. \A q \in Rows : Landed(q) /\ (q <= job.lastRow \/ job.status = "COMPLETED") => Landed(q)'
      BY <1>1, <1>4, <1>5
    <2> QED
      BY <2>1, JobCountKept DEF CountInv
  <1>7. Unadded' = Unadded + 1 /\ Unadded \in Nat /\ run.created \in Nat /\ run.updated \in Nat
    <2>1. flush \in [Flushes -> FlushRecord] /\ flush["main"] \in FlushRecord /\ run \in RunRecord
      BY DEF TypeOK, Flushes
    <2>2. \/ /\ flush'["main"].created = flush["main"].created + 1
             /\ flush'["main"].updated = flush["main"].updated
          \/ /\ flush'["main"].created = flush["main"].created
             /\ flush'["main"].updated = flush["main"].updated + 1
      <3>1. CASE flush' = [flush EXCEPT !["main"].todo = @ \ {r}, !["main"].updated = @ + 1,
                                        !["main"].failed = @ + e]
        BY <2>1, <3>1 DEF FlushRecord, Flushes
      <3>2. CASE flush' = [flush EXCEPT !["main"].todo = @ \ {r}, !["main"].created = @ + 1,
                               !["main"].failed = @ + e, !["main"].ids = @ \cup {Len(cands) + 1}]
        BY <2>1, <3>2 DEF FlushRecord, Flushes
      <3> QED
        BY <3>1, <3>2 DEF SaveRecord
    <2>3. /\ flush["main"].created \in Nat /\ flush["main"].updated \in Nat
          /\ run.created \in Nat /\ run.updated \in Nat
      BY <2>1 DEF FlushRecord, RunRecord
    <2> QED
      BY <1>1, <1>2, <2>2, <2>3 DEF Unadded
  <1>8. Counted \cup {r} \subseteq Counted' /\ r \notin Counted /\ Counted \subseteq Rows
        /\ Counted' \subseteq Rows
    <2>1. r <= flush["main"].last /\ Pending \subseteq Rows
      BY <1>1, <1>3 DEF CountInv, RunCount, TypeOK, FlushRecord, Flushes
    <2>2. \A q \in Pending' : r < q
      BY <1>1, <1>3, <1>5, <2>1
    <2>3. \A q \in Counted : q < r /\ r \in Pending
      BY <1>1, <1>3 DEF Counted
    <2>4. Counted \subseteq Counted'
      BY <1>1, <1>2, <1>3, <1>4, <2>3 DEF Counted
    <2>5. r \in Counted'
      BY <1>2, <1>4, <2>1, <2>2 DEF Counted
    <2>6. r \notin Counted
      BY <1>5, <2>3
    <2> QED
      BY <2>4, <2>5, <2>6 DEF Counted
  <1>9. Cardinality(Counted) + 1 <= Cardinality(Counted')
        /\ Cardinality(Counted) \in Nat /\ Cardinality(Counted') \in Nat
    <2>1. IsFiniteSet(Counted) /\ Cardinality(Counted) \in Nat /\ Cardinality(Counted') \in Nat
          /\ Cardinality(Counted \cup {r}) <= Cardinality(Counted')
      BY <1>8, RowsFinite
    <2>2. Cardinality(Counted \cup {r}) = Cardinality(Counted) + 1
      BY <1>8, <2>1, FS_AddElement
    <2> QED
      BY <2>1, <2>2
  <1>10. RunCount'
    <2>1. run.created + run.updated + Unadded <= Cardinality(Counted)
      BY <1>1 DEF CountInv, RunCount
    <2>2. \A q \in flush'["main"].todo : q <= flush'["main"].last
      BY <1>2 DEF CountInv, RunCount
    <2>3. run'.created + run'.updated + Unadded' <= Cardinality(Counted')
      BY <1>7, <1>9, <2>1
    <2> QED
      BY <2>2, <2>3 DEF RunCount
  <1> QED
    BY <1>4, <1>6, <1>10 DEF CountInv

\* The counters go from the flush to the run and with the checkpoint to the job; the
\* rows they are about are at or below its last row.
LEMMA CheckpointCount ==
  ASSUME TypeOK, WhereInv, CountInv, WriteCheckpoint("main") \/ CheckpointLost("main")
  PROVE  CountInv'
  <1>1. /\ UNCHANGED <<file, cands>> /\ flush["main"].phase = "checkpoint"
        /\ flush'["main"] = IdleFlush
    BY DEF WriteCheckpoint, CheckpointLost, FlushReturns, TypeOK, Flushes
  <1>2. PICK n \in 1 .. BatchSize :
            run' = [run EXCEPT !.size = n,
                       !.pc = IF "main" = "main" /\ run.pc = "flushing" THEN "reading" ELSE @]
    BY DEF WriteCheckpoint, CheckpointLost, FlushReturns
  <1>3. /\ run'.pos = run.pos /\ run'.start = run.start /\ run'.batch = run.batch
        /\ run'.created = run.created /\ run'.updated = run.updated
    BY <1>2 DEF TypeOK, RunRecord
  <1>4. \/ UNCHANGED job
        \/ /\ job'.lastRow = flush["main"].last /\ job'.created = run.created
           /\ job'.updated = run.updated /\ job'.status = job.status
           /\ job'.flowType = job.flowType
    BY DEF WriteCheckpoint, CheckpointLost, Checkpointed, TypeOK, JobRecord
  <1>5. /\ run.batch = {} /\ flush["main"].todo = {}
        /\ flush["main"].last < run.pos
    BY <1>1 DEF WhereInv, FlushInv
  <1>6. /\ flush["main"].last \in Nat /\ run.pos \in Nat /\ \A q \in Rows : q \in Nat
    <2>1. flush["main"] \in FlushRecord /\ run \in RunRecord
      BY DEF TypeOK, Flushes
    <2> QED
      BY <2>1, RowsAssumption DEF FlushRecord, RunRecord, Rows
  <1>7. flush'["main"].todo = {} /\ flush'["main"].phase = "idle" /\ Pending = {} /\ Pending' = {}
        /\ Active
    BY <1>1, <1>3, <1>5 DEF IdleFlush, Pending, Active
  <1>8. RowKeys' /\ (\A q \in Rows : Landed(q)' <=> Landed(q))
    BY <1>1, <1>4, SameLanded DEF CountInv, RowKeys
  <1>10. Counted \subseteq Counted' /\ Unadded = 0 /\ Unadded' = 0
    <2>1. \A r \in Rows : r <= flush["main"].last => r < run.pos
      BY <1>5, <1>6
    <2> QED
      BY <1>1, <1>3, <1>5, <1>7, <1>8, <2>1 DEF Counted, Unadded
  <1>11. RunCount'
    BY <1>3, <1>7, <1>10, RunCountKept DEF CountInv
  <1>12. JobCount'
    <2>1. CASE UNCHANGED job
      BY <1>8, <2>1, JobCountKept DEF CountInv
    <2>2. CASE /\ job'.lastRow = flush["main"].last /\ job'.created = run.created
               /\ job'.updated = run.updated /\ job'.status = job.status
      <3> DEFINE low  == {r \in Rows : r <= job.lastRow /\ Landed(r)}
                 all  == {r \in Rows : Landed(r)}
      <3>1. Counted \subseteq low' /\ Counted \subseteq all'
        BY <1>1, <1>7, <1>8, <2>2 DEF Counted
      <3>2. low' \subseteq Rows /\ all' \subseteq Rows
        OBVIOUS
      <3> HIDE DEF low, all
      <3>3. /\ Cardinality(Counted) <= Cardinality(low') /\ Cardinality(low') \in Nat
            /\ Cardinality(Counted) <= Cardinality(all') /\ Cardinality(all') \in Nat
            /\ Cardinality(Counted) \in Nat
        <4>1. Counted \subseteq Rows
          BY DEF Counted
        <4> QED
          BY <3>1, <3>2, <4>1, RowsFinite
      <3>4. run.created + run.updated <= Cardinality(Counted)
            /\ run.created \in Nat /\ run.updated \in Nat
        BY <1>7, <1>10 DEF CountInv, RunCount, TypeOK, RunRecord
      <3>5. /\ job'.created + job'.updated <= Cardinality(low')
            /\ job'.created + job'.updated <= Cardinality(all')
        BY <2>2, <3>3, <3>4
      <3> QED
        BY <3>5 DEF JobCount, low, all
    <2> QED
      BY <1>4, <2>1, <2>2
  <1> QED
    BY <1>8, <1>11, <1>12 DEF CountInv

\* The batch a flush starts with, and its counters.
LEMMA FlushCounts ==
  ASSUME NEW rows \in SUBSET Rows, rows # {}
  PROVE  /\ FlushOf(rows).phase = "insert" /\ FlushOf(rows).todo = rows
         /\ FlushOf(rows).created = 0 /\ FlushOf(rows).updated = 0
         /\ FlushOf(rows).last \in rows /\ \A q \in rows : q <= FlushOf(rows).last
  <1>1. \A q \in rows : q <= LastOf(rows)
    BY LastRowExists DEF LastOf
  <1>2. FlushOf(rows).last = LastOf(rows) /\ FlushOf(rows).updated = 0
    BY DEF FlushOf, IdleFlush
  <1> QED
    BY <1>1, <1>2, BatchFlushed

\* A batch goes to its flush: the rows counted come before all of its rows.
LEMMA FlushedCount ==
  ASSUME TypeOK, CountInv, UNCHANGED <<file, cands, job>>, Active, flush["main"].phase = "idle",
         NEW rows \in SUBSET Rows, rows # {}, flush' = [flush EXCEPT !["main"] = FlushOf(rows)],
         run'.batch = {}, run'.created = run.created, run'.updated = run.updated,
         \A r \in Counted, q \in rows : r < q
  PROVE  CountInv'
  <1>1. flush'["main"] = FlushOf(rows)
    BY DEF TypeOK, Flushes
  <1>2. /\ FlushOf(rows).phase = "insert" /\ FlushOf(rows).todo = rows
        /\ FlushOf(rows).created = 0 /\ FlushOf(rows).updated = 0
        /\ FlushOf(rows).last \in rows /\ \A q \in rows : q <= FlushOf(rows).last
    BY FlushCounts
  <1>3. Unadded = 0 /\ Unadded' = 0 /\ Pending' = rows
    BY <1>1, <1>2 DEF Unadded, Pending
  <1>4. ASSUME NEW r \in Rows, r \in Counted, Landed(r)' PROVE r \in Counted'
    <2>1. r < FlushOf(rows).last /\ FlushOf(rows).last \in Nat /\ r \in Nat
      BY <1>2, <1>4 DEF Rows
    <2>2. r <= FlushOf(rows).last
      BY <2>1
    <2> QED
      BY <1>1, <1>2, <1>3, <1>4, <2>2 DEF Counted
  <1>5. JobCount'
    <2>1. \A q \in Rows : Landed(q)' <=> Landed(q)
      BY SameLanded
    <2> QED
      BY <2>1, JobCountKept DEF CountInv
  <1> QED
    BY <1>1, <1>2, <1>3, <1>4, <1>5, QuietCount

LEMMA CountStep ==
  ASSUME TypeOK, WhereInv, StatusInv, CountInv, ~ Graceful, [Next]_vars
  PROVE  CountInv'
  <1>01. /\ run \in RunRecord /\ job \in JobRecord /\ flush \in [Flushes -> FlushRecord]
         /\ "main" \in Flushes
    BY DEF TypeOK, Flushes
  <1>02. /\ flush["main"].phase # "idle" => run.pc \in {"flushing", "idle"}
         /\ manager # "pending" /\ server # "draining" /\ ~ run.aborting
         /\ flush["main"].phase # "insert" => flush["main"].todo = {}
    BY DEF WhereInv, FlushInv, NoAbort
  <1>03. UNCHANGED <<cands, file>> /\ job'.flowType = job.flowType =>
            \A q \in Rows : Landed(q)' <=> Landed(q)
    BY SameLanded
  <1>04. \A q \in flush["main"].todo : q <= flush["main"].last
    BY DEF CountInv, RunCount
  <1>05. UNCHANGED <<cands, file, job>> => JobCount'
    BY <1>03, JobCountKept DEF CountInv
  <1>06. run.pos \in Nat /\ run.start \in Nat /\ \A q \in Rows : q \in Nat
    BY <1>01 DEF RunRecord, Rows
  <1>1. CASE Upload \/ Resume \/ ProcessEnds
    <2>1. /\ UNCHANGED <<file, cands>> /\ job'.flowType = job.flowType /\ job'.lastRow = job.lastRow
          /\ job'.status = job.status /\ job'.created = job.created /\ job'.updated = job.updated
          /\ run'.pc \in {"opening", "idle"}
      BY <1>1, <1>01 DEF Upload, Resume, ProcessEnds, IdleRun, RunRecord, JobRecord
    <2>2. flush'["main"].phase = "idle" /\ (flush' = flush \/ flush'["main"] = IdleFlush)
      <3>1. CASE Upload
        BY <3>1 DEF Upload, WhereInv, PositionInv, Active
      <3>2. CASE Resume
        BY <1>01, <3>2 DEF Resume, Busy
      <3>3. CASE ProcessEnds
        BY <1>01, <3>3 DEF ProcessEnds, IdleFlush
      <3> QED
        BY <1>1, <3>1, <3>2, <3>3
    <2>3. ~ Active' /\ \A q \in flush'["main"].todo : q <= flush'["main"].last
      BY <1>04, <2>1, <2>2 DEF IdleFlush, Active
    <2>4. JobCount'
      BY <1>03, <2>1, JobCountKept DEF CountInv
    <2> QED
      BY <2>1, <2>3, <2>4, QuietCount
  <1>2. CASE Open \/ OpenBlind
    <2>1. /\ UNCHANGED <<file, cands, flush>> /\ job'.flowType = job.flowType
          /\ job'.lastRow = job.lastRow /\ job'.created = job.created /\ job'.updated = job.updated
          /\ job'.status \in {job.status, "PROCESSING"} /\ run.pc = "opening"
          /\ run'.pc = "reading" /\ run'.pos = 1 /\ run'.start = job.lastRow /\ run'.batch = {}
      <3>1. /\ UNCHANGED <<file, cands, flush>> /\ run.pc = "opening"
            /\ run'.pc = "reading" /\ run'.pos = 1 /\ run'.start = job.lastRow
            /\ run'.batch = {}
        BY <1>2 DEF Open, OpenBlind, IdleRun
      <3>2. job' = job \/ job' = [job EXCEPT !.status = "PROCESSING"]
        BY <1>2 DEF Open, OpenBlind
      <3> QED
        BY <1>01, <3>1, <3>2 DEF JobRecord
    <2>2. \/ run'.created = job.created /\ run'.updated = job.updated
          \/ run'.created = 0 /\ run'.updated = 0
      BY <1>2, <1>01 DEF Open, OpenBlind, IdleRun
    <2>3. ~ Ended /\ ~ Ended'
      BY <2>1 DEF StatusInv, Ended
    <2>4. Pending' = {} /\ flush'["main"].phase = "idle" /\ Unadded' = 0
      BY <1>01, <1>02, <2>1 DEF Pending, Unadded, FlushRecord
    <2>5. RowKeys'
      BY <2>1 DEF CountInv, RowKeys
    <2>6. JobCount'
      BY <1>03, <2>1, <2>3, JobCountKept DEF CountInv
    <2>7. RunCount'
      <3> DEFINE low == {r \in Rows : r <= job.lastRow /\ Landed(r)}
      <3>1. \A r \in Rows : ~ (r < 1)
        BY DEF Rows
      <3>2. Counted' = low
        BY <1>03, <2>1, <2>4, <3>1 DEF Counted
      <3>3. Cardinality(low) \in Nat
        <4>1. low \subseteq Rows
          OBVIOUS
        <4> HIDE DEF low
        <4> QED
          BY <4>1, RowsFinite
      <3>4. job.created + job.updated <= Cardinality(low) /\ job.created \in Nat /\ job.updated \in Nat
        BY <1>01, <2>3 DEF CountInv, JobCount, JobRecord
      <3> HIDE DEF low
      <3>5. run'.created + run'.updated + Unadded' <= Cardinality(Counted')
        BY <2>2, <2>4, <3>2, <3>3, <3>4
      <3> QED
        BY <1>04, <2>1, <3>5 DEF RunCount
    <2> QED
      BY <2>5, <2>6, <2>7 DEF CountInv
  <1>3. CASE ReadRow \/ RejectRow \/ RowThrows \/ SkipDuplicate
    <2>1. UNCHANGED <<file, cands, job, flush>> /\ run.pc \in {"reading", "row"}
      BY <1>3 DEF ReadRow, RejectRow, RowThrows, SkipDuplicate
    <2>2. /\ run'.start = run.start /\ run'.batch = run.batch
          /\ run'.created = run.created /\ run'.updated = run.updated
          /\ run'.pos \in {run.pos, run.pos + 1}
      <3>1. CASE run' = [run EXCEPT !.processed = @ + 1, !.pos = @ + 1]
        BY <3>1, <1>01 DEF RunRecord
      <3>2. CASE run' = [run EXCEPT !.processed = @ + 1, !.pc = "row"]
        BY <3>2, <1>01 DEF RunRecord
      <3>3. CASE RejectRow \/ SkipDuplicate
        BY <3>3, <1>01 DEF RejectRow, SkipDuplicate, NextRow, RunRecord
      <3>4. CASE RowThrows
        <4>1. PICK noted : run' = NextRow([run EXCEPT !.failed = @ + 1, !.seen = @ \cup noted])
          BY <3>4 DEF RowThrows
        <4> QED
          BY <4>1, <1>01 DEF NextRow, RunRecord
      <3> QED
        BY <1>3, <1>02, <3>1, <3>2, <3>3, <3>4 DEF ReadRow
    <2>3. Active /\ Pending' = Pending /\ Unadded' = Unadded
      BY <2>1, <2>2 DEF Active, Pending, Unadded
    <2>4. \A r \in Rows : r < run.pos => r < run'.pos
      BY <1>06, <2>2
    <2>5. \A r \in Rows : r \in Counted /\ Landed(r)' => r \in Counted'
      BY <2>1, <2>2, <2>3, <2>4 DEF Counted
    <2> QED
      BY <1>04, <1>05, <2>1, <2>2, <2>3, <2>5, QuietCount
  <1>4. CASE BatchRow \/ DuplicateCheckFails
    <2> DEFINE rows == run.batch \cup {run.pos}
    <2>1. /\ UNCHANGED <<file, cands, job>> /\ run.pc = "row" /\ Batched(run.pos)
      BY <1>4 DEF BatchRow, DuplicateCheckFails
    <2>2. /\ run'.pos = run.pos + 1 /\ run'.start = run.start
          /\ run'.created = run.created /\ run'.updated = run.updated
          /\ run.pos \in Rows /\ rows \in SUBSET Rows
          /\ \/ run'.batch = {} /\ flush' = [flush EXCEPT !["main"] = FlushOf(rows)]
             \/ run'.batch = rows /\ UNCHANGED flush
      BY <2>1, BatchedRow
    <2>3. Active /\ Pending = run.batch /\ flush["main"].phase = "idle" /\ run.start < run.pos
      BY <1>01, <1>02, <2>1 DEF Active, Pending, FlushRecord, WhereInv, PositionInv
    <2>4. \A r \in Counted : r < run.pos /\ r \in Nat /\ \A q \in run.batch : r < q
      BY <1>06, <2>3 DEF Counted
    <2>5. \A r \in Counted, q \in rows : r < q
      BY <2>4
    <2>6. CASE run'.batch = {} /\ flush' = [flush EXCEPT !["main"] = FlushOf(rows)]
      BY <2>1, <2>2, <2>3, <2>5, <2>6, FlushedCount
    <2>7. CASE run'.batch = rows /\ UNCHANGED flush
      <3>1. Unadded' = Unadded /\ Pending' = rows
        BY <1>02, <2>3, <2>7 DEF Unadded, Pending
      <3>2. \A r \in Rows : r \in Counted /\ Landed(r)' => r \in Counted'
        <4> SUFFICES ASSUME NEW r \in Rows, r \in Counted, Landed(r)' PROVE r \in Counted'
          OBVIOUS
        <4>1. r < run'.pos
          BY <1>06, <2>2, <2>4
        <4> QED
          BY <2>3, <2>5, <2>7, <3>1, <4>1 DEF Counted
      <3> QED
        BY <1>04, <1>05, <2>1, <2>2, <2>3, <2>7, <3>1, <3>2, QuietCount
    <2> QED
      BY <2>2, <2>6, <2>7
  <1>5. CASE EndOfFile
    <2>1. /\ UNCHANGED <<file, cands, job>> /\ run.pc = "reading"
          /\ run'.pos = run.pos /\ run'.start = run.start
          /\ run'.created = run.created /\ run'.updated = run.updated /\ run'.batch = {}
          /\ \/ run.batch = {} /\ UNCHANGED flush
             \/ run.batch # {} /\ flush' = [flush EXCEPT !["main"] = FlushOf(run.batch)]
      BY <1>5, <1>01 DEF EndOfFile, RunRecord
    <2>2. Active /\ Pending = run.batch /\ flush["main"].phase = "idle" /\ run.batch \in SUBSET Rows
      BY <1>01, <1>02, <2>1 DEF Active, Pending, FlushRecord, RunRecord
    <2>3. CASE run.batch = {} /\ UNCHANGED flush
      <3>1. Pending' = Pending /\ Unadded' = Unadded
        BY <2>1, <2>3 DEF Pending, Unadded
      <3>2. \A r \in Rows : r \in Counted /\ Landed(r)' => r \in Counted'
        BY <2>1, <2>3, <3>1 DEF Counted
      <3> QED
        BY <1>04, <1>05, <2>1, <2>2, <2>3, <3>1, <3>2, QuietCount
    <2>4. CASE run.batch # {} /\ flush' = [flush EXCEPT !["main"] = FlushOf(run.batch)]
      <3>1. \A r \in Counted, q \in run.batch : r < q
        BY <2>2 DEF Counted
      <3> QED
        BY <2>1, <2>2, <2>4, <3>1, FlushedCount
    <2> QED
      BY <2>1, <2>3, <2>4
  <1>6. CASE CloseRun \/ Leave \/ MarkLost \/ FailRun
    <2>1. /\ UNCHANGED <<file, cands, flush>> /\ run.pc \notin {"idle", "opening"}
          /\ run'.pos = run.pos /\ run'.start = run.start /\ run'.batch = run.batch
          /\ run'.created = run.created /\ run'.updated = run.updated
      BY <1>6, <1>01 DEF CloseRun, Leave, MarkLost, FailRun, Throws, RunRecord
    <2>2. Active /\ Pending' = Pending /\ Unadded' = Unadded
      BY <2>1 DEF Active, Pending, Unadded
    <2>3. job'.flowType = job.flowType /\ JobCount'
      <3>1. CASE FailRun
        <4>1. job'.flowType = job.flowType /\ job'.status \in {"FAILED", "FAILED_INCOMPLETE"}
          BY <1>01, <3>1 DEF FailRun, FailedStatus, Counters, JobRecord
        <4> QED
          BY <4>1 DEF JobCount, Ended
      <3>2. CASE CloseRun \/ Leave \/ MarkLost
        BY <1>05, <2>1, <3>2 DEF CloseRun, Leave, MarkLost
      <3> QED
        BY <1>6, <3>1, <3>2
    <2>4. \A r \in Rows : r \in Counted /\ Landed(r)' => r \in Counted'
      BY <2>1, <2>2 DEF Counted
    <2> QED
      BY <1>04, <2>1, <2>2, <2>3, <2>4, QuietCount
  <1>8. CASE MarkRun
    <2>1. /\ UNCHANGED <<file, cands, flush>> /\ run.pc = "marking"
          /\ run'.pos = run.pos /\ run'.start = run.start /\ run'.batch = run.batch
          /\ run'.created = run.created /\ run'.updated = run.updated
      BY <1>8, <1>01 DEF MarkRun, RunRecord
    <2>2. /\ job'.flowType = job.flowType
          /\ job'.status = "COMPLETED" /\ job'.created = run.created /\ job'.updated = run.updated
      BY <1>8, <1>01, <1>02 DEF MarkRun, EndStatus, Counters, JobRecord
    <2>3. Active /\ Pending' = Pending /\ Unadded' = Unadded /\ Unadded = 0
      BY <1>02, <2>1 DEF Active, Pending, Unadded
    <2>4. \A r \in Rows : r \in Counted /\ Landed(r)' => r \in Counted'
      BY <2>1, <2>3 DEF Counted
    <2>5. JobCount'
      <3> DEFINE all == {r \in Rows : Landed(r)}
      <3>1. Counted \subseteq all' /\ all' \subseteq Rows
        BY <1>03, <2>1, <2>2 DEF Counted
      <3> HIDE DEF all
      <3>2. /\ Cardinality(Counted) <= Cardinality(all') /\ Cardinality(all') \in Nat
            /\ Cardinality(Counted) \in Nat
        <4>1. Counted \subseteq Rows
          BY DEF Counted
        <4> QED
          BY <3>1, <4>1, RowsFinite
      <3>3. run.created + run.updated <= Cardinality(Counted)
            /\ run.created \in Nat /\ run.updated \in Nat
        BY <1>01, <2>3 DEF CountInv, RunCount, RunRecord
      <3>4. job'.created + job'.updated <= Cardinality(all')
        BY <2>2, <3>2, <3>3
      <3> QED
        BY <2>2, <3>4 DEF JobCount, Ended, all
    <2> QED
      BY <1>04, <2>1, <2>2, <2>3, <2>4, <2>5, QuietCount
  <1>9. CASE Shutdown \/ ManagerMarks \/ ManagerFails
    BY <1>9, <1>02 DEF Shutdown, ManagerMarks, ManagerFails
  <1>10. CASE \E f \in Flushes : FlushNext(f)
    <2>1. PICK f \in Flushes : FlushNext(f)
      BY <1>10
    <2>2. /\ f = "main" /\ UNCHANGED file /\ run'.batch = run.batch
          /\ run'.pos = run.pos /\ run'.start = run.start /\ flush["main"].phase # "idle"
      BY <2>1, FlushNextWhere, FlushStep
    <2>3. Active
      BY <2>2 DEF Active
    <2>4. CASE InsertRow("main") \/ LinkFails("main")
      <3>1. PICK r \in Rows, e \in {0, 1} : Inserting("main", r) /\ SaveRecord("main", r, e)
        BY <2>4 DEF InsertRow, LinkFails
      <3>2. /\ UNCHANGED job /\ run'.pc = run.pc /\ run'.created = run.created
            /\ run'.updated = run.updated
        BY <2>4, <1>01 DEF InsertRow, LinkFails, RunRecord
      <3> QED
        BY <2>2, <3>1, <3>2, WrittenCount
    <2>5. CASE WriteCheckpoint("main") \/ CheckpointLost("main")
      BY <2>5, CheckpointCount
    <2>6. CASE InsertRowFails("main") \/ BatchThrows("main") \/ BatchReturns("main")
      <3>1. UNCHANGED <<cands, job>> /\ flush["main"].phase = "insert"
        BY <2>6 DEF InsertRowFails, BatchThrows, BatchReturns, Inserting
      <3>2. /\ flush'["main"].phase \in {"insert", "checkpoint"}
            /\ flush'["main"].todo \subseteq flush["main"].todo
            /\ flush'["main"].last = flush["main"].last
            /\ flush'["main"].created = flush["main"].created
            /\ flush'["main"].updated = flush["main"].updated
            /\ \/ /\ flush'["main"].phase = "insert" /\ run'.created = run.created
                  /\ run'.updated = run.updated
               \/ /\ flush'["main"].phase = "checkpoint"
                  /\ run'.created = run.created + flush["main"].created
                  /\ run'.updated = run.updated + flush["main"].updated
        <4>1. CASE InsertRowFails("main")
          <5>1. PICK r \in Rows :
                   flush' = [flush EXCEPT !["main"].todo = @ \ {r},
                                !["main"].failed = IF flush["main"].isolated THEN @ ELSE @ + 1]
            BY <4>1 DEF InsertRowFails
          <5> QED
            BY <3>1, <4>1, <5>1, <1>01 DEF InsertRowFails, RunRecord, FlushRecord
        <4>2. CASE BatchThrows("main")
          BY <3>1, <4>2, <1>01 DEF BatchThrows, RunRecord, FlushRecord
        <4>3. CASE BatchReturns("main")
          BY <3>1, <4>3, <1>01 DEF BatchReturns, RunRecord, FlushRecord
        <4> QED
          BY <2>6, <4>1, <4>2, <4>3
      <3>3. run'.created + run'.updated + Unadded' = run.created + run.updated + Unadded
        <4>1. /\ flush["main"].created \in Nat /\ flush["main"].updated \in Nat
              /\ run.created \in Nat /\ run.updated \in Nat
          BY <1>01 DEF FlushRecord, RunRecord
        <4> QED
          BY <3>1, <3>2, <4>1 DEF Unadded
      <3>4. Pending' \subseteq Pending
        BY <2>2, <3>2 DEF Pending
      <3>5. \A r \in Rows : r \in Counted /\ Landed(r)' => r \in Counted'
        BY <3>1, <3>2, <3>4 DEF Counted
      <3>6. \A q \in flush'["main"].todo : q <= flush'["main"].last
        BY <1>04, <3>2
      <3> QED
        BY <1>05, <2>2, <2>3, <3>1, <3>3, <3>5, <3>6, QuietCount
    <2> QED
      BY <2>1, <2>2, <2>4, <2>5, <2>6 DEF FlushNext
  <1>11. CASE Restart \/ SweepFindsNothing \/ ResumeRefused \/ UNCHANGED vars
    <2>1. UNCHANGED <<file, job, cands, run, flush>>
      BY <1>11 DEF Restart, SweepFindsNothing, ResumeRefused, vars
    <2>2. Pending' = Pending /\ (Active' <=> Active) /\ Unadded' = Unadded
      BY <2>1 DEF Pending, Active, Unadded
    <2>3. \A r \in Rows : r \in Counted /\ Landed(r)' => r \in Counted'
      BY <2>1, <2>2 DEF Counted
    <2> QED
      BY <1>04, <1>05, <2>1, <2>2, <2>3, QuietCount
  <1> QED
    BY <1>1, <1>2, <1>3, <1>4, <1>5, <1>6, <1>8, <1>9, <1>10, <1>11 DEF Next, Sweep, RunNext

\* A COMPLETED job counts at least as many failures and duplicates as there are valid
\* rows it did not import, whichever errors were swallowed and wherever it was killed.
THEOREM UnlandedRowsAreCounted == ~ Graceful => (Spec => []UnlandedAreCounted)
  <1> SUFFICES ASSUME ~ Graceful PROVE Spec => []UnlandedAreCounted
    OBVIOUS
  <1>1. Init => StatusInv /\ AccountInv /\ CountInv
    <2> SUFFICES ASSUME Init PROVE StatusInv /\ AccountInv /\ CountInv
      OBVIOUS
    <2>1. StatusInv /\ AccountInv
      BY DEF Init, StatusInv, AccountInv, CompletedAccounts, IdleRun, IdleFlush, NoJob, Flushes
    <2>2. /\ run.pc = "idle" /\ DOMAIN cands = {} /\ job.status = "NONE" /\ job.lastRow = 0
          /\ job.created = 0 /\ job.updated = 0 /\ flush["main"] = IdleFlush
      BY DEF Init, IdleRun, NoJob, Flushes
    <2>3. RowKeys /\ RunCount
      BY <2>2 DEF RowKeys, RunCount, Active, IdleFlush
    <2>4. JobCount
      <3>1. Cardinality({r \in Rows : r <= job.lastRow /\ Landed(r)}) \in Nat
        BY RowsFinite
      <3> QED
        BY <2>2, <3>1 DEF JobCount
    <2> QED
      BY <2>1, <2>3, <2>4 DEF CountInv
  <1>2. TypeOK /\ WhereInv /\ StatusInv /\ AccountInv /\ CountInv /\ [Next]_vars
            => StatusInv' /\ AccountInv' /\ CountInv'
    BY StatusStep, AccountStep, CountStep
  <1>3. TypeOK /\ AccountInv /\ CountInv => UnlandedAreCounted
    <2> SUFFICES ASSUME TypeOK, AccountInv, CountInv, job.status = "COMPLETED"
                 PROVE  Cardinality({r \in Rows : Valid(r) /\ ~ Landed(r)}) <= job.failed + job.dups
      BY DEF UnlandedAreCounted
    <2> DEFINE all  == {r \in Rows : Landed(r)}
               lost == {r \in Rows : Valid(r) /\ ~ Landed(r)}
    <2>1. job.created + job.updated <= Cardinality(all)
      BY DEF CountInv, JobCount
    <2>2. Accounted(job) = NRows
      BY DEF AccountInv, CompletedAccounts
    <2>3. all \subseteq Rows /\ lost \subseteq Rows /\ all \cap lost = {}
      OBVIOUS
    <2> HIDE DEF all, lost
    <2>4. /\ IsFiniteSet(all) /\ Cardinality(all) \in Nat
          /\ IsFiniteSet(lost) /\ Cardinality(lost) \in Nat
          /\ Cardinality(all \cup lost) <= Cardinality(Rows)
      BY <2>3, RowsFinite
    <2>5. Cardinality(all \cup lost) = Cardinality(all) + Cardinality(lost)
      <3>1. Cardinality(all \cup lost)
                = Cardinality(all) + Cardinality(lost) - Cardinality(all \cap lost)
        BY <2>4, FS_Union
      <3>2. Cardinality(all \cap lost) = 0
        BY <2>3, FS_EmptySet
      <3> QED
        BY <2>4, <3>1, <3>2
    <2>6. Cardinality(Rows) = NRows /\ NRows \in Nat
      BY RowsAssumption, FS_Interval DEF Rows
    <2>7. /\ job.created \in Nat /\ job.updated \in Nat
          /\ job.failed \in Nat /\ job.dups \in Nat
      BY DEF TypeOK, JobRecord
    <2>8. job.created + job.updated + job.dups + job.failed = NRows
      BY <2>2 DEF Accounted
    <2>9. Cardinality(lost) <= job.failed + job.dups
      BY <2>1, <2>4, <2>5, <2>6, <2>7, <2>8
    <2> QED
      BY <2>9 DEF lost
  <1> QED
    BY <1>1, <1>2, <1>3, WhereAlways, TypeCorrect, PTL DEF Spec
=============================================================================
