----------------------- MODULE ImportResumptionProofs -----------------------
(***************************************************************************)
(* What a resumption of ImportPipeline owes to the checkpoint, for every   *)
(* file, batch size and number of crashes.  On a host that sends no        *)
(* SIGTERM, whatever database errors are swallowed, the checkpoint never   *)
(* moves back.  With crashes only, it covers what is below it, nothing     *)
(* below it is written again, a completed job is complete, the ids         *)
(* recorded for an undo are the records counted, and the pipeline          *)
(* implements ImportContract.                                              *)
(***************************************************************************)
EXTENDS ImportPipelineProofs, FiniteSetTheorems

-----------------------------------------------------------------------------
(* The position of a run, for a host that does not send SIGTERM; whatever  *)
(* database errors the code swallows.                                      *)

WhereInv == NoAbort /\ manager = "idle" /\ FlushInv /\ PositionInv

LEMMA Invalidity == \A r \in Rows : Valid(r) <=> file[r] # Invalid
  BY DEF Valid

\* What a flush starts with.
LEMMA BatchFlushed ==
  ASSUME NEW rows \in SUBSET Rows, rows # {}
  PROVE  /\ FlushOf(rows).phase = "insert" /\ FlushOf(rows).todo = rows
         /\ FlushOf(rows).last \in rows
         /\ FlushOf(rows).failed = 0 /\ FlushOf(rows).created = 0
         /\ FlushOf(rows).isolated = FALSE /\ FlushOf(rows).ids = {}
  <1>1. /\ FlushOf(rows).failed = 0 /\ FlushOf(rows).created = 0
        /\ FlushOf(rows).isolated = FALSE /\ FlushOf(rows).ids = {}
    BY DEF FlushOf, IdleFlush
  <1> QED
    BY <1>1, FlushOfBatch

\* What SaveRecord does to the flush that calls it.
LEMMA SavedFlush ==
  ASSUME TypeOK, NEW f \in Flushes, NEW r \in Rows, NEW e \in Nat, SaveRecord(f, r, e)
  PROVE  /\ flush'[f].phase = flush[f].phase /\ flush'[f].todo = flush[f].todo \ {r}
         /\ flush'[f].last = flush[f].last
         /\ \A g \in Flushes \ {f} : flush'[g] = flush[g]
  <1>1. flush \in [Flushes -> FlushRecord]
    BY DEF TypeOK
  <1>2. CASE \E i \in Existing(r) :
               flush' = [flush EXCEPT ![f].todo = @ \ {r}, ![f].updated = @ + 1,
                                      ![f].failed = @ + e]
    BY <1>1, <1>2 DEF FlushRecord
  <1>3. CASE flush' = [flush EXCEPT ![f].todo = @ \ {r}, ![f].created = @ + 1,
                             ![f].failed = @ + e, ![f].ids = @ \cup {Len(cands) + 1}]
    BY <1>1, <1>3 DEF FlushRecord
  <1> QED
    BY <1>2, <1>3 DEF SaveRecord

\* A step of a flush, and what it leaves alone.
LEMMA FlushStep ==
  ASSUME TypeOK, NEW f \in Flushes, FlushNext(f)
  PROVE  /\ UNCHANGED <<file, process>>
         /\ flush[f].phase # "idle" /\ \A g \in Flushes \ {f} : flush'[g] = flush[g]
         /\ run'.pos = run.pos /\ run'.start = run.start /\ run'.batch = run.batch
         /\ run'.seen = run.seen /\ run'.stripped = run.stripped
         /\ run'.aborting = run.aborting
         /\ \/ /\ flush'[f].phase \in {flush[f].phase, "checkpoint"}
               /\ flush'[f].phase # flush[f].phase => flush[f].todo = {}
               /\ flush'[f].todo \subseteq flush[f].todo
               /\ flush'[f].last = flush[f].last /\ job' = job
               /\ run'.pc = run.pc
            \/ /\ flush[f].phase = "checkpoint" /\ flush'[f] = IdleFlush
               /\ job'.lastRow \in {job.lastRow, flush[f].last}
               /\ run'.pc = IF f = "main" /\ run.pc = "flushing" THEN "reading" ELSE run.pc
               /\ job'.status = job.status
  <1> USE DEF TypeOK
  <1>0. flush[f] \in FlushRecord /\ run \in RunRecord
    OBVIOUS
  <1>1. CASE InsertRow(f)
    <2>1. PICK r \in Rows : Inserting(f, r) /\ SaveRecord(f, r, 0)
      BY <1>1 DEF InsertRow
    <2> QED
      BY <1>1, <2>1, SavedFlush DEF InsertRow, Inserting, RunRecord
  <1>2. CASE InsertRowFails(f)
    <2>1. PICK r \in Rows :
              /\ Inserting(f, r)
              /\ flush' = [flush EXCEPT ![f].todo = @ \ {r},
                                     ![f].failed = IF flush[f].isolated THEN @ ELSE @ + 1]
      BY <1>2 DEF InsertRowFails
    <2> QED
      BY <1>0, <1>2, <2>1 DEF InsertRowFails, Inserting, RunRecord, FlushRecord
  <1>3. CASE LinkFails(f)
    <2>1. PICK r \in Rows : Inserting(f, r) /\ SaveRecord(f, r, 1)
      BY <1>3 DEF LinkFails
    <2> QED
      BY <1>3, <2>1, SavedFlush DEF LinkFails, Inserting
  <1>4. CASE BatchThrows(f)
    BY <1>0, <1>4 DEF BatchThrows, RunRecord, FlushRecord
  <1>5. CASE BatchReturns(f)
    BY <1>0, <1>5 DEF BatchReturns, RunRecord, FlushRecord
  <1>6. CASE WriteCheckpoint(f)
    BY <1>0, <1>6 DEF WriteCheckpoint, FlushReturns, Checkpointed, JobRecord, RunRecord, FlushRecord
  <1>7. CASE CheckpointLost(f)
    BY <1>0, <1>7 DEF CheckpointLost, FlushReturns, RunRecord, FlushRecord
  <1> QED
    BY <1>1, <1>2, <1>3, <1>4, <1>5, <1>6, <1>7 DEF FlushNext

\* Steps that leave the checkpoint alone, and no flush is on its way.
LEMMA QuietWhere ==
  ASSUME TypeOK, WhereInv, UNCHANGED flush, manager' = manager, server' = server,
         job'.lastRow = job.lastRow, job'.status = job.status \/ job'.status # "NONE",
         flush["main"].phase = "idle", run'.pc # "flushing", run'.aborting = run.aborting,
         \/ run'.pc \in {"idle", "opening"}
         \/ /\ run.pc \notin {"idle", "opening"}
            /\ run'.batch = run.batch /\ run'.start = run.start
            /\ run'.pc \in {"closing", "marking", "leaving"} =>
                  run.batch = {} /\ run.pos > NRows
            /\ \/ run'.pos = run.pos /\ run'.pc # "row"
               \/ run'.pos = run.pos /\ run.start < run.pos /\ run.pos <= NRows
               \/ run'.pos = run.pos + 1 /\ run'.pc # "row"
                  /\ run'.pc \notin {"closing", "marking", "leaving"}
                  /\ (run.pc = "row" \/ run.pos <= run.start),
         file' = file
  PROVE  WhereInv'
  <1> USE DEF WhereInv, TypeOK
  <1>1. NoAbort' /\ manager' = "idle"
    BY DEF NoAbort
  <1>2. FlushInv'
    BY DEF FlushInv
  <1>3. CASE run'.pc \in {"idle", "opening"}
    BY <1>1, <1>2, <1>3 DEF PositionInv, Active
  <1>4. CASE run'.pc \notin {"idle", "opening"}
    <2>0. job'.status # "NONE"
      BY <1>4 DEF PositionInv, Active
    <2>1. Pending' = Pending /\ Pending \subseteq Rows
      BY <1>4 DEF Pending, RunRecord, FlushRecord, Flushes
    <2>2. run.pos \in Nat /\ run.start \in Nat /\ job.lastRow \in Nat
      BY DEF RunRecord, JobRecord
    <2>3. \A r \in Rows : r \in Nat /\ Valid(r)' = Valid(r)
      BY DEF Rows, Valid
    <2>4. run.start <= job.lastRow /\ (job.lastRow < run.pos \/ job.lastRow = run.start)
      BY <1>4 DEF PositionInv, Active
    <2>5. (run.pc = "row" => run.start < run.pos) /\ \A r \in Pending : job.lastRow < r /\ r < run.pos /\ Valid(r)
      BY <1>4 DEF PositionInv, Active
    <2>6. \A r \in Pending' : job'.lastRow < r /\ r < run'.pos /\ Valid(r)'
      BY <1>4, <2>1, <2>2, <2>3, <2>5
    <2>7. job'.lastRow < run'.pos \/ job'.lastRow = run'.start
      BY <1>4, <2>2, <2>4
    <2>8. run'.pc = "row" => run'.start < run'.pos /\ run'.pos <= NRows
      BY <1>4, <2>2
    <2>9. PositionInv'
      BY <1>4, <2>0, <2>4, <2>6, <2>7, <2>8 DEF PositionInv, Active
    <2> QED
      BY <1>1, <1>2, <2>9
  <1> QED
    BY <1>3, <1>4

\* A run that throws leaves a flush behind, as it is.
LEMMA ThrownWhere ==
  ASSUME TypeOK, WhereInv, UNCHANGED <<process, flush, file>>, job'.lastRow = job.lastRow,
         job'.status # "NONE", run.pc = "flushing", run'.pc = "idle",
         run'.batch = run.batch, run'.start = run.start, run'.pos = run.pos,
         run'.aborting = run.aborting
  PROVE  WhereInv'
  <1> USE DEF WhereInv
  <1>1. NoAbort' /\ manager' = "idle"
    BY DEF NoAbort, process
  <1>2. FlushInv'
    BY DEF FlushInv
  <1>3. Active /\ Pending' = Pending /\ \A r \in Rows : Valid(r)' = Valid(r)
    BY DEF Active, Pending, Valid
  <1>4. Pending \subseteq Rows
    BY DEF Pending, TypeOK, RunRecord, FlushRecord, Flushes
  <1>5. PositionInv'
    BY <1>3, <1>4 DEF PositionInv
  <1> QED
    BY <1>1, <1>2, <1>5

\* A batch of rows above the checkpoint goes to its flush.
LEMMA FlushWhere ==
  ASSUME TypeOK, WhereInv, UNCHANGED <<process, file>>, job'.lastRow = job.lastRow,
         run.pc \in {"reading", "row"}, run'.pc = "flushing",
         run'.batch = {}, run'.start = run.start, run'.aborting = run.aborting,
         run'.pos \in Nat, run'.pos >= run.pos,
         NEW rows \in SUBSET Rows, rows # {},
         \A r \in rows : job.lastRow < r /\ r < run'.pos /\ Valid(r),
         job'.status = job.status,
         flush' = [flush EXCEPT !["main"] = FlushOf(rows)]
  PROVE  WhereInv'
  <1> USE DEF WhereInv, TypeOK
  <1>1. /\ flush'["main"] = FlushOf(rows) /\ flush'["abort"] = flush["abort"]
    BY DEF Flushes
  <1>2. NoAbort' /\ manager' = "idle"
    BY <1>1 DEF NoAbort, process
  <1>3. FlushOf(rows).phase = "insert" /\ FlushOf(rows).todo = rows /\ FlushOf(rows).last \in rows
    BY BatchFlushed
  <1>4. FlushInv'
    BY <1>1, <1>3 DEF FlushInv
  <1>5. Pending' = rows
    BY <1>1, <1>3 DEF Pending
  <1>6. run.pos \in Nat /\ run.start \in Nat /\ job.lastRow \in Nat /\ Active /\ Active'
    BY DEF RunRecord, JobRecord, Active
  <1>7. \A r \in rows : Valid(r)' = Valid(r)
    BY DEF Valid
  <1>8. run.start <= job.lastRow /\ (job.lastRow < run.pos \/ job.lastRow = run.start)
        /\ job'.status # "NONE"
    BY <1>6 DEF PositionInv
  <1>9. job'.lastRow < run'.pos \/ job'.lastRow = run'.start
    BY <1>6, <1>8
  <1>10. PositionInv'
    BY <1>5, <1>7, <1>8, <1>9 DEF PositionInv
  <1> QED
    BY <1>2, <1>4, <1>10

\* The steps of a run's only flush.
LEMMA FlushNextWhere ==
  ASSUME TypeOK, WhereInv, NEW f \in Flushes, FlushNext(f)
  PROVE  f = "main" /\ WhereInv'
  <1> USE DEF WhereInv, TypeOK
  <1>1. f = "main"
    BY FlushStep DEF NoAbort, IdleFlush, Flushes
  <1>2. NoAbort' /\ manager' = "idle"
    BY <1>1, FlushStep DEF NoAbort, process, Flushes
  <1>3. run.pc \in {"flushing", "idle"} /\ run.batch = {} /\ flush["main"].last < run.pos
        /\ job.lastRow < flush["main"].last
    BY <1>1, FlushStep DEF FlushInv
  <1>4. run.pos \in Nat /\ run.start \in Nat /\ job.lastRow \in Nat /\ flush["main"].last \in Nat
    <2>1. run \in RunRecord /\ job \in JobRecord /\ flush["main"] \in FlushRecord
      BY DEF Flushes
    <2> HIDE DEF TypeOK, WhereInv
    <2> QED
      BY <2>1, RowsAssumption DEF RunRecord, JobRecord, FlushRecord
  <1>5. /\ run.start <= job.lastRow /\ (job.lastRow < run.pos \/ job.lastRow = run.start)
        /\ \A r \in Pending : job.lastRow < r /\ r < run.pos /\ Valid(r)
        /\ job.status # "NONE"
    BY <1>1, FlushStep DEF PositionInv, Active
  <1>6. Pending = flush["main"].todo /\ Pending \subseteq Rows
    BY <1>3 DEF Pending, FlushRecord, Flushes
  <1>7. CASE /\ flush'[f].phase \in {flush[f].phase, "checkpoint"}
             /\ flush'[f].phase # flush[f].phase => flush[f].todo = {}
             /\ flush'[f].todo \subseteq flush[f].todo
             /\ flush'[f].last = flush[f].last /\ job' = job
             /\ run'.pc = run.pc
    <2>1. run'.pos = run.pos /\ run'.start = run.start /\ run'.batch = run.batch /\ file' = file
      BY FlushStep
    <2>2. flush[f].phase # "idle"
      BY FlushStep
    <2>3. FlushInv'
      BY <1>1, <1>3, <1>7, <2>1, <2>2 DEF FlushInv
    <2>4. Pending' \subseteq Pending
      BY <1>1, <1>6, <1>7, <2>1 DEF Pending
    <2>5. \A r \in Pending' : job'.lastRow < r /\ r < run'.pos /\ Valid(r)'
      BY <1>5, <1>7, <2>1, <2>4 DEF Valid
    <2> HIDE DEF WhereInv, TypeOK
    <2>6. /\ job'.status # "NONE" /\ run'.start <= job'.lastRow
          /\ job'.lastRow < run'.pos \/ job'.lastRow = run'.start
          /\ run'.pc # "row"
      BY <1>3, <1>5, <1>7, <2>1
    <2>7. PositionInv'
      BY <2>5, <2>6 DEF PositionInv
    <2> QED
      BY <1>1, <1>2, <2>3, <2>7 DEF WhereInv
  <1>8. CASE /\ flush[f].phase = "checkpoint" /\ flush'[f] = IdleFlush
             /\ job'.lastRow \in {job.lastRow, flush[f].last}
             /\ run'.pc = IF f = "main" /\ run.pc = "flushing" THEN "reading" ELSE run.pc
             /\ job'.status = job.status
    <2>1. run'.pos = run.pos /\ run'.start = run.start /\ run'.batch = run.batch /\ file' = file
      BY FlushStep
    <2>2. flush'["main"].phase = "idle" /\ flush'["main"].todo = {}
          /\ run'.pc \in {"reading", "idle"}
      BY <1>1, <1>3, <1>8 DEF IdleFlush
    <2>3. FlushInv'
      BY <2>2 DEF FlushInv
    <2>4. Pending' = {}
      BY <1>3, <2>1, <2>2 DEF Pending
    <2>5. job'.lastRow < run'.pos \/ job'.lastRow = run'.start
      BY <1>1, <1>3, <1>4, <1>5, <1>8, <2>1
    <2>6. run'.start <= job'.lastRow
      BY <1>1, <1>3, <1>4, <1>5, <1>8, <2>1
    <2> HIDE DEF WhereInv, TypeOK
    <2>8. job'.status # "NONE" /\ run'.pc # "row"
      BY <1>5, <1>8, <2>2
    <2>7. PositionInv'
      BY <2>4, <2>5, <2>6, <2>8 DEF PositionInv
    <2> QED
      BY <1>1, <1>2, <2>3, <2>7 DEF WhereInv
  <1> QED
    BY <1>7, <1>8, FlushStep

LEMMA WhereStep ==
  ASSUME TypeOK, WhereInv, ~ Graceful, [Next]_vars
  PROVE  WhereInv'
  <1> USE DEF TypeOK
  <1>0. run \in RunRecord /\ flush \in [Flushes -> FlushRecord]
    OBVIOUS
  <1>01. /\ ~ run.aborting /\ server # "draining" /\ manager # "pending"
         /\ run.pc = "flushing" => flush["main"].phase # "idle"
         /\ flush["main"].phase # "idle" => run.pc \in {"flushing", "idle"}
    BY DEF WhereInv, NoAbort, FlushInv
  <1>04. Active => job.status # "NONE"
    BY DEF WhereInv, PositionInv
  <1>02. run.pc \in {"reading", "row", "closing", "marking", "leaving"} =>
            flush["main"].todo = {} /\ Pending = run.batch
    BY <1>01 DEF WhereInv, FlushInv, Pending
  <1>03. /\ run.batch \in SUBSET Rows /\ run.pos \in Nat /\ run.start \in Nat
         /\ run.aborting \in BOOLEAN
    BY <1>0 DEF RunRecord
  <1>1. CASE Upload
    <2>1. run'.pc = "opening" /\ run'.aborting = run.aborting
      BY <1>1, <1>0 DEF Upload, RunRecord
    <2>2. flush["main"].phase = "idle"
      BY <1>1, <1>04 DEF Upload, Active
    <2> QED
      BY <1>1, <2>1, <2>2, QuietWhere DEF Upload, process
  <1>2. CASE Resume
    <2>1. run'.pc = "opening" /\ run'.aborting = run.aborting
          /\ job'.lastRow = job.lastRow /\ job'.status = job.status
      BY <1>2, <1>0 DEF Resume, RunRecord, JobRecord
    <2>2. flush["main"].phase = "idle"
      BY <1>2 DEF Resume, Busy, Flushes
    <2> QED
      BY <1>2, <2>1, <2>2, QuietWhere DEF Resume
  <1>3. CASE Open \/ OpenBlind
    <2>1. /\ run'.pc = "reading" /\ run'.start = job.lastRow /\ run'.batch = {}
          /\ run'.pos = 1 /\ run'.aborting = FALSE /\ job'.lastRow = job.lastRow
          /\ job'.status # "NONE"
      BY <1>3 DEF Open, OpenBlind, IdleRun, JobRecord
    <2>2. UNCHANGED <<file, process, flush>> /\ run.pc = "opening"
      BY <1>3 DEF Open, OpenBlind
    <2>3. flush["main"].phase = "idle" /\ flush["main"].todo = {}
      BY <1>01, <2>2 DEF WhereInv, FlushInv
    <2>4. NoAbort' /\ manager' = "idle" /\ FlushInv'
      BY <2>1, <2>2, <2>3 DEF NoAbort, WhereInv, process, FlushInv
    <2>5. Pending' = {} /\ job.lastRow \in Nat
      BY <2>1, <2>2, <2>3 DEF Pending, JobRecord
    <2>6. PositionInv'
      BY <2>1, <2>5 DEF PositionInv
    <2> QED
      BY <2>4, <2>6 DEF WhereInv
  <1>4. CASE ReadRow
    <2>1. \/ run' = [run EXCEPT !.processed = @ + 1, !.pos = @ + 1] /\ run.pos <= run.start
          \/ run' = [run EXCEPT !.processed = @ + 1, !.pc = "row"] /\ ~ (run.pos <= run.start)
      BY <1>4, <1>01 DEF ReadRow
    <2>2. /\ run'.batch = run.batch /\ run'.start = run.start /\ run'.aborting = run.aborting
          /\ \/ run'.pos = run.pos + 1 /\ run'.pc = "reading" /\ run.pos <= run.start
             \/ run'.pos = run.pos /\ run'.pc = "row" /\ run.start < run.pos
      <3>1. CASE run' = [run EXCEPT !.processed = @ + 1, !.pos = @ + 1] /\ run.pos <= run.start
        BY <1>4, <3>1, <1>0 DEF ReadRow, RunRecord
      <3>2. CASE run' = [run EXCEPT !.processed = @ + 1, !.pc = "row"] /\ ~ (run.pos <= run.start)
        <4>1. run.start < run.pos
          BY <1>03, <3>2
        <4> QED
          BY <4>1, <3>2, <1>0 DEF RunRecord
      <3> QED
        BY <2>1, <3>1, <3>2
    <2>3. UNCHANGED <<process, flush, file, job>> /\ run.pc = "reading" /\ run.pos <= NRows
      BY <1>4 DEF ReadRow
    <2>4. flush["main"].phase = "idle"
      BY <1>01, <2>3
    <2> QED
      BY <2>2, <2>3, <2>4, QuietWhere DEF process
  <1>5. CASE RejectRow \/ RowThrows \/ SkipDuplicate
    <2>1. /\ run'.batch = run.batch /\ run'.start = run.start /\ run'.aborting = run.aborting
          /\ run'.pos = run.pos + 1 /\ run'.pc = "reading" /\ run.pc = "row"
          /\ UNCHANGED <<process, flush, file, job>>
      BY <1>5, <1>0 DEF RejectRow, RowThrows, SkipDuplicate, NextRow, RunRecord
    <2>2. flush["main"].phase = "idle"
      BY <1>01, <2>1
    <2> QED
      BY <2>1, <2>2, QuietWhere DEF process
  <1>6. CASE CloseRun \/ Leave
    <2>1. /\ run'.batch = run.batch /\ run'.start = run.start /\ run'.aborting = run.aborting
          /\ run'.pos = run.pos
          /\ \/ run.pc = "closing" /\ run'.pc = "marking"
             \/ run.pc = "leaving" /\ run'.pc = "idle"
          /\ UNCHANGED <<process, flush, file, job>>
      <3>1. CASE CloseRun
        BY <3>1, <1>0 DEF CloseRun, RunRecord
      <3>2. CASE Leave
        BY <3>2, <1>0 DEF Leave, RunRecord
      <3> QED
        BY <1>6, <3>1, <3>2
    <2>2. run.batch = {} /\ run.pos > NRows /\ flush["main"].phase = "idle"
      BY <1>01, <2>1 DEF WhereInv, FlushInv
    <2> QED
      BY <2>1, <2>2, QuietWhere DEF process
  <1>7. CASE FailRun \/ MarkRun \/ MarkLost
    <2>1. /\ run'.batch = run.batch /\ run'.start = run.start /\ run'.aborting = run.aborting
          /\ run'.pos = run.pos
          /\ \/ run.pc \in {"reading", "flushing", "closing"} /\ run'.pc = "idle"
             \/ run.pc = "marking" /\ run'.pc = "leaving"
      BY <1>7, <1>0 DEF FailRun, Throws, MarkRun, MarkLost, RunRecord
    <2>2. UNCHANGED <<process, flush, file>> /\ job'.lastRow = job.lastRow
      BY <1>7 DEF FailRun, MarkRun, MarkLost, Counters, JobRecord
    <2>3. job'.status # "NONE"
      <3>1. job.status # "NONE"
        BY <1>04, <2>1 DEF Active
      <3> QED
        BY <1>7, <3>1 DEF FailRun, MarkRun, MarkLost, Counters, JobRecord, FailedStatus, EndStatus
    <2>4. CASE run.pc = "flushing"
      BY <2>1, <2>2, <2>3, <2>4, ThrownWhere
    <2>5. CASE run.pc # "flushing"
      <3>1. run.pc = "marking" => run.batch = {} /\ run.pos > NRows
        BY DEF WhereInv, FlushInv
      <3>2. flush["main"].phase = "idle"
        BY <1>01, <2>1, <2>5
      <3> QED
        BY <2>1, <2>2, <2>3, <2>5, <3>1, <3>2, QuietWhere DEF process
    <2> QED
      BY <2>4, <2>5
  <1>8. CASE \E f \in Flushes : FlushNext(f)
    BY <1>8, FlushNextWhere
  <1>9. CASE ManagerMarks \/ ManagerFails \/ Shutdown
    BY <1>9, <1>01 DEF ManagerMarks, ManagerFails, Shutdown
  <1>91. CASE SweepFindsNothing \/ ResumeRefused
    BY <1>91 DEF SweepFindsNothing, ResumeRefused, WhereInv, NoAbort, FlushInv, PositionInv,
       Active, Pending, Valid
  <1>10. CASE ProcessEnds
    <2>1. run' = IdleRun /\ flush' = [f \in Flushes |-> IdleFlush] /\ server' = "down" /\ manager' = "idle"
      BY <1>10 DEF ProcessEnds
    <2>2. NoAbort' /\ FlushInv' /\ PositionInv'
      BY <2>1 DEF NoAbort, FlushInv, PositionInv, Active, IdleRun, IdleFlush, Flushes
    <2> QED
      BY <2>1, <2>2 DEF WhereInv
  <1>11. CASE Restart
    BY <1>11 DEF Restart, WhereInv, NoAbort, FlushInv, PositionInv, Active, Pending, Valid
  <1>12. CASE UNCHANGED vars
    BY <1>12 DEF vars, process, WhereInv, NoAbort, FlushInv, PositionInv, Active, Pending, Valid
  <1>13. CASE BatchRow \/ DuplicateCheckFails
    <2>1. run.pc = "row" /\ run.pos \in Rows /\ Valid(run.pos) /\ flush["main"].phase = "idle"
          /\ job.status # "NONE"
      BY <1>01, <1>04, <1>13 DEF BatchRow, DuplicateCheckFails, Valid, Active
    <2>2. /\ run.start < run.pos /\ run.start <= job.lastRow
          /\ job.lastRow < run.pos \/ job.lastRow = run.start
          /\ \A r \in run.batch : job.lastRow < r /\ r < run.pos /\ Valid(r)
      BY <1>02, <2>1 DEF WhereInv, PositionInv, Active
    <2>3. job.lastRow \in Nat /\ job.lastRow < run.pos
      BY <1>03, <2>2 DEF JobRecord
    <2> DEFINE rows == run.batch \cup {run.pos}
    <2>4. rows \in SUBSET Rows /\ rows # {}
          /\ \A r \in rows : job.lastRow < r /\ r < run.pos + 1 /\ Valid(r)
      <3>1. \A r \in rows : r \in Nat
        BY <1>03, <2>1 DEF Rows
      <3> QED
        BY <1>03, <2>1, <2>2, <2>3, <3>1
    <2>5. UNCHANGED <<file, process, job>>
      BY <1>13 DEF BatchRow, DuplicateCheckFails
    <2>6. \/ /\ run'.pc = "flushing" /\ run'.pos = run.pos + 1 /\ run'.batch = {}
             /\ run'.start = run.start /\ run'.aborting = run.aborting
             /\ flush' = [flush EXCEPT !["main"] = FlushOf(rows)]
          \/ /\ run'.pc = "reading" /\ run'.pos = run.pos + 1 /\ run'.batch = rows
             /\ run'.start = run.start /\ run'.aborting = run.aborting
             /\ UNCHANGED flush
      BY <1>13, <1>0 DEF BatchRow, DuplicateCheckFails, Batched, NextRow, RunRecord
    <2>7. CASE run'.pc = "flushing"
      <3> HIDE DEF rows
      <3>1. run'.pos \in Nat /\ run'.pos >= run.pos
        BY <1>03, <2>6, <2>7
      <3> QED
        BY <2>1, <2>4, <2>5, <2>6, <2>7, <3>1, FlushWhere
    <2>8. CASE run'.pc = "reading"
      <3>1. NoAbort' /\ manager' = "idle"
        BY <2>5, <2>6, <2>8 DEF WhereInv, NoAbort, process
      <3>2. FlushInv'
        BY <1>01, <1>02, <2>1, <2>6, <2>8 DEF FlushInv
      <3>3. Pending' = rows
        BY <1>02, <2>1, <2>6, <2>8 DEF Pending
      <3>4. \A r \in rows : Valid(r)' = Valid(r)
        BY <2>5 DEF Valid
      <3>5. job'.lastRow < run'.pos
        BY <1>03, <2>3, <2>5, <2>6
      <3>6. PositionInv'
        BY <2>1, <2>2, <2>4, <2>5, <2>6, <2>8, <3>3, <3>4, <3>5 DEF PositionInv
      <3> QED
        BY <3>1, <3>2, <3>6 DEF WhereInv
    <2> QED
      BY <2>6, <2>7, <2>8
  <1>14. CASE EndOfFile
    <2>1. run.pc = "reading" /\ run.pos > NRows /\ UNCHANGED <<file, process, job>>
      BY <1>14 DEF EndOfFile
    <2>2. CASE run.batch = {}
      <3>1. /\ run'.pc = "closing" /\ run'.batch = run.batch /\ run'.start = run.start
            /\ run'.aborting = run.aborting /\ run'.pos = run.pos /\ UNCHANGED flush
        BY <1>14, <1>0, <2>2 DEF EndOfFile, RunRecord
      <3>2. flush["main"].phase = "idle"
        BY <1>01, <2>1
      <3> QED
        BY <2>1, <2>2, <3>1, <3>2, QuietWhere DEF process
    <2>3. CASE run.batch # {}
      <3>1. /\ run'.pc = "flushing" /\ run'.batch = {} /\ run'.start = run.start
            /\ run'.aborting = run.aborting /\ run'.pos = run.pos
            /\ flush' = [flush EXCEPT !["main"] = FlushOf(run.batch)]
        BY <1>14, <1>0, <2>3 DEF EndOfFile, RunRecord
      <3>2. \A r \in run.batch : job.lastRow < r /\ r < run'.pos /\ Valid(r)
        BY <1>02, <2>1, <3>1 DEF WhereInv, PositionInv, Active
      <3>3. run'.pos \in Nat /\ run'.pos >= run.pos
        BY <1>03, <3>1
      <3>4. job'.lastRow = job.lastRow /\ run.batch \in SUBSET Rows
        BY <1>03, <2>1
      <3> QED
        BY <2>1, <2>3, <3>1, <3>2, <3>3, <3>4, FlushWhere
    <2> QED
      BY <2>2, <2>3
  <1> QED
    BY <1>1, <1>2, <1>3, <1>4, <1>5, <1>6, <1>7, <1>8, <1>9, <1>91, <1>10, <1>11, <1>12,
       <1>13, <1>14
       DEF Next, Sweep, RunNext

LEMMA InitWhere == Init => WhereInv
  BY DEF Init, WhereInv, NoAbort, FlushInv, PositionInv, Active, IdleRun, IdleFlush, Flushes

LEMMA WhereAlways == ~ Graceful => (Spec => []WhereInv)
  <1> SUFFICES ASSUME ~ Graceful PROVE Spec => []WhereInv
    OBVIOUS
  <1>1. TypeOK /\ WhereInv /\ [Next]_vars => WhereInv'
    BY WhereStep
  <1> QED
    BY <1>1, InitWhere, TypeCorrect, PTL DEF Spec

\* A resumption, and every flush of every run, moves the checkpoint forward, on a host
\* that stops processes without SIGTERM, whatever errors are swallowed.
THEOREM CheckpointsAdvance == ~ Graceful => (Spec => CheckpointNeverRetreats)
  <1> SUFFICES ASSUME ~ Graceful PROVE Spec => CheckpointNeverRetreats
    OBVIOUS
  <1>1. ASSUME TypeOK, WhereInv, [Next]_vars PROVE [job'.lastRow >= job.lastRow]_job
    <2> USE DEF TypeOK
    <2>1. job.lastRow \in Nat
      BY <1>1 DEF JobRecord
    <2>2. CASE \E f \in Flushes : FlushNext(f)
      <3>1. PICK f \in Flushes : FlushNext(f)
        BY <2>2
      <3>2. f = "main"
        BY <1>1, <3>1, FlushNextWhere
      <3>3. job'.lastRow \in {job.lastRow, flush["main"].last} /\ flush["main"].phase # "idle"
        BY <1>1, <3>1, <3>2, FlushStep
      <3>4. job.lastRow < flush["main"].last /\ flush["main"].last \in Nat
        BY <1>1, <3>3 DEF WhereInv, FlushInv, FlushRecord, Flushes
      <3> QED
        BY <2>1, <3>3, <3>4
    <2>3. CASE ~ \E f \in Flushes : FlushNext(f)
      <3>1. job'.lastRow = job.lastRow
        BY <1>1, <2>3 DEF Next, Sweep, RunNext, Upload, Resume, SweepFindsNothing,
           ResumeRefused, Open, OpenBlind, ReadRow, RejectRow, RowThrows, SkipDuplicate,
           BatchRow, DuplicateCheckFails, EndOfFile, CloseRun, FailRun, MarkRun, MarkLost, Leave,
           Shutdown, ManagerMarks, ManagerFails, ProcessEnds, Restart, Counters, JobRecord, vars
      <3> QED
        BY <2>1, <3>1
    <2> QED
      BY <2>2, <2>3
  <1> QED
    BY <1>1, WhereAlways, TypeCorrect, PTL DEF CheckpointNeverRetreats, Spec

-----------------------------------------------------------------------------
(* The records, and what a write does to them.                             *)

RowsValid == \A i \in DOMAIN cands : Valid(cands[i].row)

LEMMA SameLanded ==
  ASSUME UNCHANGED <<file, cands>>, job'.flowType = job.flowType
  PROVE  /\ \A q \in Rows : (Landed(q)' <=> Landed(q)) /\ (Valid(q)' <=> Valid(q))
         /\ (Flow = "candidates")' <=> Flow = "candidates"
         /\ RowsValid => RowsValid'
  BY DEF Landed, Valid, Flow, RowsValid

\* The records after a write: one of them has another row, or there is one more.
LEMMA SavedRecords ==
  ASSUME TypeOK, NEW f \in Flushes, NEW r \in Rows, NEW e \in Nat, SaveRecord(f, r, e)
  PROVE  \/ \E i \in Existing(r) :
               /\ DOMAIN cands' = DOMAIN cands
               /\ \A j \in DOMAIN cands : cands'[j].key = cands[j].key
               /\ \A j \in DOMAIN cands \ {i} : cands'[j] = cands[j]
               /\ cands'[i].row = r
         \/ \E i \in Nat :
               /\ Existing(r) = {} /\ (\A j \in DOMAIN cands : j < i /\ j \in Nat)
               /\ i \notin DOMAIN cands /\ DOMAIN cands' = DOMAIN cands \cup {i}
               /\ \A j \in DOMAIN cands : cands'[j] = cands[j]
               /\ cands'[i].row = r /\ cands'[i].key = IdentityOf(r)
  <1>0. cands \in Seq(CandRecord)
    BY DEF TypeOK
  <1>1. ASSUME NEW i \in Existing(r), cands' = [cands EXCEPT ![i].row = r]
        PROVE  /\ DOMAIN cands' = DOMAIN cands
               /\ \A j \in DOMAIN cands : cands'[j].key = cands[j].key
               /\ \A j \in DOMAIN cands \ {i} : cands'[j] = cands[j]
               /\ cands'[i].row = r
    <2>1. i \in DOMAIN cands
      BY DEF Existing
    <2>2. cands[i] \in CandRecord
      BY <1>0, <2>1
    <2>3. DOMAIN cands' = DOMAIN cands /\ \A j \in DOMAIN cands \ {i} : cands'[j] = cands[j]
      BY <1>0, <1>1
    <2>4. cands'[i] = [cands[i] EXCEPT !.row = r]
      BY <1>0, <1>1, <2>1
    <2>5. cands'[i].row = r /\ cands'[i].key = cands[i].key
      BY <2>2, <2>4 DEF CandRecord
    <2> QED
      BY <2>3, <2>5
  <1>2. ASSUME cands' = Append(cands, [key |-> IdentityOf(r), row |-> r])
        PROVE  LET i == Len(cands) + 1
               IN  /\ i \in Nat /\ (\A j \in DOMAIN cands : j < i /\ j \in Nat)
                   /\ i \notin DOMAIN cands /\ DOMAIN cands' = DOMAIN cands \cup {i}
                   /\ \A j \in DOMAIN cands : cands'[j] = cands[j]
                   /\ cands'[i].row = r /\ cands'[i].key = IdentityOf(r)
    <2> DEFINE c == [key |-> IdentityOf(r), row |-> r]
    <2>1. c \in CandRecord
      BY DEF CandRecord, IdentityOf
    <2>2. cands' = Append(cands, c)
      BY <1>2
    <2>3. c.row = r /\ c.key = IdentityOf(r)
      OBVIOUS
    <2> HIDE DEF c
    <2>4. Len(cands') = Len(cands) + 1 /\ cands'[Len(cands) + 1] = c
          /\ \A j \in 1 .. Len(cands) : cands'[j] = cands[j]
      BY <1>0, <2>1, <2>2
    <2>5. DOMAIN cands = 1 .. Len(cands) /\ DOMAIN cands' = 1 .. Len(cands') /\ Len(cands) \in Nat
      BY <1>0, <2>1, <2>2
    <2> QED
      BY <2>3, <2>4, <2>5
  <1> QED
    BY <1>1, <1>2 DEF SaveRecord

\* The row that a flush writes comes after the checkpoint, and before it no row after
\* the checkpoint bears its identity.
Fresh(r) ==
    /\ job.lastRow < r /\ Valid(r)
    /\ Flow = "candidates" /\ r \notin run.stripped /\ file[r] \in Keys =>
          \A q \in Rows : job.lastRow < q /\ q < r => file[q] # file[r]

LEMMA SavedKeeps ==
  ASSUME TypeOK, RecordInv, RowsValid, NEW f \in Flushes, NEW r \in Rows, NEW e \in Nat,
         SaveRecord(f, r, e), UNCHANGED <<file, job>>, Fresh(r)
  PROVE  /\ \A q \in Rows : Landed(q) => Landed(q)'
         /\ Landed(r)' /\ RecordInv' /\ RowsValid'
         /\ \A i \in DOMAIN cands : i \in DOMAIN cands' /\ cands'[i].key = cands[i].key
         /\ \E i \in DOMAIN cands' : cands'[i].key = IdentityOf(r)
         /\ \A i \in DOMAIN cands' :
               cands'[i].row # r => i \in DOMAIN cands /\ cands'[i].row = cands[i].row
  <1>0. /\ \A q \in Rows : q \in Nat
        /\ job.lastRow \in Nat /\ Anon \notin Keys
        /\ \A i \in DOMAIN cands : cands[i].row \in Rows /\ cands[i].key \in Keys \cup {Anon}
    <2>1. \A i \in DOMAIN cands : cands[i] \in CandRecord
      BY DEF TypeOK
    <2>2. \A i \in DOMAIN cands : cands[i].row \in Rows /\ cands[i].key \in Keys \cup {Anon}
      BY <2>1 DEF CandRecord
    <2> QED
      BY <2>2, KindsAssumption DEF TypeOK, Rows, JobRecord
  <1>1. IdentityOf(r) \in Keys \cup {Anon}
        /\ (IdentityOf(r) \in Keys => IdentityOf(r) = file[r] /\ file[r] \in Keys /\ r \notin run.stripped)
    BY <1>0 DEF IdentityOf
  <1>2. Valid(r)' /\ \A q \in Rows : Valid(q)' = Valid(q)
    BY DEF Valid, Fresh
  <1>3. ASSUME NEW i \in Existing(r),
               DOMAIN cands' = DOMAIN cands,
               \A j \in DOMAIN cands : cands'[j].key = cands[j].key,
               \A j \in DOMAIN cands \ {i} : cands'[j] = cands[j],
               cands'[i].row = r
        PROVE  /\ \A q \in Rows : Landed(q) => Landed(q)'
               /\ Landed(r)' /\ RecordInv' /\ RowsValid'
               /\ \E j \in DOMAIN cands' : cands'[j].key = IdentityOf(r)
               /\ \A j \in DOMAIN cands' :
                     cands'[j].row # r => j \in DOMAIN cands /\ cands'[j].row = cands[j].row
    <2>1. i \in DOMAIN cands /\ Flow = "candidates" /\ cands[i].key = IdentityOf(r)
          /\ IdentityOf(r) # Anon
      BY DEF Existing
    <2>2. file[r] \in Keys /\ cands[i].key = file[r] /\ r \notin run.stripped
      BY <1>1, <2>1
    <2>3. file[cands[i].row] = file[r] /\ cands[i].row <= r
      <3>1. file[cands[i].row] = file[r] /\ ~ (r < cands[i].row)
        BY <2>1, <2>2 DEF RecordInv, Fresh
      <3> QED
        BY <1>0, <2>1, <3>1
    <2>4. Landed(r)'
      BY <1>3, <2>1 DEF Landed
    <2>5. ASSUME NEW q \in Rows, Landed(q) PROVE Landed(q)'
      <3>1. PICK j \in DOMAIN cands :
                \/ cands[j].row = q
                \/ /\ file[q] \in Keys /\ cands[j].key = file[q]
                   /\ Flow = "interviews" \/ cands[j].row > q
        BY <2>5 DEF Landed
      <3>2. CASE j # i
        BY <1>3, <3>1, <3>2 DEF Landed, Flow
      <3>3. CASE j = i
        <4>1. CASE q = r
          BY <2>4, <4>1
        <4>2. CASE q # r
          <5>1. file[q] = file[r] /\ r > q
            BY <1>0, <2>1, <2>2, <2>3, <3>1, <3>3, <4>2
          <5>2. cands'[i].row > q /\ cands'[i].key = file'[q] /\ file'[q] \in Keys /\ i \in DOMAIN cands'
            BY <1>3, <2>1, <2>2, <5>1
          <5> QED
            BY <5>2 DEF Landed
        <4> QED
          BY <4>1, <4>2
      <3> QED
        BY <3>2, <3>3
    <2>6. RecordInv'
      <3> SUFFICES ASSUME NEW j \in DOMAIN cands, cands[j].key \in Keys
                   PROVE  /\ file[cands'[j].row] = cands[j].key
                          /\ Flow = "candidates" =>
                               \A q \in Rows : job.lastRow < q /\ q < cands'[j].row
                                                   => file[q] # cands[j].key
        BY <1>3 DEF RecordInv, Flow
      <3>1. CASE j = i
        BY <1>3, <2>2, <3>1 DEF Fresh
      <3>2. CASE j # i
        BY <1>3, <3>2 DEF RecordInv
      <3> QED
        BY <3>1, <3>2
    <2>7. RowsValid'
      BY <1>2, <1>3, <1>0 DEF RowsValid
    <2>8. \A j \in DOMAIN cands' :
              cands'[j].row # r => j \in DOMAIN cands /\ cands'[j].row = cands[j].row
      BY <1>3
    <2> QED
      BY <1>3, <2>1, <2>4, <2>5, <2>6, <2>7, <2>8
  <1>4. ASSUME NEW i \in Nat,
               i \notin DOMAIN cands, DOMAIN cands' = DOMAIN cands \cup {i},
               \A j \in DOMAIN cands : cands'[j] = cands[j],
               cands'[i].row = r, cands'[i].key = IdentityOf(r)
        PROVE  /\ \A q \in Rows : Landed(q) => Landed(q)'
               /\ Landed(r)' /\ RecordInv' /\ RowsValid'
               /\ \E j \in DOMAIN cands' : cands'[j].key = IdentityOf(r)
               /\ \A j \in DOMAIN cands' :
                     cands'[j].row # r => j \in DOMAIN cands /\ cands'[j].row = cands[j].row
    <2>1. \A q \in Rows : Landed(q) => Landed(q)'
      BY <1>4 DEF Landed, Flow
    <2>2. Landed(r)'
      BY <1>4 DEF Landed
    <2>3. RecordInv'
      <3> SUFFICES ASSUME NEW j \in DOMAIN cands', cands'[j].key \in Keys
                   PROVE  /\ file[cands'[j].row] = cands'[j].key
                          /\ Flow = "candidates" =>
                               \A q \in Rows : job.lastRow < q /\ q < cands'[j].row
                                                   => file[q] # cands'[j].key
        BY DEF RecordInv, Flow
      <3>1. CASE j = i
        BY <1>1, <1>4, <3>1 DEF Fresh
      <3>2. CASE j # i
        BY <1>4, <3>2 DEF RecordInv
      <3> QED
        BY <3>1, <3>2
    <2>4. RowsValid'
      BY <1>2, <1>4, <1>0 DEF RowsValid
    <2> QED
      BY <1>4, <2>1, <2>2, <2>3, <2>4
  <1>5. \A i \in DOMAIN cands : i \in DOMAIN cands' /\ cands'[i].key = cands[i].key
    BY SavedRecords
  <1> QED
    BY <1>3, <1>4, <1>5, SavedRecords

-----------------------------------------------------------------------------
(* The inductive invariant of a resumption, for a host that only kills.    *)

\* What a run has handled and seen, and what that does to the records.
RunInv  == HandledInv /\ SeenInv /\ StrippedInv
SiteInv == RecordInv /\ CheckpointCoversRows /\ CompletedIsComplete /\ RowsValid
\* Without errors no run throws while its batch is being flushed.
NoOrphan == flush["main"].phase # "idle" => run.pc = "flushing"
CrashInv == WhereInv /\ NoOrphan /\ RunInv /\ SiteInv

LEMMA NoFault == CrashOnly /\ TypeOK => ~ Fault
  BY BoundAssumption DEF CrashOnly, TypeOK, Fault

LEMMA OrphanStep ==
  ASSUME TypeOK, WhereInv, NoOrphan, CrashOnly, [Next]_vars
  PROVE  NoOrphan'
  <1>0. ~ Fault /\ run \in RunRecord /\ flush \in [Flushes -> FlushRecord]
    BY NoFault DEF TypeOK
  <1> SUFFICES ASSUME flush'["main"].phase # "idle" PROVE run'.pc = "flushing"
    BY DEF NoOrphan
  <1>1. WhereInv'
    BY WhereStep DEF CrashOnly
  <1>2. run'.pc \in {"flushing", "idle"}
    BY <1>1 DEF WhereInv, FlushInv
  <1>3. CASE FailRun
    BY <1>0, <1>2, <1>3 DEF FailRun, Throws, NoOrphan
  <1>4. CASE Leave
    BY <1>2, <1>4 DEF Leave, NoOrphan
  <1>5. CASE ProcessEnds
    BY <1>5 DEF ProcessEnds, IdleFlush, Flushes
  <1>6. CASE \E f \in Flushes : FlushNext(f)
    <2>1. PICK f \in Flushes : FlushNext(f)
      BY <1>6
    <2>2. f = "main"
      BY <2>1, FlushNextWhere
    <2>3. run.pc = "flushing" /\ run'.pc \in {"flushing", "reading"}
      BY <2>1, <2>2, FlushStep DEF NoOrphan
    <2> QED
      BY <1>2, <2>3
  <1>7. CASE \/ Upload \/ Resume \/ Open \/ ReadRow \/ RejectRow \/ SkipDuplicate \/ CloseRun
             \/ MarkRun
    <2>1. UNCHANGED flush
      BY <1>7 DEF Upload, Resume, Open, ReadRow, RejectRow, SkipDuplicate, CloseRun, MarkRun
    <2>2. run.pc # "flushing"
      BY <1>7 DEF Upload, Resume, Busy, Open, ReadRow, RejectRow, SkipDuplicate, CloseRun, MarkRun
    <2> QED
      BY <2>1, <2>2 DEF NoOrphan
  <1>8. CASE BatchRow \/ EndOfFile
    <2>1. run.pc \in {"row", "reading"}
      BY <1>8 DEF BatchRow, EndOfFile
    <2>2. run'.pc \in {"flushing", "reading", "closing"}
      <3>1. CASE BatchRow
        BY <1>0, <3>1 DEF BatchRow, Batched, NextRow, RunRecord
      <3>2. CASE EndOfFile
        BY <1>0, <3>2 DEF EndOfFile, RunRecord
      <3> QED
        BY <1>8, <3>1, <3>2
    <2> QED
      BY <1>2, <2>2
  <1>9. CASE SweepFindsNothing \/ ResumeRefused \/ Restart \/ UNCHANGED vars
    BY <1>9 DEF SweepFindsNothing, ResumeRefused, Restart, vars, NoOrphan
  <1> QED
    BY <1>0, <1>3, <1>4, <1>5, <1>6, <1>7, <1>8, <1>9
       DEF Next, Sweep, RunNext, OpenBlind, RowThrows, DuplicateCheckFails, MarkLost, Shutdown,
           ManagerMarks, ManagerFails, CrashOnly, WhereInv

\* Steps that write neither a record nor a checkpoint.
LEMMA QuietSite ==
  ASSUME TypeOK, SiteInv, UNCHANGED <<file, cands>>, job'.flowType = job.flowType,
         job'.lastRow = job.lastRow,
         \/ job'.status \in {job.status, "NONE", "PROCESSING", "FAILED", "FAILED_INCOMPLETE"}
         \/ \A r \in Rows : Valid(r) => Landed(r)
  PROVE  SiteInv'
  <1>1. \A q \in Rows : (Landed(q)' <=> Landed(q)) /\ (Valid(q)' <=> Valid(q))
    BY SameLanded
  <1>2. CheckpointCoversRows' /\ CompletedIsComplete'
    BY <1>1 DEF SiteInv, CheckpointCoversRows, CompletedIsComplete
  <1>3. RecordInv' /\ RowsValid'
    BY DEF SiteInv, RecordInv, RowsValid, Valid, Flow
  <1> QED
    BY <1>2, <1>3 DEF SiteInv

\* Steps that bring a run no further.
LEMMA QuietRun ==
  ASSUME TypeOK, WhereInv, RunInv, SiteInv, UNCHANGED <<file, cands>>,
         job'.flowType = job.flowType, job'.lastRow = job.lastRow,
         \/ ~ Active'
         \/ /\ Active /\ Pending' = Pending /\ run'.start = run.start
            /\ run'.seen = run.seen /\ run'.stripped = run.stripped
            /\ \/ run'.pos = run.pos
               \/ /\ run'.pos = run.pos + 1 /\ run.pos \in Rows
                  /\ run.pos <= run.start \/ ~ Valid(run.pos)
  PROVE  RunInv'
  <1>1. CASE ~ Active'
    BY <1>1 DEF RunInv, HandledInv, SeenInv, StrippedInv
  <1>2. CASE Active'
    <2>1. \A q \in Rows : (Landed(q)' <=> Landed(q)) /\ (Valid(q)' <=> Valid(q))
      BY SameLanded
    <2>2. Flow' = Flow
      BY DEF Flow
    <2>3. /\ run.start <= job.lastRow /\ run.pos \in Nat /\ run.start \in Nat /\ job.lastRow \in Nat
          /\ \A q \in Rows : q \in Nat
      BY <1>2 DEF WhereInv, PositionInv, TypeOK, RunRecord, JobRecord, Rows
    <2>4. \A r \in Rows : r < run'.pos => r < run.pos \/ (r = run.pos /\ (r <= run.start \/ ~ Valid(r)))
      BY <1>2, <2>3
    <2>5. HandledInv'
      <3> SUFFICES ASSUME NEW r \in Rows, r < run'.pos, Valid(r)' PROVE Handled(r)'
        BY DEF HandledInv
      <3>1. Handled(r)
        <4>1. CASE r < run.pos
          BY <1>2, <2>1, <4>1 DEF RunInv, HandledInv
        <4>2. CASE r <= run.start
          BY <2>1, <2>3, <4>2 DEF SiteInv, CheckpointCoversRows, Handled
        <4> QED
          BY <2>1, <2>4, <4>1, <4>2
      <3> QED
        BY <1>2, <2>1, <2>2, <3>1 DEF Handled
    <2>6. SeenInv'
      <3>1. CASE Flow = "candidates"
        <4> SUFFICES ASSUME NEW r \in Rows, run'.start < r, r < run'.pos, Valid(r)'
                     PROVE  file'[r] \in run'.seen
          BY <2>2, <3>1 DEF SeenInv
        <4>1. r < run.pos /\ run.start < r
          BY <1>2, <2>1, <2>3, <2>4
        <4> QED
          BY <1>2, <2>1, <3>1, <4>1 DEF RunInv, SeenInv
      <3>2. CASE Flow # "candidates"
        <4>1. /\ run.stripped = {}
              /\ \A k \in run.seen : \/ \E i \in DOMAIN cands : cands[i].key = k
                                     \/ \E q \in Pending : file[q] = k
          BY <1>2, <3>2 DEF RunInv, SeenInv
        <4> QED
          BY <1>2, <2>2, <3>2, <4>1 DEF SeenInv
      <3> QED
        BY <3>1, <3>2
    <2>7. StrippedInv'
      BY <1>2, <2>2 DEF RunInv, StrippedInv
    <2> QED
      BY <2>5, <2>6, <2>7 DEF RunInv
  <1> QED
    BY <1>1, <1>2

\* A row that is kept.
LEMMA KeptRow ==
  ASSUME TypeOK, WhereInv, RunInv, CrashOnly, UNCHANGED <<file, cands, job>>,
         run.pc = "row", Valid(run.pos), ~ IsDuplicate(run.pos), Active',
         run'.pos = run.pos + 1, run'.start = run.start,
         run'.seen = run.seen \cup {file[run.pos]},
         run'.stripped = IF IsStripped(run.pos) THEN run.stripped \cup {run.pos} ELSE run.stripped,
         Pending' = Pending \cup {run.pos}
  PROVE  RunInv'
  <1> DEFINE p == run.pos
  <1>1. p \in Rows /\ Active /\ \A q \in Rows : q \in Nat
    BY DEF TypeOK, Active, Rows
  <1>2. \A q \in Rows : (Landed(q)' <=> Landed(q)) /\ (Valid(q)' <=> Valid(q))
    BY SameLanded
  <1>3. Flow' = Flow
    BY DEF Flow
  <1>4. \A r \in Rows : r < run'.pos => r < p \/ r = p
    BY <1>1
  <1>5. /\ run.start < p /\ \A r \in Pending : r < p
        /\ Pending \subseteq Rows
    BY <1>1 DEF WhereInv, PositionInv, Pending, TypeOK, RunRecord, FlushRecord, Flushes
  <1>6. HandledInv'
    <2> SUFFICES ASSUME NEW r \in Rows, r < run'.pos, Valid(r)' PROVE Handled(r)'
      BY DEF HandledInv
    <2>1. r = p \/ Handled(r)
      BY <1>1, <1>2, <1>4 DEF RunInv, HandledInv
    <2> QED
      BY <1>2, <1>3, <2>1 DEF Handled
  <1>7. SeenInv'
    <2>1. CASE Flow = "candidates"
      <3> SUFFICES ASSUME NEW r \in Rows, run'.start < r, r < run'.pos, Valid(r)'
                   PROVE  file'[r] \in run'.seen
        BY <1>3, <2>1 DEF SeenInv
      <3>1. r = p \/ file[r] \in run.seen
        BY <1>1, <1>2, <1>4, <2>1 DEF RunInv, SeenInv
      <3> QED
        BY <3>1
    <2>2. CASE Flow # "candidates"
      <3>1. /\ run.stripped = {}
            /\ \A k \in run.seen : \/ \E i \in DOMAIN cands : cands[i].key = k
                                   \/ \E q \in Pending : file[q] = k
        BY <1>1, <2>2 DEF RunInv, SeenInv
      <3>2. run'.stripped = {}
        BY <2>2, <3>1 DEF IsStripped
      <3> QED
        BY <1>3, <2>2, <3>1, <3>2 DEF SeenInv
    <2> QED
      BY <2>1, <2>2
  <1>8. StrippedInv'
    <2> SUFFICES ASSUME Flow = "candidates", NEW q \in Pending', NEW r \in Rows,
                        q \notin run'.stripped, file[q] \in Keys, run.start < r, r < q
                 PROVE  file[r] # file[q]
      BY <1>3 DEF StrippedInv
    <2>1. CASE q \in Pending
      BY <1>1, <2>1 DEF RunInv, StrippedInv
    <2>2. CASE q = p
      <3>1. file[p] \notin run.seen
        BY <2>2 DEF IsStripped
      <3>2. Valid(r) => file[r] \in run.seen
        BY <1>1, <2>2 DEF RunInv, SeenInv
      <3> QED
        BY <2>2, <3>1, <3>2, KindsAssumption DEF Valid
    <2> QED
      BY <2>1, <2>2
  <1> QED
    BY <1>6, <1>7, <1>8 DEF RunInv

\* Skipping a duplicate of an interview file, whose key is at hand already.
LEMMA SkippedRow ==
  ASSUME TypeOK, WhereInv, RunInv, CrashOnly, SkipDuplicate
  PROVE  RunInv'
  <1> DEFINE p == run.pos
  <1>0. /\ UNCHANGED <<file, cands, job, flush>> /\ run.pc = "row" /\ IsDuplicate(p)
        /\ run'.pos = p + 1 /\ run'.start = run.start /\ run'.seen = run.seen \cup {file[p]}
        /\ run'.stripped = run.stripped /\ run'.batch = run.batch /\ run'.pc = "reading"
    BY DEF SkipDuplicate, NextRow, TypeOK, RunRecord
  <1>1. p \in Rows /\ Active /\ Active' /\ \A q \in Rows : q \in Nat
    BY <1>0 DEF TypeOK, Active, Rows
  <1>2. \A q \in Rows : (Landed(q)' <=> Landed(q)) /\ (Valid(q)' <=> Valid(q))
    BY <1>0, SameLanded
  <1>3. Flow' = Flow /\ Pending' = Pending
    BY <1>0 DEF Flow, Pending
  <1>4. \A r \in Rows : r < run'.pos => r < p \/ r = p
    BY <1>0, <1>1
  <1>5. Flow = "interviews" /\ file[p] \in Keys
    <2>1. Flow = "interviews" /\ Flow \in Flows
      BY <1>0 DEF IsDuplicate, Flow, TypeOK, JobRecord
    <2>2. file[p] \in Contents /\ file[p] # Anon /\ file[p] # Invalid
      BY <1>0, <1>1, <2>1 DEF CrashOnly, IsDuplicate, TypeOK
    <2> QED
      BY <2>1, <2>2, KindsAssumption
  <1>6. /\ run.stripped = {}
        /\ \A k \in run.seen : \/ \E i \in DOMAIN cands : cands[i].key = k
                               \/ \E q \in Pending : file[q] = k
    BY <1>1, <1>5 DEF RunInv, SeenInv
  <1>7. \/ \E i \in DOMAIN cands : cands[i].key = file[p]
        \/ \E q \in Pending : file[q] = file[p]
    BY <1>0, <1>5, <1>6, KindsAssumption DEF IsDuplicate
  <1>8. Handled(p)
    BY <1>5, <1>7 DEF Handled, Landed
  <1>9. HandledInv'
    <2> SUFFICES ASSUME NEW r \in Rows, r < run'.pos, Valid(r)' PROVE Handled(r)'
      BY DEF HandledInv
    <2>1. Handled(r)
      BY <1>1, <1>2, <1>4, <1>8 DEF RunInv, HandledInv
    <2> QED
      BY <1>0, <1>2, <1>3, <2>1 DEF Handled
  <1>10. SeenInv'
    <2>1. \A k \in run'.seen : \/ \E i \in DOMAIN cands : cands[i].key = k
                               \/ \E q \in Pending : file[q] = k
      BY <1>0, <1>6, <1>7
    <2> QED
      BY <1>0, <1>3, <1>5, <1>6, <2>1 DEF SeenInv
  <1>11. StrippedInv'
    BY <1>3, <1>5 DEF StrippedInv
  <1> QED
    BY <1>9, <1>10, <1>11 DEF RunInv

\* The row that a flush writes next.
LEMMA WrittenIsFresh ==
  ASSUME TypeOK, WhereInv, RunInv, NEW r \in Rows, Inserting("main", r)
  PROVE  Fresh(r) /\ r \in Pending /\ Active
  <1>1. r \in Pending
    BY DEF Inserting, Pending
  <1>2. Active
    BY DEF Inserting, WhereInv, FlushInv, Active
  <1>3. job.lastRow < r /\ Valid(r) /\ run.start <= job.lastRow
    BY <1>1, <1>2 DEF WhereInv, PositionInv
  <1>4. run.start \in Nat /\ job.lastRow \in Nat /\ \A q \in Rows : q \in Nat
    BY DEF TypeOK, RunRecord, JobRecord, Rows
  <1>5. ASSUME Flow = "candidates", r \notin run.stripped, file[r] \in Keys,
               NEW q \in Rows, job.lastRow < q, q < r
        PROVE  file[q] # file[r]
    <2>1. run.start < q
      BY <1>3, <1>4, <1>5
    <2> QED
      BY <1>1, <1>2, <1>5, <2>1 DEF RunInv, StrippedInv
  <1> QED
    BY <1>1, <1>2, <1>3, <1>5 DEF Fresh

LEMMA InsertCrash ==
  ASSUME TypeOK, CrashInv, CrashOnly, InsertRow("main")
  PROVE  RunInv' /\ SiteInv'
  <1> USE DEF CrashInv
  <1>1. PICK r \in Rows : Inserting("main", r) /\ SaveRecord("main", r, 0)
    BY DEF InsertRow
  <1>2. Fresh(r) /\ r \in Pending /\ Active
    BY <1>1, WrittenIsFresh
  <1>3. UNCHANGED <<file, job>>
    BY DEF InsertRow
  <1>4. /\ \A q \in Rows : Landed(q) => Landed(q)'
        /\ Landed(r)' /\ RecordInv' /\ RowsValid'
        /\ \A i \in DOMAIN cands : i \in DOMAIN cands' /\ cands'[i].key = cands[i].key
        /\ \E i \in DOMAIN cands' : cands'[i].key = IdentityOf(r)
    BY <1>1, <1>2, <1>3, SavedKeeps DEF SiteInv, Flushes
  <1>5. /\ run'.pos = run.pos /\ run'.start = run.start /\ run'.batch = run.batch /\ run'.pc = run.pc
        /\ run'.seen = run.seen /\ run'.stripped = run.stripped
    BY DEF InsertRow, TypeOK, RunRecord
  <1>6. flush'["main"].todo = flush["main"].todo \ {r}
    BY <1>1, SavedFlush DEF Flushes
  <1>7. run.batch = {} /\ flush["main"].phase = "insert" /\ flush'["main"].phase = "insert"
    BY <1>1, SavedFlush DEF Inserting, WhereInv, FlushInv, Flushes
  <1>8. Pending' = Pending \ {r} /\ Active' /\ Flow' = Flow
        /\ \A q \in Rows : Valid(q)' = Valid(q)
    BY <1>2, <1>3, <1>5, <1>6, <1>7 DEF Pending, Active, Flow, Valid
  <1>9. Flow = "interviews" => run.stripped = {} /\ IdentityOf(r) = file[r] /\ file[r] \in Keys
    <2> SUFFICES ASSUME Flow = "interviews"
                 PROVE  run.stripped = {} /\ IdentityOf(r) = file[r] /\ file[r] \in Keys
      OBVIOUS
    <2>1. run.stripped = {}
      BY <1>2 DEF RunInv, SeenInv
    <2>2. file[r] \in Contents /\ file[r] # Anon /\ file[r] # Invalid
      BY <1>2 DEF CrashOnly, Fresh, Valid, TypeOK, Flow, JobRecord
    <2>3. file[r] \in Keys
      BY <2>2, KindsAssumption
    <2> QED
      BY <2>1, <2>3 DEF IdentityOf
  <1>10. Flow \in {"candidates", "interviews"}
    BY FlowAssumption DEF TypeOK, JobRecord, Flow
  <1>11. SiteInv'
    <2>1. CheckpointCoversRows' /\ CompletedIsComplete'
      BY <1>3, <1>4, <1>8 DEF SiteInv, CheckpointCoversRows, CompletedIsComplete
    <2> QED
      BY <1>4, <2>1 DEF SiteInv
  <1>12. HandledInv'
    <2> SUFFICES ASSUME NEW q \in Rows, q < run'.pos, Valid(q)' PROVE Handled(q)'
      BY DEF HandledInv
    <2>1. Handled(q)
      BY <1>2, <1>5, <1>8 DEF RunInv, HandledInv
    <2>2. CASE Landed(q) \/ q = r
      BY <1>4, <2>2 DEF Handled
    <2>3. CASE q \in Pending /\ q # r
      BY <1>8, <2>3 DEF Handled
    <2>4. CASE Flow = "interviews" /\ \E x \in Pending : file[x] = file[q]
      <3>1. PICK x \in Pending : file[x] = file[q]
        BY <2>4
      <3>2. CASE x # r
        BY <1>3, <1>8, <2>4, <3>1, <3>2 DEF Handled
      <3>3. CASE x = r
        <4>1. file'[q] \in Keys /\ Flow' = "interviews" /\ \E i \in DOMAIN cands' : cands'[i].key = file'[q]
          BY <1>3, <1>4, <1>8, <1>9, <2>4, <3>1, <3>3
        <4>2. Landed(q)'
          BY <4>1 DEF Landed
        <4> QED
          BY <4>2 DEF Handled
      <3> QED
        BY <3>2, <3>3
    <2> QED
      BY <2>1, <2>2, <2>3, <2>4 DEF Handled
  <1>13. SeenInv'
    <2>1. CASE Flow = "candidates"
      BY <1>2, <1>3, <1>5, <1>8, <2>1 DEF RunInv, SeenInv
    <2>2. CASE Flow = "interviews"
      <3>1. \A k \in run.seen : \/ \E i \in DOMAIN cands : cands[i].key = k
                                \/ \E q \in Pending : file[q] = k
        BY <1>2, <2>2 DEF RunInv, SeenInv
      <3>2. \A k \in run.seen : \/ \E i \in DOMAIN cands' : cands'[i].key = k
                                \/ \E q \in Pending' : file'[q] = k
        BY <1>3, <1>4, <1>8, <1>9, <2>2, <3>1
      <3> QED
        BY <1>5, <1>8, <1>9, <2>2, <3>2 DEF SeenInv
    <2> QED
      BY <1>10, <2>1, <2>2
  <1>14. StrippedInv'
    BY <1>2, <1>3, <1>5, <1>8 DEF RunInv, StrippedInv
  <1> QED
    BY <1>11, <1>12, <1>13, <1>14 DEF RunInv

\* Nothing is pending when a checkpoint is written, so all the run has passed landed.
LEMMA CheckpointCrash ==
  ASSUME TypeOK, CrashInv, CrashOnly, WriteCheckpoint("main")
  PROVE  RunInv' /\ SiteInv'
  <1> USE DEF CrashInv
  <1>0. /\ UNCHANGED <<file, cands>> /\ flush["main"].phase = "checkpoint"
        /\ job'.lastRow = flush["main"].last /\ job'.flowType = job.flowType
        /\ job'.status = job.status
    BY DEF WriteCheckpoint, Checkpointed, TypeOK, JobRecord
  <1>1. PICK n \in 1 .. BatchSize :
            run' = [run EXCEPT !.size = n, !.pc = IF run.pc = "flushing" THEN "reading" ELSE @]
    BY DEF WriteCheckpoint, FlushReturns
  <1>2. /\ run'.pos = run.pos /\ run'.start = run.start
        /\ run'.batch = run.batch /\ run'.seen = run.seen /\ run'.stripped = run.stripped
    BY <1>1 DEF TypeOK, RunRecord
  <1>3. flush'["main"] = IdleFlush
    BY DEF WriteCheckpoint, FlushReturns, TypeOK, Flushes
  <1>4. /\ run.batch = {} /\ flush["main"].todo = {}
        /\ job.lastRow < flush["main"].last /\ flush["main"].last < run.pos
    BY <1>0 DEF WhereInv, FlushInv
  <1>5. Pending = {} /\ Pending' = {} /\ Active
    BY <1>0, <1>2, <1>3, <1>4 DEF Pending, IdleFlush, Active
  <1>6. /\ flush["main"].last \in Nat /\ job.lastRow \in Nat /\ run.pos \in Nat
        /\ \A q \in Rows : q \in Nat
    <2>1. flush["main"] \in FlushRecord /\ job \in JobRecord /\ run \in RunRecord
      BY DEF TypeOK, Flushes
    <2> HIDE DEF CrashInv
    <2> QED
      BY <2>1, RowsAssumption DEF FlushRecord, JobRecord, RunRecord, Rows
  <1>7. \A q \in Rows : (Landed(q)' <=> Landed(q)) /\ (Valid(q)' <=> Valid(q))
    BY <1>0, SameLanded
  <1>8. \A q \in Rows : q < run.pos /\ Valid(q) => Landed(q)
    BY <1>5 DEF RunInv, HandledInv, Handled
  <1>9. HandledInv'
    BY <1>2, <1>7, <1>8 DEF HandledInv, Handled
  <1>10. SeenInv' /\ StrippedInv'
    <2>1. Flow' = Flow /\ \A q \in Rows : file'[q] = file[q]
      BY <1>0 DEF Flow
    <2>2. CASE Flow = "candidates"
      <3>1. \A r \in Rows : run.start < r /\ r < run.pos /\ Valid(r) => file[r] \in run.seen
        BY <1>5, <2>2 DEF RunInv, SeenInv
      <3> QED
        BY <1>2, <1>5, <1>7, <2>1, <2>2, <3>1 DEF SeenInv, StrippedInv
    <2>3. CASE Flow # "candidates"
      <3>1. /\ run.stripped = {}
            /\ \A k \in run.seen : \E i \in DOMAIN cands : cands[i].key = k
        BY <1>5, <2>3 DEF RunInv, SeenInv
      <3> QED
        BY <1>0, <1>2, <2>1, <2>3, <3>1 DEF SeenInv, StrippedInv
    <2> QED
      BY <2>2, <2>3
  <1>11. CheckpointCoversRows'
    <2> SUFFICES ASSUME NEW r \in Rows, r <= job'.lastRow, Valid(r)' PROVE Landed(r)'
      BY DEF CheckpointCoversRows
    <2>1. r < run.pos
      BY <1>0, <1>4, <1>6
    <2> QED
      BY <1>7, <1>8, <2>1
  <1>12. CompletedIsComplete'
    BY <1>0, <1>7 DEF SiteInv, CompletedIsComplete
  <1>13. RecordInv'
    <2> SUFFICES ASSUME NEW i \in DOMAIN cands, cands[i].key \in Keys
                 PROVE  /\ file[cands[i].row] = cands[i].key
                        /\ Flow = "candidates" =>
                             \A r \in Rows : job'.lastRow < r /\ r < cands[i].row
                                                 => file[r] # cands[i].key
      BY <1>0 DEF RecordInv, Flow
    <2>1. \A r \in Rows : job'.lastRow < r => job.lastRow < r
      BY <1>0, <1>4, <1>6
    <2> QED
      BY <2>1 DEF SiteInv, RecordInv
  <1>14. RowsValid'
    BY <1>0, SameLanded DEF SiteInv
  <1> QED
    BY <1>9, <1>10, <1>11, <1>12, <1>13, <1>14 DEF RunInv, SiteInv

LEMMA CrashStep ==
  ASSUME TypeOK, CrashInv, CrashOnly, [Next]_vars
  PROVE  CrashInv'
  <1> USE DEF CrashInv
  <1>0. WhereInv' /\ NoOrphan'
    BY WhereStep, OrphanStep DEF CrashOnly
  <1>01. ~ Fault /\ run \in RunRecord /\ job \in JobRecord
    BY NoFault DEF TypeOK
  <1>02. /\ ~ run.aborting /\ server # "draining" /\ manager # "pending"
         /\ flush["abort"].phase = "idle"
         /\ run.pc = "flushing" => flush["main"].phase # "idle"
         /\ flush["main"].phase # "idle" => run.pc \in {"flushing", "idle"}
         /\ Active => job.status # "NONE"
    BY DEF WhereInv, NoAbort, FlushInv, PositionInv, IdleFlush
  <1>03. run.pc \in {"reading", "row", "closing", "marking", "leaving"} =>
            flush["main"].todo = {} /\ Pending = run.batch
    BY <1>02 DEF WhereInv, FlushInv, Pending
  <1>1. CASE Upload \/ Resume
    <2>1. /\ UNCHANGED <<file, cands, flush>> /\ job'.flowType = job.flowType
          /\ job'.lastRow = job.lastRow
          /\ job'.status = job.status /\ run'.pc = "opening"
      BY <1>1, <1>01 DEF Upload, Resume, RunRecord, JobRecord
    <2>2. ~ Active'
      BY <1>1, <1>02, <2>1 DEF Active, Upload, Resume, Busy, Flushes
    <2> QED
      BY <1>0, <2>1, <2>2, QuietSite, QuietRun
  <1>2. CASE Open
    <2>1. /\ UNCHANGED <<file, cands, flush>> /\ job'.flowType = job.flowType
          /\ job'.lastRow = job.lastRow /\ job'.status \in {job.status, "PROCESSING"}
          /\ run.pc = "opening" /\ run'.pos = 1 /\ run'.start = job.lastRow
          /\ run'.seen = {} /\ run'.stripped = {} /\ run'.batch = {}
      BY <1>2, <1>01 DEF Open, IdleRun, JobRecord
    <2>2. SiteInv'
      BY <2>1, QuietSite
    <2>3. Pending' = {}
      BY <1>02, <2>1 DEF Pending, WhereInv, FlushInv
    <2>4. \A r \in Rows : ~ (r < 1)
      BY DEF Rows
    <2>5. RunInv'
      BY <2>1, <2>3, <2>4 DEF RunInv, HandledInv, SeenInv, StrippedInv
    <2> QED
      BY <1>0, <2>2, <2>5
  <1>3. CASE ReadRow
    <2>1. UNCHANGED <<file, job, cands, flush>> /\ run.pc = "reading" /\ run.pos \in Rows
      BY <1>3, <1>01 DEF ReadRow, RunRecord, Rows
    <2>2. SiteInv'
      BY <2>1, QuietSite
    <2>3. /\ run'.start = run.start /\ run'.seen = run.seen /\ run'.stripped = run.stripped
          /\ run'.batch = run.batch /\ run'.pc \in {"reading", "row"}
          /\ run'.pos = run.pos \/ (run'.pos = run.pos + 1 /\ run.pos <= run.start)
      <3>1. CASE run' = [run EXCEPT !.processed = @ + 1, !.pos = @ + 1] /\ run.pos <= run.start
        BY <2>1, <3>1, <1>01 DEF RunRecord
      <3>2. CASE run' = [run EXCEPT !.processed = @ + 1, !.pc = "row"]
        BY <3>2, <1>01 DEF RunRecord
      <3> QED
        BY <1>3, <1>02, <3>1, <3>2 DEF ReadRow
    <2>4. Active /\ Pending' = Pending
      BY <2>1, <2>3 DEF Active, Pending
    <2>5. RunInv'
      BY <2>1, <2>3, <2>4, QuietRun
    <2> QED
      BY <1>0, <2>2, <2>5
  <1>4. CASE RejectRow
    <2>1. /\ UNCHANGED <<file, job, cands, flush>> /\ run.pc = "row" /\ ~ Valid(run.pos)
          /\ run.pos \in Rows
      BY <1>4 DEF RejectRow, Valid, TypeOK
    <2>2. SiteInv'
      BY <2>1, QuietSite
    <2>3. /\ run'.start = run.start /\ run'.seen = run.seen /\ run'.stripped = run.stripped
          /\ run'.batch = run.batch /\ run'.pos = run.pos + 1
      BY <1>4, <1>01 DEF RejectRow, NextRow, RunRecord
    <2>4. Active /\ Pending' = Pending
      BY <2>1, <2>3 DEF Active, Pending
    <2>5. RunInv'
      BY <2>1, <2>3, <2>4, QuietRun
    <2> QED
      BY <1>0, <2>2, <2>5
  <1>5. CASE SkipDuplicate
    <2>1. UNCHANGED <<file, job, cands>>
      BY <1>5 DEF SkipDuplicate
    <2> QED
      BY <1>0, <1>5, <2>1, QuietSite, SkippedRow
  <1>6. CASE BatchRow
    <2>1. /\ UNCHANGED <<file, job, cands>> /\ run.pc = "row" /\ Valid(run.pos)
          /\ ~ IsDuplicate(run.pos)
      BY <1>6 DEF BatchRow, Valid
    <2> DEFINE rows == run.batch \cup {run.pos}
    <2>2. /\ run'.pos = run.pos + 1 /\ run'.start = run.start
          /\ run'.seen = run.seen \cup {file[run.pos]}
          /\ run'.stripped = IF IsStripped(run.pos) THEN run.stripped \cup {run.pos} ELSE run.stripped
          /\ \/ /\ run'.pc = "flushing" /\ run'.batch = {}
                /\ flush' = [flush EXCEPT !["main"] = FlushOf(rows)]
             \/ /\ run'.pc = "reading" /\ run'.batch = rows
                /\ UNCHANGED flush
      <3> DEFINE rn == [run EXCEPT !.seen = @ \cup {file[run.pos]},
                                   !.stripped = IF IsStripped(run.pos) THEN @ \cup {run.pos} ELSE @]
      <3>1. /\ rn.seen = run.seen \cup {file[run.pos]} /\ rn.pos = run.pos
            /\ rn.start = run.start /\ DOMAIN rn = DOMAIN run
            /\ rn.stripped = IF IsStripped(run.pos) THEN run.stripped \cup {run.pos} ELSE run.stripped
        BY <1>01 DEF RunRecord
      <3>2. DOMAIN rn = {"pc", "pos", "start", "processed", "created", "updated", "dups", "failed",
                         "attempt", "batch", "seen", "stripped", "aborting", "resolver", "ids", "size",
                         "mark"}
        BY <1>01, <3>1 DEF RunRecord
      <3>3. CASE Cardinality(rows) >= run.size
        <4>1. /\ run' = [rn EXCEPT !.pc = "flushing", !.pos = @ + 1, !.batch = {}]
              /\ flush' = [flush EXCEPT !["main"] = FlushOf(rows)]
          BY <1>6, <3>3 DEF BatchRow, Batched
        <4> HIDE DEF rn, rows
        <4> QED
          BY <3>1, <3>2, <4>1
      <3>4. CASE ~ (Cardinality(rows) >= run.size)
        <4>1. run' = NextRow([rn EXCEPT !.batch = rows]) /\ UNCHANGED flush
          BY <1>6, <3>4 DEF BatchRow, Batched
        <4> HIDE DEF rn, rows
        <4> QED
          BY <3>1, <3>2, <4>1 DEF NextRow
      <3> QED
        BY <3>3, <3>4
    <2>3. Active' /\ Pending = run.batch
      BY <1>03, <2>1, <2>2 DEF Active
    <2>4. Pending' = rows
      <3>1. CASE run'.pc = "reading"
        BY <1>03, <2>1, <2>2, <3>1 DEF Pending
      <3>2. CASE run'.pc # "reading"
        <4>1. rows \in SUBSET Rows /\ rows # {} /\ run'.batch = {}
              /\ flush' = [flush EXCEPT !["main"] = FlushOf(rows)]
          BY <2>1, <2>2, <3>2 DEF TypeOK, RunRecord
        <4> HIDE DEF rows
        <4>2. flush'["main"].todo = rows
          BY <4>1, BatchFlushed DEF TypeOK, Flushes
        <4> QED
          BY <4>1, <4>2 DEF Pending
      <3> QED
        BY <3>1, <3>2
    <2>5. RunInv'
      BY <2>1, <2>2, <2>3, <2>4, KeptRow
    <2> QED
      BY <1>0, <2>1, <2>5, QuietSite
  <1>7. CASE EndOfFile
    <2>1. UNCHANGED <<file, job, cands>> /\ run.pc = "reading"
      BY <1>7 DEF EndOfFile
    <2>2. /\ run'.pos = run.pos /\ run'.start = run.start /\ run'.seen = run.seen
          /\ run'.stripped = run.stripped
          /\ \/ run.batch = {} /\ run'.batch = {} /\ UNCHANGED flush
             \/ /\ run.batch # {} /\ run'.batch = {}
                /\ flush' = [flush EXCEPT !["main"] = FlushOf(run.batch)]
      BY <1>7, <1>01 DEF EndOfFile, RunRecord
    <2>3. Pending' = Pending /\ Active
      <3>1. run.batch \in SUBSET Rows /\ flush \in [Flushes -> FlushRecord]
        BY DEF TypeOK, RunRecord
      <3>2. CASE run.batch = {}
        BY <1>03, <2>1, <2>2, <3>2 DEF Pending, Active
      <3>3. CASE run.batch # {}
        <4>1. flush'["main"].todo = run.batch
          BY <2>2, <3>1, <3>3, BatchFlushed DEF Flushes
        <4> QED
          BY <1>03, <2>1, <2>2, <3>3, <4>1 DEF Pending, Active
      <3> QED
        BY <3>2, <3>3
    <2>4. RunInv'
      BY <2>1, <2>2, <2>3, QuietRun
    <2> QED
      BY <1>0, <2>1, <2>4, QuietSite
  <1>8. CASE CloseRun \/ Leave
    <2>1. /\ UNCHANGED <<file, job, cands, flush>> /\ run.pc \in {"closing", "leaving"}
          /\ run' = [run EXCEPT !.pc = "marking"] \/ run' = [run EXCEPT !.pc = "idle"]
      BY <1>8 DEF CloseRun, Leave
    <2>2. /\ run'.pos = run.pos /\ run'.start = run.start /\ run'.seen = run.seen
          /\ run'.stripped = run.stripped /\ run'.batch = run.batch
      BY <2>1, <1>01 DEF RunRecord
    <2>3. Pending' = Pending /\ Active
      BY <2>1, <2>2 DEF Pending, Active
    <2> QED
      BY <1>0, <2>1, <2>2, <2>3, QuietSite, QuietRun
  <1>9. CASE FailRun
    <2>1. /\ UNCHANGED <<file, cands, flush>> /\ run'.pc = "idle" /\ run.pc = "closing"
          /\ job'.flowType = job.flowType /\ job'.lastRow = job.lastRow
          /\ job'.status \in {"FAILED", "FAILED_INCOMPLETE"}
      BY <1>9, <1>01 DEF FailRun, Throws, FailedStatus, Counters, RunRecord, JobRecord
    <2>2. ~ Active'
      BY <1>02, <2>1 DEF Active
    <2> QED
      BY <1>0, <2>1, <2>2, QuietSite, QuietRun
  <1>10. CASE MarkRun
    <2>1. /\ UNCHANGED <<file, cands, flush>> /\ run.pc = "marking"
          /\ job'.flowType = job.flowType /\ job'.lastRow = job.lastRow
          /\ run'.pos = run.pos /\ run'.start = run.start /\ run'.seen = run.seen
          /\ run'.stripped = run.stripped /\ run'.batch = run.batch
      BY <1>10, <1>01 DEF MarkRun, Counters, RunRecord, JobRecord
    <2>2. Pending' = Pending /\ Active
      BY <2>1 DEF Pending, Active
    <2>3. Pending = {} /\ run.pos > NRows
      BY <1>03, <2>1 DEF WhereInv, FlushInv
    <2>4. \A r \in Rows : r < run.pos
      BY <2>3, RowsAssumption DEF Rows, TypeOK, RunRecord
    <2>5. \A r \in Rows : Valid(r) => Landed(r)
      BY <2>2, <2>3, <2>4 DEF RunInv, HandledInv, Handled
    <2>6. SiteInv'
      BY <2>1, <2>5, QuietSite
    <2>7. RunInv'
      BY <2>1, <2>2, QuietRun
    <2> QED
      BY <1>0, <2>6, <2>7
  <1>11. CASE \/ OpenBlind \/ RowThrows \/ DuplicateCheckFails \/ MarkLost
              \/ Shutdown \/ ManagerMarks \/ ManagerFails
    BY <1>11, <1>01, <1>02 DEF OpenBlind, RowThrows, DuplicateCheckFails, MarkLost, Shutdown,
       ManagerMarks, ManagerFails, CrashOnly
  <1>12. CASE \E f \in Flushes : FlushNext(f)
    <2>1. PICK f \in Flushes : FlushNext(f)
      BY <1>12
    <2>2. f = "main"
      BY <2>1, FlushNextWhere
    <2>3. CASE InsertRow("main")
      BY <1>0, <2>3, InsertCrash
    <2>4. CASE WriteCheckpoint("main")
      BY <1>0, <2>4, CheckpointCrash
    <2>5. CASE BatchReturns("main")
      <3>1. /\ UNCHANGED <<file, job, cands>> /\ flush["main"].phase = "insert"
            /\ run'.pos = run.pos /\ run'.start = run.start /\ run'.seen = run.seen
            /\ run'.stripped = run.stripped /\ run'.batch = run.batch
            /\ flush'["main"].todo = flush["main"].todo
        BY <2>5, <1>01 DEF BatchReturns, RunRecord, TypeOK, Flushes, FlushRecord
      <3>2. Pending' = Pending /\ Active
        BY <1>02, <3>1 DEF Pending, Active
      <3> QED
        BY <1>0, <3>1, <3>2, QuietSite, QuietRun
    <2> QED
      BY <1>01, <2>1, <2>2, <2>3, <2>4, <2>5
         DEF FlushNext, InsertRowFails, LinkFails, BatchThrows, CheckpointLost
  <1>13. CASE ProcessEnds
    <2>1. UNCHANGED <<file, job, cands>> /\ run'.pc = "idle" /\ flush'["main"].phase = "idle"
      BY <1>13 DEF ProcessEnds, IdleRun, IdleFlush, Flushes
    <2>2. ~ Active'
      BY <2>1 DEF Active
    <2> QED
      BY <1>0, <2>1, <2>2, QuietSite, QuietRun
  <1>14. CASE Restart \/ SweepFindsNothing \/ ResumeRefused \/ UNCHANGED vars
    <2>1. UNCHANGED <<file, job, cands, run, flush>>
      BY <1>14 DEF Restart, SweepFindsNothing, ResumeRefused, vars
    <2>2. Pending' = Pending /\ Active' = Active
      BY <2>1 DEF Pending, Active
    <2> QED
      BY <1>0, <2>1, <2>2, QuietSite, QuietRun
  <1> QED
    BY <1>1, <1>2, <1>3, <1>4, <1>5, <1>6, <1>7, <1>8, <1>9, <1>10, <1>11, <1>12, <1>13, <1>14
       DEF Next, Sweep, RunNext

LEMMA InitCrash == Init => CrashInv
  <1> SUFFICES ASSUME Init PROVE CrashInv
    OBVIOUS
  <1>1. DOMAIN cands = {} /\ run.pc = "idle" /\ job.status = "NONE" /\ job.lastRow = 0
    BY DEF Init, IdleRun, NoJob
  <1>2. \A r \in Rows : ~ (r <= 0)
    BY DEF Rows
  <1>3. SiteInv
    BY <1>1, <1>2 DEF SiteInv, RecordInv, CheckpointCoversRows, CompletedIsComplete, RowsValid
  <1>4. RunInv
    <2>1. flush["main"].phase = "idle"
      BY DEF Init, IdleFlush, Flushes
    <2> QED
      BY <1>1, <2>1 DEF RunInv, HandledInv, SeenInv, StrippedInv, Active
  <1>5. NoOrphan
    BY DEF Init, NoOrphan, IdleFlush, Flushes
  <1> QED
    BY <1>3, <1>4, <1>5, InitWhere DEF CrashInv

LEMMA CrashAlways == CrashOnly => (Spec => []CrashInv)
  <1> SUFFICES ASSUME CrashOnly PROVE Spec => []CrashInv
    OBVIOUS
  <1>1. TypeOK /\ CrashInv /\ [Next]_vars => CrashInv'
    BY CrashStep
  <1> QED
    BY <1>1, InitCrash, TypeCorrect, PTL DEF Spec

\* The invariant of ImportPipelineInvariant holds of every resumption: what a run has
\* passed is in the database or about to be, wherever earlier processes were killed.
THEOREM ResumptionHolds == CrashOnly => (Spec => []ResumptionInv)
  <1> SUFFICES ASSUME CrashOnly PROVE Spec => []ResumptionInv
    OBVIOUS
  <1>1. CrashInv => ResumptionInv
    BY DEF CrashInv, WhereInv, RunInv, SiteInv, ResumptionInv
  <1> QED
    BY <1>1, CrashAlways, PTL

\* No row at or below last_committed_row is lost, whatever batch, crash and resumption
\* put the checkpoint there.
THEOREM CommittedRowsLanded == CrashOnly => (Spec => []CheckpointCoversRows)
  <1> SUFFICES ASSUME CrashOnly PROVE Spec => []CheckpointCoversRows
    OBVIOUS
  <1>1. CrashInv => CheckpointCoversRows
    BY DEF CrashInv, SiteInv
  <1> QED
    BY <1>1, CrashAlways, PTL

\* A job killed and resumed any number of times is only reported COMPLETED when every
\* valid row of its file is in the database.
THEOREM CompletedJobsAreComplete == CrashOnly => (Spec => []CompletedIsComplete)
  <1> SUFFICES ASSUME CrashOnly PROVE Spec => []CompletedIsComplete
    OBVIOUS
  <1>1. CrashInv => CompletedIsComplete
    BY DEF CrashInv, SiteInv
  <1> QED
    BY <1>1, CrashAlways, PTL

\* The inserter of a resumed run never writes a row at or below the checkpoint again.
THEOREM CommittedRowsAreNotRewritten == CrashOnly => (Spec => NoRewriteBelowCheckpoint)
  <1> SUFFICES ASSUME CrashOnly PROVE Spec => NoRewriteBelowCheckpoint
    OBVIOUS
  <1> DEFINE Kept == \A r \in Rows : r <= job.lastRow =>
                       \A i \in DOMAIN cands' : cands'[i].row = r =>
                           i \in DOMAIN cands /\ cands[i].row = r
  <1>1. ASSUME TypeOK, CrashInv, [Next]_vars PROVE [Kept]_cands
    <2>1. CASE InsertRow("main")
      <3>1. PICK w \in Rows : Inserting("main", w) /\ SaveRecord("main", w, 0)
        BY <2>1 DEF InsertRow
      <3>2. Fresh(w)
        BY <1>1, <3>1, WrittenIsFresh DEF CrashInv
      <3>3. UNCHANGED <<file, job>>
        BY <2>1 DEF InsertRow
      <3>4. \A i \in DOMAIN cands' :
                cands'[i].row # w => i \in DOMAIN cands /\ cands'[i].row = cands[i].row
        BY <1>1, <3>1, <3>2, <3>3, SavedKeeps DEF CrashInv, SiteInv, Flushes
      <3>5. job.lastRow \in Nat /\ \A q \in Rows : q \in Nat
        BY <1>1 DEF TypeOK, JobRecord, Rows
      <3>6. \A q \in Rows : q <= job.lastRow => q # w
        BY <3>2, <3>5 DEF Fresh
      <3> QED
        BY <3>4, <3>6
    <2>2. CASE ~ InsertRow("main")
      <3>1. ~ Fault
        BY <1>1, NoFault
      <3>2. \A f \in Flushes : FlushNext(f) => f = "main"
        BY <1>1, FlushNextWhere DEF CrashInv
      <3>3. UNCHANGED cands
        BY <1>1, <2>2, <3>1, <3>2 DEF Next, Sweep, RunNext, FlushNext, Upload, Resume,
           SweepFindsNothing, ResumeRefused, Open, OpenBlind, ReadRow, RejectRow, RowThrows,
           SkipDuplicate, BatchRow, DuplicateCheckFails, EndOfFile, CloseRun, FailRun, MarkRun,
           MarkLost, Leave, InsertRowFails, LinkFails, BatchThrows, BatchReturns, WriteCheckpoint,
           CheckpointLost, Shutdown, ManagerMarks, ManagerFails, ProcessEnds, Restart, vars
      <3> QED
        BY <3>3
    <2> QED
      BY <2>1, <2>2
  <1> QED
    BY <1>1, CrashAlways, TypeCorrect, PTL DEF NoRewriteBelowCheckpoint, Spec

-----------------------------------------------------------------------------
(* The ids a job records, and the records it counts.                       *)

\* The ids a run holds: those of its checkpoint and of the batch just inserted.
Uncommitted == IF flush["main"].phase = "checkpoint" THEN flush["main"].ids ELSE {}

IdsInv ==
    /\ job.ids \subseteq DOMAIN cands /\ job.created = Cardinality(job.ids)
    /\ flush["main"].ids \subseteq DOMAIN cands /\ flush["main"].ids \cap job.ids = {}
    /\ flush["main"].created = Cardinality(flush["main"].ids) /\ ~ flush["main"].isolated
    /\ flush["main"].phase = "idle" => flush["main"].ids = {}
    /\ Active => /\ run.ids = job.ids \cup Uncommitted
                 /\ run.created = Cardinality(run.ids)

\* Sets of ids are finite.
LEMMA IdsFinite ==
  ASSUME TypeOK, NEW S \in SUBSET DOMAIN cands
  PROVE  IsFiniteSet(S) /\ Cardinality(S) \in Nat
  <1>1. Len(cands) \in Nat /\ DOMAIN cands = 1 .. Len(cands)
    BY DEF TypeOK
  <1>2. IsFiniteSet(DOMAIN cands)
    BY <1>1, FS_Interval
  <1>3. IsFiniteSet(S)
    BY <1>2, FS_Subset
  <1> QED
    BY <1>3, FS_CardinalityType

\* The union of two separate sets of ids.
LEMMA IdsUnion ==
  ASSUME TypeOK, NEW S \in SUBSET DOMAIN cands, NEW T \in SUBSET DOMAIN cands, S \cap T = {}
  PROVE  Cardinality(S \cup T) = Cardinality(S) + Cardinality(T)
  <1>1. /\ IsFiniteSet(S) /\ Cardinality(S) \in Nat
        /\ IsFiniteSet(T) /\ Cardinality(T) \in Nat
    BY IdsFinite
  <1>2. Cardinality(S \cup T) = Cardinality(S) + Cardinality(T) - Cardinality(S \cap T)
    BY <1>1, FS_Union
  <1>3. Cardinality(S \cap T) = 0
    BY FS_EmptySet
  <1> QED
    BY <1>1, <1>2, <1>3

\* Steps that record, count and write nothing: the locals stay or are dropped.
LEMMA QuietIds ==
  ASSUME IdsInv, UNCHANGED cands, job'.ids = job.ids, job'.created = job.created,
         \/ flush'["main"] = flush["main"]
         \/ /\ flush'["main"].ids = {} /\ flush'["main"].created = 0
            /\ ~ flush'["main"].isolated
            /\ flush["main"].phase # "checkpoint" \/ ~ Active'
            /\ flush'["main"].phase # "checkpoint",
         \/ ~ Active'
         \/ Active /\ run'.ids = run.ids /\ run'.created = run.created
         \/ run'.ids = job.ids /\ run'.created = job.created /\ flush["main"].phase # "checkpoint"
  PROVE  IdsInv'
  <1> USE DEF IdsInv
  <1>1. /\ job'.ids \subseteq DOMAIN cands' /\ job'.created = Cardinality(job'.ids)
        /\ flush'["main"].ids \subseteq DOMAIN cands' /\ flush'["main"].ids \cap job'.ids = {}
        /\ ~ flush'["main"].isolated
        /\ flush'["main"].phase = "idle" => flush'["main"].ids = {}
    OBVIOUS
  <1>2. flush'["main"].created = Cardinality(flush'["main"].ids)
    BY FS_EmptySet
  <1>3. ASSUME Active'
        PROVE  run'.ids = job'.ids \cup Uncommitted' /\ run'.created = Cardinality(run'.ids)
    <2>1. Uncommitted' = Uncommitted
      BY <1>3 DEF Uncommitted
    <2>2. CASE Active /\ run'.ids = run.ids /\ run'.created = run.created
      BY <2>1, <2>2
    <2>3. CASE run'.ids = job.ids /\ run'.created = job.created /\ flush["main"].phase # "checkpoint"
      <3>1. Uncommitted = {}
        BY <2>3 DEF Uncommitted
      <3> QED
        BY <2>1, <2>3, <3>1
    <2> QED
      BY <1>3, <2>2, <2>3
  <1> QED
    BY <1>1, <1>2, <1>3

\* A record created is counted and its id kept; one updated is neither.
LEMMA InsertIds ==
  ASSUME TypeOK, IdsInv, InsertRow("main")
  PROVE  IdsInv'
  <1> USE DEF IdsInv
  <1>0. flush \in [Flushes -> FlushRecord] /\ run \in RunRecord /\ "main" \in Flushes
    BY DEF TypeOK, Flushes
  <1>1. PICK r \in Rows : Inserting("main", r) /\ SaveRecord("main", r, 0)
    BY DEF InsertRow
  <1>2. /\ UNCHANGED job /\ run'.pc = run.pc /\ run'.ids = run.ids /\ run'.created = run.created
    BY <1>0 DEF InsertRow, RunRecord
  <1>3. flush["main"].phase = "insert"
    BY <1>1 DEF Inserting
  <1>4. ASSUME flush'["main"].phase = "insert", job'.ids \subseteq DOMAIN cands',
               flush'["main"].ids \subseteq DOMAIN cands', flush'["main"].ids \cap job.ids = {},
               flush'["main"].created = Cardinality(flush'["main"].ids),
               ~ flush'["main"].isolated
        PROVE  IdsInv'
    <2>1. Uncommitted = {} /\ Uncommitted' = {} /\ Active' /\ Active
      BY <1>2, <1>3, <1>4 DEF Uncommitted, Active
    <2> QED
      BY <1>2, <1>4, <2>1
  <1>5. ASSUME NEW i \in Existing(r), cands' = [cands EXCEPT ![i].row = r],
               flush' = [flush EXCEPT !["main"].todo = @ \ {r}, !["main"].updated = @ + 1,
                                      !["main"].failed = @ + 0]
        PROVE  IdsInv'
    <2>1. DOMAIN cands' = DOMAIN cands
      BY <1>5 DEF TypeOK
    <2>2. /\ flush'["main"].ids = flush["main"].ids /\ flush'["main"].phase = flush["main"].phase
          /\ flush'["main"].created = flush["main"].created
          /\ flush'["main"].isolated = flush["main"].isolated
      BY <1>0, <1>5 DEF FlushRecord
    <2> QED
      BY <1>2, <1>3, <1>4, <2>1, <2>2
  <1>6. ASSUME cands' = Append(cands, [key |-> IdentityOf(r), row |-> r]),
               flush' = [flush EXCEPT !["main"].todo = @ \ {r}, !["main"].created = @ + 1,
                                 !["main"].failed = @ + 0, !["main"].ids = @ \cup {Len(cands) + 1}]
        PROVE  IdsInv'
    <2> DEFINE i == Len(cands) + 1
    <2>1. i \notin DOMAIN cands /\ DOMAIN cands' = DOMAIN cands \cup {i}
      <3>1. cands \in Seq(CandRecord)
        BY DEF TypeOK
      <3>2. [key |-> IdentityOf(r), row |-> r] \in CandRecord
        BY DEF CandRecord, IdentityOf
      <3>3. cands' \in Seq(CandRecord) /\ Len(cands') = Len(cands) + 1
        BY <1>6, <3>1, <3>2
      <3>4. DOMAIN cands = 1 .. Len(cands) /\ DOMAIN cands' = 1 .. Len(cands') /\ Len(cands) \in Nat
        BY <3>1, <3>3
      <3> QED
        BY <3>3, <3>4
    <2>2. /\ flush'["main"].ids = flush["main"].ids \cup {i}
          /\ flush'["main"].phase = flush["main"].phase
          /\ flush'["main"].created = flush["main"].created + 1
          /\ flush'["main"].isolated = flush["main"].isolated
      BY <1>0, <1>6 DEF FlushRecord
    <2> HIDE DEF i
    <2>3. IsFiniteSet(flush["main"].ids)
      BY IdsFinite
    <2>4. i \notin flush["main"].ids /\ i \notin job.ids
      BY <2>1
    <2>5. Cardinality(flush["main"].ids \cup {i}) = Cardinality(flush["main"].ids) + 1
      BY <2>3, <2>4, FS_AddElement
    <2> QED
      BY <1>2, <1>3, <1>4, <2>1, <2>2, <2>4, <2>5
  <1> QED
    BY <1>1, <1>5, <1>6 DEF SaveRecord

\* The batch inserter returns the records it created; the run counts them.
LEMMA ReturnIds ==
  ASSUME TypeOK, WhereInv, IdsInv, BatchReturns("main")
  PROVE  IdsInv'
  <1> USE DEF IdsInv
  <1>1. flush["main"] \in FlushRecord /\ run \in RunRecord
    BY DEF TypeOK, Flushes
  <1>2. /\ UNCHANGED <<cands, job>> /\ flush["main"].phase = "insert"
        /\ run'.pc = run.pc /\ run'.ids = run.ids \cup flush["main"].ids
        /\ run'.created = run.created + flush["main"].created
    BY <1>1 DEF BatchReturns, RunRecord
  <1>3. /\ flush'["main"].ids = flush["main"].ids /\ flush'["main"].phase = "checkpoint"
        /\ flush'["main"].created = flush["main"].created
        /\ flush'["main"].isolated = flush["main"].isolated
    BY <1>1 DEF BatchReturns, TypeOK, Flushes, FlushRecord
  <1>4. Active /\ Uncommitted = {} /\ Uncommitted' = flush["main"].ids
    BY <1>2, <1>3 DEF WhereInv, FlushInv, Active, Uncommitted
  <1>5. Cardinality(job.ids \cup flush["main"].ids) = Cardinality(job.ids) + Cardinality(flush["main"].ids)
    BY IdsUnion
  <1>6. run.ids = job.ids /\ run.created = Cardinality(job.ids)
    BY <1>4
  <1> QED
    BY <1>2, <1>3, <1>4, <1>5, <1>6

\* The checkpoint records the ids of the batch with the counters that include it.
LEMMA CheckpointIds ==
  ASSUME TypeOK, WhereInv, IdsInv, WriteCheckpoint("main")
  PROVE  IdsInv'
  <1> USE DEF IdsInv
  <1>1. flush["main"].phase = "checkpoint" /\ UNCHANGED cands
    BY DEF WriteCheckpoint
  <1>2. job' = [job EXCEPT !.lastRow = flush["main"].last, !.created = run.created,
                    !.updated = run.updated, !.dups = run.dups, !.failed = run.failed,
                    !.ids = job.ids \cup flush["main"].ids]
    BY DEF WriteCheckpoint, Checkpointed
  <1>3. job'.created = run.created /\ job'.ids = job.ids \cup flush["main"].ids
    BY <1>2 DEF TypeOK, JobRecord
  <1>4. PICK n \in 1 .. BatchSize :
            run' = [run EXCEPT !.size = n, !.pc = IF run.pc = "flushing" THEN "reading" ELSE @]
    BY DEF WriteCheckpoint, FlushReturns
  <1>5. run'.ids = run.ids /\ run'.created = run.created
    BY <1>4 DEF TypeOK, RunRecord
  <1>6. flush'["main"] = IdleFlush
    BY DEF WriteCheckpoint, FlushReturns, TypeOK, Flushes
  <1>7. /\ flush'["main"].ids = {} /\ flush'["main"].created = 0
        /\ ~ flush'["main"].isolated /\ flush'["main"].phase = "idle"
    BY <1>6 DEF IdleFlush
  <1>8. Active /\ Uncommitted = flush["main"].ids /\ Uncommitted' = {}
    BY <1>1, <1>7 DEF WhereInv, FlushInv, Active, Uncommitted
  <1>9. run.ids = job.ids \cup flush["main"].ids /\ run.created = Cardinality(run.ids)
    BY <1>8
  <1> QED
    BY <1>1, <1>3, <1>5, <1>7, <1>8, <1>9, FS_EmptySet

LEMMA IdsStep ==
  ASSUME TypeOK, CrashInv, IdsInv, CrashOnly, [Next]_vars
  PROVE  IdsInv'
  <1>01. ~ Fault /\ run \in RunRecord /\ job \in JobRecord /\ flush \in [Flushes -> FlushRecord]
         /\ "main" \in Flushes
    BY NoFault DEF TypeOK, Flushes
  <1>02. /\ WhereInv
         /\ run.pc = "flushing" <=> flush["main"].phase # "idle"
         /\ server # "draining" /\ manager # "pending" /\ ~ run.aborting
    BY DEF CrashInv, WhereInv, FlushInv, NoAbort, NoOrphan
  <1>1. CASE Upload \/ Resume
    <2>1. /\ UNCHANGED <<cands, flush>> /\ job'.ids = job.ids /\ job'.created = job.created
          /\ run'.pc = "opening" /\ run.pc = "idle"
      BY <1>1, <1>01 DEF Upload, Resume, Busy, RunRecord, JobRecord
    <2>2. ~ Active'
      BY <1>02, <2>1 DEF Active
    <2> QED
      BY <2>1, <2>2, QuietIds
  <1>2. CASE Open
    <2>1. /\ UNCHANGED <<cands, flush>> /\ job'.ids = job.ids /\ job'.created = job.created
          /\ run.pc = "opening" /\ run'.ids = job.ids /\ run'.created = job.created
      BY <1>2, <1>01 DEF Open, IdleRun, JobRecord
    <2>2. flush["main"].phase # "checkpoint"
      BY <1>02, <2>1
    <2> QED
      BY <2>1, <2>2, QuietIds
  <1>3. CASE ReadRow \/ RejectRow \/ SkipDuplicate \/ CloseRun \/ Leave
    <2>1. /\ UNCHANGED <<cands, flush, job>> /\ run'.ids = run.ids /\ run'.created = run.created
          /\ run.pc \notin {"idle", "opening"}
      BY <1>3, <1>01 DEF ReadRow, RejectRow, SkipDuplicate, CloseRun, Leave, NextRow, RunRecord
    <2>2. Active
      BY <2>1 DEF Active
    <2> QED
      BY <2>1, <2>2, QuietIds
  <1>4. CASE BatchRow
    <2> DEFINE rows == run.batch \cup {run.pos}
               rn   == [run EXCEPT !.seen = @ \cup {file[run.pos]},
                                   !.stripped = IF IsStripped(run.pos) THEN @ \cup {run.pos} ELSE @]
    <2>1. /\ UNCHANGED <<cands, job>> /\ run.pc = "row"
          /\ \/ /\ run' = [rn EXCEPT !.pc = "flushing", !.pos = @ + 1, !.batch = {}]
                /\ flush' = [flush EXCEPT !["main"] = FlushOf(rows)]
             \/ run' = NextRow([rn EXCEPT !.batch = rows]) /\ UNCHANGED flush
      BY <1>4 DEF BatchRow, Batched
    <2>2. DOMAIN rn = {"pc", "pos", "start", "processed", "created", "updated", "dups", "failed",
                       "attempt", "batch", "seen", "stripped", "aborting", "resolver", "ids", "size",
                       "mark"}
          /\ rn.ids = run.ids /\ rn.created = run.created
      BY <1>01 DEF RunRecord
    <2>3. rows \in SUBSET Rows /\ rows # {}
      BY <1>01, <2>1 DEF RunRecord, TypeOK
    <2> HIDE DEF rn, rows
    <2>4. run'.ids = run.ids /\ run'.created = run.created
      BY <2>1, <2>2 DEF NextRow
    <2>5. \/ UNCHANGED flush
          \/ flush'["main"] = FlushOf(rows)
      BY <1>01, <2>1
    <2>6. /\ FlushOf(rows).ids = {} /\ FlushOf(rows).created = 0 /\ ~ FlushOf(rows).isolated
          /\ FlushOf(rows).phase = "insert"
      BY <2>3, BatchFlushed
    <2>7. Active /\ flush["main"].phase = "idle"
      BY <1>01, <1>02, <2>1 DEF Active, FlushRecord
    <2> QED
      BY <2>1, <2>4, <2>5, <2>6, <2>7, QuietIds
  <1>5. CASE EndOfFile
    <2>1. /\ UNCHANGED <<cands, job>> /\ run.pc = "reading"
          /\ run'.ids = run.ids /\ run'.created = run.created
          /\ \/ UNCHANGED flush
             \/ run.batch # {} /\ flush'["main"] = FlushOf(run.batch)
      BY <1>5, <1>01 DEF EndOfFile, RunRecord
    <2>2. run.batch \in SUBSET Rows
      BY <1>01 DEF RunRecord
    <2>3. run.batch # {} => /\ FlushOf(run.batch).ids = {} /\ FlushOf(run.batch).created = 0
                            /\ ~ FlushOf(run.batch).isolated
                            /\ FlushOf(run.batch).phase = "insert"
      BY <2>2, BatchFlushed
    <2>4. Active /\ flush["main"].phase = "idle"
      BY <1>01, <1>02, <2>1 DEF Active, FlushRecord
    <2> QED
      BY <2>1, <2>3, <2>4, QuietIds
  <1>6. CASE FailRun \/ MarkRun
    <2>1. /\ UNCHANGED <<cands, flush>> /\ run.pc \in {"closing", "marking"}
          /\ job'.created = run.created /\ job'.ids \in {job.ids, job.ids \cup run.ids}
          /\ run'.ids = run.ids /\ run'.created = run.created
      BY <1>6, <1>01 DEF FailRun, Throws, MarkRun, Counters, JobRecord, RunRecord
    <2>2. run.ids = job.ids /\ run.created = job.created /\ Active
      BY <1>02, <2>1 DEF IdsInv, Active, Uncommitted
    <2>3. job'.ids = job.ids /\ job'.created = job.created
      BY <2>1, <2>2
    <2> QED
      BY <2>1, <2>2, <2>3, QuietIds
  <1>7. CASE \/ OpenBlind \/ RowThrows \/ DuplicateCheckFails \/ MarkLost
             \/ Shutdown \/ ManagerMarks \/ ManagerFails
    BY <1>7, <1>01, <1>02 DEF OpenBlind, RowThrows, DuplicateCheckFails, MarkLost, Shutdown,
       ManagerMarks, ManagerFails, CrashOnly
  <1>8. CASE \E f \in Flushes : FlushNext(f)
    <2>1. PICK f \in Flushes : FlushNext(f)
      BY <1>8
    <2>2. f = "main"
      BY <1>02, <2>1, FlushNextWhere
    <2> QED
      BY <1>01, <1>02, <2>1, <2>2, InsertIds, ReturnIds, CheckpointIds
         DEF FlushNext, InsertRowFails, LinkFails, BatchThrows, CheckpointLost
  <1>9. CASE ProcessEnds
    <2>1. UNCHANGED <<job, cands>> /\ run'.pc = "idle" /\ flush'["main"] = IdleFlush
      BY <1>9 DEF ProcessEnds, IdleRun, Flushes
    <2>2. ~ Active' /\ flush'["main"].ids = {} /\ flush'["main"].created = 0
          /\ ~ flush'["main"].isolated /\ flush'["main"].phase = "idle"
      BY <2>1 DEF Active, IdleFlush
    <2> QED
      BY <2>1, <2>2, QuietIds
  <1>10. CASE Restart \/ SweepFindsNothing \/ ResumeRefused \/ UNCHANGED vars
    <2>1. UNCHANGED <<job, cands, run, flush>>
      BY <1>10 DEF Restart, SweepFindsNothing, ResumeRefused, vars
    <2>2. ~ Active' \/ Active
      BY <2>1 DEF Active
    <2> QED
      BY <2>1, <2>2, QuietIds
  <1> QED
    BY <1>1, <1>2, <1>3, <1>4, <1>5, <1>6, <1>7, <1>8, <1>9, <1>10 DEF Next, Sweep, RunNext

\* created_count is the number of created_entity_ids whenever the host has stopped a
\* process, so that an undo by id and the reported count are about the same records.
THEOREM CreatedIdsAreCounted == CrashOnly => (Spec => []CreatedIdsMatchCount)
  <1> SUFFICES ASSUME CrashOnly PROVE Spec => []CreatedIdsMatchCount
    OBVIOUS
  <1>1. Init => IdsInv
    <2> SUFFICES ASSUME Init PROVE IdsInv
      OBVIOUS
    <2>1. run.pc = "idle" /\ flush["main"] = IdleFlush /\ job.ids = {} /\ job.created = 0
      BY DEF Init, IdleRun, NoJob, Flushes
    <2>2. /\ flush["main"].ids = {} /\ flush["main"].created = 0
          /\ ~ flush["main"].isolated /\ flush["main"].phase = "idle"
      BY <2>1 DEF IdleFlush
    <2> QED
      BY <2>1, <2>2, FS_EmptySet DEF IdsInv, Active
  <1>2. TypeOK /\ CrashInv /\ IdsInv /\ [Next]_vars => IdsInv'
    BY IdsStep
  <1>3. IdsInv => CreatedIdsMatchCount
    BY DEF IdsInv, CreatedIdsMatchCount
  <1> QED
    BY <1>1, <1>2, <1>3, CrashAlways, TypeCorrect, PTL DEF Spec

-----------------------------------------------------------------------------
(* The refinement of ImportContract.                                       *)

\* What the job is reported to be while a run, or a flush it left behind, is at work on it.
StatusInv ==
    /\ flush["main"].phase # "idle" => job.status # "COMPLETED"
    /\ run.pc \in {"reading", "row", "flushing", "closing", "marking"}
          => job.status \in {"PROCESSING", "INTERRUPTED"}
    /\ run.pc = "opening" => job.status \in {"NONE", "PROCESSING", "INTERRUPTED"}

LEMMA StatusStep ==
  ASSUME TypeOK, WhereInv, StatusInv, ~ Graceful, [Next]_vars
  PROVE  StatusInv'
  <1> USE DEF StatusInv
  <1>01. run \in RunRecord /\ job \in JobRecord
    BY DEF TypeOK
  <1>02. /\ run.pc = "flushing" => flush["main"].phase # "idle"
         /\ flush["main"].phase # "idle" => run.pc \in {"flushing", "idle"}
         /\ manager # "pending"
    BY DEF WhereInv, FlushInv
  <1>1. CASE Upload \/ Resume
    BY <1>1, <1>01 DEF Upload, Resume, Recoverable, RunRecord, JobRecord
  <1>2. CASE Open
    BY <1>2, <1>01 DEF Open, IdleRun, JobRecord
  <1>3. CASE ReadRow \/ RejectRow \/ RowThrows \/ SkipDuplicate \/ EndOfFile \/ CloseRun \/ Leave
    <2>1. /\ UNCHANGED job /\ run'.pc \in {"reading", "row", "flushing", "closing", "marking", "idle"}
          /\ run.pc \in {"reading", "row", "closing", "leaving"}
          /\ run.pc = "leaving" => run'.pc = "idle" /\ UNCHANGED flush
      BY <1>3, <1>01
         DEF ReadRow, RejectRow, RowThrows, SkipDuplicate, EndOfFile, CloseRun, Leave, NextRow,
             RunRecord
    <2> QED
      BY <2>1
  <1>4. CASE BatchRow \/ DuplicateCheckFails
    <2>1. UNCHANGED job /\ run.pc = "row"
      BY <1>4 DEF BatchRow, DuplicateCheckFails
    <2> DEFINE rn == [run EXCEPT !.seen = @ \cup {file[run.pos]},
                                 !.stripped = IF IsStripped(run.pos) THEN @ \cup {run.pos} ELSE @]
    <2>2. \/ run' = [rn EXCEPT !.pc = "flushing", !.pos = @ + 1, !.batch = {}]
          \/ run' = NextRow([rn EXCEPT !.batch = run.batch \cup {run.pos}])
      BY <1>4 DEF BatchRow, DuplicateCheckFails, Batched
    <2>3. "pc" \in DOMAIN rn
      BY <1>01 DEF RunRecord
    <2> HIDE DEF rn
    <2>4. run'.pc \in {"reading", "flushing"}
      BY <2>2, <2>3 DEF NextRow
    <2> QED
      BY <2>1, <2>4
  <1>5. CASE FailRun \/ MarkRun
    <2>1. CASE FailRun
      <3>1. run'.pc = "idle" /\ job'.status \in {"FAILED", "FAILED_INCOMPLETE"}
        BY <2>1, <1>01 DEF FailRun, FailedStatus, Counters, RunRecord, JobRecord
      <3> QED
        BY <3>1
    <2>2. CASE MarkRun
      <3>1. run'.pc = "leaving" /\ run.pc = "marking" /\ UNCHANGED flush
        BY <2>2, <1>01 DEF MarkRun, RunRecord
      <3> QED
        BY <1>02, <3>1
    <2> QED
      BY <1>5, <2>1, <2>2
  <1>6. CASE OpenBlind \/ MarkLost \/ Shutdown \/ ManagerMarks \/ ManagerFails
    BY <1>6, <1>01, <1>02 DEF OpenBlind, MarkLost, Shutdown, ManagerMarks, ManagerFails, IdleRun,
       RunRecord, JobRecord
  <1>7. CASE \E f \in Flushes : FlushNext(f)
    <2>1. PICK f \in Flushes : FlushNext(f)
      BY <1>7
    <2>2. /\ run.pc \in {"flushing", "idle"} /\ flush["main"].phase # "idle"
          /\ run'.pc \in {"flushing", "reading", "idle"}
          /\ run'.pc # "idle" => run.pc = "flushing"
      BY <1>02, <2>1, FlushNextWhere, FlushStep
    <2>3. job'.status = job.status
      BY <1>01, <2>1 DEF FlushNext, InsertRow, InsertRowFails, LinkFails, BatchThrows, BatchReturns,
         WriteCheckpoint, Checkpointed, CheckpointLost, JobRecord
    <2> QED
      BY <2>2, <2>3
  <1>8. CASE ProcessEnds
    BY <1>8 DEF ProcessEnds, IdleRun, IdleFlush, Flushes
  <1>9. CASE Restart \/ SweepFindsNothing \/ ResumeRefused \/ UNCHANGED vars
    BY <1>9 DEF Restart, SweepFindsNothing, ResumeRefused, vars
  <1> QED
    BY <1>1, <1>2, <1>3, <1>4, <1>5, <1>6, <1>7, <1>8, <1>9 DEF Next, Sweep, RunNext

\* A step that writes no record, moves no checkpoint and leaves the status alone stutters.
LEMMA QuietContract ==
  ASSUME UNCHANGED <<file, cands>>, job'.flowType = job.flowType
  PROVE  UNCHANGED <<{r \in Rows : Valid(r)}, {r \in Rows : Landed(r)}>>
  BY SameLanded

\* Each step of the pipeline is a step of the contract, or none.
LEMMA ContractStep ==
  ASSUME TypeOK, CrashInv, StatusInv, CrashOnly, [Next]_vars
  PROVE  [Contract!Next]_(Contract!vars)
  <1> DEFINE due    == {r \in Rows : Valid(r)}
             landed == {r \in Rows : Landed(r)}
  <1>01. ~ Fault /\ run \in RunRecord /\ job \in JobRecord
    BY NoFault DEF TypeOK
  <1>02. /\ WhereInv
         /\ server # "draining" /\ manager # "pending" /\ ~ run.aborting
    BY DEF CrashInv, WhereInv, NoAbort
  <1>03. CrashInv'
    BY CrashStep
  <1>04. ASSUME UNCHANGED <<file, cands>>, job'.flowType = job.flowType,
                job'.lastRow = job.lastRow, job'.status = job.status
         PROVE  UNCHANGED Contract!vars
    BY <1>04, QuietContract DEF Contract!vars
  <1>1. CASE Open
    <2>1. /\ UNCHANGED <<file, cands>> /\ job'.flowType = job.flowType
          /\ job'.lastRow = job.lastRow
          /\ job'.status = job.status \/ (job.status = "NONE" /\ job'.status = "PROCESSING")
      BY <1>1, <1>01 DEF Open, JobRecord
    <2>2. UNCHANGED <<due, landed>>
      BY <2>1, QuietContract
    <2>3. ASSUME job.status = "NONE", job'.status = "PROCESSING" PROVE Contract!Start
      BY <2>1, <2>2, <2>3 DEF Contract!Start
    <2> QED
      BY <1>04, <2>1, <2>3 DEF Contract!Next
  <1>2. CASE InsertRow("main")
    <2>1. PICK r \in Rows : Inserting("main", r) /\ SaveRecord("main", r, 0)
      BY <1>2 DEF InsertRow
    <2>2. Fresh(r) /\ UNCHANGED <<file, job>>
      BY <1>2, <2>1, WrittenIsFresh DEF CrashInv, InsertRow
    <2>3. (\A q \in Rows : Landed(q) => Landed(q)') /\ RowsValid'
      BY <2>1, <2>2, SavedKeeps DEF CrashInv, SiteInv, Flushes
    <2>4. landed \subseteq landed'
      BY <2>3
    <2>5. due' = due
      BY <2>2 DEF Valid
    <2>6. \A q \in Rows : Landed(q)' => Valid(q)'
      <3> SUFFICES ASSUME NEW q \in Rows, Landed(q)' PROVE Valid(q)'
        OBVIOUS
      <3>1. PICK i \in DOMAIN cands' : cands'[i].row = q \/ file'[q] \in Keys
        BY DEF Landed
      <3> QED
        BY <2>3, <3>1, KindsAssumption DEF RowsValid, Valid
    <2>7. landed' \subseteq due
      BY <2>5, <2>6
    <2>8. Contract!Running
      BY <1>02, <2>1 DEF Inserting, CrashInv, NoOrphan, StatusInv, Contract!Running
    <2>9. Contract!Land
      BY <2>2, <2>4, <2>5, <2>7, <2>8 DEF Contract!Land
    <2> QED
      BY <2>9 DEF Contract!Next
  <1>3. CASE WriteCheckpoint("main")
    <2>1. /\ UNCHANGED <<file, cands>> /\ flush["main"].phase = "checkpoint"
          /\ job'.lastRow = flush["main"].last /\ job'.flowType = job.flowType
          /\ job'.status = job.status
      BY <1>3 DEF WriteCheckpoint, Checkpointed, TypeOK, JobRecord
    <2>2. run.pc = "flushing" /\ job.lastRow < flush["main"].last
      BY <1>02, <2>1 DEF CrashInv, WhereInv, FlushInv, NoOrphan
    <2>3. Contract!Running
      BY <2>2 DEF StatusInv, Contract!Running
    <2>4. job'.lastRow \in Nat /\ job'.lastRow >= job.lastRow
      BY <1>01, <2>1, <2>2 DEF TypeOK, FlushRecord, JobRecord, Flushes
    <2>5. UNCHANGED <<due, landed>>
      BY <2>1, QuietContract
    <2>6. \A r \in Rows : (Landed(r)' <=> Landed(r)) /\ (Valid(r)' <=> Valid(r))
      BY <2>1, SameLanded
    <2>7. \A r \in due : r <= job'.lastRow => r \in landed
      BY <1>03, <2>6 DEF CrashInv, SiteInv, CheckpointCoversRows
    <2>8. Contract!Commit
      BY <2>1, <2>3, <2>4, <2>5, <2>7 DEF Contract!Commit
    <2> QED
      BY <2>8 DEF Contract!Next
  <1>4. CASE FailRun
    <2>1. /\ UNCHANGED <<file, cands>> /\ run.pc = "closing"
          /\ job'.flowType = job.flowType /\ job'.lastRow = job.lastRow
          /\ job'.status \in {"FAILED", "FAILED_INCOMPLETE"}
      BY <1>4, <1>01 DEF FailRun, Throws, FailedStatus, Counters, JobRecord
    <2>2. UNCHANGED <<due, landed>>
      BY <2>1, QuietContract
    <2>3. Contract!Running
      BY <2>1 DEF StatusInv, Contract!Running
    <2>4. Contract!GiveUp
      BY <2>1, <2>2, <2>3 DEF Contract!GiveUp
    <2> QED
      BY <2>4 DEF Contract!Next
  <1>5. CASE MarkRun
    <2>1. /\ UNCHANGED <<file, cands>> /\ run.pc = "marking"
          /\ job'.flowType = job.flowType /\ job'.lastRow = job.lastRow
          /\ job'.status = "COMPLETED"
      BY <1>5, <1>01, <1>02 DEF MarkRun, EndStatus, Counters, JobRecord
    <2>2. UNCHANGED <<due, landed>>
      BY <2>1, QuietContract
    <2>3. Contract!Running
      BY <2>1 DEF StatusInv, Contract!Running
    <2>4. \A r \in Rows : Valid(r) => Landed(r)
      <3>1. \A r \in Rows : Valid(r)' => Landed(r)'
        BY <1>03, <2>1 DEF CrashInv, SiteInv, CompletedIsComplete
      <3> QED
        BY <2>1, <3>1, SameLanded
    <2>5. due = landed
      <3>1. \A r \in Rows : Landed(r) => Valid(r)
        BY KindsAssumption DEF CrashInv, SiteInv, RowsValid, Landed, Valid
      <3> QED
        BY <2>4, <3>1
    <2>6. Contract!Finish
      BY <2>1, <2>2, <2>3, <2>5 DEF Contract!Finish
    <2> QED
      BY <2>6 DEF Contract!Next
  <1>6. CASE \/ OpenBlind \/ RowThrows \/ DuplicateCheckFails \/ MarkLost
             \/ Shutdown \/ ManagerMarks \/ ManagerFails
    BY <1>6, <1>01, <1>02 DEF OpenBlind, RowThrows, DuplicateCheckFails, MarkLost, Shutdown,
       ManagerMarks, ManagerFails, CrashOnly
  <1>7. CASE \E f \in Flushes : FlushNext(f)
    <2>1. PICK f \in Flushes : FlushNext(f)
      BY <1>7
    <2>2. f = "main"
      BY <1>02, <2>1, FlushNextWhere
    <2>3. CASE BatchReturns("main")
      BY <1>04, <2>3 DEF BatchReturns
    <2> QED
      BY <1>01, <1>2, <1>3, <2>1, <2>2, <2>3
         DEF FlushNext, InsertRowFails, LinkFails, BatchThrows, CheckpointLost
  <1>8. CASE \/ Upload \/ Resume \/ ReadRow \/ RejectRow \/ SkipDuplicate \/ BatchRow \/ EndOfFile
             \/ CloseRun \/ Leave \/ ProcessEnds \/ Restart \/ SweepFindsNothing \/ ResumeRefused
             \/ UNCHANGED vars
    <2>1. /\ UNCHANGED <<file, cands>> /\ job'.flowType = job.flowType
          /\ job'.lastRow = job.lastRow /\ job'.status = job.status
      BY <1>8, <1>01 DEF Upload, Resume, ReadRow, RejectRow, SkipDuplicate, BatchRow, EndOfFile,
         CloseRun, Leave, ProcessEnds, Restart, SweepFindsNothing, ResumeRefused, vars, JobRecord
    <2> QED
      BY <1>04, <2>1
  <1> QED
    BY <1>1, <1>4, <1>5, <1>6, <1>7, <1>8 DEF Next, Sweep, RunNext

\* The pipeline, killed and resumed at any point, keeps the promise of ImportContract:
\* rows land and stay, the checkpoint moves forward over landed rows only, and
\* COMPLETED is reported when all of them have landed.
THEOREM PipelineImplementsContract == CrashOnly => (Spec => ImplementsContract)
  <1> SUFFICES ASSUME CrashOnly PROVE Spec => ImplementsContract
    OBVIOUS
  <1>1. Init => StatusInv
    BY DEF Init, StatusInv, IdleRun, IdleFlush, Flushes
  <1>2. TypeOK /\ CrashInv /\ StatusInv /\ [Next]_vars => StatusInv'
    BY StatusStep DEF CrashInv, CrashOnly
  <1>3. TypeOK /\ CrashInv /\ StatusInv /\ [Next]_vars => [Contract!Next]_(Contract!vars)
    BY ContractStep
  <1>4. Init => Contract!Init
    <2> SUFFICES ASSUME Init PROVE Contract!Init
      OBVIOUS
    <2>1. DOMAIN cands = {} /\ job.lastRow = 0 /\ job.status = "NONE"
      BY DEF Init, NoJob
    <2>2. {r \in Rows : Landed(r)} = {} /\ {r \in Rows : Valid(r)} \subseteq Nat
      BY <2>1 DEF Landed, Rows
    <2> QED
      BY <2>1, <2>2 DEF Contract!Init
  <1> QED
    BY <1>1, <1>2, <1>3, <1>4, CrashAlways, TypeCorrect, PTL
       DEF Spec, ImplementsContract, Contract!Spec
=============================================================================
