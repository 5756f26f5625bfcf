------------------------ MODULE ImportPipelineProofs ------------------------
(***************************************************************************)
(* What holds of ImportPipeline for every file, batch size and number of   *)
(* crashes.                                                                *)
(***************************************************************************)
EXTENDS ImportPipelineInvariant, WellFoundedInduction, TLAPS

-----------------------------------------------------------------------------
(* Batches.                                                                *)

\* A nonempty set of rows has a last one, so that flushBatch always has a row to
\* name in its checkpoint.
LEMMA LastRowExists ==
    ASSUME NEW rows \in SUBSET Rows, rows # {}
    PROVE  \E r \in rows : \A q \in rows : q <= r
<1> DEFINE Back == {NRows - r : r \in rows}
<1>1. Back \subseteq Nat /\ Back # {}
  <2>1. \A r \in rows : NRows - r \in Nat
    BY RowsAssumption DEF Rows
  <2>2. PICK r \in rows : TRUE
    OBVIOUS
  <2>3. NRows - r \in Back
    OBVIOUS
  <2> QED BY <2>1, <2>3
<1>2. PICK x \in Back : \A y \in Back : ~ (<<y, x>> \in OpToRel(<, Nat))
  <2> HIDE DEF Back
  <2> QED BY <1>1, NatLessThanWellFounded, WFMin
<1>3. \A y \in Back : ~(y < x)
  BY <1>1, <1>2 DEF OpToRel
<1>4. PICK r \in rows : x = NRows - r
  BY <1>2
<1>5. \A q \in rows : q <= r
  BY <1>3, <1>4, RowsAssumption DEF Rows
<1> QED BY <1>4, <1>5

LEMMA FlushOfBatch ==
    ASSUME NEW rows \in SUBSET Rows, rows # {}
    PROVE  /\ FlushOf(rows) \in FlushRecord
           /\ FlushOf(rows).phase = "insert" /\ FlushOf(rows).todo = rows
           /\ FlushOf(rows).last \in rows
<1>1. LastOf(rows) \in rows
  BY LastRowExists DEF LastOf
<1>2. LastOf(rows) \in Rows
  BY <1>1
<1>3. LastOf(rows) \in 0 .. NRows
  BY <1>2, RowsAssumption DEF Rows
<1>4. IdleFlush \in FlushRecord
  BY RowsAssumption DEF IdleFlush, FlushRecord
<1>5. FlushOf(rows) \in FlushRecord
  BY <1>3, <1>4 DEF FlushOf, FlushRecord
<1>6. FlushOf(rows).phase = "insert" /\ FlushOf(rows).todo = rows
  BY DEF FlushOf, IdleFlush
<1>7. FlushOf(rows).last = LastOf(rows)
  BY DEF FlushOf, IdleFlush
<1> QED BY <1>1, <1>5, <1>6, <1>7

-----------------------------------------------------------------------------
(* Types.                                                                  *)

LEMMA IdleTypes ==
    (\A flow \in Flows : NoJob(flow) \in JobRecord) /\ IdleRun \in RunRecord /\ IdleFlush \in FlushRecord
<1>1. \A flow \in Flows : NoJob(flow) \in JobRecord
  BY RowsAssumption DEF NoJob, JobRecord, Statuses
<1>2. IdleRun \in RunRecord
  BY RowsAssumption DEF IdleRun, RunRecord
<1>3. IdleFlush \in FlushRecord
  BY RowsAssumption DEF IdleFlush, FlushRecord
<1> QED BY <1>1, <1>2, <1>3

LEMMA InitTypeOK == Init => TypeOK
<1> SUFFICES ASSUME Init PROVE TypeOK
  OBVIOUS
<1>1. cands \in Seq(CandRecord)
  BY DEF Init
<1>2. flush \in [Flushes -> FlushRecord]
  BY IdleTypes DEF Init
<1>3. run \in RunRecord /\ (run.pc = "row" => run.pos \in Rows)
  BY IdleTypes DEF Init, IdleRun
<1> QED BY <1>1, <1>2, <1>3, IdleTypes DEF Init, TypeOK

\* Saving a record keeps the types of the records and of the flush.
LEMMA SaveTypes ==
    ASSUME cands \in Seq(CandRecord), flush \in [Flushes -> FlushRecord],
           NEW f \in Flushes, NEW r \in Rows, NEW e \in Nat, SaveRecord(f, r, e)
    PROVE  cands' \in Seq(CandRecord) /\ flush' \in [Flushes -> FlushRecord]
<1>0. /\ flush[f] \in FlushRecord /\ flush[f].todo \ {r} \in SUBSET Rows
      /\ flush[f].created + 1 \in Nat /\ flush[f].updated + 1 \in Nat
      /\ flush[f].failed + e \in Nat
      /\ Len(cands) + 1 \in Nat
  BY DEF FlushRecord
<1>01. flush[f].ids \cup {Len(cands) + 1} \in SUBSET Nat
  BY <1>0 DEF FlushRecord
<1>1. ASSUME NEW i \in Existing(r), cands' = [cands EXCEPT ![i].row = r],
             flush' = [flush EXCEPT ![f].todo = @ \ {r}, ![f].updated = @ + 1,
                                    ![f].failed = @ + e]
      PROVE  cands' \in Seq(CandRecord) /\ flush' \in [Flushes -> FlushRecord]
  <2>1. i \in DOMAIN cands
    BY DEF Existing
  <2>2. cands[i] \in CandRecord
    BY <2>1
  <2>3. [cands[i] EXCEPT !.row = r] \in CandRecord
    BY <2>2 DEF CandRecord
  <2>4. cands' = [cands EXCEPT ![i] = [cands[i] EXCEPT !.row = r]]
    BY <1>1
  <2>5. cands' \in Seq(CandRecord)
    BY <2>1, <2>3, <2>4
  <2>6. flush' \in [Flushes -> FlushRecord]
    BY <1>0, <1>1 DEF FlushRecord
  <2> QED BY <2>5, <2>6
<1>2. ASSUME cands' = Append(cands, [key |-> IdentityOf(r), row |-> r]),
             flush' = [flush EXCEPT ![f].todo = @ \ {r}, ![f].created = @ + 1,
                                 ![f].failed = @ + e, ![f].ids = @ \cup {Len(cands) + 1}]
      PROVE  cands' \in Seq(CandRecord) /\ flush' \in [Flushes -> FlushRecord]
  <2>1. [key |-> IdentityOf(r), row |-> r] \in CandRecord
    BY DEF CandRecord, IdentityOf
  <2>2. cands' \in Seq(CandRecord)
    BY <1>2, <2>1
  <2>3. flush' \in [Flushes -> FlushRecord]
    <3> DEFINE n == Len(cands) + 1
    <3>1. flush' = [flush EXCEPT ![f].todo = @ \ {r}, ![f].created = @ + 1,
                                 ![f].failed = @ + e, ![f].ids = @ \cup {n}]
      BY <1>2
    <3>2. flush[f].ids \cup {n} \in SUBSET Nat
      BY <1>01
    <3> HIDE DEF n
    <3> QED BY <1>0, <3>1, <3>2 DEF FlushRecord
  <2> QED BY <2>2, <2>3
<1> QED BY <1>1, <1>2 DEF SaveRecord

\* What flushBatch does to one flush and to the run keeps the types.
LEMMA FlushTypeOK ==
    ASSUME TypeOK, NEW f \in Flushes, FlushNext(f)
    PROVE  TypeOK'
<1> USE DEF TypeOK
<1>0. flush[f] \in FlushRecord
  OBVIOUS
<1>1. CASE InsertRow(f)
  <2>1. run' \in RunRecord /\ run'.pc = run.pc /\ run'.pos = run.pos
    BY <1>1 DEF InsertRow, RunRecord
  <2>2. cands' \in Seq(CandRecord) /\ flush' \in [Flushes -> FlushRecord]
    BY <1>1, SaveTypes DEF InsertRow
  <2> QED BY <1>1, <2>1, <2>2 DEF InsertRow, process, bounds
<1>2. CASE InsertRowFails(f)
  <2>1. run' \in RunRecord /\ run'.pc = run.pc /\ run'.pos = run.pos
    BY <1>2 DEF InsertRowFails, RunRecord
  <2>2. flush' \in [Flushes -> FlushRecord]
    <3>1. PICK r \in Rows :
              flush' = [flush EXCEPT ![f].todo = @ \ {r},
                                     ![f].failed = IF flush[f].isolated THEN @ ELSE @ + 1]
      BY <1>2 DEF InsertRowFails
    <3>2. flush[f].todo \ {r} \in SUBSET Rows /\ flush[f].failed \in Nat
          /\ flush[f].failed + 1 \in Nat
      BY <1>0 DEF FlushRecord
    <3> QED BY <1>0, <3>1, <3>2 DEF FlushRecord
  <2> QED BY <1>2, <2>1, <2>2 DEF InsertRowFails, Fault, process
<1>3. CASE LinkFails(f)
  <2>1. cands' \in Seq(CandRecord) /\ flush' \in [Flushes -> FlushRecord]
    BY <1>3, SaveTypes DEF LinkFails
  <2> QED BY <1>3, <2>1 DEF LinkFails, Fault, process
<1>4. CASE BatchThrows(f)
  <2>1. run' \in RunRecord /\ run'.pc = run.pc /\ run'.pos = run.pos
    BY <1>4 DEF BatchThrows, RunRecord
  <2>2. flush' \in [Flushes -> FlushRecord]
    BY <1>0, <1>4 DEF BatchThrows, FlushRecord
  <2> QED BY <1>4, <2>1, <2>2 DEF BatchThrows, Fault, process
<1>5. CASE BatchReturns(f)
  <2>0. /\ run.created + flush[f].created \in Nat /\ run.updated + flush[f].updated \in Nat
        /\ run.failed + flush[f].failed \in Nat
        /\ run.ids \cup flush[f].ids \in SUBSET Nat
    <3>1. /\ run.created \in Nat /\ run.updated \in Nat /\ run.failed \in Nat
          /\ run.ids \in SUBSET Nat
      BY DEF RunRecord
    <3>2. /\ flush[f].created \in Nat /\ flush[f].updated \in Nat /\ flush[f].failed \in Nat
          /\ flush[f].ids \in SUBSET Nat
      BY <1>0 DEF FlushRecord
    <3>3. run.ids \cup flush[f].ids \in SUBSET Nat
      BY <3>1, <3>2
    <3> HIDE DEF TypeOK
    <3> QED BY <3>1, <3>2, <3>3
  <2>1. run' \in RunRecord /\ run'.pc = run.pc /\ run'.pos = run.pos
    BY <2>0, <1>5 DEF BatchReturns, RunRecord
  <2>2. flush' \in [Flushes -> FlushRecord]
    BY <1>0, <1>5 DEF BatchReturns, FlushRecord
  <2> QED BY <1>5, <2>1, <2>2 DEF BatchReturns, process, bounds
<1>b. ASSUME FlushReturns(f)
      PROVE  run' \in RunRecord /\ (run'.pc = "row" => run'.pos \in Rows)
             /\ flush' \in [Flushes -> FlushRecord]
  <2>1. PICK n \in 1 .. BatchSize :
          run' = [run EXCEPT !.size = n,
                             !.pc = IF f = "main" /\ run.pc = "flushing" THEN "reading" ELSE @]
    BY <1>b DEF FlushReturns
  <2>2. n \in Nat
    OBVIOUS
  <2>3. run' \in RunRecord /\ (run'.pc = "row" => run'.pos \in Rows)
    BY <2>1, <2>2 DEF RunRecord
  <2>4. flush' \in [Flushes -> FlushRecord]
    BY <1>b, IdleTypes DEF FlushReturns
  <2> QED BY <2>3, <2>4
<1>6. CASE WriteCheckpoint(f)
  <2>1. job' \in JobRecord
    BY <1>0, <1>6 DEF WriteCheckpoint, Checkpointed, JobRecord, RunRecord, FlushRecord
  <2> QED BY <1>6, <1>b, <2>1 DEF WriteCheckpoint, process, bounds
<1>7. CASE CheckpointLost(f)
  BY <1>7, <1>b DEF CheckpointLost, Fault, process
<1> QED BY <1>1, <1>2, <1>3, <1>4, <1>5, <1>6, <1>7 DEF FlushNext

\* Every step of a run, of a flush, of the manager and of the host keeps the types.
LEMMA StepTypeOK == TypeOK /\ [Next]_vars => TypeOK'
<1> SUFFICES ASSUME TypeOK, [Next]_vars PROVE TypeOK'
  OBVIOUS
<1> USE DEF TypeOK
<1>1. CASE Upload
  BY <1>1 DEF Upload, RunRecord, process, bounds
<1>2. CASE Resume
  <2>1. run' \in RunRecord /\ run'.pc = "opening"
    BY <1>2 DEF Resume, RunRecord
  <2>2. job' \in JobRecord
    BY <1>2 DEF Resume, JobRecord
  <2> QED BY <1>2, <2>1, <2>2 DEF Resume, bounds
<1>21. CASE SweepFindsNothing \/ ResumeRefused
  BY <1>21 DEF SweepFindsNothing, ResumeRefused, bounds
<1>3. CASE Open
  <2>1. job' \in JobRecord
    BY <1>3 DEF Open, JobRecord, Statuses
  <2> DEFINE attempt == IF job.status = "NONE" THEN 0 ELSE job.attempts + 1
  <2>a. attempt \in Nat /\ job.lastRow \in 0 .. NRows /\ job.created \in Nat
        /\ job.updated \in Nat /\ job.dups \in Nat /\ job.failed \in Nat
        /\ job.ids \in SUBSET Nat
    BY DEF JobRecord
  <2>b. run' = [IdleRun EXCEPT !.pc = "reading", !.start = job.lastRow,
                  !.created = job.created, !.updated = job.updated, !.dups = job.dups,
                  !.failed = job.failed, !.ids = job.ids, !.attempt = attempt]
    BY <1>3 DEF Open
  <2>2. run' \in RunRecord /\ run'.pc = "reading"
    <3> HIDE DEF attempt
    <3> QED BY <2>a, <2>b, IdleTypes DEF RunRecord
  <2> QED BY <1>3, <2>1, <2>2 DEF Open, process, bounds
<1>4. CASE OpenBlind
  <2>1. job' \in JobRecord
    BY <1>4 DEF OpenBlind, JobRecord, Statuses
  <2>2. run' \in RunRecord /\ run'.pc = "reading"
    BY <1>4, IdleTypes DEF OpenBlind, JobRecord, RunRecord
  <2> QED BY <1>4, <2>1, <2>2 DEF OpenBlind, Fault, process
<1>5. CASE ReadRow
  <2>0. run.pos \in Rows /\ run.pos + 1 \in 1 .. NRows + 1 /\ run.processed + 1 \in Nat
    BY <1>5, RowsAssumption DEF ReadRow, RunRecord, Rows
  <2>1. run' \in RunRecord /\ (run'.pc = "row" => run'.pos \in Rows)
    <3>1. CASE run' = [run EXCEPT !.pos = @ + 1]
      BY <1>5, <2>0, <3>1 DEF ReadRow, RunRecord
    <3>2. CASE run' = [run EXCEPT !.processed = @ + 1, !.pos = @ + 1]
      BY <1>5, <2>0, <3>2 DEF ReadRow, RunRecord
    <3>3. CASE run' = [run EXCEPT !.processed = @ + 1, !.pc = "row"]
      BY <1>5, <2>0, <3>3 DEF ReadRow, RunRecord
    <3> QED BY <1>5, <3>1, <3>2, <3>3 DEF ReadRow
  <2> QED BY <1>5, <2>1 DEF ReadRow, process, bounds
<1>6. CASE RejectRow
  <2>0. run.pos + 1 \in 1 .. NRows + 1 /\ run.failed + 1 \in Nat
    BY <1>6, RowsAssumption DEF RejectRow, RunRecord, Rows
  <2>a. run' = [run EXCEPT !.failed = @ + 1, !.pc = "reading", !.pos = @ + 1]
    BY <1>6 DEF RejectRow, NextRow, RunRecord
  <2>1. run' \in RunRecord /\ run'.pc = "reading"
    BY <2>0, <2>a DEF RunRecord
  <2> QED BY <1>6, <2>1 DEF RejectRow, process, bounds
<1>7. CASE SkipDuplicate
  <2>1. run.pos \in Rows /\ file[run.pos] \in Contents
    BY <1>7 DEF SkipDuplicate
  <2>0. /\ run.pos + 1 \in 1 .. NRows + 1 /\ run.dups + 1 \in Nat
        /\ run.seen \cup {file[run.pos]} \in SUBSET Contents
    BY <2>1, RowsAssumption DEF RunRecord, Rows
  <2>a. run' = [run EXCEPT !.dups = @ + 1, !.seen = @ \cup {file[run.pos]},
                           !.pc = "reading", !.pos = @ + 1]
    BY <1>7 DEF SkipDuplicate, NextRow, RunRecord
  <2>2. run' \in RunRecord /\ run'.pc = "reading"
    BY <2>0, <2>a DEF RunRecord
  <2> QED BY <1>7, <2>2 DEF SkipDuplicate, process, bounds
<1>b. ASSUME run.pc = "row", Batched(run.pos)
      PROVE  run' \in RunRecord /\ run'.pc # "row" /\ flush' \in [Flushes -> FlushRecord]
  <2>1. run.pos \in Rows /\ file[run.pos] \in Contents
    BY <1>b
  <2> DEFINE rows == run.batch \cup {run.pos}
             rn == [run EXCEPT !.seen = @ \cup {file[run.pos]},
                               !.stripped = IF IsStripped(run.pos) THEN @ \cup {run.pos} ELSE @]
  <2>2. rows \in SUBSET Rows /\ rows # {}
    BY <2>1 DEF RunRecord
  <2>3. rn \in RunRecord
    BY <2>1 DEF RunRecord
  <2>4. run.pos + 1 \in 1 .. NRows + 1
    BY <2>1, RowsAssumption DEF Rows
  <2>5. rn.pos = run.pos
    BY DEF RunRecord
  <2>6. CASE Cardinality(rows) >= run.size
    <3>1. run' = [rn EXCEPT !.pc = "flushing", !.pos = @ + 1, !.batch = {}]
          /\ flush' = [flush EXCEPT !["main"] = FlushOf(rows)]
      BY <1>b, <2>6 DEF Batched
    <3> HIDE DEF rows, rn
    <3>2. run' \in RunRecord /\ run'.pc = "flushing"
      BY <2>3, <2>4, <2>5, <3>1 DEF RunRecord
    <3>3. flush' \in [Flushes -> FlushRecord]
      BY <2>2, <3>1, FlushOfBatch
    <3> QED BY <3>2, <3>3
  <2>7. CASE ~(Cardinality(rows) >= run.size)
    <3>1. run' = NextRow([rn EXCEPT !.batch = rows]) /\ UNCHANGED flush
      BY <1>b, <2>7 DEF Batched
    <3> HIDE DEF rows, rn
    <3>2. run' \in RunRecord /\ run'.pc = "reading"
      BY <2>2, <2>3, <2>4, <2>5, <3>1 DEF RunRecord, NextRow
    <3> QED BY <3>1, <3>2
  <2> QED BY <2>6, <2>7
<1>8. CASE BatchRow
  BY <1>8, <1>b DEF BatchRow, process, bounds
<1>23. CASE DuplicateCheckFails
  <2>1. unchecked' \subseteq Rows
    BY <1>23 DEF DuplicateCheckFails
  <2> QED BY <1>23, <1>b, <2>1 DEF DuplicateCheckFails, Fault, process
<1>24. CASE RowThrows
  <2>1. run.pos \in Rows /\ file[run.pos] \in Contents
    BY <1>24 DEF RowThrows
  <2>2. run.pos + 1 \in 1 .. NRows + 1 /\ run.failed + 1 \in Nat
    BY <2>1, RowsAssumption DEF RunRecord, Rows
  <2>3. \E seen \in SUBSET Contents :
          run' = [run EXCEPT !.failed = @ + 1, !.seen = seen, !.pc = "reading", !.pos = @ + 1]
    <3>1. PICK noted \in {{}} \cup (IF Flow = "candidates" THEN {{file[run.pos]}} ELSE {}) :
            run' = NextRow([run EXCEPT !.failed = @ + 1, !.seen = @ \cup noted])
      BY <1>24 DEF RowThrows
    <3>2. run.seen \cup noted \in SUBSET Contents
      BY <2>1 DEF RunRecord
    <3>3. run' = [run EXCEPT !.failed = @ + 1, !.seen = run.seen \cup noted, !.pc = "reading",
                             !.pos = @ + 1]
      BY <3>1 DEF NextRow, RunRecord
    <3> QED BY <3>2, <3>3
  <2>4. run' \in RunRecord /\ run'.pc = "reading"
    BY <2>2, <2>3 DEF RunRecord
  <2> QED BY <1>24, <2>4 DEF RowThrows, Fault, process
<1>9. CASE EndOfFile
  <2>1. CASE run.batch = {}
    <3>0. run' = [run EXCEPT !.pc = "closing"] /\ UNCHANGED flush
      BY <1>9, <2>1 DEF EndOfFile
    <3>1. run' \in RunRecord /\ run'.pc = "closing" /\ UNCHANGED flush
      BY <3>0 DEF RunRecord
    <3> QED BY <1>9, <3>1 DEF EndOfFile, process, bounds
  <2>2. CASE run.batch # {}
    <3>0. run' = [run EXCEPT !.pc = "flushing", !.batch = {}]
      BY <1>9, <2>2 DEF EndOfFile
    <3>1. run' \in RunRecord /\ run'.pc = "flushing"
      BY <3>0 DEF RunRecord
    <3>2. run.batch \in SUBSET Rows
      BY DEF RunRecord
    <3>3. flush' \in [Flushes -> FlushRecord]
      BY <1>9, <2>2, <3>2, FlushOfBatch DEF EndOfFile
    <3> QED BY <1>9, <3>1, <3>3 DEF EndOfFile, process, bounds
  <2> QED BY <2>1, <2>2
<1>10. CASE \E f \in Flushes : FlushNext(f)
  BY <1>10, FlushTypeOK DEF TypeOK
<1>11. CASE CloseRun
  BY <1>11 DEF CloseRun, RunRecord, process, bounds
<1>12. CASE FailRun
  <2>1. job' \in JobRecord
    BY <1>12 DEF FailRun, FailedStatus, Counters, JobRecord, RunRecord, Statuses
  <2>2. run' \in RunRecord /\ run'.pc = "idle"
    BY <1>12 DEF FailRun, FailedStatus, RunRecord, Statuses
  <2>3. crashes' \in Nat /\ faults' \in Nat
    BY <1>12 DEF FailRun, Throws, Fault
  <2> QED BY <1>12, <2>1, <2>2, <2>3 DEF FailRun, process
<1>13. CASE MarkRun
  <2>1. job' \in JobRecord
    BY <1>13 DEF MarkRun, EndStatus, Counters, JobRecord, RunRecord, Statuses
  <2>2. run' \in RunRecord /\ run'.pc = "leaving"
    BY <1>13 DEF MarkRun, EndStatus, RunRecord, Statuses
  <2> QED BY <1>13, <2>1, <2>2 DEF MarkRun, process, bounds
<1>14. CASE MarkLost
  <2>1. run' \in RunRecord /\ run'.pc \in {"idle", "leaving"}
    BY <1>14 DEF MarkLost, RunRecord
  <2> QED BY <1>14, <2>1 DEF MarkLost, Fault, process
<1>20. CASE Leave
  BY <1>20 DEF Leave, RunRecord, process, bounds
<1>15. CASE Shutdown
  <2>1. run' \in RunRecord /\ run'.pc = run.pc /\ run'.pos = run.pos
    <3>1. CASE run' = [run EXCEPT !.aborting = TRUE, !.batch = {}]
      BY <3>1 DEF RunRecord
    <3>2. CASE run' = run
      BY <3>2
    <3> QED BY <1>15, <3>1, <3>2 DEF Shutdown
  <2>2. run.batch \in SUBSET Rows
    BY DEF RunRecord
  <2>3. flush' \in [Flushes -> FlushRecord]
    BY <1>15, <2>2, FlushOfBatch DEF Shutdown
  <2> QED BY <1>15, <2>1, <2>3 DEF Shutdown, bounds
<1>16. CASE ManagerMarks
  <2>1. job' \in JobRecord
    BY <1>16 DEF ManagerMarks, JobRecord, Statuses
  <2> QED BY <1>16, <2>1 DEF ManagerMarks, bounds
<1>22. CASE ManagerFails
  BY <1>22 DEF ManagerFails, Fault
<1>17. CASE ProcessEnds
  <2>1. run' \in RunRecord /\ run'.pc = "idle"
    BY <1>17, IdleTypes DEF ProcessEnds, IdleRun
  <2>2. flush' \in [Flushes -> FlushRecord]
    BY <1>17, IdleTypes DEF ProcessEnds
  <2>3. crashes' \in Nat
    BY <1>17 DEF ProcessEnds
  <2>4. server' = "down" /\ manager' = "idle" /\ swept' = "no"
        /\ UNCHANGED <<file, unchecked, job, cands, faults>>
    BY <1>17 DEF ProcessEnds
  <2> QED BY <2>1, <2>2, <2>3, <2>4
<1>18. CASE Restart
  BY <1>18 DEF Restart, bounds
<1>19. CASE UNCHANGED vars
  BY <1>19 DEF vars, process, bounds
<1> QED
  BY <1>1, <1>2, <1>3, <1>4, <1>5, <1>6, <1>7, <1>8, <1>9, <1>10, <1>11, <1>12, <1>13,
     <1>14, <1>15, <1>16, <1>17, <1>18, <1>19, <1>20, <1>21, <1>22, <1>23, <1>24
     DEF Next, RunNext, Sweep

\* The row of a record, every counter of a run and every checkpoint keep their types
\* through every file, every batch size, every crash and every swallowed error.
THEOREM TypeCorrect == Spec => []TypeOK
<1>1. Init => TypeOK
  BY InitTypeOK
<1>2. TypeOK /\ [Next]_vars => TypeOK'
  BY StepTypeOK
<1> QED BY <1>1, <1>2, PTL DEF Spec
=============================================================================
