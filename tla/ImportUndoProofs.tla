-------------------------- MODULE ImportUndoProofs --------------------------
(***************************************************************************)
(* What an undo removes and what it leaves, proved for any number of jobs, *)
(* runs, undo requests and users.                                          *)
(***************************************************************************)
EXTENDS ImportUndo, TLAPS

JobRow  == [status : {"NONE", "PROCESSING", "COMPLETED", "FAILED", "UNDONE"},
            committed : 0 .. NRows, count : Nat, ids : SUBSET Records]
RunRow  == [pc : {"idle", "reading", "inserted"}, no : 0 .. MaxRuns, row : 0 .. NRows,
            count : Nat, fresh : SUBSET Records, ids : SUBSET Records]
UndoRow == [pc : {"idle", "interviews", "feedback", "deleting", "committing", "marking"},
            job : Jobs \cup {None}, force : BOOLEAN, conflict : BOOLEAN,
            ids : SUBSET Records, gone : SUBSET Activities, standing : SUBSET Activities]

LEMMA InitTyped == Init => TypeOK
  <1> SUFFICES ASSUME Init PROVE TypeOK
    OBVIOUS
  <1>1. jobs \in [Jobs -> JobRow]
    BY UndoAssumption DEF Init, NoRow, JobRow
  <1>2. records \subseteq Records
    <2>1. PICK known \in SUBSET Rows : records = {[row |-> r, by |-> None, run |-> 0] : r \in known}
      BY DEF Init
    <2> QED  BY <2>1, UndoAssumption DEF Records
  <1>3. run \in [Jobs -> RunRow]
    BY UndoAssumption DEF Init, IdleRun, RunRow
  <1>4. undo \in [Admins -> UndoRow]
    BY DEF Init, IdleUndo, UndoRow
  <1>5. activity = {} /\ asked = {} /\ runs = 0 /\ undos = 0 /\ acts = 0
    BY DEF Init
  <1> QED
    BY <1>1, <1>2, <1>3, <1>4, <1>5, UndoAssumption DEF TypeOK, JobRow, RunRow, UndoRow

\* The row that an insertion may add.
NewRecord(j) == [row |-> run[j].row + 1, by |-> j, run |-> run[j].no]

LEMMA RunTyped ==
    ASSUME TypeOK, NEW j \in Jobs, RunNext(j)
    PROVE  TypeOK'
  <1> USE UndoAssumption
  <1>0. /\ jobs \in [Jobs -> JobRow] /\ run \in [Jobs -> RunRow] /\ undo \in [Admins -> UndoRow]
        /\ records \subseteq Records
    BY DEF TypeOK, JobRow, RunRow, UndoRow
  <1>1. /\ jobs[j] \in JobRow /\ run[j] \in RunRow
    BY <1>0
  <1>1a. /\ run[j].row \in 0 .. NRows /\ run[j].count \in Nat
         /\ run[j].ids \in SUBSET Records /\ NRows \in Nat
    BY <1>1 DEF RunRow
  <1>2. SUFFICES /\ jobs' \in [Jobs -> JobRow] /\ run' \in [Jobs -> RunRow]
                 /\ records' \subseteq Records /\ runs' \in 0 .. MaxRuns
                 /\ UNCHANGED <<activity, asked, undo, undos, acts>>
    BY <1>2 DEF TypeOK, JobRow, RunRow, UndoRow, Activities
  <1>3. CASE StartRun(j)
    <2>1. runs + 1 \in 0 .. MaxRuns
      BY <1>3 DEF StartRun, TypeOK
    <2> DEFINE r == [IdleRun EXCEPT !.pc = "reading", !.no = runs + 1,
                  !.row = jobs[j].committed, !.count = jobs[j].count, !.ids = jobs[j].ids]
    <2>2. r \in RunRow
      BY <2>1, <1>1 DEF IdleRun, RunRow, JobRow
    <2>3. run' = [run EXCEPT ![j] = r]
      BY <1>3 DEF StartRun
    <2> HIDE DEF r
    <2>4. [jobs[j] EXCEPT !.status = "PROCESSING"] \in JobRow
      BY <1>1 DEF JobRow
    <2>5. jobs' = jobs \/ jobs' = [jobs EXCEPT ![j] = [jobs[j] EXCEPT !.status = "PROCESSING"]]
      BY <1>3 DEF StartRun
    <2> QED  BY <1>0, <2>1, <2>2, <2>3, <2>4, <2>5, <1>3 DEF StartRun, bounds
  <1>4. CASE InsertRow(j)
    <2> DEFINE news == IF Existing(run[j].row + 1) # {} THEN {} ELSE {NewRecord(j)}
               r == [run[j] EXCEPT !.pc = "inserted", !.row = run[j].row + 1, !.fresh = news,
                              !.count = IF news = {} THEN run[j].count ELSE run[j].count + 1,
                              !.ids = run[j].ids \cup news]
    <2>0. run[j].row < NRows
      BY <1>4 DEF InsertRow
    <2>1. run[j].row + 1 \in Rows /\ run[j].row + 1 \in 0 .. NRows
      BY <1>1a, <2>0 DEF Rows
    <2>2. NewRecord(j) \in Records
      BY <2>1, <1>1 DEF NewRecord, Records, RunRow
    <2>3. news \in SUBSET Records
      BY <2>2
    <2>4. run' = [run EXCEPT ![j] = r] /\ records' = records \cup news
      BY <1>4, Zenon DEF InsertRow, NewRecord
    <2> HIDE DEF news
    <2> DEFINE n == IF news = {} THEN run[j].count ELSE run[j].count + 1
    <2>5. n \in Nat
      BY <1>1a
    <2> HIDE DEF n
    <2>6. [run[j] EXCEPT !.pc = "inserted", !.row = run[j].row + 1, !.fresh = news,
                         !.count = n, !.ids = run[j].ids \cup news] \in RunRow
      BY <1>1, <1>1a, <2>1, <2>3, <2>5 DEF RunRow
    <2>7. r \in RunRow
      BY <2>6 DEF n
    <2> HIDE DEF r
    <2>8. UNCHANGED <<jobs, activity, asked, undo, runs, undos, acts>>
      BY <1>4 DEF InsertRow, bounds
    <2>9. runs \in 0 .. MaxRuns
      BY DEF TypeOK
    <2> QED  BY <1>0, <2>3, <2>4, <2>7, <2>8, <2>9
  <1>5. CASE RowFails(j)
    <2> DEFINE r == [run[j] EXCEPT !.pc = "inserted", !.row = @ + 1, !.fresh = {}]
    <2>0. run[j].row < NRows
      BY <1>5 DEF RowFails
    <2>1. run[j].row + 1 \in 0 .. NRows
      BY <1>1a, <2>0
    <2>3. r \in RunRow
      BY <1>1, <2>1 DEF RunRow
    <2>2. run' = [run EXCEPT ![j] = r]
      BY <1>5 DEF RowFails
    <2> HIDE DEF r
    <2> QED  BY <1>0, <2>3, <2>2, <1>5 DEF RowFails, TypeOK, bounds
  <1>6. CASE Checkpoint(j)
    <2>1. PICK listed \in {run[j].fresh, {}} :
            jobs' = [jobs EXCEPT ![j].committed = run[j].row, ![j].count = run[j].count,
                                 ![j].ids = @ \cup listed]
      BY <1>6 DEF Checkpoint
    <2> DEFINE q == [jobs[j] EXCEPT !.committed = run[j].row, !.count = run[j].count,
                                    !.ids = @ \cup listed]
               r == [run[j] EXCEPT !.pc = "reading", !.fresh = {}]
    <2>2. q \in JobRow /\ r \in RunRow
      BY <1>1 DEF JobRow, RunRow
    <2>3. jobs' = [jobs EXCEPT ![j] = q]
      BY <2>1
    <2>4. run' = [run EXCEPT ![j] = r]
      BY <1>6 DEF Checkpoint
    <2> HIDE DEF q, r
    <2> QED  BY <1>0, <2>2, <2>3, <2>4, <1>6 DEF Checkpoint, TypeOK, bounds
  <1>7. IdleRun \in RunRow
    BY DEF IdleRun, RunRow
  <1>8. CASE CompleteRun(j)
    <2> DEFINE q == [jobs[j] EXCEPT !.status = "COMPLETED", !.count = run[j].count,
                                    !.ids = @ \cup run[j].ids]
    <2>1. q \in JobRow
      BY <1>1 DEF JobRow, RunRow
    <2>2. jobs' = [jobs EXCEPT ![j] = q] /\ run' = [run EXCEPT ![j] = IdleRun]
      BY <1>8 DEF CompleteRun
    <2> HIDE DEF q
    <2> QED  BY <1>0, <1>7, <2>1, <2>2, <1>8 DEF CompleteRun, TypeOK, bounds
  <1>9. CASE FailRun(j)
    <2> DEFINE q == [jobs[j] EXCEPT !.status = "FAILED", !.count = run[j].count]
    <2>1. q \in JobRow
      BY <1>1 DEF JobRow, RunRow
    <2>2. jobs' = [jobs EXCEPT ![j] = q] /\ run' = [run EXCEPT ![j] = IdleRun]
      BY <1>9 DEF FailRun
    <2> HIDE DEF q
    <2> QED  BY <1>0, <1>7, <2>1, <2>2, <1>9 DEF FailRun, TypeOK, bounds
  <1> QED
    BY <1>3, <1>4, <1>5, <1>6, <1>8, <1>9 DEF RunNext

LEMMA UndoTyped ==
    ASSUME TypeOK, NEW u \in Admins, UndoNext(u)
    PROVE  TypeOK'
  <1>0. /\ jobs \in [Jobs -> JobRow] /\ undo \in [Admins -> UndoRow] /\ undo[u] \in UndoRow
        /\ records \subseteq Records /\ activity \subseteq Activities
    BY DEF TypeOK, JobRow, UndoRow
  <1>1. IdleUndo \in UndoRow
    BY DEF IdleUndo, UndoRow
  <1>2. SUFFICES /\ jobs' \in [Jobs -> JobRow] /\ undo' \in [Admins -> UndoRow]
                 /\ records' \subseteq Records /\ activity' \subseteq Activities
                 /\ undos' \in 0 .. MaxUndos /\ UNCHANGED <<asked, run, runs, acts>>
    BY <1>2 DEF TypeOK, JobRow, UndoRow
  <1>3. undos \in 0 .. MaxUndos
    BY DEF TypeOK
  <1>4. ASSUME NEW j \in Jobs, NEW force \in BOOLEAN, ReadJob(u, j, force)
        PROVE  /\ undo' \in [Admins -> UndoRow] /\ undos' \in 0 .. MaxUndos
               /\ UNCHANGED <<jobs, records, activity, asked, run, runs, acts>>
    <2> DEFINE pc == IF jobs[j].ids # {} THEN "interviews"
                     ELSE IF jobs[j].count = 0 THEN "marking" ELSE "deleting"
               r == [IdleUndo EXCEPT !.job = j, !.force = force, !.ids = jobs[j].ids,
                     !.standing = activity \cap ({"interview", "feedback"} \X Records), !.pc = pc]
    <2>1. undo' = [undo EXCEPT ![u] = r] /\ undos' = undos + 1 /\ undos < MaxUndos
          /\ UNCHANGED <<jobs, records, activity, asked, run, runs, acts>>
      BY <1>4 DEF ReadJob
    <2>2. pc \in {"interviews", "marking", "deleting"}
      OBVIOUS
    <2> HIDE DEF pc
    <2>3. jobs[j].ids \in SUBSET Records
      BY <1>0 DEF JobRow
    <2>4. activity \cap ({"interview", "feedback"} \X Records) \in SUBSET Activities
      BY <1>0
    <2>5. r \in UndoRow
      BY <1>1, <2>2, <2>3, <2>4 DEF UndoRow
    <2> HIDE DEF r
    <2>6. undo' \in [Admins -> UndoRow]
      BY <2>1, <2>5, <1>0
    <2>7. undos' \in 0 .. MaxUndos
      BY <2>1, <1>3, UndoAssumption
    <2> QED  BY <2>1, <2>6, <2>7
  <1>5. CASE CheckInterviews(u)
    <2>1. Conflict(u, "interview") \in BOOLEAN
      BY DEF Conflict
    <2> DEFINE r == [undo[u] EXCEPT !.pc = "feedback", !.conflict = Conflict(u, "interview")]
    <2>2. r \in UndoRow
      BY <1>0, <2>1, Zenon DEF UndoRow
    <2>3. undo' = [undo EXCEPT ![u] = r]
      BY <1>5 DEF CheckInterviews
    <2> HIDE DEF r
    <2> QED  BY <1>0, <1>3, <2>2, <2>3, <1>5 DEF CheckInterviews, bounds
  <1>6. CASE CheckFeedback(u)
    <2> DEFINE r == [undo[u] EXCEPT !.pc = "deleting"]
    <2>1. r \in UndoRow
      BY <1>0 DEF UndoRow
    <2>2. undo' = [undo EXCEPT ![u] = r] \/ undo' = [undo EXCEPT ![u] = IdleUndo]
      BY <1>6 DEF CheckFeedback
    <2> HIDE DEF r
    <2> QED  BY <1>0, <1>1, <1>3, <2>1, <2>2, <1>6 DEF CheckFeedback, bounds
  <1>7. CASE DeleteActivity(u)
    <2> DEFINE g == {a \in activity : a[2] \in undo[u].ids}
               r == [undo[u] EXCEPT !.pc = "committing", !.gone = g]
    <2>1. g \in SUBSET Activities
      BY <1>0
    <2>2. undo' = [undo EXCEPT ![u] = r]
      BY <1>7 DEF DeleteActivity
    <2> HIDE DEF g
    <2>3. r \in UndoRow
      BY <1>0, <2>1 DEF UndoRow
    <2> HIDE DEF r
    <2> QED  BY <1>0, <1>3, <2>2, <2>3, <1>7 DEF DeleteActivity, bounds
  <1>8. CASE Commit(u)
    <2>1. ASSUME NEW v \in Admins
          PROVE  /\ [undo[u] EXCEPT !.pc = "marking", !.gone = {}] \in UndoRow
                 /\ [undo[v] EXCEPT !.standing = @ \ Deleted(u)] \in UndoRow
      <3>1. undo[v] \in UndoRow
        BY <1>0
      <3>2. undo[v].standing \ Deleted(u) \in SUBSET Activities
        BY <3>1 DEF UndoRow
      <3> QED  BY <3>1, <3>2, <1>0 DEF UndoRow
    <2>2. undo' \in [Admins -> UndoRow]
      BY <1>8, <2>1, Zenon DEF Commit
    <2> QED  BY <1>0, <1>3, <2>2, <1>8 DEF Commit, bounds
  <1>9. CASE TransactionFails(u)
    BY <1>0, <1>1, <1>3, <1>9 DEF TransactionFails, bounds
  <1>10. CASE MarkUndone(u)
    <2>1. undo[u].job \in Jobs => [jobs[undo[u].job] EXCEPT !.status = "UNDONE"] \in JobRow
      BY <1>0 DEF JobRow
    <2>2. jobs' = [jobs EXCEPT ![undo[u].job] = [jobs[undo[u].job] EXCEPT !.status = "UNDONE"]]
      BY <1>10 DEF MarkUndone
    <2>3. jobs' \in [Jobs -> JobRow]
      BY <1>0, <2>1, <2>2
    <2> QED  BY <1>0, <1>1, <1>3, <2>3, <1>10 DEF MarkUndone, bounds
  <1> QED
    BY <1>0, <1>4, <1>5, <1>6, <1>7, <1>8, <1>9, <1>10 DEF UndoNext

LEMMA UserTyped ==
    ASSUME TypeOK, NEW i \in Records, UserNext(i)
    PROVE  TypeOK'
  <1> USE UndoAssumption
  <1>0. \A kind \in Kinds : <<kind, i>> \in Activities
    BY DEF Activities
  <1>1. CASE AskInterview(i)
    BY <1>1 DEF AskInterview, TypeOK
  <1>2. CASE Schedule(i)
    BY <1>0, <1>2 DEF Schedule, TypeOK, bounds, Kinds
  <1>3. CASE GiveFeedback(i)
    <2>1. activity' \subseteq Activities
      BY <1>0, <1>3 DEF GiveFeedback, TypeOK, Kinds
    <2>2. acts' \in 0 .. MaxActs
      BY <1>3 DEF GiveFeedback, TypeOK
    <2> QED  BY <1>3, <2>1, <2>2 DEF GiveFeedback, TypeOK, Activities
  <1>4. CASE Cancel(i)
    <2>1. undo \in [Admins -> UndoRow]
      BY DEF TypeOK, UndoRow
    <2>2. \A u \in Admins : [undo[u] EXCEPT !.standing = @ \ {<<"interview", i>>}] \in UndoRow
      BY <2>1 DEF UndoRow
    <2>3. undo' \in [Admins -> UndoRow]
      BY <1>4, <2>2, Zenon DEF Cancel
    <2>4. activity' \subseteq Activities
      BY <1>0, <1>4 DEF Cancel, TypeOK, Kinds
    <2>5. acts' \in 0 .. MaxActs
      BY <1>4 DEF Cancel, TypeOK
    <2> QED  BY <1>4, <2>3, <2>4, <2>5 DEF Cancel, TypeOK, UndoRow, Activities
  <1> QED
    BY <1>1, <1>2, <1>3, <1>4 DEF UserNext

LEMMA StepTyped == TypeOK /\ [Next]_vars => TypeOK'
  <1> SUFFICES ASSUME TypeOK, [Next]_vars PROVE TypeOK'
    OBVIOUS
  <1>1. CASE ProcessEnds
    <2>1. run' \in [Jobs -> RunRow] /\ undo' \in [Admins -> UndoRow] /\ asked' = {}
      BY <1>1, UndoAssumption DEF ProcessEnds, IdleRun, IdleUndo, RunRow, UndoRow
    <2> QED  BY <1>1, <2>1 DEF ProcessEnds, TypeOK, RunRow, UndoRow, Activities, bounds
  <1>2. CASE UNCHANGED vars
    BY <1>2 DEF vars, TypeOK, Activities
  <1> QED
    BY <1>1, <1>2, RunTyped, UserTyped, UndoTyped DEF Next

\* Every variable keeps its type, the ids and the interviews that a transaction has
\* deleted and not committed included.
THEOREM TypeCorrect == Spec => []TypeOK
  BY InitTyped, StepTyped, PTL DEF Spec
-----------------------------------------------------------------------------
(* What is needed of the types in the proofs below.                        *)

LEMMA Functions ==
    ASSUME TypeOK
    PROVE  /\ jobs \in [Jobs -> JobRow] /\ run \in [Jobs -> RunRow] /\ undo \in [Admins -> UndoRow]
           /\ runs \in Nat
  BY UndoAssumption DEF TypeOK, JobRow, RunRow, UndoRow

\* Which variables the three kinds of actors leave alone.
LEMMA UsersWriteNoLists ==
    ASSUME NEW i \in Records, UserNext(i), TypeOK
    PROVE  /\ UNCHANGED <<jobs, records, run, runs>>
           /\ \A u \in Admins : undo'[u].ids = undo[u].ids /\ undo'[u].job = undo[u].job
                                /\ undo'[u].pc = undo[u].pc
  <1>1. CASE Cancel(i)
    <2>1. \A u \in Admins : undo'[u] = [undo[u] EXCEPT !.standing = @ \ {<<"interview", i>>}]
      BY <1>1 DEF Cancel
    <2>2. \A u \in Admins : undo[u] \in UndoRow
      BY Functions
    <2> QED  BY <1>1, <2>1, <2>2 DEF Cancel, UndoRow
  <1>2. CASE AskInterview(i) \/ Schedule(i) \/ GiveFeedback(i)
    BY <1>2 DEF AskInterview, Schedule, GiveFeedback, bounds
  <1> QED
    BY <1>1, <1>2 DEF UserNext

LEMMA RunsWriteNoUndo ==
    ASSUME NEW j \in Jobs, RunNext(j)
    PROVE  UNCHANGED <<activity, asked, undo>>
  BY DEF RunNext, StartRun, InsertRow, RowFails, Checkpoint, CompleteRun, FailRun

\* An undo request only ever takes over the ids of its job, when it reads them.
LEMMA UndoLists ==
    ASSUME TypeOK, NEW u \in Admins, UndoNext(u)
    PROVE  /\ UNCHANGED <<run, runs>>
           /\ \A j \in Jobs : jobs'[j].ids = jobs[j].ids
           /\ \A v \in Admins :
                 \/ undo'[v].ids = undo[v].ids /\ undo'[v].job = undo[v].job
                 \/ undo'[v].ids = {}
                 \/ undo'[v].job \in Jobs /\ undo'[v].ids = jobs[undo'[v].job].ids
  <1>0. /\ jobs \in [Jobs -> JobRow] /\ undo \in [Admins -> UndoRow]
        /\ \A v \in Admins : undo[v] \in UndoRow
    BY Functions
  <1>1. ASSUME NEW j \in Jobs, NEW force \in BOOLEAN, ReadJob(u, j, force)
        PROVE  /\ UNCHANGED <<jobs, run, runs>>
               /\ undo'[u].job = j /\ undo'[u].ids = jobs[j].ids
               /\ \A v \in Admins \ {u} : undo'[v] = undo[v]
    BY <1>0, <1>1 DEF ReadJob, IdleUndo
  <1>2. CASE CheckInterviews(u) \/ CheckFeedback(u) \/ DeleteActivity(u) \/ TransactionFails(u)
    BY <1>0, <1>2 DEF CheckInterviews, CheckFeedback, DeleteActivity, TransactionFails, IdleUndo,
                      UndoRow, bounds
  <1>3. CASE Commit(u)
    <2>1. ASSUME NEW v \in Admins
          PROVE  undo'[v].ids = undo[v].ids /\ undo'[v].job = undo[v].job
      <3>1. undo'[v] = IF v = u THEN [undo[u] EXCEPT !.pc = "marking", !.gone = {}]
                       ELSE [undo[v] EXCEPT !.standing = @ \ Deleted(u)]
        BY <1>3 DEF Commit
      <3> QED  BY <3>1, <1>0 DEF UndoRow
    <2> QED  BY <1>3, <2>1 DEF Commit, bounds
  <1>4. CASE MarkUndone(u)
    <2>1. \A j \in Jobs : jobs'[j].ids = jobs[j].ids
      BY <1>0, <1>4 DEF MarkUndone, JobRow
    <2>2. \A v \in Admins : undo'[v] = undo[v] \/ undo'[v] = IdleUndo
      BY <1>0, <1>4 DEF MarkUndone
    <2> QED  BY <2>1, <2>2, <1>4 DEF MarkUndone, IdleUndo, bounds
  <1> QED
    BY <1>1, <1>2, <1>3, <1>4 DEF UndoNext

\* What a run adds to the lists: the record it has just created.
LEMMA RunLists ==
    ASSUME TypeOK, NEW j \in Jobs, RunNext(j)
    PROVE  \E news \in SUBSET {NewRecord(j)} :
             /\ news # {} => run[j].pc = "reading" /\ run[j].row < NRows /\ ~(Existing(run[j].row + 1) # {})
                             /\ run'[j].row = run[j].row + 1 /\ run'[j].no = run[j].no
                             /\ runs' = runs
             /\ records' = records \cup news
             /\ \A k \in Jobs \ {j} : jobs'[k] = jobs[k] /\ run'[k] = run[k]
             /\ jobs'[j].ids \cup run'[j].ids \cup run'[j].fresh
                  \subseteq jobs[j].ids \cup run[j].ids \cup run[j].fresh \cup news
             /\ \/ runs' = runs + 1 /\ run'[j].no = runs' /\ run[j].pc = "idle" /\ news = {}
                \/ runs' = runs /\ run'[j].no \in {0, run[j].no}
                   /\ (run'[j].pc # "idle" => run'[j].no = run[j].no /\ run[j].pc # "idle"
                                              /\ run'[j].row >= run[j].row)
  <1>0. /\ jobs \in [Jobs -> JobRow] /\ run \in [Jobs -> RunRow]
        /\ jobs[j] \in JobRow /\ run[j] \in RunRow /\ run[j].row \in Nat
    BY Functions, UndoAssumption DEF RunRow
  <1>1. CASE StartRun(j)
    <2>1. /\ run'[j] = [IdleRun EXCEPT !.pc = "reading", !.no = runs + 1,
                  !.row = jobs[j].committed, !.count = jobs[j].count, !.ids = jobs[j].ids]
          /\ \A k \in Jobs \ {j} : jobs'[k] = jobs[k] /\ run'[k] = run[k]
          /\ jobs'[j].ids = jobs[j].ids
      BY <1>0, <1>1 DEF StartRun, JobRow
    <2>2. run'[j].ids = jobs[j].ids /\ run'[j].fresh = {} /\ run'[j].no = runs + 1
      BY <2>1 DEF IdleRun
    <2> WITNESS {} \in SUBSET {NewRecord(j)}
    <2> QED  BY <1>1, <2>1, <2>2 DEF StartRun
  <1>2. CASE InsertRow(j)
    <2> DEFINE news == IF Existing(run[j].row + 1) # {} THEN {} ELSE {NewRecord(j)}
               n == IF news = {} THEN run[j].count ELSE run[j].count + 1
               r == [run[j] EXCEPT !.pc = "inserted", !.row = run[j].row + 1, !.fresh = news,
                              !.count = n, !.ids = run[j].ids \cup news]
    <2>1. run' = [run EXCEPT ![j] = r] /\ records' = records \cup news
      BY <1>2, Zenon DEF InsertRow, NewRecord
    <2>2. news \in SUBSET {NewRecord(j)} /\ (news # {} => ~(Existing(run[j].row + 1) # {}))
      OBVIOUS
    <2> HIDE DEF news, n
    <2>3. /\ r.row = run[j].row + 1 /\ r.no = run[j].no /\ r.pc = "inserted"
          /\ r.ids = run[j].ids \cup news /\ r.fresh = news
      BY <1>0 DEF RunRow
    <2> HIDE DEF r
    <2>4. run'[j] = r /\ \A k \in Jobs \ {j} : run'[k] = run[k]
      BY <2>1, <1>0
    <2>5. jobs' = jobs /\ runs' = runs /\ run[j].pc = "reading" /\ run[j].row < NRows
      BY <1>2 DEF InsertRow, bounds
    <2> USE <2>2
    <2> WITNESS news \in SUBSET {NewRecord(j)}
    <2> QED  BY <1>0, <2>1, <2>2, <2>3, <2>4, <2>5
  <1>3. CASE RowFails(j)
    <2>1. /\ run'[j].row = run[j].row + 1 /\ run'[j].no = run[j].no /\ run'[j].ids = run[j].ids
          /\ run'[j].fresh = {} /\ \A k \in Jobs \ {j} : run'[k] = run[k]
      BY <1>0, <1>3 DEF RowFails, RunRow
    <2> WITNESS {} \in SUBSET {NewRecord(j)}
    <2> QED  BY <1>0, <1>3, <2>1 DEF RowFails, bounds
  <1>4. CASE Checkpoint(j)
    <2>1. /\ run'[j].row = run[j].row /\ run'[j].no = run[j].no /\ run'[j].ids = run[j].ids
          /\ run'[j].fresh = {} /\ \A k \in Jobs \ {j} : run'[k] = run[k]
      BY <1>0, <1>4 DEF Checkpoint, RunRow
    <2>2. /\ jobs'[j].ids \subseteq jobs[j].ids \cup run[j].fresh
          /\ \A k \in Jobs \ {j} : jobs'[k] = jobs[k]
      BY <1>0, <1>4 DEF Checkpoint, JobRow
    <2> WITNESS {} \in SUBSET {NewRecord(j)}
    <2> QED  BY <1>0, <1>4, <2>1, <2>2 DEF Checkpoint, bounds
  <1>5. CASE CompleteRun(j) \/ FailRun(j)
    <2>1. run'[j] = IdleRun /\ \A k \in Jobs \ {j} : run'[k] = run[k]
      BY <1>0, <1>5 DEF CompleteRun, FailRun
    <2>2. run'[j].pc = "idle" /\ run'[j].no = 0 /\ run'[j].ids = {} /\ run'[j].fresh = {}
      BY <2>1 DEF IdleRun
    <2>3. /\ jobs'[j].ids \subseteq jobs[j].ids \cup run[j].ids
          /\ \A k \in Jobs \ {j} : jobs'[k] = jobs[k]
      BY <1>0, <1>5 DEF CompleteRun, FailRun, JobRow
    <2> WITNESS {} \in SUBSET {NewRecord(j)}
    <2> QED  BY <1>5, <2>1, <2>2, <2>3 DEF CompleteRun, FailRun, bounds
  <1> QED
    BY <1>1, <1>2, <1>3, <1>4, <1>5 DEF RunNext
-----------------------------------------------------------------------------
(* The lists of ids.                                                       *)

LEMMA OwnersInit == Init => ListsNameOwnRecords
  BY DEF Init, NoRow, IdleRun, IdleUndo, ListsNameOwnRecords

LEMMA OwnersStep ==
    ASSUME TypeOK, [Next]_vars, ListsNameOwnRecords
    PROVE  ListsNameOwnRecords'
  <1>1. CASE \E j \in Jobs : RunNext(j)
    <2>1. PICK j \in Jobs : RunNext(j)
      BY <1>1
    <2>2. PICK news \in SUBSET {NewRecord(j)} :
             /\ \A k \in Jobs \ {j} : jobs'[k] = jobs[k] /\ run'[k] = run[k]
             /\ jobs'[j].ids \cup run'[j].ids \cup run'[j].fresh
                  \subseteq jobs[j].ids \cup run[j].ids \cup run[j].fresh \cup news
      BY <2>1, RunLists
    <2>3. \A i \in news : i.by = j
      BY DEF NewRecord
    <2>4. ASSUME NEW k \in Jobs, NEW i \in jobs'[k].ids \cup run'[k].ids \cup run'[k].fresh
          PROVE  i.by = k
      <3>1. CASE k = j
        BY <3>1, <2>2, <2>3, <2>4 DEF ListsNameOwnRecords
      <3>2. CASE k # j
        BY <3>2, <2>2, <2>4 DEF ListsNameOwnRecords
      <3> QED  BY <3>1, <3>2
    <2> QED  BY <2>1, <2>4, RunsWriteNoUndo DEF ListsNameOwnRecords
  <1>2. CASE \E i \in Records : UserNext(i)
    BY <1>2, UsersWriteNoLists DEF ListsNameOwnRecords
  <1>3. CASE \E u \in Admins : UndoNext(u)
    <2>1. PICK u \in Admins : UndoNext(u)
      BY <1>3
    <2>2. ASSUME NEW v \in Admins, NEW i \in undo'[v].ids
          PROVE  i.by = undo'[v].job
      BY <2>1, <2>2, UndoLists DEF ListsNameOwnRecords
    <2>3. ASSUME NEW j \in Jobs, NEW i \in jobs'[j].ids \cup run'[j].ids \cup run'[j].fresh
          PROVE  i.by = j
      BY <2>1, <2>3, UndoLists DEF ListsNameOwnRecords
    <2> QED  BY <2>2, <2>3 DEF ListsNameOwnRecords
  <1>4. CASE ProcessEnds
    BY <1>4 DEF ProcessEnds, IdleRun, IdleUndo, ListsNameOwnRecords
  <1>5. CASE UNCHANGED vars
    BY <1>5 DEF vars, ListsNameOwnRecords
  <1> QED
    BY <1>1, <1>2, <1>3, <1>4, <1>5 DEF Next

\* What an undo deletes was created by the job that it undoes.
THEOREM OnlyOwnRecords == Spec => OnlyOwnRecordsDeleted
  <1>1. ASSUME TypeOK, ListsNameOwnRecords, [Next]_vars
        PROVE  [\A i \in records \ records' :
                   \E u \in Admins : undo[u].pc = "committing" /\ undo[u].job = i.by]_vars
    <2> SUFFICES ASSUME NEW i \in records \ records'
                 PROVE  \E u \in Admins : undo[u].pc = "committing" /\ undo[u].job = i.by
      OBVIOUS
    <2>1. ASSUME NEW j \in Jobs, RunNext(j) PROVE FALSE
      BY <2>1, RunLists, <1>1
    <2>2. ASSUME NEW k \in Records, UserNext(k) PROVE FALSE
      BY <2>2, UsersWriteNoLists, <1>1
    <2>3. ~(ProcessEnds \/ UNCHANGED vars)
      BY DEF ProcessEnds, vars
    <2>4. PICK u \in Admins : UndoNext(u)
      BY <1>1, <2>1, <2>2, <2>3 DEF Next
    <2>5. Commit(u)
      BY <2>4 DEF UndoNext, ReadJob, CheckInterviews, CheckFeedback, DeleteActivity,
                  TransactionFails, MarkUndone
    <2>6. i \in undo[u].ids /\ undo[u].pc = "committing"
      BY <2>5 DEF Commit
    <2> QED  BY <2>6, <1>1 DEF ListsNameOwnRecords
  <1>2. Spec => []ListsNameOwnRecords
    BY TypeCorrect, OwnersInit, OwnersStep, PTL DEF Spec
  <1> QED
    BY <1>1, <1>2, TypeCorrect, PTL DEF Spec, OnlyOwnRecordsDeleted
-----------------------------------------------------------------------------
(* Deleted records do not come back.                                       *)

LEMMA OldInit == Init => ListedAreOld
  BY UndoAssumption DEF Init, NoRow, IdleRun, IdleUndo, ListedAreOld, Listed

\* A step of a run lists nothing but what was listed and the record it has created.
LEMMA ListedByRun ==
    ASSUME TypeOK, NEW j \in Jobs, RunNext(j), NEW news \in SUBSET {NewRecord(j)},
           \A k \in Jobs \ {j} : jobs'[k] = jobs[k] /\ run'[k] = run[k],
           jobs'[j].ids \cup run'[j].ids \cup run'[j].fresh
              \subseteq jobs[j].ids \cup run[j].ids \cup run[j].fresh \cup news,
           NEW i, Listed(i)'
    PROVE  Listed(i) \/ i \in news
  <1>1. undo' = undo
    BY RunsWriteNoUndo
  <1>2. CASE \E u \in Admins : i \in undo'[u].ids
    BY <1>1, <1>2 DEF Listed
  <1>3. CASE \E k \in Jobs : i \in jobs'[k].ids \cup run'[k].ids \cup run'[k].fresh
    <2>1. PICK k \in Jobs : i \in jobs'[k].ids \cup run'[k].ids \cup run'[k].fresh
      BY <1>3
    <2>2. k # j => i \in jobs[k].ids \cup run[k].ids \cup run[k].fresh
      BY <2>1
    <2>3. k = j => i \in jobs[j].ids \cup run[j].ids \cup run[j].fresh \cup news
      BY <2>1
    <2> QED  BY <2>2, <2>3 DEF Listed
  <1> QED
    BY <1>2, <1>3 DEF Listed

LEMMA ListedByOthers ==
    ASSUME TypeOK, NEW i, Listed(i)',
           \/ \E u \in Admins : UndoNext(u)
           \/ \E k \in Records : UserNext(k)
           \/ ProcessEnds
           \/ UNCHANGED vars
    PROVE  Listed(i)
  <1>1. CASE \E u \in Admins : UndoNext(u)
    BY <1>1, UndoLists DEF Listed
  <1>2. CASE \E k \in Records : UserNext(k)
    BY <1>2, UsersWriteNoLists DEF Listed
  <1>3. CASE ProcessEnds
    BY <1>3 DEF ProcessEnds, Listed, IdleRun, IdleUndo
  <1>4. CASE UNCHANGED vars
    BY <1>4 DEF vars, Listed
  <1> QED
    BY <1>1, <1>2, <1>3, <1>4

LEMMA OldStep ==
    ASSUME TypeOK, [Next]_vars, ListedAreOld
    PROVE  ListedAreOld'
  <1>0. runs \in Nat /\ \A k \in Jobs : run[k] \in RunRow
    BY Functions
  <1>1. CASE \E j \in Jobs : RunNext(j)
    <2>1. PICK j \in Jobs : RunNext(j)
      BY <1>1
    <2>2. PICK news \in SUBSET {NewRecord(j)} :
             /\ news # {} => run[j].pc = "reading" /\ run[j].row < NRows
                             /\ run'[j].row = run[j].row + 1 /\ run'[j].no = run[j].no
                             /\ runs' = runs
             /\ \A k \in Jobs \ {j} : jobs'[k] = jobs[k] /\ run'[k] = run[k]
             /\ jobs'[j].ids \cup run'[j].ids \cup run'[j].fresh
                  \subseteq jobs[j].ids \cup run[j].ids \cup run[j].fresh \cup news
             /\ \/ runs' = runs + 1 /\ run'[j].no = runs' /\ run[j].pc = "idle" /\ news = {}
                \/ runs' = runs /\ run'[j].no \in {0, run[j].no}
                   /\ (run'[j].pc # "idle" => run'[j].no = run[j].no /\ run[j].pc # "idle"
                                              /\ run'[j].row >= run[j].row)
      BY <2>1, RunLists
    <2>3. \A k \in Jobs : run'[k].no <= runs'
      <3> TAKE k \in Jobs
      <3>1. run[k].no <= runs /\ run[k].no \in Nat /\ run[j].no <= runs /\ run[j].no \in Nat
        BY <1>0, UndoAssumption DEF ListedAreOld, RunRow
      <3> QED  BY <1>0, <2>2, <3>1
    <2>4. ASSUME NEW i \in Records, Listed(i)'
          PROVE  /\ i.run <= runs'
                 /\ \A k \in Jobs : run'[k].pc # "idle" /\ i.by = k /\ i.run = run'[k].no
                                        => i.row <= run'[k].row
      <3>0. i.run \in Nat /\ i.row \in Nat
        BY UndoAssumption DEF Records, Rows
      <3>1. Listed(i) \/ i \in news
        BY <2>1, <2>2, <2>4, ListedByRun
      <3>2. CASE i \in news
        <4>1. i = NewRecord(j) /\ news # {}
          BY <3>2
        <4>2. i.run = run[j].no /\ i.row = run[j].row + 1 /\ i.by = j
          BY <4>1 DEF NewRecord
        <4>3. run[j].no <= runs
          BY DEF ListedAreOld
        <4> QED  BY <1>0, <2>2, <3>0, <4>1, <4>2, <4>3
      <3>3. CASE Listed(i)
        <4>1. /\ i.run <= runs
              /\ \A k \in Jobs : run[k].pc # "idle" /\ i.by = k /\ i.run = run[k].no
                                     => i.row <= run[k].row
          BY <3>3 DEF ListedAreOld
        <4>2. i.run <= runs'
          BY <1>0, <2>2, <3>0, <4>1
        <4>3. ASSUME NEW k \in Jobs, run'[k].pc # "idle", i.by = k, i.run = run'[k].no
              PROVE  i.row <= run'[k].row
          <5>1. CASE k # j
            BY <2>2, <4>1, <4>3, <5>1
          <5>2. CASE k = j
            <6>1. runs' = runs /\ run'[j].no = run[j].no /\ run[j].pc # "idle"
                  /\ run'[j].row >= run[j].row
              BY <1>0, <2>2, <3>0, <4>1, <4>3, <5>2
            <6>2. i.row <= run[j].row
              BY <4>1, <4>3, <5>2, <6>1
            <6>3. TypeOK'
              BY <2>1, RunTyped
            <6>4. run' \in [Jobs -> RunRow]
              BY <6>3 DEF TypeOK, RunRow
            <6>5. run[j].row \in Nat /\ run'[j].row \in Nat
              BY <1>0, <6>4, UndoAssumption DEF RunRow
            <6> QED  BY <3>0, <5>2, <6>1, <6>2, <6>5
          <5> QED  BY <5>1, <5>2
        <4> QED  BY <4>2, <4>3
      <3> QED  BY <3>1, <3>2, <3>3
    <2> QED  BY <2>3, <2>4 DEF ListedAreOld
  <1>2. CASE \/ \E u \in Admins : UndoNext(u)
             \/ \E k \in Records : UserNext(k)
             \/ UNCHANGED vars
    <2>1. run' = run /\ runs' = runs
      BY <1>2, UndoLists, UsersWriteNoLists DEF vars
    <2>2. \A i \in Records : Listed(i)' => Listed(i)
      BY <1>2, ListedByOthers
    <2> QED  BY <2>1, <2>2 DEF ListedAreOld
  <1>3. CASE ProcessEnds
    <2>1. \A i \in Records : Listed(i)' => Listed(i)
      BY <1>3, ListedByOthers
    <2>2. runs' = runs /\ run' = [k \in Jobs |-> IdleRun]
      BY <1>3 DEF ProcessEnds, bounds
    <2>3. \A k \in Jobs : run'[k].pc = "idle" /\ run'[k].no = 0
      BY <2>2 DEF IdleRun
    <2> QED  BY <1>0, <2>1, <2>2, <2>3 DEF ListedAreOld
  <1> QED
    BY <1>1, <1>2, <1>3 DEF Next
LEMMA GoneInit == Init => MarkedAreGone
  BY DEF Init, IdleUndo, MarkedAreGone

LEMMA GoneStep ==
    ASSUME TypeOK, [Next]_vars, ListedAreOld, ListsNameOwnRecords, MarkedAreGone
    PROVE  MarkedAreGone'
  <1> SUFFICES ASSUME Flow = "candidates", NEW u \in Admins, undo'[u].pc = "marking"
               PROVE  undo'[u].ids \cap records' = {}
    BY DEF MarkedAreGone
  <1>0. \A v \in Admins : undo[v] \in UndoRow
    BY Functions
  <1>1. ASSUME NEW j \in Jobs, RunNext(j)
        PROVE  undo'[u].ids \cap records' = {}
    <2>1. undo' = undo
      BY <1>1, RunsWriteNoUndo
    <2>2. PICK news \in SUBSET {NewRecord(j)} :
             /\ news # {} => run[j].pc = "reading"
             /\ records' = records \cup news
      BY <1>1, RunLists
    <2>3. undo[u].ids \cap records = {}
      BY <2>1 DEF MarkedAreGone
    <2>4. ASSUME NEW i \in news, i \in undo[u].ids PROVE FALSE
      <3>1. i = NewRecord(j) /\ run[j].pc # "idle" /\ Listed(i) /\ i \in Records
        BY <1>0, <2>2, <2>4 DEF Listed, UndoRow
      <3>2. i.by = j /\ i.run = run[j].no /\ i.row = run[j].row + 1
        BY <3>1 DEF NewRecord
      <3>3. i.row <= run[j].row
        BY <3>1, <3>2 DEF ListedAreOld
      <3>4. run[j].row \in Nat
        BY Functions, UndoAssumption DEF RunRow
      <3> QED  BY <3>2, <3>3, <3>4
    <2> QED  BY <2>1, <2>2, <2>3, <2>4
  <1>2. ASSUME NEW k \in Records, UserNext(k)
        PROVE  undo'[u].ids \cap records' = {}
    BY <1>2, UsersWriteNoLists DEF MarkedAreGone
  <1>3. ASSUME NEW v \in Admins, UndoNext(v)
        PROVE  undo'[u].ids \cap records' = {}
    <2>1. CASE Commit(v)
      <3>1. records' = records \ undo[v].ids
        BY <2>1 DEF Commit, Candidates
      <3>2. undo'[u] = IF u = v THEN [undo[v] EXCEPT !.pc = "marking", !.gone = {}]
                       ELSE [undo[u] EXCEPT !.standing = @ \ Deleted(v)]
        BY <2>1 DEF Commit
      <3>3. undo'[u].ids = undo[u].ids /\ (u # v => undo[u].pc = "marking")
        BY <1>0, <3>2 DEF UndoRow
      <3> QED  BY <3>1, <3>3 DEF MarkedAreGone
    <2>2. ASSUME NEW j \in Jobs, NEW force \in BOOLEAN, ReadJob(v, j, force)
          PROVE  undo'[u].ids \cap records' = {}
      <3>1. CASE u = v
        <4>1. undo'[u] = [IdleUndo EXCEPT !.job = j, !.force = force, !.ids = jobs[j].ids,
                   !.standing = activity \cap ({"interview", "feedback"} \X Records),
                   !.pc = IF jobs[j].ids # {} THEN "interviews"
                          ELSE IF jobs[j].count = 0 THEN "marking" ELSE "deleting"]
          BY <2>2, <3>1, Functions DEF ReadJob
        <4>2. undo'[u].ids = {}
          BY <4>1 DEF IdleUndo
        <4> QED  BY <4>2
      <3>2. CASE u # v
        BY <2>2, <3>2, Functions DEF ReadJob, MarkedAreGone
      <3> QED  BY <3>1, <3>2
    <2>3. CASE CheckInterviews(v) \/ CheckFeedback(v) \/ DeleteActivity(v) \/ TransactionFails(v)
               \/ MarkUndone(v)
      BY <1>0, <2>3, Functions DEF CheckInterviews, CheckFeedback, DeleteActivity,
                  TransactionFails, MarkUndone, IdleUndo, UndoRow, MarkedAreGone
    <2> QED  BY <1>3, <2>1, <2>2, <2>3 DEF UndoNext
  <1>4. CASE ProcessEnds
    BY <1>4 DEF ProcessEnds, IdleUndo
  <1>5. CASE UNCHANGED vars
    BY <1>5 DEF vars, MarkedAreGone
  <1> QED
    BY <1>1, <1>2, <1>3, <1>4, <1>5 DEF Next

\* When an undo of a candidate import is reported, none of the records that it listed
\* is left.
THEOREM ReportedIsRemoved == Flow = "candidates" => (Spec => ReportedUndoRemoved)
  <1> SUFFICES ASSUME Flow = "candidates" PROVE Spec => ReportedUndoRemoved
    OBVIOUS
  <1>1. Spec => []MarkedAreGone
    BY TypeCorrect, OwnersInit, OwnersStep, OldInit, OldStep, GoneInit, GoneStep, PTL DEF Spec
  <1>2. MarkedAreGone /\ [Next]_vars =>
          [\A u \in Admins :
              undo[u].pc = "marking" /\ jobs'[undo[u].job].status = "UNDONE" /\ undo'[u].pc = "idle"
                  => undo[u].ids \cap records = {}]_vars
    BY DEF MarkedAreGone
  <1> QED
    BY <1>1, <1>2, PTL DEF Spec, ReportedUndoRemoved
-----------------------------------------------------------------------------
(* The guardrails.                                                         *)

\* What GuardrailsHold says of one undo request, given the activity there is.
Guarded(q, there) ==
    /\ q.standing \subseteq {"interview", "feedback"} \X Records
    /\ q.pc # "marking" => q.standing \subseteq there
    /\ q.pc = "feedback" /\ ~q.conflict => \A i \in q.ids : <<"interview", i>> \notin q.standing
    /\ q.pc \in {"deleting", "committing"} /\ ~q.force => \A a \in q.standing : a[2] \notin q.ids
    /\ \A a \in q.gone : a[2] \in q.ids

LEMMA GuardedAll == GuardrailsHold <=> \A u \in Admins : Guarded(undo[u], activity)
  BY Zenon DEF GuardrailsHold, Guarded

LEMMA GuardedAllNext == GuardrailsHold' <=> \A u \in Admins : Guarded(undo'[u], activity')
  BY Zenon DEF GuardrailsHold, Guarded

LEMMA GuardedIdle == \A there : Guarded(IdleUndo, there)
  BY DEF Guarded, IdleUndo

LEMMA GuardrailsInit == Init => GuardrailsHold
  BY GuardedAll, GuardedIdle DEF Init

\* A request stays guarded when activity is added, and when what is removed is taken
\* out of its standing activity.
LEMMA GuardedSmaller ==
    ASSUME NEW q \in UndoRow, NEW there, NEW later, NEW removed, Guarded(q, there),
           there \ removed \subseteq later
    PROVE  Guarded([q EXCEPT !.standing = @ \ removed], later)
  <1> DEFINE r == [q EXCEPT !.standing = @ \ removed]
  <1>1. /\ r.standing = q.standing \ removed /\ r.pc = q.pc /\ r.conflict = q.conflict
        /\ r.ids = q.ids /\ r.force = q.force /\ r.gone = q.gone
    BY DEF UndoRow
  <1> HIDE DEF r
  <1>2. Guarded(r, later)
    BY <1>1 DEF Guarded
  <1> QED
    BY <1>2 DEF r

LEMMA GuardrailsByUndo ==
    ASSUME TypeOK, GuardrailsHold, NEW u \in Admins, UndoNext(u)
    PROVE  GuardrailsHold'
  <1> DEFINE q == undo[u]
  <1>0. /\ undo \in [Admins -> UndoRow] /\ q \in UndoRow /\ activity \subseteq Activities
        /\ Guarded(q, activity) /\ \A v \in Admins : undo[v] \in UndoRow /\ Guarded(undo[v], activity)
    BY GuardedAll, Functions DEF TypeOK
  <1>1. ASSUME activity' = activity, \A v \in Admins \ {u} : undo'[v] = undo[v],
               Guarded(undo'[u], activity)
        PROVE  GuardrailsHold'
    BY <1>0, <1>1, GuardedAllNext
  <1>2. ASSUME NEW j \in Jobs, NEW force \in BOOLEAN, ReadJob(u, j, force)
        PROVE  GuardrailsHold'
    <2> DEFINE st == activity \cap ({"interview", "feedback"} \X Records)
               pc == IF jobs[j].ids # {} THEN "interviews"
                     ELSE IF jobs[j].count = 0 THEN "marking" ELSE "deleting"
               r == [IdleUndo EXCEPT !.job = j, !.force = force, !.ids = jobs[j].ids,
                     !.standing = st, !.pc = pc]
    <2>1. undo' = [undo EXCEPT ![u] = r] /\ activity' = activity
      BY <1>2 DEF ReadJob
    <2>2. /\ r.pc = pc /\ r.ids = jobs[j].ids /\ r.standing = st /\ r.gone = {}
      BY DEF IdleUndo
    <2>3. pc \in {"interviews", "marking", "deleting"} /\ (pc = "deleting" => jobs[j].ids = {})
      OBVIOUS
    <2> HIDE DEF r, pc
    <2>4. Guarded(r, activity)
      BY <2>2, <2>3 DEF Guarded
    <2> QED  BY <1>0, <1>1, <2>1, <2>4
  <1>3. CASE CheckInterviews(u)
    <2> DEFINE c == Conflict(u, "interview")
               r == [q EXCEPT !.pc = "feedback", !.conflict = c]
    <2>1. undo' = [undo EXCEPT ![u] = r] /\ activity' = activity /\ q.pc = "interviews"
      BY <1>3 DEF CheckInterviews
    <2>2. ~c => \A i \in q.ids : <<"interview", i>> \notin activity
      BY DEF Conflict
    <2> HIDE DEF c
    <2>3. /\ r.pc = "feedback" /\ r.ids = q.ids /\ r.standing = q.standing /\ r.gone = q.gone
      BY <1>0 DEF UndoRow
    <2>4. r.conflict = c
      BY <1>0, Zenon DEF UndoRow
    <2> HIDE DEF r
    <2>5. q.standing \subseteq activity
      BY <1>0, <2>1 DEF Guarded
    <2>6. ~r.conflict => \A i \in q.ids : <<"interview", i>> \notin q.standing
      BY <2>2, <2>4, <2>5, Zenon
    <2>7. Guarded(r, activity)
      BY <1>0, <2>1, <2>3, <2>6 DEF Guarded
    <2> QED  BY <1>0, <1>1, <2>1, <2>7
  <1>4. CASE CheckFeedback(u)
    <2> DEFINE c == Conflict(u, "feedback")
               r == [q EXCEPT !.pc = "deleting"]
    <2>1. /\ activity' = activity /\ q.pc = "feedback"
          /\ undo' = [undo EXCEPT ![u] = IF (q.conflict \/ c) /\ ~q.force THEN IdleUndo ELSE r]
      BY <1>4, Zenon DEF CheckFeedback
    <2>2. ~c => \A i \in q.ids : <<"feedback", i>> \notin activity
      BY DEF Conflict
    <2> HIDE DEF c
    <2>3. /\ r.pc = "deleting" /\ r.ids = q.ids /\ r.standing = q.standing /\ r.gone = q.gone
      BY <1>0 DEF UndoRow
    <2>4. r.force = q.force
      BY <1>0, Zenon DEF UndoRow
    <2> HIDE DEF r
    <2>5. CASE (q.conflict \/ c) /\ ~q.force
      <3>1. undo' = [undo EXCEPT ![u] = IdleUndo]
        BY <2>1, <2>5, Zenon
      <3> QED  BY <1>0, <1>1, <2>1, <3>1, GuardedIdle
    <2>6. CASE ~((q.conflict \/ c) /\ ~q.force)
      <3>1. undo' = [undo EXCEPT ![u] = r]
        BY <2>1, <2>6, Zenon
      <3>2. ASSUME ~q.force, NEW a \in q.standing PROVE a[2] \notin q.ids
        <4>1. ~q.conflict /\ ~c
          BY <2>6, <3>2, Zenon
        <4>2. a \in activity /\ a \in {"interview", "feedback"} \X Records
          BY <1>0, <2>1 DEF Guarded
        <4>3. a = <<a[1], a[2]>> /\ a[1] \in {"interview", "feedback"}
          BY <4>2
        <4>4. ASSUME a[2] \in q.ids PROVE FALSE
          <5>1. <<"interview", a[2]>> \notin q.standing
            BY <1>0, <2>1, <4>1, <4>4 DEF Guarded
          <5>2. <<"feedback", a[2]>> \notin activity
            BY <2>2, <4>1, <4>4
          <5> QED  BY <4>2, <4>3, <5>1, <5>2
        <4> QED  BY <4>4
      <3>3. Guarded(r, activity)
        BY <1>0, <2>1, <2>3, <2>4, <3>2 DEF Guarded
      <3> QED  BY <1>0, <1>1, <2>1, <3>1, <3>3
    <2> QED  BY <2>5, <2>6
  <1>5. CASE DeleteActivity(u)
    <2> DEFINE g == {a \in activity : a[2] \in q.ids}
               r == [q EXCEPT !.pc = "committing", !.gone = g]
    <2>1. undo' = [undo EXCEPT ![u] = r] /\ activity' = activity /\ q.pc = "deleting"
      BY <1>5 DEF DeleteActivity
    <2>2. \A a \in g : a[2] \in q.ids
      OBVIOUS
    <2> HIDE DEF g
    <2>3. /\ r.pc = "committing" /\ r.ids = q.ids /\ r.standing = q.standing /\ r.gone = g
          /\ r.force = q.force
      BY <1>0 DEF UndoRow
    <2> HIDE DEF r
    <2>4. Guarded(r, activity)
      BY <1>0, <2>1, <2>2, <2>3 DEF Guarded
    <2> QED  BY <1>0, <1>1, <2>1, <2>4
  <1>6. CASE Commit(u)
    <2>1. activity' = activity \ Deleted(u) /\ q.pc = "committing"
      BY <1>6 DEF Commit
    <2>2. ASSUME NEW v \in Admins PROVE Guarded(undo'[v], activity')
      <3>1. undo'[v] = IF v = u THEN [q EXCEPT !.pc = "marking", !.gone = {}]
                       ELSE [undo[v] EXCEPT !.standing = @ \ Deleted(u)]
        BY <1>6 DEF Commit
      <3>2. CASE v # u
        BY <1>0, <2>1, <3>1, <3>2, GuardedSmaller
      <3>3. CASE v = u
        <4>1. undo'[v].pc = "marking" /\ undo'[v].gone = {} /\ undo'[v].standing = q.standing
          BY <1>0, <3>1, <3>3 DEF UndoRow
        <4> QED  BY <1>0, <4>1 DEF Guarded
      <3> QED  BY <3>2, <3>3
    <2> QED  BY <2>2, GuardedAllNext
  <1>7. CASE TransactionFails(u) \/ MarkUndone(u)
    <2>1. undo' = [undo EXCEPT ![u] = IdleUndo] /\ activity' = activity
      BY <1>7 DEF TransactionFails, MarkUndone
    <2> QED  BY <1>0, <1>1, <2>1, GuardedIdle
  <1> QED
    BY <1>2, <1>3, <1>4, <1>5, <1>6, <1>7 DEF UndoNext

LEMMA GuardrailsStep ==
    ASSUME TypeOK, GuardrailsHold, [Next]_vars
    PROVE  GuardrailsHold'
  <1>0. \A v \in Admins : undo[v] \in UndoRow /\ Guarded(undo[v], activity)
    BY GuardedAll, Functions
  <1>1. ASSUME undo' = undo, activity \subseteq activity'
        PROVE  GuardrailsHold'
    <2>1. \A v \in Admins : Guarded(undo[v], activity')
      BY <1>0, <1>1 DEF Guarded
    <2> QED  BY <1>1, <2>1, GuardedAllNext
  <1>2. ASSUME NEW j \in Jobs, RunNext(j) PROVE GuardrailsHold'
    BY <1>1, <1>2, RunsWriteNoUndo
  <1>3. ASSUME NEW i \in Records, UserNext(i) PROVE GuardrailsHold'
    <2>1. CASE Cancel(i)
      <3> DEFINE removed == {<<"interview", i>>}
      <3>1. activity \ removed \subseteq activity'
        BY <2>1 DEF Cancel
      <3>2. \A u \in Admins : undo'[u] = [undo[u] EXCEPT !.standing = @ \ removed]
        BY <2>1 DEF Cancel
      <3> HIDE DEF removed
      <3>3. ASSUME NEW u \in Admins PROVE Guarded(undo'[u], activity')
        <4>1. undo[u] \in UndoRow /\ Guarded(undo[u], activity)
          BY <1>0
        <4>2. undo'[u] = [undo[u] EXCEPT !.standing = @ \ removed]
          BY <3>2
        <4> QED  BY <3>1, <4>1, <4>2, GuardedSmaller
      <3> QED  BY <3>3, GuardedAllNext
    <2>2. CASE AskInterview(i) \/ Schedule(i) \/ GiveFeedback(i)
      BY <1>1, <2>2 DEF AskInterview, Schedule, GiveFeedback
    <2> QED  BY <1>3, <2>1, <2>2 DEF UserNext
  <1>4. CASE ProcessEnds
    BY <1>4, GuardedIdle, GuardedAllNext DEF ProcessEnds
  <1>5. CASE UNCHANGED vars
    BY <1>1, <1>5 DEF vars
  <1> QED
    BY <1>2, <1>3, <1>4, <1>5, GuardrailsByUndo DEF Next

\* What was there when an undo came in that is not forced, and has been there since, is
\* not deleted by it.
THEOREM StandingSurvives == Spec => StandingActivitySurvives
  <1>1. ASSUME TypeOK, GuardrailsHold, [Next]_vars
        PROVE  [\A u \in Admins :
                   undo[u].pc = "committing" /\ ~undo[u].force /\ undo'[u].pc = "marking"
                       => undo[u].standing \cap activity \subseteq activity']_vars
    <2> SUFFICES ASSUME NEW u \in Admins, undo[u].pc = "committing", ~undo[u].force,
                        undo'[u].pc = "marking",
                        NEW a \in undo[u].standing \cap activity
                 PROVE  a \in activity'
      OBVIOUS
    <2>0. \A v \in Admins : undo[v] \in UndoRow
      BY <1>1, Functions
    <2>1. a[2] \notin undo[u].ids /\ \A b \in undo[u].gone : b[2] \in undo[u].ids
      BY <1>1 DEF GuardrailsHold
    <2>2. ASSUME NEW j \in Jobs, RunNext(j) PROVE a \in activity'
      BY <2>2, RunsWriteNoUndo
    <2>3. ASSUME NEW i \in Records, UserNext(i) PROVE FALSE
      BY <1>1, <2>3, UsersWriteNoLists
    <2>4. ~(ProcessEnds \/ UNCHANGED vars)
      BY DEF ProcessEnds, IdleUndo, vars
    <2>5. ASSUME NEW v \in Admins, UndoNext(v) PROVE a \in activity'
      <3>1. CASE Commit(v)
        <4>1. v = u
          <5>1. v # u => undo'[u] = [undo[u] EXCEPT !.standing = @ \ Deleted(v)]
            BY <3>1 DEF Commit
          <5>2. v # u => undo'[u].pc = undo[u].pc
            BY <2>0, <5>1 DEF UndoRow
          <5> QED  BY <5>2
        <4>2. activity' = activity \ (undo[u].gone \cup ({"feedback"} \X (undo[u].ids \cap Candidates)))
          BY <3>1, <4>1 DEF Commit, Deleted
        <4>3. a \notin undo[u].gone /\ a \notin {"feedback"} \X (undo[u].ids \cap Candidates)
          BY <2>1
        <4> QED  BY <4>2, <4>3
      <3>2. CASE ~Commit(v)
        <4>1. activity' = activity
          BY <2>5, <3>2 DEF UndoNext, ReadJob, CheckInterviews, CheckFeedback, DeleteActivity,
                            TransactionFails, MarkUndone
        <4> QED  BY <4>1
      <3> QED  BY <3>1, <3>2
    <2> QED  BY <1>1, <2>2, <2>3, <2>4, <2>5 DEF Next
  <1>2. Spec => []GuardrailsHold
    BY TypeCorrect, GuardrailsInit, GuardrailsStep, PTL DEF Spec
  <1> QED
    BY <1>1, <1>2, TypeCorrect, PTL DEF Spec, StandingActivitySurvives

LEMMA CoversInit == Init => GoneCoversStanding
  BY DEF Init, IdleUndo, GoneCoversStanding

LEMMA CoversStep ==
    ASSUME TypeOK, GuardrailsHold, GoneCoversStanding, [Next]_vars
    PROVE  GoneCoversStanding'
  <1>0. /\ undo \in [Admins -> UndoRow] /\ \A v \in Admins : undo[v] \in UndoRow
        /\ \A v \in Admins : Guarded(undo[v], activity)
    BY GuardedAll, Functions
  <1>1. ASSUME \A v \in Admins :
                  \/ undo'[v].pc # "committing"
                  \/ /\ undo'[v].pc = undo[v].pc /\ undo'[v].ids = undo[v].ids
                     /\ undo'[v].gone = undo[v].gone /\ undo'[v].standing \subseteq undo[v].standing
        PROVE  GoneCoversStanding'
    BY <1>1 DEF GoneCoversStanding
  <1>2. ASSUME NEW j \in Jobs, RunNext(j) PROVE GoneCoversStanding'
    BY <1>1, <1>2, RunsWriteNoUndo
  <1>3. ASSUME NEW i \in Records, UserNext(i) PROVE GoneCoversStanding'
    <2>1. CASE Cancel(i)
      <3>1. ASSUME NEW v \in Admins
            PROVE  /\ undo'[v].pc = undo[v].pc /\ undo'[v].ids = undo[v].ids
                   /\ undo'[v].gone = undo[v].gone /\ undo'[v].standing \subseteq undo[v].standing
        <4>1. undo'[v] = [undo[v] EXCEPT !.standing = @ \ {<<"interview", i>>}]
          BY <2>1 DEF Cancel
        <4> QED  BY <4>1, <1>0 DEF UndoRow
      <3> QED  BY <1>1, <3>1
    <2>2. CASE AskInterview(i) \/ Schedule(i) \/ GiveFeedback(i)
      BY <1>1, <2>2 DEF AskInterview, Schedule, GiveFeedback
    <2> QED  BY <1>3, <2>1, <2>2 DEF UserNext
  <1>4. ASSUME NEW u \in Admins, UndoNext(u) PROVE GoneCoversStanding'
    <2>1. ASSUME NEW j \in Jobs, NEW force \in BOOLEAN, ReadJob(u, j, force)
          PROVE  GoneCoversStanding'
      <3>1. /\ undo'[u].pc \in {"interviews", "marking", "deleting"}
            /\ \A v \in Admins \ {u} : undo'[v] = undo[v]
        BY <1>0, <2>1 DEF ReadJob, IdleUndo
      <3> QED  BY <1>1, <3>1
    <2>2. CASE CheckInterviews(u) \/ CheckFeedback(u)
      <3>1. undo'[u].pc \in {"feedback", "deleting", "idle"}
        BY <1>0, <2>2 DEF CheckInterviews, CheckFeedback, IdleUndo, UndoRow
      <3>2. \A v \in Admins \ {u} : undo'[v] = undo[v]
        BY <1>0, <2>2 DEF CheckInterviews, CheckFeedback
      <3> QED  BY <1>1, <3>1, <3>2
    <2>3. CASE DeleteActivity(u)
      <3>1. /\ undo'[u].ids = undo[u].ids /\ undo'[u].standing = undo[u].standing
            /\ undo'[u].gone = {a \in activity : a[2] \in undo[u].ids}
            /\ \A v \in Admins \ {u} : undo'[v] = undo[v]
        BY <1>0, <2>3 DEF DeleteActivity, UndoRow
      <3>2. undo[u].pc = "deleting"
        BY <2>3 DEF DeleteActivity
      <3>3. undo[u].standing \subseteq activity
        BY <1>0, <3>2 DEF Guarded
      <3> QED  BY <3>1, <3>3 DEF GoneCoversStanding
    <2>4. CASE Commit(u)
      <3>1. ASSUME NEW v \in Admins
            PROVE  \/ undo'[v].pc # "committing"
                   \/ /\ undo'[v].pc = undo[v].pc /\ undo'[v].ids = undo[v].ids
                      /\ undo'[v].gone = undo[v].gone
                      /\ undo'[v].standing \subseteq undo[v].standing
        <4>1. undo'[v] = IF v = u THEN [undo[u] EXCEPT !.pc = "marking", !.gone = {}]
                         ELSE [undo[v] EXCEPT !.standing = @ \ Deleted(u)]
          BY <2>4 DEF Commit
        <4> QED  BY <4>1, <1>0 DEF UndoRow
      <3> QED  BY <1>1, <3>1
    <2>5. CASE TransactionFails(u) \/ MarkUndone(u)
      <3>1. \A v \in Admins : undo'[v] = undo[v] \/ undo'[v].pc = "idle"
        BY <1>0, <2>5 DEF TransactionFails, MarkUndone, IdleUndo
      <3> QED  BY <1>1, <3>1
    <2> QED  BY <1>4, <2>1, <2>2, <2>3, <2>4, <2>5 DEF UndoNext
  <1>5. CASE ProcessEnds
    BY <1>1, <1>5 DEF ProcessEnds, IdleUndo
  <1>6. CASE UNCHANGED vars
    BY <1>1, <1>6 DEF vars
  <1> QED
    BY <1>2, <1>3, <1>4, <1>5, <1>6 DEF Next

\* The inductive invariant the three theorems rest on.
THEOREM UndoInvariant == Spec => []UndoInv
  <1>1. Init => UndoInv
    BY OwnersInit, OldInit, GoneInit, GuardrailsInit, CoversInit DEF UndoInv
  <1>2. TypeOK /\ UndoInv /\ [Next]_vars => UndoInv'
    BY OwnersStep, OldStep, GoneStep, GuardrailsStep, CoversStep DEF UndoInv
  <1> QED
    BY <1>1, <1>2, TypeCorrect, PTL DEF Spec
-----------------------------------------------------------------------------
(* The undo implements UndoContract.                                       *)

LEMMA AbstractedIdle == Abstracted(IdleUndo) = Contract!Idle
  BY DEF Abstracted, IdleUndo, Contract!Idle

\* What the mapping makes of a request.
LEMMA AbstractedRow ==
    ASSUME NEW q \in UndoRow
    PROVE  /\ Abstracted(q).job = q.job /\ Abstracted(q).force = q.force
           /\ Abstracted(q).ids = q.ids
           /\ q.pc = "idle" => Abstracted(q).at = "idle"
           /\ q.pc = "marking" => Abstracted(q).at = "removed" /\ Abstracted(q).standing = {}
           /\ q.pc \notin {"idle", "marking"} =>
                 Abstracted(q).at = "asked" /\ Abstracted(q).standing = q.standing
  BY DEF Abstracted, UndoRow

\* A request that makes a step between its reading of the job and its commit.
LEMMA AbstractedSame ==
    ASSUME NEW q \in UndoRow, NEW r \in UndoRow,
           r.job = q.job, r.force = q.force, r.ids = q.ids, r.standing = q.standing,
           \/ r.pc = q.pc
           \/ q.pc \notin {"idle", "marking"} /\ r.pc \notin {"idle", "marking"}
    PROVE  Abstracted(r) = Abstracted(q)
  BY DEF Abstracted

\* A request beside which some activity is removed, or nothing that it counts on.
LEMMA AbstractedSpared ==
    ASSUME NEW q \in UndoRow, NEW later, NEW removed,
           q.standing \cap removed = q.standing \ later
    PROVE  Abstracted([q EXCEPT !.standing = @ \ removed])
             = [Abstracted(q) EXCEPT !.standing = @ \cap later]
  <1> DEFINE r == [q EXCEPT !.standing = @ \ removed]
  <1>1. /\ r.pc = q.pc /\ r.job = q.job /\ r.force = q.force /\ r.ids = q.ids
        /\ r.standing = q.standing \ removed
    BY DEF UndoRow
  <1>2. q.standing \ removed = q.standing \cap later
    OBVIOUS
  <1> HIDE DEF r
  <1>3. Abstracted(r) = [Abstracted(q) EXCEPT !.standing = @ \cap later]
    BY <1>1, <1>2 DEF Abstracted
  <1> QED
    BY <1>3 DEF r

LEMMA AbstractedUntouched ==
    ASSUME NEW q \in UndoRow, NEW later, q.pc # "marking", q.standing \subseteq later
    PROVE  Abstracted(q) = [Abstracted(q) EXCEPT !.standing = @ \cap later]
  <1> DEFINE a == IF q.pc = "idle" THEN "idle" ELSE "asked"
  <1>1. Abstracted(q) = [at |-> a, job |-> q.job, force |-> q.force, ids |-> q.ids,
                         standing |-> q.standing]
    BY DEF Abstracted
  <1>2. q.standing \cap later = q.standing
    OBVIOUS
  <1> HIDE DEF a
  <1> QED
    BY <1>1, <1>2

LEMMA AbstractedRemoved ==
    ASSUME NEW q \in UndoRow
    PROVE  Abstracted([q EXCEPT !.pc = "marking", !.gone = {}])
             = [Abstracted(q) EXCEPT !.at = "removed", !.standing = {}]
  <1> DEFINE r == [q EXCEPT !.pc = "marking", !.gone = {}]
             a == Abstracted(q).at
             st == Abstracted(q).standing
  <1>1. r.pc = "marking" /\ r.job = q.job /\ r.force = q.force /\ r.ids = q.ids
    BY DEF UndoRow
  <1>2. Abstracted(q) = [at |-> a, job |-> q.job, force |-> q.force, ids |-> q.ids,
                         standing |-> st]
    BY DEF Abstracted
  <1>3. Abstracted(r) = [at |-> "removed", job |-> q.job, force |-> q.force, ids |-> q.ids,
                         standing |-> {}]
    BY <1>1 DEF Abstracted
  <1> HIDE DEF a, st, r
  <1> DEFINE p == [Abstracted(q) EXCEPT !.at = "removed"]
  <1>4. p = [at |-> "removed", job |-> q.job, force |-> q.force, ids |-> q.ids, standing |-> st]
    BY <1>2
  <1> HIDE DEF p
  <1>5. [p EXCEPT !.standing = {}]
          = [at |-> "removed", job |-> q.job, force |-> q.force, ids |-> q.ids, standing |-> {}]
    BY <1>4
  <1>6. Abstracted(r) = [p EXCEPT !.standing = {}]
    BY <1>3, <1>5, Zenon
  <1> QED
    BY <1>6 DEF p, r

LEMMA ContractInit == Init => Contract!Init
  <1> SUFFICES ASSUME Init PROVE Contract!Init
    OBVIOUS
  <1>1. records \subseteq {i \in Records : i.by = None}
    <2>1. PICK known \in SUBSET Rows : records = {[row |-> r, by |-> None, run |-> 0] : r \in known}
      BY DEF Init
    <2>2. records \subseteq Records
      BY InitTyped DEF TypeOK
    <2> QED  BY <2>1, <2>2
  <1>2. {j \in Jobs : jobs[j].status = "UNDONE"} = {}
    BY DEF Init, NoRow
  <1>3. \A u \in Admins : Abstracted(undo[u]) = Contract!Idle
    BY AbstractedIdle DEF Init
  <1> QED
    BY <1>1, <1>2, <1>3 DEF Init, Contract!Init

\* The jobs that are reported undone.
Undone == {j \in Jobs : jobs[j].status = "UNDONE"}

Asked == [u \in Admins |-> Abstracted(undo[u])]

LEMMA ContractRun ==
    ASSUME TypeOK, NEW j \in Jobs, RunNext(j)
    PROVE  Contract!Import(j)
  <1>0. jobs \in [Jobs -> JobRow] /\ records \subseteq Records
    BY Functions DEF TypeOK
  <1>1. PICK news \in SUBSET {NewRecord(j)} :
            /\ records' = records \cup news
            /\ \A k \in Jobs \ {j} : jobs'[k] = jobs[k] /\ run'[k] = run[k]
    BY RunLists
  <1>2. records' \subseteq Records
    BY RunTyped DEF TypeOK
  <1>3. records \subseteq records' /\ records' \subseteq records \cup {i \in Records : i.by = j}
    BY <1>1, <1>2 DEF NewRecord
  <1>4. Undone \ {j} \subseteq Undone'
    BY <1>1 DEF Undone
  <1>5. jobs'[j].status = "UNDONE" => jobs[j].status = "UNDONE"
    BY <1>0 DEF RunNext, StartRun, InsertRow, RowFails, Checkpoint, CompleteRun, FailRun, JobRow
  <1>6. Undone' \subseteq Undone
    BY <1>1, <1>5 DEF Undone
  <1> QED
    BY <1>3, <1>4, <1>6, RunsWriteNoUndo DEF Contract!Import, Undone

LEMMA ContractUser ==
    ASSUME TypeOK, GuardrailsHold, NEW i \in Records, UserNext(i)
    PROVE  Contract!Work(i)
  <1>0. \A v \in Admins : undo[v] \in UndoRow /\ Guarded(undo[v], activity)
    BY GuardedAll, Functions
  <1>1. UNCHANGED <<jobs, records>>
    BY UsersWriteNoLists
  <1>2. Undone' = Undone
    BY <1>1 DEF Undone
  <1>3. /\ \A a \in activity \ activity' : a = <<"interview", i>>
        /\ \A a \in activity' \ activity : a[2] = i
    BY DEF UserNext, AskInterview, Schedule, GiveFeedback, Cancel
  <1>4. ASSUME NEW v \in Admins
        PROVE  Abstracted(undo'[v]) = [Abstracted(undo[v]) EXCEPT !.standing = @ \cap activity']
    <2> DEFINE removed == activity \ activity'
    <2>1. undo[v] \in UndoRow /\ Guarded(undo[v], activity)
      BY <1>0
    <2>2. CASE undo[v].pc = "marking"
      <3>1. undo'[v] \in UndoRow /\ undo'[v].pc = "marking" /\ undo'[v].job = undo[v].job
            /\ undo'[v].force = undo[v].force /\ undo'[v].ids = undo[v].ids
        <4>1. undo'[v] = undo[v] \/ undo'[v] = [undo[v] EXCEPT !.standing = @ \ {<<"interview", i>>}]
          BY DEF UserNext, AskInterview, Schedule, GiveFeedback, Cancel, bounds
        <4>2. [undo[v] EXCEPT !.standing = @ \ {<<"interview", i>>}] \in UndoRow
          BY <2>1 DEF UndoRow
        <4> QED  BY <2>1, <2>2, <4>1, <4>2 DEF UndoRow
      <3> QED  BY <2>1, <2>2, <3>1 DEF Abstracted
    <2>3. CASE undo[v].pc # "marking"
      <3>1. undo[v].standing \subseteq activity
        BY <2>1, <2>3 DEF Guarded
      <3>2. CASE Cancel(i)
        <4>1. undo'[v] = [undo[v] EXCEPT !.standing = @ \ {<<"interview", i>>}]
          BY <3>2 DEF Cancel
        <4>2. undo[v].standing \cap {<<"interview", i>>} = undo[v].standing \ activity'
          <5>1. activity' = (activity \ {<<"interview", i>>}) \cup {<<"cancelled", i>>}
            BY <3>2 DEF Cancel
          <5>2. <<"cancelled", i>> # <<"interview", i>>
            OBVIOUS
          <5> QED  BY <3>1, <5>1, <5>2
        <4> DEFINE removed1 == {<<"interview", i>>}
        <4> HIDE DEF removed1
        <4>3. Abstracted([undo[v] EXCEPT !.standing = @ \ removed1])
                = [Abstracted(undo[v]) EXCEPT !.standing = @ \cap activity']
          BY <2>1, <4>2, AbstractedSpared DEF removed1
        <4> QED  BY <4>1, <4>3 DEF removed1
      <3>3. CASE AskInterview(i) \/ Schedule(i) \/ GiveFeedback(i)
        <4>1. undo' = undo /\ activity \subseteq activity'
          BY <3>3 DEF AskInterview, Schedule, GiveFeedback, bounds
        <4>2. undo[v].standing \subseteq activity'
          BY <3>1, <4>1
        <4> QED  BY <2>1, <2>3, <4>1, <4>2, AbstractedUntouched
      <3> QED  BY <3>2, <3>3 DEF UserNext
    <2> QED  BY <2>2, <2>3
  <1> QED
    BY <1>1, <1>2, <1>3, <1>4 DEF Contract!Work, Contract!Spared, Undone
\* Requests that end without having removed anything.
LEMMA ContractDrop ==
    ASSUME NEW U \in SUBSET Admins, UNCHANGED <<jobs, records, activity>>,
           \A v \in Admins : undo'[v] = IF v \in U THEN IdleUndo ELSE undo[v]
    PROVE  Contract!Drop(U)
  <1>1. \A v \in Admins : Abstracted(undo'[v]) =
            IF v \in U THEN Contract!Idle ELSE Abstracted(undo[v])
    BY AbstractedIdle
  <1> QED
    BY <1>1 DEF Contract!Drop

\* A step of one request that shows in no other and leaves its abstraction alone.
LEMMA ContractStutter ==
    ASSUME UNCHANGED <<jobs, records, activity>>,
           \A v \in Admins : Abstracted(undo'[v]) = Abstracted(undo[v])
    PROVE  UNCHANGED Contract!vars
  BY DEF Contract!vars

LEMMA ContractAsk ==
    ASSUME TypeOK, ListsNameOwnRecords, NEW u \in Admins, NEW j \in Jobs,
           NEW force \in BOOLEAN, ReadJob(u, j, force)
    PROVE  Contract!Ask(u, j)
  <1> DEFINE st == activity \cap ({"interview", "feedback"} \X Records)
             pc == IF jobs[j].ids # {} THEN "interviews"
                   ELSE IF jobs[j].count = 0 THEN "marking" ELSE "deleting"
             r == [IdleUndo EXCEPT !.job = j, !.force = force, !.ids = jobs[j].ids,
                   !.standing = st, !.pc = pc]
  <1>0. /\ undo \in [Admins -> UndoRow] /\ jobs[j] \in JobRow /\ undo[u] \in UndoRow
        /\ activity \subseteq Activities
    BY Functions DEF TypeOK
  <1>1. /\ undo' = [undo EXCEPT ![u] = r] /\ undo[u].pc = "idle"
        /\ jobs[j].status # "UNDONE" /\ UNCHANGED <<jobs, records, activity>>
    BY DEF ReadJob
  <1>2. st = {a \in activity : a[1] \in {"interview", "feedback"}}
    BY <1>0 DEF Activities
  <1>3. /\ r.job = j /\ r.force = force /\ r.ids = jobs[j].ids /\ r.standing = st /\ r.pc = pc
    BY DEF IdleUndo
  <1>4. jobs[j].ids \in SUBSET {i \in Records : i.by = j}
    BY <1>0 DEF ListsNameOwnRecords, JobRow
  <1>5. /\ pc \in {"interviews", "marking", "deleting"}
        /\ pc = "marking" => jobs[j].ids = {}
    OBVIOUS
  <1> HIDE DEF st, pc, r
  <1>6. \/ Abstracted(r) = [at |-> "asked", job |-> j, force |-> force, ids |-> jobs[j].ids,
                            standing |-> st]
        \/ /\ jobs[j].ids = {}
           /\ Abstracted(r) = [at |-> "removed", job |-> j, force |-> force, ids |-> {},
                               standing |-> {}]
    BY <1>3, <1>5 DEF Abstracted
  <1>7. Asked' = [Asked EXCEPT ![u] = Abstracted(r)]
    BY <1>0, <1>1 DEF Asked
  <1>8. Abstracted(undo[u]).at = "idle"
    BY <1>0, <1>1, AbstractedRow
  <1> QED
    BY <1>1, <1>2, <1>4, <1>6, <1>7, <1>8 DEF Contract!Ask, Contract!Active, Asked

LEMMA ContractRemove ==
    ASSUME TypeOK, GuardrailsHold, GoneCoversStanding, Flow = "candidates",
           NEW u \in Admins, Commit(u)
    PROVE  Contract!Remove(u)
  <1> DEFINE q == undo[u]
  <1>0. /\ undo \in [Admins -> UndoRow] /\ q \in UndoRow
        /\ \A v \in Admins : undo[v] \in UndoRow /\ Guarded(undo[v], activity)
    BY GuardedAll, Functions
  <1>1. /\ q.pc = "committing" /\ jobs' = jobs
        /\ records' = records \ (q.ids \cap records)
        /\ activity' = activity \ Deleted(u)
    BY DEF Commit, Candidates
  <1>2. Deleted(u) = q.gone \cup ({"feedback"} \X (q.ids \cap records))
    BY DEF Deleted, Candidates
  <1>3. /\ Abstracted(q).at = "asked" /\ Abstracted(q).ids = q.ids
        /\ Abstracted(q).force = q.force /\ Abstracted(q).standing = q.standing
    BY <1>0, <1>1, AbstractedRow
  <1>4. \A a \in Deleted(u) : a[2] \in q.ids
    BY <1>0, <1>2 DEF Guarded
  <1>5. ASSUME NEW a \in activity', a[2] \in q.ids \cap records
        PROVE  a[1] # "feedback" /\ a \notin q.standing
    <2>1. a \in Activities /\ a \notin Deleted(u)
      BY <1>1, <1>5 DEF TypeOK
    <2>2. a = <<a[1], a[2]>>
      BY <2>1 DEF Activities
    <2>3. a[1] # "feedback"
      BY <1>2, <1>5, <2>1, <2>2
    <2>4. a \notin q.standing
      BY <1>1, <1>2, <1>5, <2>1 DEF GoneCoversStanding
    <2> QED  BY <2>3, <2>4
  <1>6. ~q.force => q.standing \subseteq activity'
    BY <1>0, <1>1, <1>4 DEF Guarded
  <1>7. ASSUME NEW v \in Admins
        PROVE  Abstracted(undo'[v]) =
                   IF v = u THEN [Abstracted(q) EXCEPT !.at = "removed", !.standing = {}]
                   ELSE [Abstracted(undo[v]) EXCEPT !.standing = @ \cap activity']
    <2>1. undo'[v] = IF v = u THEN [q EXCEPT !.pc = "marking", !.gone = {}]
                     ELSE [undo[v] EXCEPT !.standing = @ \ Deleted(u)]
      BY DEF Commit
    <2>2. CASE v = u
      BY <1>0, <2>1, <2>2, AbstractedRemoved
    <2>3. CASE v # u /\ undo[v].pc # "marking"
      <3>1. undo[v].standing \subseteq activity
        BY <1>0, <2>3 DEF Guarded
      <3>2. undo[v].standing \cap Deleted(u) = undo[v].standing \ activity'
        BY <1>1, <3>1
      <3> QED  BY <1>0, <2>1, <2>3, <3>2, AbstractedSpared
    <2>4. CASE v # u /\ undo[v].pc = "marking"
      <3> DEFINE r == [undo[v] EXCEPT !.standing = @ \ Deleted(u)]
      <3>1. r.pc = "marking" /\ r.job = undo[v].job /\ r.force = undo[v].force
            /\ r.ids = undo[v].ids
        BY <1>0, <2>4 DEF UndoRow
      <3> HIDE DEF r
      <3>2. Abstracted(r) = [Abstracted(undo[v]) EXCEPT !.standing = @ \cap activity']
        BY <2>4, <3>1 DEF Abstracted
      <3> QED  BY <2>1, <2>4, <3>2 DEF r
    <2> QED  BY <2>2, <2>3, <2>4
  <1> QED
    BY <1>1, <1>3, <1>4, <1>5, <1>6, <1>7 DEF Contract!Remove, Contract!Spared
LEMMA ContractReport ==
    ASSUME TypeOK, MarkedAreGone, Flow = "candidates", NEW u \in Admins, MarkUndone(u)
    PROVE  Contract!Report(u) \/ UNCHANGED Contract!vars \/ Contract!Drop({u})
  <1> DEFINE q == undo[u]
  <1>0. undo \in [Admins -> UndoRow] /\ q \in UndoRow /\ jobs \in [Jobs -> JobRow]
    BY Functions
  <1>1. /\ q.pc = "marking" /\ undo' = [undo EXCEPT ![u] = IdleUndo]
        /\ jobs' = [jobs EXCEPT ![q.job].status = "UNDONE"] /\ UNCHANGED <<records, activity>>
    BY DEF MarkUndone
  <1>2. Abstracted(q).at = "removed" /\ Abstracted(q).ids = q.ids /\ Abstracted(q).job = q.job
    BY <1>0, <1>1, AbstractedRow
  <1>3. q.ids \cap records = {}
    BY <1>1 DEF MarkedAreGone
  <1>4. Asked' = [Asked EXCEPT ![u] = Contract!Idle]
    BY <1>0, <1>1, AbstractedIdle DEF Asked
  <1>5. CASE q.job \in Jobs
    <2>1. jobs'[q.job].status = "UNDONE" /\ \A j \in Jobs \ {q.job} : jobs'[j] = jobs[j]
      BY <1>0, <1>1, <1>5 DEF JobRow
    <2>2. Undone' = Undone \cup {q.job}
      BY <1>5, <2>1 DEF Undone
    <2> QED
      BY <1>1, <1>2, <1>3, <1>4, <2>2 DEF Contract!Report, Undone, Asked
  <1>6. CASE q.job \notin Jobs
    <2>1. jobs' = jobs
      BY <1>0, <1>1, <1>6
    <2>2. \A v \in Admins : undo'[v] = IF v \in {u} THEN IdleUndo ELSE undo[v]
      BY <1>0, <1>1
    <2> QED  BY <1>1, <2>1, <2>2, ContractDrop
  <1> QED
    BY <1>5, <1>6

LEMMA ContractUndo ==
    ASSUME TypeOK, UndoInv, Flow = "candidates", NEW u \in Admins, UndoNext(u)
    PROVE  Contract!Next \/ UNCHANGED Contract!vars
  <1>0. undo \in [Admins -> UndoRow] /\ undo[u] \in UndoRow /\ undo' \in [Admins -> UndoRow]
    BY Functions, UndoTyped DEF TypeOK, UndoRow
  <1>1. ASSUME NEW j \in Jobs, NEW force \in BOOLEAN, ReadJob(u, j, force)
        PROVE  Contract!Next
    BY <1>1, ContractAsk DEF Contract!Next, UndoInv
  <1>2. ASSUME UNCHANGED <<jobs, records, activity>>, NEW r \in UndoRow,
               undo' = [undo EXCEPT ![u] = r],
               r.job = undo[u].job, r.force = undo[u].force, r.ids = undo[u].ids,
               r.standing = undo[u].standing,
               undo[u].pc \notin {"idle", "marking"}, r.pc \notin {"idle", "marking"}
        PROVE  UNCHANGED Contract!vars
    <2>1. Abstracted(r) = Abstracted(undo[u])
      BY <1>0, <1>2, AbstractedSame
    <2>2. \A v \in Admins : Abstracted(undo'[v]) = Abstracted(undo[v])
      BY <1>0, <1>2, <2>1
    <2> QED  BY <1>2, <2>2, ContractStutter
  <1>3. ASSUME UNCHANGED <<jobs, records, activity>>, undo' = [undo EXCEPT ![u] = IdleUndo]
        PROVE  Contract!Next
    <2>1. \A v \in Admins : undo'[v] = IF v \in {u} THEN IdleUndo ELSE undo[v]
      BY <1>0, <1>3
    <2>2. Contract!Drop({u})
      BY <1>3, <2>1, ContractDrop
    <2> QED  BY <2>2 DEF Contract!Next
  <1>4. CASE CheckInterviews(u)
    <2> DEFINE c == Conflict(u, "interview")
               r == [undo[u] EXCEPT !.pc = "feedback", !.conflict = c]
    <2>1. undo' = [undo EXCEPT ![u] = r] /\ undo[u].pc = "interviews"
          /\ UNCHANGED <<jobs, records, activity>>
      BY <1>4 DEF CheckInterviews
    <2> HIDE DEF c
    <2>2. /\ r.pc = "feedback" /\ r.ids = undo[u].ids /\ r.standing = undo[u].standing
          /\ r.job = undo[u].job
      BY <1>0 DEF UndoRow
    <2>3. r.force = undo[u].force
      BY <1>0, Zenon DEF UndoRow
    <2> HIDE DEF r
    <2>4. r \in UndoRow
      BY <1>0, <2>1
    <2> QED  BY <1>2, <2>1, <2>2, <2>3, <2>4
  <1>5. CASE CheckFeedback(u)
    <2> DEFINE r == [undo[u] EXCEPT !.pc = "deleting"]
    <2>1. /\ undo[u].pc = "feedback" /\ UNCHANGED <<jobs, records, activity>>
          /\ undo' = [undo EXCEPT ![u] = r] \/ undo' = [undo EXCEPT ![u] = IdleUndo]
      BY <1>5 DEF CheckFeedback
    <2>2. /\ r.pc = "deleting" /\ r.ids = undo[u].ids /\ r.standing = undo[u].standing
          /\ r.job = undo[u].job
      BY <1>0 DEF UndoRow
    <2>3. r.force = undo[u].force
      BY <1>0, Zenon DEF UndoRow
    <2>4. r \in UndoRow
      BY <1>0 DEF UndoRow
    <2> HIDE DEF r
    <2> QED  BY <1>2, <1>3, <2>1, <2>2, <2>3, <2>4
  <1>6. CASE DeleteActivity(u)
    <2> DEFINE g == {a \in activity : a[2] \in undo[u].ids}
               r == [undo[u] EXCEPT !.pc = "committing", !.gone = g]
    <2>1. undo' = [undo EXCEPT ![u] = r] /\ undo[u].pc = "deleting"
          /\ UNCHANGED <<jobs, records, activity>>
      BY <1>6 DEF DeleteActivity
    <2> HIDE DEF g
    <2>2. /\ r.pc = "committing" /\ r.ids = undo[u].ids /\ r.standing = undo[u].standing
          /\ r.job = undo[u].job
      BY <1>0 DEF UndoRow
    <2>3. r.force = undo[u].force
      BY <1>0, Zenon DEF UndoRow
    <2> HIDE DEF r
    <2>4. r \in UndoRow
      BY <1>0, <2>1
    <2> QED  BY <1>2, <2>1, <2>2, <2>3, <2>4
  <1>7. CASE Commit(u)
    BY <1>7, ContractRemove DEF UndoInv, Contract!Next
  <1>8. CASE TransactionFails(u)
    BY <1>3, <1>8 DEF TransactionFails
  <1>9. CASE MarkUndone(u)
    BY <1>9, ContractReport DEF UndoInv, Contract!Next
  <1> QED
    BY <1>1, <1>4, <1>5, <1>6, <1>7, <1>8, <1>9 DEF UndoNext

LEMMA ContractStep ==
    ASSUME TypeOK, UndoInv, Flow = "candidates", [Next]_vars
    PROVE  [Contract!Next]_Contract!vars
  <1>1. ASSUME NEW j \in Jobs, RunNext(j) PROVE Contract!Next
    BY <1>1, ContractRun DEF Contract!Next
  <1>2. ASSUME NEW i \in Records, UserNext(i) PROVE Contract!Next
    BY <1>2, ContractUser DEF Contract!Next, UndoInv
  <1>3. CASE ProcessEnds
    <2>1. \A v \in Admins : undo'[v] = IF v \in Admins THEN IdleUndo ELSE undo[v]
      BY <1>3 DEF ProcessEnds
    <2>2. Contract!Drop(Admins)
      BY <1>3, <2>1, ContractDrop DEF ProcessEnds
    <2> QED  BY <2>2 DEF Contract!Next
  <1>4. CASE UNCHANGED vars
    BY <1>4, ContractStutter DEF vars
  <1> QED
    BY <1>1, <1>2, <1>3, <1>4, ContractUndo DEF Next

\* The undo of a candidate import implements UndoContract, for any number of jobs, runs,
\* requests and users: the statements of its transaction and the guardrails in front of
\* it amount to one removal of the job's own records, and the process may end anywhere.
THEOREM UndoImplementsContract == Flow = "candidates" => (Spec => ImplementsContract)
  <1> SUFFICES ASSUME Flow = "candidates" PROVE Spec => ImplementsContract
    OBVIOUS
  <1>1. TypeOK /\ UndoInv /\ [Next]_vars => [Contract!Next]_Contract!vars
    BY ContractStep
  <1> QED
    BY <1>1, ContractInit, TypeCorrect, UndoInvariant, PTL
       DEF Spec, ImplementsContract, Contract!Spec
=============================================================================
