----------------------- MODULE ImportJobManagerProofs -----------------------
(***************************************************************************)
(* What holds of ImportJobManager for any number of jobs, batches, retry   *)
(* requests and processes, and any attempt cap.                            *)
(***************************************************************************)
EXTENDS ImportJobManager, TLAPS

-----------------------------------------------------------------------------
(* Types.                                                                  *)

LEMMA CallerIsNotNone == None \notin Callers /\ Jobs \subseteq Callers /\ Retriers \subseteq Callers
  BY CallersAssumption DEF Callers

LEMMA InitTypeOK == Init => TypeOK
<1> SUFFICES ASSUME Init PROVE TypeOK
  OBVIOUS
<1>1. NoRow \in JobRow
  BY LimitsAssumption DEF NoRow, JobRow, Statuses
<1>2. IdleCall \in CallRecord
  BY LimitsAssumption DEF IdleCall, CallRecord
<1>3. jobs \in [Jobs -> JobRow] /\ call \in [Callers -> CallRecord]
  BY <1>1, <1>2 DEF Init
<1>4. \A c \in Callers : call[c].pc # "idle" => call[c].job \in Jobs
  BY DEF Init, IdleCall
<1>5. active \in [Jobs -> Callers \cup {None}] /\ landed \in [Jobs -> SUBSET (1 .. NBatches)]
  BY DEF Init
<1>6. breaker \in BreakerRecord /\ resumed \in [Jobs -> Nat]
  BY DEF Init, NoFailures, BreakerRecord
<1> QED BY <1>3, <1>4, <1>5, <1>6 DEF Init, TypeOK

\* Marking the status of a job keeps the type of the table.
LEMMA MarkedTypes ==
    ASSUME TypeOK, NEW j \in Jobs, NEW status \in Statuses
    PROVE  Marked(j, status) \in [Jobs -> JobRow]
<1>1. jobs[j] \in JobRow
  BY DEF TypeOK
<1> QED BY <1>1 DEF TypeOK, Marked, JobRow

\* What an update of one caller's record has to show.
LEMMA CallTypes ==
    ASSUME TypeOK, NEW c \in Callers, NEW r \in CallRecord, call' = [call EXCEPT ![c] = r],
           r.pc # "idle" => r.job \in Jobs
    PROVE  /\ call' \in [Callers -> CallRecord]
           /\ \A d \in Callers : call'[d].pc # "idle" => call'[d].job \in Jobs
  BY DEF TypeOK

LEMMA IdleCallTypes == IdleCall \in CallRecord /\ IdleCall.pc = "idle"
  BY LimitsAssumption DEF IdleCall, CallRecord

LEMMA FailedTypes == TypeOK => Failed \in BreakerRecord
<1> SUFFICES ASSUME TypeOK PROVE Failed \in BreakerRecord
  OBVIOUS
<1>1. breaker.failures + 1 \in Nat /\ breaker.tripped \in BOOLEAN
  BY DEF TypeOK, BreakerRecord
<1> QED BY <1>1 DEF Failed, BreakerRecord

LEMMA SnapshotsTypes == ASSUME TypeOK, NEW S \in SUBSET Jobs PROVE Snapshots(S) \subseteq Snapshot
<1>1. \A j \in S : jobs[j].attempts \in Nat
  BY DEF TypeOK, JobRow
<1> QED BY <1>1 DEF Snapshots, Snapshot

\* A call that throws costs the sweep its list at most.
LEMMA ThrowTypes ==
    ASSUME TypeOK, NEW c, SweepAfterThrow(c)
    PROVE  /\ sweep' \in [done : BOOLEAN, due : SUBSET Snapshot]
           /\ sweep'.done = sweep.done /\ sweep'.due \in {sweep.due, {}}
           /\ c # Sweeper => sweep' = sweep
  BY DEF SweepAfterThrow, TypeOK

\* A step of a caller.
LEMMA CallTypeOK ==
    ASSUME TypeOK, NEW c \in Callers, CallNext(c)
    PROVE  TypeOK'
<1> DEFINE j == call[c].job
<1>0. call[c] \in CallRecord /\ (call[c].pc # "idle" => j \in Jobs)
  BY DEF TypeOK
<1>a. ASSUME call' = Returned(c)
      PROVE  /\ call' \in [Callers -> CallRecord]
             /\ \A d \in Callers : call'[d].pc # "idle" => call'[d].job \in Jobs
  BY <1>a, IdleCallTypes, CallTypes DEF Returned
<1>b. ASSUME NEW r \in CallRecord, r.job = j, call[c].pc # "idle",
             call' = [call EXCEPT ![c] = r]
      PROVE  /\ call' \in [Callers -> CallRecord]
             /\ \A d \in Callers : call'[d].pc # "idle" => call'[d].job \in Jobs
  BY <1>0, <1>b, CallTypes
<1>c. call[c].pc # "idle" => jobs[j] \in JobRow
  BY <1>0 DEF TypeOK
<1>1. CASE RejectAtCap(c)
  <2>1. jobs' \in [Jobs -> JobRow]
    BY <1>0, <1>1, MarkedTypes DEF RejectAtCap, Statuses
  <2> QED BY <1>1, <1>a, <2>1 DEF RejectAtCap, TypeOK, lists, bounds
<1>2. CASE FileMissing(c)
  <2>1. j \in Jobs /\ jobs[j].attempts + 1 \in Nat
    BY <1>0, <1>2, <1>c DEF FileMissing, JobRow
  <2>2. jobs' \in [Jobs -> JobRow]
    BY <1>2, <2>1 DEF FileMissing, JobRow, TypeOK
  <2>3. [call[c] EXCEPT !.pc = "missing"] \in CallRecord
    BY <1>0 DEF CallRecord
  <2>4. call' = [call EXCEPT ![c] = [call[c] EXCEPT !.pc = "missing"]]
    BY <1>2 DEF FileMissing
  <2>5. [call[c] EXCEPT !.pc = "missing"].job = j
    BY <1>0 DEF CallRecord
  <2> QED BY <1>2, <1>b, <2>2, <2>3, <2>4, <2>5 DEF FileMissing, TypeOK, lists, bounds
<1>3. CASE MarkMissing(c)
  <2>1. jobs' \in [Jobs -> JobRow]
    BY <1>0, <1>3, MarkedTypes DEF MarkMissing, Statuses
  <2> QED BY <1>3, <1>a, <2>1, FailedTypes DEF MarkMissing, TypeOK, lists, bounds
<1>4. CASE Defer(c)
  BY <1>4, <1>a DEF Defer, TypeOK, lists, bounds
<1>5. CASE Launch(c)
  <2>1. j \in Jobs /\ jobs[j].attempts + 1 \in Nat
    BY <1>0, <1>5, <1>c DEF Launch, JobRow
  <2>2. jobs' \in [Jobs -> JobRow]
    BY <1>5, <2>1 DEF Launch, JobRow, TypeOK
  <2> DEFINE n == jobs[j].attempts + 1
             r == [call[c] EXCEPT !.pc = "opening", !.count = n]
  <2>3. r \in CallRecord /\ r.job = j
    <3>1. n \in Nat
      BY <2>1
    <3> HIDE DEF n
    <3> QED BY <1>0, <3>1 DEF CallRecord
  <2>4. call' = [call EXCEPT ![c] = r]
    BY <1>5 DEF Launch, JobOf
  <2>5. resumed' \in [Jobs -> Nat]
    BY <1>5 DEF Launch, TypeOK
  <2> HIDE DEF r
  <2> QED BY <1>5, <1>b, <2>2, <2>3, <2>4, <2>5 DEF Launch, TypeOK, lists
<1>6. CASE Open(c)
  <2>1. j \in Jobs /\ jobs[j].attempts + 1 \in Nat /\ jobs[j].committed \in 0 .. NBatches
    BY <1>0, <1>6, <1>c DEF Open, JobRow
  <2>2. jobs' \in [Jobs -> JobRow]
    BY <1>6, <2>1, MarkedTypes DEF Open, TypeOK, Statuses
  <2> DEFINE a == IF JobOf(c).status = "NONE" THEN 0 ELSE JobOf(c).attempts + 1
             b == JobOf(c).committed
             r == [call[c] EXCEPT !.pc = "running", !.rows = b, !.attempt = a]
  <2>3. r \in CallRecord /\ r.job = j
    <3>1. a \in Nat /\ b \in 0 .. NBatches
      BY <2>1 DEF JobOf
    <3> HIDE DEF a, b
    <3> QED BY <1>0, <3>1 DEF CallRecord
  <2>4. call' = [call EXCEPT ![c] = r]
    BY <1>6 DEF Open
  <2>5. active' \in [Jobs -> Callers \cup {None}]
    BY <1>6 DEF Open, TypeOK
  <2> HIDE DEF r
  <2> QED BY <1>6, <1>b, <2>2, <2>3, <2>4, <2>5 DEF Open, TypeOK, lists, bounds
<1>7. CASE Write(c)
  <2>1. j \in Jobs /\ call[c].rows + 1 \in 1 .. NBatches /\ call[c].rows + 1 \in 0 .. NBatches
    BY <1>0, <1>7, LimitsAssumption DEF Write, CallRecord
  <2>2. landed' \in [Jobs -> SUBSET (1 .. NBatches)]
    BY <1>7, <2>1 DEF Write, TypeOK
  <2> DEFINE n == call[c].rows + 1
             r == [call[c] EXCEPT !.pc = "checkpoint", !.rows = n]
  <2>3. r \in CallRecord /\ r.job = j
    <3>1. n \in 0 .. NBatches
      BY <2>1
    <3> HIDE DEF n
    <3> QED BY <1>0, <3>1 DEF CallRecord
  <2>4. call' = [call EXCEPT ![c] = r]
    BY <1>7 DEF Write
  <2> HIDE DEF r
  <2> QED BY <1>7, <1>b, <2>2, <2>3, <2>4 DEF Write, TypeOK, lists, bounds
<1>8. CASE Checkpoint(c)
  <2>1. j \in Jobs /\ call[c].rows \in 0 .. NBatches
    BY <1>0, <1>8 DEF Checkpoint, CallRecord
  <2> DEFINE row == [jobs[j] EXCEPT !.committed = call[c].rows, !.stale = FALSE]
  <2>a. row \in JobRow
    BY <2>1, <1>8, <1>c DEF Checkpoint, JobRow
  <2>b. jobs' = [jobs EXCEPT ![j] = row]
    BY <1>8 DEF Checkpoint
  <2>2. jobs' \in [Jobs -> JobRow]
    <3> HIDE DEF row
    <3> QED BY <2>a, <2>b DEF TypeOK
  <2>3. [call[c] EXCEPT !.pc = "running"] \in CallRecord
    BY <1>0 DEF CallRecord
  <2>4. call' = [call EXCEPT ![c] = [call[c] EXCEPT !.pc = "running"]]
    BY <1>8 DEF Checkpoint
  <2>5. [call[c] EXCEPT !.pc = "running"].job = j
    BY <1>0 DEF CallRecord
  <2> QED BY <1>8, <1>b, <2>2, <2>3, <2>4, <2>5 DEF Checkpoint, TypeOK, lists, bounds
<1>9. CASE MarkRun(c)
  <2>1. jobs' \in [Jobs -> JobRow]
    BY <1>0, <1>9, MarkedTypes DEF MarkRun, Statuses
  <2>3. [call[c] EXCEPT !.pc = "leaving"] \in CallRecord
    BY <1>0 DEF CallRecord
  <2>4. call' = [call EXCEPT ![c] = [call[c] EXCEPT !.pc = "leaving"]]
    BY <1>9 DEF MarkRun
  <2>5. [call[c] EXCEPT !.pc = "leaving"].job = j
    BY <1>0 DEF CallRecord
  <2> QED BY <1>9, <1>b, <2>1, <2>3, <2>4, <2>5 DEF MarkRun, TypeOK, lists, bounds
<1>10. CASE Leave(c)
  <2>1. active' \in [Jobs -> Callers \cup {None}]
    BY <1>10 DEF Leave, TypeOK
  <2>2. breaker' \in BreakerRecord
    BY <1>10 DEF Leave, TypeOK, BreakerRecord
  <2> QED BY <1>10, <1>a, <2>1, <2>2 DEF Leave, TypeOK, lists, bounds
<1>11. CASE FailRun(c)
  <2>1. jobs' \in [Jobs -> JobRow]
    BY <1>0, <1>11, MarkedTypes DEF FailRun, Statuses
  <2>2. active' \in [Jobs -> Callers \cup {None}]
    BY <1>11 DEF FailRun, TypeOK
  <2>3. [call[c] EXCEPT !.pc = "caught"] \in CallRecord
    BY <1>0 DEF CallRecord
  <2>4. \/ call' = Returned(c)
        \/ call' = [call EXCEPT ![c] = [call[c] EXCEPT !.pc = "caught"]]
    BY <1>11 DEF FailRun
  <2>5. [call[c] EXCEPT !.pc = "caught"].job = j
    BY <1>0 DEF CallRecord
  <2>6. /\ call' \in [Callers -> CallRecord]
        /\ \A d \in Callers : call'[d].pc # "idle" => call'[d].job \in Jobs
    BY <1>11, <1>a, <1>b, <2>3, <2>4, <2>5 DEF FailRun
  <2> QED BY <1>11, <2>1, <2>2, <2>6 DEF FailRun, TypeOK, lists, bounds
<1>12. CASE Caught(c)
  BY <1>12, <1>a, FailedTypes DEF Caught, TypeOK, lists, bounds
<1>13. CASE CaughtAtCap(c)
  <2>1. jobs' \in [Jobs -> JobRow]
    BY <1>0, <1>13, MarkedTypes DEF CaughtAtCap, Statuses
  <2>2. breaker' \in BreakerRecord
    BY <1>13 DEF CaughtAtCap, TypeOK, BreakerRecord
  <2>3. [call[c] EXCEPT !.pc = "tripping"] \in CallRecord
    BY <1>0 DEF CallRecord
  <2>4. call' = [call EXCEPT ![c] = [call[c] EXCEPT !.pc = "tripping"]]
    BY <1>13 DEF CaughtAtCap
  <2>5. [call[c] EXCEPT !.pc = "tripping"].job = j
    BY <1>0 DEF CallRecord
  <2> QED BY <1>13, <1>b, <2>1, <2>2, <2>3, <2>4, <2>5 DEF CaughtAtCap, TypeOK, lists, bounds
<1>14. CASE TripCheck(c)
  <2>1. breaker' \in BreakerRecord
    BY <1>14 DEF TripCheck, TypeOK, BreakerRecord
  <2> QED BY <1>14, <1>a, <2>1 DEF TripCheck, TypeOK, lists, bounds
<1>15. CASE CallThrows(c)
  <2>1. sweep' \in [done : BOOLEAN, due : SUBSET Snapshot]
    BY <1>15, ThrowTypes DEF CallThrows
  <2> QED BY <1>15, <1>a, <2>1 DEF CallThrows, TypeOK, bounds
<1>16. CASE RecheckFails(c)
  <2>1. active' \in [Jobs -> Callers \cup {None}]
    BY <1>16 DEF RecheckFails, TypeOK
  <2>2. [call[c] EXCEPT !.pc = "caught"] \in CallRecord /\ [call[c] EXCEPT !.pc = "caught"].job = j
    BY <1>0 DEF CallRecord
  <2>3. call' = [call EXCEPT ![c] = [call[c] EXCEPT !.pc = "caught"]]
    BY <1>16 DEF RecheckFails
  <2> QED BY <1>16, <1>b, <2>1, <2>2, <2>3 DEF RecheckFails, TypeOK, lists, bounds
<1>17. CASE CapMarkFails(c)
  <2>1. sweep' \in [done : BOOLEAN, due : SUBSET Snapshot]
    BY <1>17, ThrowTypes DEF CapMarkFails
  <2>2. breaker' \in BreakerRecord
    <3>1. breaker' = [breaker EXCEPT !.failures = @ + 1, !.missed = TRUE] /\ breaker \in BreakerRecord
      BY <1>17 DEF CapMarkFails, TypeOK
    <3>2. breaker.failures + 1 \in Nat
      BY <3>1 DEF BreakerRecord
    <3>3. \E n \in Nat : breaker' = [breaker EXCEPT !.failures = n, !.missed = TRUE]
      BY <3>1, <3>2
    <3> QED BY <3>1, <3>3 DEF BreakerRecord
  <2> QED BY <1>17, <1>a, <2>1, <2>2 DEF CapMarkFails, TypeOK, bounds
<1> QED BY <1>1, <1>2, <1>3, <1>4, <1>5, <1>6, <1>7, <1>8, <1>9, <1>10, <1>11, <1>12,
           <1>13, <1>14, <1>15, <1>16, <1>17 DEF CallNext

\* A step of the sweep, the reaper, the process or the host.
LEMMA ServerTypeOK == TypeOK /\ ServerNext => TypeOK'
<1> SUFFICES ASSUME TypeOK, ServerNext PROVE TypeOK'
  OBVIOUS
<1>0. Sweeper \in Callers
  BY DEF Callers
<1>1. CASE SweepReads
  <2>1. Snapshots({j \in Jobs : Recoverable(j)}) \subseteq Snapshot
    BY SnapshotsTypes
  <2>2. sweep' \in [done : BOOLEAN, due : SUBSET Snapshot]
    <3>1. \E D \in {{}, Snapshots({j \in Jobs : Recoverable(j)})} :
              sweep' = [done |-> TRUE, due |-> D]
      BY <1>1 DEF SweepReads
    <3> QED BY <2>1, <3>1
  <2> QED BY <1>1, <2>2 DEF SweepReads, TypeOK, bounds
<1>2. CASE SweepPicks
  <2>1. PICK s \in sweep.due :
        /\ call' = [call EXCEPT ![Sweeper] =
                       [IdleCall EXCEPT !.pc = "validating", !.job = s.job, !.snap = s.attempts]]
        /\ sweep' = [sweep EXCEPT !.due = @ \ {s}]
    BY <1>2 DEF SweepPicks
  <2>2. s.job \in Jobs /\ s.attempts \in Nat
    BY DEF TypeOK, Snapshot
  <2>3. [IdleCall EXCEPT !.pc = "validating", !.job = s.job, !.snap = s.attempts] \in CallRecord
    BY <2>2, IdleCallTypes DEF CallRecord
  <2>4. [IdleCall EXCEPT !.pc = "validating", !.job = s.job, !.snap = s.attempts].job = s.job
    BY DEF IdleCall
  <2>5. /\ call' \in [Callers -> CallRecord]
        /\ \A d \in Callers : call'[d].pc # "idle" => call'[d].job \in Jobs
    BY <1>0, <2>1, <2>2, <2>3, <2>4, CallTypes
  <2>6. sweep' \in [done : BOOLEAN, due : SUBSET Snapshot]
    BY <2>1 DEF TypeOK
  <2> QED BY <1>2, <2>5, <2>6 DEF SweepPicks, TypeOK, bounds
<1>3. CASE SweepStops
  <2>1. sweep' \in [done : BOOLEAN, due : SUBSET Snapshot]
    BY <1>3 DEF SweepStops, TypeOK
  <2> QED BY <1>3, <2>1 DEF SweepStops, TypeOK, bounds
<1>4. CASE ReaperReads
  <2>1. Snapshots({j \in Jobs : Stuck(j)}) \subseteq Snapshot
    BY SnapshotsTypes
  <2> QED BY <1>4, <2>1 DEF ReaperReads, TypeOK, bounds
<1>5. CASE ReaperMarks
  <2>1. PICK s \in stuckJobs :
        /\ jobs' = Marked(s.job, IF s.attempts >= MaxAttempts THEN "FAILED_INCOMPLETE"
                                                               ELSE "INTERRUPTED")
        /\ stuckJobs' = stuckJobs \ {s}
    BY <1>5 DEF ReaperMarks
  <2>2. s.job \in Jobs
    BY DEF TypeOK, Snapshot
  <2>3. jobs' \in [Jobs -> JobRow]
    BY <2>1, <2>2, MarkedTypes DEF Statuses
  <2> QED BY <1>5, <2>1, <2>3 DEF ReaperMarks, TypeOK, bounds
<1>6. CASE Shutdown
  <2>1. \A c \in Callers : /\ [call[c] EXCEPT !.aborting = TRUE] \in CallRecord
                           /\ [call[c] EXCEPT !.aborting = TRUE].pc = call[c].pc
                           /\ [call[c] EXCEPT !.aborting = TRUE].job = call[c].job
    BY DEF TypeOK, CallRecord
  <2>2. \A c \in Callers : call'[c] \in {call[c], [call[c] EXCEPT !.aborting = TRUE]}
    BY <1>6 DEF Shutdown
  <2>3. call' = [c \in Callers |-> call'[c]]
    BY <1>6 DEF Shutdown
  <2>4. \A c \in Callers : call'[c] \in CallRecord /\ call'[c].pc = call[c].pc
                           /\ call'[c].job = call[c].job
    BY <2>1, <2>2 DEF TypeOK
  <2>5. call' \in [Callers -> CallRecord]
    BY <2>3, <2>4
  <2>6. unheard' \subseteq Jobs
    BY <1>6 DEF Shutdown, TypeOK, InFile
  <2> QED BY <1>6, <2>4, <2>5, <2>6 DEF Shutdown, TypeOK
<1>7. CASE ManagerMarks
  <2>1. PICK j \in pausing : jobs' = Marked(j, "INTERRUPTED") /\ pausing' = pausing \ {j}
    BY <1>7 DEF ManagerMarks
  <2>2. jobs' \in [Jobs -> JobRow]
    BY <2>1, MarkedTypes DEF TypeOK, Statuses
  <2> QED BY <1>7, <2>1, <2>2 DEF ManagerMarks, TypeOK, bounds
<1>8. CASE ProcessEnds
  <2>1. /\ call' \in [Callers -> CallRecord]
        /\ \A d \in Callers : call'[d].pc # "idle" => call'[d].job \in Jobs
    BY <1>8, IdleCallTypes DEF ProcessEnds
  <2>2. sweep' \in [done : BOOLEAN, due : SUBSET Snapshot] /\ stuckJobs' \subseteq Snapshot
        /\ pausing' \subseteq Jobs
    BY <1>8 DEF ProcessEnds
  <2>3. active' \in [Jobs -> Callers \cup {None}]
    BY <1>8 DEF ProcessEnds
  <2>4. breaker' \in BreakerRecord
    BY <1>8 DEF ProcessEnds, NoFailures, BreakerRecord
  <2>5. crashes' \in Nat /\ server' = "down" /\ unheard' \subseteq Jobs
        /\ UNCHANGED <<jobs, landed, resumed, retries>>
    BY <1>8 DEF ProcessEnds, TypeOK
  <2> QED BY <2>1, <2>2, <2>3, <2>4, <2>5 DEF TypeOK
<1>9. CASE Restart
  <2>1. \A j \in Jobs : [jobs[j] EXCEPT !.onDisk = FALSE] \in JobRow
    BY DEF TypeOK, JobRow
  <2>2. jobs' \in [Jobs -> JobRow]
    BY <1>9, <2>1 DEF Restart, TypeOK
  <2> QED BY <1>9, <2>2 DEF Restart, TypeOK, bounds
<1>10. CASE ResetBreaker
  <2>1. breaker' \in BreakerRecord
    BY <1>10 DEF ResetBreaker, NoFailures, BreakerRecord
  <2> QED BY <1>10, <2>1 DEF ResetBreaker, TypeOK, lists, bounds
<1>11. CASE ManagerMarkFails
  BY <1>11 DEF ManagerMarkFails, TypeOK, bounds
<1> QED BY <1>1, <1>2, <1>3, <1>4, <1>5, <1>6, <1>7, <1>8, <1>9, <1>10, <1>11 DEF ServerNext

\* Every step keeps the types.
LEMMA StepTypeOK == TypeOK /\ [Next]_vars => TypeOK'
<1> SUFFICES ASSUME TypeOK, [Next]_vars PROVE TypeOK'
  OBVIOUS
<1>1. CASE \E c \in Callers : CallNext(c)
  BY <1>1, CallTypeOK
<1>2. ASSUME NEW j \in Jobs, Upload(j) PROVE TypeOK'
  <2>1. jobs' \in [Jobs -> JobRow]
    BY <1>2 DEF Upload, TypeOK, JobRow
  <2>2. [IdleCall EXCEPT !.pc = "opening", !.job = j] \in CallRecord
    BY IdleCallTypes DEF CallRecord
  <2>3. [IdleCall EXCEPT !.pc = "opening", !.job = j].job = j
    BY DEF IdleCall
  <2>4. j \in Callers
    BY CallerIsNotNone
  <2>5. /\ call' \in [Callers -> CallRecord]
        /\ \A d \in Callers : call'[d].pc # "idle" => call'[d].job \in Jobs
    BY <1>2, <2>2, <2>3, <2>4, CallTypes DEF Upload
  <2> QED BY <1>2, <2>1, <2>5 DEF Upload, TypeOK, lists, bounds
<1>3. ASSUME NEW j \in Jobs, GrowStale(j) PROVE TypeOK'
  <2>1. jobs' \in [Jobs -> JobRow]
    BY <1>3 DEF GrowStale, TypeOK, JobRow
  <2> QED BY <1>3, <2>1 DEF GrowStale, TypeOK, lists, bounds
<1>4. ASSUME NEW j \in Jobs, NEW c \in Retriers, Retry(c, j) PROVE TypeOK'
  <2>1. jobs[j].attempts \in Nat
    BY DEF TypeOK, JobRow
  <2> DEFINE r == [IdleCall EXCEPT !.pc = "validating", !.job = j, !.snap = jobs[j].attempts]
  <2>2. r \in CallRecord
    BY <2>1, IdleCallTypes DEF CallRecord
  <2>3. r.job = j
    BY DEF IdleCall
  <2>4. c \in Callers /\ call' = [call EXCEPT ![c] = r]
    BY <1>4, CallerIsNotNone DEF Retry
  <2> HIDE DEF r
  <2>5. /\ call' \in [Callers -> CallRecord]
        /\ \A d \in Callers : call'[d].pc # "idle" => call'[d].job \in Jobs
    BY <2>2, <2>3, <2>4, CallTypes
  <2> QED BY <1>4, <2>5 DEF Retry, TypeOK, lists
<1>5. CASE ServerNext
  BY <1>5, ServerTypeOK
<1>6. CASE UNCHANGED vars
  BY <1>6 DEF vars, TypeOK
<1> QED BY <1>1, <1>2, <1>3, <1>4, <1>5, <1>6 DEF Next

\* The tables of the database, of the manager and of the callers keep their types.
THEOREM TypeCorrect == Spec => []TypeOK
  BY InitTypeOK, StepTypeOK, PTL DEF Spec

-----------------------------------------------------------------------------
(* Registration.                                                           *)

\* Nothing a process that is stopping, or another caller, does makes a registered
\* controller stale; a run that unregisters its job takes away its own entry or
\* one that a second run of the job put in its place.
LEMMA StepNoStaleController ==
    TypeOK /\ NoStaleController /\ [Next]_vars => NoStaleController'
<1> SUFFICES ASSUME TypeOK, NoStaleController, [Next]_vars,
                    NEW j \in Jobs, active'[j] # None
             PROVE  /\ call'[active'[j]].job = j
                    /\ call'[active'[j]].pc \in {"running", "checkpoint", "leaving"}
  BY DEF NoStaleController
<1> DEFINE d == active[j]
<1>0. d # None => /\ d \in Callers /\ call[d].job = j
                  /\ call[d].pc \in {"running", "checkpoint", "leaving"}
                  /\ call[d] \in CallRecord
  BY DEF TypeOK, NoStaleController
<1>1. ASSUME NEW c \in Callers, CallNext(c)
      PROVE  /\ call'[active'[j]].job = j
             /\ call'[active'[j]].pc \in {"running", "checkpoint", "leaving"}
  <2>0. call[c] \in CallRecord /\ active \in [Jobs -> Callers \cup {None}]
    BY DEF TypeOK
  <2>a. CASE /\ active' = active /\ call[c].pc \notin {"running", "checkpoint", "leaving"}
             /\ \A e \in Callers : e # c => call'[e] = call[e]
    BY <1>0, <2>a
  <2>b. CASE /\ active' = active
             /\ call'[c].job = call[c].job
             /\ call'[c].pc \in {"running", "checkpoint", "leaving"}
             /\ \A e \in Callers : e # c => call'[e] = call[e]
    BY <1>0, <2>b
  <2>c. CASE /\ active' = [active EXCEPT ![call[c].job] = None]
             /\ \A e \in Callers : e # c => call'[e] = call[e]
    BY <1>0, <2>0, <2>c
  <2>1. CASE \/ RejectAtCap(c) \/ MarkMissing(c) \/ Defer(c) \/ Caught(c) \/ TripCheck(c)
             \/ CallThrows(c) \/ CapMarkFails(c)
    BY <2>1, <2>a DEF RejectAtCap, MarkMissing, Defer, Caught, TripCheck, CallThrows, CapMarkFails,
                      Returned, TypeOK
  <2>2. CASE FileMissing(c) \/ Launch(c) \/ CaughtAtCap(c)
    BY <2>2, <2>a DEF FileMissing, Launch, CaughtAtCap, TypeOK
  <2>3. CASE Open(c)
    <3>1. call[c].job \in Jobs /\ call[c].pc = "opening"
      BY <2>3 DEF Open, TypeOK
    <3>2. call'[c].pc = "running" /\ call'[c].job = call[c].job
          /\ \A e \in Callers : e # c => call'[e] = call[e]
      BY <2>0, <2>3 DEF Open, TypeOK, CallRecord
    <3>3. active' = [active EXCEPT ![call[c].job] = c]
      BY <2>3 DEF Open
    <3> QED BY <1>0, <2>0, <3>1, <3>2, <3>3
  <2>4. CASE Write(c)
    BY <2>0, <2>4, <2>b DEF Write, TypeOK, CallRecord
  <2>5. CASE Checkpoint(c)
    BY <2>0, <2>5, <2>b DEF Checkpoint, TypeOK, CallRecord
  <2>6. CASE MarkRun(c)
    BY <2>0, <2>6, <2>b DEF MarkRun, TypeOK, CallRecord
  <2>7. CASE Leave(c) \/ RecheckFails(c)
    BY <2>7, <2>c DEF Leave, RecheckFails, Returned, TypeOK
  <2>8. CASE FailRun(c)
    BY <2>8, <2>c DEF FailRun, Returned, TypeOK
  <2> QED BY <1>1, <2>1, <2>2, <2>3, <2>4, <2>5, <2>6, <2>7, <2>8 DEF CallNext
<1>2. ASSUME NEW i \in Jobs, Upload(i)
      PROVE  /\ call'[active'[j]].job = j
             /\ call'[active'[j]].pc \in {"running", "checkpoint", "leaving"}
  BY <1>0, <1>2 DEF Upload, TypeOK
<1>3. ASSUME NEW i \in Jobs, NEW c \in Retriers, Retry(c, i)
      PROVE  /\ call'[active'[j]].job = j
             /\ call'[active'[j]].pc \in {"running", "checkpoint", "leaving"}
  BY <1>0, <1>3 DEF Retry, TypeOK
<1>4. ASSUME NEW i \in Jobs, GrowStale(i)
      PROVE  /\ call'[active'[j]].job = j
             /\ call'[active'[j]].pc \in {"running", "checkpoint", "leaving"}
  BY <1>0, <1>4 DEF GrowStale
<1>5. CASE SweepPicks
  BY <1>0, <1>5 DEF SweepPicks, TypeOK
<1>6. CASE Shutdown
  <2>1. \A c \in Callers : call'[c] \in {call[c], [call[c] EXCEPT !.aborting = TRUE]}
    BY <1>6 DEF Shutdown
  <2> QED BY <1>0, <1>6, <2>1 DEF Shutdown, CallRecord
<1>7. CASE ProcessEnds
  BY <1>7 DEF ProcessEnds
<1>8. CASE SweepReads \/ SweepStops \/ ReaperReads \/ ReaperMarks \/ ManagerMarks \/ Restart
           \/ ManagerMarkFails \/ ResetBreaker \/ UNCHANGED vars
  BY <1>0, <1>8 DEF SweepReads, SweepStops, ReaperReads, ReaperMarks, ManagerMarks, Restart,
                    ManagerMarkFails, ResetBreaker, vars
<1> QED BY <1>1, <1>2, <1>3, <1>4, <1>5, <1>6, <1>7, <1>8 DEF Next, ServerNext

\* The manager never aborts a run that is not there.
THEOREM ControllersAreLive == Spec => []NoStaleController
<1>1. Init => NoStaleController
  BY DEF Init, NoStaleController
<1> QED BY <1>1, TypeCorrect, StepNoStaleController, PTL DEF Spec

-----------------------------------------------------------------------------
(* Checkpoints.                                                            *)

\* What a run has read since its checkpoint it has written, whoever wrote the
\* checkpoint meanwhile: the coverage of a checkpoint needs no exclusive run.
RunsCover ==
    \A c \in Callers :
        call[c].pc \in {"running", "checkpoint", "leaving"} =>
            1 .. call[c].rows \subseteq landed[call[c].job]

CoverInv == RunsCover /\ CommittedBatchesLanded

LEMMA StepCoverInv == TypeOK /\ CoverInv /\ [Next]_vars => CoverInv'
<1> SUFFICES ASSUME TypeOK, CoverInv, [Next]_vars PROVE CoverInv'
  OBVIOUS
<1>0. \A c \in Callers : call[c] \in CallRecord /\ (call[c].pc # "idle" => call[c].job \in Jobs)
  BY DEF TypeOK
<1>r. \A i \in Jobs : jobs[i] \in JobRow
  BY DEF TypeOK
<1>a. ASSUME \A j \in Jobs : landed[j] \subseteq landed'[j],
             \A c \in Callers : call'[c].pc \in {"running", "checkpoint", "leaving"} =>
                /\ call[c].pc \in {"running", "checkpoint", "leaving"}
                /\ call'[c].rows = call[c].rows /\ call'[c].job = call[c].job
      PROVE  RunsCover'
  <2> SUFFICES ASSUME NEW c \in Callers, call'[c].pc \in {"running", "checkpoint", "leaving"}
               PROVE  1 .. call'[c].rows \subseteq landed'[call'[c].job]
    BY DEF RunsCover
  <2>1. call[c].job \in Jobs /\ 1 .. call[c].rows \subseteq landed[call[c].job]
    BY <1>0, <1>a DEF CoverInv, RunsCover
  <2> QED BY <1>a, <2>1
<1>b. ASSUME \A j \in Jobs : landed[j] \subseteq landed'[j],
             \A j \in Jobs : jobs'[j].committed = jobs[j].committed
      PROVE  CommittedBatchesLanded'
  BY <1>b DEF CoverInv, CommittedBatchesLanded
<1>m. \A i \in Jobs, status \in Statuses, j \in Jobs :
          Marked(i, status)[j].committed = jobs[j].committed
  BY <1>r DEF TypeOK, Marked, JobRow
<1>1. ASSUME NEW c \in Callers, CallNext(c) PROVE CoverInv'
  <2>0. call[c] \in CallRecord
    BY <1>0
  <2>1. CASE RejectAtCap(c) \/ MarkMissing(c) \/ CaughtAtCap(c)
    <3>1. call[c].job \in Jobs /\ landed' = landed
      BY <1>0, <2>1 DEF RejectAtCap, MarkMissing, CaughtAtCap
    <3>2. \A j \in Jobs : jobs'[j].committed = jobs[j].committed
      BY <1>m, <2>1, <3>1 DEF RejectAtCap, MarkMissing, CaughtAtCap, Statuses
    <3>3. call'[c].pc \in {"idle", "tripping"} /\ \A e \in Callers : e # c => call'[e] = call[e]
      <4>1. CASE RejectAtCap(c) \/ MarkMissing(c)
        BY <4>1 DEF RejectAtCap, MarkMissing, Returned, IdleCall, TypeOK
      <4>2. CASE CaughtAtCap(c)
        BY <2>0, <4>2 DEF CaughtAtCap, CallRecord, TypeOK
      <4> QED BY <2>1, <4>1, <4>2
    <3> QED BY <1>a, <1>b, <3>1, <3>2, <3>3 DEF CoverInv
  <2>2. CASE FileMissing(c) \/ Launch(c)
    <3>1. call[c].job \in Jobs /\ landed' = landed
      BY <1>0, <2>2 DEF FileMissing, Launch
    <3>2. \A j \in Jobs : jobs'[j].committed = jobs[j].committed
      <4>1. jobs' = [jobs EXCEPT ![call[c].job].attempts = @ + 1]
        BY <2>2 DEF FileMissing, Launch
      <4> QED BY <1>r, <4>1 DEF TypeOK, JobRow
    <3>3. call'[c].pc \in {"missing", "opening"} /\ \A e \in Callers : e # c => call'[e] = call[e]
      BY <2>0, <2>2 DEF FileMissing, Launch, TypeOK, CallRecord
    <3> QED BY <1>a, <1>b, <3>1, <3>2, <3>3 DEF CoverInv
  <2>3. CASE Defer(c) \/ Caught(c) \/ TripCheck(c) \/ CallThrows(c) \/ CapMarkFails(c)
    <3>1. landed' = landed /\ jobs' = jobs
      BY <2>3 DEF Defer, Caught, TripCheck, CallThrows, CapMarkFails
    <3>3. call'[c].pc = "idle" /\ \A e \in Callers : e # c => call'[e] = call[e]
      BY <2>3 DEF Defer, Caught, TripCheck, CallThrows, CapMarkFails, Returned, IdleCall, TypeOK
    <3> QED BY <1>a, <1>b, <3>1, <3>3 DEF CoverInv
  <2>4. CASE Open(c)
    <3>1. call[c].job \in Jobs /\ landed' = landed
      BY <1>0, <2>4 DEF Open
    <3>2. \A j \in Jobs : jobs'[j].committed = jobs[j].committed
      BY <1>m, <2>4, <3>1 DEF Open, Statuses
    <3>3. call'[c].job = call[c].job /\ call'[c].rows = jobs[call[c].job].committed
          /\ \A e \in Callers : e # c => call'[e] = call[e]
      BY <2>0, <2>4 DEF Open, JobOf, TypeOK, CallRecord
    <3>4. 1 .. call'[c].rows \subseteq landed'[call'[c].job]
      BY <3>1, <3>3 DEF CoverInv, CommittedBatchesLanded
    <3>5. RunsCover'
      BY <1>0, <3>1, <3>3, <3>4 DEF CoverInv, RunsCover
    <3> QED BY <1>b, <3>1, <3>2, <3>5 DEF CoverInv
  <2>5. CASE Write(c)
    <3>1. call[c].job \in Jobs /\ call[c].rows \in Nat /\ jobs' = jobs
          /\ 1 .. call[c].rows \subseteq landed[call[c].job]
      BY <1>0, <2>5 DEF Write, CallRecord, CoverInv, RunsCover
    <3>2. landed' = [landed EXCEPT ![call[c].job] = @ \cup {call[c].rows + 1}]
      BY <2>5 DEF Write
    <3>3. \A j \in Jobs : landed[j] \subseteq landed'[j]
      BY <3>2 DEF TypeOK
    <3>4. call'[c].job = call[c].job /\ call'[c].rows = call[c].rows + 1
          /\ \A e \in Callers : e # c => call'[e] = call[e]
      BY <2>0, <2>5 DEF Write, TypeOK, CallRecord
    <3>5. landed'[call[c].job] = landed[call[c].job] \cup {call[c].rows + 1}
      BY <3>1, <3>2 DEF TypeOK
    <3>6. 1 .. (call[c].rows + 1) = (1 .. call[c].rows) \cup {call[c].rows + 1}
      BY <3>1
    <3>7. 1 .. call'[c].rows \subseteq landed'[call'[c].job]
      BY <3>1, <3>4, <3>5, <3>6
    <3>8. \A e \in Callers : e # c /\ call'[e].pc \in {"running", "checkpoint", "leaving"}
              => 1 .. call'[e].rows \subseteq landed'[call'[e].job]
      <4> TAKE e \in Callers
      <4> HAVE e # c /\ call'[e].pc \in {"running", "checkpoint", "leaving"}
      <4>1. call'[e] = call[e] /\ call[e].job \in Jobs
        BY <1>0, <3>4
      <4>2. 1 .. call[e].rows \subseteq landed[call[e].job]
        BY <4>1 DEF CoverInv, RunsCover
      <4> QED BY <3>3, <4>1, <4>2
    <3> QED BY <1>b, <3>1, <3>3, <3>7, <3>8 DEF CoverInv, RunsCover
  <2>6. CASE Checkpoint(c)
    <3>1. call[c].job \in Jobs /\ landed' = landed
          /\ 1 .. call[c].rows \subseteq landed[call[c].job]
      BY <1>0, <2>6 DEF Checkpoint, CoverInv, RunsCover
    <3>2. \A j \in Jobs : jobs'[j].committed = IF j = call[c].job THEN call[c].rows
                                               ELSE jobs[j].committed
      BY <1>r, <2>6, <3>1 DEF Checkpoint, TypeOK, JobRow
    <3>3. CommittedBatchesLanded'
      BY <3>1, <3>2 DEF CoverInv, CommittedBatchesLanded
    <3>4. call'[c].rows = call[c].rows /\ call'[c].job = call[c].job
          /\ \A e \in Callers : e # c => call'[e] = call[e]
      BY <2>0, <2>6 DEF Checkpoint, TypeOK, CallRecord
    <3>5. call[c].pc = "checkpoint"
      BY <2>6 DEF Checkpoint
    <3> QED BY <1>a, <3>1, <3>3, <3>4, <3>5 DEF CoverInv
  <2>7. CASE MarkRun(c)
    <3>1. call[c].job \in Jobs /\ landed' = landed
      BY <1>0, <2>7 DEF MarkRun
    <3>2. \A j \in Jobs : jobs'[j].committed = jobs[j].committed
      BY <1>m, <2>7, <3>1 DEF MarkRun, Statuses
    <3>4. call'[c].rows = call[c].rows /\ call'[c].job = call[c].job
          /\ \A e \in Callers : e # c => call'[e] = call[e]
      BY <2>0, <2>7 DEF MarkRun, TypeOK, CallRecord
    <3>5. call[c].pc = "running"
      BY <2>7 DEF MarkRun
    <3> QED BY <1>a, <1>b, <3>1, <3>2, <3>4, <3>5 DEF CoverInv
  <2>8. CASE Leave(c) \/ RecheckFails(c)
    <3>1. landed' = landed /\ jobs' = jobs
      BY <2>8 DEF Leave, RecheckFails
    <3>3. call'[c].pc \in {"idle", "caught"} /\ \A e \in Callers : e # c => call'[e] = call[e]
      BY <2>0, <2>8 DEF Leave, RecheckFails, Returned, IdleCall, TypeOK, CallRecord
    <3> QED BY <1>a, <1>b, <3>1, <3>3 DEF CoverInv
  <2>9. CASE FailRun(c)
    <3>1. call[c].job \in Jobs /\ landed' = landed
      BY <1>0, <2>9 DEF FailRun
    <3>2. \A j \in Jobs : jobs'[j].committed = jobs[j].committed
      BY <1>m, <2>9, <3>1 DEF FailRun, Statuses
    <3>3. call'[c].pc \in {"idle", "caught"} /\ \A e \in Callers : e # c => call'[e] = call[e]
      BY <2>0, <2>9 DEF FailRun, Returned, IdleCall, TypeOK, CallRecord
    <3> QED BY <1>a, <1>b, <3>1, <3>2, <3>3 DEF CoverInv
  <2> QED BY <1>1, <2>1, <2>2, <2>3, <2>4, <2>5, <2>6, <2>7, <2>8, <2>9 DEF CallNext
<1>2. ASSUME NEW i \in Jobs, Upload(i) PROVE CoverInv'
  <2>1. landed' = landed /\ \A j \in Jobs : jobs'[j].committed = jobs[j].committed
    BY <1>r, <1>2 DEF Upload, TypeOK, JobRow
  <2>2. call'[i].pc = "opening" /\ \A e \in Callers : e # i => call'[e] = call[e]
    BY <1>2, CallerIsNotNone DEF Upload, TypeOK, IdleCall
  <2> QED BY <1>a, <1>b, <2>1, <2>2 DEF CoverInv
<1>3. ASSUME NEW i \in Jobs, NEW c \in Retriers, Retry(c, i) PROVE CoverInv'
  <2>1. landed' = landed /\ jobs' = jobs
    BY <1>3 DEF Retry
  <2>2. call'[c].pc = "validating" /\ \A e \in Callers : e # c => call'[e] = call[e]
    BY <1>3, CallerIsNotNone DEF Retry, TypeOK, IdleCall
  <2> QED BY <1>a, <1>b, <2>1, <2>2 DEF CoverInv
<1>4. ASSUME NEW i \in Jobs, GrowStale(i) PROVE CoverInv'
  <2>1. landed' = landed /\ call' = call /\ \A j \in Jobs : jobs'[j].committed = jobs[j].committed
    BY <1>r, <1>4 DEF GrowStale, TypeOK, JobRow
  <2> QED BY <1>a, <1>b, <2>1 DEF CoverInv
<1>5. CASE SweepPicks
  <2>1. landed' = landed /\ jobs' = jobs
    BY <1>5 DEF SweepPicks
  <2>2. call'[Sweeper].pc = "validating" /\ \A e \in Callers : e # Sweeper => call'[e] = call[e]
    BY <1>5 DEF SweepPicks, TypeOK, IdleCall, Callers
  <2> QED BY <1>a, <1>b, <2>1, <2>2 DEF CoverInv
<1>6. CASE Shutdown
  <2>1. landed' = landed /\ jobs' = jobs
    BY <1>6 DEF Shutdown
  <2>2. \A c \in Callers : call'[c] \in {call[c], [call[c] EXCEPT !.aborting = TRUE]}
    BY <1>6 DEF Shutdown
  <2>3. \A c \in Callers : /\ call'[c].pc = call[c].pc /\ call'[c].rows = call[c].rows
                           /\ call'[c].job = call[c].job
    BY <1>0, <2>2 DEF CallRecord
  <2> QED BY <1>a, <1>b, <2>1, <2>3 DEF CoverInv
<1>7. CASE ProcessEnds
  <2>1. landed' = landed /\ jobs' = jobs /\ \A c \in Callers : call'[c].pc = "idle"
    BY <1>7 DEF ProcessEnds, IdleCall
  <2> QED BY <1>a, <1>b, <2>1 DEF CoverInv
<1>8. CASE Restart
  <2>1. landed' = landed /\ call' = call
    BY <1>8 DEF Restart
  <2>2. \A j \in Jobs : jobs'[j].committed = jobs[j].committed
    BY <1>r, <1>8 DEF Restart, JobRow
  <2> QED BY <1>a, <1>b, <2>1, <2>2 DEF CoverInv
<1>9. CASE ReaperMarks
  <2>1. landed' = landed /\ call' = call
    BY <1>9 DEF ReaperMarks
  <2>2. \A s \in stuckJobs : s.job \in Jobs
    BY DEF TypeOK, Snapshot
  <2>3. \A j \in Jobs : jobs'[j].committed = jobs[j].committed
    BY <1>m, <1>9, <2>2 DEF ReaperMarks, Statuses
  <2> QED BY <1>a, <1>b, <2>1, <2>3 DEF CoverInv
<1>10. CASE ManagerMarks
  <2>1. landed' = landed /\ call' = call /\ pausing \subseteq Jobs
    BY <1>10 DEF ManagerMarks, TypeOK
  <2>2. \A j \in Jobs : jobs'[j].committed = jobs[j].committed
    BY <1>m, <1>10, <2>1 DEF ManagerMarks, Statuses
  <2> QED BY <1>a, <1>b, <2>1, <2>2 DEF CoverInv
<1>11. CASE SweepReads \/ SweepStops \/ ReaperReads \/ ManagerMarkFails \/ ResetBreaker
            \/ UNCHANGED vars
  <2>1. landed' = landed /\ jobs' = jobs /\ call' = call
    BY <1>11 DEF SweepReads, SweepStops, ReaperReads, ManagerMarkFails, ResetBreaker, vars
  <2> QED BY <1>a, <1>b, <2>1 DEF CoverInv
<1> QED BY <1>1, <1>2, <1>3, <1>4, <1>5, <1>6, <1>7, <1>8, <1>9, <1>10, <1>11
        DEF Next, ServerNext

\* No interleaving of two runs of one job, of crashes and of retries lets a checkpoint
\* name a batch that was not written.
THEOREM CheckpointsCover == Spec => []CommittedBatchesLanded
<1>1. Init => CoverInv
  BY DEF Init, CoverInv, RunsCover, CommittedBatchesLanded, IdleCall, NoRow
<1>2. CoverInv => CommittedBatchesLanded
  BY DEF CoverInv
<1> QED BY <1>1, <1>2, TypeCorrect, StepCoverInv, PTL DEF Spec

-----------------------------------------------------------------------------
(* Attempts.                                                               *)

\* What is left of the sweep's list is behind the attempts the sweep has used: it
\* names a job once, and not the one that is being validated.
SweepInv ==
    /\ \A j \in Jobs : resumed[j] <= MaxAttempts /\ resumed[j] <= jobs[j].attempts
    /\ \A s \in sweep.due : resumed[s.job] <= s.attempts /\ s.attempts < MaxAttempts
    /\ \A s, t \in sweep.due : s.job = t.job => s = t
    /\ call[Sweeper].pc = "validating" =>
        /\ resumed[call[Sweeper].job] <= call[Sweeper].snap
        /\ \A s \in sweep.due : s.job # call[Sweeper].job
    /\ ~sweep.done => sweep.due = {} /\ call[Sweeper].pc = "idle"

\* No row of the table ever loses an attempt.
LEMMA AttemptsGrow ==
    TypeOK /\ [Next]_vars => \A j \in Jobs : jobs[j].attempts <= jobs'[j].attempts
<1> SUFFICES ASSUME TypeOK, [Next]_vars
             PROVE  \A j \in Jobs : jobs[j].attempts <= jobs'[j].attempts
  OBVIOUS
<1>0. \A j \in Jobs : jobs[j] \in JobRow /\ jobs[j].attempts \in Nat
  BY DEF TypeOK, JobRow
<1>e. jobs' = jobs => \A j \in Jobs : jobs[j].attempts <= jobs'[j].attempts
  BY <1>0
<1>m. \A i \in Jobs, status \in Statuses : jobs' = Marked(i, status) =>
          \A j \in Jobs : jobs[j].attempts <= jobs'[j].attempts
  BY <1>0 DEF TypeOK, Marked, JobRow
<1>1. ASSUME NEW c \in Callers, CallNext(c)
      PROVE  \A j \in Jobs : jobs[j].attempts <= jobs'[j].attempts
  <2>0. call[c].pc # "idle" => call[c].job \in Jobs
    BY DEF TypeOK
  <2>1. CASE RejectAtCap(c) \/ MarkMissing(c) \/ CaughtAtCap(c) \/ MarkRun(c) \/ FailRun(c)
    BY <1>m, <2>0, <2>1
       DEF RejectAtCap, MarkMissing, CaughtAtCap, MarkRun, FailRun, Statuses
  <2>2. CASE Open(c)
    BY <1>e, <1>m, <2>0, <2>2 DEF Open, Statuses
  <2>3. CASE FileMissing(c) \/ Launch(c)
    <3>1. jobs' = [jobs EXCEPT ![call[c].job].attempts = @ + 1] /\ call[c].job \in Jobs
      BY <2>0, <2>3 DEF FileMissing, Launch
    <3>2. \A j \in Jobs : jobs'[j].attempts = IF j = call[c].job THEN jobs[j].attempts + 1
                                              ELSE jobs[j].attempts
      BY <1>0, <3>1 DEF TypeOK, JobRow
    <3> QED BY <1>0, <3>2
  <2>4. CASE Checkpoint(c)
    <3>1. call[c].job \in Jobs
      BY <2>0, <2>4 DEF Checkpoint
    <3>2. \A j \in Jobs : jobs'[j].attempts = jobs[j].attempts
      BY <1>0, <2>4, <3>1 DEF Checkpoint, TypeOK, JobRow
    <3> QED BY <1>0, <3>2
  <2>5. CASE \/ Defer(c) \/ Write(c) \/ Leave(c) \/ Caught(c) \/ TripCheck(c)
             \/ CallThrows(c) \/ RecheckFails(c) \/ CapMarkFails(c)
    BY <1>e, <2>5 DEF Defer, Write, Leave, Caught, TripCheck, CallThrows, RecheckFails,
                      CapMarkFails
  <2> QED BY <1>1, <2>1, <2>2, <2>3, <2>4, <2>5 DEF CallNext
<1>2. ASSUME NEW i \in Jobs, Upload(i) \/ GrowStale(i)
      PROVE  \A j \in Jobs : jobs[j].attempts <= jobs'[j].attempts
  <2>1. CASE Upload(i)
    <3>1. \A j \in Jobs : jobs'[j].attempts = jobs[j].attempts
      BY <1>0, <2>1 DEF Upload, TypeOK, JobRow
    <3> QED BY <1>0, <3>1
  <2>2. CASE GrowStale(i)
    <3>1. \A j \in Jobs : jobs'[j].attempts = jobs[j].attempts
      BY <1>0, <2>2 DEF GrowStale, TypeOK, JobRow
    <3> QED BY <1>0, <3>1
  <2> QED BY <1>2, <2>1, <2>2
<1>3. ASSUME NEW i \in Jobs, NEW c \in Retriers, Retry(c, i)
      PROVE  \A j \in Jobs : jobs[j].attempts <= jobs'[j].attempts
  BY <1>e, <1>3 DEF Retry
<1>4. CASE ReaperMarks
  <2>1. \A s \in stuckJobs : s.job \in Jobs
    BY DEF TypeOK, Snapshot
  <2> QED BY <1>m, <1>4, <2>1 DEF ReaperMarks, Statuses
<1>5. CASE ManagerMarks
  BY <1>m, <1>5 DEF ManagerMarks, Statuses, TypeOK
<1>6. CASE Restart
  <2>1. \A j \in Jobs : jobs'[j].attempts = jobs[j].attempts
    BY <1>0, <1>6 DEF Restart, JobRow
  <2> QED BY <1>0, <2>1
<1>7. CASE SweepReads \/ SweepPicks \/ SweepStops \/ ReaperReads \/ Shutdown \/ ProcessEnds
           \/ ManagerMarkFails \/ ResetBreaker \/ UNCHANGED vars
  BY <1>e, <1>7 DEF SweepReads, SweepPicks, SweepStops, ReaperReads, Shutdown, ProcessEnds,
                    ManagerMarkFails, ResetBreaker, vars
<1> QED BY <1>1, <1>2, <1>3, <1>4, <1>5, <1>6, <1>7 DEF Next, ServerNext

LEMMA StepSweepInv == TypeOK /\ SweepInv /\ [Next]_vars => SweepInv'
<1> SUFFICES ASSUME TypeOK, SweepInv, [Next]_vars PROVE SweepInv'
  OBVIOUS
<1>0. /\ Sweeper \in Callers /\ Sweeper \notin Jobs /\ Sweeper \notin Retriers
      /\ call[Sweeper] \in CallRecord
      /\ call[Sweeper].pc # "idle" => call[Sweeper].job \in Jobs
      /\ \A j \in Jobs : resumed[j] \in Nat /\ jobs[j].attempts \in Nat
      /\ \A s \in sweep.due : s.job \in Jobs /\ s.attempts \in Nat
  BY CallersAssumption DEF TypeOK, Callers, JobRow, Snapshot
<1>1. \A j \in Jobs : jobs[j].attempts <= jobs'[j].attempts /\ jobs'[j].attempts \in Nat
  BY AttemptsGrow, StepTypeOK DEF TypeOK, JobRow
<1>a. ASSUME resumed' = resumed, sweep' = sweep,
             call'[Sweeper] = call[Sweeper]
             \/ /\ call'[Sweeper].pc # "validating" /\ call[Sweeper].pc # "idle"
             \/ /\ call'[Sweeper].pc = call[Sweeper].pc /\ call'[Sweeper].job = call[Sweeper].job
                /\ call'[Sweeper].snap = call[Sweeper].snap
      PROVE  SweepInv'
  <2>1. \A j \in Jobs : resumed'[j] <= MaxAttempts /\ resumed'[j] <= jobs'[j].attempts
    BY <1>0, <1>1, <1>a DEF SweepInv
  <2> QED BY <1>a, <2>1 DEF SweepInv
<1>2. ASSUME NEW c \in Callers, CallNext(c), ~Launch(c), ~CallThrows(c), ~CapMarkFails(c)
      PROVE  SweepInv'
  <2>1. resumed' = resumed /\ sweep' = sweep
    BY <1>2 DEF CallNext, RejectAtCap, FileMissing, MarkMissing, Defer, Open, Write, Checkpoint,
                MarkRun, Leave, FailRun, Caught, CaughtAtCap, TripCheck, RecheckFails, lists, bounds
  <2>2. \A e \in Callers : e # c => call'[e] = call[e]
    BY <1>2 DEF CallNext, RejectAtCap, FileMissing, MarkMissing, Defer, Open, Write, Checkpoint,
                MarkRun, Leave, FailRun, Caught, CaughtAtCap, TripCheck, RecheckFails, Returned,
                TypeOK
  <2>3. call[c] \in CallRecord /\ call[c].pc # "idle"
    BY <1>2 DEF TypeOK, CallNext, RejectAtCap, FileMissing, MarkMissing, Defer, Open, Write,
                Checkpoint, MarkRun, Leave, FailRun, Caught, CaughtAtCap, TripCheck, RecheckFails
  <2>4. call'[c].pc # "validating"
    <3>1. CASE call' = Returned(c)
      BY <3>1 DEF Returned, IdleCall, TypeOK
    <3>2. CASE ~(call' = Returned(c))
      BY <1>2, <2>3, <3>2 DEF CallNext, RejectAtCap, FileMissing, MarkMissing, Defer, Open, Write,
                Checkpoint, MarkRun, Leave, FailRun, Caught, CaughtAtCap, TripCheck, RecheckFails,
                TypeOK, CallRecord
    <3> QED BY <3>1, <3>2
  <2>5. CASE c = Sweeper
    BY <1>a, <2>1, <2>3, <2>4, <2>5
  <2>6. CASE c # Sweeper
    BY <1>0, <1>a, <2>1, <2>2, <2>6
  <2> QED BY <2>5, <2>6
<1>3. ASSUME NEW c \in Callers, Launch(c) PROVE SweepInv'
  <2>1. CASE c # Sweeper
    <3>1. resumed' = resumed /\ sweep' = sweep /\ call'[Sweeper] = call[Sweeper]
      BY <1>0, <1>3, <2>1 DEF Launch, lists, TypeOK
    <3> QED BY <1>a, <3>1
  <2>2. CASE c = Sweeper
    <3> DEFINE j == call[Sweeper].job
    <3>1. /\ call[Sweeper].pc = "validating" /\ call[Sweeper].snap < MaxAttempts /\ j \in Jobs
          /\ call[Sweeper].snap \in Nat
      BY <1>0, <1>3, <2>2 DEF Launch, CallRecord
    <3>2. resumed' = [resumed EXCEPT ![j] = @ + 1] /\ sweep' = sweep
      BY <1>3, <2>2 DEF Launch, lists
    <3>3. call'[Sweeper].pc = "opening"
      BY <1>0, <1>3, <2>2 DEF Launch, TypeOK, CallRecord
    <3>4. jobs'[j].attempts = jobs[j].attempts + 1
      BY <1>0, <1>3, <2>2, <3>1 DEF Launch, TypeOK, JobRow
    <3>5. resumed[j] <= call[Sweeper].snap /\ \A s \in sweep.due : s.job # j
      BY <3>1 DEF SweepInv
    <3>6. \A i \in Jobs : resumed'[i] = IF i = j THEN resumed[j] + 1 ELSE resumed[i]
      BY <3>1, <3>2 DEF TypeOK
    <3>7. resumed'[j] <= MaxAttempts /\ resumed'[j] <= jobs'[j].attempts
      BY <1>0, <3>1, <3>4, <3>5, <3>6, LimitsAssumption DEF SweepInv
    <3>8. \A i \in Jobs : resumed'[i] <= MaxAttempts /\ resumed'[i] <= jobs'[i].attempts
      BY <1>0, <1>1, <3>6, <3>7 DEF SweepInv
    <3>9. \A s \in sweep'.due : resumed'[s.job] <= s.attempts /\ s.attempts < MaxAttempts
      BY <1>0, <3>2, <3>5, <3>6 DEF SweepInv
    <3>10. sweep'.done
      BY <3>1, <3>2 DEF SweepInv
    <3> QED BY <3>2, <3>3, <3>8, <3>9, <3>10 DEF SweepInv
  <2> QED BY <2>1, <2>2
<1>12. ASSUME NEW c \in Callers, CallThrows(c) \/ CapMarkFails(c) PROVE SweepInv'
  <2>1. /\ resumed' = resumed /\ SweepAfterThrow(c)
        /\ \A e \in Callers : e # c => call'[e] = call[e]
        /\ call'[c].pc = "idle" /\ call[c].pc # "idle"
    BY <1>12 DEF CallThrows, CapMarkFails, bounds, Returned, IdleCall, TypeOK
  <2>2. CASE c = Sweeper
    <3>1. sweep.done
      BY <2>1, <2>2 DEF SweepInv
    <3>2. sweep'.due \subseteq sweep.due /\ sweep'.done
      BY <2>1, <3>1, ThrowTypes
    <3>3. \A j \in Jobs : resumed'[j] <= MaxAttempts /\ resumed'[j] <= jobs'[j].attempts
      BY <1>0, <1>1, <2>1 DEF SweepInv
    <3> QED BY <2>1, <2>2, <3>2, <3>3 DEF SweepInv
  <2>3. CASE c # Sweeper
    BY <1>0, <1>a, <2>1, <2>3, ThrowTypes
  <2> QED BY <2>2, <2>3
<1>4. ASSUME NEW j \in Jobs, Upload(j) PROVE SweepInv'
  BY <1>0, <1>4, <1>a DEF Upload, TypeOK, lists, bounds
<1>5. ASSUME NEW j \in Jobs, NEW c \in Retriers, Retry(c, j) PROVE SweepInv'
  BY <1>0, <1>5, <1>a DEF Retry, TypeOK, lists
<1>6. CASE SweepReads
  <2>1. /\ resumed' = resumed /\ call' = call /\ jobs' = jobs /\ sweep'.done
        /\ call[Sweeper].pc = "idle"
    BY <1>6 DEF SweepReads, SweepInv, bounds
  <2>2. sweep'.due \subseteq Snapshots({j \in Jobs : Recoverable(j)})
    BY <1>6 DEF SweepReads
  <2>3. \A s \in sweep'.due : /\ s.job \in Jobs /\ s.attempts = jobs[s.job].attempts
                              /\ s = [job |-> s.job, attempts |-> jobs[s.job].attempts]
                              /\ jobs[s.job].attempts < MaxAttempts
    BY <2>2 DEF Snapshots, Recoverable
  <2>4. \A s \in sweep'.due : resumed'[s.job] <= s.attempts /\ s.attempts < MaxAttempts
    BY <2>1, <2>3 DEF SweepInv
  <2>5. \A s, t \in sweep'.due : s.job = t.job => s = t
    BY <2>3
  <2> QED BY <2>1, <2>4, <2>5 DEF SweepInv
<1>7. CASE SweepPicks
  <2>1. PICK s \in sweep.due :
        /\ call' = [call EXCEPT ![Sweeper] =
                       [IdleCall EXCEPT !.pc = "validating", !.job = s.job, !.snap = s.attempts]]
        /\ sweep' = [sweep EXCEPT !.due = @ \ {s}]
    BY <1>7 DEF SweepPicks
  <2>2. resumed' = resumed /\ jobs' = jobs /\ sweep'.due = sweep.due \ {s}
        /\ sweep'.done = sweep.done
    BY <1>7, <2>1 DEF SweepPicks, bounds, TypeOK
  <2>3. call'[Sweeper].pc = "validating" /\ call'[Sweeper].job = s.job
        /\ call'[Sweeper].snap = s.attempts
    BY <1>0, <2>1 DEF TypeOK, IdleCall
  <2>4. sweep.done
    BY <2>1 DEF SweepInv
  <2> QED BY <2>1, <2>2, <2>3, <2>4 DEF SweepInv
<1>8. CASE SweepStops
  <2>1. resumed' = resumed /\ jobs' = jobs /\ call' = call /\ sweep'.due = {}
        /\ sweep'.done = sweep.done
    BY <1>8 DEF SweepStops, bounds, TypeOK
  <2> QED BY <2>1 DEF SweepInv
<1>9. CASE Shutdown
  <2>1. call'[Sweeper] \in {call[Sweeper], [call[Sweeper] EXCEPT !.aborting = TRUE]}
    BY <1>0, <1>9 DEF Shutdown
  <2>2. call'[Sweeper].pc = call[Sweeper].pc /\ call'[Sweeper].job = call[Sweeper].job
        /\ call'[Sweeper].snap = call[Sweeper].snap
    BY <1>0, <2>1 DEF CallRecord
  <2> QED BY <1>9, <1>a, <2>2 DEF Shutdown, bounds
<1>10. CASE ProcessEnds
  <2>1. resumed' = resumed /\ jobs' = jobs /\ sweep' = [done |-> FALSE, due |-> {}]
        /\ call'[Sweeper].pc = "idle"
    BY <1>0, <1>10 DEF ProcessEnds, IdleCall
  <2> QED BY <2>1 DEF SweepInv
<1>11. CASE \/ \E j \in Jobs : GrowStale(j)
            \/ ReaperReads \/ ReaperMarks \/ ManagerMarks \/ ManagerMarkFails \/ Restart
            \/ ResetBreaker \/ UNCHANGED vars
  BY <1>11, <1>a DEF GrowStale, ReaperReads, ReaperMarks, ManagerMarks, ManagerMarkFails, Restart,
                     ResetBreaker, lists, bounds, vars
<1> QED BY <1>2, <1>3, <1>4, <1>5, <1>6, <1>7, <1>8, <1>9, <1>10, <1>11, <1>12
        DEF Next, ServerNext

\* The crash loop ends: a job that kills every process that touches it costs the server
\* no more than MAX_RESUME_ATTEMPTS resumptions, whatever is retried by hand.
THEOREM AutoResumesAreCapped == Spec => []AutoResumesCapped
<1>1. Init => SweepInv
  BY LimitsAssumption DEF Init, SweepInv, NoRow, IdleCall, Callers
<1>2. SweepInv => AutoResumesCapped
  BY DEF SweepInv, AutoResumesCapped
<1> QED BY <1>1, <1>2, TypeCorrect, StepSweepInv, PTL DEF Spec

-----------------------------------------------------------------------------
(* Completion.                                                             *)

\* A job becomes COMPLETED when all its batches are written, or at the hand of a run
\* that drops its rows in a draining process and does not know it.
LEMMA CompletedSteps ==
    ASSUME TypeOK, CoverInv, [Next]_vars, NEW j \in Jobs,
           jobs'[j].status = "COMPLETED", jobs[j].status # "COMPLETED"
    PROVE  \/ landed[j] = 1 .. NBatches
           \/ /\ server = "draining"
              /\ \E c \in Callers : InFile(c) /\ ~call[c].aborting /\ call[c].job = j
<1>0. \A c \in Callers : call[c] \in CallRecord /\ (call[c].pc # "idle" => call[c].job \in Jobs)
  BY DEF TypeOK
<1>r. \A i \in Jobs : jobs[i] \in JobRow /\ landed[i] \subseteq 1 .. NBatches
  BY DEF TypeOK
<1>m. \A i \in Jobs, status \in Statuses :
          Marked(i, status)[j].status = IF i = j THEN status ELSE jobs[j].status
  BY <1>r DEF TypeOK, Marked, JobRow
<1>1. ASSUME NEW c \in Callers, CallNext(c)
      PROVE  MarkRun(c) /\ ~call[c].aborting /\ call[c].job = j
  <2>0. call[c].job \in Jobs
    BY <1>0, <1>1 DEF CallNext, RejectAtCap, FileMissing, MarkMissing, Defer, Launch,
        Open, Write, Checkpoint, MarkRun, Leave, FailRun, Caught, CaughtAtCap, TripCheck, CallThrows,
        RecheckFails, CapMarkFails
  <2>1. CASE MarkRun(c)
    BY <1>m, <2>0, <2>1 DEF MarkRun, Statuses
  <2>2. CASE RejectAtCap(c) \/ MarkMissing(c) \/ CaughtAtCap(c) \/ FailRun(c)
    BY <1>m, <2>0, <2>2 DEF RejectAtCap, MarkMissing, CaughtAtCap, FailRun, Statuses
  <2>3. CASE Open(c)
    BY <1>m, <2>0, <2>3 DEF Open, Statuses
  <2>4. CASE FileMissing(c) \/ Launch(c)
    <3>1. jobs' = [jobs EXCEPT ![call[c].job].attempts = @ + 1]
      BY <2>4 DEF FileMissing, Launch
    <3> QED BY <1>r, <3>1 DEF TypeOK, JobRow
  <2>5. CASE Checkpoint(c)
    BY <1>r, <2>5 DEF Checkpoint, TypeOK, JobRow
  <2>6. CASE \/ Defer(c) \/ Write(c) \/ Leave(c) \/ Caught(c) \/ TripCheck(c)
             \/ CallThrows(c) \/ RecheckFails(c) \/ CapMarkFails(c)
    BY <2>6 DEF Defer, Write, Leave, Caught, TripCheck, CallThrows, RecheckFails, CapMarkFails
  <2> QED BY <1>1, <2>1, <2>2, <2>3, <2>4, <2>5, <2>6 DEF CallNext
<1>2. PICK c \in Callers : CallNext(c)
  <2>1. ASSUME NEW i \in Jobs, Upload(i) \/ GrowStale(i) PROVE FALSE
    <3>1. CASE Upload(i)
      BY <1>r, <3>1 DEF Upload, TypeOK, JobRow
    <3>2. CASE GrowStale(i)
      BY <1>r, <3>2 DEF GrowStale, TypeOK, JobRow
    <3> QED BY <2>1, <3>1, <3>2
  <2>2. ASSUME NEW i \in Jobs, NEW c \in Retriers, Retry(c, i) PROVE FALSE
    BY <2>2 DEF Retry
  <2>3. CASE ReaperMarks
    <3>1. \A s \in stuckJobs : s.job \in Jobs
      BY DEF TypeOK, Snapshot
    <3> QED BY <1>m, <2>3, <3>1 DEF ReaperMarks, Statuses
  <2>4. CASE ManagerMarks
    BY <1>m, <2>4 DEF ManagerMarks, TypeOK, Statuses
  <2>5. CASE Restart
    BY <1>r, <2>5 DEF Restart, JobRow
  <2>6. CASE SweepReads \/ SweepPicks \/ SweepStops \/ ReaperReads \/ Shutdown \/ ProcessEnds
             \/ ManagerMarkFails \/ ResetBreaker \/ UNCHANGED vars
    BY <2>6 DEF SweepReads, SweepPicks, SweepStops, ReaperReads, Shutdown, ProcessEnds,
                ManagerMarkFails, ResetBreaker, vars
  <2> QED BY <2>1, <2>2, <2>3, <2>4, <2>5, <2>6 DEF Next, ServerNext
<1>3. /\ call[c].pc = "running" /\ ~call[c].aborting /\ call[c].job = j
      /\ call[c].rows = NBatches \/ server = "draining"
  BY <1>1, <1>2 DEF MarkRun, Dropping
<1>4. CASE call[c].rows = NBatches
  BY <1>r, <1>3, <1>4 DEF CoverInv, RunsCover
<1>5. CASE server = "draining"
  BY <1>3, <1>5 DEF InFile
<1> QED BY <1>3, <1>4, <1>5

\* What has been written stays written.
LEMMA LandedGrows ==
    ASSUME TypeOK, [Next]_vars, NEW j \in Jobs
    PROVE  landed[j] \subseteq landed'[j] /\ landed'[j] \subseteq 1 .. NBatches
<1>1. ASSUME NEW c \in Callers, CallNext(c) PROVE landed[j] \subseteq landed'[j]
  BY <1>1 DEF CallNext, RejectAtCap, FileMissing, MarkMissing, Defer, Launch,
        Open, Write, Checkpoint, MarkRun, Leave, FailRun, Caught, CaughtAtCap, TripCheck, CallThrows,
        RecheckFails, CapMarkFails, TypeOK
<1>2. ASSUME ~ \E c \in Callers : CallNext(c) PROVE landed' = landed
  BY <1>2 DEF Next, ServerNext, Upload, GrowStale, Retry, SweepReads, SweepPicks, SweepStops,
        ReaperReads, ReaperMarks, Shutdown, ManagerMarks, ManagerMarkFails,
        ProcessEnds, Restart, ResetBreaker, vars
<1>3. landed'[j] \subseteq 1 .. NBatches
  BY StepTypeOK DEF TypeOK
<1> QED BY <1>1, <1>2, <1>3

\* A run that does not know of the shutdown around it is accounted for, wherever the
\* signal found it: this is what makes CompletedIsExplained inductive.
UnheardRuns ==
    server = "draining" =>
        \A c \in Callers : InFile(c) /\ ~call[c].aborting => call[c].job \in unheard

\* A step that leaves the history alone shows this much of the callers.
LEMMA UnheardStays ==
    ASSUME UnheardRuns, unheard' = unheard, server' = "draining" => server = "draining",
           \A c \in Callers : call'[c] = call[c] \/ ~InFile(c)'
                              \/ (/\ InFile(c) /\ call'[c].job = call[c].job
                                  /\ call'[c].aborting = call[c].aborting)
    PROVE  UnheardRuns'
<1> SUFFICES ASSUME server' = "draining", NEW c \in Callers, InFile(c)', ~call'[c].aborting
             PROVE  call'[c].job \in unheard'
  BY DEF UnheardRuns
<1>1. InFile(c) /\ call'[c].job = call[c].job /\ ~call[c].aborting
  BY DEF InFile
<1> QED BY <1>1 DEF UnheardRuns

LEMMA StepUnheardRuns == TypeOK /\ UnheardRuns /\ [Next]_vars => UnheardRuns'
<1> SUFFICES ASSUME TypeOK, UnheardRuns, [Next]_vars PROVE UnheardRuns'
  OBVIOUS
<1>0. \A c \in Callers : call[c] \in CallRecord /\ (call[c].pc # "idle" => call[c].job \in Jobs)
  BY DEF TypeOK
<1>i. IdleCall.pc = "idle"
  BY DEF IdleCall
<1>1. ASSUME NEW c \in Callers, CallNext(c) PROVE UnheardRuns'
  <2>0. call[c] \in CallRecord /\ server' = server
    BY <1>0, <1>1 DEF CallNext, RejectAtCap, FileMissing, MarkMissing, Defer, Launch,
        Open, Write, Checkpoint, MarkRun, Leave, FailRun, Caught, CaughtAtCap, TripCheck, CallThrows,
        RecheckFails, CapMarkFails, lists
  <2>1. \A e \in Callers : e # c => call'[e] = call[e]
    BY <1>1 DEF CallNext, RejectAtCap, FileMissing, MarkMissing, Defer, Launch,
        Open, Write, Checkpoint, MarkRun, Leave, FailRun, Caught, CaughtAtCap, TripCheck, CallThrows,
        RecheckFails, CapMarkFails, TypeOK,
        Returned
  <2>2. CASE Open(c)
    <3>1. call'[c].job = call[c].job
      BY <2>0, <2>2 DEF Open, TypeOK, CallRecord
    <3>2. unheard' = IF server = "draining" THEN unheard \cup {call[c].job} ELSE unheard
      BY <2>2 DEF Open
    <3>3. ASSUME server = "draining", NEW e \in Callers, InFile(e)', ~call'[e].aborting
          PROVE  call'[e].job \in unheard'
      <4>1. CASE e = c
        BY <3>1, <3>2, <3>3, <4>1
      <4>2. CASE e # c
        <5>1. call'[e] = call[e]
          BY <2>1, <4>2
        <5> QED BY <3>2, <3>3, <5>1 DEF UnheardRuns, InFile
      <4> QED BY <4>1, <4>2
    <3> QED BY <2>0, <3>3 DEF UnheardRuns
  <2>3. CASE Write(c) \/ Checkpoint(c)
    <3>1. InFile(c) /\ call'[c].job = call[c].job /\ call'[c].aborting = call[c].aborting
          /\ unheard' = unheard
      BY <2>0, <2>3 DEF Write, Checkpoint, InFile, TypeOK, CallRecord, bounds
    <3> QED BY <2>0, <2>1, <3>1, UnheardStays
  <2>4. CASE \/ RejectAtCap(c) \/ MarkMissing(c) \/ Defer(c) \/ Leave(c) \/ Caught(c) \/ TripCheck(c)
             \/ CallThrows(c) \/ CapMarkFails(c)
    <3>1. ~InFile(c)' /\ unheard' = unheard
      BY <1>i, <2>4 DEF RejectAtCap, MarkMissing, Defer, Leave, Caught, TripCheck, CallThrows,
                        CapMarkFails, Returned, TypeOK, InFile, bounds
    <3> QED BY <2>0, <2>1, <3>1, UnheardStays
  <2>5. CASE FileMissing(c) \/ Launch(c) \/ MarkRun(c) \/ CaughtAtCap(c) \/ RecheckFails(c)
    <3>1. ~InFile(c)' /\ unheard' = unheard
      BY <2>0, <2>5 DEF FileMissing, Launch, MarkRun, CaughtAtCap, RecheckFails, TypeOK, CallRecord,
                        InFile, bounds
    <3> QED BY <2>0, <2>1, <3>1, UnheardStays
  <2>6. CASE FailRun(c)
    <3>1. ~InFile(c)' /\ unheard' = unheard
      BY <1>i, <2>0, <2>6 DEF FailRun, Returned, TypeOK, CallRecord, InFile, bounds
    <3> QED BY <2>0, <2>1, <3>1, UnheardStays
  <2> QED BY <1>1, <2>2, <2>3, <2>4, <2>5, <2>6 DEF CallNext
<1>2. ASSUME NEW i \in Jobs, Upload(i) PROVE UnheardRuns'
  <2>1. \A e \in Callers : call'[e] = call[e] \/ ~InFile(e)'
    BY <1>2, CallerIsNotNone DEF Upload, TypeOK, IdleCall, InFile
  <2> QED BY <1>2, <2>1, UnheardStays DEF Upload, lists, bounds
<1>3. ASSUME NEW i \in Jobs, NEW c \in Retriers, Retry(c, i) PROVE UnheardRuns'
  <2>1. \A e \in Callers : call'[e] = call[e] \/ ~InFile(e)'
    BY <1>3, CallerIsNotNone DEF Retry, TypeOK, IdleCall, InFile
  <2> QED BY <1>3, <2>1, UnheardStays DEF Retry, lists
<1>4. CASE SweepPicks
  <2>1. \A e \in Callers : call'[e] = call[e] \/ ~InFile(e)'
    BY <1>4 DEF SweepPicks, TypeOK, IdleCall, InFile
  <2> QED BY <1>4, <2>1, UnheardStays DEF SweepPicks, bounds
<1>5. CASE Shutdown
  <2>1. \A c \in Callers : call'[c] = IF Registered(c) THEN [call[c] EXCEPT !.aborting = TRUE]
                                      ELSE call[c]
    BY <1>5 DEF Shutdown
  <2>2. \A c \in Callers : Registered(c) => call'[c].aborting
    BY <1>0, <2>1 DEF CallRecord
  <2>3. \A c \in Callers : InFile(c) /\ ~Registered(c) => call[c].job \in unheard'
    BY <1>5 DEF Shutdown
  <2>4. \A c \in Callers : ~Registered(c) => call'[c] = call[c]
    BY <2>1
  <2> QED BY <2>2, <2>3, <2>4 DEF UnheardRuns, InFile
<1>6. CASE ProcessEnds
  BY <1>6 DEF ProcessEnds, UnheardRuns
<1>7. CASE Restart
  BY <1>7 DEF Restart, UnheardRuns
<1>8. CASE \/ \E j \in Jobs : GrowStale(j)
           \/ SweepReads \/ SweepStops \/ ReaperReads \/ ReaperMarks \/ ManagerMarks
           \/ ManagerMarkFails \/ ResetBreaker \/ UNCHANGED vars
  <2>1. call' = call /\ server' = server /\ unheard' = unheard
    BY <1>8 DEF GrowStale, SweepReads, SweepStops, ReaperReads, ReaperMarks, ManagerMarks,
                ManagerMarkFails, ResetBreaker, lists, bounds, vars
  <2> QED BY <2>1, UnheardStays
<1> QED BY <1>1, <1>2, <1>3, <1>4, <1>5, <1>6, <1>7, <1>8 DEF Next, ServerNext

LEMMA StepCompletedIsExplained ==
    TypeOK /\ CoverInv /\ UnheardRuns /\ CompletedIsExplained /\ [Next]_vars
        => CompletedIsExplained'
<1> SUFFICES ASSUME TypeOK, CoverInv, UnheardRuns, CompletedIsExplained, [Next]_vars,
                    NEW j \in Jobs, jobs'[j].status = "COMPLETED"
             PROVE  landed'[j] = 1 .. NBatches \/ j \in unheard'
  BY DEF CompletedIsExplained
<1>1. landed[j] = 1 .. NBatches \/ j \in unheard
  BY CompletedSteps DEF CompletedIsExplained, UnheardRuns
<1>2. j \in unheard => j \in unheard'
  <2>1. CASE ProcessEnds
    BY <2>1 DEF ProcessEnds
  <2>2. ASSUME NEW c \in Callers, CallNext(c) PROVE unheard \subseteq unheard'
    BY <2>2 DEF CallNext, RejectAtCap, FileMissing, MarkMissing, Defer, Launch, Open, Write,
        Checkpoint, MarkRun, Leave, FailRun, Caught, CaughtAtCap, TripCheck, CallThrows,
        RecheckFails, CapMarkFails, bounds
  <2>3. CASE ~ProcessEnds /\ ~ \E c \in Callers : CallNext(c)
    BY <2>3 DEF Next, ServerNext, Upload, GrowStale, Retry, SweepReads, SweepPicks, SweepStops,
        ReaperReads, ReaperMarks, Shutdown, ManagerMarks, ManagerMarkFails, Restart,
        ResetBreaker, vars, bounds
  <2> QED BY <2>1, <2>2, <2>3
<1>3. landed[j] = 1 .. NBatches => landed'[j] = 1 .. NBatches
  BY LandedGrows
<1> QED BY <1>1, <1>2, <1>3

\* Whatever the host, the sweep, the reaper and administrators do, a COMPLETED job that
\* misses a batch had a run that the shutdown of its process did not reach.
THEOREM CompletedExplained == Spec => []CompletedIsExplained
<1>1. Init => CoverInv /\ UnheardRuns /\ CompletedIsExplained
  BY DEF Init, CoverInv, RunsCover, CommittedBatchesLanded, UnheardRuns, CompletedIsExplained,
         IdleCall, NoRow
<1> QED BY <1>1, TypeCorrect, StepCoverInv, StepUnheardRuns, StepCompletedIsExplained, PTL DEF Spec

\* In a server that is only ever killed nothing drains, and COMPLETED is the whole truth.
THEOREM CompletedIsLanded ==
    ASSUME Graceful = FALSE
    PROVE  Spec => []CompletedJobsLanded
<1> DEFINE Inv == server # "draining" /\ CompletedJobsLanded
<1>1. Init => CoverInv /\ Inv
  BY DEF Init, CoverInv, RunsCover, CommittedBatchesLanded, CompletedJobsLanded, IdleCall, NoRow
<1>2. TypeOK /\ CoverInv /\ Inv /\ [Next]_vars => Inv'
  <2> SUFFICES ASSUME TypeOK, CoverInv, Inv, [Next]_vars PROVE Inv'
    OBVIOUS
  <2>1. server' # "draining"
    <3>1. ASSUME NEW c \in Callers, CallNext(c) PROVE server' = server
      BY <3>1 DEF CallNext, RejectAtCap, FileMissing, MarkMissing, Defer, Launch, Open, Write,
        Checkpoint, MarkRun, Leave, FailRun, Caught, CaughtAtCap, TripCheck, CallThrows,
        RecheckFails, CapMarkFails, lists
    <3>2. CASE ~ \E c \in Callers : CallNext(c)
      BY <3>2 DEF Next, ServerNext, Upload, GrowStale, Retry, SweepReads, SweepPicks, SweepStops,
        ReaperReads, ReaperMarks, Shutdown, ManagerMarks, ManagerMarkFails,
        ProcessEnds, Restart, ResetBreaker, vars,
        lists
    <3> QED BY <3>1, <3>2
  <2>2. ASSUME NEW j \in Jobs, jobs'[j].status = "COMPLETED" PROVE landed'[j] = 1 .. NBatches
    <3>1. landed[j] = 1 .. NBatches
      BY <2>2, CompletedSteps DEF CompletedJobsLanded
    <3> QED BY <3>1, LandedGrows
  <2> QED BY <2>1, <2>2 DEF CompletedJobsLanded
<1>3. Inv => CompletedJobsLanded
  OBVIOUS
<1> HIDE DEF Inv
<1> QED BY <1>1, <1>2, <1>3, TypeCorrect, StepCoverInv, PTL DEF Spec

-----------------------------------------------------------------------------
(* The circuit breaker.                                                    *)

LEMMA StepBreakerTrips == TypeOK /\ BreakerTrips /\ [Next]_vars => BreakerTrips'
<1> SUFFICES ASSUME TypeOK, BreakerTrips, [Next]_vars PROVE BreakerTrips'
  OBVIOUS
<1>0. breaker \in BreakerRecord /\ \A c \in Callers : call[c] \in CallRecord
  BY DEF TypeOK
<1>a. ASSUME breaker' = breaker,
             \A c \in Callers : call[c].pc = "tripping" => call'[c].pc = "tripping"
      PROVE  BreakerTrips'
  BY <1>a DEF BreakerTrips
<1>1. ASSUME NEW c \in Callers, CallNext(c) PROVE BreakerTrips'
  <2>0. \A e \in Callers : e # c => call'[e] = call[e]
    BY <1>1 DEF CallNext, RejectAtCap, FileMissing, MarkMissing, Defer, Launch,
        Open, Write, Checkpoint, MarkRun, Leave, FailRun, Caught, CaughtAtCap, TripCheck, CallThrows,
        RecheckFails, CapMarkFails, TypeOK,
        Returned
  <2>1. CASE MarkMissing(c) \/ Caught(c)
    <3>1. breaker' = Failed
      BY <2>1 DEF MarkMissing, Caught
    <3>2. breaker'.failures = breaker.failures + 1
      BY <3>1 DEF Failed
    <3>3. breaker.failures + 1 >= MaxFailures => breaker'.tripped
      BY <3>1, Zenon DEF Failed
    <3> QED BY <3>2, <3>3 DEF BreakerTrips
  <2>2. CASE CaughtAtCap(c)
    <3>1. call'[c].pc = "tripping"
      BY <1>0, <2>2 DEF CaughtAtCap, TypeOK, CallRecord
    <3> QED BY <3>1 DEF BreakerTrips
  <2>3. CASE TripCheck(c)
    BY <1>0, <2>3 DEF TripCheck, BreakerTrips, BreakerRecord
  <2>6. CASE CapMarkFails(c)
    <3>1. breaker'.missed
      BY <1>0, <2>6 DEF CapMarkFails, BreakerRecord
    <3> QED BY <3>1 DEF BreakerTrips
  <2>4. CASE Leave(c)
    <3>1. CASE breaker' = breaker
      BY <1>a, <2>0, <2>4, <3>1 DEF Leave
    <3>2. CASE breaker' = [breaker EXCEPT !.failures = 0, !.missed = FALSE]
      BY <1>0, <3>2, LimitsAssumption DEF BreakerTrips, BreakerRecord
    <3> QED BY <2>4, <3>1, <3>2 DEF Leave
  <2>5. CASE RejectAtCap(c) \/ FileMissing(c) \/ Defer(c) \/ Launch(c) \/ Open(c) \/ Write(c)
             \/ Checkpoint(c) \/ MarkRun(c) \/ FailRun(c) \/ CallThrows(c) \/ RecheckFails(c)
    BY <1>a, <2>0, <2>5 DEF RejectAtCap, FileMissing, Defer, Launch, Open, Write, Checkpoint,
                            MarkRun, FailRun, CallThrows, RecheckFails
  <2> QED BY <1>1, <2>1, <2>2, <2>3, <2>4, <2>5, <2>6 DEF CallNext
<1>2. ASSUME NEW i \in Jobs, Upload(i) PROVE BreakerTrips'
  BY <1>2, <1>a DEF Upload, TypeOK
<1>3. ASSUME NEW i \in Jobs, NEW c \in Retriers, Retry(c, i) PROVE BreakerTrips'
  BY <1>3, <1>a DEF Retry, TypeOK
<1>4. CASE SweepPicks
  BY <1>4, <1>a DEF SweepPicks, TypeOK
<1>5. CASE Shutdown
  <2>1. \A c \in Callers : call'[c] \in {call[c], [call[c] EXCEPT !.aborting = TRUE]}
    BY <1>5 DEF Shutdown
  <2>2. \A c \in Callers : call'[c].pc = call[c].pc
    BY <1>0, <2>1 DEF CallRecord
  <2> QED BY <1>5, <1>a, <2>2 DEF Shutdown
<1>6. CASE ProcessEnds \/ ResetBreaker
  BY <1>6, LimitsAssumption DEF ProcessEnds, ResetBreaker, BreakerTrips, NoFailures
<1>7. CASE \/ \E j \in Jobs : GrowStale(j)
           \/ SweepReads \/ SweepStops \/ ReaperReads \/ ReaperMarks \/ ManagerMarks
           \/ ManagerMarkFails \/ Restart \/ UNCHANGED vars
  BY <1>7, <1>a DEF GrowStale, SweepReads, SweepStops, ReaperReads, ReaperMarks, ManagerMarks,
                    ManagerMarkFails, Restart, vars
<1> QED BY <1>1, <1>2, <1>3, <1>4, <1>5, <1>6, <1>7 DEF Next, ServerNext

\* However many recoveries fail side by side, the breaker does not miss the last of them;
\* a failure it does miss is one whose handler threw, and the next one counted finds it.
THEOREM BreakerTripsInTime == Spec => []BreakerTrips
<1>1. Init => BreakerTrips
  BY LimitsAssumption DEF Init, BreakerTrips, NoFailures
<1> QED BY <1>1, TypeCorrect, StepBreakerTrips, PTL DEF Spec
=============================================================================
