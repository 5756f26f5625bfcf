---------------------- MODULE ImportPipelineInvariant ----------------------
(***************************************************************************)
(* The inductive invariant behind the checkpoint of ImportPipeline, for a  *)
(* server that is only ever killed (no SIGTERM, no swallowed error): what  *)
(* the locals of a run owe to the checkpoint it resumed from.              *)
(***************************************************************************)
EXTENDS ImportPipeline

\* The setting: crashes only, and no interview row without a candidate.
CrashOnly ==
    /\ MaxFaults = 0 /\ Graceful = FALSE
    /\ "interviews" \in Flows => Anon \notin Contents

\* A run is on its way, or the flush it left behind when it threw.
Active  == run.pc \notin {"idle", "opening"} \/ flush["main"].phase # "idle"
Pending == run.batch \cup flush["main"].todo

\* A valid row the run has passed is in the database, in the batch, or repeats
\* the identity of a row that is.
Handled(r) ==
    \/ Landed(r)
    \/ r \in Pending
    \/ Flow = "interviews" /\ \E q \in Pending : file[q] = file[r]

NoAbort == flush["abort"] = IdleFlush /\ ~run.aborting /\ server # "draining"

\* One flush at a time, of a batch that nothing joins meanwhile.
FlushInv ==
    /\ run.pc = "flushing" => flush["main"].phase # "idle"
    /\ flush["main"].phase # "idle" =>
        /\ run.pc \in {"flushing", "idle"} /\ run.batch = {}
        /\ job.lastRow < flush["main"].last /\ flush["main"].last < run.pos
    /\ flush["main"].phase # "insert" => flush["main"].todo = {}
    /\ run.pc \in {"closing", "marking", "leaving"} => run.batch = {} /\ run.pos > NRows

\* The run is past its checkpoint, or still skipping towards it.
PositionInv ==
    Active =>
        /\ job.status # "NONE"
        /\ run.start <= job.lastRow
        /\ job.lastRow < run.pos \/ job.lastRow = run.start
        /\ run.pc = "row" => run.start < run.pos /\ run.pos <= NRows
        /\ \A r \in Pending : job.lastRow < r /\ r < run.pos /\ Valid(r)

HandledInv == Active => \A r \in Rows : r < run.pos /\ Valid(r) => Handled(r)

\* What a run has seen: every row since its start; in an interview file, only
\* keys that are in the database or about to be.
SeenInv ==
    Active =>
        IF Flow = "candidates"
        THEN \A r \in Rows : run.start < r /\ r < run.pos /\ Valid(r) => file[r] \in run.seen
        ELSE /\ run.stripped = {}
             /\ \A k \in run.seen : \/ \E i \in DOMAIN cands : cands[i].key = k
                                    \/ \E q \in Pending : file[q] = k

\* Only the first row of an identity since the start of a run keeps it.
StrippedInv ==
    Active /\ Flow = "candidates" =>
        \A q \in Pending, r \in Rows :
            q \notin run.stripped /\ file[q] \in Keys /\ run.start < r /\ r < q
                => file[r] # file[q]

\* A record under an identity holds a row that carries it, and among the rows
\* after the checkpoint the first one: the rows a later run writes come after it.
RecordInv ==
    \A i \in DOMAIN cands : cands[i].key \in Keys =>
        /\ file[cands[i].row] = cands[i].key
        /\ Flow = "candidates" =>
            \A r \in Rows : job.lastRow < r /\ r < cands[i].row => file[r] # cands[i].key

\* Everything above, with what it is for.
ResumptionInv ==
    /\ NoAbort /\ FlushInv /\ PositionInv /\ HandledInv /\ SeenInv /\ StrippedInv /\ RecordInv
    /\ CheckpointCoversRows /\ CompletedIsComplete
=============================================================================
