----------------------------- MODULE OfferGate -----------------------------
(***************************************************************************)
(* How a candidate reaches OFFER_SENT: the quality checks an interview     *)
(* selection queues (modules/quality-check/service.js), the sweep that     *)
(* queues what a lost hook did not (jobs/qualityCheckReconciliation.js),   *)
(* the gate every offer has to pass (assertOfferSentAllowed), and all that *)
(* writes the status of the candidate or of the application beside it: the *)
(* candidate and application routes, the pipeline board, the join and      *)
(* reject decisions, the offer, joined and feedback imports, the interview *)
(* feedback routes.                                                        *)
(*                                                                         *)
(* One candidate with at most one application.  Each await of a request is *)
(* a point where the others run; a transaction is one step.  Feedback and  *)
(* the candidate's updates are after the reconciliation cut-off.           *)
(***************************************************************************)
EXTENDS Naturals, Sequences

CONSTANTS
    Rounds,     \* interview rounds considered, of AllRounds
    Requests,   \* status changes in flight at one time
    Hooks,      \* fire-and-forget enqueueCandidate calls in flight at one time
    None,       \* the interviewRoundId of a check that is about no round
    MaxActs,    \* bound: what users and imports do
    MaxFaults   \* bound: processes that end and database errors of the queue

AllRounds   == {"ROUND_1", "ROUND_2", "FINAL_ROUND"}
CheckRounds == Rounds \ {"ROUND_1"}

ASSUME RoundsAssumption == Rounds \subseteq AllRounds /\ None \notin AllRounds
ASSUME BoundAssumption  == MaxActs \in Nat /\ MaxFaults \in Nat

CandStatuses == {"NONE", "ACTIVE", "OFFER_PROPOSED", "OFFER_SENT", "JOINED", "REJECTED"}
AppStatuses  == {"NONE", "IN_PIPELINE", "SELECTED", "OFFER_SENT", "JOINED", "REJECTED"}
Decisions    == {"APPROVED", "REJECTED", "ON_HOLD"}

VARIABLES
    cand,       \* candidates.status, "NONE" before the candidate exists
    old,        \* the candidate was created before GATE_LAUNCH_CUTOFF
    app,        \* applications.status, "NONE" before the application exists
    fb,         \* interview_feedbacks, one row per round
    checks,     \* quality_checks: rows in the order of their creation
    req,        \* locals of the requests that change a status
    hook,       \* locals of the enqueueCandidate calls
    sweep,      \* locals of the reconciliation
    excused,    \* history: since the last rejected check the candidate joined, came into
                \* being with an offer, or an offer was past the gate already
    acts, faults

bounds  == <<acts, faults>>
records == <<cand, old, app, fb, excused>>
vars == <<cand, old, app, fb, checks, req, hook, sweep, excused, acts, faults>>

-----------------------------------------------------------------------------
NoFeedback == [status |-> "NONE", live |-> FALSE]
IdleReq    == [pc |-> "idle", route |-> "candidate", target |-> "ACTIVE"]
IdleHook   == [pc |-> "idle", ref |-> None]
IdleSweep  == [pc |-> "idle", todo |-> {}, item |-> "nothing"]

NewCheck(ref) == [ref |-> ref, status |-> "PENDING", approved |-> FALSE]

\* A candidate known before the gate was launched may hold any status; others may
\* have been selected, and their check queued, before the first step.
Init ==
    /\ old \in BOOLEAN
    /\ cand \in IF old THEN {"ACTIVE", "OFFER_SENT"} ELSE {"NONE", "ACTIVE"}
    /\ app \in IF cand = "NONE" THEN {"NONE"} ELSE {"NONE", "IN_PIPELINE"}
    /\ \/ fb = [rd \in Rounds |-> NoFeedback] /\ checks = <<>>
       \/ /\ cand = "ACTIVE" /\ "ROUND_2" \in Rounds
          /\ fb = [rd \in Rounds |-> IF rd = "ROUND_2" THEN [status |-> "SELECTED", live |-> TRUE]
                                     ELSE NoFeedback]
          /\ checks = <<NewCheck("ROUND_2")>>
    /\ req = [r \in Requests |-> IdleReq] /\ hook = [h \in Hooks |-> IdleHook]
    /\ sweep = IdleSweep /\ excused = FALSE
    /\ acts = 0 /\ faults = 0

Act   == acts < MaxActs /\ acts' = acts + 1
Fault == faults < MaxFaults /\ faults' = faults + 1

\* The candidate's status is written; a join excuses the offers that follow.
SetCand(s) == cand' = s /\ excused' = (excused \/ s = "JOINED")

\* A status change that has passed the gate, or has none to pass, and is to write.
Writing(r)  == req[r].pc \in {"candidate", "application"}
InFlight(r) == Writing(r) /\ req[r].target = "OFFER_SENT"

-----------------------------------------------------------------------------
(* Status changes.  A request names its route, the status it asks for and  *)
(* the step it waits for: the three reads of the gate, or a write.         *)

AppFirst == {"application", "decision", "move"}     \* routes that write the application first

FirstWrite(route) == IF route \in AppFirst THEN "application" ELSE "candidate"

Enter(r, route, target, pc) ==
    req' = [req EXCEPT ![r] = [pc |-> pc, route |-> route, target |-> target]]

\* PATCH /candidates/:id; OFFER_PROPOSED fires the enqueue hook before the update.
AskCandidate(r, target) ==
    /\ Act /\ req[r].pc = "idle" /\ cand # "NONE" /\ target # "NONE"
    /\ Enter(r, "candidate", target, IF target = "OFFER_SENT" THEN "status" ELSE "candidate")
    /\ IF target = "OFFER_PROPOSED"
       THEN \E h \in Hooks :
                /\ hook[h].pc = "idle"
                /\ hook' = [hook EXCEPT ![h] = [pc |-> "find", ref |-> None]]
       ELSE UNCHANGED hook
    /\ UNCHANGED <<records, checks, sweep, faults>>

\* PATCH /applications/:id/status.
AskApplication(r, target) ==
    /\ Act /\ req[r].pc = "idle" /\ app # "NONE" /\ target # "NONE"
    /\ Enter(r, "application", target, IF target = "OFFER_SENT" THEN "status" ELSE "application")
    /\ UNCHANGED <<records, checks, hook, sweep, faults>>

\* PATCH /pipeline/applications/:id/move, to a stage whose name means target.
AskMove(r, target) ==
    /\ Act /\ req[r].pc = "idle" /\ app # "NONE"
    /\ target \in {"IN_PIPELINE", "SELECTED", "JOINED", "REJECTED"}
    /\ Enter(r, "move", target, "application")
    /\ UNCHANGED <<records, checks, hook, sweep, faults>>

\* POST /applications/:id/join and /reject: the application must stand at OFFER_SENT.
AskDecision(r, target) ==
    /\ Act /\ req[r].pc = "idle" /\ app = "OFFER_SENT" /\ target \in {"JOINED", "REJECTED"}
    /\ Enter(r, "decision", target, "application")
    /\ UNCHANGED <<records, checks, hook, sweep, faults>>

\* A row of an offer or joined import finds the candidate it is about, or none:
\* then it creates one, and nothing guards that.
ImportRow(r, target) ==
    /\ Act /\ req[r].pc = "idle" /\ target \in {"OFFER_SENT", "JOINED"}
    /\ Enter(r, "import", target,
             IF target = "OFFER_SENT" /\ cand # "NONE" THEN "status" ELSE "candidate")
    /\ excused' = (excused \/ cand = "NONE")
    /\ UNCHANGED <<cand, old, app, fb, checks, hook, sweep, faults>>

\* assertOfferSentAllowed, first read: offered or joined already.
GateStatus(r) ==
    /\ req[r].pc = "status"
    /\ req' = [req EXCEPT ![r].pc =
                  IF cand \in {"OFFER_SENT", "JOINED"} THEN FirstWrite(req[r].route) ELSE "count"]
    /\ UNCHANGED <<records, checks, hook, sweep, bounds>>

\* Second read: an old candidate that has no check.
GateCount(r) ==
    /\ req[r].pc = "count"
    /\ req' = [req EXCEPT ![r].pc =
                  IF checks = <<>> /\ old THEN FirstWrite(req[r].route) ELSE "approval"]
    /\ UNCHANGED <<records, checks, hook, sweep, bounds>>

\* Mutant of Approving: a check that was not rejected is as good as an approved one.
NotRejecting(i) == checks[i].status # "REJECTED"

\* A check that opens the gate.  An APPROVED check always carries a salary.
Approving(i) == checks[i].status = "APPROVED"

\* Third read: an approved check, or the request is refused.
GateApproval(r) ==
    /\ req[r].pc = "approval"
    /\ req' = IF \E i \in DOMAIN checks : Approving(i)
              THEN [req EXCEPT ![r].pc = FirstWrite(req[r].route)]
              ELSE [req EXCEPT ![r] = IdleReq]
    /\ UNCHANGED <<records, checks, hook, sweep, bounds>>

\* Mutant of AppFollows: the application follows whatever the candidate's status becomes.
AppAlwaysFollows(r) == req[r].route \in {"candidate", "import"}

\* The routes that write the application after the candidate: a joined candidate's,
\* and that of an imported row.
AppFollows(r) ==
    \/ req[r].route = "candidate" /\ req[r].target = "JOINED"
    \/ req[r].route = "import"

WriteCandidate(r) ==
    /\ req[r].pc = "candidate"
    /\ SetCand(req[r].target)
    /\ req' = IF AppFollows(r) THEN [req EXCEPT ![r].pc = "application"]
              ELSE [req EXCEPT ![r] = IdleReq]
    /\ UNCHANGED <<old, app, fb, checks, hook, sweep, bounds>>

\* The application routes that go on to the candidate.
CandFollows(r) ==
    \/ req[r].route = "decision"
    \/ /\ req[r].route = "application"
       /\ req[r].target \in {"JOINED", "REJECTED", "OFFER_SENT"}

\* An import creates an application the candidate does not have; there its write is
\* best effort.  A JOINED candidate's has to exist to be updated.
WriteApplication(r) ==
    /\ req[r].pc = "application"
    /\ \/ app' = IF req[r].route = "candidate" /\ app = "NONE" THEN "NONE" ELSE req[r].target
       \/ req[r].route = "import" /\ UNCHANGED app
    /\ req' = IF CandFollows(r) THEN [req EXCEPT ![r].pc = "candidate"]
              ELSE [req EXCEPT ![r] = IdleReq]
    /\ UNCHANGED <<cand, old, fb, checks, hook, sweep, excused, bounds>>

-----------------------------------------------------------------------------
(* Records that come into being, and interview feedback.                   *)

\* allowedCreateStatuses.
CreateStatuses == {"ACTIVE", "OFFER_SENT", "JOINED", "REJECTED"}

\* POST /candidates, with a resume or without: the status comes from the body, and an
\* offer passes no gate.
CreateCandidate(s) ==
    /\ cand = "NONE" /\ cand' = s
    /\ excused' = (excused \/ s \in {"OFFER_SENT", "JOINED"})
    /\ UNCHANGED <<old, app, fb, checks, req, hook, sweep, bounds>>

\* POST /applications, and the transfer to another job.
CreateApplication ==
    /\ cand # "NONE" /\ app = "NONE" /\ app' = "IN_PIPELINE"
    /\ UNCHANGED <<cand, old, fb, checks, req, hook, sweep, excused, bounds>>

Saved(rd, s) == fb' = [fb EXCEPT ![rd] = [status |-> s, live |-> TRUE]]

\* POST /:candidateId/feedback: one transaction; a selection in a round that is
\* checked then fires the enqueue hook.
GiveFeedback(rd, s) ==
    /\ Act /\ cand # "NONE"
    /\ Saved(rd, s)
    /\ cand' = IF s = "REJECTED" THEN "REJECTED" ELSE cand
    /\ IF s = "SELECTED" /\ rd \in CheckRounds
       THEN \E h \in Hooks :
                /\ hook[h].pc = "idle"
                /\ hook' = [hook EXCEPT ![h] = [pc |-> "find", ref |-> rd]]
       ELSE UNCHANGED hook
    /\ UNCHANGED <<old, app, checks, req, sweep, excused, faults>>

\* A row of a feedback import: no transaction, no hook; the candidate's status is
\* written after the feedback.
ImportFeedback(r, rd, s) ==
    /\ Act /\ cand # "NONE" /\ req[r].pc = "idle"
    /\ Saved(rd, s)
    /\ IF s = "REJECTED" THEN Enter(r, "feedback", "REJECTED", "candidate") ELSE UNCHANGED req
    /\ UNCHANGED <<cand, old, app, checks, hook, sweep, excused, faults>>

\* DELETE /:candidateId/feedback/:round, of a feedback deleted before as well: once
\* no rejection is left the candidate is ACTIVE, whatever the status was.
DeleteFeedback(rd) ==
    /\ Act /\ cand # "NONE" /\ fb[rd].status # "NONE"
    /\ fb' = [fb EXCEPT ![rd].live = FALSE]
    /\ cand' = IF /\ fb[rd].status = "REJECTED"
                  /\ \A q \in Rounds : ~(fb'[q].live /\ fb[q].status = "REJECTED")
               THEN "ACTIVE" ELSE cand
    /\ UNCHANGED <<old, app, checks, req, hook, sweep, excused, faults>>

-----------------------------------------------------------------------------
(* Quality checks.                                                         *)

\* uniq_qualitycheck_candidate_round; a missing round id is never a duplicate.
Taken(ref) == ref # None /\ \E i \in DOMAIN checks : checks[i].ref = ref

\* Mutant of Decide: the application keeps its status when a check is rejected.
DecideCandidateOnly(i, d) ==
    /\ Act /\ checks' = [checks EXCEPT ![i].status = d, ![i].approved = @ \/ d = "APPROVED"]
    /\ IF d = "REJECTED"
       THEN cand' = "REJECTED" /\ excused' = \E r \in Requests : InFlight(r)
       ELSE UNCHANGED <<cand, excused>>
    /\ UNCHANGED <<old, app, fb, req, hook, sweep, faults>>

\* recordDecision, one transaction; any check can be decided again.  approved says
\* that its append-only history holds an approval.
Decide(i, d) ==
    /\ Act /\ checks' = [checks EXCEPT ![i].status = d, ![i].approved = @ \/ d = "APPROVED"]
    /\ IF d = "REJECTED"
       THEN /\ cand' = "REJECTED"
            /\ app' = IF app = "NONE" THEN "NONE" ELSE "REJECTED"
            /\ excused' = \E r \in Requests : InFlight(r)
       ELSE UNCHANGED <<cand, app, excused>>
    /\ UNCHANGED <<old, fb, req, hook, sweep, faults>>

\* enqueueCandidate looks for a check of the round, or for any without a round.
HookFind(h) ==
    /\ hook[h].pc = "find"
    /\ hook' = IF \E i \in DOMAIN checks : hook[h].ref \in {None, checks[i].ref}
               THEN [hook EXCEPT ![h] = IdleHook] ELSE [hook EXCEPT ![h].pc = "create"]
    /\ UNCHANGED <<records, checks, req, sweep, bounds>>

\* The constraint's error is swallowed.
HookCreate(h) ==
    /\ hook[h].pc = "create"
    /\ checks' = IF Taken(hook[h].ref) THEN checks ELSE Append(checks, NewCheck(hook[h].ref))
    /\ hook' = [hook EXCEPT ![h] = IdleHook]
    /\ UNCHANGED <<records, req, sweep, bounds>>

\* So is every other one: the selection is then without a check.
HookFails(h) ==
    /\ hook[h].pc # "idle" /\ Fault
    /\ hook' = [hook EXCEPT ![h] = IdleHook]
    /\ UNCHANGED <<records, checks, req, sweep, acts>>

-----------------------------------------------------------------------------
(* runQualityCheckReconciliation, at startup and every five minutes.       *)

\* Mutant of Selected: the query asks for one of the two rounds only.
SelectedInRound2 ==
    {rd \in CheckRounds \cap {"ROUND_2"} : fb[rd].live /\ fb[rd].status = "SELECTED"}

Selected == {rd \in CheckRounds : fb[rd].live /\ fb[rd].status = "SELECTED"}
Offered  == cand \in {"OFFER_PROPOSED", "OFFER_SENT"}

SweepStart ==
    /\ sweep.pc = "idle"
    /\ sweep' = [sweep EXCEPT !.pc = "feedbacks", !.todo = Selected]
    /\ UNCHANGED <<records, checks, req, hook, bounds>>

\* A candidate with any check at all is passed over.
SweepFind(x) ==
    /\ sweep.item = "nothing" /\ x \in sweep.todo
    /\ sweep' = IF checks = <<>> THEN [sweep EXCEPT !.item = x]
                ELSE [sweep EXCEPT !.todo = @ \ {x}]
    /\ UNCHANGED <<records, checks, req, hook, bounds>>

\* A check created meanwhile: the constraint's error ends the whole run.
SweepCreate ==
    /\ sweep.item # "nothing"
    /\ IF Taken(sweep.item)
       THEN sweep' = IdleSweep /\ UNCHANGED checks
       ELSE /\ sweep' = [sweep EXCEPT !.todo = @ \ {sweep.item}, !.item = "nothing"]
            /\ checks' = Append(checks, NewCheck(sweep.item))
    /\ UNCHANGED <<records, req, hook, bounds>>

SweepOffers ==
    /\ sweep.pc = "feedbacks" /\ sweep.todo = {}
    /\ sweep' = [sweep EXCEPT !.pc = "offers", !.todo = IF Offered THEN {None} ELSE {}]
    /\ UNCHANGED <<records, checks, req, hook, bounds>>

SweepEnd ==
    /\ sweep.pc = "offers" /\ sweep.todo = {}
    /\ sweep' = IdleSweep
    /\ UNCHANGED <<records, checks, req, hook, bounds>>

SweepFails ==
    /\ sweep.pc # "idle" /\ Fault
    /\ sweep' = IdleSweep
    /\ UNCHANGED <<records, checks, req, hook, acts>>

\* The process ends at any moment and the next one starts.
ProcessEnds ==
    /\ Fault
    /\ req' = [r \in Requests |-> IdleReq] /\ hook' = [h \in Hooks |-> IdleHook]
    /\ sweep' = IdleSweep
    /\ UNCHANGED <<records, checks, acts>>

-----------------------------------------------------------------------------
RequestNext(r) ==
    \/ \E s \in CandStatuses : AskCandidate(r, s)
    \/ \E s \in AppStatuses : AskApplication(r, s) \/ AskMove(r, s) \/ AskDecision(r, s)
    \/ \E s \in AppStatuses : ImportRow(r, s)
    \/ GateStatus(r) \/ GateCount(r) \/ GateApproval(r)
    \/ WriteCandidate(r) \/ WriteApplication(r)

FeedbackNext ==
    \E rd \in Rounds :
        \/ \E s \in {"SELECTED", "REJECTED"} :
              GiveFeedback(rd, s) \/ \E r \in Requests : ImportFeedback(r, rd, s)
        \/ DeleteFeedback(rd)

CheckNext ==
    \/ \E i \in DOMAIN checks, d \in Decisions : Decide(i, d)
    \/ \E h \in Hooks : HookFind(h) \/ HookCreate(h) \/ HookFails(h)

SweepNext ==
    \/ SweepStart \/ SweepCreate \/ SweepOffers \/ SweepEnd
    \/ \E x \in Rounds \cup {None} : SweepFind(x)

Next ==
    \/ \E s \in CreateStatuses : CreateCandidate(s)
    \/ CreateApplication \/ FeedbackNext \/ CheckNext
    \/ \E r \in Requests : RequestNext(r)
    \/ SweepNext \/ SweepFails \/ ProcessEnds

Spec == Init /\ [][Next]_vars

\* The interval timer fires and the event loop serves the reconciliation.  Hooks
\* and requests get no fairness: a hook may be lost.
FairSpec == Spec /\ WF_vars(SweepNext)

-----------------------------------------------------------------------------
(* Properties.                                                             *)

Check == [ref : Rounds \cup {None}, status : Decisions \cup {"PENDING"}, approved : BOOLEAN]

ReqRecord ==
    [pc : {"idle", "status", "count", "approval", "candidate", "application"},
     route : {"candidate", "application", "move", "decision", "import", "feedback"},
     target : (CandStatuses \cup AppStatuses) \ {"NONE"}]

HookRecord == [pc : {"idle", "find", "create"}, ref : Rounds \cup {None}]

SweepRecord ==
    [pc : {"idle", "feedbacks", "offers"}, todo : SUBSET (Rounds \cup {None}),
     item : Rounds \cup {None, "nothing"}]

TypeOK ==
    /\ cand \in CandStatuses /\ app \in AppStatuses
    /\ old \in BOOLEAN /\ excused \in BOOLEAN /\ acts \in Nat /\ faults \in Nat
    /\ fb \in [Rounds -> [status : {"NONE", "SELECTED", "REJECTED"}, live : BOOLEAN]]
    /\ checks \in Seq(Check)
    /\ req \in [Requests -> ReqRecord] /\ hook \in [Hooks -> HookRecord]
    /\ sweep \in SweepRecord

OfferStands == cand = "OFFER_SENT" \/ app = "OFFER_SENT"
AllRejected == checks # <<>> /\ \A i \in DOMAIN checks : checks[i].status = "REJECTED"

\* "Server-side Gate Check for OFFER_SENT": through whatever route it was written,
\* an offer to a candidate of after the launch rests on a check that was approved at
\* some time, unless the candidate joined or came into being with the offer (an
\* import, or a create request that names the status: neither passes the gate).
OfferIsBacked ==
    OfferStands /\ ~old /\ ~excused => \E i \in DOMAIN checks : checks[i].approved

\* A rejection by the quality check is final: while every check is rejected neither
\* the candidate nor the application stands at OFFER_SENT, unless an offer was
\* past the gate when the rejection was recorded or the candidate joined since.
RejectionHolds == AllRejected /\ ~excused => ~OfferStands

Chosen(rd)  == fb[rd].live /\ fb[rd].status = "SELECTED"

\* Each selection gets a check, even when the hook that queues it is lost: a round
\* that stays selected does not stay without any check, and neither does an offer.
QualifiedGetsChecked ==
    /\ \A rd \in CheckRounds : Chosen(rd) ~> (checks # <<>> \/ ~Chosen(rd))
    /\ Offered ~> (checks # <<>> \/ ~Offered)
=============================================================================
