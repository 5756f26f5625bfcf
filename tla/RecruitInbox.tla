---------------------------- MODULE RecruitInbox ----------------------------
(***************************************************************************)
(* How the results of AI interviews reach the server and what recruiters   *)
(* make of them: the webhook and the review queue                          *)
(* (modules/integrations/recruit-ai/routes.js), the processing of a result *)
(* (inboxService.js) and the poller that is to make up for lost deliveries *)
(* (pollerService.js).                                                     *)
(*                                                                         *)
(* The provider publishes versions of a result, one more with every        *)
(* re-score.  Its webhook calls may be lost, repeated and overtaken: any   *)
(* version published so far may arrive at any time, any number of times.   *)
(* A payload is the result and the version it carries, and says when that  *)
(* version was made or does not.  One that names no result is stored as a  *)
(* result of its own and is left out; a bad signature and a bad body are   *)
(* refused and are no step.                                                *)
(* A step is what happens between two awaits.                              *)
(***************************************************************************)
EXTENDS Naturals, FiniteSets

CONSTANTS
    Results,        \* results of the provider
    Interviews,     \* interview rounds of the candidates
    Hooks, Syncs,   \* webhook calls and syncs (timer, POST /sync) at one time
    Clerks,         \* recruiters confirming an outcome at one time
    None,           \* no result, no interview
    Overlap,        \* the ten minutes a sync looks back
    PageLimit,      \* results a poll asks for; there is no next page
    Status,         \* status that a version of a result reports
    Dating,         \* whether payloads that reach a call may say when they were made, or not
    IdKinds,        \* what the provider's event ids may stand for
    Silent,         \* bound: results that get one version, without any webhook call
    MaxVersions, MaxTime, MaxFaults     \* bounds: versions, clock, failures

ASSUME SlotsAssumption == /\ Hooks \cap Syncs = {} /\ Hooks \cap Clerks = {}
                          /\ Syncs \cap Clerks = {}
ASSUME NoneAssumption  == None \notin Results /\ None \notin Interviews
ASSUME NatAssumption   == /\ Overlap \in Nat /\ PageLimit \in Nat
                          /\ MaxVersions \in Nat /\ MaxTime \in Nat /\ MaxFaults \in Nat
ASSUME ProviderAssumption == Dating \in [Hooks \cup Syncs -> SUBSET BOOLEAN] /\ IdKinds \subseteq {"version", "result", "call"}
ASSUME StatusAssumption == Status \in [1..MaxVersions -> {"COMPLETED", "NO_SHOW", "OTHER"}]

VARIABLES
    ids,        \* what an event id stands for: a version, a result, one call
    now,        \* the clock
    ver, upd,   \* the provider: latest version of a result (0: none), when it came
    row,        \* ExternalAssessmentResult, by result; ver = 0: no row
    processed,  \* event ids that IntegrationInboxEvent has as processed
    interview,  \* status of the rounds, and whether a recruiter set an outcome
    lastSync,   \* IntegrationSyncState.lastSyncAt
    req,        \* locals of the requests
    faults,     \* failures so far
    stored,     \* history: the latest, by its stamp, of a result ever stored
    excused     \* history: results whose latest version a poll cut off, a sync failed
                \* on, or an old version landing late overwrote or shut out

provider == <<ids, ver, upd>>
history  == <<stored, excused>>
vars     == <<provider, now, row, processed, interview, lastSync, req, faults, history>>

-----------------------------------------------------------------------------
Deliveries == Hooks \cup Syncs
Requests   == Deliveries \cup Clerks
Rounds     == Interviews \cup {None}

Unlinked == [by |-> "none", iv |-> None]
Matches  == {Unlinked} \cup [by : {"match"}, iv : Rounds]       \* what matchAssessment may find
NoRow    == [ver |-> 0, stamp |-> 0, review |-> "none", link |-> Unlinked]

\* res, ver and stamp are the payload, review and link what was read of the row.
\* decided: rounds that had an outcome when the payload came; was: status read;
\* beside: another wrote the row since it was read; since, at, items: of a sync.
Idle == [pc |-> "idle", res |-> None, ver |-> 0, stamp |-> 0, review |-> "none", link |-> Unlinked,
         beside |-> FALSE, decided |-> {}, was |-> "SCHEDULED",
         since |-> 0, at |-> 0, items |-> {}]

Init ==
    /\ ids \in IdKinds
    /\ now = 0 /\ ver = [r \in Results |-> 0] /\ upd = [r \in Results |-> 0]
    /\ row = [r \in Results |-> NoRow] /\ processed = {}
    /\ interview = [i \in Interviews |-> [status |-> "SCHEDULED", outcome |-> FALSE]]
    /\ lastSync = 0 /\ req = [x \in Requests |-> Idle] /\ faults = 0
    /\ stored = [r \in Results |-> 0] /\ excused = {}

\* The inbox events that a call with this payload is identified with.
Events(r, v) == CASE ids = "version" -> {<<r, v>>}
                  [] ids = "result"  -> {<<r, 0>>}
                  [] ids = "call"    -> {}

Move(x, pc) == req' = [req EXCEPT ![x].pc = pc]

\* processAssessmentPayload is over: the webhook goes on to mark its event, the
\* sync to its next item.
Returned(x) ==
    IF x \in Hooks THEN [Idle EXCEPT !.pc = "mark", !.res = req[x].res, !.ver = req[x].ver]
    ELSE [Idle EXCEPT !.pc = "items", !.at = req[x].at, !.items = req[x].items]

Return(x) == req' = [req EXCEPT ![x] = Returned(x)]

\* A request as it is after another one wrote the row of r.
Overtaken(x, r) ==
    IF req[x].res = r /\ req[x].pc \in {"match", "upsert"}
    THEN [req[x] EXCEPT !.beside = TRUE] ELSE req[x]

\* providerUpdatedAt: the time a version was made, if the payload says so, else the
\* time of its arrival.  Times are told apart as far as versions are: 2v is when
\* version v was made, 2v + 1 any time between that and the next.
Stamp(r, v, dated) == IF dated THEN 2 * v ELSE 2 * ver[r] + 1

\* A payload, of a sync one of its items, begins to be processed.
Opened(q, r, v, dated) ==
    [q EXCEPT !.pc = "read", !.res = r, !.ver = v, !.stamp = Stamp(r, v, dated),
              !.items = q.items \ {<<r, v>>},
              !.decided = {i \in Interviews : interview[i].outcome}]

Fault == faults < MaxFaults /\ faults' = faults + 1

-----------------------------------------------------------------------------
(* The provider and the clock.  Named assumption on time: a sync is done    *)
(* with its items at most Overlap after it fetched them.                    *)

Publish(r) ==
    /\ ver[r] < MaxVersions /\ (r \in Silent => ver[r] = 0)
    /\ ver' = [ver EXCEPT ![r] = @ + 1] /\ upd' = [upd EXCEPT ![r] = now]
    /\ excused' = excused \ {r}
    /\ UNCHANGED <<ids, now, row, processed, interview, lastSync, req, faults, stored>>

Tick ==
    /\ now < MaxTime
    /\ \A s \in Syncs : req[s].pc \notin {"idle", "fetch"} => now < req[s].at + Overlap
    /\ now' = now + 1
    /\ UNCHANGED <<provider, row, processed, interview, lastSync, req, faults, history>>

-----------------------------------------------------------------------------
(* POST /webhook, up to and after the processing of its payload.            *)

Deliver(h, r, v) ==
    /\ req[h].pc = "idle" /\ r \notin Silent /\ v <= ver[r] /\ Events(r, v) \cap processed = {}
    /\ \E dated \in Dating[h] : req' = [req EXCEPT ![h] = Opened(Idle, r, v, dated)]
    /\ UNCHANGED <<provider, now, row, processed, interview, lastSync, faults, history>>

Mark(h) ==
    /\ req[h].pc = "mark"
    /\ processed' = processed \cup Events(req[h].res, req[h].ver)
    /\ req' = [req EXCEPT ![h] = Idle]
    /\ UNCHANGED <<provider, now, row, interview, lastSync, faults, history>>

RecordFailure(h) ==
    /\ req[h].pc = "failed"
    /\ processed' = processed \ Events(req[h].res, req[h].ver)
    /\ req' = [req EXCEPT ![h] = Idle]
    /\ UNCHANGED <<provider, now, row, interview, lastSync, faults, history>>

\* The update of the event fails: of the first, the failure is recorded.
EventFails(h) ==
    /\ req[h].pc \in {"mark", "failed"} /\ Fault
    /\ req' = [req EXCEPT ![h] = IF @.pc = "mark" THEN [@ EXCEPT !.pc = "failed"] ELSE Idle]
    /\ UNCHANGED <<provider, now, row, processed, interview, lastSync, history>>

-----------------------------------------------------------------------------
(* runReconciliationSync.                                                   *)

StartSync(s) ==
    /\ req[s].pc = "idle"
    /\ req' = [req EXCEPT ![s] = [Idle EXCEPT !.pc = "fetch", !.since = lastSync]]
    /\ UNCHANGED <<provider, now, row, processed, interview, lastSync, faults, history>>

\* Mutant of Changed: the sync looks back to the last one and no further.
ChangedNoOverlap(since) == {r \in Results : ver[r] > 0 /\ upd[r] >= since}
\* Results updated since ten minutes before the last sync.
Changed(since) == {r \in Results : ver[r] > 0 /\ upd[r] + Overlap >= since}

\* The answers of the provider: it leaves out only what is beyond the limit.
Pages(since) ==
    {page \in SUBSET Changed(since) : /\ Cardinality(page) <= PageLimit
                                      /\ page = Changed(since) \/ Cardinality(page) = PageLimit}

Fetch(s) ==
    /\ req[s].pc = "fetch"
    /\ \E page \in Pages(req[s].since) :
          /\ req' = [req EXCEPT ![s] = [Idle EXCEPT !.pc = "items", !.at = now,
                                          !.items = {<<r, ver[r]>> : r \in page}]]
          /\ excused' = excused \cup {r \in Changed(req[s].since) \ page : row[r].ver < ver[r]}
    /\ UNCHANGED <<provider, now, row, processed, interview, lastSync, faults, stored>>

NextItem(s) ==
    /\ req[s].pc = "items"
    /\ \E i \in req[s].items, dated \in Dating[s] :
          req' = [req EXCEPT ![s] = Opened(req[s], i[1], i[2], dated)]
    /\ UNCHANGED <<provider, now, row, processed, interview, lastSync, faults, history>>

EndSync(s) ==
    /\ req[s].pc = "items" /\ req[s].items = {}
    /\ lastSync' = now /\ req' = [req EXCEPT ![s] = Idle]
    /\ UNCHANGED <<provider, now, row, processed, interview, faults, history>>

\* Mutant of SyncFails: an unanswered poll counts as a sync.
SyncFailsDone(s) ==
    /\ req[s].pc = "fetch" \/ (req[s].pc = "items" /\ req[s].items = {})
    /\ Fault /\ lastSync' = now /\ req' = [req EXCEPT ![s] = Idle]
    /\ UNCHANGED <<provider, now, row, processed, interview, history>>
\* The poll is not answered, or answered with an error, or the new lastSyncAt
\* cannot be saved: only the error is recorded.
SyncFails(s) ==
    /\ req[s].pc = "fetch" \/ (req[s].pc = "items" /\ req[s].items = {})
    /\ Fault /\ req' = [req EXCEPT ![s] = Idle]
    /\ UNCHANGED <<provider, now, row, processed, interview, lastSync, history>>

-----------------------------------------------------------------------------
(* processAssessmentPayload.                                                *)

\* The payload is the one stored: of a version, those with its date and those without
\* one are two payloads.
Identical(r, v, stamp) == row[r].ver = v /\ (row[r].stamp = 2 * v <=> stamp = 2 * v)
\* Mutant of Outdated: an older payload is taken.
OutdatedIdentical(r, v, stamp) == Identical(r, v, stamp)
Outdated(r, v, stamp) == Identical(r, v, stamp) \/ row[r].stamp > stamp
\* Two came without a date between the same versions: either may be the older one.
Tied(r, v, stamp) == row[r].stamp = stamp /\ stamp # 2 * v

Read(x) ==
    /\ req[x].pc = "read"
    /\ LET q == req[x]
           p == row[q.res]
       IN  \/ /\ Outdated(q.res, q.ver, q.stamp) \/ Tied(q.res, q.ver, q.stamp)
              /\ Return(x)
           \/ /\ ~Outdated(q.res, q.ver, q.stamp)
              /\ req' = [req EXCEPT ![x].pc = IF p.link.by = "none" THEN "match" ELSE "upsert",
                                     ![x].review = p.review, ![x].link = p.link]
    /\ UNCHANGED <<provider, now, row, processed, interview, lastSync, faults, history>>

Match(x) ==
    /\ req[x].pc = "match"
    /\ \E l \in Matches : req' = [req EXCEPT ![x].pc = "upsert", ![x].link = l]
    /\ UNCHANGED <<provider, now, row, processed, interview, lastSync, faults, history>>

\* Mutant of Reviewed: a new version always goes back to the queue.
ReviewedAnew(review) == "pending"
\* A confirmed result stays confirmed; any other is for review (again).
Reviewed(review) == IF review = "confirmed" THEN "confirmed" ELSE "pending"

Upsert(x) ==
    /\ req[x].pc = "upsert"
    /\ LET r == req[x].res
           v == req[x].ver
       IN  /\ row' = [row EXCEPT ![r] = [ver |-> v, stamp |-> req[x].stamp,
                                         review |-> Reviewed(req[x].review), link |-> req[x].link]]
           /\ req' = [y \in Requests |->
                        IF y # x THEN Overtaken(y, r)
                        ELSE IF req[x].link.iv # None
                             THEN [req[x] EXCEPT !.pc = "check", !.review = "none", !.beside = FALSE]
                             ELSE Returned(x)]
           /\ stored' = [stored EXCEPT ![r] = IF req[x].stamp > @ THEN req[x].stamp ELSE @]
           /\ excused' = IF v = ver[r] THEN excused \ {r}
                         ELSE IF v < row[r].ver \/ req[x].stamp > 2 * ver[r]
                              THEN excused \cup {r} ELSE excused
    /\ UNCHANGED <<provider, now, processed, interview, lastSync, faults>>

\* Mutant of Check: the status is for the provider to set.
CheckAlways(x) ==
    /\ req[x].pc = "check"
    /\ req' = [req EXCEPT ![x].pc = "status", ![x].was = interview[req[x].link.iv].status]
    /\ UNCHANGED <<provider, now, row, processed, interview, lastSync, faults, history>>
\* The matched round is read: one with an outcome is left alone.
Check(x) ==
    /\ req[x].pc = "check"
    /\ LET i == interview[req[x].link.iv]
       IN  IF i.outcome THEN Return(x)
           ELSE req' = [req EXCEPT ![x].pc = "status", ![x].was = i.status]
    /\ UNCHANGED <<provider, now, row, processed, interview, lastSync, faults, history>>

\* Mutant of SetStatus: the status of the result is written as it is.
SetStatusRaw(x) ==
    /\ req[x].pc = "status"
    /\ interview' = [interview EXCEPT ![req[x].link.iv].status = Status[req[x].ver]]
    /\ Return(x)
    /\ UNCHANGED <<provider, now, row, processed, lastSync, faults, history>>
\* Only COMPLETED and NO_SHOW are taken over; else the status read is written back.
SetStatus(x) ==
    /\ req[x].pc = "status"
    /\ interview' = [interview EXCEPT ![req[x].link.iv].status =
                        IF Status[req[x].ver] = "OTHER" THEN req[x].was ELSE Status[req[x].ver]]
    /\ Return(x)
    /\ UNCHANGED <<provider, now, row, processed, lastSync, faults, history>>

\* Mutant of ProcessingFails: the webhook treats its payload as processed.
ProcessingFailsMarked(x) ==
    /\ req[x].pc \in {"read", "match", "upsert"} /\ Fault /\ Return(x)
    /\ excused' = IF x \in Syncs /\ req[x].ver = ver[req[x].res]
                  THEN excused \cup {req[x].res} ELSE excused
    /\ UNCHANGED <<provider, now, row, processed, interview, lastSync, stored>>
\* The database fails before the row is written: the webhook records it, the
\* sync counts it and goes on.
ProcessingFails(x) ==
    /\ req[x].pc \in {"read", "match", "upsert"} /\ Fault
    /\ IF x \in Hooks THEN Move(x, "failed") ELSE Return(x)
    /\ excused' = IF x \in Syncs /\ req[x].ver = ver[req[x].res]
                  THEN excused \cup {req[x].res} ELSE excused
    /\ UNCHANGED <<provider, now, row, processed, interview, lastSync, stored>>

\* A failure at the round is only logged.
InterviewFails(x) ==
    /\ req[x].pc \in {"check", "status"} /\ Fault /\ Return(x)
    /\ UNCHANGED <<provider, now, row, processed, interview, lastSync, history>>

-----------------------------------------------------------------------------
(* The review queue.                                                        *)

AskConfirm(c, r) ==
    /\ req[c].pc = "idle" /\ row[r].ver > 0
    /\ req' = [req EXCEPT ![c] = [Idle EXCEPT !.pc = "confirm", !.res = r, !.link = row[r].link]]
    /\ UNCHANGED <<provider, now, row, processed, interview, lastSync, faults, history>>

Confirm(c) ==
    /\ req[c].pc = "confirm"
    /\ row' = [row EXCEPT ![req[c].res].review = "confirmed"]
    /\ req' = [y \in Requests |->
                 IF y # c THEN Overtaken(y, req[c].res)
                 ELSE IF req[c].link.iv # None THEN [req[c] EXCEPT !.pc = "outcome"] ELSE Idle]
    /\ UNCHANGED <<provider, now, processed, interview, lastSync, faults, history>>

Outcome(c) ==
    /\ req[c].pc = "outcome"
    /\ interview' = [interview EXCEPT ![req[c].link.iv].outcome = TRUE]
    /\ req' = [req EXCEPT ![c] = Idle]
    /\ UNCHANGED <<provider, now, row, processed, lastSync, faults, history>>

ClerkFails(c) ==
    /\ req[c].pc \in {"confirm", "outcome"} /\ Fault
    /\ req' = [req EXCEPT ![c] = Idle]
    /\ UNCHANGED <<provider, now, row, processed, interview, lastSync, history>>

Relink(c, r) ==
    /\ req[c].pc = "idle" /\ row[r].ver > 0
    /\ \E i \in Rounds : row' = [row EXCEPT ![r].link = [by |-> "manual", iv |-> i]]
    /\ req' = [y \in Requests |-> Overtaken(y, r)]
    /\ UNCHANGED <<provider, now, processed, interview, lastSync, faults, history>>

Dismiss(c, r) ==
    /\ req[c].pc = "idle" /\ row[r].ver > 0
    /\ row' = [row EXCEPT ![r].review = "dismissed"]
    /\ req' = [y \in Requests |-> Overtaken(y, r)]
    /\ UNCHANGED <<provider, now, processed, interview, lastSync, faults, history>>

\* The process stops: what the requests knew is gone.
Crash ==
    /\ Fault /\ req' = [x \in Requests |-> Idle]
    /\ UNCHANGED <<provider, now, row, processed, interview, lastSync, history>>

-----------------------------------------------------------------------------
Process(x) == Read(x) \/ Match(x) \/ Upsert(x) \/ Check(x) \/ SetStatus(x)
Webhook(h) == \/ \E r \in Results, v \in 1..MaxVersions : Deliver(h, r, v)
              \/ Mark(h) \/ RecordFailure(h) \/ EventFails(h)
Sync(s)    == StartSync(s) \/ Fetch(s) \/ NextItem(s) \/ EndSync(s)
Clerk(c)   == \/ \E r \in Results : AskConfirm(c, r) \/ Relink(c, r) \/ Dismiss(c, r)
              \/ Confirm(c) \/ Outcome(c) \/ ClerkFails(c)

Next ==
    \/ \E r \in Results : Publish(r)
    \/ \E h \in Hooks : Webhook(h)
    \/ \E s \in Syncs : Sync(s) \/ SyncFails(s)
    \/ \E x \in Deliveries : Process(x) \/ ProcessingFails(x) \/ InterviewFails(x)
    \/ \E c \in Clerks : Clerk(c)
    \/ Tick \/ Crash

Spec == Init /\ [][Next]_vars

\* The timer polls every fifteen minutes, and a sync goes on as long as the
\* process lives.  No delivery and no recruiter is owed.
FairSpec == Spec /\ \A s \in Syncs : WF_vars(Sync(s) \/ Process(s))

-----------------------------------------------------------------------------
(* Properties.                                                              *)

Links == Matches \cup [by : {"manual"}, iv : Rounds]
Locals == [pc : {"idle", "read", "match", "upsert", "check", "status", "mark", "failed",
                 "fetch", "items", "confirm", "outcome"},
           res : Results \cup {None}, ver : 0..MaxVersions, stamp : Nat,
           review : {"none", "pending", "confirmed", "dismissed"}, link : Links,
           beside : BOOLEAN, decided : SUBSET Interviews,
           was : {"SCHEDULED", "COMPLETED", "NO_SHOW"},
           since : Nat, at : Nat, items : SUBSET (Results \X (1..MaxVersions))]

\* Every variable has its type.
TypeOK ==
    /\ ids \in {"version", "result", "call"} /\ now \in Nat
    /\ ver \in [Results -> 0..MaxVersions] /\ upd \in [Results -> Nat]
    /\ row \in [Results -> [ver : 0..MaxVersions, stamp : Nat,
                            review : {"none", "pending", "confirmed", "dismissed"}, link : Links]]
    /\ processed \subseteq Results \X (0..MaxVersions)
    /\ interview \in [Interviews -> [status : {"SCHEDULED", "COMPLETED", "NO_SHOW"},
                                     outcome : BOOLEAN]]
    /\ lastSync \in Nat /\ req \in [Requests -> Locals] /\ faults \in Nat
    /\ stored \in [Results -> Nat] /\ excused \subseteq Results

\* An event is not marked processed before a row at least as new, going by the dates,
\* as the payload that the mark stands for was stored, whatever failed and in whatever
\* order two calls of one event ended: a processed event is never looked at again.
ProcessedWasStored ==
    \A e \in processed : stored[e[1]] > 0 /\ stored[e[1]] >= 2 * e[2]

\* What the provider published and the table has not, whether its webhook call
\* was lost, failed, refused as a duplicate or never made, is still in the
\* window of the next poll: lastSyncAt never moves past it, unless it was beyond the
\* limit of a poll, a sync failed on it, or an old version overwrote it or, arriving
\* without a date after it was made, looks newer.
NoGap ==
    \A r \in Results :
        row[r].ver < ver[r] /\ r \notin excused => upd[r] + Overlap >= lastSync

\* The delivery x writes the row of r in this step.
Writes(x, r) ==
    /\ req[x].pc = "upsert" /\ req[x].res = r /\ req'[x].pc # "upsert"
    /\ row'[r].ver = req[x].ver

\* An old version replaces a newer one only when its payload has no date, or when
\* another write came between the delivery's look at the row and its upsert.
NoRollback ==
    [][\A r \in Results : row'[r].ver < row[r].ver
          => \E x \in Deliveries :
                Writes(x, r) /\ (req[x].beside \/ req[x].stamp # 2 * req[x].ver)]_vars

\* A confirmed result goes back to the queue, and a link a recruiter set is
\* replaced by a match, only by a delivery that read the row before another
\* wrote it.
HumanDecisionsHold ==
    [][\A r \in Results :
          \/ row[r].review = "confirmed" /\ row'[r].review = "pending"
          \/ row[r].link.by = "manual" /\ row'[r].link.by # "manual"
          => \E x \in Deliveries : Writes(x, r) /\ req[x].beside]_vars

\* A delivery never changes the status of a round that had its outcome when the
\* delivery came in, however the row and its link change meanwhile.
OutcomeFreezesStatus ==
    [][\A i \in Interviews : interview'[i].status # interview[i].status
          => \E x \in Deliveries : /\ req[x].pc = "status" /\ req[x].link.iv = i
                                   /\ i \notin req[x].decided]_vars

\* The latest version of every result is stored in the end, whatever happened
\* to its webhook calls, unless a poll cut it off, a sync failed on it, or an old
\* version that landed late overwrote it or shut it out.
EventuallyCurrent ==
    \A r \in Results : <>[](row[r].ver = ver[r] \/ r \in excused)
-----------------------------------------------------------------------------
(* What the awaits of a delivery amount to.                                *)

\* Between its look at the row and its upsert a delivery is open, or overtaken; with the
\* upsert the row is written, and what is left to it is the round.
Abstracted(q) ==
    LET Delivery(at, iv) == [at |-> at, res |-> q.res, ver |-> q.ver, stamp |-> q.stamp,
                             decided |-> q.decided, iv |-> iv]
    IN  CASE q.pc = "read" -> Delivery("received", None)
          [] q.pc \in {"match", "upsert"} -> Delivery(IF q.beside THEN "overtaken" ELSE "open", None)
          [] q.pc \in {"check", "status"} -> Delivery("stored", q.link.iv)
          [] OTHER -> [at |-> "idle", res |-> None, ver |-> 0, stamp |-> 0,
                        decided |-> {}, iv |-> None]

Contract == INSTANCE InboxContract WITH
    published <- ver,
    delivery  <- [x \in Deliveries |-> Abstracted(req[x])]

\* processAssessmentPayload: the read of the row, the match and the upsert, with awaits
\* between them, are one atomic step on the row as it is at the upsert, for every
\* delivery that no other write of the row overtook: it is no older than what it
\* replaces, a confirmation and a link stay; and it writes no round that had its
\* outcome when it came in.
ImplementsContract == Contract!Spec
=============================================================================
