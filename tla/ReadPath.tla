------------------------------ MODULE ReadPath ------------------------------
(***************************************************************************)
(* The way of a request through the server's in-memory machinery: the      *)
(* coalescing of identical GETs (middleware/deduplication.js), the request *)
(* timeout (middleware/loadShedding.js), the concurrency limiter           *)
(* (middleware/concurrencyLimiter.js), the single-flight cache             *)
(* (getCached of utils/cache.js over utils/l1Cache.js) and its             *)
(* invalidation (utils/cacheInvalidation.js), with the list of jobs        *)
(* (modules/jobs/routes.js) as the handler at the end of it.               *)
(*                                                                         *)
(* One URL, asked for by several users of one organisation, and the PATCH  *)
(* that changes what it returns.  The body of an answer is the version of  *)
(* the data it shows.  JavaScript runs to the next await, so a step is what *)
(* happens between two of them; a microtask that resumes several requests  *)
(* is one step.  A refused request (503, 429) leaves nothing behind and is *)
(* no step.                                                                *)
(***************************************************************************)
EXTENDS Naturals, FiniteSets

CONSTANTS
    Reqs,           \* requests the server works on at one time
    Users,          \* users, of one organisation
    None,           \* no request, no user
    MaxConcurrent,  \* MAX_CONCURRENT of the concurrency limiter
    Routes,         \* what the URL may be: a list that getCached holds, a download
    MaxWrites       \* bound: updates of the data

ASSUME ReqsAssumption  == None \notin Reqs /\ IsFiniteSet(Reqs)
ASSUME LimitAssumption == MaxConcurrent \in Nat \ {0} /\ Routes \subseteq {"list", "download"}
ASSUME BoundAssumption == MaxWrites \in Nat

Versions == Nat \ {0}
Nothing  == 0                       \* nothing cached; a body that is not a success

VARIABLES
    route,      \* what the URL is
    db,         \* version of the data in the database
    l1,         \* version in the entry of the list in the L1 cache
    flight,     \* inFlightPromises: the request whose fetch the others await
    dedup,      \* per user, version in the three-second entry of the response
    leading,    \* users with an entry in inFlightRequests
    waiting,    \* per user, the requests that entry will answer
    active,     \* activeRequests of the limiter
    req,        \* locals of the requests
    seen,       \* history: per user, version of the last successful answer
    stranded,   \* history: users whose waiters a late answer has dropped
    slipped     \* history: an invalidation ran beside a fetch, or did not run

source  == <<route, db>>
caches  == <<l1, flight>>
entries == <<dedup, leading, waiting>>
history == <<seen, stranded, slipped>>
vars == <<source, caches, entries, active, req, history>>

-----------------------------------------------------------------------------
Reading == {"auth", "fetch", "fetched", "joined"}     \* awaits of the list's handler
Writing == {"update", "written", "invalidate"}        \* awaits of the update's handler
Idle    == [pc |-> "idle", user |-> None, got |-> Nothing,
            sent |-> FALSE, conn |-> "open"]

Init ==
    /\ route \in Routes /\ db = 1 /\ l1 = Nothing /\ flight = None
    /\ dedup = [u \in Users |-> Nothing] /\ leading = {} /\ waiting = [u \in Users |-> {}]
    /\ active = 0 /\ req = [r \in Reqs |-> Idle]
    /\ seen = [u \in Users |-> Nothing] /\ stranded = {} /\ slipped = FALSE

\* A request is over when its handler has returned and its connection is closed.
Settled(x) ==
    IF x.pc # "done" THEN x
    ELSE IF x.conn = "closed" THEN Idle
    ELSE [Idle EXCEPT !.pc = "done", !.sent = TRUE]

Move(r, pc) == req' = [req EXCEPT ![r] = Settled([@ EXCEPT !.pc = pc])]

-----------------------------------------------------------------------------
(* Answers.  res.json of a leading GET takes the entry of its user, which   *)
(* need no longer be its own, sends, and passes the body on to the waiters. *)
(* When the request was answered before, the send throws: the waiters that  *)
(* were taken are lost.                                                     *)

\* The requests of R call res.json; those of the users in lost have been answered.
\* The handlers of the requests in ended return.
Answer(R, body, lost, ended) ==
    LET owners    == {req[r].user : r \in R}
        coalesced == UNION {waiting[u] : u \in owners \ lost}
        fresh     == {req[r].user : r \in {x \in R : ~ req[x].sent}}
    IN  /\ req' = [x \in Reqs |->
                     IF x \in coalesced THEN Idle
                     ELSE Settled([req[x] EXCEPT !.sent = @ \/ x \in R,
                                                 !.pc = IF x \in ended THEN "done" ELSE @])]
        /\ leading' = leading \ owners
        /\ waiting' = [u \in Users |-> IF u \in owners THEN {} ELSE waiting[u]]
        /\ dedup' = [u \in Users |-> IF body # Nothing /\ u \in fresh THEN body ELSE dedup[u]]
        /\ seen'  = [u \in Users |-> IF body # Nothing /\ u \in fresh THEN body ELSE seen[u]]
        /\ stranded' = stranded \cup {u \in owners \cap lost : waiting[u] # {}}

\* The answer of one leading GET that has the version v.
Respond(r, v) == Answer({r}, v, {req[x].user : x \in {y \in {r} : req[y].sent}}, {r})

-----------------------------------------------------------------------------
(* Arrival: deduplication, timer, limiter.                                  *)

Enter(r, pc, u) == req' = [req EXCEPT ![r] = [Idle EXCEPT !.pc = pc, !.user = u]]

\* A response of less than three seconds ago answers at once.
HitDedup(u) ==
    /\ dedup[u] # Nothing
    /\ seen' = [seen EXCEPT ![u] = dedup[u]]
    /\ UNCHANGED <<source, caches, entries, active, req, stranded, slipped>>

\* An identical request is under way: this one waits, with no timer and no slot.
Coalesce(r, u) ==
    /\ req[r].pc = "idle" /\ dedup[u] = Nothing /\ u \in leading
    /\ waiting' = [waiting EXCEPT ![u] = @ \cup {r}]
    /\ Enter(r, "waiting", u)
    /\ UNCHANGED <<source, caches, dedup, leading, active, history>>

Lead(r, u) ==
    /\ req[r].pc = "idle" /\ dedup[u] = Nothing /\ u \notin leading
    /\ active < MaxConcurrent
    /\ leading' = leading \cup {u} /\ active' = active + 1
    /\ Enter(r, "auth", u)
    /\ UNCHANGED <<source, caches, dedup, waiting, history>>

ArriveUpdate(r) ==
    /\ req[r].pc = "idle" /\ active < MaxConcurrent
    /\ db + Cardinality({x \in Reqs : req[x].pc = "update"}) <= MaxWrites    \* the bound
    /\ active' = active + 1
    /\ Enter(r, "update", None)
    /\ UNCHANGED <<source, caches, entries, history>>

-----------------------------------------------------------------------------
(* GET /jobs: getCached around one query.                                   *)

HitCache(r) ==
    /\ route = "list" /\ req[r].pc = "auth" /\ l1 # Nothing
    /\ Respond(r, l1)
    /\ UNCHANGED <<source, caches, active, slipped>>

JoinFlight(r) ==
    /\ route = "list" /\ req[r].pc = "auth" /\ l1 = Nothing /\ flight # None
    /\ Move(r, "joined")
    /\ UNCHANGED <<source, caches, entries, active, history>>

\* Mutant of Fetch: a miss always runs the query.
FetchAlways(r) ==
    /\ route = "list" /\ req[r].pc = "auth" /\ l1 = Nothing
    /\ flight' = r
    /\ Move(r, "fetch")
    /\ UNCHANGED <<source, l1, entries, active, history>>

Fetch(r) ==
    /\ route = "list" /\ req[r].pc = "auth" /\ l1 = Nothing /\ flight = None
    /\ flight' = r
    /\ Move(r, "fetch")
    /\ UNCHANGED <<source, l1, entries, active, history>>

QueryRuns(r) ==
    /\ req[r].pc = "fetch"
    /\ req' = [req EXCEPT ![r] = [@ EXCEPT !.pc = "fetched", !.got = db]]
    /\ UNCHANGED <<source, caches, entries, active, history>>

\* The requests that a flight of r resumes, and their users by how they answer.
Aboard(r)   == {r} \cup {x \in Reqs : req[x].pc = "joined"}
OnTime(R)   == {req[x].user : x \in {y \in R : ~ req[y].sent}}
Late(R)     == {req[x].user : x \in {y \in R : req[y].sent}}

\* The result is cached and every request that awaits it answers, in any order.
QueryLands(r) ==
    /\ req[r].pc = "fetched"
    /\ l1' = req[r].got /\ flight' = None
    /\ LET R == Aboard(r)
       IN  \E lost \in SUBSET Late(R) :
               /\ Late(R) \ OnTime(R) \subseteq lost
               /\ Answer(R, req[r].got, lost, R)
    /\ UNCHANGED <<source, active, slipped>>

\* The error handler answers, unless the headers are sent.
Fails(R) == Answer({x \in R : ~ req[x].sent}, Nothing, {}, R)

\* Mutant of QueryFails: the error is sent past the res.json that takes the entry.
QueryFailsPlainly(r) ==
    /\ req[r].pc = "fetch"
    /\ req' = [x \in Reqs |-> IF x \in Aboard(r)
                              THEN Settled([req[x] EXCEPT !.sent = TRUE, !.pc = "done"])
                              ELSE req[x]]
    /\ flight' = None
    /\ UNCHANGED <<source, l1, entries, active, history>>

QueryFails(r) ==
    /\ req[r].pc = "fetch" /\ Fails(Aboard(r))
    /\ flight' = None
    /\ UNCHANGED <<source, l1, active, slipped>>

AuthFails(r) ==
    /\ req[r].pc = "auth" /\ Fails({r})
    /\ UNCHANGED <<source, caches, active, slipped>>

\* A download answers by res.end: the entry in inFlightRequests stays.
Download(r) ==
    /\ route = "download" /\ req[r].pc = "auth"
    /\ req' = [req EXCEPT ![r] = Settled([@ EXCEPT !.sent = TRUE, !.pc = "done"])]
    /\ UNCHANGED <<source, caches, entries, active, history>>

-----------------------------------------------------------------------------
(* PATCH /jobs/:id: update, answer, and an invalidation after the answer.   *)

Commit(r) ==
    /\ req[r].pc = "update"
    /\ db' = db + 1
    /\ Move(r, "written")
    /\ UNCHANGED <<route, caches, entries, active, history>>

\* When the timer has answered, res.json throws and the invalidation is never queued.
AnswerUpdate(r) ==
    /\ req[r].pc = "written"
    /\ IF req[r].sent
       THEN Move(r, "done") /\ slipped' = TRUE
       ELSE /\ req' = [req EXCEPT ![r] = [@ EXCEPT !.sent = TRUE, !.pc = "invalidate"]]
            /\ UNCHANGED slipped
    /\ UNCHANGED <<source, caches, entries, active, seen, stranded>>

\* Mutant of Invalidate: the pattern does not match the key of the list.
InvalidateOther(r) ==
    /\ req[r].pc = "invalidate"
    /\ slipped' = (slipped \/ flight # None)
    /\ Move(r, "done")
    /\ UNCHANGED <<source, caches, entries, active, seen, stranded>>

Invalidate(r) ==
    /\ req[r].pc = "invalidate"
    /\ l1' = Nothing
    /\ slipped' = (slipped \/ flight # None)
    /\ Move(r, "done")
    /\ UNCHANGED <<source, flight, entries, active, seen, stranded>>

UpdateFails(r) ==
    /\ req[r].pc = "update"
    /\ req' = [req EXCEPT ![r] = Settled([@ EXCEPT !.sent = TRUE, !.pc = "done"])]
    /\ UNCHANGED <<source, caches, entries, active, history>>

-----------------------------------------------------------------------------
(* Timer, connection, expiry.                                               *)

\* 25 seconds: a 504 through the same res.json; the handler goes on.
TimesOut(r) ==
    /\ req[r].pc \in Reading \cup Writing /\ ~ req[r].sent /\ req[r].conn = "open"
    /\ IF req[r].pc \in Reading
       THEN Answer({r}, Nothing, {}, {})
       ELSE /\ req' = [req EXCEPT ![r].sent = TRUE]
            /\ UNCHANGED <<entries, seen, stranded>>
    /\ UNCHANGED <<source, caches, active, slipped>>

Admitted(r) == req[r].pc \in Reading \cup Writing \cup {"done"}

\* Mutant of Released: no Math.max.
ReleasedAlways(n) == n - 1

Released(n) == IF n = 0 THEN 0 ELSE n - 1

\* The response is on its way: its finish event and, right after it, its close event;
\* the limiter listens to both.
Finish(r) ==
    /\ Admitted(r) /\ req[r].sent /\ req[r].conn = "open"
    /\ req' = [req EXCEPT ![r] = Settled([@ EXCEPT !.conn = "closed"])]
    /\ active' = Released(Released(active))
    /\ UNCHANGED <<source, caches, entries, history>>

\* Mutant of Close: the limiter listens to finish only.
CloseUnheard(r) ==
    /\ Admitted(r) /\ req[r].conn = "open"
    /\ req' = [req EXCEPT ![r] = Settled([@ EXCEPT !.conn = "closed"])]
    /\ UNCHANGED <<source, caches, entries, active, history>>

\* The client goes away before the response has been sent.
Close(r) ==
    /\ Admitted(r) /\ req[r].conn = "open"
    /\ req' = [req EXCEPT ![r] = Settled([@ EXCEPT !.conn = "closed"])]
    /\ active' = Released(active)
    /\ UNCHANGED <<source, caches, entries, history>>

\* The client of a waiting request goes away; its entry's answer to it has no effect.
GiveUp(r) ==
    /\ req[r].pc = "waiting"
    /\ req' = [req EXCEPT ![r] = Idle]
    /\ waiting' = [u \in Users |-> waiting[u] \ {r}]
    /\ UNCHANGED <<source, caches, dedup, leading, active, history>>

\* Mutant of ExpireList: an entry without a time to live never expires.
ExpireNever == FALSE /\ UNCHANGED vars

ExpireList ==
    /\ l1 # Nothing /\ l1' = Nothing
    /\ UNCHANGED <<source, flight, entries, active, req, history>>

ExpireResponse(u) ==
    /\ dedup[u] # Nothing
    /\ dedup' = [dedup EXCEPT ![u] = Nothing]
    /\ UNCHANGED <<source, caches, leading, waiting, active, req, history>>

-----------------------------------------------------------------------------
Arrive(r) == ArriveUpdate(r) \/ \E u \in Users : Coalesce(r, u) \/ Lead(r, u)

Read(r)   == HitCache(r) \/ JoinFlight(r) \/ Fetch(r) \/ QueryRuns(r) \/ QueryLands(r) \/ Download(r)
Update(r) == Commit(r) \/ AnswerUpdate(r) \/ Invalidate(r)
Failure(r) == QueryFails(r) \/ AuthFails(r) \/ UpdateFails(r)
Response(r) == TimesOut(r) \/ Finish(r) \/ Close(r) \/ GiveUp(r)
Expire == ExpireList \/ \E u \in Users : ExpireResponse(u)

Next ==
    \/ \E r \in Reqs : Arrive(r) \/ Read(r) \/ Update(r) \/ Failure(r) \/ Response(r)
    \/ \E u \in Users : HitDedup(u)
    \/ Expire

Spec == Init /\ [][Next]_vars

\* The event loop and the database answer, and entries expire; no user has to come
\* or to leave, and nothing has to fail or to time out.
Fairness ==
    /\ \A r \in Reqs : WF_vars(Read(r) \/ Update(r))
    /\ WF_vars(ExpireList) /\ \A u \in Users : WF_vars(ExpireResponse(u))

FairSpec == Spec /\ Fairness

-----------------------------------------------------------------------------
ReqRecord == [pc : {"idle", "waiting", "done"} \cup Reading \cup Writing, user : Users \cup {None},
              got : Versions \cup {Nothing}, sent : BOOLEAN,
              conn : {"open", "closed"}]

\* The limiter's counter never goes below zero, whatever events a response emits, and
\* only users with an entry have requests waiting in it.
TypeOK ==
    /\ route \in Routes /\ db \in Versions /\ l1 \in Versions \cup {Nothing} /\ flight \in Reqs \cup {None}
    /\ dedup \in [Users -> Versions \cup {Nothing}] /\ leading \subseteq Users
    /\ waiting \in [Users -> SUBSET Reqs] /\ \A u \in Users \ leading : waiting[u] = {}
    /\ active \in Nat /\ req \in [Reqs -> ReqRecord]
    /\ seen \in [Users -> Versions \cup {Nothing}] /\ stranded \subseteq Users
    /\ slipped \in BOOLEAN

\* No slot of the limiter is lost: it never counts more requests than have a response
\* under way, so that a server at rest admits again, however clients disconnect
\* (concurrencyLimiter.js; it may count fewer, for a response releases twice).
NeverOvercounts == active <= Cardinality({r \in Reqs : Admitted(r) /\ req[r].conn = "open"})

\* A user never gets an answer older than the one before, through any mixture of
\* response cache, coalescing, list cache, shared flights and time-outs.
MonotonicReads == [][\A u \in Users : seen'[u] >= seen[u]]_seen

\* The list cache (120 s) holds outdated data only while an update has yet to invalidate
\* it, or when an invalidation overlapped a fetch or was skipped by a late answer.
StaleOnlyWhenSlipped ==
    l1 \in {Nothing, db} \/ slipped \/ \E r \in Reqs : req[r].pc \in {"written", "invalidate"}

\* A coalesced request is answered when the one it waits for is, by whatever path that
\* answers, unless the entry was taken by a request that had been answered before.
OnTimeAnswered ==
    \A r \in Reqs : \A u \in Users :
        (route = "list" /\ req[r].pc = "waiting" /\ req[r].user = u)
            ~> (req[r].pc # "waiting" \/ u \in stranded)

\* A request of the list for user u is under way that has not been answered yet.
Unanswered(u) == \E r \in Reqs : req[r].pc \in Reading /\ req[r].user = u /\ ~ req[r].sent

\* Whom a coalesced request waits for is there: it stands in the entry of its user, and
\* a request of that user that is yet to answer will take the entry, however many late
\* answers, failures and time-outs came in between (the safety half of OnTimeAnswered).
WaitersAreServed ==
    route = "list" =>
        \A r \in Reqs : req[r].pc = "waiting" =>
            LET u == req[r].user
            IN  u \in stranded \/ (r \in waiting[u] /\ Unanswered(u))

\* Once updates have stopped, no cache keeps an outdated version for ever, lost
\* invalidations and fetches that overlapped an update included.
EventuallyFresh == <>[](l1 \in {Nothing, db} /\ \A u \in Users : dedup[u] \in {Nothing, db})

\* deduplication.js: "Send the identical response to all coalesced waiting requests".
EveryoneAnswered == \A r \in Reqs : (req[r].pc = "waiting") ~> (req[r].pc # "waiting")
=============================================================================
