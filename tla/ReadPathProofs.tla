--------------------------- MODULE ReadPathProofs ---------------------------
(***************************************************************************)
(* Proofs about ReadPath, for any number of requests, users and updates.   *)
(***************************************************************************)
EXTENDS ReadPath, FiniteSetTheorems, TLAPS

Body == Versions \cup {Nothing}

\* A request that reads or waits has a user.
Owned == \A r \in Reqs : req[r].pc \in Reading \cup {"waiting"} => req[r].user \in Users

\* What an entry will answer are the coalesced requests of its user.
WaitersWait ==
    \A u \in Users : \A x \in waiting[u] :
        u \in leading /\ req[x].pc = "waiting" /\ req[x].user = u

ReqsOK == req \in [Reqs -> ReqRecord]
EntriesOK ==
    /\ dedup \in [Users -> Body] /\ seen \in [Users -> Body]
    /\ leading \subseteq Users /\ waiting \in [Users -> SUBSET Reqs] /\ stranded \subseteq Users
SiteOK ==
    /\ route \in Routes /\ db \in Versions /\ l1 \in Body /\ flight \in Reqs \cup {None}
    /\ slipped \in BOOLEAN

TypeInv ==
    /\ SiteOK /\ EntriesOK /\ ReqsOK /\ active \in Nat
    /\ Owned /\ WaitersWait

LEMMA TypeSplits == TypeInv => TypeOK
  <1> SUFFICES ASSUME TypeInv PROVE TypeOK
    OBVIOUS
  <1> USE DEF TypeInv, SiteOK, EntriesOK, ReqsOK
  <1>1. \A u \in Users \ leading : waiting[u] = {}
    BY DEF WaitersWait
  <1> QED
    BY <1>1 DEF TypeOK, Body

LEMMA BodyIsNat == Body = Nat
  BY DEF Body, Versions, Nothing

LEMMA IdleType == Idle \in ReqRecord
  BY DEF Idle, ReqRecord, Nothing, Reading, Writing

\* The response of an admitted request is still open.
Open(r) == Admitted(r) /\ req[r].conn = "open"

Steady(x, y) == y.pc = x.pc /\ y.user = x.user /\ y.got = x.got /\ y.conn = x.conn

\* What settling a record leaves: types, and whether its response is open.
LEMMA SettledRow ==
  ASSUME NEW x \in ReqRecord
  PROVE  /\ Settled(x) \in ReqRecord
         /\ x.pc # "done" => Settled(x) = x
         /\ x.pc = "done" => /\ Settled(x).pc \in {"idle", "done"}
                             /\ Settled(x).pc = "done" <=> x.conn = "open"
                             /\ Settled(x).conn = "open"
  <1> DEFINE left == [Idle EXCEPT !.pc = "done", !.sent = TRUE]
  <1>1. left \in ReqRecord /\ left.pc = "done" /\ left.conn = "open"
    BY IdleType DEF Idle, ReqRecord, Nothing
  <1>2. Idle.pc = "idle" /\ Idle.conn = "open"
    BY DEF Idle
  <1>3. Settled(x) = IF x.pc # "done" THEN x ELSE IF x.conn = "closed" THEN Idle ELSE left
    BY DEF Settled
  <1>4. x.conn \in {"open", "closed"}
    BY DEF ReqRecord
  <1> HIDE DEF left
  <1> QED
    BY <1>1, <1>2, <1>3, <1>4, IdleType

-----------------------------------------------------------------------------
(* Answers.                                                                *)

\* How a step of res.json may change the record of a request.
Answered(ended) ==
    \A x \in Reqs :
        /\ req[x].pc \in Reading \cup Writing \cup {"idle"} /\ x \notin ended => Steady(req[x], req'[x])
        /\ req[x].pc = "done" \/ x \in ended =>
               /\ req'[x].pc \in {"idle", "done"}
               /\ req'[x].pc = "done" <=> req[x].conn = "open"
               /\ req'[x].conn = "open"
        /\ req[x].pc = "waiting" =>
               \/ Steady(req[x], req'[x]) /\ \A u \in Users : x \in waiting'[u] => x \in waiting[u]
               \/ req'[x].pc = "idle" /\ \A u \in Users : x \notin waiting'[u]

\* A successful answer is what the response cache and the user get.
Shown(body) ==
    \A u \in Users : \/ dedup'[u] = dedup[u] /\ seen'[u] = seen[u]
                     \/ body # Nothing /\ dedup'[u] = body /\ seen'[u] = body

LEMMA AnswerStep ==
  ASSUME TypeInv, NEW R \in SUBSET Reqs, NEW body \in Body, NEW lost, NEW ended \in SUBSET Reqs,
         \A x \in R \cup ended : req[x].pc \in Reading,
         Answer(R, body, lost, ended)
  PROVE  ReqsOK' /\ EntriesOK' /\ Owned' /\ WaitersWait' /\ Answered(ended) /\ Shown(body)
  <1> DEFINE owners    == {req[r].user : r \in R}
             coalesced == UNION {waiting[u] : u \in owners \ lost}
             fresh     == {req[r].user : r \in {x \in R : ~ req[x].sent}}
             row(x)    == [req[x] EXCEPT !.sent = @ \/ x \in R,
                                         !.pc = IF x \in ended THEN "done" ELSE @]
  <1>1. /\ req' = [x \in Reqs |-> IF x \in coalesced THEN Idle ELSE Settled(row(x))]
        /\ leading' = leading \ owners
        /\ waiting' = [u \in Users |-> IF u \in owners THEN {} ELSE waiting[u]]
        /\ dedup' = [u \in Users |-> IF body # Nothing /\ u \in fresh THEN body ELSE dedup[u]]
        /\ seen'  = [u \in Users |-> IF body # Nothing /\ u \in fresh THEN body ELSE seen[u]]
        /\ stranded' = stranded \cup {u \in owners \cap lost : waiting[u] # {}}
    BY Zenon DEF Answer
  <1>2. owners \subseteq Users /\ fresh \subseteq Users
    BY DEF TypeInv, Owned
  <1>3. \A x \in coalesced : x \in Reqs /\ req[x].pc = "waiting" /\ req[x].user \in owners \ lost
    BY <1>2 DEF TypeInv, EntriesOK, WaitersWait
  <1>4. ASSUME NEW x \in Reqs
        PROVE /\ row(x) \in ReqRecord /\ row(x).user = req[x].user /\ row(x).got = req[x].got
              /\ row(x).conn = req[x].conn
              /\ row(x).pc = IF x \in ended THEN "done" ELSE req[x].pc
    <2>1. req[x] \in ReqRecord
      BY DEF TypeInv, ReqsOK
    <2> QED
      BY <2>1 DEF ReqRecord
  <1>5. EntriesOK'
    <2>1. leading' \subseteq Users /\ waiting' \in [Users -> SUBSET Reqs]
      BY <1>1 DEF TypeInv, EntriesOK
    <2>2. dedup' \in [Users -> Body] /\ seen' \in [Users -> Body]
      BY <1>1 DEF TypeInv, EntriesOK
    <2>3. stranded' \subseteq Users
      BY <1>1, <1>2 DEF TypeInv, EntriesOK
    <2> QED
      BY <2>1, <2>2, <2>3 DEF EntriesOK
  <1>6. Shown(body)
    BY <1>1 DEF Shown
  <1> HIDE DEF row, fresh
  <1>7. ASSUME NEW x \in Reqs
        PROVE /\ req'[x] \in ReqRecord
              /\ x \in coalesced => req'[x] = Idle
              /\ x \notin coalesced => req'[x] = Settled(row(x))
    BY <1>1, <1>4, SettledRow, IdleType
  <1>8. ReqsOK'
    BY <1>1, <1>7 DEF ReqsOK
  <1>9. ASSUME NEW x \in Reqs
        PROVE /\ x \notin coalesced /\ x \notin ended /\ req[x].pc # "done" => Steady(req[x], req'[x])
              /\ x \notin coalesced /\ (x \in ended \/ req[x].pc = "done") =>
                     /\ req'[x].pc \in {"idle", "done"}
                     /\ req'[x].pc = "done" <=> req[x].conn = "open"
                     /\ req'[x].conn = "open"
    <2>1. CASE x \notin coalesced /\ x \notin ended /\ req[x].pc # "done"
      BY <2>1, <1>4, <1>7, SettledRow DEF Steady
    <2>2. CASE x \notin coalesced /\ (x \in ended \/ req[x].pc = "done")
      BY <2>2, <1>4, <1>7, SettledRow
    <2> QED
      BY <2>1, <2>2
  <1>10. Idle.pc = "idle"
    BY DEF Idle
  <1>11. \A x \in coalesced : \A u \in Users : x \notin waiting'[u]
    BY <1>1, <1>3 DEF TypeInv, WaitersWait, EntriesOK
  <1>12. Answered(ended)
    <2> SUFFICES ASSUME NEW x \in Reqs
                 PROVE  /\ req[x].pc \in Reading \cup Writing \cup {"idle"} /\ x \notin ended => Steady(req[x], req'[x])
                        /\ req[x].pc = "done" \/ x \in ended =>
                               /\ req'[x].pc \in {"idle", "done"}
                               /\ req'[x].pc = "done" <=> req[x].conn = "open"
                               /\ req'[x].conn = "open"
                        /\ req[x].pc = "waiting" =>
                               \/ Steady(req[x], req'[x]) /\ \A u \in Users : x \in waiting'[u] => x \in waiting[u]
                               \/ req'[x].pc = "idle" /\ \A u \in Users : x \notin waiting'[u]
      BY Zenon DEF Answered
    <2>1. "waiting" \notin Reading \cup Writing \cup {"idle", "done"} /\ "done" \notin Reading \cup Writing
      BY DEF Reading, Writing
    <2>2. \A u \in Users : x \in waiting'[u] => x \in waiting[u]
      BY <1>1 DEF TypeInv, EntriesOK
    <2>3. x \in ended => req[x].pc \in Reading
      OBVIOUS
    <2>4. CASE x \in coalesced
      <3>1. req[x].pc = "waiting" /\ x \notin ended
        BY <2>1, <2>3, <2>4, <1>3
      <3>2. req'[x].pc = "idle"
        BY <2>4, <1>7, <1>10
      <3> QED
        BY <2>1, <2>4, <1>11, <3>1, <3>2
    <2>5. CASE x \notin coalesced
      BY <2>1, <2>2, <2>3, <2>5, <1>9
    <2> QED
      BY <2>4, <2>5
  <1>13. Owned' /\ WaitersWait'
    <2>1. ASSUME NEW x \in Reqs, req'[x].pc \in Reading \cup {"waiting"}
          PROVE  Steady(req[x], req'[x]) /\ req[x].pc \in Reading \cup {"waiting"}
      <3>1. req[x].pc \in Reading \cup Writing \cup {"idle", "waiting", "done"}
        BY DEF TypeInv, ReqsOK, ReqRecord
      <3>2. {"idle", "done"} \cap (Reading \cup {"waiting"}) = {}
        BY DEF Reading
      <3> QED
        BY <1>12, <2>1, <3>1, <3>2 DEF Answered, Steady
    <2>2. Owned'
      BY <2>1 DEF Owned, TypeInv, Steady
    <2>3. ASSUME NEW u \in Users, NEW x \in waiting'[u]
          PROVE  u \in leading' /\ req'[x].pc = "waiting" /\ req'[x].user = u
      <3>1. u \notin owners /\ x \in waiting[u]
        BY <1>1, <2>3
      <3>2. x \in Reqs /\ u \in leading /\ req[x].pc = "waiting" /\ req[x].user = u
        BY <3>1 DEF TypeInv, WaitersWait, EntriesOK
      <3>3. Steady(req[x], req'[x])
        BY <1>12, <2>3, <3>2 DEF Answered
      <3> QED
        BY <1>1, <3>1, <3>2, <3>3 DEF Steady
    <2> QED
      BY <2>2, <2>3 DEF WaitersWait
  <1> QED
    BY <1>5, <1>6, <1>8, <1>12, <1>13

-----------------------------------------------------------------------------
(* Steps of one request.                                                   *)

Only(r, y) == y \in ReqRecord /\ req' = [req EXCEPT ![r] = y]

Stays(r, y) == y.user = req[r].user /\ y.conn = req[r].conn /\ y.sent = req[r].sent
Ends(r, y)  == y.pc \in {"idle", "done"} /\ (y.pc = "done" <=> req[r].conn = "open") /\ y.conn = "open"

LEMMA MoveRow ==
  ASSUME TypeInv, NEW r \in Reqs, NEW pc \in Reading \cup Writing, Move(r, pc)
  PROVE  \E y : Only(r, y) /\ y.pc = pc /\ Stays(r, y)
  <1> DEFINE y == [req[r] EXCEPT !.pc = pc]
  <1>1. /\ y \in ReqRecord /\ y.pc = pc /\ y.user = req[r].user /\ y.conn = req[r].conn
        /\ y.sent = req[r].sent
    BY DEF TypeInv, ReqsOK, ReqRecord
  <1>2. pc # "done"
    BY DEF Reading, Writing
  <1>3. req' = [req EXCEPT ![r] = Settled(y)]
    BY Zenon DEF Move
  <1> HIDE DEF y
  <1>4. Settled(y) = y
    BY <1>1, <1>2, SettledRow
  <1> QED
    BY <1>1, <1>3, <1>4 DEF Only, Stays

LEMMA EndRow ==
  ASSUME TypeInv, NEW r \in Reqs,
         \/ Move(r, "done")
         \/ req' = [req EXCEPT ![r] = Settled([@ EXCEPT !.sent = TRUE, !.pc = "done"])]
  PROVE  \E y : Only(r, y) /\ Ends(r, y)
  <1> DEFINE moved == [req[r] EXCEPT !.pc = "done"]
             sent  == [req[r] EXCEPT !.sent = TRUE, !.pc = "done"]
  <1>1. /\ moved \in ReqRecord /\ moved.pc = "done" /\ moved.conn = req[r].conn
        /\ sent \in ReqRecord /\ sent.pc = "done" /\ sent.conn = req[r].conn
    BY DEF TypeInv, ReqsOK, ReqRecord
  <1>2. \/ req' = [req EXCEPT ![r] = Settled(moved)]
        \/ req' = [req EXCEPT ![r] = Settled(sent)]
    BY Zenon DEF Move
  <1> HIDE DEF moved, sent
  <1>3. /\ Settled(moved) \in ReqRecord /\ Ends(r, Settled(moved))
        /\ Settled(sent) \in ReqRecord /\ Ends(r, Settled(sent))
    BY <1>1, SettledRow DEF Ends
  <1> QED
    BY <1>2, <1>3 DEF Only

LEMMA EnterRow ==
  ASSUME NEW r \in Reqs, NEW pc \in {"auth", "update", "waiting"}, NEW u \in Users \cup {None}, Enter(r, pc, u)
  PROVE  \E y : Only(r, y) /\ y.pc = pc /\ y.user = u /\ y.conn = "open" /\ ~ y.sent
  <1> DEFINE y == [Idle EXCEPT !.pc = pc, !.user = u]
  <1>1. y \in ReqRecord /\ y.pc = pc /\ y.user = u /\ y.conn = "open" /\ ~ y.sent
    BY DEF Idle, ReqRecord, Reading, Writing, Nothing
  <1>2. req' = [req EXCEPT ![r] = y]
    BY Zenon DEF Enter
  <1> QED
    BY <1>1, <1>2 DEF Only

LEMMA CloseRow ==
  ASSUME TypeInv, NEW r \in Reqs, req' = [req EXCEPT ![r] = Settled([@ EXCEPT !.conn = "closed"])]
  PROVE  \E y : /\ Only(r, y)
                /\ req[r].pc = "done" => y.pc = "idle"
                /\ req[r].pc # "done" => /\ y.pc = req[r].pc /\ y.user = req[r].user
                                         /\ y.got = req[r].got /\ y.conn = "closed"
                                         /\ y.sent = req[r].sent
  <1> DEFINE y == [req[r] EXCEPT !.conn = "closed"]
  <1>1. /\ y \in ReqRecord /\ y.conn = "closed" /\ y.pc = req[r].pc /\ y.user = req[r].user
        /\ y.got = req[r].got /\ y.sent = req[r].sent
    BY DEF TypeInv, ReqsOK, ReqRecord
  <1>2. req' = [req EXCEPT ![r] = Settled(y)]
    BY Zenon
  <1> HIDE DEF y
  <1> QED
    BY <1>1, <1>2, SettledRow DEF Only

\* A step of one request that leaves the entries alone keeps them well-formed.
LEMMA OnlyType ==
  ASSUME TypeInv, NEW r \in Reqs, NEW y, Only(r, y), req[r].pc # "waiting", y.pc # "waiting",
         y.pc \in Reading => y.user \in Users,
         waiting' = waiting, leading \subseteq leading'
  PROVE  ReqsOK' /\ Owned' /\ WaitersWait'
  <1>1. ReqsOK'
    BY DEF TypeInv, ReqsOK, Only
  <1>2. req'[r] = y /\ \A x \in Reqs \ {r} : req'[x] = req[x]
    BY DEF TypeInv, ReqsOK, Only
  <1>3. Owned'
    BY <1>2 DEF TypeInv, Owned
  <1>4. \A u \in Users : \A x \in waiting[u] : x \in Reqs /\ x # r
    BY DEF TypeInv, WaitersWait, EntriesOK
  <1>5. WaitersWait'
    BY <1>2, <1>4 DEF TypeInv, WaitersWait
  <1> QED
    BY <1>1, <1>3, <1>5

-----------------------------------------------------------------------------
(* The invariant: one fetch at a time, on behalf of a cache that is empty; *)
(* what it has read, and what the cache holds, is at least as new as what  *)
(* any user has seen, and is the current version unless an update is still *)
(* to invalidate it or its invalidation slipped.                           *)

Flying  == {"fetch", "fetched"}
Pending == \E r \in Reqs : req[r].pc \in {"written", "invalidate"}
Known(v) == v = db \/ slipped \/ Pending

FlightInv ==
    /\ \A r \in Reqs : req[r].pc \in Flying <=> flight = r
    /\ flight # None => l1 = Nothing

SeenInv ==
    /\ \A u \in Users : dedup[u] \in {Nothing, seen[u]} /\ seen[u] <= db
    /\ l1 # Nothing => l1 <= db /\ \A u \in Users : seen[u] <= l1
    /\ \A r \in Reqs : req[r].pc = "fetched" =>
           /\ req[r].got # Nothing /\ req[r].got <= db
           /\ \A u \in Users : seen[u] <= req[r].got

SlipInv ==
    /\ l1 # Nothing => Known(l1)
    /\ \A r \in Reqs : req[r].pc = "fetched" => Known(req[r].got)

Inv == TypeInv /\ FlightInv /\ SeenInv /\ SlipInv

\* Steps that start no fetch, land none and show nobody anything new.
LEMMA Quiet ==
  ASSUME Inv, TypeInv',
         \A x \in Reqs : /\ req'[x].pc \in Flying <=> req[x].pc \in Flying
                         /\ req'[x].pc = "fetched" => req[x].pc = "fetched" /\ req'[x].got = req[x].got,
         flight' = flight, l1' \in {l1, Nothing}, db' >= db,
         \A u \in Users : dedup'[u] \in {Nothing, seen[u]} /\ seen'[u] = seen[u],
         slipped' \/ Pending' \/ (db' = db /\ ~ slipped /\ ~ Pending)
  PROVE  Inv'
  <1>1. db \in Nat /\ db' \in Nat /\ (\A u \in Users : seen[u] \in Nat) /\ l1 \in Nat
    BY BodyIsNat DEF Inv, TypeInv, SiteOK, EntriesOK, Versions
  <1>2. \A r \in Reqs : req[r].got \in Nat
    BY DEF Inv, TypeInv, ReqsOK, ReqRecord, Versions, Nothing
  <1>3. FlightInv'
    BY DEF Inv, FlightInv
  <1>4. SeenInv'
    BY <1>1, <1>2 DEF Inv, SeenInv
  <1>5. SlipInv'
    BY Zenon DEF Inv, SlipInv, Known
  <1> QED
    BY <1>3, <1>4, <1>5 DEF Inv

\* The same for a step of one request.
LEMMA QuietRow ==
  ASSUME Inv, TypeInv', NEW r \in Reqs, NEW y, Only(r, y),
         y.pc \in Flying <=> req[r].pc \in Flying,
         y.pc = "fetched" => y.pc = req[r].pc /\ y.got = req[r].got,
         req[r].pc \in {"written", "invalidate"} => y.pc \in {"written", "invalidate"} \/ slipped',
         flight' = flight, l1' = l1,
         db' = db \/ (db' = db + 1 /\ y.pc = "written"),
         UNCHANGED <<dedup, seen>>,
         slipped => slipped'
  PROVE  Inv'
  <1>1. req'[r] = y /\ \A x \in Reqs \ {r} : req'[x] = req[x]
    BY DEF Inv, TypeInv, ReqsOK, Only
  <1>2. db \in Nat
    BY DEF Inv, TypeInv, SiteOK, Versions
  <1>3. Pending => Pending' \/ slipped'
    BY <1>1 DEF Pending
  <1>4. db' = db + 1 => Pending'
    BY <1>1, <1>2 DEF Pending
  <1>5. slipped' \/ Pending' \/ (db' = db /\ ~ slipped /\ ~ Pending)
    BY <1>3, <1>4, Zenon
  <1>6. \A u \in Users : dedup'[u] \in {Nothing, seen[u]} /\ seen'[u] = seen[u]
    BY DEF Inv, SeenInv
  <1>7. \A x \in Reqs : /\ req'[x].pc \in Flying <=> req[x].pc \in Flying
                        /\ req'[x].pc = "fetched" => req[x].pc = "fetched" /\ req'[x].got = req[x].got
    BY <1>1
  <1>8. db' >= db
    BY <1>2
  <1> QED
    BY <1>5, <1>6, <1>7, <1>8, Quiet

\* And for a step of res.json that shows no version and ends no fetch.
LEMMA QuietAnswer ==
  ASSUME Inv, NEW R \in SUBSET Reqs, NEW lost, NEW ended \in SUBSET Reqs,
         \A x \in R \cup ended : req[x].pc \in Reading,
         \A x \in ended : req[x].pc \notin Flying,
         Answer(R, Nothing, lost, ended),
         UNCHANGED <<source, caches, active, slipped>>
  PROVE  Inv'
  <1>1. ReqsOK' /\ EntriesOK' /\ Owned' /\ WaitersWait' /\ Answered(ended) /\ Shown(Nothing)
    BY AnswerStep DEF Inv, Body
  <1>2. TypeInv'
    BY <1>1 DEF Inv, TypeInv, SiteOK, source, caches
  <1>3. ASSUME NEW x \in Reqs
        PROVE /\ req'[x].pc \in Flying <=> req[x].pc \in Flying
              /\ req'[x].pc = "fetched" => req[x].pc = "fetched" /\ req'[x].got = req[x].got
              /\ req[x].pc \in {"written", "invalidate"} => req'[x].pc = req[x].pc
    <2>1. req[x].pc \in Reading \cup Writing \cup {"idle", "waiting", "done"}
      BY DEF Inv, TypeInv, ReqsOK, ReqRecord
    <2>2. {"idle", "done", "waiting"} \cap Flying = {} /\ {"idle", "done"} \cap {"written", "invalidate"} = {}
      BY DEF Flying
    <2>3. x \in ended => req[x].pc \notin {"written", "invalidate"}
      BY DEF Reading
    <2> QED
      BY <1>1, <2>1, <2>2, <2>3 DEF Answered, Steady
  <1>4. Pending => Pending'
    BY <1>3 DEF Pending
  <1>5. \A u \in Users : dedup'[u] \in {Nothing, seen[u]} /\ seen'[u] = seen[u]
    BY <1>1 DEF Shown, Inv, SeenInv
  <1>6. slipped' \/ Pending' \/ (db' = db /\ ~ slipped /\ ~ Pending)
    BY <1>4, Zenon DEF source
  <1>7. db' >= db /\ flight' = flight /\ l1' = l1
    BY DEF source, caches, Inv, TypeInv, SiteOK, Versions
  <1> QED
    BY <1>2, <1>3, <1>5, <1>6, <1>7, Quiet

-----------------------------------------------------------------------------
(* Every action preserves the invariant.                                   *)

LEMMA Pcs == /\ {"idle", "waiting", "done"} \cap (Reading \cup Writing) = {}
             /\ Flying \subseteq Reading /\ Reading \cap Writing = {}
             /\ {"auth", "joined"} \subseteq Reading \ Flying
             /\ {"update", "written", "invalidate"} = Writing
  BY DEF Reading, Writing, Flying

LEMMA ArriveInv == ASSUME Inv, NEW r \in Reqs, Arrive(r) PROVE Inv'
  <1> USE DEF source, caches, history, entries
  <1>1. req[r].pc = "idle" /\ active \in Nat /\ active' \in {active, active + 1}
    BY DEF Arrive, ArriveUpdate, Coalesce, Lead, Inv, TypeInv
  <1>2. CASE ArriveUpdate(r)
    <2>1. PICK y : Only(r, y) /\ y.pc = "update"
      BY <1>2, EnterRow DEF ArriveUpdate
    <2>2. ReqsOK' /\ Owned' /\ WaitersWait'
      BY <1>1, <1>2, <2>1, OnlyType, Pcs DEF ArriveUpdate, Inv
    <2>3. TypeInv'
      BY <1>1, <1>2, <2>2 DEF ArriveUpdate, Inv, TypeInv, SiteOK, EntriesOK
    <2> QED
      BY <1>1, <1>2, <2>1, <2>3, QuietRow, Pcs DEF ArriveUpdate
  <1>3. ASSUME NEW u \in Users, Lead(r, u) PROVE Inv'
    <2>1. PICK y : Only(r, y) /\ y.pc = "auth" /\ y.user = u
      BY <1>3, EnterRow DEF Lead
    <2>2. ReqsOK' /\ Owned' /\ WaitersWait'
      BY <1>1, <1>3, <2>1, OnlyType, Pcs DEF Lead, Inv
    <2>3. TypeInv'
      BY <1>1, <1>3, <2>2 DEF Lead, Inv, TypeInv, SiteOK, EntriesOK
    <2> QED
      BY <1>1, <1>3, <2>1, <2>3, QuietRow, Pcs DEF Lead
  <1>4. ASSUME NEW u \in Users, Coalesce(r, u) PROVE Inv'
    <2>1. PICK y : Only(r, y) /\ y.pc = "waiting" /\ y.user = u
      BY <1>4, EnterRow DEF Coalesce
    <2>2. req'[r] = y /\ ReqsOK' /\ \A x \in Reqs \ {r} : req'[x] = req[x]
      BY <2>1 DEF Inv, TypeInv, ReqsOK, Only
    <2>3. EntriesOK' /\ SiteOK'
      BY <1>4 DEF Coalesce, Inv, TypeInv, SiteOK, EntriesOK
    <2>4. Owned'
      BY <2>1, <2>2, Pcs DEF Owned, Inv, TypeInv
    <2>5. WaitersWait'
      <3>1. waiting' = [waiting EXCEPT ![u] = @ \cup {r}] /\ u \in leading /\ leading' = leading
        BY <1>4 DEF Coalesce
      <3>2. waiting \in [Users -> SUBSET Reqs]
        BY DEF Inv, TypeInv, EntriesOK
      <3>3. \A v \in Users : \A x \in waiting[v] : x # r /\ x \in Reqs
        BY <1>1, <3>2 DEF Inv, TypeInv, WaitersWait
      <3> QED
        BY <2>1, <2>2, <3>1, <3>2, <3>3 DEF Inv, TypeInv, WaitersWait
    <2>6. TypeInv'
      BY <1>1, <2>2, <2>3, <2>4, <2>5 DEF TypeInv
    <2> QED
      BY <1>1, <1>4, <2>1, <2>6, QuietRow, Pcs DEF Coalesce
  <1> QED
    BY <1>2, <1>3, <1>4 DEF Arrive

\* Steps of one admitted request that neither answer for others nor touch the fetch.
LEMMA PlainInv ==
  ASSUME Inv, NEW r \in Reqs,
         JoinFlight(r) \/ Download(r) \/ Commit(r) \/ AnswerUpdate(r) \/ UpdateFails(r)
  PROVE  Inv'
  <1> USE DEF source, caches, history, entries
  <1>1. PICK y : /\ Only(r, y)
                 /\ \/ JoinFlight(r) /\ y.pc = "joined" /\ y.user = req[r].user
                    \/ (Download(r) \/ UpdateFails(r)) /\ Ends(r, y)
                    \/ Commit(r) /\ y.pc = "written"
                    \/ AnswerUpdate(r) /\ Ends(r, y) /\ slipped' = TRUE
                    \/ AnswerUpdate(r) /\ y.pc = "invalidate" /\ slipped' = slipped
    <2>1. CASE JoinFlight(r)
      BY <2>1, MoveRow, Pcs DEF JoinFlight, Inv, Stays
    <2>2. CASE Download(r) \/ UpdateFails(r)
      BY <2>2, EndRow DEF Download, UpdateFails, Inv
    <2>3. CASE Commit(r)
      BY <2>3, MoveRow, Pcs DEF Commit, Inv
    <2>4. CASE AnswerUpdate(r) /\ req[r].sent
      BY <2>4, EndRow DEF AnswerUpdate, Inv
    <2>5. CASE AnswerUpdate(r) /\ ~ req[r].sent
      <3> DEFINE z == [req[r] EXCEPT !.sent = TRUE, !.pc = "invalidate"]
      <3>1. z \in ReqRecord /\ z.pc = "invalidate"
        BY DEF Inv, TypeInv, ReqsOK, ReqRecord, Writing
      <3>2. req' = [req EXCEPT ![r] = z] /\ slipped' = slipped
        BY Zenon, <2>5 DEF AnswerUpdate
      <3> HIDE DEF z
      <3> QED
        BY <2>5, <3>1, <3>2 DEF Only
    <2> QED
      BY <2>1, <2>2, <2>3, <2>4, <2>5
  <1>2. /\ req[r].pc \in Reading \cup Writing /\ req[r].pc \notin Flying
        /\ UNCHANGED <<route, l1, flight, dedup, leading, waiting, seen, stranded, active>>
        /\ db' = db \/ (db' = db + 1 /\ y.pc = "written")
        /\ slipped' \in BOOLEAN /\ (slipped => slipped')
        /\ req[r].pc \in {"written", "invalidate"} => y.pc \in {"written", "invalidate"} \/ slipped'
    <2>1. slipped \in BOOLEAN
      BY DEF Inv, TypeInv, SiteOK
    <2>2. CASE JoinFlight(r)
      BY <2>1, <2>2, Pcs DEF JoinFlight
    <2>3. CASE Download(r)
      BY <2>1, <2>3, Pcs DEF Download
    <2>4. CASE UpdateFails(r)
      BY <2>1, <2>4, Pcs DEF UpdateFails, Flying
    <2>5. CASE Commit(r)
      <3>1. db' # db
        BY <2>5 DEF Commit, Inv, TypeInv, SiteOK, Versions
      <3>2. ~ (JoinFlight(r) \/ Download(r) \/ UpdateFails(r) \/ AnswerUpdate(r))
        BY <3>1 DEF JoinFlight, Download, UpdateFails, AnswerUpdate
      <3>3. req[r].pc = "update" /\ y.pc = "written"
        BY <1>1, <2>5, <3>2 DEF Commit
      <3> QED
        BY <2>1, <2>5, <3>3, Pcs DEF Commit, Flying
    <2>6. CASE AnswerUpdate(r)
      <3>1. req[r].pc = "written"
        BY <2>6 DEF AnswerUpdate
      <3>2. slipped' = TRUE \/ (slipped' = slipped /\ y.pc = "invalidate")
        BY <1>1, <3>1 DEF JoinFlight, Download, UpdateFails, Commit
      <3> QED
        BY <2>1, <2>6, <3>1, <3>2, Pcs DEF AnswerUpdate, Flying
    <2> QED
      BY <1>1, <2>2, <2>3, <2>4, <2>5, <2>6
  <1>3. /\ y.pc \notin Flying /\ y.pc # "waiting" /\ y.pc # "fetched"
        /\ y.pc \in Reading => y.user \in Users
    <2>1. y.pc \in {"idle", "done", "written", "invalidate"} \/ (y.pc = "joined" /\ y.user = req[r].user /\ req[r].pc = "auth")
      BY <1>1 DEF Ends, JoinFlight
    <2>2. req[r].pc = "auth" => req[r].user \in Users
      BY Pcs DEF Inv, TypeInv, Owned
    <2> QED
      BY <2>1, <2>2 DEF Flying, Reading
  <1>4. ReqsOK' /\ Owned' /\ WaitersWait'
    BY <1>1, <1>2, <1>3, OnlyType, Pcs DEF Inv
  <1>5. TypeInv'
    BY <1>2, <1>4 DEF Inv, TypeInv, SiteOK, EntriesOK, Versions
  <1>6. y.pc \in Flying <=> req[r].pc \in Flying
    BY <1>2, <1>3
  <1> QED
    BY <1>1, <1>2, <1>3, <1>5, <1>6, QuietRow

LEMMA ConnectionInv ==
  ASSUME Inv, NEW r \in Reqs, Finish(r) \/ Close(r)
  PROVE  Inv'
  <1> USE DEF source, caches, history, entries
  <1>1. req[r].pc \in Reading \cup Writing \cup {"done"} /\ UNCHANGED <<source, caches, entries, history>>
    BY DEF Finish, Close, Admitted
  <1>2. active' \in Nat
    BY DEF Finish, Close, Released, Inv, TypeInv
  <1>3. PICK y : /\ Only(r, y)
                 /\ req[r].pc = "done" => y.pc = "idle"
                 /\ req[r].pc # "done" => /\ y.pc = req[r].pc /\ y.user = req[r].user
                                          /\ y.got = req[r].got
    BY CloseRow DEF Finish, Close, Inv
  <1>4. /\ y.pc # "waiting" /\ req[r].pc # "waiting"
        /\ y.pc \in Reading => y.user \in Users
        /\ y.pc \in Flying <=> req[r].pc \in Flying
        /\ y.pc = "fetched" => y.pc = req[r].pc /\ y.got = req[r].got
        /\ req[r].pc \in {"written", "invalidate"} => y.pc \in {"written", "invalidate"}
    BY <1>1, <1>3, Pcs DEF Inv, TypeInv, Owned, Flying
  <1>5. ReqsOK' /\ Owned' /\ WaitersWait'
    BY <1>1, <1>3, <1>4, OnlyType DEF Inv
  <1>6. TypeInv'
    BY <1>1, <1>2, <1>5 DEF Inv, TypeInv, SiteOK, EntriesOK
  <1> QED
    BY <1>1, <1>3, <1>4, <1>6, QuietRow

LEMMA TimesOutInv ==
  ASSUME Inv, NEW r \in Reqs, TimesOut(r)
  PROVE  Inv'
  <1>1. UNCHANGED <<source, caches, active, slipped>>
    BY DEF TimesOut
  <1>2. CASE req[r].pc \in Reading
    <2>1. Answer({r}, Nothing, {}, {})
      BY <1>2 DEF TimesOut
    <2> QED
      BY <1>1, <1>2, <2>1, QuietAnswer
  <1>3. CASE req[r].pc \in Writing
    <2> DEFINE y == [req[r] EXCEPT !.sent = TRUE]
    <2>1. y \in ReqRecord /\ y.pc = req[r].pc
      BY DEF Inv, TypeInv, ReqsOK, ReqRecord
    <2>2. req[r].pc \notin Reading
      BY <1>3, Pcs
    <2>3. req' = [req EXCEPT ![r] = y] /\ UNCHANGED <<entries, seen, stranded>>
      BY Zenon, <2>2 DEF TimesOut
    <2> HIDE DEF y
    <2>4. Only(r, y) /\ req[r].pc # "waiting" /\ y.pc \notin Flying
      BY <1>3, <2>1, <2>3, Pcs DEF Only
    <2>5. ReqsOK' /\ Owned' /\ WaitersWait'
      BY <2>1, <2>2, <2>3, <2>4, OnlyType DEF Inv, entries
    <2>6. TypeInv'
      BY <1>1, <2>3, <2>5 DEF Inv, TypeInv, SiteOK, EntriesOK, source, caches, entries
    <2>7. y.pc # "fetched" /\ req[r].pc \notin Flying
      BY <2>1, <2>4 DEF Flying
    <2> QED
      BY <1>1, <2>1, <2>3, <2>4, <2>6, <2>7, QuietRow DEF source, caches, entries
  <1> QED
    BY <1>2, <1>3 DEF TimesOut

LEMMA GiveUpInv ==
  ASSUME Inv, NEW r \in Reqs, GiveUp(r)
  PROVE  Inv'
  <1>1. /\ req[r].pc = "waiting" /\ req' = [req EXCEPT ![r] = Idle]
        /\ waiting' = [u \in Users |-> waiting[u] \ {r}]
        /\ UNCHANGED <<source, caches, dedup, leading, active, history>>
    BY Zenon DEF GiveUp
  <1>2. Idle \in ReqRecord /\ Idle.pc = "idle"
    BY IdleType DEF Idle
  <1>3. Only(r, Idle)
    BY <1>1, <1>2 DEF Only
  <1>4. req'[r] = Idle /\ ReqsOK' /\ \A x \in Reqs \ {r} : req'[x] = req[x]
    BY <1>1, <1>2 DEF Inv, TypeInv, ReqsOK
  <1>5. EntriesOK' /\ SiteOK' /\ active' \in Nat
    BY <1>1 DEF Inv, TypeInv, SiteOK, EntriesOK, source, caches, history
  <1>6. Owned'
    BY <1>2, <1>4, Pcs DEF Owned, Inv, TypeInv
  <1>7. WaitersWait'
    BY <1>1, <1>4 DEF WaitersWait, Inv, TypeInv, EntriesOK
  <1>8. TypeInv'
    BY <1>4, <1>5, <1>6, <1>7 DEF TypeInv
  <1>9. /\ Idle.pc \notin Flying /\ req[r].pc \notin Flying /\ Idle.pc # "fetched"
        /\ req[r].pc \notin {"written", "invalidate"}
    BY <1>1, <1>2 DEF Flying
  <1> QED
    BY <1>1, <1>3, <1>8, <1>9, QuietRow DEF source, caches, history

\* Expiry, and answers from the response cache.
LEMMA NoRequestInv ==
  ASSUME Inv, ExpireList \/ (\E u \in Users : ExpireResponse(u) \/ HitDedup(u))
  PROVE  Inv'
  <1> USE DEF source, caches, history, entries
  <1>1. req' = req /\ UNCHANGED <<source, flight, leading, waiting, stranded, slipped, active>> /\ l1' \in {l1, Nothing}
    BY DEF ExpireList, ExpireResponse, HitDedup
  <1>2. /\ dedup' \in [Users -> Body] /\ seen' \in [Users -> Body]
        /\ \A u \in Users : dedup'[u] \in {Nothing, seen[u]} /\ seen'[u] = seen[u]
    <2>1. /\ dedup \in [Users -> Body] /\ seen \in [Users -> Body] /\ Nothing \in Body
          /\ \A u \in Users : dedup[u] \in {Nothing, seen[u]}
      BY DEF Inv, TypeInv, EntriesOK, SeenInv, Body
    <2>2. CASE ExpireList
      BY <2>1, <2>2 DEF ExpireList
    <2>3. ASSUME NEW u \in Users, ExpireResponse(u) PROVE <1>2!:
      BY <2>1, <2>3 DEF ExpireResponse
    <2>4. ASSUME NEW u \in Users, HitDedup(u) PROVE <1>2!:
      BY <2>1, <2>4 DEF HitDedup
    <2> QED
      BY <2>2, <2>3, <2>4
  <1>3. TypeInv'
    <2>1. ReqsOK' /\ Owned' /\ WaitersWait'
      BY <1>1 DEF Inv, TypeInv, ReqsOK, Owned, WaitersWait
    <2>2. EntriesOK' /\ SiteOK' /\ active' \in Nat
      BY <1>1, <1>2 DEF Inv, TypeInv, EntriesOK, SiteOK, Body
    <2> QED
      BY <2>1, <2>2 DEF TypeInv
  <1>4. Pending' = Pending
    BY <1>1 DEF Pending
  <1>5. slipped' \/ Pending' \/ (db' = db /\ ~ slipped /\ ~ Pending)
    BY <1>1, <1>4, Zenon
  <1>6. db' >= db
    BY <1>1 DEF Inv, TypeInv, SiteOK, Versions
  <1> QED
    BY <1>1, <1>2, <1>3, <1>5, <1>6, Quiet

LEMMA FetchInv ==
  ASSUME Inv, NEW r \in Reqs, Fetch(r)
  PROVE  Inv'
  <1> USE DEF source, caches, history, entries
  <1>1. req[r].pc = "auth" /\ l1 = Nothing /\ flight = None /\ flight' = r
    BY DEF Fetch
  <1>2. UNCHANGED <<source, l1, entries, active, history>>
    BY DEF Fetch
  <1>3. PICK y : Only(r, y) /\ y.pc = "fetch" /\ Stays(r, y)
    BY MoveRow, Pcs DEF Fetch, Inv, Reading
  <1>4. req'[r] = y /\ ReqsOK' /\ \A x \in Reqs \ {r} : req'[x] = req[x]
    BY <1>3 DEF Inv, TypeInv, ReqsOK, Only
  <1>5. y.user \in Users /\ req[r].pc # "waiting"
    BY <1>1, <1>3, Pcs DEF Inv, TypeInv, Owned, Stays
  <1>6. ReqsOK' /\ Owned' /\ WaitersWait'
    BY <1>1, <1>2, <1>3, <1>5, OnlyType DEF Inv
  <1>7. TypeInv'
    BY <1>1, <1>2, <1>6 DEF Inv, TypeInv, SiteOK, EntriesOK
  <1>8. FlightInv'
    BY <1>1, <1>2, <1>3, <1>4, ReqsAssumption DEF Inv, FlightInv, Flying
  <1>9. SeenInv'
    BY <1>2, <1>3, <1>4 DEF Inv, SeenInv
  <1>10. SlipInv'
    <2>1. l1' = Nothing
      BY <1>1, <1>2
    <2>2. Pending => Pending'
      BY <1>1, <1>4 DEF Pending
    <2>3. ASSUME NEW x \in Reqs, req'[x].pc = "fetched" PROVE Known(req[x].got)'
      <3>1. x # r /\ req'[x] = req[x]
        BY <1>3, <1>4, <2>3
      <3>2. Known(req[x].got)
        BY <2>3, <3>1 DEF Inv, SlipInv
      <3> QED
        BY <1>2, <2>2, <3>1, <3>2, Zenon DEF Known
    <2> QED
      BY <2>1, <2>3 DEF SlipInv
  <1> QED
    BY <1>7, <1>8, <1>9, <1>10 DEF Inv

LEMMA QueryRunsInv ==
  ASSUME Inv, NEW r \in Reqs, QueryRuns(r)
  PROVE  Inv'
  <1> USE DEF source, caches, history, entries
  <1> DEFINE y == [req[r] EXCEPT !.pc = "fetched", !.got = db]
  <1>1. req[r].pc = "fetch" /\ req' = [req EXCEPT ![r] = y] /\ UNCHANGED <<source, caches, entries, active, history>>
    BY Zenon DEF QueryRuns
  <1>2. db \in Nat /\ db # Nothing
    BY DEF Inv, TypeInv, SiteOK, Versions, Nothing
  <1>3. y \in ReqRecord /\ y.pc = "fetched" /\ y.got = db /\ y.user = req[r].user
    BY DEF Inv, TypeInv, SiteOK, ReqsOK, ReqRecord, Reading
  <1> HIDE DEF y
  <1>4. Only(r, y)
    BY <1>1, <1>3 DEF Only
  <1>5. req'[r] = y /\ ReqsOK' /\ \A x \in Reqs \ {r} : req'[x] = req[x]
    BY <1>1, <1>3 DEF Inv, TypeInv, ReqsOK
  <1>6. y.user \in Users /\ req[r].pc # "waiting"
    BY <1>1, <1>3, Pcs DEF Inv, TypeInv, Owned, Flying
  <1>7. ReqsOK' /\ Owned' /\ WaitersWait'
    BY <1>1, <1>3, <1>4, <1>6, OnlyType DEF Inv
  <1>8. TypeInv'
    BY <1>1, <1>7 DEF Inv, TypeInv, SiteOK, EntriesOK
  <1>9. FlightInv'
    BY <1>1, <1>3, <1>5 DEF Inv, FlightInv, Flying
  <1>10. SeenInv'
    BY <1>1, <1>2, <1>3, <1>5 DEF Inv, SeenInv
  <1>11. SlipInv'
    <2>1. Pending => Pending'
      BY <1>1, <1>5 DEF Pending
    <2>2. \A v : Known(v) => Known(v)'
      BY <1>1, <2>1 DEF Known
    <2>3. Known(db)'
      BY <1>1 DEF Known
    <2> QED
      BY <1>1, <1>3, <1>5, <2>2, <2>3 DEF Inv, SlipInv
  <1> QED
    BY <1>8, <1>9, <1>10, <1>11 DEF Inv

LEMMA InvalidateInv ==
  ASSUME Inv, NEW r \in Reqs, Invalidate(r)
  PROVE  Inv'
  <1> USE DEF source, caches, history, entries
  <1>1. /\ req[r].pc = "invalidate" /\ l1' = Nothing /\ slipped' = (slipped \/ flight # None)
        /\ UNCHANGED <<source, flight, entries, active, seen, stranded>>
    BY DEF Invalidate
  <1>2. PICK y : Only(r, y) /\ Ends(r, y)
    BY EndRow DEF Invalidate, Inv
  <1>3. req'[r] = y /\ ReqsOK' /\ \A x \in Reqs \ {r} : req'[x] = req[x]
    BY <1>2 DEF Inv, TypeInv, ReqsOK, Only
  <1>4. y.pc \in {"idle", "done"} /\ y.pc \notin Reading /\ req[r].pc # "waiting"
    BY <1>1, <1>2, Pcs DEF Ends
  <1>5. ReqsOK' /\ Owned' /\ WaitersWait'
    BY <1>1, <1>2, <1>4, OnlyType DEF Inv
  <1>6. TypeInv'
    BY <1>1, <1>5, Zenon DEF Inv, TypeInv, SiteOK, EntriesOK, Body
  <1>7. FlightInv'
    BY <1>1, <1>3, <1>4 DEF Inv, FlightInv, Flying
  <1>8. SeenInv'
    BY <1>1, <1>3, <1>4 DEF Inv, SeenInv
  <1>9. SlipInv'
    <2>1. ASSUME NEW x \in Reqs, req'[x].pc = "fetched" PROVE slipped'
      <3>1. req[x].pc = "fetched"
        BY <1>3, <1>4, <2>1
      <3>2. flight # None
        BY <3>1, ReqsAssumption DEF Inv, FlightInv, Flying
      <3> QED
        BY <1>1, <3>2
    <2> QED
      BY <1>1, <2>1, Zenon DEF SlipInv, Known
  <1> QED
    BY <1>6, <1>7, <1>8, <1>9 DEF Inv

LEMMA AuthFailsInv ==
  ASSUME Inv, NEW r \in Reqs, AuthFails(r)
  PROVE  Inv'
  <1> DEFINE R == {x \in {r} : ~ req[x].sent}
  <1>1. req[r].pc = "auth" /\ Answer(R, Nothing, {}, {r}) /\ UNCHANGED <<source, caches, active, slipped>>
    BY DEF AuthFails, Fails
  <1>2. R \in SUBSET Reqs /\ {r} \in SUBSET Reqs /\ \A x \in R \cup {r} : x = r
    OBVIOUS
  <1> HIDE DEF R
  <1> QED
    BY <1>1, <1>2, Pcs, QuietAnswer

\* A leading request that finds the list in the cache.
LEMMA HitCacheInv ==
  ASSUME Inv, NEW r \in Reqs, HitCache(r)
  PROVE  Inv'
  <1> DEFINE lost == {req[x].user : x \in {y \in {r} : req[y].sent}}
  <1>1. /\ req[r].pc = "auth" /\ l1 # Nothing /\ Answer({r}, l1, lost, {r})
        /\ UNCHANGED <<source, caches, active, slipped>>
    BY DEF HitCache, Respond
  <1> HIDE DEF lost
  <1>2. ReqsOK' /\ EntriesOK' /\ Owned' /\ WaitersWait' /\ Answered({r}) /\ Shown(l1)
    BY <1>1, AnswerStep, Pcs DEF Inv, TypeInv, SiteOK
  <1>3. TypeInv'
    BY <1>1, <1>2 DEF Inv, TypeInv, SiteOK, source, caches
  <1>4. flight = None
    BY <1>1 DEF Inv, FlightInv
  <1>5. \A x \in Reqs : req[x].pc \notin Flying
    BY <1>4, ReqsAssumption DEF Inv, FlightInv
  <1>6. ASSUME NEW x \in Reqs
        PROVE /\ req'[x].pc \notin Flying
              /\ req[x].pc \in {"written", "invalidate"} => req'[x].pc = req[x].pc
    <2>1. req[x].pc \in Reading \cup Writing \cup {"idle", "waiting", "done"}
      BY DEF Inv, TypeInv, ReqsOK, ReqRecord
    <2>2. {"idle", "done", "waiting"} \cap Flying = {} /\ {"idle", "done"} \cap {"written", "invalidate"} = {}
      BY DEF Flying
    <2> QED
      BY <1>1, <1>2, <1>5, <2>1, <2>2 DEF Answered, Steady
  <1>7. FlightInv'
    BY <1>1, <1>4, <1>6, ReqsAssumption DEF FlightInv, caches
  <1>8. SeenInv'
    <2>1. l1' = l1 /\ db' = db
      BY <1>1 DEF caches, source
    <2>2. \A x \in Reqs : req'[x].pc # "fetched"
      BY <1>6 DEF Flying
    <2>3. l1 \in Nat /\ db \in Nat /\ l1 <= db /\ \A u \in Users : seen[u] <= l1 /\ seen[u] \in Nat
      BY <1>1, BodyIsNat DEF Inv, SeenInv, TypeInv, SiteOK, EntriesOK, Versions
    <2>4. ASSUME NEW u \in Users
          PROVE dedup'[u] \in {Nothing, seen'[u]} /\ seen'[u] <= db /\ seen'[u] <= l1
      BY <1>2, <2>3 DEF Shown, Inv, SeenInv
    <2> QED
      BY <2>1, <2>2, <2>3, <2>4 DEF SeenInv
  <1>9. SlipInv'
    <2>1. Pending => Pending'
      BY <1>6 DEF Pending
    <2>2. l1' = l1 /\ db' = db /\ slipped' = slipped
      BY <1>1 DEF caches, source
    <2>3. \A x \in Reqs : req'[x].pc # "fetched"
      BY <1>6 DEF Flying
    <2>4. Known(l1) => Known(l1)'
      BY <2>1, <2>2, Zenon DEF Known
    <2> QED
      BY <2>2, <2>3, <2>4 DEF Inv, SlipInv
  <1> QED
    BY <1>3, <1>7, <1>8, <1>9 DEF Inv

\* The end of the fetch, with a version or with an error.
LEMMA FlightEnds ==
  ASSUME Inv, NEW r \in Reqs, flight = r, NEW R \in SUBSET Aboard(r), NEW body \in Body, NEW lost,
         Answer(R, body, lost, Aboard(r)),
         flight' = None, UNCHANGED <<source, active, slipped>>, l1' \in {l1, body},
         body # Nothing => req[r].pc = "fetched" /\ req[r].got = body /\ l1' = body
  PROVE  Inv'
  <1>1. r \in Aboard(r) /\ Aboard(r) \in SUBSET Reqs /\ req[r].pc \in Flying /\ l1 = Nothing
    BY ReqsAssumption DEF Aboard, Inv, FlightInv
  <1>2. \A x \in Aboard(r) : req[x].pc \in Reading
    BY <1>1, Pcs DEF Aboard
  <1>3. ReqsOK' /\ EntriesOK' /\ Owned' /\ WaitersWait' /\ Answered(Aboard(r)) /\ Shown(body)
    BY <1>1, <1>2, AnswerStep DEF Inv
  <1>4. TypeInv'
    BY <1>3 DEF Inv, TypeInv, SiteOK, source
  <1>5. ASSUME NEW x \in Reqs
        PROVE /\ req'[x].pc \notin Flying
              /\ req[x].pc \in {"written", "invalidate"} => req'[x].pc = req[x].pc
    <2>1. req[x].pc \in Reading \cup Writing \cup {"idle", "waiting", "done"}
      BY DEF Inv, TypeInv, ReqsOK, ReqRecord
    <2>2. {"idle", "done", "waiting"} \cap Flying = {} /\ {"idle", "done"} \cap {"written", "invalidate"} = {}
      BY DEF Flying
    <2>3. x # r => req[x].pc \notin Flying
      BY DEF Inv, FlightInv
    <2>4. x \in Aboard(r) => req[x].pc \notin {"written", "invalidate"}
      BY <1>2 DEF Reading
    <2> QED
      BY <1>1, <1>3, <2>1, <2>2, <2>3, <2>4 DEF Answered, Steady
  <1>6. FlightInv'
    BY <1>5, ReqsAssumption DEF FlightInv
  <1>7. \A x \in Reqs : req'[x].pc # "fetched"
    BY <1>5 DEF Flying
  <1>8. SeenInv'
    <2>1. db' = db /\ l1' = body
      BY <1>1 DEF source
    <2>2. /\ db \in Nat /\ body \in Nat /\ \A u \in Users : seen[u] \in Nat /\ seen[u] <= db
      BY BodyIsNat DEF Inv, SeenInv, TypeInv, SiteOK, EntriesOK, Versions
    <2>3. body # Nothing => body <= db /\ \A u \in Users : seen[u] <= body
      BY DEF Inv, SeenInv
    <2>4. ASSUME NEW u \in Users
          PROVE /\ dedup'[u] \in {Nothing, seen'[u]} /\ seen'[u] <= db
                /\ body # Nothing => seen'[u] <= body
      BY <1>3, <2>2, <2>3 DEF Shown, Inv, SeenInv
    <2> QED
      BY <1>7, <2>1, <2>3, <2>4 DEF SeenInv
  <1>9. SlipInv'
    <2>1. Pending => Pending'
      BY <1>5 DEF Pending
    <2>2. l1' = body /\ db' = db /\ slipped' = slipped
      BY <1>1 DEF source
    <2>3. body # Nothing => Known(body)
      BY DEF Inv, SlipInv
    <2>4. ASSUME body # Nothing PROVE Known(l1)'
      <3>1. body = db \/ slipped \/ Pending
        BY <2>3, <2>4 DEF Known
      <3>2. body = db => l1' = db'
        BY <2>2
      <3>3. slipped => slipped'
        BY <2>2
      <3> QED
        BY <2>1, <3>1, <3>2, <3>3, Zenon DEF Known
    <2> QED
      BY <1>7, <2>2, <2>4 DEF SlipInv
  <1> QED
    BY <1>4, <1>6, <1>8, <1>9 DEF Inv

LEMMA LandInv ==
  ASSUME Inv, NEW r \in Reqs, QueryLands(r) \/ QueryFails(r)
  PROVE  Inv'
  <1>1. flight = r
    BY DEF QueryLands, QueryFails, Inv, FlightInv, Flying
  <1>2. CASE QueryLands(r)
    <2>1. PICK lost \in SUBSET Late(Aboard(r)) : Answer(Aboard(r), req[r].got, lost, Aboard(r))
      BY <1>2 DEF QueryLands
    <2>2. req[r].got \in Body
      BY DEF Inv, TypeInv, ReqsOK, ReqRecord, Body
    <2>3. /\ flight' = None /\ UNCHANGED <<source, active, slipped>> /\ l1' = req[r].got
          /\ req[r].pc = "fetched"
      BY <1>2 DEF QueryLands
    <2> QED
      BY <1>1, <2>1, <2>2, <2>3, FlightEnds
  <1>3. CASE QueryFails(r)
    <2> DEFINE R == {x \in Aboard(r) : ~ req[x].sent}
    <2>1. /\ Answer(R, Nothing, {}, Aboard(r)) /\ flight' = None
          /\ UNCHANGED <<source, active, slipped>> /\ l1' = l1
      BY <1>3 DEF QueryFails, Fails, source
    <2>2. R \in SUBSET Aboard(r) /\ Nothing \in Body
      BY DEF Body
    <2> HIDE DEF R
    <2> QED
      BY <1>1, <2>1, <2>2, FlightEnds
  <1> QED
    BY <1>2, <1>3

LEMMA InitInv == Init => Inv
  <1> SUFFICES ASSUME Init PROVE Inv
    OBVIOUS
  <1> USE DEF Init
  <1>1. Nothing \in Body /\ 1 \in Versions /\ Nothing # 1 /\ Nothing \in Nat
    BY DEF Body, Versions, Nothing
  <1>2. \A r \in Reqs : req[r] = Idle /\ req[r].pc = "idle"
    BY DEF Idle
  <1>3. SiteOK /\ EntriesOK /\ active \in Nat
    BY <1>1 DEF SiteOK, EntriesOK, Nothing
  <1>4. ReqsOK /\ Owned /\ WaitersWait
    BY <1>2, IdleType, Pcs DEF ReqsOK, Owned, WaitersWait
  <1>5. FlightInv
    BY <1>2, ReqsAssumption DEF FlightInv, Flying
  <1>6. SeenInv
    BY <1>1, <1>2 DEF SeenInv, Nothing
  <1>7. SlipInv
    BY <1>1, <1>2 DEF SlipInv
  <1> QED
    BY <1>3, <1>4, <1>5, <1>6, <1>7 DEF Inv, TypeInv

LEMMA NextInv == Inv /\ [Next]_vars => Inv'
  <1> SUFFICES ASSUME Inv, [Next]_vars PROVE Inv'
    OBVIOUS
  <1>1. CASE UNCHANGED vars
    <2> USE DEF vars, source, caches, entries, history
    <2>1. ReqsOK' /\ Owned' /\ WaitersWait' /\ EntriesOK' /\ SiteOK' /\ active' \in Nat
      BY <1>1 DEF Inv, TypeInv, ReqsOK, Owned, WaitersWait, EntriesOK, SiteOK
    <2>2. FlightInv' /\ SeenInv'
      BY <1>1 DEF Inv, FlightInv, SeenInv
    <2>3. SlipInv'
      BY <1>1, Zenon DEF Inv, SlipInv, Known, Pending
    <2> QED
      BY <2>1, <2>2, <2>3 DEF Inv, TypeInv
  <1>2. ASSUME NEW r \in Reqs, Arrive(r) \/ Read(r) \/ Update(r) \/ Failure(r) \/ Response(r)
        PROVE  Inv'
    <2>1. CASE Arrive(r)
      BY <2>1, ArriveInv
    <2>2. CASE Read(r)
      BY <2>2, HitCacheInv, PlainInv, FetchInv, QueryRunsInv, LandInv DEF Read
    <2>3. CASE Update(r)
      BY <2>3, PlainInv, InvalidateInv DEF Update
    <2>4. CASE Failure(r)
      BY <2>4, LandInv, AuthFailsInv, PlainInv DEF Failure
    <2>5. CASE Response(r)
      BY <2>5, TimesOutInv, ConnectionInv, GiveUpInv DEF Response
    <2> QED
      BY <1>2, <2>1, <2>2, <2>3, <2>4, <2>5
  <1>3. CASE Expire \/ \E u \in Users : HitDedup(u)
    BY <1>3, NoRequestInv DEF Expire
  <1> QED
    BY <1>1, <1>2, <1>3 DEF Next

\* The inductive invariant of the read path: one fetch at a time, for an empty cache,
\* whose result is as new as what any user has seen.
THEOREM ReadInvariant == Spec => []Inv
  <1> QED
    BY InitInv, NextInv, PTL DEF Spec

\* Every variable keeps its type, the waiters of an entry included.
THEOREM TypeCorrect == Spec => []TypeOK
  <1>1. Inv => TypeOK
    BY TypeSplits DEF Inv
  <1> QED
    BY <1>1, ReadInvariant, PTL

\* The list cache is outdated only while an update is under way or after one slipped.
THEOREM StalenessIsExplained == Spec => []StaleOnlyWhenSlipped
  <1>1. Inv => StaleOnlyWhenSlipped
    <2> SUFFICES ASSUME Inv PROVE StaleOnlyWhenSlipped
      OBVIOUS
    <2>1. l1 # Nothing => l1 = db \/ slipped \/ Pending
      BY DEF Inv, SlipInv, Known
    <2> QED
      BY <2>1, Zenon DEF StaleOnlyWhenSlipped, Pending
  <1> QED
    BY <1>1, ReadInvariant, PTL

-----------------------------------------------------------------------------
(* No user goes back in time.                                              *)

\* An answer shows the cached version or the one that has been fetched.
LEMMA SeenGrows ==
  ASSUME Inv, Next
  PROVE  \A u \in Users : seen'[u] >= seen[u]
  <1> USE DEF history
  <1>1. \A u \in Users : seen[u] \in Nat
    BY BodyIsNat DEF Inv, TypeInv, EntriesOK
  <1>2. CASE seen' = seen
    BY <1>1, <1>2
  <1>3. ASSUME NEW body \in Nat, Shown(body), body # Nothing => \A u \in Users : seen[u] <= body
        PROVE  \A u \in Users : seen'[u] >= seen[u]
    BY <1>1, <1>3 DEF Shown
  <1>4. ASSUME NEW R \in SUBSET Reqs, NEW lost, NEW ended \in SUBSET Reqs,
               \A x \in R \cup ended : req[x].pc \in Reading,
               Answer(R, Nothing, lost, ended)
        PROVE  \A u \in Users : seen'[u] >= seen[u]
    <2>1. Nothing \in Body /\ Nothing \in Nat
      BY DEF Body, Nothing
    <2>2. Shown(Nothing)
      BY <1>4, <2>1, AnswerStep DEF Inv
    <2> QED
      BY <1>3, <2>1, <2>2
  <1>5. ASSUME NEW u \in Users, HitDedup(u) PROVE seen' = seen
    <2>1. dedup[u] = seen[u] /\ seen \in [Users -> Body]
      BY <1>5 DEF HitDedup, Inv, SeenInv, TypeInv, EntriesOK
    <2> QED
      BY <1>5, <2>1 DEF HitDedup
  <1>6. ASSUME NEW r \in Reqs, HitCache(r) PROVE \A u \in Users : seen'[u] >= seen[u]
    <2> DEFINE lost == {req[x].user : x \in {y \in {r} : req[y].sent}}
    <2>1. req[r].pc = "auth" /\ l1 # Nothing /\ Answer({r}, l1, lost, {r})
      BY <1>6 DEF HitCache, Respond
    <2> HIDE DEF lost
    <2>2. l1 \in Body
      BY DEF Inv, TypeInv, SiteOK
    <2>3. Shown(l1)
      BY <2>1, <2>2, AnswerStep, Pcs DEF Inv
    <2>4. \A u \in Users : seen[u] <= l1
      BY <2>1 DEF Inv, SeenInv
    <2> QED
      BY <1>3, <2>2, <2>3, <2>4, BodyIsNat
  <1>7. ASSUME NEW r \in Reqs PROVE Aboard(r) \in SUBSET Reqs /\ \A x \in Aboard(r) \ {r} : req[x].pc = "joined"
    BY DEF Aboard
  <1>8. ASSUME NEW r \in Reqs, QueryLands(r) PROVE \A u \in Users : seen'[u] >= seen[u]
    <2>1. PICK lost \in SUBSET Late(Aboard(r)) : Answer(Aboard(r), req[r].got, lost, Aboard(r))
      BY <1>8 DEF QueryLands
    <2>2. req[r].got \in Body /\ req[r].pc = "fetched"
      BY <1>8 DEF QueryLands, Inv, TypeInv, ReqsOK, ReqRecord, Body
    <2>3. \A x \in Aboard(r) : req[x].pc \in Reading
      BY <1>7, <2>2, Pcs DEF Flying
    <2>4. Shown(req[r].got)
      BY <1>7, <2>1, <2>2, <2>3, AnswerStep DEF Inv
    <2>5. \A u \in Users : seen[u] <= req[r].got
      BY <2>2 DEF Inv, SeenInv
    <2> QED
      BY <1>3, <2>2, <2>4, <2>5, BodyIsNat
  <1>9. ASSUME NEW r \in Reqs, QueryFails(r) \/ AuthFails(r) PROVE \A u \in Users : seen'[u] >= seen[u]
    <2> DEFINE all  == IF QueryFails(r) THEN Aboard(r) ELSE {r}
               R    == {x \in all : ~ req[x].sent}
    <2>1. Answer(R, Nothing, {}, all)
      BY <1>9 DEF QueryFails, AuthFails, Fails
    <2>2. all \in SUBSET Reqs /\ \A x \in all : req[x].pc \in Reading
      BY <1>7, <1>9, Pcs DEF QueryFails, AuthFails, Flying
    <2>3. R \subseteq all
      OBVIOUS
    <2> HIDE DEF all, R
    <2> QED
      BY <1>4, <2>1, <2>2, <2>3
  <1>10. ASSUME NEW r \in Reqs, TimesOut(r) PROVE \A u \in Users : seen'[u] >= seen[u]
    <2>1. CASE req[r].pc \in Reading
      BY <1>4, <1>10, <2>1 DEF TimesOut
    <2>2. CASE req[r].pc \notin Reading
      BY <1>2, <1>10, <2>2 DEF TimesOut
    <2> QED
      BY <2>1, <2>2
  <1>11. ASSUME NEW r \in Reqs,
                \/ Arrive(r) \/ JoinFlight(r) \/ Fetch(r) \/ QueryRuns(r) \/ Download(r)
                \/ Update(r) \/ UpdateFails(r) \/ Finish(r) \/ Close(r) \/ GiveUp(r)
         PROVE  seen' = seen
    BY <1>11 DEF Arrive, ArriveUpdate, Coalesce, Lead, JoinFlight, Fetch, QueryRuns, Download, Update,
                 Commit, AnswerUpdate, Invalidate, UpdateFails, Finish, Close, GiveUp
  <1>12. CASE Expire
    BY <1>2, <1>12 DEF Expire, ExpireList, ExpireResponse
  <1> QED
    BY <1>2, <1>5, <1>6, <1>8, <1>9, <1>10, <1>11, <1>12 DEF Next, Read, Failure, Response

\* No user ever gets an answer older than the one before.
THEOREM ReadsAreMonotonic == Spec => MonotonicReads
  <1>1. Inv /\ [Next]_vars => [\A u \in Users : seen'[u] >= seen[u]]_seen
    BY SeenGrows DEF vars, history
  <1> QED
    BY <1>1, ReadInvariant, PTL DEF Spec, MonotonicReads

-----------------------------------------------------------------------------
(* Coalesced requests.                                                     *)

\* Every entry belongs to a user of whom a request is yet to answer, and every waiting
\* request stands in its entry or was dropped by a late answer.
ServedInv ==
    /\ route = "list" => \A u \in leading : Unanswered(u)
    /\ \A r \in Reqs : req[r].pc = "waiting" =>
           r \in waiting[req[r].user] \/ req[r].user \in stranded

\* A step of one request that does not wait and that, when it is the one others wait
\* for, goes on without an answer.
LEMMA ServedRow ==
  ASSUME Inv, ServedInv, NEW r \in Reqs, NEW y, Only(r, y), req[r].pc # "waiting", y.pc # "waiting",
         route = "list" /\ req[r].pc \in Reading /\ ~ req[r].sent =>
             y.pc \in Reading /\ y.user = req[r].user /\ ~ y.sent,
         UNCHANGED <<route, leading, waiting, stranded>>
  PROVE  ServedInv'
  <1>1. req'[r] = y /\ \A x \in Reqs \ {r} : req'[x] = req[x]
    BY DEF Inv, TypeInv, ReqsOK, Only
  <1>2. ASSUME route = "list", NEW u \in leading PROVE Unanswered(u)'
    <2>1. PICK x \in Reqs : req[x].pc \in Reading /\ req[x].user = u /\ ~ req[x].sent
      BY <1>2 DEF ServedInv, Unanswered
    <2>2. req'[x].pc \in Reading /\ req'[x].user = u /\ ~ req'[x].sent
      BY <1>1, <1>2, <2>1
    <2> QED
      BY <2>2 DEF Unanswered
  <1>3. \A x \in Reqs : req'[x].pc = "waiting" =>
            x \in waiting'[req'[x].user] \/ req'[x].user \in stranded'
    BY <1>1 DEF ServedInv
  <1> QED
    BY <1>2, <1>3 DEF ServedInv

\* res.json takes the entries of those who call it: what it drops is stranded, and an
\* entry that is left has another request to answer it.
LEMMA ServedAnswer ==
  ASSUME Inv, ServedInv, NEW R \in SUBSET Reqs, NEW body \in Body, NEW lost,
         NEW ended \in SUBSET Reqs,
         \A x \in R \cup ended : req[x].pc \in Reading,
         \A x \in ended \ R : req[x].sent,
         Answer(R, body, lost, ended), route' = route
  PROVE  ServedInv'
  <1> DEFINE owners    == {req[r].user : r \in R}
             coalesced == UNION {waiting[u] : u \in owners \ lost}
             row(x)    == [req[x] EXCEPT !.sent = @ \/ x \in R,
                                         !.pc = IF x \in ended THEN "done" ELSE @]
  <1>1. /\ req' = [x \in Reqs |-> IF x \in coalesced THEN Idle ELSE Settled(row(x))]
        /\ leading' = leading \ owners
        /\ waiting' = [u \in Users |-> IF u \in owners THEN {} ELSE waiting[u]]
        /\ stranded' = stranded \cup {u \in owners \cap lost : waiting[u] # {}}
    BY Zenon DEF Answer
  <1>2. Answered(ended)
    BY AnswerStep DEF Inv
  <1>3. Idle.pc = "idle"
    BY DEF Idle
  <1>4. \A x \in Reqs : req[x].pc \in Reading \cup {"waiting"} => req[x].user \in Users
    BY DEF Inv, TypeInv, Owned
  <1>5. ASSUME NEW x \in Reqs, x \notin R, x \notin ended, req[x].pc \in Reading, ~ req[x].sent
        PROVE  req'[x].pc \in Reading /\ req'[x].user = req[x].user /\ ~ req'[x].sent
    <2>1. row(x) \in ReqRecord /\ row(x).pc = req[x].pc /\ ~ row(x).sent /\ row(x).user = req[x].user
      BY <1>5 DEF Inv, TypeInv, ReqsOK, ReqRecord
    <2>2. x \notin coalesced
      <3>1. owners \subseteq Users
        BY <1>4
      <3> QED
        BY <1>5, <3>1, Pcs DEF Inv, TypeInv, WaitersWait
    <2> HIDE DEF row, coalesced
    <2>3. row(x).pc # "done"
      BY <1>5, <2>1, Pcs
    <2>4. req'[x] = row(x)
      BY <1>1, <2>1, <2>2, <2>3, SettledRow
    <2> QED
      BY <1>5, <2>1, <2>4
  <1>6. ASSUME route = "list", NEW u \in leading' PROVE Unanswered(u)'
    <2>1. PICK x \in Reqs : req[x].pc \in Reading /\ req[x].user = u /\ ~ req[x].sent
      BY <1>1, <1>6 DEF ServedInv, Unanswered
    <2>2. x \notin R /\ x \notin ended
      BY <1>1, <1>6, <2>1
    <2> QED
      BY <1>5, <2>1, <2>2 DEF Unanswered
  <1>7. ASSUME NEW x \in Reqs, req'[x].pc = "waiting"
        PROVE  x \in waiting'[req'[x].user] \/ req'[x].user \in stranded'
    <2>1. req[x].pc \in Reading \cup Writing \cup {"idle", "waiting", "done"}
      BY DEF Inv, TypeInv, ReqsOK, ReqRecord
    <2>2. req[x].pc = "waiting" /\ req'[x].user = req[x].user
      BY <1>2, <1>7, <2>1, Pcs DEF Answered, Steady
    <2>3. CASE req[x].user \in stranded
      BY <1>1, <2>2, <2>3
    <2>4. CASE x \in waiting[req[x].user] /\ req[x].user \notin owners
      BY <1>1, <1>4, <2>2, <2>4
    <2>5. CASE x \in waiting[req[x].user] /\ req[x].user \in owners
      <3>1. x \notin coalesced
        <4> HIDE DEF coalesced
        <4> QED
          BY <1>1, <1>3, <1>7
      <3>2. req[x].user \in lost
        BY <2>5, <3>1
      <3> QED
        BY <1>1, <2>2, <2>5, <3>2
    <2> QED
      BY <2>2, <2>3, <2>4, <2>5 DEF ServedInv
  <1> QED
    BY <1>6, <1>7 DEF ServedInv

LEMMA NextServed == Inv /\ ServedInv /\ [Next]_vars => ServedInv'
  <1> SUFFICES ASSUME Inv, ServedInv, [Next]_vars PROVE ServedInv'
    OBVIOUS
  <1> USE DEF source, entries, history
  <1>0. \A r \in Reqs : req[r] \in ReqRecord
    BY DEF Inv, TypeInv, ReqsOK
  <1>1. ASSUME NEW r \in Reqs, Arrive(r) PROVE ServedInv'
    <2>0. req[r].pc = "idle" /\ route' = route /\ stranded' = stranded
      BY <1>1 DEF Arrive, ArriveUpdate, Coalesce, Lead
    <2>1. CASE ArriveUpdate(r)
      <3>1. PICK y : Only(r, y) /\ y.pc = "update"
        BY <2>1, EnterRow DEF ArriveUpdate
      <3> QED
        BY <2>0, <2>1, <3>1, ServedRow, Pcs DEF ArriveUpdate
    <2>2. ASSUME NEW u \in Users, Lead(r, u) PROVE ServedInv'
      <3>1. PICK y : Only(r, y) /\ y.pc = "auth" /\ y.user = u /\ ~ y.sent
        BY <2>2, EnterRow DEF Lead
      <3>2. req'[r] = y /\ \A x \in Reqs \ {r} : req'[x] = req[x]
        BY <3>1 DEF Inv, TypeInv, ReqsOK, Only
      <3>3. leading' = leading \cup {u} /\ waiting' = waiting
        BY <2>2 DEF Lead
      <3>4. Unanswered(u)'
        BY <3>1, <3>2, Pcs DEF Unanswered
      <3>5. ASSUME route = "list", NEW v \in leading PROVE Unanswered(v)'
        <4>1. PICK x \in Reqs : req[x].pc \in Reading /\ req[x].user = v /\ ~ req[x].sent
          BY <3>5 DEF ServedInv, Unanswered
        <4>2. req'[x] = req[x]
          BY <2>0, <3>2, <4>1, Pcs
        <4> QED
          BY <4>1, <4>2 DEF Unanswered
      <3>6. \A x \in Reqs : req'[x].pc = "waiting" =>
                x \in waiting'[req'[x].user] \/ req'[x].user \in stranded'
        BY <2>0, <3>1, <3>2, <3>3 DEF ServedInv
      <3> QED
        BY <2>0, <3>3, <3>4, <3>5, <3>6 DEF ServedInv
    <2>3. ASSUME NEW u \in Users, Coalesce(r, u) PROVE ServedInv'
      <3>1. PICK y : Only(r, y) /\ y.pc = "waiting" /\ y.user = u
        BY <2>3, EnterRow DEF Coalesce
      <3>2. req'[r] = y /\ \A x \in Reqs \ {r} : req'[x] = req[x]
        BY <3>1 DEF Inv, TypeInv, ReqsOK, Only
      <3>3. leading' = leading /\ waiting' = [waiting EXCEPT ![u] = @ \cup {r}]
            /\ waiting \in [Users -> SUBSET Reqs]
        BY <2>3 DEF Coalesce, Inv, TypeInv, EntriesOK
      <3>4. ASSUME route = "list", NEW v \in leading PROVE Unanswered(v)'
        <4>1. PICK x \in Reqs : req[x].pc \in Reading /\ req[x].user = v /\ ~ req[x].sent
          BY <3>4 DEF ServedInv, Unanswered
        <4>2. req'[x] = req[x]
          BY <2>0, <3>2, <4>1, Pcs
        <4> QED
          BY <4>1, <4>2 DEF Unanswered
      <3>5. r \in waiting'[u] /\ \A v \in Users : waiting[v] \subseteq waiting'[v]
        BY <3>3
      <3>6. ASSUME NEW x \in Reqs, req'[x].pc = "waiting"
            PROVE  x \in waiting'[req'[x].user] \/ req'[x].user \in stranded'
        <4>1. CASE x = r
          BY <3>1, <3>2, <3>5, <4>1
        <4>2. CASE x # r
          <5>1. req'[x] = req[x] /\ req[x].user \in Users
            BY <3>2, <3>6, <4>2 DEF Inv, TypeInv, Owned
          <5> QED
            BY <2>0, <3>5, <3>6, <5>1 DEF ServedInv
        <4> QED
          BY <4>1, <4>2
      <3> QED
        BY <2>0, <3>3, <3>4, <3>6 DEF ServedInv
    <2> QED
      BY <1>1, <2>1, <2>2, <2>3 DEF Arrive
  <1>2. ASSUME NEW r \in Reqs, HitCache(r) PROVE ServedInv'
    <2> DEFINE lost == {req[x].user : x \in {y \in {r} : req[y].sent}}
    <2>1. req[r].pc = "auth" /\ Answer({r}, l1, lost, {r}) /\ l1 \in Body /\ route' = route
      BY <1>2 DEF HitCache, Respond, Inv, TypeInv, SiteOK
    <2> HIDE DEF lost
    <2> QED
      BY <2>1, Pcs, ServedAnswer
  <1>3. ASSUME NEW r \in Reqs PROVE Aboard(r) \in SUBSET Reqs /\ \A x \in Aboard(r) \ {r} : req[x].pc = "joined"
    BY DEF Aboard
  <1>4. ASSUME NEW r \in Reqs, QueryLands(r) PROVE ServedInv'
    <2>1. PICK lost \in SUBSET Late(Aboard(r)) : Answer(Aboard(r), req[r].got, lost, Aboard(r))
      BY <1>4 DEF QueryLands
    <2>2. req[r].got \in Body /\ req[r].pc = "fetched" /\ route' = route
      BY <1>4 DEF QueryLands, Inv, TypeInv, ReqsOK, ReqRecord, Body
    <2>3. \A x \in Aboard(r) : req[x].pc \in Reading
      BY <1>3, <2>2, Pcs DEF Flying
    <2> QED
      BY <1>3, <2>1, <2>2, <2>3, ServedAnswer
  <1>5. ASSUME NEW r \in Reqs, QueryFails(r) \/ AuthFails(r) PROVE ServedInv'
    <2> DEFINE all  == IF QueryFails(r) THEN Aboard(r) ELSE {r}
               R    == {x \in all : ~ req[x].sent}
    <2>1. Answer(R, Nothing, {}, all) /\ route' = route
      BY <1>5 DEF QueryFails, AuthFails, Fails
    <2>2. all \in SUBSET Reqs /\ \A x \in all : req[x].pc \in Reading
      BY <1>3, <1>5, Pcs DEF QueryFails, AuthFails, Flying
    <2>3. R \subseteq all /\ Nothing \in Body /\ \A x \in all \ R : req[x].sent
      BY DEF Body
    <2> HIDE DEF all, R
    <2> QED
      BY <2>1, <2>2, <2>3, ServedAnswer
  <1>6. ASSUME NEW r \in Reqs, TimesOut(r) PROVE ServedInv'
    <2>1. CASE req[r].pc \in Reading
      <3>1. Answer({r}, Nothing, {}, {}) /\ route' = route /\ Nothing \in Body
        BY <1>6, <2>1 DEF TimesOut, Body
      <3> QED
        BY <2>1, <3>1, ServedAnswer
    <2>2. CASE req[r].pc \notin Reading
      <3> DEFINE y == [req[r] EXCEPT !.sent = TRUE]
      <3>1. req' = [req EXCEPT ![r] = y] /\ UNCHANGED <<route, leading, waiting, stranded>>
        BY Zenon, <1>6, <2>2 DEF TimesOut
      <3>2. y \in ReqRecord /\ y.pc = req[r].pc
        BY DEF Inv, TypeInv, ReqsOK, ReqRecord
      <3>3. req[r].pc # "waiting"
        BY <1>6, Pcs DEF TimesOut
      <3> HIDE DEF y
      <3> QED
        BY <2>2, <3>1, <3>2, <3>3, ServedRow DEF Only
    <2> QED
      BY <2>1, <2>2
  <1>7. ASSUME NEW r \in Reqs, JoinFlight(r) \/ Fetch(r) \/ Commit(r) PROVE ServedInv'
    <2>1. PICK pc \in {"joined", "fetch", "written"} :
              Move(r, pc) /\ (req[r].pc \in Reading => pc \in {"joined", "fetch"})
      BY <1>7 DEF JoinFlight, Fetch, Commit, Reading
    <2>2. pc \in Reading \cup Writing /\ {"joined", "fetch"} \subseteq Reading
      BY DEF Reading, Writing
    <2>3. PICK y : Only(r, y) /\ y.pc = pc /\ Stays(r, y)
      BY <2>1, <2>2, MoveRow DEF Inv
    <2>4. UNCHANGED <<route, leading, waiting, stranded>> /\ req[r].pc # "waiting" /\ y.pc # "waiting"
      BY <1>7, <2>2, <2>3, Pcs DEF JoinFlight, Fetch, Commit
    <2> QED
      BY <2>1, <2>2, <2>3, <2>4, ServedRow DEF Stays
  <1>8. ASSUME NEW r \in Reqs,
               Download(r) \/ UpdateFails(r) \/ Invalidate(r) \/ (AnswerUpdate(r) /\ req[r].sent)
        PROVE  ServedInv'
    <2>1. PICK y : Only(r, y) /\ Ends(r, y)
      BY <1>8, EndRow DEF Download, UpdateFails, Invalidate, AnswerUpdate, Inv
    <2>2. /\ UNCHANGED <<route, leading, waiting, stranded>>
          /\ req[r].pc \in Writing \/ (req[r].pc = "auth" /\ route # "list")
      BY <1>8, Pcs DEF Download, UpdateFails, Invalidate, AnswerUpdate
    <2>3. req[r].pc # "waiting" /\ y.pc # "waiting" /\ (req[r].pc \in Reading => route # "list")
      BY <2>1, <2>2, Pcs DEF Ends
    <2> QED
      BY <2>1, <2>2, <2>3, ServedRow
  <1>9. ASSUME NEW r \in Reqs, QueryRuns(r) \/ (AnswerUpdate(r) /\ ~ req[r].sent) PROVE ServedInv'
    <2> DEFINE read == [req[r] EXCEPT !.pc = "fetched", !.got = db]
               told == [req[r] EXCEPT !.sent = TRUE, !.pc = "invalidate"]
    <2>1. /\ read \in ReqRecord /\ read.pc = "fetched" /\ read.user = req[r].user
          /\ read.sent = req[r].sent
          /\ told \in ReqRecord /\ told.pc = "invalidate"
      BY DEF Inv, TypeInv, SiteOK, ReqsOK, ReqRecord, Reading, Writing
    <2>2. /\ \/ req' = [req EXCEPT ![r] = read] /\ req[r].pc = "fetch"
             \/ req' = [req EXCEPT ![r] = told] /\ req[r].pc = "written"
          /\ UNCHANGED <<route, leading, waiting, stranded>>
      BY Zenon, <1>9 DEF QueryRuns, AnswerUpdate
    <2> HIDE DEF read, told
    <2>3. {"fetch", "fetched"} \subseteq Reading /\ "written" \notin Reading
      BY DEF Reading
    <2> QED
      BY <2>1, <2>2, <2>3, ServedRow DEF Only
  <1>10. ASSUME NEW r \in Reqs, Finish(r) \/ Close(r) PROVE ServedInv'
    <2>1. PICK y : /\ Only(r, y)
                   /\ req[r].pc = "done" => y.pc = "idle"
                   /\ req[r].pc # "done" => /\ y.pc = req[r].pc /\ y.user = req[r].user
                                            /\ y.sent = req[r].sent
      BY <1>10, CloseRow DEF Finish, Close, Inv
    <2>2. UNCHANGED <<route, leading, waiting, stranded>>
          /\ req[r].pc \in Reading \cup Writing \cup {"done"}
      BY <1>10 DEF Finish, Close, Admitted
    <2> QED
      BY <2>1, <2>2, ServedRow, Pcs
  <1>11. ASSUME NEW r \in Reqs, GiveUp(r) PROVE ServedInv'
    <2>1. /\ req[r].pc = "waiting" /\ req' = [req EXCEPT ![r] = Idle] /\ Idle.pc = "idle"
          /\ waiting' = [u \in Users |-> waiting[u] \ {r}]
          /\ UNCHANGED <<route, leading, stranded>>
      BY <1>11, Zenon DEF GiveUp, Idle
    <2>2. req'[r].pc = "idle" /\ \A x \in Reqs \ {r} : req'[x] = req[x]
      BY <2>1, IdleType DEF Inv, TypeInv, ReqsOK
    <2>3. ASSUME route = "list", NEW v \in leading PROVE Unanswered(v)'
      <3>1. PICK x \in Reqs : req[x].pc \in Reading /\ req[x].user = v /\ ~ req[x].sent
        BY <2>3 DEF ServedInv, Unanswered
      <3>2. req'[x] = req[x]
        BY <2>1, <2>2, <3>1, Pcs
      <3> QED
        BY <3>1, <3>2 DEF Unanswered
    <2>4. ASSUME NEW x \in Reqs, req'[x].pc = "waiting"
          PROVE  x \in waiting'[req'[x].user] \/ req'[x].user \in stranded'
      <3>1. x # r /\ req'[x] = req[x] /\ req[x].user \in Users
        BY <2>2, <2>4 DEF Inv, TypeInv, Owned
      <3> QED
        BY <2>1, <2>4, <3>1 DEF ServedInv
    <2> QED
      BY <2>1, <2>3, <2>4 DEF ServedInv
  <1>12. CASE UNCHANGED vars \/ Expire \/ \E u \in Users : HitDedup(u)
    <2>1. req' = req /\ UNCHANGED <<route, leading, waiting, stranded>>
      BY <1>12 DEF vars, Expire, ExpireList, ExpireResponse, HitDedup
    <2> QED
      BY <2>1 DEF ServedInv, Unanswered
  <1> QED
    BY <1>1, <1>2, <1>4, <1>5, <1>6, <1>7, <1>8, <1>9, <1>10, <1>11, <1>12
       DEF Next, Read, Update, Failure, Response

\* No coalesced request waits for nobody: its user's entry holds it, and a request that
\* is yet to answer will take that entry, or a late answer has dropped it.
THEOREM WaitersHaveServer == Spec => []WaitersAreServed
  <1>1. Init => ServedInv
    BY DEF Init, ServedInv, Idle
  <1>2. Inv /\ ServedInv => WaitersAreServed
    BY DEF Inv, TypeInv, WaitersWait, Owned, ServedInv, WaitersAreServed
  <1> QED
    BY <1>1, <1>2, NextServed, ReadInvariant, PTL DEF Spec

-----------------------------------------------------------------------------
(* The limiter.                                                            *)

OpenSet  == {r \in Reqs : Open(r)}
CountInv == active <= Cardinality(OpenSet)

LEMMA OpenIsFinite == IsFiniteSet(OpenSet) /\ Cardinality(OpenSet) \in Nat
  <1>1. OpenSet \subseteq Reqs
    BY DEF OpenSet
  <1> QED
    BY <1>1, ReqsAssumption, FS_Subset, FS_CardinalityType

\* A step that opens and closes no response, or counts one that it opens.
LEMMA OpenSame ==
  ASSUME CountInv, active' = active, \A x \in Reqs : Open(x)' <=> Open(x)
  PROVE  CountInv'
  <1>1. OpenSet' = OpenSet
    BY DEF OpenSet
  <1> QED
    BY <1>1 DEF CountInv

LEMMA OpenOneMore ==
  ASSUME CountInv, active \in Nat, NEW r \in Reqs, active' = active + 1, ~ Open(r), Open(r)',
         \A x \in Reqs \ {r} : Open(x)' <=> Open(x)
  PROVE  CountInv'
  <1>1. OpenSet' = OpenSet \cup {r} /\ r \notin OpenSet
    BY DEF OpenSet
  <1>2. Cardinality(OpenSet') = Cardinality(OpenSet) + 1
    BY <1>1, OpenIsFinite, FS_AddElement
  <1> QED
    BY <1>2, OpenIsFinite DEF CountInv

LEMMA OpenOneLess ==
  ASSUME CountInv, active \in Nat, NEW r \in Reqs, Open(r), ~ Open(r)',
         active' = Released(active) \/ active' = Released(Released(active)),
         \A x \in Reqs \ {r} : Open(x)' <=> Open(x)
  PROVE  CountInv'
  <1>1. OpenSet' = OpenSet \ {r} /\ r \in OpenSet
    BY DEF OpenSet
  <1>2. Cardinality(OpenSet') = Cardinality(OpenSet) - 1
    BY <1>1, OpenIsFinite, FS_RemoveElement
  <1>3. Cardinality(OpenSet) \in Nat /\ Cardinality(OpenSet) >= 1
    <2>1. Cardinality(OpenSet) # 0
      BY <1>1, OpenIsFinite, FS_EmptySet
    <2> QED
      BY <2>1, OpenIsFinite
  <1> QED
    BY <1>2, <1>3 DEF CountInv, Released

\* The steps of res.json leave every response as open as it was.
LEMMA AnswerOpen ==
  ASSUME Inv, NEW R \in SUBSET Reqs, NEW body \in Body, NEW lost, NEW ended \in SUBSET Reqs,
         \A x \in R \cup ended : req[x].pc \in Reading,
         Answer(R, body, lost, ended)
  PROVE  \A x \in Reqs : Open(x)' <=> Open(x)
  <1>1. Answered(ended)
    BY AnswerStep DEF Inv
  <1> TAKE x \in Reqs
  <1>2. req[x].pc \in Reading \cup Writing \cup {"idle", "waiting", "done"}
    BY DEF Inv, TypeInv, ReqsOK, ReqRecord
  <1>3. x \in ended => req[x].pc \in Reading
    OBVIOUS
  <1>4. CASE x \in ended \/ req[x].pc = "done"
    <2>1. /\ req'[x].pc \in {"idle", "done"}
          /\ req'[x].pc = "done" <=> req[x].conn = "open"
          /\ req'[x].conn = "open"
      BY <1>1, <1>4 DEF Answered
    <2> QED
      BY <1>3, <1>4, <2>1, Pcs DEF Open, Admitted
  <1>5. CASE x \notin ended /\ req[x].pc \in Reading \cup Writing \cup {"idle"}
    BY <1>1, <1>5 DEF Answered, Steady, Open, Admitted
  <1>6. CASE x \notin ended /\ req[x].pc = "waiting"
    BY <1>1, <1>6, Pcs DEF Answered, Steady, Open, Admitted
  <1> QED
    BY <1>2, <1>4, <1>5, <1>6

LEMMA RowOpen ==
  ASSUME Inv, NEW r \in Reqs, NEW y, Only(r, y)
  PROVE  /\ \A x \in Reqs \ {r} : Open(x)' <=> Open(x)
         /\ Open(r)' <=> y.pc \in Reading \cup Writing \cup {"done"} /\ y.conn = "open"
  BY DEF Inv, TypeInv, ReqsOK, Only, Open, Admitted

LEMMA NextCount == Inv /\ CountInv /\ [Next]_vars => CountInv'
  <1> SUFFICES ASSUME Inv, CountInv, [Next]_vars PROVE CountInv'
    OBVIOUS
  <1>0. active \in Nat /\ \A r \in Reqs : req[r].pc = "idle" => ~ Open(r)
    BY Pcs DEF Inv, TypeInv, Open, Admitted
  <1>1. CASE req' = req /\ active' = active
    BY <1>1, OpenSame DEF Open, Admitted
  <1>2. ASSUME NEW r \in Reqs, Arrive(r) PROVE CountInv'
    <2>1. CASE ArriveUpdate(r)
      <3>1. PICK y : Only(r, y) /\ y.pc = "update" /\ y.conn = "open"
        BY <2>1, EnterRow DEF ArriveUpdate
      <3> QED
        BY <1>0, <2>1, <3>1, RowOpen, OpenOneMore, Pcs DEF ArriveUpdate
    <2>2. ASSUME NEW u \in Users, Lead(r, u) PROVE CountInv'
      <3>1. PICK y : Only(r, y) /\ y.pc = "auth" /\ y.conn = "open"
        BY <2>2, EnterRow DEF Lead
      <3> QED
        BY <1>0, <2>2, <3>1, RowOpen, OpenOneMore, Pcs DEF Lead
    <2>3. ASSUME NEW u \in Users, Coalesce(r, u) PROVE CountInv'
      <3>1. PICK y : Only(r, y) /\ y.pc = "waiting"
        BY <2>3, EnterRow DEF Coalesce
      <3> QED
        BY <1>0, <2>3, <3>1, RowOpen, OpenSame, Pcs DEF Coalesce
    <2> QED
      BY <1>2, <2>1, <2>2, <2>3 DEF Arrive
  <1>3. ASSUME NEW r \in Reqs, NEW R \in SUBSET Reqs, NEW body \in Body, NEW lost, NEW ended \in SUBSET Reqs,
               \A x \in R \cup ended : req[x].pc \in Reading,
               Answer(R, body, lost, ended), active' = active
        PROVE  CountInv'
    BY <1>3, AnswerOpen, OpenSame
  <1>4. ASSUME NEW r \in Reqs, HitCache(r) PROVE CountInv'
    <2> DEFINE lost == {req[x].user : x \in {y \in {r} : req[y].sent}}
    <2>1. req[r].pc = "auth" /\ Answer({r}, l1, lost, {r}) /\ l1 \in Body /\ active' = active
      BY <1>4 DEF HitCache, Respond, Inv, TypeInv, SiteOK
    <2> HIDE DEF lost
    <2> QED
      BY <1>3, <2>1, Pcs
  <1>5. ASSUME NEW r \in Reqs PROVE Aboard(r) \in SUBSET Reqs /\ \A x \in Aboard(r) \ {r} : req[x].pc = "joined"
    BY DEF Aboard
  <1>6. ASSUME NEW r \in Reqs, QueryLands(r) PROVE CountInv'
    <2>1. PICK lost \in SUBSET Late(Aboard(r)) : Answer(Aboard(r), req[r].got, lost, Aboard(r))
      BY <1>6 DEF QueryLands
    <2>2. req[r].got \in Body /\ req[r].pc = "fetched" /\ active' = active
      BY <1>6 DEF QueryLands, Inv, TypeInv, ReqsOK, ReqRecord, Body
    <2>3. \A x \in Aboard(r) : req[x].pc \in Reading
      BY <1>5, <2>2, Pcs DEF Flying
    <2> QED
      BY <1>3, <1>5, <2>1, <2>2, <2>3
  <1>7. ASSUME NEW r \in Reqs, QueryFails(r) \/ AuthFails(r) PROVE CountInv'
    <2> DEFINE all  == IF QueryFails(r) THEN Aboard(r) ELSE {r}
               R    == {x \in all : ~ req[x].sent}
    <2>1. Answer(R, Nothing, {}, all) /\ active' = active
      BY <1>7 DEF QueryFails, AuthFails, Fails
    <2>2. all \in SUBSET Reqs /\ \A x \in all : req[x].pc \in Reading
      BY <1>5, <1>7, Pcs DEF QueryFails, AuthFails, Flying
    <2>3. R \subseteq all /\ Nothing \in Body
      BY DEF Body
    <2> HIDE DEF all, R
    <2> QED
      BY <1>3, <2>1, <2>2, <2>3
  <1>8. ASSUME NEW r \in Reqs, TimesOut(r) PROVE CountInv'
    <2>1. CASE req[r].pc \in Reading
      BY <1>3, <1>8, <2>1 DEF TimesOut, Body
    <2>2. CASE req[r].pc \notin Reading
      <3> DEFINE y == [req[r] EXCEPT !.sent = TRUE]
      <3>1. req' = [req EXCEPT ![r] = y] /\ active' = active
        BY Zenon, <1>8, <2>2 DEF TimesOut
      <3>2. y \in ReqRecord /\ y.pc = req[r].pc /\ y.conn = req[r].conn
        BY DEF Inv, TypeInv, ReqsOK, ReqRecord
      <3> HIDE DEF y
      <3>3. Only(r, y)
        BY <3>1, <3>2 DEF Only
      <3>4. Open(r)' <=> Open(r)
        BY <3>2, <3>3, RowOpen DEF Open, Admitted
      <3> QED
        BY <3>1, <3>3, <3>4, RowOpen, OpenSame
    <2> QED
      BY <2>1, <2>2
  <1>9. ASSUME NEW r \in Reqs, JoinFlight(r) \/ Fetch(r) \/ Commit(r) PROVE CountInv'
    <2>1. PICK pc \in {"joined", "fetch", "written"} : Move(r, pc)
      BY <1>9 DEF JoinFlight, Fetch, Commit
    <2>2. pc \in Reading \cup Writing
      BY DEF Reading, Writing
    <2>3. PICK y : Only(r, y) /\ y.pc = pc /\ Stays(r, y)
      BY <2>1, <2>2, MoveRow DEF Inv
    <2>4. active' = active /\ req[r].pc \in Reading \cup Writing
      BY <1>9, Pcs DEF JoinFlight, Fetch, Commit
    <2> QED
      BY <2>2, <2>3, <2>4, RowOpen, OpenSame DEF Stays, Open, Admitted
  <1>10. ASSUME NEW r \in Reqs,
                Download(r) \/ UpdateFails(r) \/ Invalidate(r) \/ (AnswerUpdate(r) /\ req[r].sent)
         PROVE  CountInv'
    <2>1. PICK y : Only(r, y) /\ Ends(r, y)
      BY <1>10, EndRow DEF Download, UpdateFails, Invalidate, AnswerUpdate, Inv
    <2>2. active' = active /\ req[r].pc \in Reading \cup Writing
      BY <1>10, Pcs DEF Download, UpdateFails, Invalidate, AnswerUpdate
    <2>3. Open(r)' <=> Open(r)
      BY <2>1, <2>2, RowOpen, Pcs DEF Ends, Open, Admitted
    <2> QED
      BY <2>1, <2>2, <2>3, RowOpen, OpenSame
  <1>11. ASSUME NEW r \in Reqs, QueryRuns(r) \/ (AnswerUpdate(r) /\ ~ req[r].sent) PROVE CountInv'
    <2> DEFINE read == [req[r] EXCEPT !.pc = "fetched", !.got = db]
               told == [req[r] EXCEPT !.sent = TRUE, !.pc = "invalidate"]
    <2>1. /\ read \in ReqRecord /\ read.pc = "fetched" /\ read.conn = req[r].conn
          /\ told \in ReqRecord /\ told.pc = "invalidate" /\ told.conn = req[r].conn
      BY DEF Inv, TypeInv, SiteOK, ReqsOK, ReqRecord, Reading, Writing
    <2>2. /\ req' = [req EXCEPT ![r] = read] \/ req' = [req EXCEPT ![r] = told]
          /\ active' = active
      BY Zenon, <1>11 DEF QueryRuns, AnswerUpdate
    <2> HIDE DEF read, told
    <2>3. PICK y : Only(r, y) /\ y.pc \in {"fetched", "invalidate"} /\ y.conn = req[r].conn
      BY <2>1, <2>2 DEF Only
    <2>4. {"fetched", "invalidate"} \subseteq Reading \cup Writing /\ req[r].pc \in Reading \cup Writing
      BY <1>11, Pcs DEF QueryRuns, AnswerUpdate, Flying
    <2> QED
      BY <2>2, <2>3, <2>4, RowOpen, OpenSame DEF Open, Admitted
  <1>12. ASSUME NEW r \in Reqs, Finish(r) \/ Close(r) PROVE CountInv'
    <2>1. PICK y : /\ Only(r, y)
                   /\ req[r].pc = "done" => y.pc = "idle"
                   /\ req[r].pc # "done" => y.pc = req[r].pc /\ y.conn = "closed"
      BY <1>12, CloseRow DEF Finish, Close, Inv
    <2>2. Open(r) /\ (active' = Released(active) \/ active' = Released(Released(active)))
      BY <1>12 DEF Finish, Close, Open
    <2>3. ~ Open(r)'
      BY <2>1, RowOpen, Pcs
    <2> QED
      BY <1>0, <2>1, <2>2, <2>3, RowOpen, OpenOneLess
  <1>13. ASSUME NEW r \in Reqs, GiveUp(r) PROVE CountInv'
    <2>1. req[r].pc = "waiting" /\ Only(r, Idle) /\ Idle.pc = "idle" /\ active' = active
      BY <1>13, IdleType DEF GiveUp, Only, Idle
    <2> QED
      BY <2>1, RowOpen, OpenSame, Pcs DEF Open, Admitted
  <1>14. CASE UNCHANGED vars \/ Expire \/ \E u \in Users : HitDedup(u)
    BY <1>1, <1>14 DEF vars, Expire, ExpireList, ExpireResponse, HitDedup
  <1> QED
    BY <1>2, <1>4, <1>6, <1>7, <1>8, <1>9, <1>10, <1>11, <1>12, <1>13, <1>14
       DEF Next, Read, Update, Failure, Response

\* The limiter never counts more requests than have a response under way.
THEOREM SlotsAreReleased == Spec => []NeverOvercounts
  <1>1. Init => CountInv
    BY OpenIsFinite DEF Init, CountInv
  <1>2. CountInv => NeverOvercounts
    BY DEF CountInv, OpenSet, Open, NeverOvercounts
  <1> QED
    BY <1>1, <1>2, NextCount, ReadInvariant, PTL DEF Spec
=============================================================================
