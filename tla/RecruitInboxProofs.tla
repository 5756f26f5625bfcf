------------------------- MODULE RecruitInboxProofs -------------------------
(***************************************************************************)
(* Proofs about RecruitInbox, for any number of results, webhook calls,    *)
(* syncs and recruiters.                                                   *)
(***************************************************************************)
EXTENDS RecruitInbox, TLAPS

Busy == {"read", "match", "upsert", "check", "status"}

\* The type of a record and what its pc says about the other fields.
RecOK(x, q) ==
    /\ q \in Locals
    /\ x \in Clerks => q.pc \in {"idle", "confirm", "outcome"}
    /\ x \in Hooks => q.pc \in Busy \cup {"idle", "mark", "failed"}
    /\ x \in Syncs => q.pc \in Busy \cup {"idle", "fetch", "items"}
    /\ q.pc \in Busy \cup {"mark", "failed"} => q.res \in Results /\ q.ver \in 1..MaxVersions
    /\ q.pc = "confirm" => q.res \in Results
    /\ q.pc \in {"check", "status", "outcome"} => q.link.iv \in Interviews

RecsOK  == req \in [Requests -> Locals] /\ \A x \in Requests : RecOK(x, req[x])
TypeInv == TypeOK /\ RecsOK

-----------------------------------------------------------------------------
(* The records of the requests.                                            *)

LEMMA IdleOK == \A x : RecOK(x, Idle)
  <1>1. Idle \in Locals /\ Idle.pc = "idle"
    BY NatAssumption DEF Idle, Locals, Links, Matches, Unlinked, Rounds
  <1> QED
    BY <1>1, NoneAssumption DEF RecOK, Busy

LEMMA ReturnedOK ==
  ASSUME NEW x \in Deliveries, RecOK(x, req[x]), req[x].pc \in Busy
  PROVE  /\ RecOK(x, Returned(x))
         /\ x \in Hooks => /\ Returned(x).pc = "mark" /\ Returned(x).res = req[x].res
                           /\ Returned(x).ver = req[x].ver
         /\ x \in Syncs => /\ Returned(x).pc = "items" /\ Returned(x).at = req[x].at
                           /\ Returned(x).items = req[x].items
         /\ ~ Returned(x).beside /\ Returned(x).items \subseteq req[x].items
  <1> DEFINE hook == [Idle EXCEPT !.pc = "mark", !.res = req[x].res, !.ver = req[x].ver]
             sync == [Idle EXCEPT !.pc = "items", !.at = req[x].at, !.items = req[x].items]
  <1>1. Returned(x) = IF x \in Hooks THEN hook ELSE sync
    BY DEF Returned
  <1>2. Idle \in Locals
    BY IdleOK DEF RecOK
  <1>3. /\ req[x] \in Locals /\ req[x].res \in Results /\ req[x].ver \in 1..MaxVersions
    BY DEF RecOK
  <1>4. /\ hook \in Locals /\ hook.pc = "mark" /\ hook.res = req[x].res /\ hook.ver = req[x].ver
        /\ ~ hook.beside /\ hook.items = {}
    BY <1>2, <1>3 DEF Locals, Idle
  <1>5. /\ sync \in Locals /\ sync.pc = "items" /\ sync.at = req[x].at /\ sync.items = req[x].items
        /\ ~ sync.beside
    BY <1>2, <1>3 DEF Locals, Idle
  <1> HIDE DEF hook, sync
  <1>6. x \notin Clerks /\ (x \in Hooks <=> x \notin Syncs)
    BY SlotsAssumption DEF Deliveries
  <1> QED
    BY <1>1, <1>3, <1>4, <1>5, <1>6 DEF RecOK, Busy

LEMMA OvertakenOK ==
  ASSUME NEW x \in Requests, RecOK(x, req[x]), NEW r
  PROVE  /\ RecOK(x, Overtaken(x, r))
         /\ \/ Overtaken(x, r) = req[x] /\ ~ (req[x].res = r /\ req[x].pc \in {"match", "upsert"})
            \/ Overtaken(x, r).beside /\ req[x].res = r /\ req[x].pc \in {"match", "upsert"}
         /\ Overtaken(x, r).pc = req[x].pc /\ Overtaken(x, r).res = req[x].res
         /\ Overtaken(x, r).ver = req[x].ver /\ Overtaken(x, r).stamp = req[x].stamp
         /\ Overtaken(x, r).review = req[x].review /\ Overtaken(x, r).link = req[x].link
         /\ Overtaken(x, r).decided = req[x].decided
         /\ Overtaken(x, r).since = req[x].since /\ Overtaken(x, r).at = req[x].at
         /\ Overtaken(x, r).items = req[x].items
  <1> DEFINE beaten == [req[x] EXCEPT !.beside = TRUE]
  <1>1. req[x] \in Locals
    BY DEF RecOK
  <1>2. /\ beaten \in Locals /\ beaten.beside /\ beaten.pc = req[x].pc /\ beaten.res = req[x].res
        /\ beaten.ver = req[x].ver /\ beaten.stamp = req[x].stamp /\ beaten.review = req[x].review
        /\ beaten.link = req[x].link /\ beaten.decided = req[x].decided /\ beaten.since = req[x].since
        /\ beaten.at = req[x].at /\ beaten.items = req[x].items
    BY <1>1 DEF Locals
  <1>3. Overtaken(x, r) = IF req[x].res = r /\ req[x].pc \in {"match", "upsert"} THEN beaten ELSE req[x]
    BY DEF Overtaken
  <1> HIDE DEF beaten
  <1>4. RecOK(x, beaten)
    BY <1>2 DEF RecOK
  <1>5. CASE req[x].res = r /\ req[x].pc \in {"match", "upsert"}
    BY <1>2, <1>3, <1>4, <1>5
  <1>6. CASE ~ (req[x].res = r /\ req[x].pc \in {"match", "upsert"})
    BY <1>3, <1>6
  <1> QED
    BY <1>5, <1>6

-----------------------------------------------------------------------------
(* What the actions make of the record of their request.                   *)

\* x's record becomes y, and the others stay.
Only(x, y) ==
    /\ RecOK(x, y) /\ req'[x] = y /\ req' \in [Requests -> Locals]
    /\ \A z \in Requests : z # x => req'[z] = req[z]

\* x's record becomes y, and the others may find the row of r overtaken.
Over(x, y, r) ==
    /\ RecOK(x, y) /\ req'[x] = y /\ req' \in [Requests -> Locals]
    /\ \A z \in Requests : z # x => req'[z] = Overtaken(z, r)

LEMMA OnlyRow ==
  ASSUME TypeInv, NEW x \in Requests, NEW y, RecOK(x, y), req' = [req EXCEPT ![x] = y]
  PROVE  Only(x, y)
  <1>1. req \in [Requests -> Locals] /\ y \in Locals
    BY DEF TypeInv, TypeOK, RecOK
  <1> QED
    BY <1>1 DEF Only

LEMMA OverRow ==
  ASSUME TypeInv, NEW x \in Requests, NEW y, NEW r, RecOK(x, y),
         req' = [z \in Requests |-> IF z # x THEN Overtaken(z, r) ELSE y]
  PROVE  Over(x, y, r)
  <1>1. \A z \in Requests : Overtaken(z, r) \in Locals
    BY OvertakenOK DEF TypeInv, RecsOK, RecOK
  <1>2. y \in Locals
    BY DEF RecOK
  <1> QED
    BY <1>1, <1>2 DEF Over

LEMMA RecTypes ==
  ASSUME TypeInv, NEW x \in Requests, NEW y, NEW r, Only(x, y) \/ Over(x, y, r)
  PROVE  RecsOK'
  <1>1. \A z \in Requests : RecOK(z, Overtaken(z, r)) /\ RecOK(z, req[z])
    BY OvertakenOK DEF TypeInv, RecsOK
  <1>2. req' \in [Requests -> Locals] /\ \A z \in Requests : RecOK(z, req'[z])
    BY <1>1 DEF Only, Over
  <1> QED
    BY <1>2 DEF RecsOK, RecOK

LEMMA Members ==
  /\ Hooks \subseteq Deliveries /\ Syncs \subseteq Deliveries /\ Deliveries \subseteq Requests
  /\ Clerks \subseteq Requests /\ Deliveries \cap Clerks = {}
  /\ \A x \in Deliveries : x \in Hooks <=> x \notin Syncs
  BY SlotsAssumption DEF Deliveries, Requests

\* What stays of a payload while it is processed.
Kept(p, q) == /\ q.res = p.res /\ q.ver = p.ver /\ q.stamp = p.stamp /\ q.decided = p.decided
              /\ q.at = p.at /\ q.items = p.items

LEMMA IdleRow ==
  ASSUME TypeInv, NEW x \in Requests, req' = [req EXCEPT ![x] = Idle]
  PROVE  Only(x, Idle) /\ Idle.pc = "idle"
  BY OnlyRow, IdleOK DEF Idle

LEMMA ReturnRow ==
  ASSUME TypeInv, NEW x \in Deliveries, req[x].pc \in Busy, Return(x)
  PROVE  Only(x, Returned(x))
  BY OnlyRow, ReturnedOK, Members DEF Return, TypeInv, RecsOK

LEMMA StampType ==
  ASSUME TypeInv, NEW r \in Results, NEW v \in 1..MaxVersions, NEW dated
  PROVE  Stamp(r, v, dated) \in {2 * v, 2 * ver[r] + 1} /\ Stamp(r, v, dated) \in Nat
  <1>1. v \in Nat /\ ver[r] \in Nat
    BY NatAssumption DEF TypeInv, TypeOK
  <1> QED
    BY <1>1 DEF Stamp

LEMMA DeliverRow ==
  ASSUME TypeInv, NEW h \in Hooks, NEW r \in Results, NEW v \in 1..MaxVersions, Deliver(h, r, v)
  PROVE  \E y : /\ Only(h, y) /\ y.pc = "read" /\ y.res = r /\ y.ver = v
                /\ y.stamp \in {2 * v, 2 * ver[r] + 1} /\ v <= ver[r]
                /\ y.decided = {i \in Interviews : interview[i].outcome}
                /\ ~ y.beside /\ y.items = {}
  <1>0. PICK dated \in Dating[h] : req' = [req EXCEPT ![h] = Opened(Idle, r, v, dated)]
    BY DEF Deliver
  <1> DEFINE y == [Idle EXCEPT !.pc = "read", !.res = r, !.ver = v, !.stamp = Stamp(r, v, dated),
                               !.items = Idle.items \ {<<r, v>>},
                               !.decided = {i \in Interviews : interview[i].outcome}]
  <1>1. Idle \in Locals /\ v \in 0..MaxVersions
    BY IdleOK, NatAssumption DEF RecOK
  <1>s. Stamp(r, v, dated) \in {2 * v, 2 * ver[r] + 1} /\ Stamp(r, v, dated) \in Nat
    BY StampType
  <1>2. /\ y \in Locals /\ y.pc = "read" /\ y.res = r /\ y.ver = v
        /\ y.stamp = Stamp(r, v, dated)
        /\ y.decided = {i \in Interviews : interview[i].outcome}
        /\ ~ y.beside /\ y.items = {}
    BY <1>1, <1>s DEF Locals, Idle
  <1>3. req' = [req EXCEPT ![h] = y] /\ v <= ver[r]
    BY <1>0 DEF Deliver, Opened
  <1> HIDE DEF y
  <1>4. RecOK(h, y)
    BY <1>2, Members DEF RecOK, Busy
  <1> QED
    BY <1>2, <1>3, <1>4, <1>s, OnlyRow, Members

LEMMA NextItemRow ==
  ASSUME TypeInv, NEW s \in Syncs, NextItem(s)
  PROVE  \E y : \E i \in req[s].items :
            /\ Only(s, y) /\ y.pc = "read" /\ i = <<y.res, y.ver>> /\ y.items = req[s].items \ {i}
            /\ y.at = req[s].at /\ y.decided = {j \in Interviews : interview[j].outcome}
            /\ y.beside = req[s].beside
            /\ y.stamp \in {2 * y.ver, 2 * ver[y.res] + 1}
  <1>1. PICK i \in req[s].items, dated \in Dating[s] :
           req' = [req EXCEPT ![s] = Opened(req[s], i[1], i[2], dated)]
    BY DEF NextItem
  <1> DEFINE y == [req[s] EXCEPT !.pc = "read", !.res = i[1], !.ver = i[2],
                                 !.stamp = Stamp(i[1], i[2], dated),
                                 !.items = req[s].items \ {<<i[1], i[2]>>},
                                 !.decided = {j \in Interviews : interview[j].outcome}]
  <1>2. req[s] \in Locals /\ RecOK(s, req[s])
    BY Members DEF TypeInv, RecsOK, RecOK
  <1>3. /\ i \in Results \X (1..MaxVersions) /\ i = <<i[1], i[2]>>
        /\ i[1] \in Results /\ i[2] \in 1..MaxVersions /\ i[2] \in 0..MaxVersions
    BY <1>2, NatAssumption DEF Locals
  <1>s. Stamp(i[1], i[2], dated) \in {2 * i[2], 2 * ver[i[1]] + 1} /\ Stamp(i[1], i[2], dated) \in Nat
    BY <1>3, StampType
  <1>4. /\ y \in Locals /\ y.pc = "read" /\ y.res = i[1] /\ y.ver = i[2] /\ y.at = req[s].at
        /\ y.items = req[s].items \ {i} /\ y.beside = req[s].beside
        /\ y.decided = {j \in Interviews : interview[j].outcome}
        /\ y.stamp = Stamp(i[1], i[2], dated)
    BY <1>2, <1>3, <1>s DEF Locals
  <1>5. req' = [req EXCEPT ![s] = y]
    BY <1>1 DEF Opened
  <1> HIDE DEF y
  <1>6. RecOK(s, y)
    BY <1>3, <1>4, Members DEF RecOK, Busy
  <1> QED
    BY <1>3, <1>4, <1>5, <1>6, <1>s, OnlyRow, Members

LEMMA StartRow ==
  ASSUME TypeInv, NEW s \in Syncs, StartSync(s)
  PROVE  \E y : Only(s, y) /\ y.pc = "fetch" /\ y.since = lastSync /\ y.items = {}
  <1> DEFINE y == [Idle EXCEPT !.pc = "fetch", !.since = lastSync]
  <1>1. Idle \in Locals /\ lastSync \in Nat
    BY IdleOK DEF RecOK, TypeInv, TypeOK
  <1>2. y \in Locals /\ y.pc = "fetch" /\ y.since = lastSync /\ y.items = {}
    BY <1>1 DEF Locals, Idle
  <1>3. req' = [req EXCEPT ![s] = y]
    BY DEF StartSync
  <1> HIDE DEF y
  <1>4. RecOK(s, y)
    BY <1>2, Members DEF RecOK, Busy
  <1> QED
    BY <1>2, <1>3, <1>4, OnlyRow, Members

LEMMA FetchRow ==
  ASSUME TypeInv, NEW s \in Syncs, Fetch(s)
  PROVE  \E y : \E page \in SUBSET Changed(req[s].since) :
            /\ Only(s, y) /\ y.pc = "items" /\ y.at = now
            /\ y.items = {<<r, ver[r]>> : r \in page} /\ ~ y.beside
            /\ excused' = excused \cup {r \in Changed(req[s].since) \ page : row[r].ver < ver[r]}
  <1>0. PICK page \in Pages(req[s].since) :
           /\ req' = [req EXCEPT ![s] = [Idle EXCEPT !.pc = "items", !.at = now,
                                          !.items = {<<r, ver[r]>> : r \in page}]]
           /\ excused' = excused \cup {r \in Changed(req[s].since) \ page : row[r].ver < ver[r]}
    BY DEF Fetch
  <1> DEFINE got == {<<r, ver[r]>> : r \in page}
             y == [Idle EXCEPT !.pc = "items", !.at = now, !.items = got]
  <1>1. Idle \in Locals /\ now \in Nat
    BY IdleOK DEF RecOK, TypeInv, TypeOK
  <1>p. page \in SUBSET Changed(req[s].since)
    BY DEF Pages
  <1>2. got \in SUBSET (Results \X (1..MaxVersions))
    BY <1>p, NatAssumption DEF Changed, TypeInv, TypeOK
  <1>3. req' = [req EXCEPT ![s] = y]
    BY <1>0
  <1> HIDE DEF got
  <1>4. y \in Locals /\ y.pc = "items" /\ y.at = now /\ y.items = got /\ ~ y.beside
    BY <1>1, <1>2 DEF Locals, Idle
  <1> HIDE DEF y
  <1>5. RecOK(s, y)
    BY <1>4, Members DEF RecOK, Busy
  <1> QED
    BY <1>0, <1>p, <1>3, <1>4, <1>5, OnlyRow, Members DEF got

LEMMA ReadRow ==
  ASSUME TypeInv, NEW x \in Deliveries, Read(x)
  PROVE  \/ /\ \/ Outdated(req[x].res, req[x].ver, req[x].stamp)
               \/ Tied(req[x].res, req[x].ver, req[x].stamp)
            /\ Only(x, Returned(x))
         \/ /\ ~ Outdated(req[x].res, req[x].ver, req[x].stamp)
            /\ \E y : /\ Only(x, y) /\ Kept(req[x], y)
                      /\ y.review = row[req[x].res].review /\ y.link = row[req[x].res].link
                      /\ y.beside = req[x].beside
                      /\ \/ y.pc = "match" /\ y.link.by = "none"
                         \/ y.pc = "upsert" /\ y.link.by # "none"
  <1> DEFINE p == row[req[x].res]
             next == IF p.link.by = "none" THEN "match" ELSE "upsert"
             y == [req[x] EXCEPT !.pc = next, !.review = p.review, !.link = p.link]
  <1>1. req[x].pc = "read" /\ x \in Requests /\ RecOK(x, req[x]) /\ req[x] \in Locals
    BY Members DEF Read, TypeInv, RecsOK, RecOK
  <1>2. /\ p.review \in {"none", "pending", "confirmed", "dismissed"} /\ p.link \in Links
        /\ req[x].res \in Results /\ req[x].ver \in 1..MaxVersions
    BY <1>1 DEF RecOK, Busy, TypeInv, TypeOK
  <1>3. CASE Return(x) /\ (\/ Outdated(req[x].res, req[x].ver, req[x].stamp)
                           \/ Tied(req[x].res, req[x].ver, req[x].stamp))
    BY <1>1, <1>3, ReturnRow DEF Busy
  <1>4. CASE /\ ~ Outdated(req[x].res, req[x].ver, req[x].stamp)
             /\ req' = [req EXCEPT ![x].pc = next, ![x].review = p.review, ![x].link = p.link]
    <2>1. req' = [req EXCEPT ![x] = y]
      BY <1>4
    <2> HIDE DEF p
    <2>2. /\ y \in Locals /\ y.pc = next /\ y.review = p.review /\ y.link = p.link /\ Kept(req[x], y)
          /\ y.beside = req[x].beside
      BY <1>1, <1>2 DEF Locals, Kept
    <2>3. next \in {"match", "upsert"} /\ (next = "match" <=> p.link.by = "none")
      OBVIOUS
    <2> HIDE DEF y, next
    <2>4. RecOK(x, y)
      BY <1>2, <2>2, <2>3, Members DEF RecOK, Busy, Kept
    <2>5. Only(x, y)
      BY <1>1, <2>1, <2>4, OnlyRow
    <2> QED
      BY <1>4, <2>2, <2>3, <2>5 DEF p
  <1> QED
    BY <1>3, <1>4 DEF Read

LEMMA MatchRow ==
  ASSUME TypeInv, NEW x \in Deliveries, Match(x)
  PROVE  \E y : /\ Only(x, y) /\ Kept(req[x], y) /\ y.pc = "upsert" /\ y.link \in Matches
                /\ y.review = req[x].review /\ y.beside = req[x].beside
  <1>1. req[x].pc = "match" /\ x \in Requests /\ RecOK(x, req[x]) /\ req[x] \in Locals
    BY Members DEF Match, TypeInv, RecsOK, RecOK
  <1>2. PICK l \in Matches : req' = [req EXCEPT ![x].pc = "upsert", ![x].link = l]
    BY DEF Match
  <1> DEFINE y == [req[x] EXCEPT !.pc = "upsert", !.link = l]
  <1>3. req' = [req EXCEPT ![x] = y]
    BY <1>2
  <1>4. l \in Links
    BY <1>2 DEF Links
  <1>5. /\ y \in Locals /\ y.pc = "upsert" /\ y.link = l /\ Kept(req[x], y)
        /\ y.review = req[x].review /\ y.beside = req[x].beside
    BY <1>1, <1>4 DEF Locals, Kept
  <1> HIDE DEF y
  <1>6. RecOK(x, y)
    BY <1>1, <1>5, Members DEF RecOK, Busy, Kept
  <1> QED
    BY <1>1, <1>2, <1>3, <1>5, <1>6, OnlyRow

LEMMA UpsertRow ==
  ASSUME TypeInv, NEW x \in Deliveries, Upsert(x)
  PROVE  \E y : /\ Over(x, y, req[x].res)
                /\ \/ y = Returned(x) /\ req[x].link.iv = None
                   \/ y.pc = "check" /\ Kept(req[x], y) /\ y.link = req[x].link /\ req[x].link.iv # None
  <1> DEFINE checks == [req[x] EXCEPT !.pc = "check", !.review = "none", !.beside = FALSE]
             y == IF req[x].link.iv # None THEN checks ELSE Returned(x)
  <1>1. req[x].pc = "upsert" /\ x \in Requests /\ RecOK(x, req[x]) /\ req[x] \in Locals
    BY Members DEF Upsert, TypeInv, RecsOK, RecOK
  <1>2. req' = [z \in Requests |-> IF z # x THEN Overtaken(z, req[x].res) ELSE y]
    BY DEF Upsert
  <1>3. /\ checks \in Locals /\ checks.pc = "check" /\ checks.link = req[x].link /\ Kept(req[x], checks)
    BY <1>1 DEF Locals, Kept
  <1>4. req[x].link.iv \in Interviews \cup {None}
    BY <1>1 DEF Locals, Links, Matches, Unlinked, Rounds
  <1> HIDE DEF checks
  <1>5. req[x].link.iv # None => RecOK(x, checks)
    BY <1>1, <1>3, <1>4, Members DEF RecOK, Busy, Kept
  <1>6. RecOK(x, Returned(x))
    BY <1>1, ReturnedOK DEF Busy
  <1>7. /\ RecOK(x, y)
        /\ \/ y = Returned(x) /\ req[x].link.iv = None
           \/ y = checks /\ req[x].link.iv # None
    <2>1. CASE req[x].link.iv = None
      BY <1>6, <2>1
    <2>2. CASE req[x].link.iv # None
      BY <1>5, <2>2
    <2> QED
      BY <2>1, <2>2
  <1> HIDE DEF y
  <1>8. Over(x, y, req[x].res)
    BY <1>1, <1>2, <1>7, OverRow
  <1> QED
    BY <1>3, <1>7, <1>8

LEMMA CheckRow ==
  ASSUME TypeInv, NEW x \in Deliveries, Check(x)
  PROVE  \/ Only(x, Returned(x))
         \/ /\ ~ interview[req[x].link.iv].outcome
            /\ \E y : Only(x, y) /\ Kept(req[x], y) /\ y.pc = "status" /\ y.link = req[x].link
  <1> DEFINE i == interview[req[x].link.iv]
             y == [req[x] EXCEPT !.pc = "status", !.was = i.status]
  <1>1. /\ req[x].pc = "check" /\ x \in Requests /\ RecOK(x, req[x]) /\ req[x] \in Locals
        /\ req[x].link.iv \in Interviews
    BY Members DEF Check, TypeInv, RecsOK, RecOK
  <1>2. CASE i.outcome
    BY <1>1, <1>2, ReturnRow DEF Check, Busy
  <1>3. CASE ~ i.outcome
    <2>1. req' = [req EXCEPT ![x] = y]
      BY <1>3 DEF Check
    <2>2. i.status \in {"SCHEDULED", "COMPLETED", "NO_SHOW"}
      BY <1>1 DEF TypeInv, TypeOK
    <2> HIDE DEF i
    <2>3. y \in Locals /\ y.pc = "status" /\ y.link = req[x].link /\ Kept(req[x], y)
      BY <1>1, <2>2 DEF Locals, Kept
    <2> HIDE DEF y
    <2>4. RecOK(x, y)
      BY <1>1, <2>3, Members DEF RecOK, Busy, Kept
    <2>5. Only(x, y)
      BY <1>1, <2>1, <2>4, OnlyRow
    <2> QED
      BY <1>3, <2>3, <2>5 DEF i
  <1> QED
    BY <1>2, <1>3

LEMMA FailedRow ==
  ASSUME TypeInv, NEW h \in Hooks, req[h].pc \in {"read", "match", "upsert", "mark"},
         req' = [req EXCEPT ![h].pc = "failed"]
  PROVE  \E y : Only(h, y) /\ Kept(req[h], y) /\ y.pc = "failed"
  <1> DEFINE y == [req[h] EXCEPT !.pc = "failed"]
  <1>1. h \in Requests /\ RecOK(h, req[h]) /\ req[h] \in Locals
    BY Members DEF TypeInv, RecsOK, RecOK
  <1>2. req' = [req EXCEPT ![h] = y]
    OBVIOUS
  <1>3. y \in Locals /\ y.pc = "failed" /\ Kept(req[h], y)
    BY <1>1 DEF Locals, Kept
  <1> HIDE DEF y
  <1>4. RecOK(h, y)
    BY <1>1, <1>3, Members DEF RecOK, Busy, Kept
  <1> QED
    BY <1>1, <1>2, <1>3, <1>4, OnlyRow

LEMMA AskRow ==
  ASSUME TypeInv, NEW c \in Clerks, NEW r \in Results, AskConfirm(c, r)
  PROVE  \E y : Only(c, y) /\ y.pc = "confirm" /\ y.res = r /\ y.items = {}
  <1> DEFINE l == row[r].link
             y == [Idle EXCEPT !.pc = "confirm", !.res = r, !.link = l]
  <1>1. Idle \in Locals /\ c \in Requests /\ l \in Links
    BY IdleOK, Members DEF RecOK, TypeInv, TypeOK
  <1>2. req' = [req EXCEPT ![c] = y]
    BY DEF AskConfirm
  <1> HIDE DEF l
  <1>3. y \in Locals /\ y.pc = "confirm" /\ y.res = r /\ y.items = {}
    BY <1>1 DEF Locals, Idle
  <1> HIDE DEF y
  <1>4. RecOK(c, y)
    BY <1>3, Members DEF RecOK, Busy, Deliveries
  <1> QED
    BY <1>1, <1>2, <1>3, <1>4, OnlyRow

LEMMA ConfirmRow ==
  ASSUME TypeInv, NEW c \in Clerks, Confirm(c)
  PROVE  /\ req[c].res \in Results
         /\ \E y : Over(c, y, req[c].res) /\ y.pc \in {"idle", "outcome"} /\ y.items \subseteq req[c].items
  <1> DEFINE out == [req[c] EXCEPT !.pc = "outcome"]
             y == IF req[c].link.iv # None THEN out ELSE Idle
  <1>1. /\ req[c].pc = "confirm" /\ c \in Requests /\ RecOK(c, req[c]) /\ req[c] \in Locals
        /\ req[c].res \in Results
    BY Members DEF Confirm, TypeInv, RecsOK, RecOK
  <1>2. req' = [z \in Requests |-> IF z # c THEN Overtaken(z, req[c].res) ELSE y]
    BY DEF Confirm
  <1>3. out \in Locals /\ out.pc = "outcome" /\ out.link = req[c].link /\ out.items = req[c].items
    BY <1>1 DEF Locals
  <1>4. req[c].link.iv \in Interviews \cup {None}
    BY <1>1 DEF Locals, Links, Matches, Unlinked, Rounds
  <1> HIDE DEF out
  <1>5. req[c].link.iv # None => RecOK(c, out)
    BY <1>3, <1>4, Members DEF RecOK, Busy, Deliveries
  <1>6. RecOK(c, y) /\ y.pc \in {"idle", "outcome"} /\ y.items \subseteq req[c].items
    BY <1>3, <1>5, IdleOK, IdleRow DEF Idle
  <1> HIDE DEF y
  <1> QED
    BY <1>1, <1>2, <1>6, OverRow

LEMMA ReviewRow ==
  ASSUME TypeInv, NEW c \in Clerks, NEW r \in Results, req[c].pc = "idle",
         req' = [z \in Requests |-> Overtaken(z, r)]
  PROVE  Over(c, req[c], r)
  <1>1. c \in Requests /\ RecOK(c, req[c]) /\ Overtaken(c, r) = req[c]
    BY Members, OvertakenOK DEF TypeInv, RecsOK
  <1>2. req' = [z \in Requests |-> IF z # c THEN Overtaken(z, r) ELSE req[c]]
    BY <1>1
  <1> QED
    BY <1>1, <1>2, OverRow

-----------------------------------------------------------------------------
(* Type correctness.                                                       *)

LEMMA NextRecs ==
  ASSUME TypeInv, [Next]_vars
  PROVE  RecsOK'
  <1>1. ASSUME NEW x \in Requests, NEW y, NEW r, Only(x, y) \/ Over(x, y, r) PROVE RecsOK'
    BY <1>1, RecTypes
  <1>2. ASSUME req' = req PROVE RecsOK'
    BY <1>2 DEF TypeInv, RecsOK, RecOK
  <1>3. ASSUME NEW h \in Hooks, Webhook(h) PROVE RecsOK'
    <2>1. ASSUME NEW r \in Results, NEW v \in 1..MaxVersions, Deliver(h, r, v) PROVE RecsOK'
      BY <1>1, <2>1, DeliverRow, Members
    <2>2. CASE Mark(h) \/ RecordFailure(h)
      BY <1>1, <2>2, IdleRow, Members DEF Mark, RecordFailure
    <2>3. CASE EventFails(h)
      <3>1. CASE req[h].pc = "mark"
        <4>1. req' = [req EXCEPT ![h].pc = "failed"]
          BY <2>3, <3>1 DEF EventFails
        <4> QED
          BY <1>1, <3>1, <4>1, FailedRow, Members
      <3>2. CASE req[h].pc # "mark"
        <4>1. req' = [req EXCEPT ![h] = Idle]
          BY <2>3, <3>2 DEF EventFails
        <4> QED
          BY <1>1, <4>1, IdleRow, Members
      <3> QED
        BY <3>1, <3>2
    <2> QED
      BY <1>3, <2>1, <2>2, <2>3 DEF Webhook
  <1>4. ASSUME NEW s \in Syncs, Sync(s) \/ SyncFails(s) PROVE RecsOK'
    <2>1. CASE StartSync(s)
      BY <1>1, <2>1, StartRow, Members
    <2>2. CASE Fetch(s)
      BY <1>1, <2>2, FetchRow, Members
    <2>3. CASE NextItem(s)
      BY <1>1, <2>3, NextItemRow, Members
    <2>4. CASE EndSync(s) \/ SyncFails(s)
      BY <1>1, <2>4, IdleRow, Members DEF EndSync, SyncFails
    <2> QED
      BY <1>4, <2>1, <2>2, <2>3, <2>4 DEF Sync
  <1>5. ASSUME NEW x \in Deliveries, Process(x) \/ ProcessingFails(x) \/ InterviewFails(x) PROVE RecsOK'
    <2>1. CASE Read(x)
      BY <1>1, <2>1, ReadRow, Members
    <2>2. CASE Match(x)
      BY <1>1, <2>2, MatchRow, Members
    <2>3. CASE Upsert(x)
      BY <1>1, <2>3, UpsertRow, Members
    <2>4. CASE Check(x)
      BY <1>1, <2>4, CheckRow, Members
    <2>5. CASE SetStatus(x) \/ InterviewFails(x)
      BY <1>1, <2>5, ReturnRow, Members DEF SetStatus, InterviewFails, Busy
    <2>6. CASE ProcessingFails(x) /\ x \in Hooks
      BY <1>1, <2>6, FailedRow, Members DEF ProcessingFails, Move
    <2>7. CASE ProcessingFails(x) /\ x \notin Hooks
      BY <1>1, <2>7, ReturnRow, Members DEF ProcessingFails, Busy
    <2> QED
      BY <1>5, <2>1, <2>2, <2>3, <2>4, <2>5, <2>6, <2>7 DEF Process
  <1>6. ASSUME NEW c \in Clerks, Clerk(c) PROVE RecsOK'
    <2>1. ASSUME NEW r \in Results, AskConfirm(c, r) PROVE RecsOK'
      BY <1>1, <2>1, AskRow, Members
    <2>2. ASSUME NEW r \in Results, Relink(c, r) \/ Dismiss(c, r) PROVE RecsOK'
      BY <1>1, <2>2, ReviewRow, Members DEF Relink, Dismiss
    <2>3. CASE Confirm(c)
      BY <1>1, <2>3, ConfirmRow, Members
    <2>4. CASE Outcome(c) \/ ClerkFails(c)
      BY <1>1, <2>4, IdleRow, Members DEF Outcome, ClerkFails
    <2> QED
      BY <1>6, <2>1, <2>2, <2>3, <2>4 DEF Clerk
  <1>7. CASE Crash
    <2>1. \A z \in Requests : req'[z] = Idle /\ RecOK(z, Idle)
      BY <1>7, IdleOK DEF Crash
    <2>2. Idle \in Locals
      BY IdleOK DEF RecOK
    <2>3. req' = [x \in Requests |-> Idle]
      BY <1>7 DEF Crash
    <2> QED
      BY <2>1, <2>2, <2>3 DEF RecsOK, RecOK
  <1>8. CASE Tick \/ UNCHANGED vars \/ \E r \in Results : Publish(r)
    <2>1. req' = req
      BY <1>8 DEF Tick, vars, Publish
    <2> QED
      BY <1>2, <2>1
  <1> QED
    BY <1>3, <1>4, <1>5, <1>6, <1>7, <1>8 DEF Next

\* TypeOK without the locals of the requests.
RowType == [ver : 0..MaxVersions, stamp : Nat,
            review : {"none", "pending", "confirmed", "dismissed"}, link : Links]
RoundType == [status : {"SCHEDULED", "COMPLETED", "NO_SHOW"}, outcome : BOOLEAN]
ModeOK == ids \in {"version", "result", "call"}
ClockOK == now \in Nat /\ lastSync \in Nat /\ faults \in Nat
ProviderOK == ver \in [Results -> 0..MaxVersions] /\ upd \in [Results -> Nat]
RowsOK == row \in [Results -> RowType]
EventsOK == processed \subseteq Results \X (0..MaxVersions)
RoundsOK == interview \in [Interviews -> RoundType]
HistoryOK == stored \in [Results -> Nat] /\ excused \subseteq Results
SiteOK == ModeOK /\ ClockOK /\ ProviderOK /\ RowsOK /\ EventsOK /\ RoundsOK /\ HistoryOK

LEMMA TypeSplits == TypeOK <=> SiteOK /\ req \in [Requests -> Locals]
  BY DEF TypeOK, SiteOK, ModeOK, ClockOK, ProviderOK, RowsOK, EventsOK, RoundsOK, HistoryOK,
         RowType, RoundType

LEMMA EventsType ==
  ASSUME TypeInv, NEW r \in Results, NEW v \in 1..MaxVersions
  PROVE  Events(r, v) \subseteq Results \X (0..MaxVersions)
  <1>1. ids \in {"version", "result", "call"} /\ v \in 0..MaxVersions /\ 0 \in 0..MaxVersions
    BY NatAssumption DEF TypeInv, TypeOK
  <1>2. <<r, v>> \in Results \X (0..MaxVersions) /\ <<r, 0>> \in Results \X (0..MaxVersions)
    BY <1>1
  <1>3. CASE ids = "version"
    BY <1>2, <1>3 DEF Events
  <1>4. CASE ids = "result"
    BY <1>2, <1>4 DEF Events
  <1>5. CASE ids = "call"
    BY <1>5 DEF Events
  <1> QED
    BY <1>1, <1>3, <1>4, <1>5

\* The row that an upsert writes.
LEMMA WrittenRow ==
  ASSUME TypeInv, NEW x \in Deliveries, Upsert(x)
  PROVE  \E w \in RowType :
            /\ row' = [row EXCEPT ![req[x].res] = w]
            /\ w.ver = req[x].ver /\ w.stamp = req[x].stamp
            /\ w.link = req[x].link /\ w.review = Reviewed(req[x].review)
  <1> DEFINE w == [ver |-> req[x].ver, stamp |-> req[x].stamp, review |-> Reviewed(req[x].review), link |-> req[x].link]
  <1>1. req[x] \in Locals
    BY Members DEF TypeInv, RecsOK
  <1>2. w \in RowType /\ w.ver = req[x].ver /\ w.stamp = req[x].stamp /\ w.link = req[x].link
        /\ w.review = Reviewed(req[x].review)
    BY <1>1 DEF Locals, RowType, Reviewed
  <1>3. row' = [row EXCEPT ![req[x].res] = w]
    BY DEF Upsert
  <1> QED
    BY <1>2, <1>3

LEMMA NextSite ==
  ASSUME TypeInv, [Next]_vars
  PROVE  SiteOK'
  <1>0. SiteOK
    BY TypeSplits DEF TypeInv
  <1> USE DEF SiteOK, ModeOK, ClockOK, ProviderOK, RowsOK, EventsOK, RoundsOK, HistoryOK
  <1>1. CASE UNCHANGED vars
    BY <1>0, <1>1 DEF vars, provider, history
  <1>2. ASSUME NEW r \in Results, Publish(r) PROVE SiteOK'
    <2>1. ver' \in [Results -> 0..MaxVersions]
      BY <1>0, <1>2, NatAssumption DEF Publish
    <2> QED
      BY <1>0, <1>2, <2>1 DEF Publish
  <1>3. CASE Tick
    BY <1>0, <1>3 DEF Tick, provider, history
  <1>4. ASSUME NEW h \in Hooks, Webhook(h) PROVE SiteOK'
    <2>1. ASSUME NEW r \in Results, NEW v \in 1..MaxVersions, Deliver(h, r, v) PROVE SiteOK'
      BY <1>0, <2>1 DEF Deliver, provider, history
    <2>2. CASE Mark(h) \/ RecordFailure(h)
      <3>1. req[h].res \in Results /\ req[h].ver \in 1..MaxVersions
        BY <2>2, Members DEF Mark, RecordFailure, TypeInv, RecsOK, RecOK
      <3>2. processed' \subseteq Results \X (0..MaxVersions)
        BY <1>0, <2>2, <3>1, EventsType DEF Mark, RecordFailure
      <3> QED
        BY <1>0, <2>2, <3>2 DEF Mark, RecordFailure, provider, history
    <2>3. CASE EventFails(h)
      BY <1>0, <2>3 DEF EventFails, Fault, provider, history
    <2> QED
      BY <1>4, <2>1, <2>2, <2>3 DEF Webhook
  <1>5. ASSUME NEW s \in Syncs, Sync(s) \/ SyncFails(s) PROVE SiteOK'
    <2>1. CASE StartSync(s) \/ NextItem(s)
      BY <1>0, <2>1 DEF StartSync, NextItem, provider, history
    <2>2. CASE EndSync(s) \/ SyncFails(s)
      BY <1>0, <2>2 DEF EndSync, SyncFails, Fault, provider, history
    <2>3. CASE Fetch(s)
      <3>1. excused' \subseteq Results
        BY <1>0, <2>3, FetchRow DEF Changed
      <3> QED
        BY <1>0, <2>3, <3>1 DEF Fetch, provider
    <2> QED
      BY <1>5, <2>1, <2>2, <2>3 DEF Sync
  <1>6. ASSUME NEW x \in Deliveries, Process(x) \/ ProcessingFails(x) \/ InterviewFails(x) PROVE SiteOK'
    <2>0. req[x] \in Locals /\ RecOK(x, req[x])
      BY Members DEF TypeInv, RecsOK
    <2>1. CASE Read(x) \/ Match(x) \/ Check(x)
      BY <1>0, <2>1 DEF Read, Match, Check, provider, history
    <2>2. CASE Upsert(x)
      <3>1. req[x].res \in Results /\ req[x].ver \in 0..MaxVersions /\ req[x].stamp \in Nat
        BY <2>0, <2>2 DEF Upsert, RecOK, Busy, Locals
      <3>2. row' \in [Results -> RowType]
        BY <1>0, <2>2, <3>1, WrittenRow
      <3>3. stored' \in [Results -> Nat] /\ excused' \subseteq Results
        BY <1>0, <2>2, <3>1 DEF Upsert
      <3> QED
        BY <1>0, <2>2, <3>2, <3>3 DEF Upsert, provider
    <2>3. CASE SetStatus(x)
      <3> DEFINE st == IF Status[req[x].ver] = "OTHER" THEN req[x].was ELSE Status[req[x].ver]
      <3>1. req[x].ver \in 1..MaxVersions
        BY <2>0, <2>3 DEF SetStatus, RecOK, Busy
      <3>2. st \in {"SCHEDULED", "COMPLETED", "NO_SHOW"}
        BY <2>0, <3>1, StatusAssumption DEF Locals
      <3>3. interview' = [interview EXCEPT ![req[x].link.iv].status = st]
        BY <2>3 DEF SetStatus
      <3> HIDE DEF st
      <3>4. interview' \in [Interviews -> RoundType]
        BY <1>0, <3>2, <3>3 DEF RoundType
      <3> QED
        BY <1>0, <2>3, <3>4 DEF SetStatus, provider, history
    <2>4. CASE ProcessingFails(x)
      <3>1. req[x].res \in Results
        BY <2>0, <2>4 DEF ProcessingFails, RecOK, Busy
      <3>2. excused' \subseteq Results
        BY <1>0, <2>4, <3>1 DEF ProcessingFails
      <3> QED
        BY <1>0, <2>4, <3>2 DEF ProcessingFails, Fault, provider
    <2>5. CASE InterviewFails(x)
      BY <1>0, <2>5 DEF InterviewFails, Fault, provider, history
    <2> QED
      BY <1>6, <2>1, <2>2, <2>3, <2>4, <2>5 DEF Process
  <1>7. ASSUME NEW c \in Clerks, Clerk(c) PROVE SiteOK'
    <2>1. ASSUME NEW r \in Results, AskConfirm(c, r) PROVE SiteOK'
      BY <1>0, <2>1 DEF AskConfirm, provider, history
    <2>2. ASSUME NEW r \in Results, Relink(c, r) PROVE SiteOK'
      <3>1. PICK i \in Rounds : row' = [row EXCEPT ![r].link = [by |-> "manual", iv |-> i]]
        BY <2>2 DEF Relink
      <3>2. [by |-> "manual", iv |-> i] \in Links
        BY DEF Links
      <3>3. row' \in [Results -> RowType]
        BY <1>0, <3>1, <3>2 DEF RowType
      <3> QED
        BY <1>0, <2>2, <3>3 DEF Relink, provider, history
    <2>3. ASSUME NEW r \in Results, Dismiss(c, r) PROVE SiteOK'
      <3>1. row' \in [Results -> RowType]
        BY <1>0, <2>3 DEF Dismiss, RowType
      <3> QED
        BY <1>0, <2>3, <3>1 DEF Dismiss, provider, history
    <2>4. CASE Confirm(c)
      <3>1. row' \in [Results -> RowType]
        BY <1>0, <2>4 DEF Confirm, RowType
      <3> QED
        BY <1>0, <2>4, <3>1 DEF Confirm, provider, history
    <2>5. CASE Outcome(c)
      <3>1. interview' \in [Interviews -> RoundType]
        BY <1>0, <2>5 DEF Outcome, RoundType
      <3> QED
        BY <1>0, <2>5, <3>1 DEF Outcome, provider, history
    <2>6. CASE ClerkFails(c)
      BY <1>0, <2>6 DEF ClerkFails, Fault, provider, history
    <2> QED
      BY <1>7, <2>1, <2>2, <2>3, <2>4, <2>5, <2>6 DEF Clerk
  <1>8. CASE Crash
    BY <1>0, <1>8 DEF Crash, Fault, provider, history
  <1> HIDE DEF SiteOK
  <1> QED
    BY <1>1, <1>2, <1>3, <1>4, <1>5, <1>6, <1>7, <1>8 DEF Next

LEMMA InitType == Init => TypeInv
  <1> SUFFICES ASSUME Init PROVE TypeInv
    OBVIOUS
  <1>1. SiteOK
    BY NatAssumption, ProviderAssumption
       DEF Init, SiteOK, ModeOK, ClockOK, ProviderOK, RowsOK, EventsOK, RoundsOK, HistoryOK,
           RowType, RoundType, NoRow, Links, Matches
  <1>2. Idle \in Locals /\ req = [x \in Requests |-> Idle]
    BY IdleOK DEF Init, RecOK
  <1>3. req \in [Requests -> Locals] /\ \A x \in Requests : RecOK(x, req[x])
    BY <1>2, IdleOK
  <1> QED
    BY <1>1, <1>3, TypeSplits DEF TypeInv, RecsOK

LEMMA NextType == TypeInv /\ [Next]_vars => TypeInv'
  <1> SUFFICES ASSUME TypeInv, [Next]_vars PROVE TypeInv'
    OBVIOUS
  <1>1. SiteOK' /\ RecsOK'
    BY NextSite, NextRecs
  <1>2. TypeOK'
    BY <1>1, TypeSplits DEF TypeOK, SiteOK, ModeOK, ClockOK, ProviderOK, RowsOK, EventsOK,
       RoundsOK, HistoryOK, RowType, RoundType, RecsOK
  <1> QED
    BY <1>1, <1>2 DEF TypeInv

\* Every variable keeps its type, whatever is published, delivered, lost, failed
\* or decided, for any number of requests.
THEOREM TypeCorrect == Spec => []TypeOK
  <1>1. TypeInv => TypeOK
    BY DEF TypeInv
  <1> QED
    BY <1>1, InitType, NextType, PTL DEF Spec

-----------------------------------------------------------------------------
\* Which step writes what of a row: an upsert the whole, a recruiter the review or the link.
LEMMA WhoWrites ==
  ASSUME TypeInv, [Next]_vars, NEW r \in Results, row'[r] # row[r]
  PROVE  \/ \E x \in Deliveries : /\ Upsert(x) /\ Writes(x, r)
                                  /\ row'[r].review = Reviewed(req[x].review)
                                  /\ row'[r].link = req[x].link /\ row'[r].stamp = req[x].stamp
         \/ /\ row'[r].ver = row[r].ver /\ row'[r].stamp = row[r].stamp
            /\ row'[r].review \in {row[r].review, "confirmed", "dismissed"}
            /\ row'[r].link = row[r].link \/ row'[r].link.by = "manual"
  <1>0. row \in [Results -> RowType]
    BY TypeSplits DEF TypeInv, SiteOK, RowsOK
  <1>1. ASSUME NEW x \in Deliveries, Upsert(x)
        PROVE  /\ Writes(x, r) /\ row'[r].review = Reviewed(req[x].review)
               /\ row'[r].link = req[x].link /\ row'[r].stamp = req[x].stamp
    <2>1. PICK w \in RowType : /\ row' = [row EXCEPT ![req[x].res] = w] /\ w.ver = req[x].ver
                               /\ w.stamp = req[x].stamp
                               /\ w.link = req[x].link /\ w.review = Reviewed(req[x].review)
      BY <1>1, WrittenRow
    <2>2. r = req[x].res /\ row'[r] = w
      BY <1>0, <2>1
    <2>3. PICK y : Over(x, y, req[x].res) /\ (y = Returned(x) \/ y.pc = "check")
      BY <1>1, UpsertRow
    <2>4. Returned(x).pc \in {"mark", "items"} /\ req[x].pc = "upsert"
      BY <1>1, ReturnedOK, Members DEF Upsert, Busy, TypeInv, RecsOK
    <2> QED
      BY <2>1, <2>2, <2>3, <2>4 DEF Writes, Over
  <1>2. ASSUME NEW c \in Clerks, Clerk(c)
        PROVE  /\ row'[r].ver = row[r].ver /\ row'[r].stamp = row[r].stamp
               /\ row'[r].review \in {row[r].review, "confirmed", "dismissed"}
               /\ row'[r].link = row[r].link \/ row'[r].link.by = "manual"
    <2>1. CASE Confirm(c)
      BY <1>0, <2>1 DEF Confirm, RowType
    <2>2. ASSUME NEW q \in Results, Dismiss(c, q)
          PROVE  /\ row'[r].ver = row[r].ver /\ row'[r].stamp = row[r].stamp
                 /\ row'[r].review \in {row[r].review, "confirmed", "dismissed"}
                 /\ row'[r].link = row[r].link
      BY <1>0, <2>2 DEF Dismiss, RowType
    <2>3. ASSUME NEW q \in Results, Relink(c, q)
          PROVE  /\ row'[r].ver = row[r].ver /\ row'[r].stamp = row[r].stamp
                 /\ row'[r].review = row[r].review
                 /\ row'[r].link = row[r].link \/ row'[r].link.by = "manual"
      BY <1>0, <2>3 DEF Relink, RowType
    <2>4. CASE Outcome(c) \/ ClerkFails(c) \/ \E q \in Results : AskConfirm(c, q)
      BY <2>4 DEF Outcome, ClerkFails, AskConfirm
    <2> QED
      BY <1>2, <2>1, <2>2, <2>3, <2>4 DEF Clerk
  <1>3. ASSUME NEW x \in Deliveries, Process(x) \/ ProcessingFails(x) \/ InterviewFails(x) PROVE Upsert(x)
    BY <1>3 DEF Process, Read, Match, Check, SetStatus, ProcessingFails, InterviewFails
  <1>4. ASSUME NEW h \in Hooks PROVE ~ Webhook(h)
    BY <1>4 DEF Webhook, Deliver, Mark, RecordFailure, EventFails
  <1>5. ASSUME NEW s \in Syncs PROVE ~ Sync(s) /\ ~ SyncFails(s)
    BY <1>5 DEF Sync, StartSync, Fetch, NextItem, EndSync, SyncFails
  <1>6. ~ Tick /\ ~ Crash /\ ~ UNCHANGED vars /\ \A q \in Results : ~ Publish(q)
    BY DEF Tick, Crash, vars, Publish
  <1> QED
    BY <1>1, <1>2, <1>3, <1>4, <1>5, <1>6 DEF Next

-----------------------------------------------------------------------------
(* What the requests rely on.                                              *)

\* A stamp lies between the version it goes with and the next one to be published.
Timely(q) == 2 * q.ver <= q.stamp /\ q.stamp <= 2 * ver[q.res] + 1

\* A delivery comes to its read without a trace of earlier ones and with a stamp of its
\* version, a sync only knows what was published, a recruiter only confirms what is stored.
Known(x) ==
    /\ req[x].pc \in {"read", "items"} => ~ req[x].beside
    /\ req[x].pc \in Busy => Timely(req[x])
    /\ \A i \in req[x].items : i[2] <= ver[i[1]]
    /\ req[x].pc = "confirm" => row[req[x].res].ver > 0

RowsDated == \A r \in Results : 2 * row[r].ver <= row[r].stamp /\ row[r].stamp <= 2 * ver[r] + 1
ReqsKnown == \A x \in Requests : Known(x)
KnownInv  == RowsDated /\ ReqsKnown

\* Versions are published one after the other, and a stored result stays.
Growing == \A q \in Results : ver[q] <= ver'[q] /\ (row[q].ver > 0 => row'[q].ver > 0)

LEMMA NextGrows ==
  ASSUME TypeInv, [Next]_vars
  PROVE  Growing
  <1>1. ASSUME NEW q \in Results PROVE ver[q] <= ver'[q]
    <2>1. ver \in [Results -> 0..MaxVersions]
      BY TypeSplits DEF TypeInv, SiteOK, ProviderOK
    <2>2. ASSUME NEW r \in Results, Publish(r) PROVE ver[q] <= ver'[q]
      BY <2>1, <2>2, NatAssumption DEF Publish
    <2>3. ASSUME \A r \in Results : ~ Publish(r) PROVE ver' = ver
      BY <2>3 DEF Next, vars, provider, Webhook, Deliver, Mark, RecordFailure, EventFails,
                  Sync, StartSync, Fetch, NextItem, EndSync, SyncFails,
                  Process, Read, Match, Upsert, Check, SetStatus, ProcessingFails, InterviewFails,
                  Clerk, AskConfirm, Relink, Dismiss, Confirm, Outcome, ClerkFails, Tick, Crash
    <2> QED
      BY <2>1, <2>2, <2>3, NatAssumption
  <1>2. ASSUME NEW q \in Results, row[q].ver > 0 PROVE row'[q].ver > 0
    <2>1. CASE row'[q] = row[q]
      BY <1>2, <2>1
    <2>2. CASE row'[q] # row[q] /\ row'[q].ver = row[q].ver
      BY <1>2, <2>2
    <2>3. CASE row'[q] # row[q] /\ row'[q].ver # row[q].ver
      <3>1. PICK x \in Deliveries : Writes(x, q)
        BY <2>3, WhoWrites
      <3>2. x \in Requests /\ RecOK(x, req[x])
        BY Members DEF TypeInv, RecsOK
      <3>3. row'[q].ver \in 1..MaxVersions
        BY <3>1, <3>2 DEF Writes, RecOK, Busy
      <3> QED
        BY <3>3, NatAssumption
    <2> QED
      BY <2>1, <2>2, <2>3
  <1> QED
    BY <1>1, <1>2 DEF Growing

\* Rows get their stamps from deliveries.
LEMMA NextDated ==
  ASSUME TypeInv, TypeInv', KnownInv, [Next]_vars
  PROVE  RowsDated'
  <1> SUFFICES ASSUME NEW r \in Results
               PROVE  2 * row'[r].ver <= row'[r].stamp /\ row'[r].stamp <= 2 * ver'[r] + 1
    BY DEF RowsDated
  <1>1. ver[r] \in Nat /\ ver'[r] \in Nat /\ ver[r] <= ver'[r]
    BY NextGrows, NatAssumption DEF Growing, TypeInv, TypeOK
  <1>2. row[r].ver \in Nat /\ row[r].stamp \in Nat /\ row'[r].stamp \in Nat /\ row'[r].ver \in Nat
    BY NatAssumption, TypeSplits DEF TypeInv, SiteOK, RowsOK, RowType, TypeOK
  <1>3. CASE row'[r].ver = row[r].ver /\ row'[r].stamp = row[r].stamp
    BY <1>1, <1>2, <1>3 DEF KnownInv, RowsDated
  <1>4. ASSUME NEW x \in Deliveries, Upsert(x), Writes(x, r), row'[r].stamp = req[x].stamp
        PROVE  2 * row'[r].ver <= row'[r].stamp /\ row'[r].stamp <= 2 * ver'[r] + 1
    <2>1. Timely(req[x]) /\ req[x].res = r /\ row'[r].ver = req[x].ver
      BY <1>4, Members DEF KnownInv, ReqsKnown, Known, Writes, Busy
    <2> QED
      BY <1>1, <1>2, <1>4, <2>1 DEF Timely
  <1> QED
    BY <1>3, <1>4, WhoWrites

\* A stamp stays timely while versions are published.
LEMMA TimelyStays ==
  ASSUME TypeInv, TypeInv', Growing, NEW q, q \in Locals, q.res \in Results,
         2 * q.ver <= q.stamp, q.stamp <= 2 * ver[q.res] + 1
  PROVE  2 * q.ver <= q.stamp /\ q.stamp <= 2 * ver'[q.res] + 1
  <1>1. ver[q.res] \in Nat /\ ver'[q.res] \in Nat /\ ver[q.res] <= ver'[q.res] /\ q.stamp \in Nat
    BY NatAssumption DEF Growing, TypeInv, TypeOK, Locals
  <1> QED
    BY <1>1

LEMMA KnownStays ==
  ASSUME TypeInv, TypeInv', Growing, NEW z \in Requests, Known(z), NEW r,
         req'[z] = req[z] \/ req'[z] = Overtaken(z, r)
  PROVE  Known(z)'
  <1>1. RecOK(z, req[z]) /\ req[z] \in Locals
    BY DEF TypeInv, RecsOK, RecOK
  <1>2. /\ req'[z].pc = req[z].pc /\ req'[z].res = req[z].res /\ req'[z].items = req[z].items
        /\ req'[z].ver = req[z].ver /\ req'[z].stamp = req[z].stamp
        /\ req'[z].beside = req[z].beside \/ req[z].pc \in {"match", "upsert"}
    BY <1>1, OvertakenOK
  <1>3. req[z].pc = "confirm" => req[z].res \in Results
    BY <1>1 DEF RecOK
  <1>4. ASSUME NEW i \in req[z].items PROVE i[2] <= ver'[i[1]]
    <2>1. i \in Results \X (1..MaxVersions)
      BY <1>1, <1>4 DEF Locals
    <2>2. i[1] \in Results /\ i[2] \in Nat /\ i[2] <= ver[i[1]] /\ ver[i[1]] <= ver'[i[1]]
      BY <1>4, <2>1, NatAssumption DEF Known, Growing
    <2>3. ver[i[1]] \in Nat /\ ver'[i[1]] \in Nat
      BY <2>2, NatAssumption DEF TypeInv, TypeOK
    <2> QED
      BY <2>2, <2>3
  <1>5. ASSUME req[z].pc \in Busy
        PROVE  2 * req[z].ver <= req[z].stamp /\ req[z].stamp <= 2 * ver'[req[z].res] + 1
    BY <1>1, <1>5, TimelyStays DEF RecOK, Known, Timely
  <1> QED
    BY <1>2, <1>3, <1>4, <1>5 DEF Known, Growing, Timely

LEMMA KnownStep ==
  ASSUME TypeInv, TypeInv', Growing, ReqsKnown, NEW x \in Requests, NEW y, NEW r,
         Only(x, y) \/ Over(x, y, r), Known(x)'
  PROVE  ReqsKnown'
  BY KnownStays DEF ReqsKnown, Only, Over

\* Most steps of a request leave its list of items or take from it.
LEMMA KnownLess ==
  ASSUME TypeInv, TypeInv', Growing, ReqsKnown, NEW x \in Requests, NEW y, NEW r,
         Only(x, y) \/ Over(x, y, r), y.items \subseteq req[x].items,
         y.pc \in {"read", "items"} => ~ y.beside, y.pc # "confirm",
         y.pc \in Busy => Timely(y)
  PROVE  ReqsKnown'
  <1>1. req'[x] = y /\ req[x] \in Locals
    BY DEF Only, Over, TypeInv, TypeOK
  <1>2. ASSUME NEW i \in y.items PROVE i[2] <= ver'[i[1]]
    <2>1. i \in Results \X (1..MaxVersions) /\ i \in req[x].items
      BY <1>1, <1>2 DEF Locals
    <2>2. i[1] \in Results /\ i[2] \in Nat /\ i[2] <= ver[i[1]] /\ ver[i[1]] <= ver'[i[1]]
      BY <2>1, NatAssumption DEF ReqsKnown, Known, Growing
    <2>3. ver[i[1]] \in Nat /\ ver'[i[1]] \in Nat
      BY <2>2, NatAssumption DEF TypeInv, TypeOK
    <2> QED
      BY <2>2, <2>3
  <1>3. y.pc \in Busy => y \in Locals /\ y.res \in Results
    BY DEF Only, Over, RecOK
  <1>4. y.pc \in Busy => 2 * y.ver <= y.stamp /\ y.stamp <= 2 * ver'[y.res] + 1
    BY <1>3, TimelyStays DEF Timely
  <1>5. Known(x)'
    BY <1>1, <1>2, <1>4 DEF Known, Timely
  <1> QED
    BY <1>5, KnownStep

LEMMA ProcessKnown ==
  ASSUME TypeInv, TypeInv', Growing, ReqsKnown, NEW x \in Deliveries,
         Process(x) \/ ProcessingFails(x) \/ InterviewFails(x)
  PROVE  ReqsKnown'
  <1>0. /\ x \in Requests /\ RecOK(x, req[x]) /\ req[x].pc \in Busy
    BY Members DEF TypeInv, RecsOK, RecOK, Busy, Process, ProcessingFails, InterviewFails,
                   Read, Match, Upsert, Check, SetStatus
  <1>1. /\ Returned(x).pc \in {"mark", "items"} /\ ~ Returned(x).beside
        /\ Returned(x).items \subseteq req[x].items /\ Timely(req[x])
    BY <1>0, ReturnedOK, Members DEF ReqsKnown, Known
  <1>2. ASSUME NEW r, Only(x, Returned(x)) \/ Over(x, Returned(x), r) PROVE ReqsKnown'
    BY <1>0, <1>1, <1>2, KnownLess DEF Busy
  <1>3. ASSUME NEW y, NEW r, Only(x, y) \/ Over(x, y, r), Kept(req[x], y),
               y.pc \notin {"read", "items", "confirm"}
        PROVE  ReqsKnown'
    <2>1. Timely(y)
      BY <1>1, <1>3 DEF Kept, Timely
    <2> QED
      BY <1>0, <1>3, <2>1, KnownLess DEF Kept
  <1>4. CASE Read(x)
    <2>1. \/ Only(x, Returned(x))
          \/ \E y : Only(x, y) /\ Kept(req[x], y) /\ y.pc \in {"match", "upsert"}
      BY <1>4, ReadRow
    <2> QED
      BY <1>2, <1>3, <2>1
  <1>5. CASE Match(x)
    BY <1>3, <1>5, MatchRow
  <1>6. CASE Upsert(x)
    BY <1>2, <1>3, <1>6, UpsertRow
  <1>7. CASE Check(x)
    BY <1>2, <1>3, <1>7, CheckRow
  <1>8. CASE SetStatus(x) \/ InterviewFails(x)
    BY <1>0, <1>2, <1>8, ReturnRow DEF SetStatus, InterviewFails
  <1>9. CASE ProcessingFails(x) /\ x \in Hooks
    BY <1>3, <1>9, FailedRow DEF ProcessingFails, Move
  <1>10. CASE ProcessingFails(x) /\ x \notin Hooks
    BY <1>0, <1>2, <1>10, ReturnRow DEF ProcessingFails
  <1> QED
    BY <1>4, <1>5, <1>6, <1>7, <1>8, <1>9, <1>10 DEF Process

LEMMA NextKnown == TypeInv /\ TypeInv' /\ KnownInv /\ [Next]_vars => KnownInv'
  <1> SUFFICES ASSUME TypeInv, TypeInv', KnownInv, [Next]_vars PROVE ReqsKnown'
    BY NextDated DEF KnownInv
  <1>0. Growing /\ ReqsKnown /\ Idle.items = {} /\ Idle.pc \notin Busy /\ Idle.pc = "idle"
    BY NextGrows DEF Idle, Busy, KnownInv
  <1>1. CASE UNCHANGED vars \/ Tick \/ \E r \in Results : Publish(r)
    <2>1. req' = req
      BY <1>1 DEF vars, Tick, Publish
    <2> QED
      BY <1>0, <2>1, KnownStays DEF ReqsKnown
  <1>2. ASSUME NEW x \in Requests, req' = [req EXCEPT ![x] = Idle] PROVE ReqsKnown'
    BY <1>0, <1>2, IdleRow, KnownLess
  <1>3. ASSUME NEW h \in Hooks, Webhook(h) PROVE ReqsKnown'
    <2>1. ASSUME NEW r \in Results, NEW v \in 1..MaxVersions, Deliver(h, r, v) PROVE ReqsKnown'
      <3>1. PICK y : /\ Only(h, y) /\ y.pc = "read" /\ ~ y.beside /\ y.items = {}
                     /\ y.res = r /\ y.ver = v /\ v <= ver[r] /\ y.stamp \in {2 * v, 2 * ver[r] + 1}
        BY <2>1, DeliverRow
      <3>2. v \in Nat /\ ver[r] \in Nat
        BY NatAssumption DEF TypeInv, TypeOK
      <3>3. Timely(y)
        BY <3>1, <3>2 DEF Timely
      <3> QED
        BY <1>0, <3>1, <3>3, KnownLess, Members
    <2>2. CASE EventFails(h) /\ req[h].pc = "mark"
      <3>1. req' = [req EXCEPT ![h].pc = "failed"]
        BY <2>2 DEF EventFails
      <3>2. PICK y : Only(h, y) /\ Kept(req[h], y) /\ y.pc = "failed"
        BY <2>2, <3>1, FailedRow
      <3> QED
        BY <1>0, <3>2, KnownLess, Members DEF Kept, Busy
    <2>3. CASE Mark(h) \/ RecordFailure(h) \/ (EventFails(h) /\ req[h].pc # "mark")
      BY <1>2, <2>3, Members DEF Mark, RecordFailure, EventFails
    <2> QED
      BY <1>3, <2>1, <2>2, <2>3 DEF Webhook
  <1>4. ASSUME NEW s \in Syncs, Sync(s) \/ SyncFails(s) PROVE ReqsKnown'
    <2>0. s \in Requests
      BY Members
    <2>1. CASE StartSync(s)
      <3>1. PICK y : Only(s, y) /\ y.pc = "fetch" /\ y.items = {}
        BY <2>1, StartRow
      <3> QED
        BY <1>0, <2>0, <3>1, KnownLess DEF Busy
    <2>2. CASE Fetch(s)
      <3>1. PICK y : /\ Only(s, y) /\ y.pc = "items" /\ ~ y.beside
                     /\ \E page \in SUBSET Changed(req[s].since) :
                           y.items = {<<r, ver[r]>> : r \in page}
        BY <2>2, FetchRow
      <3>2. ASSUME NEW i \in y.items PROVE i[2] <= ver'[i[1]]
        <4>1. PICK r \in Results : i = <<r, ver[r]>>
          BY <3>1, <3>2 DEF Changed
        <4> QED
          BY <1>0, <4>1 DEF Growing
      <3>3. Known(s)'
        BY <3>1, <3>2 DEF Known, Only, Busy
      <3> QED
        BY <1>0, <2>0, <3>1, <3>3, KnownStep
    <2>3. CASE NextItem(s)
      <3>1. PICK y : /\ Only(s, y) /\ y.pc = "read" /\ y.beside = req[s].beside
                     /\ <<y.res, y.ver>> \in req[s].items /\ y.items \subseteq req[s].items
                     /\ y.stamp \in {2 * y.ver, 2 * ver[y.res] + 1}
        BY <2>3, NextItemRow
      <3>2. ~ req[s].beside /\ y.ver <= ver[y.res]
        BY <1>0, <2>0, <2>3, <3>1 DEF NextItem, ReqsKnown, Known
      <3>3. y.ver \in Nat /\ ver[y.res] \in Nat
        BY <3>1, NatAssumption DEF Only, RecOK, Busy, TypeInv, TypeOK
      <3>4. Timely(y)
        BY <3>1, <3>2, <3>3 DEF Timely
      <3> QED
        BY <1>0, <2>0, <3>1, <3>2, <3>4, KnownLess
    <2>4. CASE EndSync(s) \/ SyncFails(s)
      BY <1>2, <2>0, <2>4 DEF EndSync, SyncFails
    <2> QED
      BY <1>4, <2>1, <2>2, <2>3, <2>4 DEF Sync
  <1>5. ASSUME NEW c \in Clerks, Clerk(c) PROVE ReqsKnown'
    <2>0. c \in Requests
      BY Members
    <2>1. ASSUME NEW r \in Results, AskConfirm(c, r) PROVE ReqsKnown'
      <3>1. PICK y : Only(c, y) /\ y.pc = "confirm" /\ y.res = r /\ y.items = {}
        BY <2>1, AskRow
      <3>2. row'[r].ver > 0
        BY <1>0, <2>1 DEF AskConfirm, Growing
      <3>3. Known(c)'
        BY <3>1, <3>2 DEF Known, Only, Busy
      <3> QED
        BY <1>0, <2>0, <3>1, <3>3, KnownStep
    <2>2. ASSUME NEW r \in Results, Relink(c, r) \/ Dismiss(c, r) PROVE ReqsKnown'
      <3>1. Over(c, req[c], r) /\ req[c].pc = "idle"
        BY <2>2, ReviewRow DEF Relink, Dismiss
      <3> QED
        BY <1>0, <2>0, <3>1, KnownLess DEF Busy
    <2>3. CASE Confirm(c)
      <3>1. PICK y : /\ Over(c, y, req[c].res) /\ y.pc \in {"idle", "outcome"}
                     /\ y.items \subseteq req[c].items
        BY <2>3, ConfirmRow
      <3> QED
        BY <1>0, <2>0, <3>1, KnownLess DEF Busy
    <2>4. CASE Outcome(c) \/ ClerkFails(c)
      BY <1>2, <2>0, <2>4 DEF Outcome, ClerkFails
    <2> QED
      BY <1>5, <2>1, <2>2, <2>3, <2>4 DEF Clerk
  <1>6. CASE Crash
    BY <1>0, <1>6 DEF Crash, ReqsKnown, Known
  <1> QED
    BY <1>0, <1>1, <1>3, <1>4, <1>5, <1>6, ProcessKnown DEF Next

LEMMA InitKnown == Init => KnownInv
  BY DEF Init, KnownInv, RowsDated, ReqsKnown, Known, Idle, NoRow, Busy

-----------------------------------------------------------------------------
(* The window of the next poll.                                            *)

Held   == {"read", "match", "upsert"}
Before == {"idle", "fetch"}
Behind(r) == row[r].ver < ver[r] /\ r \notin excused

\* The sync s can still store the latest version of r, or need not: the next
\* poll asks for what came since s fetched.
OnHand(s, r) ==
    \/ upd[r] >= req[s].at
    \/ <<r, ver[r]>> \in req[s].items
    \/ req[s].pc \in Held /\ req[s].res = r /\ req[s].ver = ver[r]

SyncOK(s) ==
    /\ req[s].pc = "fetch" => req[s].since <= lastSync
    /\ req[s].pc \notin Before =>
          /\ req[s].at <= now /\ now <= req[s].at + Overlap
          /\ \A r \in Results : Behind(r) => OnHand(s, r)

Past   == lastSync <= now /\ \A r \in Results : upd[r] <= now
Window == \A r \in Results : Behind(r) => upd[r] + Overlap >= lastSync
GapInv == Past /\ Window /\ \A s \in Syncs : SyncOK(s)

\* The clock and the provider stay, and no result falls behind.
Calm == /\ UNCHANGED <<ver, upd, now, lastSync>>
        /\ \A r \in Results : Behind(r)' => Behind(r)

Steady(x, y) == /\ y.pc = x.pc /\ y.res = x.res /\ y.ver = x.ver
                /\ y.since = x.since /\ y.at = x.at /\ y.items = x.items

LEMMA SteadySync ==
  ASSUME NEW s \in Syncs, SyncOK(s), Calm, Steady(req[s], req'[s])
  PROVE  SyncOK(s)'
  BY DEF SyncOK, Calm, Steady, OnHand

LEMMA IdleSync ==
  ASSUME NEW s \in Syncs, req'[s].pc = "idle"
  PROVE  SyncOK(s)'
  BY DEF SyncOK, Before

\* A sync goes on with an item: what it held it still holds, or it is stored.
LEMMA DrainedSync ==
  ASSUME NEW s \in Syncs, SyncOK(s), Calm,
         req[s].pc \notin Before, req'[s].pc \notin Before,
         req'[s].at = req[s].at, req'[s].items = req[s].items,
         \A r \in Results :
            Behind(r)' /\ req[s].pc \in Held /\ req[s].res = r /\ req[s].ver = ver[r]
               => req'[s].pc \in Held /\ req'[s].res = r /\ req'[s].ver = ver[r]
  PROVE  SyncOK(s)'
  <1>1. req[s].at <= now /\ now <= req[s].at + Overlap /\ now' = now /\ ver' = ver /\ upd' = upd
    BY DEF SyncOK, Calm
  <1>2. ASSUME NEW r \in Results, Behind(r)' PROVE OnHand(s, r)'
    <2>1. OnHand(s, r)
      BY <1>2 DEF SyncOK, Calm
    <2> QED
      BY <1>1, <1>2, <2>1 DEF OnHand
  <1>3. req'[s].pc # "fetch"
    BY DEF Before
  <1> QED
    BY <1>1, <1>2, <1>3 DEF SyncOK

LEMMA CalmGap ==
  ASSUME GapInv, Calm, \A s \in Syncs : SyncOK(s)'
  PROVE  GapInv'
  <1>1. Past'
    BY DEF GapInv, Past, Calm
  <1>2. Window'
    BY DEF GapInv, Window, Calm
  <1> QED
    BY <1>1, <1>2 DEF GapInv

LEMMA OthersSteady ==
  ASSUME TypeInv, NEW x \in Requests, NEW y, NEW r, Only(x, y) \/ Over(x, y, r)
  PROVE  \A s \in Syncs \ {x} : Steady(req[s], req'[s])
  <1>1. \A s \in Syncs : s \in Requests /\ RecOK(s, req[s])
    BY Members DEF TypeInv, RecsOK
  <1> QED
    BY <1>1, OvertakenOK DEF Only, Over, Steady

\* What leaves rows and excuses alone makes no result fall behind.
LEMMA SameRows ==
  ASSUME UNCHANGED <<ver, upd, now, lastSync>>,
         \A r \in Results : row'[r].ver = row[r].ver /\ (r \in excused => r \in excused')
  PROVE  Calm
  BY DEF Calm, Behind

LEMMA UpsertCalm ==
  ASSUME TypeInv, NEW x \in Deliveries, Upsert(x)
  PROVE  Calm /\ \A q \in Results : q = req[x].res /\ req[x].ver = ver[q] => ~ Behind(q)'
  <1>1. req[x].res \in Results /\ req[x].ver \in 1..MaxVersions
    BY Members DEF TypeInv, RecsOK, RecOK, Busy, Upsert
  <1>2. PICK w \in RowType : row' = [row EXCEPT ![req[x].res] = w] /\ w.ver = req[x].ver
    BY WrittenRow
  <1>3. row \in [Results -> RowType] /\ ver \in [Results -> 0..MaxVersions]
    BY TypeSplits DEF TypeInv, SiteOK, RowsOK, ProviderOK
  <1>4. \A r \in Results : row'[r].ver = IF r = req[x].res THEN req[x].ver ELSE row[r].ver
    BY <1>1, <1>2, <1>3
  <1>5. UNCHANGED <<ver, upd, now, lastSync>>
    BY DEF Upsert, provider
  <1>6. excused' = IF req[x].ver = ver[req[x].res] THEN excused \ {req[x].res}
                   ELSE IF req[x].ver < row[req[x].res].ver \/ req[x].stamp > 2 * ver[req[x].res]
                        THEN excused \cup {req[x].res} ELSE excused
    BY DEF Upsert
  <1>7. \A r \in Results : row[r].ver \in 0..MaxVersions /\ ver[r] \in 0..MaxVersions
    BY <1>3 DEF RowType
  <1>8. ASSUME NEW r \in Results, Behind(r)' PROVE Behind(r)
    BY <1>1, <1>4, <1>5, <1>6, <1>7, <1>8 DEF Behind
  <1>9. ASSUME NEW q \in Results, q = req[x].res, req[x].ver = ver[q] PROVE ~ Behind(q)'
    BY <1>1, <1>4, <1>5, <1>7, <1>9 DEF Behind
  <1> QED
    BY <1>5, <1>8, <1>9 DEF Calm

\* A row that is behind looks no newer than the version that it misses.
Shut == \A r \in Results : Behind(r) => row[r].stamp <= 2 * ver[r]

LEMMA NextShut == TypeInv /\ KnownInv /\ Shut /\ [Next]_vars => Shut'
  <1> SUFFICES ASSUME TypeInv, KnownInv, Shut, [Next]_vars, NEW r \in Results, Behind(r)'
               PROVE  row'[r].stamp <= 2 * ver'[r]
    BY DEF Shut
  <1>0. row \in [Results -> RowType] /\ ver \in [Results -> 0..MaxVersions]
    BY TypeSplits DEF TypeInv, SiteOK, RowsOK, ProviderOK
  <1>t. row[r].stamp \in Nat /\ row[r].ver \in Nat /\ ver[r] \in Nat
    BY <1>0, NatAssumption DEF RowType
  <1>1. ASSUME NEW q \in Results, Publish(q) PROVE row'[r].stamp <= 2 * ver'[r]
    <2>1. CASE q = r
      <3>1. ver'[r] = ver[r] + 1 /\ row'[r] = row[r] /\ row[r].stamp <= 2 * ver[r] + 1
        BY <1>0, <1>1, <2>1 DEF Publish, KnownInv, RowsDated
      <3> QED
        BY <1>t, <3>1
    <2>2. CASE q # r
      BY <1>0, <1>1, <2>2 DEF Publish, Shut, Behind
    <2> QED
      BY <2>1, <2>2
  <1>2. ASSUME NEW x \in Deliveries, Upsert(x) PROVE row'[r].stamp <= 2 * ver'[r]
    <2>0. req[x].res \in Results /\ req[x].stamp \in Nat
      BY <1>2, Members DEF Upsert, TypeInv, RecsOK, RecOK, Busy, Locals
    <2>1. CASE r = req[x].res
      <3>1. PICK w \in RowType : /\ row' = [row EXCEPT ![req[x].res] = w]
                                 /\ w.ver = req[x].ver /\ w.stamp = req[x].stamp
        BY <1>2, WrittenRow
      <3>2. row'[r].ver = req[x].ver /\ row'[r].stamp = req[x].stamp /\ ver' = ver
        BY <1>0, <1>2, <2>1, <3>1 DEF Upsert, provider
      <3>3. req[x].ver # ver[r]
        BY <1>t, <3>2 DEF Behind
      <3>4. ~ (req[x].stamp > 2 * ver[r])
        BY <1>2, <2>1, <3>3 DEF Upsert, Behind
      <3> QED
        BY <1>t, <2>0, <3>2, <3>4
    <2>2. CASE r # req[x].res
      <3>1. row'[r] = row[r] /\ ver' = ver /\ (r \in excused => r \in excused')
        BY <1>0, <1>2, <2>2 DEF Upsert, provider
      <3> QED
        BY <3>1 DEF Shut, Behind
    <2> QED
      BY <2>1, <2>2
  <1>3. ASSUME \A q \in Results : ~ Publish(q), \A x \in Deliveries : ~ Upsert(x)
        PROVE  row'[r].stamp <= 2 * ver'[r]
    <2>1. row'[r].ver = row[r].ver /\ row'[r].stamp = row[r].stamp
      BY <1>3, WhoWrites
    <2>2. ver' = ver /\ (r \in excused => r \in excused')
      BY <1>3 DEF Next, vars, provider, history, Webhook, Deliver, Mark, RecordFailure, EventFails,
                  Sync, StartSync, Fetch, NextItem, EndSync, SyncFails,
                  Process, Read, Match, Check, SetStatus, ProcessingFails, InterviewFails,
                  Clerk, AskConfirm, Relink, Dismiss, Confirm, Outcome, ClerkFails, Tick, Crash
    <2> QED
      BY <2>1, <2>2 DEF Shut, Behind
  <1> QED
    BY <1>1, <1>2, <1>3

\* A delivery of the latest version, with a stamp of it, finds a row that is behind not
\* outdating it.
LEMMA LatestIsTaken ==
  ASSUME TypeInv, KnownInv, Shut, NEW x \in Requests, req[x].pc \in Busy,
         \/ Outdated(req[x].res, req[x].ver, req[x].stamp)
         \/ Tied(req[x].res, req[x].ver, req[x].stamp),
         req[x].ver = ver[req[x].res]
  PROVE  ~ Behind(req[x].res)
  <1>1. req[x].res \in Results /\ req[x].stamp \in Nat /\ Timely(req[x])
    BY DEF TypeInv, RecsOK, RecOK, Busy, Locals, KnownInv, ReqsKnown, Known
  <1>2. /\ row[req[x].res].stamp \in Nat /\ row[req[x].res].ver \in Nat /\ ver[req[x].res] \in Nat
    BY <1>1, NatAssumption, TypeSplits DEF TypeInv, SiteOK, RowsOK, RowType, ProviderOK
  <1> QED
    BY <1>1, <1>2 DEF Shut, Behind, Outdated, Identical, Tied, Timely

\* A sync processes its item.
LEMMA ProcessGap ==
  ASSUME TypeInv, KnownInv, Shut, GapInv, NEW x \in Deliveries,
         Process(x) \/ ProcessingFails(x) \/ InterviewFails(x)
  PROVE  GapInv'
  <1>0. /\ x \in Requests /\ RecOK(x, req[x]) /\ req[x].pc \in Busy /\ req[x].res \in Results
        /\ req[x].ver \in 1..MaxVersions
    BY Members DEF TypeInv, RecsOK, RecOK, Busy, Process, ProcessingFails, InterviewFails,
                   Read, Match, Upsert, Check, SetStatus
  <1>r. PICK r \in Results : r = req[x].res
    BY <1>0
  <1>1. SUFFICES /\ Calm /\ \A s \in Syncs \ {x} : Steady(req[s], req'[s])
                 /\ x \in Syncs => SyncOK(x)'
    BY CalmGap, SteadySync DEF GapInv
  <1>2. ASSUME NEW y, Only(x, y) \/ Over(x, y, r) PROVE \A s \in Syncs \ {x} : Steady(req[s], req'[s])
    BY <1>r, <1>0, <1>2, OthersSteady
  <1>3. /\ req[x].pc \notin Before /\ (x \in Syncs => SyncOK(x))
        /\ x \in Syncs => /\ Returned(x).pc \notin Before /\ Returned(x).at = req[x].at
                          /\ Returned(x).items = req[x].items
    BY <1>r, <1>0, ReturnedOK DEF Busy, Before, GapInv
  <1>4. ver \in [Results -> 0..MaxVersions] /\ \A q \in Results : row[q].ver \in 0..MaxVersions
    BY TypeSplits DEF TypeInv, SiteOK, RowsOK, ProviderOK, RowType
  <1>5. CASE Read(x)
    <2>1. Calm
      BY <1>r, <1>5, SameRows DEF Read, provider, history
    <2>2. CASE /\ \/ Outdated(r, req[x].ver, req[x].stamp)
                  \/ Tied(r, req[x].ver, req[x].stamp)
               /\ Only(x, Returned(x))
      <3>1. req[x].ver = ver[r] => ~ Behind(r)
        BY <1>r, <1>0, <2>2, LatestIsTaken
      <3>2. req[x].ver = ver[r] => ~ Behind(r)'
        BY <3>1, <2>1 DEF Calm
      <3> QED
        BY <1>r, <1>2, <1>3, <2>1, <2>2, <3>2, DrainedSync DEF Only
    <2>3. ASSUME NEW y, Only(x, y), Kept(req[x], y), y.pc \in {"match", "upsert"}
          PROVE  /\ \A s \in Syncs \ {x} : Steady(req[s], req'[s])
                 /\ x \in Syncs => SyncOK(x)'
      BY <1>r, <1>2, <1>3, <2>1, <2>3, DrainedSync DEF Only, Kept, Held, Before
    <2> QED
      BY <1>r, <1>5, <2>1, <2>2, <2>3, ReadRow
  <1>6. CASE Match(x)
    <2>1. Calm
      BY <1>r, <1>6, SameRows DEF Match, provider, history
    <2>2. PICK y : Only(x, y) /\ Kept(req[x], y) /\ y.pc = "upsert"
      BY <1>r, <1>6, MatchRow
    <2> QED
      BY <1>r, <1>2, <1>3, <2>1, <2>2, DrainedSync DEF Only, Kept, Held, Before
  <1>7. CASE Upsert(x)
    <2>1. Calm /\ (req[x].ver = ver[r] => ~ Behind(r)')
      BY <1>r, <1>7, UpsertCalm
    <2>2. PICK y : /\ Over(x, y, r)
                   /\ y = Returned(x) \/ (y.pc = "check" /\ Kept(req[x], y))
      BY <1>r, <1>7, UpsertRow
    <2>3. x \in Syncs => y.pc \notin Before /\ y.at = req[x].at /\ y.items = req[x].items
      BY <1>r, <1>3, <2>2 DEF Kept, Before
    <2>4. req'[x] = y
      BY <2>2 DEF Over
    <2>5. x \in Syncs => SyncOK(x)'
      BY <1>r, <1>3, <2>1, <2>3, <2>4, DrainedSync
    <2> QED
      BY <1>r, <1>2, <2>1, <2>2, <2>5
  <1>8. CASE Check(x) \/ SetStatus(x) \/ InterviewFails(x)
    <2>1. Calm /\ req[x].pc \notin Held
      BY <1>r, <1>8, SameRows DEF Check, SetStatus, InterviewFails, Fault, provider, history, Held
    <2>2. PICK y : Only(x, y) /\ (y = Returned(x) \/ (y.pc = "status" /\ Kept(req[x], y)))
      BY <1>r, <1>0, <1>8, CheckRow, ReturnRow DEF SetStatus, InterviewFails
    <2>3. x \in Syncs => y.pc \notin Before /\ y.at = req[x].at /\ y.items = req[x].items
      BY <1>r, <1>3, <2>2 DEF Kept, Before
    <2> QED
      BY <1>r, <1>2, <1>3, <2>1, <2>2, <2>3, DrainedSync DEF Only
  <1>9. CASE ProcessingFails(x)
    <2>1. Calm
      BY <1>r, <1>9, SameRows DEF ProcessingFails, Fault, provider
    <2>2. CASE x \in Hooks
      <3>1. PICK y : Only(x, y)
        BY <1>r, <1>9, <2>2, FailedRow DEF ProcessingFails, Move
      <3>2. x \notin Syncs
        BY <2>2, Members
      <3> QED
        BY <1>r, <1>2, <2>1, <3>1, <3>2
    <2>3. CASE x \notin Hooks
      <3>1. Only(x, Returned(x)) /\ (req[x].ver = ver[r] => r \in excused')
        BY <1>r, <1>0, <1>9, <2>3, ReturnRow, Members DEF ProcessingFails
      <3>2. req[x].ver = ver[r] => ~ Behind(r)'
        BY <3>1 DEF Behind
      <3> QED
        BY <1>r, <1>2, <1>3, <2>1, <3>1, <3>2, DrainedSync DEF Only
    <2> QED
      BY <2>2, <2>3
  <1> QED
    BY <1>r, <1>5, <1>6, <1>7, <1>8, <1>9 DEF Process

\* A sync fetches, ends, fails or takes up an item.
LEMMA SyncGap ==
  ASSUME TypeInv, GapInv, NEW s \in Syncs, Sync(s) \/ SyncFails(s)
  PROVE  GapInv'
  <1>0. s \in Requests /\ req[s] \in Locals /\ SyncOK(s) /\ lastSync \in Nat /\ now \in Nat
    BY Members, TypeSplits DEF TypeInv, RecsOK, GapInv, SiteOK, ClockOK
  <1>1. ASSUME NEW y, Only(s, y) PROVE \A z \in Syncs \ {s} : Steady(req[z], req'[z])
    BY <1>0, <1>1, OthersSteady
  <1>2. ver \in [Results -> 0..MaxVersions] /\ \A q \in Results : row[q].ver \in 0..MaxVersions /\ upd[q] \in Nat
    BY TypeSplits DEF TypeInv, SiteOK, RowsOK, ProviderOK, RowType
  <1>3. CASE StartSync(s)
    <2>1. Calm
      BY <1>3, SameRows DEF StartSync, provider, history
    <2>2. PICK y : Only(s, y) /\ y.pc = "fetch" /\ y.since = lastSync
      BY <1>3, StartRow
    <2>3. SyncOK(s)'
      BY <1>0, <2>1, <2>2 DEF SyncOK, Only, Before, Calm
    <2> QED
      BY <1>1, <2>1, <2>2, <2>3, SteadySync, CalmGap DEF GapInv
  <1>4. CASE Fetch(s)
    <2>0. PICK y : \E page \in SUBSET Changed(req[s].since) :
             /\ Only(s, y) /\ y.pc = "items" /\ y.at = now
             /\ y.items = {<<r, ver[r]>> : r \in page}
             /\ excused' = excused \cup {r \in Changed(req[s].since) \ page : row[r].ver < ver[r]}
      BY <1>4, FetchRow
    <2>2. PICK page \in SUBSET Changed(req[s].since) :
             /\ Only(s, y) /\ y.pc = "items" /\ y.at = now
             /\ y.items = {<<r, ver[r]>> : r \in page}
             /\ excused' = excused \cup {r \in Changed(req[s].since) \ page : row[r].ver < ver[r]}
      BY <2>0
    <2>r. UNCHANGED <<ver, upd, now, lastSync, row>>
      BY <1>4 DEF Fetch, provider
    <2>1. Calm
      BY <2>2, <2>r, SameRows
    <2>3. req[s].since <= lastSync /\ req[s].since \in Nat
      BY <1>0, <1>4 DEF SyncOK, Fetch, Locals
    <2>4. ASSUME NEW r \in Results, Behind(r)' PROVE <<r, ver[r]>> \in y.items
      <3>1. row[r].ver < ver[r] /\ upd[r] + Overlap >= lastSync
        BY <2>1, <2>4 DEF GapInv, Window, Calm, Behind
      <3>2. r \in Changed(req[s].since)
        BY <1>0, <1>2, <2>3, <3>1, NatAssumption DEF Changed
      <3>3. r \in page
        BY <2>2, <2>4, <3>1, <3>2 DEF Behind
      <3> QED
        BY <2>2, <3>3
    <2>5. SyncOK(s)'
      <3>1. /\ req'[s] = y /\ now' = now /\ ver' = ver
        BY <2>1, <2>2 DEF Only, Calm
      <3>2. \A r \in Results : Behind(r)' => OnHand(s, r)'
        BY <2>4, <3>1 DEF OnHand
      <3> QED
        BY <1>0, <2>2, <3>1, <3>2, NatAssumption DEF SyncOK, Before
    <2> QED
      BY <1>1, <2>1, <2>2, <2>5, SteadySync, CalmGap DEF GapInv
  <1>5. CASE NextItem(s)
    <2>1. Calm
      BY <1>5, SameRows DEF NextItem, provider, history
    <2>2. PICK y : \E i \in req[s].items :
             /\ Only(s, y) /\ y.pc = "read" /\ i = <<y.res, y.ver>> /\ y.items = req[s].items \ {i}
             /\ y.at = req[s].at
      BY <1>5, NextItemRow
    <2>i. PICK i \in req[s].items : i = <<y.res, y.ver>> /\ y.items = req[s].items \ {i}
      BY <2>2
    <2>3. /\ req[s].pc = "items" /\ req'[s] = y /\ now' = now /\ ver' = ver /\ upd' = upd
          /\ req[s].at <= now /\ now <= req[s].at + Overlap
      BY <1>0, <1>5, <2>1, <2>2 DEF NextItem, Only, Calm, SyncOK, Before
    <2>4. ASSUME NEW r \in Results, Behind(r)' PROVE OnHand(s, r)'
      <3>1. upd[r] >= req[s].at \/ <<r, ver[r]>> \in req[s].items
        BY <1>0, <2>1, <2>3, <2>4 DEF SyncOK, OnHand, Calm, Held, Before
      <3>2. CASE <<r, ver[r]>> = i
        BY <2>2, <2>i, <2>3, <3>2 DEF OnHand, Held
      <3>3. CASE <<r, ver[r]>> # i
        BY <2>2, <2>i, <2>3, <3>1, <3>3 DEF OnHand
      <3> QED
        BY <3>2, <3>3
    <2>5. SyncOK(s)'
      BY <2>2, <2>3, <2>4 DEF SyncOK, Before
    <2> QED
      BY <1>1, <2>1, <2>2, <2>5, SteadySync, CalmGap DEF GapInv
  <1>6. CASE SyncFails(s)
    <2>1. Calm
      BY <1>6, SameRows DEF SyncFails, Fault, provider, history
    <2>2. Only(s, Idle) /\ Idle.pc = "idle"
      BY <1>0, <1>6, IdleRow DEF SyncFails
    <2>3. SyncOK(s)'
      BY <2>2, IdleSync DEF Only
    <2> QED
      BY <1>1, <2>1, <2>2, <2>3, SteadySync, CalmGap DEF GapInv
  <1>7. CASE EndSync(s)
    <2>1. Only(s, Idle) /\ Idle.pc = "idle"
      BY <1>0, <1>7, IdleRow DEF EndSync
    <2>2. lastSync' = now /\ UNCHANGED <<ver, upd, now, row, excused>>
      BY <1>7 DEF EndSync, provider, history
    <2>3. Window'
      <3>1. ASSUME NEW r \in Results, Behind(r) PROVE upd[r] >= req[s].at
        BY <1>0, <1>7, <3>1 DEF EndSync, SyncOK, OnHand, Before, Held
      <3>2. now <= req[s].at + Overlap /\ req[s].at \in Nat
        BY <1>0, <1>7 DEF EndSync, SyncOK, Before, Locals
      <3>3. \A r \in Results : Behind(r)' => Behind(r)
        BY <2>2 DEF Behind
      <3> QED
        BY <1>0, <1>2, <2>2, <3>1, <3>2, <3>3, NatAssumption DEF Window
    <2>4. ASSUME NEW z \in Syncs PROVE SyncOK(z)'
      <3>1. CASE z = s
        BY <2>1, <3>1, IdleSync DEF Only
      <3>2. CASE z # s
        <4>1. Steady(req[z], req'[z]) /\ SyncOK(z) /\ req[z].since \in Nat
          BY <1>1, <2>1, <3>2, Members DEF GapInv, TypeInv, RecsOK, Locals
        <4>2. lastSync <= now
          BY DEF GapInv, Past
        <4> QED
          BY <1>0, <2>2, <4>1, <4>2 DEF Steady, SyncOK, OnHand, Behind
      <3> QED
        BY <3>1, <3>2
    <2>5. Past'
      BY <1>0, <2>2 DEF GapInv, Past
    <2> QED
      BY <2>3, <2>4, <2>5 DEF GapInv
  <1> QED
    BY <1>3, <1>4, <1>5, <1>6, <1>7 DEF Sync

\* A step of a webhook call or a recruiter, beside the syncs.
LEMMA BesideGap ==
  ASSUME TypeInv, GapInv, NEW x \in Requests, x \notin Syncs, NEW y, NEW r,
         Only(x, y) \/ Over(x, y, r), Calm
  PROVE  GapInv'
  <1>1. \A s \in Syncs : Steady(req[s], req'[s])
    BY OthersSteady
  <1> QED
    BY <1>1, SteadySync, CalmGap DEF GapInv

LEMMA NextGap == TypeInv /\ KnownInv /\ Shut /\ GapInv /\ [Next]_vars => GapInv'
  <1> SUFFICES ASSUME TypeInv, KnownInv, Shut, GapInv, [Next]_vars PROVE GapInv'
    OBVIOUS
  <1>1. CASE UNCHANGED vars
    <2>1. Calm /\ req' = req
      BY <1>1, SameRows DEF vars, provider, history
    <2> QED
      BY <2>1, SteadySync, CalmGap DEF GapInv, Steady
  <1>2. ASSUME NEW r \in Results, Publish(r) PROVE GapInv'
    <2>1. /\ UNCHANGED <<now, lastSync, row, req>>
          /\ \A q \in Results \ {r} : /\ ver'[q] = ver[q] /\ upd'[q] = upd[q]
                                      /\ q \in excused => q \in excused'
          /\ upd'[r] = now /\ now \in Nat /\ lastSync \in Nat
      BY <1>2, TypeSplits DEF Publish, TypeInv, SiteOK, ProviderOK, ClockOK
    <2>2. Past'
      BY <2>1 DEF GapInv, Past
    <2>3. Window'
      BY <2>1, NatAssumption DEF GapInv, Past, Window, Behind
    <2>4. ASSUME NEW s \in Syncs PROVE SyncOK(s)'
      <3>1. req[s] \in Locals /\ SyncOK(s)
        BY Members DEF TypeInv, RecsOK, GapInv
      <3>2. ASSUME NEW q \in Results, Behind(q)', req[s].pc \notin Before PROVE OnHand(s, q)'
        <4>1. CASE q = r
          BY <2>1, <3>1, <3>2, <4>1 DEF SyncOK, OnHand
        <4>2. CASE q # r
          BY <2>1, <3>1, <3>2, <4>2 DEF SyncOK, OnHand, Behind
        <4> QED
          BY <4>1, <4>2
      <3> QED
        BY <2>1, <3>1, <3>2 DEF SyncOK
    <2> QED
      BY <2>2, <2>3, <2>4 DEF GapInv
  <1>3. CASE Tick
    <2>1. UNCHANGED <<ver, upd, row, excused, req, lastSync>> /\ now' = now + 1 /\ now \in Nat
      BY <1>3, TypeSplits DEF Tick, provider, history, TypeInv, SiteOK, ClockOK
    <2>2. Past' /\ Window'
      BY <2>1, TypeSplits DEF GapInv, Past, Window, Behind, TypeInv, SiteOK, ClockOK, ProviderOK
    <2>3. ASSUME NEW s \in Syncs PROVE SyncOK(s)'
      <3>1. SyncOK(s) /\ req[s].at \in Nat /\ Overlap \in Nat
        BY Members, NatAssumption DEF GapInv, TypeInv, RecsOK, Locals
      <3>2. req[s].pc \notin Before => now < req[s].at + Overlap
        BY <1>3 DEF Tick, Before
      <3>3. req[s].pc \notin Before => req'[s].at <= now' /\ now' <= req'[s].at + Overlap
        BY <2>1, <3>1, <3>2 DEF SyncOK
      <3>4. \A r \in Results : (Behind(r)' <=> Behind(r)) /\ (OnHand(s, r)' <=> OnHand(s, r))
        BY <2>1 DEF Behind, OnHand
      <3> QED
        BY <2>1, <3>1, <3>3, <3>4 DEF SyncOK
    <2> QED
      BY <2>2, <2>3 DEF GapInv
  <1>4. ASSUME NEW h \in Hooks, Webhook(h) PROVE GapInv'
    <2>0. h \in Requests /\ h \notin Syncs
      BY Members
    <2>1. Calm
      BY <1>4, SameRows DEF Webhook, Deliver, Mark, RecordFailure, EventFails, Fault, provider, history
    <2>2. \E y : Only(h, y)
      <3>1. ASSUME NEW r \in Results, NEW v \in 1..MaxVersions, Deliver(h, r, v) PROVE \E y : Only(h, y)
        BY <3>1, DeliverRow
      <3>2. CASE Mark(h) \/ RecordFailure(h)
        BY <2>0, <3>2, IdleRow DEF Mark, RecordFailure
      <3>3. CASE EventFails(h) /\ req[h].pc = "mark"
        <4>1. req' = [req EXCEPT ![h].pc = "failed"]
          BY <3>3 DEF EventFails
        <4> QED
          BY <3>3, <4>1, FailedRow
      <3>4. CASE EventFails(h) /\ req[h].pc # "mark"
        <4>1. req' = [req EXCEPT ![h] = Idle]
          BY <3>4 DEF EventFails
        <4> QED
          BY <2>0, <4>1, IdleRow
      <3> QED
        BY <1>4, <3>1, <3>2, <3>3, <3>4 DEF Webhook
    <2> QED
      BY <2>0, <2>1, <2>2, BesideGap
  <1>5. ASSUME NEW c \in Clerks, Clerk(c) PROVE GapInv'
    <2>0. c \in Requests /\ c \notin Syncs
      BY Members
    <2>1. row \in [Results -> RowType]
      BY TypeSplits DEF TypeInv, SiteOK, RowsOK
    <2>2. ASSUME NEW r \in Results, AskConfirm(c, r) PROVE GapInv'
      <3>1. Calm
        BY <2>2, SameRows DEF AskConfirm, provider, history
      <3> QED
        BY <2>0, <2>2, <3>1, AskRow, BesideGap
    <2>3. ASSUME NEW r \in Results, Relink(c, r) \/ Dismiss(c, r) PROVE GapInv'
      <3>1. \A q \in Results : row'[q].ver = row[q].ver
        BY <2>1, <2>3 DEF Relink, Dismiss, RowType
      <3>2. Calm
        BY <2>3, <3>1, SameRows DEF Relink, Dismiss, provider, history
      <3> QED
        BY <2>0, <2>3, <3>2, ReviewRow, BesideGap DEF Relink, Dismiss
    <2>4. CASE Confirm(c)
      <3>1. \A q \in Results : row'[q].ver = row[q].ver
        BY <2>1, <2>4 DEF Confirm, RowType
      <3>2. Calm
        BY <2>4, <3>1, SameRows DEF Confirm, provider, history
      <3> QED
        BY <2>0, <2>4, <3>2, ConfirmRow, BesideGap
    <2>5. CASE Outcome(c) \/ ClerkFails(c)
      <3>1. Calm
        BY <2>5, SameRows DEF Outcome, ClerkFails, Fault, provider, history
      <3> QED
        BY <2>0, <2>5, <3>1, IdleRow, BesideGap DEF Outcome, ClerkFails
    <2> QED
      BY <1>5, <2>2, <2>3, <2>4, <2>5 DEF Clerk
  <1>6. CASE Crash
    <2>1. Calm
      BY <1>6, SameRows DEF Crash, Fault, provider, history
    <2>2. \A s \in Syncs : req'[s].pc = "idle"
      BY <1>6, Members DEF Crash, Idle
    <2> QED
      BY <2>1, <2>2, IdleSync, CalmGap
  <1> QED
    BY <1>1, <1>2, <1>3, <1>4, <1>5, <1>6, ProcessGap, SyncGap DEF Next

\* lastSyncAt never moves past a version that is not stored, but for those that a poll
\* cut off or a sync failed on, and for rows that an old version took back or made look
\* newer: for any number of results, webhook calls and overlapping syncs, whichever of
\* them fail.
THEOREM NoGapTheorem == Spec => []NoGap
  <1>1. Init => Shut /\ GapInv
    <2> SUFFICES ASSUME Init PROVE Shut /\ GapInv
      OBVIOUS
    <2>1. \A s \in Syncs : req[s].pc = "idle"
      BY Members DEF Init, Idle
    <2>2. \A r \in Results : ~ Behind(r)
      BY DEF Init, Behind, NoRow
    <2> QED
      BY <2>1, <2>2 DEF Init, Shut, GapInv, Past, Window, SyncOK, Before
  <1>2. GapInv => NoGap
    BY DEF GapInv, Window, Behind, NoGap
  <1> QED
    BY <1>1, <1>2, InitType, NextType, InitKnown, NextKnown, NextShut, NextGap, PTL DEF Spec

-----------------------------------------------------------------------------
(* What is marked processed is stored.                                     *)

Landed(x) == req[x].pc \in {"check", "status", "mark"} => 2 * req[x].ver <= stored[req[x].res]
RowStored == \A r \in Results : row[r].stamp <= stored[r]
StoreInv  == RowStored /\ ProcessedWasStored /\ \A x \in Deliveries : Landed(x)

\* Nothing stored is forgotten.
Grows == \A r \in Results : stored[r] <= stored'[r]

LEMMA OthersLanded ==
  ASSUME TypeInv, TypeInv', StoreInv, Grows, NEW x \in Requests, NEW y, NEW r,
         Only(x, y) \/ Over(x, y, r)
  PROVE  \A z \in Deliveries \ {x} : Landed(z)'
  <1> SUFFICES ASSUME NEW z \in Deliveries \ {x}, req'[z].pc \in {"check", "status", "mark"}
               PROVE  2 * req'[z].ver <= stored'[req'[z].res]
    BY DEF Landed
  <1>1. z \in Requests /\ RecOK(z, req[z])
    BY Members DEF TypeInv, RecsOK
  <1>2. req'[z].pc = req[z].pc /\ req'[z].res = req[z].res /\ req'[z].ver = req[z].ver
    BY <1>1, OvertakenOK DEF Only, Over
  <1>3. req[z].res \in Results /\ req[z].ver \in Nat /\ 2 * req[z].ver <= stored[req[z].res]
    BY <1>1, <1>2 DEF RecOK, Busy, StoreInv, Landed
  <1>4. \A q \in Results : stored[q] \in Nat /\ stored'[q] \in Nat
    BY DEF TypeInv, TypeOK
  <1> QED
    BY <1>2, <1>3, <1>4 DEF Grows

\* Marks that stay, while nothing stored is forgotten.
LEMMA MarksStay ==
  ASSUME TypeInv, TypeInv', ProcessedWasStored, Grows, processed' \subseteq processed
  PROVE  ProcessedWasStored'
  <1>1. \A q \in Results : stored[q] \in Nat /\ stored'[q] \in Nat
    BY DEF TypeInv, TypeOK
  <1>2. \A e \in processed : e[1] \in Results /\ e[2] \in Nat
    BY TypeSplits DEF TypeInv, SiteOK, EventsOK
  <1> QED
    BY <1>1, <1>2 DEF ProcessedWasStored, Grows

\* A step that writes no row and stores nothing, of one request.
LEMMA QuietStore ==
  ASSUME TypeInv, TypeInv', StoreInv, UNCHANGED stored, processed' \subseteq processed,
         \A r \in Results : row'[r].stamp = row[r].stamp,
         NEW x \in Requests, NEW y, NEW r, Only(x, y) \/ Over(x, y, r),
         x \in Deliveries => Landed(x)'
  PROVE  StoreInv'
  <1>1. Grows
    BY TypeSplits DEF Grows, TypeInv, SiteOK, HistoryOK
  <1>2. RowStored'
    BY DEF StoreInv, RowStored
  <1>3. \A z \in Deliveries : Landed(z)'
    BY <1>1, OthersLanded
  <1>4. ProcessedWasStored'
    BY <1>1, MarksStay DEF StoreInv
  <1> QED
    BY <1>2, <1>3, <1>4 DEF StoreInv

LEMMA MarkStore ==
  ASSUME TypeInv, TypeInv', StoreInv, NEW h \in Hooks, Mark(h)
  PROVE  StoreInv'
  <1>1. /\ h \in Requests /\ h \in Deliveries /\ req[h].res \in Results
        /\ req[h].ver \in 1..MaxVersions /\ 2 * req[h].ver <= stored[req[h].res]
    BY Members DEF Mark, TypeInv, RecsOK, RecOK, Busy, StoreInv, Landed
  <1>2. Only(h, Idle) /\ Idle.pc = "idle"
    BY <1>1, IdleRow DEF Mark
  <1>3. UNCHANGED <<stored, row>> /\ processed' = processed \cup Events(req[h].res, req[h].ver)
    BY DEF Mark, history
  <1>4. \A q \in Results : stored[q] \in Nat
    BY TypeSplits DEF TypeInv, SiteOK, HistoryOK
  <1>5. Grows
    BY <1>3, <1>4 DEF Grows
  <1>6. \A z \in Deliveries : Landed(z)'
    BY <1>1, <1>2, <1>5, OthersLanded DEF Only, Landed
  <1>7. \A e \in Events(req[h].res, req[h].ver) :
           e[1] = req[h].res /\ (e[2] = req[h].ver \/ e[2] = 0)
    <2>1. ids \in {"version", "result", "call"}
      BY DEF TypeInv, TypeOK
    <2> QED
      BY <2>1 DEF Events
  <1>8. ProcessedWasStored'
    BY <1>1, <1>3, <1>4, <1>7 DEF StoreInv, ProcessedWasStored
  <1>9. RowStored'
    BY <1>3 DEF StoreInv, RowStored
  <1> QED
    BY <1>6, <1>8, <1>9 DEF StoreInv

LEMMA UpsertStore ==
  ASSUME TypeInv, TypeInv', KnownInv, StoreInv, NEW x \in Deliveries, Upsert(x)
  PROVE  StoreInv'
  <1>1. /\ x \in Requests /\ req[x].res \in Results /\ req[x].ver \in Nat /\ req[x].stamp \in Nat
        /\ RecOK(x, req[x]) /\ 2 * req[x].ver <= req[x].stamp
    BY Members DEF TypeInv, RecsOK, RecOK, Busy, Locals, Upsert, KnownInv, ReqsKnown, Known, Timely
  <1>2. PICK w \in RowType : row' = [row EXCEPT ![req[x].res] = w] /\ w.stamp = req[x].stamp
    BY WrittenRow
  <1>3. row \in [Results -> RowType] /\ stored \in [Results -> Nat]
    BY TypeSplits DEF TypeInv, SiteOK, RowsOK, HistoryOK
  <1>4. \A r \in Results : row'[r].stamp = IF r = req[x].res THEN req[x].stamp ELSE row[r].stamp
    BY <1>1, <1>2, <1>3
  <1>5. \A r \in Results : stored'[r] = IF r = req[x].res /\ req[x].stamp > stored[r]
                                        THEN req[x].stamp ELSE stored[r]
    BY <1>1, <1>3 DEF Upsert
  <1>6. \A r \in Results : stored[r] \in Nat /\ row[r].stamp \in Nat
    BY <1>3 DEF RowType
  <1>7. Grows
    BY <1>1, <1>5, <1>6 DEF Grows
  <1>8. RowStored'
    BY <1>1, <1>4, <1>5, <1>6 DEF StoreInv, RowStored
  <1>9. PICK y : /\ Over(x, y, req[x].res)
                 /\ y = Returned(x) \/ (y.pc = "check" /\ Kept(req[x], y))
    BY UpsertRow
  <1>10. \A z \in Deliveries \ {x} : Landed(z)'
    BY <1>1, <1>7, <1>9, OthersLanded
  <1>11. Landed(x)'
    <2>1. 2 * req[x].ver <= stored'[req[x].res]
      BY <1>1, <1>5, <1>6
    <2>2. req'[x] = y
      BY <1>9 DEF Over
    <2>3. y.pc \in {"check", "status", "mark"} => y.res = req[x].res /\ y.ver = req[x].ver
      BY <1>1, <1>9, ReturnedOK, Members DEF Kept, Busy, Upsert
    <2> QED
      BY <2>1, <2>2, <2>3 DEF Landed
  <1>12. ProcessedWasStored'
    BY <1>7, MarksStay DEF StoreInv, Upsert
  <1> QED
    BY <1>8, <1>10, <1>11, <1>12 DEF StoreInv

LEMMA ProcessStore ==
  ASSUME TypeInv, TypeInv', KnownInv, StoreInv, NEW x \in Deliveries,
         Process(x) \/ ProcessingFails(x) \/ InterviewFails(x)
  PROVE  StoreInv'
  <1>p. req[x].pc \in Busy
    BY DEF Busy, Process, ProcessingFails, InterviewFails, Read, Match, Upsert, Check, SetStatus
  <1>q. x \in Requests /\ RecOK(x, req[x]) /\ Known(x)
    BY Members DEF TypeInv, RecsOK, KnownInv, ReqsKnown
  <1>0. /\ x \in Requests /\ RecOK(x, req[x]) /\ req[x].pc \in Busy /\ req[x].res \in Results
        /\ req[x].ver \in Nat /\ req[x].stamp \in Nat /\ 2 * req[x].ver <= req[x].stamp
    BY <1>p, <1>q DEF RecOK, Locals, Known, Timely
  <1>1. ASSUME ~ Upsert(x) PROVE UNCHANGED <<stored, row, processed>>
    BY <1>1 DEF Process, Read, Match, Check, SetStatus, ProcessingFails, InterviewFails, history
  \* The record that is returned to the webhook holds the payload.
  <1>2. ASSUME Only(x, Returned(x)), 2 * req[x].ver <= stored[req[x].res], UNCHANGED stored
        PROVE  Landed(x)'
    BY <1>0, <1>2, ReturnedOK, Members DEF Only, Landed
  <1>3. ASSUME NEW y, Only(x, y), y.pc \notin {"check", "status", "mark"} PROVE Landed(x)'
    BY <1>3 DEF Only, Landed
  <1>4. CASE Upsert(x)
    BY <1>4, UpsertStore
  <1>5. CASE Read(x)
    <2>1. UNCHANGED <<stored, row, processed>>
      BY <1>5 DEF Read, history
    <2>2. \/ Outdated(req[x].res, req[x].ver, req[x].stamp)
          \/ Tied(req[x].res, req[x].ver, req[x].stamp)
          => 2 * req[x].ver <= stored[req[x].res]
      <3>1. /\ row[req[x].res].stamp \in Nat /\ row[req[x].res].ver \in Nat
            /\ stored[req[x].res] \in Nat
        BY <1>0, TypeSplits, NatAssumption DEF TypeInv, SiteOK, RowsOK, RowType, HistoryOK
      <3>2. /\ row[req[x].res].stamp <= stored[req[x].res]
            /\ 2 * row[req[x].res].ver <= row[req[x].res].stamp
        BY <1>0 DEF StoreInv, RowStored, KnownInv, RowsDated
      <3> QED
        BY <1>0, <3>1, <3>2 DEF Outdated, Identical, Tied
    <2>3. PICK y : /\ Only(x, y)
                 /\ \/ y = Returned(x) /\ 2 * req[x].ver <= stored[req[x].res]
                    \/ y.pc \in {"match", "upsert"}
      BY <1>5, <2>2, ReadRow
    <2> QED
      BY <1>0, <1>2, <1>3, <2>1, <2>3, QuietStore
  <1>6. CASE Match(x)
    <2>1. UNCHANGED <<stored, row, processed>>
      BY <1>6 DEF Match, history
    <2> QED
      BY <1>0, <1>3, <1>6, <2>1, MatchRow, QuietStore
  <1>7. CASE Check(x) \/ SetStatus(x) \/ InterviewFails(x)
    <2>1. UNCHANGED <<stored, row, processed>> /\ 2 * req[x].ver <= stored[req[x].res]
      BY <1>7 DEF Check, SetStatus, InterviewFails, history, StoreInv, Landed
    <2>2. PICK y : Only(x, y) /\ (y = Returned(x) \/ (y.pc = "status" /\ Kept(req[x], y)))
      BY <1>0, <1>7, CheckRow, ReturnRow DEF SetStatus, InterviewFails
    <2>3. Landed(x)'
      BY <1>2, <2>1, <2>2 DEF Only, Kept, Landed
    <2> QED
      BY <1>0, <2>1, <2>2, <2>3, QuietStore
  <1>8. CASE ProcessingFails(x)
    <2>1. UNCHANGED <<stored, row, processed>>
      BY <1>8 DEF ProcessingFails
    <2>2. PICK y : Only(x, y) /\ y.pc \in {"failed", "items"}
      <3>1. CASE x \in Hooks
        BY <1>8, <3>1, FailedRow DEF ProcessingFails, Move
      <3>2. CASE x \notin Hooks
        BY <1>0, <1>8, <3>2, ReturnRow, ReturnedOK, Members DEF ProcessingFails
      <3> QED
        BY <3>1, <3>2
    <2> QED
      BY <1>0, <1>3, <2>1, <2>2, QuietStore
  <1> QED
    BY <1>4, <1>5, <1>6, <1>7, <1>8 DEF Process

LEMMA NextStore == TypeInv /\ TypeInv' /\ KnownInv /\ StoreInv /\ [Next]_vars => StoreInv'
  <1> SUFFICES ASSUME TypeInv, TypeInv', KnownInv, StoreInv, [Next]_vars PROVE StoreInv'
    OBVIOUS
  <1>1. CASE UNCHANGED vars \/ Tick \/ \E r \in Results : Publish(r)
    <2>1. UNCHANGED <<stored, row, processed, req>>
      BY <1>1 DEF vars, Tick, Publish, history
    <2> QED
      BY <2>1 DEF StoreInv, RowStored, ProcessedWasStored, Landed
  <1>2. ASSUME NEW h \in Hooks, Webhook(h) PROVE StoreInv'
    <2>0. h \in Requests /\ h \in Deliveries
      BY Members
    <2>1. CASE Mark(h)
      BY <2>1, MarkStore
    <2>2. ASSUME NEW r \in Results, NEW v \in 1..MaxVersions, Deliver(h, r, v) PROVE StoreInv'
      <3>1. PICK y : Only(h, y) /\ y.pc = "read"
        BY <2>2, DeliverRow
      <3>2. UNCHANGED <<stored, row, processed>>
        BY <2>2 DEF Deliver, history
      <3> QED
        BY <2>0, <3>1, <3>2, QuietStore DEF Only, Landed
    <2>3. CASE RecordFailure(h) \/ EventFails(h)
      <3>1. PICK y : Only(h, y) /\ y.pc \in {"idle", "failed"}
        <4>1. CASE RecordFailure(h)
          BY <2>0, <4>1, IdleRow DEF RecordFailure
        <4>2. CASE EventFails(h) /\ req[h].pc = "mark"
          <5>1. req' = [req EXCEPT ![h].pc = "failed"]
            BY <4>2 DEF EventFails
          <5> QED
            BY <4>2, <5>1, FailedRow
        <4>3. CASE EventFails(h) /\ req[h].pc # "mark"
          <5>1. req' = [req EXCEPT ![h] = Idle]
            BY <4>3 DEF EventFails
          <5> QED
            BY <2>0, <5>1, IdleRow
        <4> QED
          BY <2>3, <4>1, <4>2, <4>3
      <3>2. UNCHANGED <<stored, row>> /\ processed' \subseteq processed
        BY <2>3 DEF RecordFailure, EventFails, history
      <3> QED
        BY <2>0, <3>1, <3>2, QuietStore DEF Only, Landed
    <2> QED
      BY <1>2, <2>1, <2>2, <2>3 DEF Webhook
  <1>3. ASSUME NEW s \in Syncs, Sync(s) \/ SyncFails(s) PROVE StoreInv'
    <2>0. s \in Requests /\ s \in Deliveries
      BY Members
    <2>1. UNCHANGED <<stored, row, processed>>
      BY <1>3 DEF Sync, StartSync, Fetch, NextItem, EndSync, SyncFails, history
    <2>2. PICK y : Only(s, y) /\ y.pc \in {"idle", "fetch", "items", "read"}
      <3>1. CASE EndSync(s) \/ SyncFails(s)
        BY <2>0, <3>1, IdleRow DEF EndSync, SyncFails
      <3>2. CASE StartSync(s)
        BY <3>2, StartRow
      <3>3. CASE Fetch(s)
        BY <3>3, FetchRow
      <3>4. CASE NextItem(s)
        BY <3>4, NextItemRow
      <3> QED
        BY <1>3, <3>1, <3>2, <3>3, <3>4 DEF Sync
    <2> QED
      BY <2>0, <2>1, <2>2, QuietStore DEF Only, Landed
  <1>4. ASSUME NEW c \in Clerks, Clerk(c) PROVE StoreInv'
    <2>0. c \in Requests /\ c \notin Deliveries
      BY Members
    <2>1. row \in [Results -> RowType]
      BY TypeSplits DEF TypeInv, SiteOK, RowsOK
    <2>2. UNCHANGED <<stored, processed>>
      BY <1>4 DEF Clerk, AskConfirm, Relink, Dismiss, Confirm, Outcome, ClerkFails, history
    <2>3. \A q \in Results : row'[q].stamp = row[q].stamp
      <3>1. ASSUME NEW r \in Results, Relink(c, r) \/ Dismiss(c, r) PROVE \A q \in Results : row'[q].stamp = row[q].stamp
        BY <2>1, <3>1 DEF Relink, Dismiss, RowType
      <3>2. CASE Confirm(c)
        BY <2>1, <3>2 DEF Confirm, RowType
      <3>3. CASE Outcome(c) \/ ClerkFails(c) \/ \E r \in Results : AskConfirm(c, r)
        BY <3>3 DEF Outcome, ClerkFails, AskConfirm
      <3> QED
        BY <1>4, <3>1, <3>2, <3>3 DEF Clerk
    <2>4. \E y, r : Only(c, y) \/ Over(c, y, r)
      <3>1. ASSUME NEW r \in Results, AskConfirm(c, r) PROVE \E y : Only(c, y)
        BY <3>1, AskRow
      <3>2. ASSUME NEW r \in Results, Relink(c, r) \/ Dismiss(c, r) PROVE Over(c, req[c], r)
        BY <3>2, ReviewRow DEF Relink, Dismiss
      <3>3. CASE Confirm(c)
        BY <3>3, ConfirmRow
      <3>4. CASE Outcome(c) \/ ClerkFails(c)
        BY <2>0, <3>4, IdleRow DEF Outcome, ClerkFails
      <3> QED
        BY <1>4, <3>1, <3>2, <3>3, <3>4 DEF Clerk
    <2> QED
      BY <2>0, <2>2, <2>3, <2>4, QuietStore
  <1>5. ASSUME NEW x \in Deliveries, Process(x) \/ ProcessingFails(x) \/ InterviewFails(x) PROVE StoreInv'
    BY <1>5, ProcessStore
  <1>6. CASE Crash
    <2>1. UNCHANGED <<stored, row, processed>> /\ \A z \in Deliveries : req'[z].pc = "idle"
      BY <1>6, Members DEF Crash, history, Idle
    <2> QED
      BY <2>1 DEF StoreInv, RowStored, ProcessedWasStored, Landed
  <1> QED
    BY <1>1, <1>2, <1>3, <1>4, <1>5, <1>6 DEF Next

\* No event is marked processed before its payload, or one that is as new by its date,
\* was stored: for any number of calls of one event in any order, whatever fails.
THEOREM ProcessedIsStored == Spec => []ProcessedWasStored
  <1>1. Init => StoreInv
    <2> SUFFICES ASSUME Init PROVE StoreInv
      OBVIOUS
    <2>1. \A x \in Deliveries : req[x].pc = "idle"
      BY Members DEF Init, Idle
    <2>2. RowStored /\ ProcessedWasStored
      BY DEF Init, RowStored, ProcessedWasStored, NoRow
    <2> QED
      BY <2>1, <2>2 DEF StoreInv, Landed
  <1>2. StoreInv => ProcessedWasStored
    BY DEF StoreInv
  <1> QED
    BY <1>1, <1>2, InitType, NextType, InitKnown, NextKnown, NextStore, PTL DEF Spec

-----------------------------------------------------------------------------
(* What a delivery knows of the row, unless another wrote it since.        *)

Seen(x) ==
    req[x].pc \in {"match", "upsert"} /\ ~ req[x].beside =>
       /\ ~ Outdated(req[x].res, req[x].ver, req[x].stamp)
       /\ req[x].review = row[req[x].res].review
       /\ IF row[req[x].res].link.by = "none" THEN req[x].pc = "match" \/ req[x].link \in Matches
          ELSE req[x].pc = "upsert" /\ req[x].link = row[req[x].res].link

SeenInv == \A x \in Deliveries : Seen(x)

LEMMA SeenStays ==
  ASSUME TypeInv, NEW z \in Deliveries, Seen(z), NEW r,
         \A q \in Results : q # r => row'[q] = row[q],
         req'[z] = Overtaken(z, r)
  PROVE  Seen(z)'
  <1>1. RecOK(z, req[z]) /\ z \in Requests
    BY Members DEF TypeInv, RecsOK
  <1>2. CASE req'[z].beside
    BY <1>2 DEF Seen
  <1>3. CASE ~ req'[z].beside
    <2>1. req'[z] = req[z] /\ ~ (req[z].res = r /\ req[z].pc \in {"match", "upsert"})
      BY <1>1, <1>3, OvertakenOK
    <2>2. req[z].pc \in {"match", "upsert"} => req[z].res \in Results
      BY <1>1 DEF RecOK, Busy
    <2> QED
      BY <2>1, <2>2 DEF Seen, Outdated, Identical
  <1> QED
    BY <1>2, <1>3

LEMMA SeenSame ==
  ASSUME NEW z \in Deliveries, Seen(z), UNCHANGED row, req'[z] = req[z]
  PROVE  Seen(z)'
  BY DEF Seen, Outdated, Identical

\* A step of x that writes no row.
LEMMA QuietSeen ==
  ASSUME SeenInv, NEW x \in Requests, NEW y, Only(x, y), UNCHANGED row,
         x \in Deliveries => Seen(x)'
  PROVE  SeenInv'
  BY Members, SeenSame DEF SeenInv, Only

\* A step of x that writes the row of r; x does not hold it any more.
LEMMA WriteSeen ==
  ASSUME TypeInv, SeenInv, NEW x \in Requests, NEW y, NEW r, Over(x, y, r),
         \A q \in Results : q # r => row'[q] = row[q],
         y.pc \notin {"match", "upsert"}
  PROVE  SeenInv'
  <1>1. ASSUME NEW z \in Deliveries, z # x PROVE Seen(z)'
    BY <1>1, SeenStays, Members DEF SeenInv, Over
  <1>2. x \in Deliveries => Seen(x)'
    BY DEF Seen, Over
  <1> QED
    BY <1>1, <1>2 DEF SeenInv

LEMMA ProcessSeen ==
  ASSUME TypeInv, SeenInv, NEW x \in Deliveries,
         Process(x) \/ ProcessingFails(x) \/ InterviewFails(x)
  PROVE  SeenInv'
  <1>0. /\ x \in Requests /\ RecOK(x, req[x]) /\ req[x].pc \in Busy /\ req[x].res \in Results
        /\ req[x].ver \in Nat
    BY Members DEF TypeInv, RecsOK, RecOK, Busy, Process, ProcessingFails, InterviewFails,
                   Read, Match, Upsert, Check, SetStatus
  <1>1. ASSUME ~ Upsert(x) PROVE UNCHANGED row
    BY <1>1 DEF Process, Read, Match, Check, SetStatus, ProcessingFails, InterviewFails, provider
  <1>2. ASSUME NEW y, Only(x, y), y.pc \notin {"match", "upsert"} PROVE Seen(x)'
    BY <1>2 DEF Only, Seen
  <1>3. Returned(x).pc \in {"mark", "items"}
    BY <1>0, ReturnedOK, Members
  <1>4. CASE Upsert(x)
    <2>1. PICK y : /\ Over(x, y, req[x].res)
                   /\ y = Returned(x) \/ (y.pc = "check" /\ Kept(req[x], y))
      BY <1>4, UpsertRow
    <2>2. y.pc \notin {"match", "upsert"}
      BY <1>3, <2>1
    <2>3. \A q \in Results : q # req[x].res => row'[q] = row[q]
      BY <1>4, WrittenRow, TypeSplits DEF TypeInv, SiteOK, RowsOK
    <2> QED
      BY <1>0, <2>1, <2>2, <2>3, WriteSeen
  <1>5. CASE Read(x)
    <2>1. UNCHANGED row
      BY <1>5 DEF Read, provider
    <2>2. CASE Only(x, Returned(x))
      BY <1>0, <1>2, <1>3, <2>1, <2>2, QuietSeen
    <2>3. ASSUME NEW y, ~ Outdated(req[x].res, req[x].ver, req[x].stamp), Only(x, y), Kept(req[x], y),
                 y.review = row[req[x].res].review, y.link = row[req[x].res].link,
                 (y.pc = "match" /\ y.link.by = "none") \/ (y.pc = "upsert" /\ y.link.by # "none")
          PROVE  SeenInv'
      <3>1. Seen(x)'
        BY <2>1, <2>3 DEF Only, Kept, Seen, Outdated, Identical
      <3> QED
        BY <1>0, <2>1, <2>3, <3>1, QuietSeen
    <2> QED
      BY <1>5, <2>2, <2>3, ReadRow
  <1>6. CASE Match(x)
    <2>1. UNCHANGED row /\ req[x].pc = "match"
      BY <1>6 DEF Match, provider
    <2>2. PICK y : /\ Only(x, y) /\ Kept(req[x], y) /\ y.pc = "upsert" /\ y.link \in Matches
                   /\ y.review = req[x].review /\ y.beside = req[x].beside
      BY <1>6, MatchRow
    <2>3. Seen(x)'
      BY <2>1, <2>2 DEF SeenInv, Seen, Only, Kept, Outdated, Identical
    <2> QED
      BY <1>0, <2>1, <2>2, <2>3, QuietSeen
  <1>7. CASE Check(x) \/ SetStatus(x) \/ InterviewFails(x)
    <2>1. UNCHANGED row
      BY <1>7 DEF Check, SetStatus, InterviewFails, provider
    <2>2. PICK y : Only(x, y) /\ (y = Returned(x) \/ y.pc = "status")
      BY <1>0, <1>7, CheckRow, ReturnRow DEF SetStatus, InterviewFails
    <2> QED
      BY <1>0, <1>2, <1>3, <2>1, <2>2, QuietSeen
  <1>8. CASE ProcessingFails(x)
    <2>1. UNCHANGED row
      BY <1>8 DEF ProcessingFails, provider
    <2>2. PICK y : Only(x, y) /\ y.pc \in {"failed", "items"}
      <3>1. CASE x \in Hooks
        BY <1>8, <3>1, FailedRow DEF ProcessingFails, Move
      <3>2. CASE x \notin Hooks
        BY <1>0, <1>8, <3>2, ReturnRow, ReturnedOK, Members DEF ProcessingFails
      <3> QED
        BY <3>1, <3>2
    <2> QED
      BY <1>0, <1>2, <2>1, <2>2, QuietSeen
  <1> QED
    BY <1>4, <1>5, <1>6, <1>7, <1>8 DEF Process

LEMMA NextSeen == TypeInv /\ SeenInv /\ [Next]_vars => SeenInv'
  <1> SUFFICES ASSUME TypeInv, SeenInv, [Next]_vars PROVE SeenInv'
    OBVIOUS
  <1>1. CASE UNCHANGED vars \/ Tick \/ \E r \in Results : Publish(r)
    <2>1. UNCHANGED <<row, req>>
      BY <1>1 DEF vars, Tick, Publish, provider
    <2> QED
      BY <2>1, SeenSame DEF SeenInv
  <1>2. ASSUME NEW h \in Hooks, Webhook(h) PROVE SeenInv'
    <2>0. h \in Requests /\ UNCHANGED row
      BY <1>2, Members DEF Webhook, Deliver, Mark, RecordFailure, EventFails, provider
    <2>1. PICK y : Only(h, y) /\ y.pc \in {"idle", "failed", "read"}
      <3>1. ASSUME NEW r \in Results, NEW v \in 1..MaxVersions, Deliver(h, r, v)
            PROVE  \E y : Only(h, y) /\ y.pc = "read"
        BY <3>1, DeliverRow
      <3>2. CASE Mark(h) \/ RecordFailure(h)
        BY <2>0, <3>2, IdleRow DEF Mark, RecordFailure
      <3>3. CASE EventFails(h) /\ req[h].pc = "mark"
        <4>1. req' = [req EXCEPT ![h].pc = "failed"]
          BY <3>3 DEF EventFails
        <4> QED
          BY <3>3, <4>1, FailedRow
      <3>4. CASE EventFails(h) /\ req[h].pc # "mark"
        <4>1. req' = [req EXCEPT ![h] = Idle]
          BY <3>4 DEF EventFails
        <4> QED
          BY <2>0, <4>1, IdleRow
      <3> QED
        BY <1>2, <3>1, <3>2, <3>3, <3>4 DEF Webhook
    <2>2. Seen(h)'
      BY <2>1 DEF Only, Seen
    <2> QED
      BY <2>0, <2>1, <2>2, QuietSeen
  <1>3. ASSUME NEW s \in Syncs, Sync(s) \/ SyncFails(s) PROVE SeenInv'
    <2>0. s \in Requests /\ UNCHANGED row
      BY <1>3, Members DEF Sync, StartSync, Fetch, NextItem, EndSync, SyncFails, provider
    <2>1. PICK y : Only(s, y) /\ y.pc \in {"idle", "fetch", "items", "read"}
      <3>1. CASE EndSync(s) \/ SyncFails(s)
        BY <2>0, <3>1, IdleRow DEF EndSync, SyncFails
      <3>2. CASE StartSync(s)
        BY <3>2, StartRow
      <3>3. CASE Fetch(s)
        BY <3>3, FetchRow
      <3>4. CASE NextItem(s)
        BY <3>4, NextItemRow
      <3> QED
        BY <1>3, <3>1, <3>2, <3>3, <3>4 DEF Sync
    <2>2. Seen(s)'
      BY <2>1 DEF Only, Seen
    <2> QED
      BY <2>0, <2>1, <2>2, QuietSeen
  <1>4. ASSUME NEW c \in Clerks, Clerk(c) PROVE SeenInv'
    <2>0. c \in Requests /\ c \notin Deliveries /\ row \in [Results -> RowType]
      BY Members, TypeSplits DEF TypeInv, SiteOK, RowsOK
    <2>1. ASSUME NEW r \in Results, AskConfirm(c, r) PROVE SeenInv'
      BY <2>0, <2>1, AskRow, QuietSeen DEF AskConfirm
    <2>2. ASSUME NEW r \in Results, Relink(c, r) \/ Dismiss(c, r) PROVE SeenInv'
      <3>1. Over(c, req[c], r) /\ req[c].pc = "idle"
        BY <2>2, ReviewRow DEF Relink, Dismiss
      <3>2. \A q \in Results : q # r => row'[q] = row[q]
        BY <2>0, <2>2 DEF Relink, Dismiss
      <3> QED
        BY <2>0, <3>1, <3>2, WriteSeen
    <2>3. CASE Confirm(c)
      <3>1. PICK y : Over(c, y, req[c].res) /\ y.pc \in {"idle", "outcome"}
        BY <2>3, ConfirmRow
      <3>2. \A q \in Results : q # req[c].res => row'[q] = row[q]
        BY <2>0, <2>3 DEF Confirm
      <3> QED
        BY <2>0, <3>1, <3>2, WriteSeen
    <2>4. CASE Outcome(c) \/ ClerkFails(c)
      BY <2>0, <2>4, IdleRow, QuietSeen DEF Outcome, ClerkFails
    <2> QED
      BY <1>4, <2>1, <2>2, <2>3, <2>4 DEF Clerk
  <1>5. CASE Crash
    BY <1>5, Members DEF Crash, SeenInv, Seen, Idle
  <1> QED
    BY <1>1, <1>2, <1>3, <1>4, <1>5, ProcessSeen DEF Next

LEMMA InitSeen == Init => SeenInv
  BY Members DEF Init, SeenInv, Seen, Idle

\* A stored result goes back to an older version only through a delivery whose payload
\* has no date, or that another write overtook, for any number of them.
THEOREM NoRollbackTheorem == Spec => NoRollback
  <1>1. ASSUME TypeInv, KnownInv, SeenInv, [Next]_vars,
               NEW r \in Results, row'[r].ver < row[r].ver
        PROVE  \E x \in Deliveries :
                  Writes(x, r) /\ (req[x].beside \/ req[x].stamp # 2 * req[x].ver)
    <2>1. /\ row[r].ver \in Nat /\ row[r].stamp \in Nat /\ row'[r] # row[r]
          /\ row'[r].ver # row[r].ver /\ 2 * row[r].ver <= row[r].stamp
      BY <1>1, NatAssumption, TypeSplits
         DEF TypeInv, SiteOK, RowsOK, RowType, KnownInv, RowsDated
    <2>2. PICK x \in Deliveries : Upsert(x) /\ Writes(x, r)
      BY <1>1, <2>1, WhoWrites
    <2>3. /\ req[x].pc = "upsert" /\ req[x].res = r /\ row'[r].ver = req[x].ver
          /\ req[x].ver \in Nat /\ req[x].stamp \in Nat /\ req[x].beside \in BOOLEAN
      BY <1>1, <2>2, NatAssumption, Members DEF Writes, TypeInv, RecsOK, Locals
    <2>4. ASSUME ~ req[x].beside, req[x].stamp = 2 * req[x].ver PROVE FALSE
      <3>1. ~ (row[r].stamp > req[x].stamp)
        BY <1>1, <2>3, <2>4 DEF SeenInv, Seen, Outdated
      <3> QED
        BY <1>1, <2>1, <2>3, <2>4, <3>1
    <2> QED
      BY <2>2, <2>3, <2>4
  <1>2. TypeInv /\ KnownInv /\ SeenInv /\ [Next]_vars
          => [\A r \in Results : row'[r].ver < row[r].ver
                => \E x \in Deliveries :
                      Writes(x, r) /\ (req[x].beside \/ req[x].stamp # 2 * req[x].ver)]_vars
    BY <1>1
  <1> QED
    BY <1>2, InitType, NextType, InitKnown, NextKnown, InitSeen, NextSeen, PTL
       DEF Spec, NoRollback

\* A confirmation is undone, or a link that was set by hand replaced, only by a
\* delivery that another write overtook.
THEOREM DecisionsHold == Spec => HumanDecisionsHold
  <1>1. ASSUME TypeInv, SeenInv, [Next]_vars, NEW r \in Results,
               \/ row[r].review = "confirmed" /\ row'[r].review = "pending"
               \/ row[r].link.by = "manual" /\ row'[r].link.by # "manual"
        PROVE  \E x \in Deliveries : Writes(x, r) /\ req[x].beside
    <2>1. row'[r] # row[r]
      BY <1>1
    <2>2. PICK x \in Deliveries : /\ Upsert(x) /\ Writes(x, r)
                                  /\ row'[r].review = Reviewed(req[x].review)
                                  /\ row'[r].link = req[x].link
      BY <1>1, <2>1, WhoWrites
    <2>3. req[x].beside \in BOOLEAN
      BY <1>1, Members DEF TypeInv, RecsOK, Locals
    <2>4. req[x].beside
      BY <1>1, <2>2, <2>3 DEF Writes, SeenInv, Seen, Reviewed
    <2> QED
      BY <2>2, <2>4
  <1>2. TypeInv /\ SeenInv /\ [Next]_vars
          => [\A r \in Results :
                \/ row[r].review = "confirmed" /\ row'[r].review = "pending"
                \/ row[r].link.by = "manual" /\ row'[r].link.by # "manual"
                => \E x \in Deliveries : Writes(x, r) /\ req[x].beside]_vars
    BY <1>1
  <1> QED
    BY <1>2, InitType, NextType, InitSeen, NextSeen, PTL DEF Spec, HumanDecisionsHold

-----------------------------------------------------------------------------
(* Rounds that are decided keep their status.                              *)

Decided(x) ==
    req[x].pc \in Busy =>
       /\ \A i \in Interviews : i \in req[x].decided => interview[i].outcome
       /\ req[x].pc = "status" => req[x].link.iv \notin req[x].decided

DecidedInv == \A x \in Deliveries : Decided(x)

\* An outcome is never taken back.
Lasting == \A i \in Interviews : interview[i].outcome => interview'[i].outcome

LEMMA DecidedStays ==
  ASSUME TypeInv, DecidedInv, Lasting, NEW x \in Requests, NEW y, NEW r,
         Only(x, y) \/ Over(x, y, r), x \in Deliveries => Decided(x)'
  PROVE  DecidedInv'
  <1> SUFFICES ASSUME NEW z \in Deliveries, z # x PROVE Decided(z)'
    BY DEF DecidedInv
  <1>1. z \in Requests /\ RecOK(z, req[z])
    BY Members DEF TypeInv, RecsOK
  <1>2. /\ req'[z].pc = req[z].pc /\ req'[z].decided = req[z].decided
        /\ req'[z].link = req[z].link
    BY <1>1, OvertakenOK DEF Only, Over
  <1> QED
    BY <1>2 DEF DecidedInv, Decided, Lasting

LEMMA ProcessDecided ==
  ASSUME TypeInv, DecidedInv, NEW x \in Deliveries,
         Process(x) \/ ProcessingFails(x) \/ InterviewFails(x)
  PROVE  DecidedInv'
  <1>0. /\ x \in Requests /\ RecOK(x, req[x]) /\ req[x].pc \in Busy
    BY Members DEF TypeInv, RecsOK, RecOK, Busy, Process, ProcessingFails, InterviewFails,
                   Read, Match, Upsert, Check, SetStatus
  <1>1. Lasting
    <2>1. ASSUME NEW i \in Interviews, SetStatus(x) PROVE interview'[i].outcome = interview[i].outcome
      BY <2>1, TypeSplits DEF SetStatus, TypeInv, SiteOK, RoundsOK, RoundType
    <2>2. ASSUME ~ SetStatus(x) PROVE UNCHANGED interview
      BY <2>2 DEF Process, Read, Match, Upsert, Check, ProcessingFails, InterviewFails
    <2> QED
      BY <2>1, <2>2 DEF Lasting
  <1>2. Returned(x).pc \notin Busy
    BY <1>0, ReturnedOK, Members DEF Busy
  <1>3. ASSUME NEW y, req'[x] = y, y.pc \notin Busy PROVE Decided(x)'
    BY <1>3 DEF Decided
  <1>4. ASSUME NEW y, req'[x] = y, y.decided = req[x].decided, y.pc # "status" PROVE Decided(x)'
    BY <1>0, <1>1, <1>4 DEF Decided, DecidedInv, Lasting
  <1>5. CASE Read(x)
    BY <1>0, <1>1, <1>2, <1>3, <1>4, <1>5, ReadRow, DecidedStays DEF Only, Kept
  <1>6. CASE Match(x)
    BY <1>0, <1>1, <1>4, <1>6, MatchRow, DecidedStays DEF Only, Kept
  <1>7. CASE Upsert(x)
    <2>1. PICK y : /\ Over(x, y, req[x].res)
                   /\ y = Returned(x) \/ (y.pc = "check" /\ Kept(req[x], y))
      BY <1>7, UpsertRow
    <2>2. Decided(x)'
      BY <1>2, <1>3, <1>4, <2>1 DEF Over, Kept
    <2> QED
      BY <1>0, <1>1, <2>1, <2>2, DecidedStays
  <1>8. CASE Check(x)
    <2>1. CASE Only(x, Returned(x))
      BY <1>0, <1>1, <1>2, <1>3, <2>1, DecidedStays DEF Only
    <2>2. ASSUME NEW y, ~ interview[req[x].link.iv].outcome, Only(x, y), Kept(req[x], y),
                 y.pc = "status", y.link = req[x].link
          PROVE  DecidedInv'
      <3>1. req[x].link.iv \in Interviews /\ UNCHANGED interview
        BY <1>0, <1>8 DEF Check, RecOK
      <3>2. Decided(x)'
        BY <1>0, <2>2, <3>1 DEF Decided, DecidedInv, Only, Kept
      <3> QED
        BY <1>0, <1>1, <2>2, <3>2, DecidedStays
    <2> QED
      BY <1>8, <2>1, <2>2, CheckRow
  <1>9. CASE SetStatus(x) \/ InterviewFails(x)
    BY <1>0, <1>1, <1>2, <1>3, <1>9, ReturnRow, DecidedStays DEF SetStatus, InterviewFails, Only
  <1>10. CASE ProcessingFails(x)
    <2>1. PICK y : Only(x, y) /\ y.pc \in {"failed", "items"}
      <3>1. CASE x \in Hooks
        BY <1>10, <3>1, FailedRow DEF ProcessingFails, Move
      <3>2. CASE x \notin Hooks
        BY <1>0, <1>10, <3>2, ReturnRow, ReturnedOK, Members DEF ProcessingFails
      <3> QED
        BY <3>1, <3>2
    <2>2. Decided(x)'
      BY <2>1 DEF Only, Decided, Busy
    <2> QED
      BY <1>0, <1>1, <2>1, <2>2, DecidedStays
  <1> QED
    BY <1>5, <1>6, <1>7, <1>8, <1>9, <1>10 DEF Process

LEMMA NextDecided == TypeInv /\ DecidedInv /\ [Next]_vars => DecidedInv'
  <1> SUFFICES ASSUME TypeInv, DecidedInv, [Next]_vars PROVE DecidedInv'
    OBVIOUS
  <1>1. CASE UNCHANGED vars \/ Tick \/ \E r \in Results : Publish(r)
    <2>1. UNCHANGED <<interview, req>>
      BY <1>1 DEF vars, Tick, Publish
    <2> QED
      BY <2>1 DEF DecidedInv, Decided
  <1>2. ASSUME NEW h \in Hooks, Webhook(h) PROVE DecidedInv'
    <2>0. h \in Requests /\ h \in Deliveries /\ UNCHANGED interview
      BY <1>2, Members DEF Webhook, Deliver, Mark, RecordFailure, EventFails
    <2>1. ASSUME NEW r \in Results, NEW v \in 1..MaxVersions, Deliver(h, r, v) PROVE DecidedInv'
      <3>1. PICK y : Only(h, y) /\ y.pc = "read" /\ y.decided = {i \in Interviews : interview[i].outcome}
        BY <2>1, DeliverRow
      <3>2. Decided(h)' /\ Lasting
        BY <2>0, <3>1 DEF Only, Decided, Lasting
      <3> QED
        BY <2>0, <3>1, <3>2, DecidedStays
    <2>2. CASE Mark(h) \/ RecordFailure(h) \/ EventFails(h)
      <3>1. PICK y : Only(h, y) /\ y.pc \in {"idle", "failed"}
        <4>1. CASE Mark(h) \/ RecordFailure(h)
          BY <2>0, <4>1, IdleRow DEF Mark, RecordFailure
        <4>2. CASE EventFails(h) /\ req[h].pc = "mark"
          <5>1. req' = [req EXCEPT ![h].pc = "failed"]
            BY <4>2 DEF EventFails
          <5> QED
            BY <4>2, <5>1, FailedRow
        <4>3. CASE EventFails(h) /\ req[h].pc # "mark"
          <5>1. req' = [req EXCEPT ![h] = Idle]
            BY <4>3 DEF EventFails
          <5> QED
            BY <2>0, <5>1, IdleRow
        <4> QED
          BY <2>2, <4>1, <4>2, <4>3
      <3>2. Decided(h)' /\ Lasting
        BY <2>0, <3>1 DEF Only, Decided, Lasting, Busy
      <3> QED
        BY <2>0, <3>1, <3>2, DecidedStays
    <2> QED
      BY <1>2, <2>1, <2>2 DEF Webhook
  <1>3. ASSUME NEW s \in Syncs, Sync(s) \/ SyncFails(s) PROVE DecidedInv'
    <2>0. s \in Requests /\ s \in Deliveries /\ UNCHANGED interview
      BY <1>3, Members DEF Sync, StartSync, Fetch, NextItem, EndSync, SyncFails
    <2>1. PICK y : /\ Only(s, y)
                   /\ \/ y.pc \in {"idle", "fetch", "items"}
                      \/ y.pc = "read" /\ y.decided = {j \in Interviews : interview[j].outcome}
      <3>1. CASE EndSync(s) \/ SyncFails(s)
        BY <2>0, <3>1, IdleRow DEF EndSync, SyncFails
      <3>2. CASE StartSync(s)
        BY <3>2, StartRow
      <3>3. CASE Fetch(s)
        BY <3>3, FetchRow
      <3>4. CASE NextItem(s)
        BY <3>4, NextItemRow
      <3> QED
        BY <1>3, <3>1, <3>2, <3>3, <3>4 DEF Sync
    <2>2. Decided(s)' /\ Lasting
      BY <2>0, <2>1 DEF Only, Decided, Lasting, Busy
    <2> QED
      BY <2>0, <2>1, <2>2, DecidedStays
  <1>4. ASSUME NEW c \in Clerks, Clerk(c) PROVE DecidedInv'
    <2>0. c \in Requests /\ c \notin Deliveries
      BY Members
    <2>1. Lasting
      <3>1. CASE Outcome(c)
        BY <3>1, TypeSplits DEF Outcome, Lasting, TypeInv, SiteOK, RoundsOK, RoundType
      <3>2. CASE ~ Outcome(c)
        BY <1>4, <3>2 DEF Clerk, AskConfirm, Relink, Dismiss, Confirm, ClerkFails, Lasting
      <3> QED
        BY <3>1, <3>2
    <2>2. \E y, r : Only(c, y) \/ Over(c, y, r)
      <3>1. ASSUME NEW r \in Results, AskConfirm(c, r) PROVE \E y : Only(c, y)
        BY <3>1, AskRow
      <3>2. ASSUME NEW r \in Results, Relink(c, r) \/ Dismiss(c, r) PROVE Over(c, req[c], r)
        BY <3>2, ReviewRow DEF Relink, Dismiss
      <3>3. CASE Confirm(c)
        BY <3>3, ConfirmRow
      <3>4. CASE Outcome(c) \/ ClerkFails(c)
        BY <2>0, <3>4, IdleRow DEF Outcome, ClerkFails
      <3> QED
        BY <1>4, <3>1, <3>2, <3>3, <3>4 DEF Clerk
    <2> QED
      BY <2>0, <2>1, <2>2, DecidedStays
  <1>5. CASE Crash
    BY <1>5, Members DEF Crash, DecidedInv, Decided, Idle, Busy
  <1> QED
    BY <1>1, <1>2, <1>3, <1>4, <1>5, ProcessDecided DEF Next

\* No delivery, of whatever result, changes the status of a round that had its
\* outcome when the delivery came in.
THEOREM OutcomesFreeze == Spec => OutcomeFreezesStatus
  <1>1. ASSUME TypeInv, DecidedInv, [Next]_vars, NEW i \in Interviews,
               interview'[i].status # interview[i].status
        PROVE  \E x \in Deliveries : /\ req[x].pc = "status" /\ req[x].link.iv = i
                                     /\ i \notin req[x].decided
    <2>1. interview \in [Interviews -> RoundType]
      BY <1>1, TypeSplits DEF TypeInv, SiteOK, RoundsOK
    <2>2. PICK x \in Deliveries : SetStatus(x)
      <3>1. ASSUME NEW x \in Deliveries, Process(x) \/ ProcessingFails(x) \/ InterviewFails(x)
            PROVE  SetStatus(x)
        BY <1>1, <3>1 DEF Process, Read, Match, Upsert, Check, ProcessingFails, InterviewFails
      <3>2. ASSUME NEW h \in Hooks PROVE ~ Webhook(h)
        BY <1>1, <3>2 DEF Webhook, Deliver, Mark, RecordFailure, EventFails
      <3>3. ASSUME NEW s \in Syncs PROVE ~ Sync(s) /\ ~ SyncFails(s)
        BY <1>1, <3>3 DEF Sync, StartSync, Fetch, NextItem, EndSync, SyncFails
      <3>4. ASSUME NEW c \in Clerks PROVE ~ Clerk(c)
        <4>1. ~ Outcome(c)
          BY <1>1, <2>1 DEF Outcome, RoundType
        <4> QED
          BY <1>1, <4>1 DEF Clerk, AskConfirm, Relink, Dismiss, Confirm, ClerkFails
      <3>5. ~ Tick /\ ~ Crash /\ ~ UNCHANGED vars /\ \A q \in Results : ~ Publish(q)
        BY <1>1 DEF Tick, Crash, vars, Publish
      <3> QED
        BY <1>1, <3>1, <3>2, <3>3, <3>4, <3>5 DEF Next
    <2>3. req[x].pc = "status" /\ req[x].link.iv = i
      BY <1>1, <2>1, <2>2 DEF SetStatus, RoundType
    <2> QED
      BY <1>1, <2>3 DEF DecidedInv, Decided, Busy
  <1>2. TypeInv /\ DecidedInv /\ [Next]_vars
          => [\A i \in Interviews : interview'[i].status # interview[i].status
                => \E x \in Deliveries : /\ req[x].pc = "status" /\ req[x].link.iv = i
                                         /\ i \notin req[x].decided]_vars
    BY <1>1
  <1>3. Init => DecidedInv
    BY Members DEF Init, DecidedInv, Decided, Idle, Busy
  <1> QED
    BY <1>2, <1>3, InitType, NextType, NextDecided, PTL DEF Spec, OutcomeFreezesStatus

-----------------------------------------------------------------------------
(* The inbox implements InboxContract: its steps.                          *)

Shown == [x \in Deliveries |-> Abstracted(req[x])]

LEMMA ShownIdle ==
  ASSUME NEW q, q.pc \notin Busy
  PROVE  Abstracted(q) = Contract!Idle
  BY DEF Abstracted, Busy, Contract!Idle

LEMMA ShownReceived ==
  ASSUME NEW q, q.pc = "read"
  PROVE  Abstracted(q) = [at |-> "received", res |-> q.res, ver |-> q.ver, stamp |-> q.stamp,
                          decided |-> q.decided, iv |-> None]
  BY DEF Abstracted

LEMMA ShownOpen ==
  ASSUME NEW q, q.pc \in {"match", "upsert"}, ~ q.beside
  PROVE  Abstracted(q) = [at |-> "open", res |-> q.res, ver |-> q.ver, stamp |-> q.stamp,
                          decided |-> q.decided, iv |-> None]
  BY DEF Abstracted

LEMMA ShownBeaten ==
  ASSUME NEW q, q.pc \in {"match", "upsert"}, q.beside
  PROVE  Abstracted(q) = [at |-> "overtaken", res |-> q.res, ver |-> q.ver, stamp |-> q.stamp,
                          decided |-> q.decided, iv |-> None]
  BY DEF Abstracted

LEMMA ShownStored ==
  ASSUME NEW q, q.pc \in {"check", "status"}
  PROVE  Abstracted(q) = [at |-> "stored", res |-> q.res, ver |-> q.ver, stamp |-> q.stamp,
                          decided |-> q.decided, iv |-> q.link.iv]
  BY DEF Abstracted

LEMMA ShownAt ==
  ASSUME NEW q, Abstracted(q).at = "open"
  PROVE  q.pc \in {"match", "upsert"} /\ ~ q.beside /\ Abstracted(q).res = q.res
  <1>1. CASE q.pc \in {"match", "upsert"}
    BY <1>1, ShownOpen, ShownBeaten
  <1>2. CASE q.pc = "read"
    BY <1>2, ShownReceived
  <1>3. CASE q.pc \in {"check", "status"}
    BY <1>3, ShownStored
  <1>4. CASE q.pc \notin Busy
    BY <1>4, ShownIdle DEF Busy, Contract!Idle
  <1> QED
    BY <1>1, <1>2, <1>3, <1>4 DEF Busy

LEMMA ShownOvertaken ==
  ASSUME TypeInv, NEW z \in Deliveries, NEW r
  PROVE  Abstracted(Overtaken(z, r)) = Contract!Overtaken(Abstracted(req[z]), r)
  <1> DEFINE p == req[z]
             q == Overtaken(z, r)
  <1>1. z \in Requests /\ RecOK(z, p) /\ p \in Locals
    BY Members DEF TypeInv, RecsOK, RecOK
  <1>2. CASE p.pc \in {"match", "upsert"} /\ p.res = r
    <2>1. /\ q.pc = p.pc /\ q.res = p.res /\ q.ver = p.ver /\ q.stamp = p.stamp
          /\ q.decided = p.decided /\ q.beside
      BY <1>1, <1>2, OvertakenOK
    <2> HIDE DEF q
    <2>2. Abstracted(q) = [at |-> "overtaken", res |-> p.res, ver |-> p.ver, stamp |-> p.stamp,
                           decided |-> p.decided, iv |-> None]
      BY <1>2, <2>1, ShownBeaten
    <2>3. CASE p.beside
      BY <1>2, <2>2, <2>3, ShownBeaten DEF Contract!Overtaken, q
    <2>4. CASE ~ p.beside
      BY <1>2, <2>2, <2>4, ShownOpen DEF Contract!Overtaken, q
    <2> QED
      BY <2>3, <2>4
  <1>3. CASE ~ (p.pc \in {"match", "upsert"} /\ p.res = r)
    <2>1. q = p
      BY <1>3 DEF Overtaken
    <2>2. ~ (Abstracted(p).at = "open" /\ Abstracted(p).res = r)
      BY <1>3, ShownAt
    <2> QED
      BY <2>1, <2>2 DEF Contract!Overtaken
  <1> QED
    BY <1>2, <1>3

\* A step of x alone, as the contract sees it.
LEMMA ShownOnly ==
  ASSUME TypeInv, NEW x \in Requests, NEW y, Only(x, y)
  PROVE  /\ x \in Deliveries => Shown' = [Shown EXCEPT ![x] = Abstracted(y)]
         /\ x \notin Deliveries => Shown' = Shown
  <1>1. \A z \in Deliveries : z # x => req'[z] = req[z]
    BY Members DEF Only
  <1>2. req'[x] = y
    BY DEF Only
  <1> QED
    BY <1>1, <1>2 DEF Shown

LEMMA ContractStutter ==
  ASSUME TypeInv, NEW x \in Requests, NEW y, Only(x, y),
         x \in Deliveries => Abstracted(y) = Abstracted(req[x]),
         UNCHANGED <<ver, row, interview>>
  PROVE  UNCHANGED Contract!vars
  <1>1. Shown' = Shown
    BY ShownOnly DEF Shown
  <1> QED
    BY <1>1 DEF Contract!vars, Shown

LEMMA ContractDrop ==
  ASSUME TypeInv, NEW x \in Deliveries, NEW y, Only(x, y), y.pc \notin Busy,
         UNCHANGED <<ver, row, interview>>
  PROVE  Contract!Next
  <1>0. Shown' = [Shown EXCEPT ![x] = Contract!Idle]
    BY ShownOnly, ShownIdle, Members
  <1>1. Shown' = [z \in Deliveries |-> IF z \in {x} THEN Contract!Idle ELSE Shown[z]]
    BY <1>0 DEF Shown
  <1>2. Contract!Drop({x})
    BY <1>1 DEF Contract!Drop, Shown
  <1> QED
    BY <1>2 DEF Contract!Next

LEMMA ContractReceive ==
  ASSUME TypeInv, NEW x \in Deliveries, NEW y, Only(x, y), req[x].pc \notin Busy,
         y.pc = "read", y.res \in Results, y.ver \in 1..MaxVersions, y.ver <= ver[y.res],
         y.stamp \in {2 * y.ver, 2 * ver[y.res] + 1},
         y.decided = {i \in Interviews : interview[i].outcome},
         UNCHANGED <<ver, row, interview>>
  PROVE  Contract!Next
  <1>1. Shown[x].at = "idle"
    BY ShownIdle DEF Shown, Contract!Idle
  <1>2. Abstracted(y) = [at |-> "received", res |-> y.res, ver |-> y.ver, stamp |-> y.stamp,
                        decided |-> {i \in Interviews : interview[i].outcome}, iv |-> None]
    BY ShownReceived
  <1>3. Shown' = [Shown EXCEPT ![x] = Abstracted(y)]
    BY ShownOnly, Members
  <1>4. ver[y.res] \in Nat /\ y.ver \in 1..ver[y.res] /\ 0 < y.ver
    BY NatAssumption DEF TypeInv, TypeOK
  <1>5. Contract!Receive(x, y.res, y.ver)
    BY <1>1, <1>2, <1>3, <1>4 DEF Contract!Receive, Shown
  <1> QED
    BY <1>4, <1>5 DEF Contract!Next

LEMMA ContractLook ==
  ASSUME TypeInv, KnownInv, NEW x \in Deliveries, Read(x)
  PROVE  Contract!Next
  <1>0. /\ x \in Requests /\ req[x].pc = "read" /\ ~ req[x].beside /\ RecOK(x, req[x])
        /\ UNCHANGED <<ver, row, interview>>
    BY Members DEF Read, provider, KnownInv, ReqsKnown, Known, TypeInv, RecsOK
  <1>1. Shown[x] = [at |-> "received", res |-> req[x].res, ver |-> req[x].ver,
                    stamp |-> req[x].stamp, decided |-> req[x].decided, iv |-> None]
    BY <1>0, ShownReceived DEF Shown
  <1>2. /\ Contract!Outdated(Shown[x]) <=> Outdated(req[x].res, req[x].ver, req[x].stamp)
        /\ (/\ row[Shown[x].res].stamp = Shown[x].stamp /\ Shown[x].stamp # 2 * Shown[x].ver)
              <=> Tied(req[x].res, req[x].ver, req[x].stamp)
    BY <1>1 DEF Outdated, Identical, Tied, Contract!Outdated
  <1>3. CASE /\ \/ Outdated(req[x].res, req[x].ver, req[x].stamp)
                \/ Tied(req[x].res, req[x].ver, req[x].stamp)
             /\ Only(x, Returned(x))
    <2>1. Returned(x).pc \notin Busy
      BY <1>0, ReturnedOK, Members DEF Busy
    <2> QED
      BY <1>0, <1>3, <2>1, ContractDrop
  <1>4. ASSUME ~ Outdated(req[x].res, req[x].ver, req[x].stamp), NEW y, Only(x, y),
               Kept(req[x], y), y.beside = req[x].beside, y.pc \in {"match", "upsert"}
        PROVE  Contract!Next
    <2>1. Abstracted(y) = [at |-> "open", res |-> req[x].res, ver |-> req[x].ver,
                           stamp |-> req[x].stamp, decided |-> req[x].decided, iv |-> None]
      BY <1>0, <1>4, ShownOpen DEF Kept
    <2>2. Abstracted(y) = [Shown[x] EXCEPT !.at = "open"]
      BY <1>1, <2>1
    <2>3. Shown' = [Shown EXCEPT ![x] = [Shown[x] EXCEPT !.at = "open"]]
      BY <1>0, <1>4, <2>2, ShownOnly
    <2>4. Contract!Look(x)
      BY <1>0, <1>1, <1>2, <1>4, <2>3 DEF Contract!Look, Shown
    <2> QED
      BY <2>4 DEF Contract!Next
  <1> QED
    BY <1>3, <1>4, ReadRow

\* A write of the row of r by x, as the contract sees the others.
LEMMA ShownOver ==
  ASSUME TypeInv, NEW x \in Requests, NEW y, NEW r, Over(x, y, r)
  PROVE  /\ x \in Deliveries =>
              Shown' = [z \in Deliveries |-> IF z # x THEN Contract!Overtaken(Shown[z], r)
                                              ELSE Abstracted(y)]
         /\ x \notin Deliveries => Shown' = [z \in Deliveries |-> Contract!Overtaken(Shown[z], r)]
  <1>1. \A z \in Deliveries : z # x => Abstracted(req'[z]) = Contract!Overtaken(Shown[z], r)
    BY Members, ShownOvertaken DEF Over, Shown
  <1>2. req'[x] = y
    BY DEF Over
  <1> QED
    BY <1>1, <1>2 DEF Shown

LEMMA ContractWrite ==
  ASSUME TypeInv, SeenInv, NEW x \in Deliveries, Upsert(x)
  PROVE  Contract!Next
  <1> DEFINE r == req[x].res
             old == row[r]
             new == row'[r]
  <1>0. /\ x \in Requests /\ RecOK(x, req[x]) /\ req[x].pc = "upsert" /\ req[x] \in Locals
        /\ r \in Results /\ req[x].ver \in 1..MaxVersions
        /\ UNCHANGED <<ver, interview>>
    BY Members DEF Upsert, provider, TypeInv, RecsOK, RecOK, Busy
  <1>1. /\ \A q \in Results : q # r => row'[q] = row[q]
        /\ new.ver = req[x].ver /\ new.stamp = req[x].stamp /\ new.link = req[x].link /\ new.review = Reviewed(req[x].review)
    BY <1>0, WrittenRow, TypeSplits DEF TypeInv, SiteOK, RowsOK
  <1>2. new.review \in {"pending", "confirmed"}
    BY <1>1 DEF Reviewed
  <1>3. /\ Shown[x].res = r /\ Shown[x].ver = req[x].ver
        /\ Shown[x].stamp = req[x].stamp /\ Shown[x].decided = req[x].decided
        /\ Shown[x].at = IF req[x].beside THEN "overtaken" ELSE "open"
    BY <1>0, ShownOpen, ShownBeaten DEF Shown
  <1>4. ASSUME Shown[x].at = "open"
        PROVE  /\ ~ Contract!Outdated(Shown[x])
               /\ new.review = "confirmed" <=> old.review = "confirmed"
               /\ IF old.link.by = "none" THEN new.link.by # "manual" ELSE new.link = old.link
    <2>1. ~ req[x].beside
      BY <1>3, <1>4
    <2>2. /\ ~ Outdated(r, req[x].ver, req[x].stamp) /\ req[x].review = old.review
          /\ IF old.link.by = "none" THEN req[x].link \in Matches ELSE req[x].link = old.link
      BY <1>0, <2>1 DEF SeenInv, Seen
    <2> QED
      BY <1>1, <1>3, <2>2 DEF Outdated, Identical, Contract!Outdated, Reviewed, Matches, Unlinked
  <1>6. PICK y : /\ Over(x, y, r)
                 /\ \/ y = Returned(x) /\ req[x].link.iv = None
                    \/ y.pc = "check" /\ Kept(req[x], y) /\ y.link = req[x].link /\ req[x].link.iv # None
    BY UpsertRow
  <1>7. Abstracted(y) = IF new.link.iv = None THEN Contract!Idle
                        ELSE [at |-> "stored", res |-> Shown[x].res, ver |-> Shown[x].ver, stamp |-> Shown[x].stamp,
                              decided |-> Shown[x].decided, iv |-> new.link.iv]
    <2>1. CASE req[x].link.iv = None
      <3>1. y.pc \notin Busy
        BY <1>0, <1>6, <2>1, ReturnedOK, Members DEF Busy
      <3> QED
        BY <1>1, <2>1, <3>1, ShownIdle
    <2>2. CASE req[x].link.iv # None
      <3>1. Abstracted(y) = [at |-> "stored", res |-> r, ver |-> req[x].ver, stamp |-> req[x].stamp,
                             decided |-> req[x].decided, iv |-> req[x].link.iv]
        BY <1>6, <2>2, ShownStored DEF Kept
      <3> QED
        BY <1>1, <1>3, <2>2, <3>1
    <2> QED
      BY <2>1, <2>2
  <1>8. Shown' = [z \in Deliveries |-> IF z # x THEN Contract!Overtaken(Shown[z], r)
                     ELSE IF new.link.iv = None THEN Contract!Idle
                     ELSE [at |-> "stored", res |-> Shown[x].res, ver |-> Shown[x].ver, stamp |-> Shown[x].stamp,
                              decided |-> Shown[x].decided, iv |-> new.link.iv]]
    BY <1>0, <1>6, <1>7, ShownOver
  <1>9. Contract!Write(x)
    BY <1>0, <1>1, <1>2, <1>3, <1>4, <1>8 DEF Contract!Write, Contract!Rewrites, Shown
  <1> QED
    BY <1>9 DEF Contract!Next

LEMMA ContractRound ==
  ASSUME TypeInv, DecidedInv, NEW x \in Deliveries, SetStatus(x)
  PROVE  Contract!Next
  <1> DEFINE i == req[x].link.iv
             s == Status[req[x].ver]
  <1>0. /\ x \in Requests /\ RecOK(x, req[x]) /\ req[x].pc = "status" /\ i \in Interviews
        /\ i \notin req[x].decided /\ interview \in [Interviews -> RoundType]
        /\ UNCHANGED <<ver, row>>
    BY Members, TypeSplits
       DEF SetStatus, provider, TypeInv, RecsOK, RecOK, Busy, DecidedInv, Decided, SiteOK, RoundsOK
  <1>1. Shown[x] = [at |-> "stored", res |-> req[x].res, ver |-> req[x].ver,
                    stamp |-> req[x].stamp,
                    decided |-> req[x].decided, iv |-> i]
    BY <1>0, ShownStored DEF Shown
  <1>2. Only(x, Returned(x)) /\ Returned(x).pc \notin Busy
    BY <1>0, ReturnRow, ReturnedOK, Members DEF SetStatus, Busy
  <1>3. Shown' = [Shown EXCEPT ![x] = Contract!Idle]
    BY <1>0, <1>2, ShownOnly, ShownIdle
  <1>4. /\ s # "OTHER" => interview'[i].status = s
        /\ interview' = [interview EXCEPT ![i].status = interview'[i].status]
    BY <1>0 DEF SetStatus, RoundType
  <1>5. Contract!SetRound(x)
    BY <1>0, <1>1, <1>3, <1>4 DEF Contract!SetRound, Shown
  <1> QED
    BY <1>5 DEF Contract!Next

\* A recruiter writes the row of r.
LEMMA ContractReview ==
  ASSUME TypeInv, NEW c \in Clerks, NEW y, NEW r \in Results, Over(c, y, r), row[r].ver > 0,
         \A q \in Results : q # r => row'[q] = row[q],
         row'[r].ver = row[r].ver, row'[r].stamp = row[r].stamp,
         \/ row'[r].review \in {"confirmed", "dismissed"} /\ row'[r].link = row[r].link
         \/ row'[r].review = row[r].review /\ row'[r].link.by = "manual",
         UNCHANGED <<ver, interview>>
  PROVE  Contract!Next
  <1>1. Shown' = [z \in Deliveries |-> Contract!Overtaken(Shown[z], r)]
    BY ShownOver, Members
  <1>2. Contract!Review(r)
    BY <1>1 DEF Contract!Review, Contract!Rewrites, Shown
  <1> QED
    BY <1>2 DEF Contract!Next

LEMMA ContractProcess ==
  ASSUME TypeInv, SeenInv, DecidedInv, KnownInv, NEW x \in Deliveries,
         Process(x) \/ ProcessingFails(x) \/ InterviewFails(x)
  PROVE  Contract!Next \/ UNCHANGED Contract!vars
  <1>0. /\ x \in Requests /\ RecOK(x, req[x]) /\ req[x].pc \in Busy
    BY Members DEF TypeInv, RecsOK, RecOK, Busy, Process, ProcessingFails, InterviewFails,
                   Read, Match, Upsert, Check, SetStatus
  <1>1. Returned(x).pc \notin Busy
    BY <1>0, ReturnedOK, Members DEF Busy
  <1>2. CASE Read(x)
    BY <1>2, ContractLook
  <1>3. CASE Match(x)
    <2>1. req[x].pc = "match" /\ UNCHANGED <<ver, row, interview>>
      BY <1>3 DEF Match, provider
    <2>2. PICK y : /\ Only(x, y) /\ Kept(req[x], y) /\ y.pc = "upsert" /\ y.beside = req[x].beside
      BY <1>3, MatchRow
    <2>3. Abstracted(y) = Abstracted(req[x])
      <3>1. CASE req[x].beside
        <4>1. y.beside
          BY <2>2, <3>1, Zenon
        <4> QED
          BY <2>1, <2>2, <3>1, <4>1, ShownBeaten DEF Kept
      <3>2. CASE ~ req[x].beside
        BY <2>1, <2>2, <3>2, ShownOpen DEF Kept
      <3> QED
        BY <3>1, <3>2
    <2> QED
      BY <1>0, <2>1, <2>2, <2>3, ContractStutter
  <1>4. CASE Upsert(x)
    BY <1>4, ContractWrite
  <1>5. CASE Check(x)
    <2>1. req[x].pc = "check" /\ UNCHANGED <<ver, row, interview>>
      BY <1>5 DEF Check, provider
    <2>2. CASE Only(x, Returned(x))
      BY <1>1, <2>1, <2>2, ContractDrop
    <2>3. ASSUME NEW y, Only(x, y), Kept(req[x], y), y.pc = "status", y.link = req[x].link
          PROVE  UNCHANGED Contract!vars
      <3>1. Abstracted(y) = Abstracted(req[x])
        BY <2>1, <2>3, ShownStored DEF Kept
      <3> QED
        BY <1>0, <2>1, <2>3, <3>1, ContractStutter
    <2> QED
      BY <1>5, <2>2, <2>3, CheckRow
  <1>6. CASE SetStatus(x)
    BY <1>6, ContractRound
  <1>7. CASE ProcessingFails(x) \/ InterviewFails(x)
    <2>1. UNCHANGED <<ver, row, interview>>
      BY <1>7 DEF ProcessingFails, InterviewFails, provider
    <2>2. PICK y : Only(x, y) /\ y.pc \notin Busy
      <3>1. CASE x \in Hooks /\ ProcessingFails(x)
        BY <3>1, FailedRow DEF ProcessingFails, Move, Busy
      <3>2. CASE x \notin Hooks \/ InterviewFails(x)
        BY <1>0, <1>1, <1>7, <3>2, ReturnRow DEF ProcessingFails, InterviewFails
      <3> QED
        BY <1>7, <3>1, <3>2
    <2> QED
      BY <2>1, <2>2, ContractDrop
  <1> QED
    BY <1>2, <1>3, <1>4, <1>5, <1>6, <1>7 DEF Process

\* A delivery that is not being processed starts, or goes on with its call or its sync.
LEMMA ContractAround ==
  ASSUME TypeInv, KnownInv, NEW x \in Deliveries,
         (x \in Hooks /\ Webhook(x)) \/ (x \in Syncs /\ (Sync(x) \/ SyncFails(x)))
  PROVE  Contract!Next \/ UNCHANGED Contract!vars
  <1>0. /\ x \in Requests /\ req[x].pc \notin Busy /\ req[x] \in Locals
        /\ UNCHANGED <<ver, row, interview>>
    BY Members DEF TypeInv, RecsOK, provider, Busy, Webhook, Deliver, Mark, RecordFailure, EventFails,
                   Sync, StartSync, Fetch, NextItem, EndSync, SyncFails
  <1>1. ASSUME NEW y, Only(x, y), y.pc \notin Busy PROVE UNCHANGED Contract!vars
    BY <1>0, <1>1, ShownIdle, ContractStutter
  <1>2. ASSUME req' = [req EXCEPT ![x] = Idle] PROVE UNCHANGED Contract!vars
    BY <1>0, <1>1, <1>2, IdleRow DEF Busy
  <1>3. CASE x \in Hooks /\ Webhook(x)
    <2>1. ASSUME NEW r \in Results, NEW v \in 1..MaxVersions, Deliver(x, r, v) PROVE Contract!Next
      <3>1. PICK y : /\ Only(x, y) /\ y.pc = "read" /\ y.res = r /\ y.ver = v
                     /\ y.stamp \in {2 * v, 2 * ver[r] + 1}
                     /\ y.decided = {i \in Interviews : interview[i].outcome}
        BY <1>3, <2>1, DeliverRow
      <3> QED
        BY <1>0, <2>1, <3>1, ContractReceive DEF Deliver
    <2>2. CASE EventFails(x) /\ req[x].pc = "mark"
      <3>1. req' = [req EXCEPT ![x].pc = "failed"]
        BY <2>2 DEF EventFails
      <3> QED
        BY <1>1, <1>3, <2>2, <3>1, FailedRow DEF Busy
    <2>3. CASE Mark(x) \/ RecordFailure(x) \/ (EventFails(x) /\ req[x].pc # "mark")
      BY <1>2, <2>3 DEF Mark, RecordFailure, EventFails
    <2> QED
      BY <1>3, <2>1, <2>2, <2>3 DEF Webhook
  <1>4. CASE x \in Syncs /\ (Sync(x) \/ SyncFails(x))
    <2>1. CASE StartSync(x)
      BY <1>1, <1>4, <2>1, StartRow DEF Busy
    <2>2. CASE Fetch(x)
      BY <1>1, <1>4, <2>2, FetchRow DEF Busy
    <2>3. CASE NextItem(x)
      <3>1. PICK y : \E i \in req[x].items :
               /\ Only(x, y) /\ y.pc = "read" /\ i = <<y.res, y.ver>>
               /\ y.stamp \in {2 * y.ver, 2 * ver[y.res] + 1}
               /\ y.decided = {j \in Interviews : interview[j].outcome}
        BY <1>4, <2>3, NextItemRow
      <3>2. <<y.res, y.ver>> \in req[x].items
        BY <3>1
      <3>3. y.res \in Results /\ y.ver \in 1..MaxVersions /\ y.ver <= ver[y.res]
        BY <1>0, <3>2 DEF Locals, KnownInv, ReqsKnown, Known
      <3> QED
        BY <1>0, <3>1, <3>3, ContractReceive
    <2>4. CASE EndSync(x) \/ SyncFails(x)
      BY <1>2, <2>4 DEF EndSync, SyncFails
    <2> QED
      BY <1>4, <2>1, <2>2, <2>3, <2>4 DEF Sync
  <1> QED
    BY <1>3, <1>4

LEMMA ContractClerk ==
  ASSUME TypeInv, KnownInv, NEW c \in Clerks, Clerk(c)
  PROVE  Contract!Next \/ UNCHANGED Contract!vars
  <1>0. /\ c \in Requests /\ c \notin Deliveries /\ RecOK(c, req[c])
        /\ row \in [Results -> RowType]
    BY Members, TypeSplits DEF TypeInv, RecsOK, SiteOK, RowsOK
  <1>1. ASSUME NEW r \in Results, AskConfirm(c, r) PROVE UNCHANGED Contract!vars
    <2>1. UNCHANGED <<ver, row, interview>>
      BY <1>1 DEF AskConfirm, provider
    <2> QED
      BY <1>0, <1>1, <2>1, AskRow, ContractStutter
  <1>2. ASSUME NEW r \in Results, Relink(c, r) \/ Dismiss(c, r) PROVE Contract!Next
    <2>1. Over(c, req[c], r)
      BY <1>2, ReviewRow DEF Relink, Dismiss
    <2>2. row[r].ver > 0 /\ UNCHANGED <<ver, interview>>
      BY <1>2 DEF Relink, Dismiss, provider
    <2>3. /\ \A q \in Results : q # r => row'[q] = row[q]
          /\ row'[r].ver = row[r].ver /\ row'[r].stamp = row[r].stamp
          /\ \/ row'[r].review \in {"confirmed", "dismissed"} /\ row'[r].link = row[r].link
             \/ row'[r].review = row[r].review /\ row'[r].link.by = "manual"
      <3>1. CASE Dismiss(c, r)
        BY <1>0, <3>1 DEF Dismiss, RowType
      <3>2. CASE Relink(c, r)
        BY <1>0, <3>2 DEF Relink, RowType
      <3> QED
        BY <1>2, <3>1, <3>2
    <2> QED
      BY <2>1, <2>2, <2>3, ContractReview
  <1>3. CASE Confirm(c)
    <2> DEFINE r == req[c].res
    <2>1. PICK y : Over(c, y, r) /\ r \in Results
      BY <1>3, ConfirmRow
    <2>2. row[r].ver > 0 /\ UNCHANGED <<ver, interview>>
      BY <1>0, <1>3 DEF Confirm, provider, KnownInv, ReqsKnown, Known
    <2>3. /\ \A q \in Results : q # r => row'[q] = row[q]
          /\ row'[r].ver = row[r].ver /\ row'[r].stamp = row[r].stamp
          /\ row'[r].review = "confirmed" /\ row'[r].link = row[r].link
      BY <1>0, <1>3, <2>1 DEF Confirm, RowType
    <2> HIDE DEF r
    <2> QED
      BY <2>1, <2>2, <2>3, ContractReview
  <1>4. CASE Outcome(c)
    <2>1. Shown' = Shown
      BY <1>0, <1>4, IdleRow, ShownOnly DEF Outcome
    <2>2. Contract!Decide(req[c].link.iv) /\ req[c].link.iv \in Interviews
      BY <1>0, <1>4, <2>1 DEF Outcome, provider, Contract!Decide, Shown, RecOK
    <2> QED
      BY <2>2 DEF Contract!Next
  <1>5. CASE ClerkFails(c)
    <2>1. UNCHANGED <<ver, row, interview>>
      BY <1>5 DEF ClerkFails, provider
    <2> QED
      BY <1>0, <1>5, <2>1, IdleRow, ContractStutter DEF ClerkFails
  <1> QED
    BY <1>1, <1>2, <1>3, <1>4, <1>5 DEF Clerk

LEMMA ContractStep ==
  ASSUME TypeInv, SeenInv, DecidedInv, KnownInv, [Next]_vars
  PROVE  [Contract!Next]_Contract!vars
  <1>1. ASSUME NEW r \in Results, Publish(r) PROVE Contract!Next
    <2>1. Contract!Publish(r)
      BY <1>1 DEF Publish, Contract!Publish
    <2> QED
      BY <2>1 DEF Contract!Next
  <1>2. CASE Tick \/ UNCHANGED vars
    BY <1>2 DEF Tick, vars, provider, Contract!vars
  <1>3. CASE Crash
    <2>1. \A x \in Deliveries : Abstracted(req'[x]) = Contract!Idle
      BY <1>3, Members, ShownIdle DEF Crash, Idle, Busy
    <2>2. Shown' = [x \in Deliveries |-> IF x \in Deliveries THEN Contract!Idle ELSE Shown[x]]
      BY <2>1 DEF Shown
    <2>3. Contract!Drop(Deliveries)
      BY <1>3, <2>2 DEF Crash, provider, Contract!Drop, Shown
    <2> QED
      BY <2>3 DEF Contract!Next
  <1> QED
    BY <1>1, <1>2, <1>3, ContractProcess, ContractAround, ContractClerk, Members DEF Next

LEMMA ContractInit == Init => Contract!Init
  <1> SUFFICES ASSUME Init PROVE Contract!Init
    OBVIOUS
  <1>1. \A x \in Deliveries : Abstracted(req[x]) = Contract!Idle
    BY Members, ShownIdle DEF Init, Idle, Busy
  <1> QED
    BY <1>1 DEF Init, Contract!Init, NoRow, Unlinked

\* The inbox implements InboxContract: for any number of results, webhook calls, syncs and
\* recruiters, the awaits between the statements of a delivery that no other write
\* overtakes cannot be told from one atomic step.
THEOREM InboxImplementsContract == Spec => ImplementsContract
  <1>1. TypeInv /\ SeenInv /\ DecidedInv /\ KnownInv /\ [Next]_vars
          => [Contract!Next]_Contract!vars
    BY ContractStep
  <1>2. Init => DecidedInv
    BY Members DEF Init, DecidedInv, Decided, Idle, Busy
  <1> QED
    BY <1>1, <1>2, ContractInit, InitType, NextType, InitSeen, NextSeen, NextDecided,
       InitKnown, NextKnown, PTL
       DEF Spec, ImplementsContract, Contract!Spec
=============================================================================
