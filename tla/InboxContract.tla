--------------------------- MODULE InboxContract ---------------------------
(***************************************************************************)
(* What the inbox promises, without its requests and the awaits between    *)
(* their statements: a delivery that looked at the stored result and finds *)
(* it as it was when it writes, writes as if it had done both at once; it  *)
(* replaces no newer version, keeps what a recruiter said, and leaves      *)
(* alone the rounds that were decided when it came in.                     *)
(***************************************************************************)
EXTENDS Naturals

CONSTANTS Results, Interviews, Deliveries, None, Status

VARIABLES
    published,  \* the provider's latest version of a result
    row,        \* the stored version, its review and its link to a round
    interview,  \* rounds: their status, and whether a recruiter decided them
    delivery    \* what is being processed: received, open, overtaken, stored

vars == <<published, row, interview, delivery>>

\* decided: the rounds that a recruiter had decided when the delivery came in.
Idle == [at |-> "idle", res |-> None, ver |-> 0, stamp |-> 0, decided |-> {}, iv |-> None]

Init ==
    /\ published = [r \in Results |-> 0]
    /\ row = [r \in Results |-> [ver |-> 0, stamp |-> 0, review |-> "none",
                             link |-> [by |-> "none", iv |-> None]]]
    /\ interview = [i \in Interviews |-> [status |-> "SCHEDULED", outcome |-> FALSE]]
    /\ delivery = [x \in Deliveries |-> Idle]

Publish(r) ==
    /\ published' = [published EXCEPT ![r] = @ + 1]
    /\ UNCHANGED <<row, interview, delivery>>

\* Any version that there is may be delivered, in any order and any number of times.
\* It comes with its date, 2v, or counts as newer than all there is.
Receive(x, r, v) ==
    /\ delivery[x].at = "idle" /\ 0 < v /\ v <= published[r]
    /\ \E stamp \in {2 * v, 2 * published[r] + 1} :
       delivery' = [delivery EXCEPT ![x] = [at |-> "received", res |-> r, ver |-> v, stamp |-> stamp,
                        decided |-> {i \in Interviews : interview[i].outcome}, iv |-> None]]
    /\ UNCHANGED <<published, row, interview>>

\* It is stored already, or a newer one is.
Outdated(d) ==
    LET old == row[d.res]
    IN  \/ old.ver = d.ver /\ (old.stamp = 2 * d.ver <=> d.stamp = 2 * d.ver)
        \/ old.stamp > d.stamp

\* Of two that came without a date between the same versions either counts as newer.
Look(x) ==
    /\ delivery[x].at = "received"
    /\ LET d == delivery[x]
       IN  \/ /\ Outdated(d) \/ (row[d.res].stamp = d.stamp /\ d.stamp # 2 * d.ver)
              /\ delivery' = [delivery EXCEPT ![x] = Idle]
           \/ /\ ~Outdated(d)
              /\ delivery' = [delivery EXCEPT ![x].at = "open"]
    /\ UNCHANGED <<published, row, interview>>

\* A delivery as it is after another has written the row of r.
Overtaken(d, r) == IF d.at = "open" /\ d.res = r THEN [d EXCEPT !.at = "overtaken"] ELSE d

\* Only the row of r changes.
Rewrites(r) == \A q \in Results : q # r => row'[q] = row[q]

\* The version is stored.  What review and link become is decided on the row as it is
\* now, unless the delivery is overtaken: then it may lose what the other wrote.
Write(x) ==
    /\ delivery[x].at \in {"open", "overtaken"}
    /\ LET d   == delivery[x]
           old == row[d.res]
           new == row'[d.res]
       IN  /\ Rewrites(d.res) /\ new.ver = d.ver /\ new.stamp = d.stamp /\ new.review \in {"pending", "confirmed"}
           /\ d.at = "open" => /\ ~Outdated(d)
                               /\ new.review = "confirmed" <=> old.review = "confirmed"
                               /\ IF old.link.by = "none" THEN new.link.by # "manual"
                                  ELSE new.link = old.link
           /\ delivery' = [y \in Deliveries |->
                 IF y # x THEN Overtaken(delivery[y], d.res)
                 ELSE IF new.link.iv = None THEN Idle
                 ELSE [at |-> "stored", res |-> d.res, ver |-> d.ver, stamp |-> d.stamp,
                       decided |-> d.decided, iv |-> new.link.iv]]
    /\ UNCHANGED <<published, interview>>

\* The round that was linked takes over COMPLETED and NO_SHOW, when it was not decided
\* before the delivery came in.
SetRound(x) ==
    /\ delivery[x].at = "stored"
    /\ LET i == delivery[x].iv
           s == Status[delivery[x].ver]
       IN  /\ i \in Interviews \ delivery[x].decided
           /\ s # "OTHER" => interview'[i].status = s
           /\ interview' = [interview EXCEPT ![i].status = interview'[i].status]
    /\ delivery' = [delivery EXCEPT ![x] = Idle]
    /\ UNCHANGED <<published, row>>

\* A recruiter confirms, dismisses or links what is stored.
Review(r) ==
    /\ row[r].ver > 0 /\ Rewrites(r) /\ row'[r].ver = row[r].ver /\ row'[r].stamp = row[r].stamp
    /\ \/ row'[r].review \in {"confirmed", "dismissed"} /\ row'[r].link = row[r].link
       \/ row'[r].review = row[r].review /\ row'[r].link.by = "manual"
    /\ delivery' = [x \in Deliveries |-> Overtaken(delivery[x], r)]
    /\ UNCHANGED <<published, interview>>

Decide(i) ==
    /\ interview' = [interview EXCEPT ![i].outcome = TRUE]
    /\ UNCHANGED <<published, row, delivery>>

\* Deliveries end early: they fail, find their round decided, or the process ends.
Drop(X) ==
    /\ UNCHANGED <<published, row, interview>>
    /\ delivery' = [x \in Deliveries |-> IF x \in X THEN Idle ELSE delivery[x]]

Next ==
    \/ \E X \in SUBSET Deliveries : Drop(X)
    \/ \E i \in Interviews : Decide(i)
    \/ \E r \in Results : Publish(r) \/ Review(r)
    \/ \E x \in Deliveries : \/ \E r \in Results : \E v \in 1..published[r] : Receive(x, r, v)
                             \/ Look(x) \/ Write(x) \/ SetRound(x)

Spec == Init /\ [][Next]_vars
=============================================================================
