-------------------------- MODULE OfferGateProofs --------------------------
(***************************************************************************)
(* Proofs about OfferGate, for any number of requests, hooks, actions and  *)
(* faults: what the gate promises survives every interleaving of the other *)
(* writers of a status.                                                    *)
(***************************************************************************)
EXTENDS OfferGate, TLAPS

\* A request asks for a status its next write may hold; only an offer is gated.
ReqOK ==
    \A r \in Requests :
        /\ req[r].pc \in {"status", "count", "approval"} => req[r].target = "OFFER_SENT"
        /\ req[r].pc = "candidate" => req[r].target \in CandStatuses
        /\ req[r].pc = "application" => req[r].target \in AppStatuses
        /\ req[r].route = "import" => req[r].target \in {"OFFER_SENT", "JOINED"}
        /\ req[r].route = "decision" => req[r].target \in {"JOINED", "REJECTED"}

StatusOK == cand \in CandStatuses /\ app \in AppStatuses /\ old \in BOOLEAN /\ excused \in BOOLEAN
FeedbackOK == fb \in [Rounds -> [status : {"NONE", "SELECTED", "REJECTED"}, live : BOOLEAN]]
BoundsOK == acts \in Nat /\ faults \in Nat

TypeInv ==
    /\ StatusOK /\ FeedbackOK /\ BoundsOK
    /\ checks \in Seq(Check)
    /\ req \in [Requests -> ReqRecord] /\ hook \in [Hooks -> HookRecord]
    /\ sweep \in SweepRecord
    /\ ReqOK

LEMMA TypeSplits == TypeInv => TypeOK
  BY DEF TypeInv, TypeOK, StatusOK, FeedbackOK, BoundsOK

-----------------------------------------------------------------------------
(* Types.                                                                  *)

LEMMA InitType == Init => TypeInv
  <1> SUFFICES ASSUME Init PROVE TypeInv
    OBVIOUS
  <1> USE DEF Init
  <1>1. StatusOK /\ BoundsOK
    BY DEF StatusOK, BoundsOK, CandStatuses, AppStatuses
  <1>2. FeedbackOK
    <2> DEFINE Row == [status : {"NONE", "SELECTED", "REJECTED"}, live : BOOLEAN]
               chosen == [status |-> "SELECTED", live |-> TRUE]
    <2>1. NoFeedback \in Row /\ chosen \in Row
      BY Zenon DEF NoFeedback
    <2>2. \/ fb = [rd \in Rounds |-> NoFeedback]
          \/ fb = [rd \in Rounds |-> IF rd = "ROUND_2" THEN chosen ELSE NoFeedback]
      OBVIOUS
    <2>3. FeedbackOK <=> fb \in [Rounds -> Row]
      BY DEF FeedbackOK
    <2> HIDE DEF Row, chosen, Init
    <2> QED
      BY <2>1, <2>2, <2>3
  <1>3. checks \in Seq(Check)
    <2>1. NewCheck("ROUND_2") \in [ref : {"ROUND_2"}, status : {"PENDING"}, approved : BOOLEAN]
      BY Zenon DEF NewCheck
    <2>2. "ROUND_2" \in Rounds => NewCheck("ROUND_2") \in Check
      BY <2>1 DEF Check
    <2>3. \/ checks = <<>>
          \/ "ROUND_2" \in Rounds /\ checks = <<NewCheck("ROUND_2")>>
      OBVIOUS
    <2> HIDE DEF Init
    <2>4. ASSUME NEW c \in Check PROVE <<c>> \in Seq(Check)
      OBVIOUS
    <2>5. CASE checks = <<>>
      BY <2>5
    <2>6. CASE "ROUND_2" \in Rounds /\ checks = <<NewCheck("ROUND_2")>>
      BY <2>2, <2>4, <2>6
    <2> QED
      BY <2>3, <2>5, <2>6
  <1>4. IdleReq \in ReqRecord
    BY DEF IdleReq, ReqRecord, CandStatuses
  <1>5. req \in [Requests -> ReqRecord] /\ ReqOK
    BY <1>4 DEF ReqOK, IdleReq
  <1>6. hook \in [Hooks -> HookRecord]
    BY DEF HookRecord, IdleHook
  <1>7. sweep \in SweepRecord
    BY DEF SweepRecord, IdleSweep
  <1> QED
    BY <1>1, <1>2, <1>3, <1>5, <1>6, <1>7 DEF TypeInv

\* A request takes its first or its next step.
LEMMA EnterType ==
  ASSUME TypeInv, NEW r \in Requests,
         NEW route \in {"candidate", "application", "move", "decision", "import", "feedback"},
         NEW target \in (CandStatuses \cup AppStatuses) \ {"NONE"},
         NEW pc \in {"idle", "status", "count", "approval", "candidate", "application"},
         Enter(r, route, target, pc),
         pc \in {"status", "count", "approval"} => target = "OFFER_SENT",
         pc = "candidate" => target \in CandStatuses,
         pc = "application" => target \in AppStatuses,
         route = "import" => target \in {"OFFER_SENT", "JOINED"},
         route = "decision" => target \in {"JOINED", "REJECTED"}
  PROVE  req' \in [Requests -> ReqRecord] /\ ReqOK'
  BY DEF TypeInv, ReqOK, Enter, ReqRecord

LEMMA StepType ==
  ASSUME TypeInv, NEW r \in Requests,
         NEW pc \in {"idle", "status", "count", "approval", "candidate", "application"},
         req' = [req EXCEPT ![r].pc = pc],
         pc \in {"status", "count", "approval"} => req[r].target = "OFFER_SENT",
         pc = "candidate" => req[r].target \in CandStatuses,
         pc = "application" => req[r].target \in AppStatuses
  PROVE  req' \in [Requests -> ReqRecord] /\ ReqOK'
  BY DEF TypeInv, ReqOK, ReqRecord

LEMMA LeaveType ==
  ASSUME TypeInv, NEW r \in Requests, req' = [req EXCEPT ![r] = IdleReq]
  PROVE  req' \in [Requests -> ReqRecord] /\ ReqOK'
  BY DEF TypeInv, ReqOK, ReqRecord, IdleReq, CandStatuses

LEMMA AskType == ASSUME TypeInv, NEW r \in Requests, NEW s \in CandStatuses \cup AppStatuses,
                        \/ s \in CandStatuses /\ AskCandidate(r, s)
                        \/ s \in AppStatuses /\ (AskApplication(r, s) \/ AskMove(r, s)
                                                 \/ AskDecision(r, s) \/ ImportRow(r, s))
                 PROVE  TypeInv'
  <1> USE DEF TypeInv, Act, records
  <1>1. CASE s \in CandStatuses /\ AskCandidate(r, s)
    <2>1. req' \in [Requests -> ReqRecord] /\ ReqOK'
      BY <1>1, EnterType DEF AskCandidate, CandStatuses
    <2>2. hook' \in [Hooks -> HookRecord]
      BY <1>1 DEF AskCandidate, HookRecord
    <2> QED
      BY <1>1, <2>1, <2>2 DEF AskCandidate, StatusOK, FeedbackOK, BoundsOK
  <1>2. CASE s \in AppStatuses /\ AskApplication(r, s)
    <2>1. req' \in [Requests -> ReqRecord] /\ ReqOK'
      BY <1>2, EnterType DEF AskApplication, AppStatuses
    <2> QED
      BY <1>2, <2>1 DEF AskApplication, StatusOK, FeedbackOK, BoundsOK
  <1>3. CASE s \in AppStatuses /\ AskMove(r, s)
    <2>1. req' \in [Requests -> ReqRecord] /\ ReqOK'
      BY <1>3, EnterType DEF AskMove, AppStatuses
    <2> QED
      BY <1>3, <2>1 DEF AskMove, StatusOK, FeedbackOK, BoundsOK
  <1>4. CASE s \in AppStatuses /\ AskDecision(r, s)
    <2>1. req' \in [Requests -> ReqRecord] /\ ReqOK'
      BY <1>4, EnterType DEF AskDecision, AppStatuses
    <2> QED
      BY <1>4, <2>1 DEF AskDecision, StatusOK, FeedbackOK, BoundsOK
  <1>5. CASE s \in AppStatuses /\ ImportRow(r, s)
    <2>1. req' \in [Requests -> ReqRecord] /\ ReqOK'
      BY <1>5, EnterType DEF ImportRow, AppStatuses, CandStatuses
    <2> QED
      BY <1>5, <2>1 DEF ImportRow, StatusOK, FeedbackOK, BoundsOK
  <1> QED
    BY <1>1, <1>2, <1>3, <1>4, <1>5

LEMMA GateType == ASSUME TypeInv, NEW r \in Requests,
                         GateStatus(r) \/ GateCount(r) \/ GateApproval(r)
                  PROVE  TypeInv'
  <1>1. req[r].target = "OFFER_SENT" /\ FirstWrite(req[r].route) \in {"candidate", "application"}
    BY DEF TypeInv, ReqOK, GateStatus, GateCount, GateApproval, FirstWrite
  <1>2. "OFFER_SENT" \in CandStatuses \cap AppStatuses
    BY DEF CandStatuses, AppStatuses
  <1>3. req' \in [Requests -> ReqRecord] /\ ReqOK'
    <2>1. CASE GateStatus(r)
      BY <2>1, <1>1, <1>2, StepType DEF GateStatus
    <2>2. CASE GateCount(r)
      BY <2>2, <1>1, <1>2, StepType DEF GateCount
    <2>3. CASE GateApproval(r)
      BY <2>3, <1>1, <1>2, StepType, LeaveType DEF GateApproval
    <2> QED
      BY <2>1, <2>2, <2>3
  <1> QED
    BY <1>3 DEF TypeInv, StatusOK, FeedbackOK, BoundsOK, GateStatus, GateCount, GateApproval,
                records, bounds

LEMMA WriteType == ASSUME TypeInv, NEW r \in Requests, WriteCandidate(r) \/ WriteApplication(r)
                   PROVE  TypeInv'
  <1>1. /\ req[r].pc = "candidate" => req[r].target \in CandStatuses
        /\ req[r].pc = "application" => req[r].target \in AppStatuses
        /\ req[r].route = "import" => req[r].target \in {"OFFER_SENT", "JOINED"}
        /\ req[r].route = "decision" => req[r].target \in {"JOINED", "REJECTED"}
    BY DEF TypeInv, ReqOK
  <1>2. req' \in [Requests -> ReqRecord] /\ ReqOK'
    <2>1. CASE WriteCandidate(r)
      BY <2>1, <1>1, StepType, LeaveType DEF WriteCandidate, AppFollows, AppStatuses
    <2>2. CASE WriteApplication(r)
      BY <2>2, <1>1, StepType, LeaveType DEF WriteApplication, CandFollows, CandStatuses
    <2> QED
      BY <2>1, <2>2
  <1>3. cand' \in CandStatuses /\ app' \in AppStatuses /\ excused' \in BOOLEAN /\ old' = old
    BY <1>1 DEF TypeInv, StatusOK, WriteCandidate, WriteApplication, SetCand, AppStatuses
  <1> QED
    BY <1>2, <1>3 DEF TypeInv, StatusOK, FeedbackOK, BoundsOK, WriteCandidate, WriteApplication,
                      bounds

LEMMA FeedbackType == ASSUME TypeInv, FeedbackNext PROVE TypeInv'
  <1> PICK rd \in Rounds :
        \/ \E s \in {"SELECTED", "REJECTED"} :
              GiveFeedback(rd, s) \/ \E r \in Requests : ImportFeedback(r, rd, s)
        \/ DeleteFeedback(rd)
    BY DEF FeedbackNext
  <1> USE DEF Act
  <1>1. ASSUME NEW s \in {"SELECTED", "REJECTED"}, Saved(rd, s) PROVE FeedbackOK'
    <2> DEFINE row == [status |-> s, live |-> TRUE]
    <2>1. row \in [status : {"NONE", "SELECTED", "REJECTED"}, live : BOOLEAN]
      BY Zenon
    <2>2. fb' = [fb EXCEPT ![rd] = row]
      BY <1>1 DEF Saved
    <2> HIDE DEF row
    <2> QED
      BY <2>1, <2>2 DEF TypeInv, FeedbackOK
  <1>2. ASSUME NEW s \in {"SELECTED", "REJECTED"}, GiveFeedback(rd, s) PROVE TypeInv'
    <2>1. FeedbackOK'
      BY <1>1, <1>2 DEF GiveFeedback
    <2>2. hook' \in [Hooks -> HookRecord]
      BY <1>2 DEF TypeInv, GiveFeedback, HookRecord
    <2> QED
      BY <1>2, <2>1, <2>2 DEF TypeInv, GiveFeedback, StatusOK, CandStatuses, BoundsOK, ReqOK
  <1>3. ASSUME NEW s \in {"SELECTED", "REJECTED"}, NEW r \in Requests, ImportFeedback(r, rd, s)
        PROVE TypeInv'
    <2>1. FeedbackOK'
      BY <1>1, <1>3 DEF ImportFeedback
    <2>2. req' \in [Requests -> ReqRecord] /\ ReqOK'
      <3>1. CASE s = "REJECTED"
        BY <1>3, <3>1, EnterType DEF ImportFeedback, CandStatuses
      <3>2. CASE s # "REJECTED"
        BY <1>3, <3>2 DEF ImportFeedback, TypeInv, ReqOK
      <3> QED
        BY <3>1, <3>2
    <2> QED
      BY <1>3, <2>1, <2>2 DEF TypeInv, ImportFeedback, StatusOK, BoundsOK
  <1>4. ASSUME DeleteFeedback(rd) PROVE TypeInv'
    <2>1. FeedbackOK'
      <3> DEFINE row == [fb[rd] EXCEPT !.live = FALSE]
      <3>1. fb[rd] \in [status : {"NONE", "SELECTED", "REJECTED"}, live : BOOLEAN]
        BY DEF TypeInv, FeedbackOK
      <3>2. row \in [status : {"NONE", "SELECTED", "REJECTED"}, live : BOOLEAN]
        BY <3>1, Zenon
      <3>3. fb' = [fb EXCEPT ![rd] = row]
        BY <1>4 DEF DeleteFeedback
      <3> HIDE DEF row
      <3> QED
        BY <3>2, <3>3 DEF TypeInv, FeedbackOK
    <2>2. cand' \in CandStatuses
      BY <1>4 DEF TypeInv, DeleteFeedback, StatusOK, CandStatuses
    <2> QED
      BY <1>4, <2>1, <2>2 DEF TypeInv, DeleteFeedback, StatusOK, BoundsOK, ReqOK
  <1> QED
    BY <1>2, <1>3, <1>4
LEMMA AppendType == ASSUME TypeInv, NEW ref \in Rounds \cup {None},
                           checks' = Append(checks, NewCheck(ref))
                    PROVE  checks' \in Seq(Check)
  <1>1. NewCheck(ref) \in [ref : {ref}, status : {"PENDING"}, approved : BOOLEAN]
    BY Zenon DEF NewCheck
  <1>2. NewCheck(ref) \in Check
    BY <1>1 DEF Check
  <1> QED
    BY <1>2 DEF TypeInv

LEMMA CheckType == ASSUME TypeInv, CheckNext PROVE TypeInv'
  <1> USE DEF Act, Fault, records, bounds
  <1>1. ASSUME NEW i \in DOMAIN checks, NEW d \in Decisions, Decide(i, d) PROVE TypeInv'
    <2> DEFINE row == [checks[i] EXCEPT !.status = d, !.approved = @ \/ d = "APPROVED"]
    <2>1. checks \in Seq(Check) /\ checks[i] \in Check
      BY DEF TypeInv
    <2>2. row \in Check
      BY <2>1, Zenon DEF Check
    <2>3. checks' = [checks EXCEPT ![i] = row]
      BY <1>1 DEF Decide
    <2> HIDE DEF row
    <2>4. checks' \in Seq(Check)
      BY <2>1, <2>2, <2>3
    <2>5. StatusOK'
      BY <1>1 DEF TypeInv, Decide, StatusOK, CandStatuses, AppStatuses
    <2> QED
      BY <1>1, <2>4, <2>5 DEF TypeInv, Decide, FeedbackOK, BoundsOK, ReqOK
  <1>2. ASSUME NEW h \in Hooks, HookFind(h) \/ HookCreate(h) \/ HookFails(h) PROVE TypeInv'
    <2>1. hook' \in [Hooks -> HookRecord]
      BY <1>2 DEF TypeInv, HookFind, HookCreate, HookFails, HookRecord, IdleHook
    <2>2. checks' \in Seq(Check)
      <3>1. hook[h].ref \in Rounds \cup {None}
        BY DEF TypeInv, HookRecord
      <3> QED
        BY <1>2, <3>1, AppendType DEF TypeInv, HookFind, HookCreate, HookFails
    <2> QED
      BY <1>2, <2>1, <2>2 DEF TypeInv, HookFind, HookCreate, HookFails, StatusOK, FeedbackOK,
                              BoundsOK, ReqOK
  <1> QED
    BY <1>1, <1>2 DEF CheckNext

LEMMA SweepType == ASSUME TypeInv, SweepNext PROVE TypeInv'
  <1> USE DEF records, bounds
  <1>1. sweep' \in SweepRecord
    <2> USE DEF TypeInv, SweepRecord
    <2>1. CASE SweepStart
      BY <2>1 DEF SweepStart, Selected, CheckRounds
    <2>2. CASE SweepCreate
      <3>1. CASE sweep' = IdleSweep
        BY <3>1 DEF IdleSweep
      <3>2. CASE sweep' = [sweep EXCEPT !.todo = @ \ {sweep.item}, !.item = "nothing"]
        BY <3>2
      <3> QED
        BY <2>2, <3>1, <3>2 DEF SweepCreate
    <2>3. CASE SweepOffers
      BY <2>3 DEF SweepOffers
    <2>4. CASE SweepEnd
      BY <2>4 DEF SweepEnd, IdleSweep
    <2>5. CASE \E x \in Rounds \cup {None} : SweepFind(x)
      BY <2>5 DEF SweepFind
    <2> QED
      BY <2>1, <2>2, <2>3, <2>4, <2>5 DEF SweepNext
  <1>2. checks' \in Seq(Check)
    <2>1. sweep.item \in Rounds \cup {None, "nothing"}
      BY DEF TypeInv, SweepRecord
    <2>2. CASE SweepCreate
      BY <2>1, <2>2, AppendType DEF TypeInv, SweepCreate
    <2> QED
      BY <2>2 DEF TypeInv, SweepNext, SweepStart, SweepFind, SweepOffers, SweepEnd
  <1> QED
    BY <1>1, <1>2 DEF TypeInv, SweepNext, SweepStart, SweepFind, SweepCreate, SweepOffers,
                      SweepEnd, StatusOK, FeedbackOK, BoundsOK, ReqOK

LEMMA TypeStep == TypeInv /\ [Next]_vars => TypeInv'
  <1> SUFFICES ASSUME TypeInv, [Next]_vars PROVE TypeInv'
    OBVIOUS
  <1>1. CASE CreateApplication \/ \E s \in CreateStatuses : CreateCandidate(s)
    BY <1>1 DEF CreateApplication, CreateCandidate, CreateStatuses, TypeInv, StatusOK,
                FeedbackOK, BoundsOK, ReqOK, CandStatuses, AppStatuses, bounds
  <1>2. CASE SweepFails
    BY <1>2 DEF SweepFails, TypeInv, StatusOK, FeedbackOK, BoundsOK, ReqOK, Fault, SweepRecord,
                IdleSweep, records
  <1>3. CASE ProcessEnds
    <2>1. IdleReq \in ReqRecord /\ IdleHook \in HookRecord /\ IdleSweep \in SweepRecord
      BY DEF IdleReq, ReqRecord, CandStatuses, IdleHook, HookRecord, IdleSweep, SweepRecord
    <2>2. /\ req' \in [Requests -> ReqRecord] /\ hook' \in [Hooks -> HookRecord]
          /\ sweep' \in SweepRecord
      BY <1>3, <2>1 DEF ProcessEnds
    <2>3. ReqOK'
      BY <1>3 DEF ProcessEnds, ReqOK, IdleReq
    <2> QED
      BY <1>3, <2>2, <2>3 DEF ProcessEnds, TypeInv, StatusOK, FeedbackOK, BoundsOK, Fault, records
  <1>4. CASE \E r \in Requests : RequestNext(r)
    <2> PICK r \in Requests : RequestNext(r)
      BY <1>4
    <2> QED
      BY AskType, GateType, WriteType DEF RequestNext
  <1>5. CASE UNCHANGED vars
    BY <1>5 DEF vars, TypeInv, StatusOK, FeedbackOK, BoundsOK, ReqOK
  <1> QED
    BY <1>1, <1>2, <1>3, <1>4, <1>5, FeedbackType, CheckType, SweepType DEF Next

LEMMA TypeInvariant == Spec => []TypeInv
  BY InitType, TypeStep, PTL DEF Spec

\* Every variable keeps its type, for any number of requests, hooks and faults.
THEOREM TypeCorrect == Spec => []TypeOK
  BY TypeInvariant, TypeSplits, PTL

-----------------------------------------------------------------------------
(* The gate.                                                               *)

ApprovedOnce == \E i \in DOMAIN checks : checks[i].approved
AnOffer == OfferStands \/ \E r \in Requests : InFlight(r)

\* What keeps the gate's promise while requests that have passed it are on their
\* way: an offer in flight is as good as one that stands.
GateInv ==
    /\ \A i \in DOMAIN checks : checks[i].status = "APPROVED" => checks[i].approved
    /\ cand = "JOINED" => excused
    /\ AnOffer /\ ~old /\ ~excused => ApprovedOnce
    /\ AllRejected /\ ~excused => ~AnOffer

LEMMA InitGate == Init => GateInv
  <1> SUFFICES ASSUME Init PROVE GateInv
    OBVIOUS
  <1>1. \A r \in Requests : ~InFlight(r)
    BY DEF Init, InFlight, Writing, IdleReq
  <1>2. checks = <<>> \/ checks = <<NewCheck("ROUND_2")>>
    BY DEF Init
  <1>3. ~AllRejected
    BY <1>2 DEF AllRejected, NewCheck
  <1>4. \A i \in DOMAIN checks : checks[i].status # "APPROVED"
    BY <1>2 DEF NewCheck
  <1> QED
    BY <1>1, <1>3, <1>4 DEF Init, GateInv, AnOffer, OfferStands

\* Steps that add no offer, no rejection and no join, and take no approval away.
LEMMA QuietStep ==
  ASSUME GateInv, AnOffer' => AnOffer, ApprovedOnce => ApprovedOnce',
         AllRejected' => AllRejected, excused => excused', old' = old,
         cand' = "JOINED" => excused',
         \A i \in DOMAIN checks' : checks'[i].status = "APPROVED" => checks'[i].approved
  PROVE  GateInv'
  BY DEF GateInv

\* The same, when the checks are not touched.
LEMMA SameChecks ==
  ASSUME GateInv, AnOffer' => AnOffer, checks' = checks, excused => excused', old' = old,
         cand' = "JOINED" => excused'
  PROVE  GateInv'
  <1>1. (ApprovedOnce <=> ApprovedOnce') /\ (AllRejected <=> AllRejected')
    BY DEF ApprovedOnce, AllRejected
  <1> QED
    BY <1>1 DEF GateInv

\* A request that is not sent on to write an offer leaves the offers in flight.
LEMMA NoNewOffer ==
  ASSUME TypeInv, NEW r \in Requests, req' = [req EXCEPT ![r] = req'[r]],
         ~InFlight(r)', OfferStands' => OfferStands
  PROVE  AnOffer' => AnOffer
  BY DEF TypeInv, AnOffer, InFlight, Writing

LEMMA AppendKeeps ==
  ASSUME TypeInv, GateInv, NEW ref, checks' = Append(checks, NewCheck(ref)),
         UNCHANGED <<cand, app, old, excused, req>>
  PROVE  GateInv'
  <1>1. checks \in Seq(Check)
    BY DEF TypeInv
  <1>2. /\ DOMAIN checks' = DOMAIN checks \cup {Len(checks) + 1}
        /\ \A i \in DOMAIN checks : checks'[i] = checks[i]
        /\ checks'[Len(checks) + 1] = NewCheck(ref)
    BY <1>1
  <1>3. ~AllRejected'
    BY <1>2 DEF AllRejected, NewCheck
  <1>4. ApprovedOnce => ApprovedOnce'
    BY <1>2 DEF ApprovedOnce
  <1>5. AnOffer' <=> AnOffer
    BY DEF AnOffer, OfferStands, InFlight, Writing
  <1>6. \A i \in DOMAIN checks' : checks'[i].status = "APPROVED" => checks'[i].approved
    BY <1>2 DEF GateInv, NewCheck
  <1> QED
    BY <1>3, <1>4, <1>5, <1>6 DEF GateInv

\* Only the import of an unknown person is on its way to write an offer at once.
LEMMA AskKeeps ==
  ASSUME TypeInv, GateInv, NEW r \in Requests, NEW s \in CandStatuses \cup AppStatuses,
         \/ AskCandidate(r, s) \/ AskApplication(r, s) \/ AskMove(r, s)
         \/ AskDecision(r, s) \/ ImportRow(r, s)
  PROVE  GateInv'
  <1>1. UNCHANGED <<cand, app, old, checks>>
    BY DEF AskCandidate, AskApplication, AskMove, AskDecision, ImportRow, records
  <1>2. excused => excused'
    BY DEF AskCandidate, AskApplication, AskMove, AskDecision, ImportRow, records
  <1>3. req' = [req EXCEPT ![r] = req'[r]]
    BY DEF AskCandidate, AskApplication, AskMove, AskDecision, ImportRow, Enter, TypeInv
  <1>4. excused' \/ ~InFlight(r)'
    <2>1. CASE AskCandidate(r, s)
      BY <2>1 DEF AskCandidate, Enter, InFlight, Writing, TypeInv
    <2>2. CASE AskApplication(r, s)
      BY <2>2 DEF AskApplication, Enter, InFlight, Writing, TypeInv
    <2>3. CASE AskMove(r, s)
      BY <2>3 DEF AskMove, Enter, InFlight, Writing, TypeInv
    <2>4. CASE AskDecision(r, s)
      BY <2>4 DEF AskDecision, Enter, InFlight, Writing, TypeInv
    <2>5. CASE ImportRow(r, s) /\ cand = "NONE"
      BY <2>5, Zenon DEF ImportRow
    <2>6. CASE ImportRow(r, s) /\ cand # "NONE"
      BY <2>6 DEF ImportRow, Enter, InFlight, Writing, TypeInv
    <2> QED
      BY <2>1, <2>2, <2>3, <2>4, <2>5, <2>6
  <1>5. cand' = "JOINED" => excused'
    BY <1>1, <1>2 DEF GateInv
  <1>6. CASE excused'
    <2>1. \A i \in DOMAIN checks' : checks'[i].status = "APPROVED" => checks'[i].approved
      BY <1>1 DEF GateInv
    <2> QED
      BY <1>6, <2>1 DEF GateInv
  <1>7. CASE ~InFlight(r)'
    <2>1. OfferStands' => OfferStands
      BY <1>1 DEF OfferStands
    <2>2. AnOffer' => AnOffer
      BY <1>3, <1>7, <2>1, NoNewOffer
    <2> QED
      BY <1>1, <1>2, <1>5, <2>2, SameChecks
  <1> QED
    BY <1>4, <1>6, <1>7

\* Each of the three reads lets an offer pass for a reason the invariant keeps.
LEMMA GateKeeps ==
  ASSUME TypeInv, GateInv, NEW r \in Requests, GateStatus(r) \/ GateCount(r) \/ GateApproval(r)
  PROVE  GateInv'
  <1>1. UNCHANGED <<cand, app, old, checks, excused>>
    BY DEF GateStatus, GateCount, GateApproval, records
  <1>2. req' = [req EXCEPT ![r] = req'[r]]
    BY DEF TypeInv, GateStatus, GateCount, GateApproval
  <1>3. CASE ~InFlight(r)'
    BY <1>1, <1>2, <1>3, NoNewOffer, SameChecks DEF OfferStands, GateInv
  <1>4. CASE InFlight(r)'
    <2>1. \/ cand \in {"OFFER_SENT", "JOINED"}
          \/ checks = <<>> /\ old
          \/ \E i \in DOMAIN checks : checks[i].status = "APPROVED"
      <3>1. req \in [Requests -> ReqRecord] /\ (GateStatus(r) \/ GateCount(r) => req'[r].pc = "candidate"
                                                  \/ req'[r].pc = "application")
        BY <1>4 DEF TypeInv, InFlight, Writing
      <3>2. CASE GateStatus(r)
        BY <3>1, <3>2 DEF GateStatus
      <3>3. CASE GateCount(r)
        BY <3>1, <3>3 DEF GateCount
      <3>4. CASE GateApproval(r)
        BY <1>4, <3>1, <3>4 DEF GateApproval, Approving, IdleReq, InFlight, Writing
      <3> QED
        BY <3>2, <3>3, <3>4
    <2>2. (ApprovedOnce <=> ApprovedOnce') /\ (AllRejected <=> AllRejected')
      BY <1>1 DEF ApprovedOnce, AllRejected
    <2>3. ~old /\ ~excused => ApprovedOnce
      BY <2>1 DEF GateInv, AnOffer, OfferStands, ApprovedOnce
    <2>4. ~(AllRejected /\ ~excused)
      BY <2>1 DEF GateInv, AnOffer, OfferStands, AllRejected
    <2> QED
      BY <1>1, <2>2, <2>3, <2>4 DEF GateInv
  <1> QED
    BY <1>3, <1>4

LEMMA WriteKeeps ==
  ASSUME TypeInv, GateInv, NEW r \in Requests, WriteCandidate(r) \/ WriteApplication(r)
  PROVE  GateInv'
  <1>1. UNCHANGED <<old, checks>> /\ (excused => excused')
    <2>1. UNCHANGED <<old, checks>>
      BY DEF WriteCandidate, WriteApplication
    <2>2. CASE WriteCandidate(r)
      <3>1. excused => excused'
        BY <2>2, Zenon DEF WriteCandidate, SetCand
      <3> QED
        BY <2>1, <3>1
    <2>3. CASE WriteApplication(r)
      BY <2>3 DEF WriteApplication
    <2> QED
      BY <2>2, <2>3
  <1>2. cand' = "JOINED" => excused'
    BY Zenon DEF WriteCandidate, WriteApplication, SetCand, GateInv
  <1>3. OfferStands' => OfferStands \/ InFlight(r)
    BY DEF WriteCandidate, WriteApplication, SetCand, OfferStands, InFlight, Writing
  <1>4. \A q \in Requests : InFlight(q)' => InFlight(q)
    <2>1. req \in [Requests -> ReqRecord] /\ Writing(r)
      BY DEF TypeInv, WriteCandidate, WriteApplication, Writing
    <2>2. \/ req' = [req EXCEPT ![r].pc = "application"]
          \/ req' = [req EXCEPT ![r].pc = "candidate"]
          \/ req' = [req EXCEPT ![r] = IdleReq]
      BY DEF WriteCandidate, WriteApplication
    <2>3. CASE req' = [req EXCEPT ![r] = IdleReq]
      BY <2>1, <2>3 DEF InFlight, Writing, IdleReq
    <2>4. CASE req' # [req EXCEPT ![r] = IdleReq]
      BY <2>1, <2>2, <2>4 DEF InFlight, Writing, ReqRecord
    <2> QED
      BY <2>3, <2>4
  <1>5. AnOffer' => AnOffer
    BY <1>3, <1>4 DEF AnOffer
  <1> QED
    BY <1>1, <1>2, <1>5, SameChecks

\* A rejection takes every offer back that is not past the gate.
LEMMA DecideKeeps ==
  ASSUME TypeInv, GateInv, NEW i \in DOMAIN checks, NEW d \in Decisions, Decide(i, d)
  PROVE  GateInv'
  <1> DEFINE row == [checks[i] EXCEPT !.status = d, !.approved = @ \/ d = "APPROVED"]
  <1>1. checks \in Seq(Check) /\ checks[i] \in Check
    BY DEF TypeInv
  <1>2. row.status = d /\ (row.approved <=> checks[i].approved \/ d = "APPROVED")
    BY <1>1, Zenon DEF Check
  <1>3. checks' = [checks EXCEPT ![i] = row]
    BY DEF Decide
  <1> HIDE DEF row
  <1>4. /\ DOMAIN checks' = DOMAIN checks /\ checks'[i] = row
        /\ \A j \in DOMAIN checks : j # i => checks'[j] = checks[j]
    BY <1>1, <1>3
  <1>5. \A j \in DOMAIN checks' : checks'[j].status = "APPROVED" => checks'[j].approved
    BY <1>2, <1>4 DEF GateInv
  <1>6. ApprovedOnce => ApprovedOnce'
    BY <1>2, <1>4 DEF ApprovedOnce
  <1>7. UNCHANGED <<old, req>>
    BY DEF Decide
  <1>8. CASE d = "REJECTED"
    <2>1. cand' = "REJECTED" /\ app' # "OFFER_SENT" /\ excused' = \E r \in Requests : InFlight(r)
      BY <1>8 DEF Decide
    <2>2. ~excused' => ~AnOffer'
      BY <2>1, <1>7 DEF AnOffer, OfferStands, InFlight, Writing
    <2> QED
      BY <1>5, <2>1, <2>2 DEF GateInv
  <1>9. CASE d # "REJECTED"
    <2>1. UNCHANGED <<cand, app, excused>>
      BY <1>9 DEF Decide
    <2>2. ~AllRejected'
      BY <1>2, <1>4, <1>9 DEF AllRejected
    <2>3. AnOffer' <=> AnOffer
      BY <1>7, <2>1 DEF AnOffer, OfferStands, InFlight, Writing
    <2> QED
      BY <1>5, <1>6, <1>7, <2>1, <2>2, <2>3 DEF GateInv
  <1> QED
    BY <1>8, <1>9

LEMMA FeedbackKeeps == ASSUME TypeInv, GateInv, FeedbackNext PROVE GateInv'
  <1> PICK rd \in Rounds :
        \/ \E s \in {"SELECTED", "REJECTED"} :
              GiveFeedback(rd, s) \/ \E r \in Requests : ImportFeedback(r, rd, s)
        \/ DeleteFeedback(rd)
    BY DEF FeedbackNext
  <1>1. UNCHANGED <<app, old, checks, excused>> /\ cand' \in {cand, "REJECTED", "ACTIVE"}
    BY DEF GiveFeedback, ImportFeedback, DeleteFeedback
  <1>2. OfferStands' => OfferStands
    BY <1>1 DEF OfferStands
  <1>3. AnOffer' => AnOffer
    <2>1. CASE req' = req
      BY <2>1, <1>2 DEF AnOffer, InFlight, Writing
    <2>2. ASSUME NEW r \in Requests, Enter(r, "feedback", "REJECTED", "candidate")
          PROVE  AnOffer' => AnOffer
      <3>1. ~InFlight(r)' /\ req' = [req EXCEPT ![r] = req'[r]]
        BY <2>2 DEF TypeInv, Enter, InFlight
      <3> QED
        BY <3>1, <1>2, NoNewOffer
    <2> QED
      BY <2>1, <2>2 DEF GiveFeedback, ImportFeedback, DeleteFeedback
  <1> QED
    BY <1>1, <1>3, SameChecks DEF GateInv

LEMMA GateStep == TypeInv /\ GateInv /\ [Next]_vars => GateInv'
  <1> SUFFICES ASSUME TypeInv, GateInv, [Next]_vars PROVE GateInv'
    OBVIOUS
  <1>1. CASE CreateApplication
    BY <1>1, SameChecks DEF CreateApplication, GateInv, AnOffer, OfferStands, InFlight, Writing
  <1>7. ASSUME NEW s \in CreateStatuses, CreateCandidate(s) PROVE GateInv'
    <2>1. UNCHANGED <<old, app, checks, req>> /\ cand' = s
      BY <1>7 DEF CreateCandidate
    <2>2. CASE s \in {"OFFER_SENT", "JOINED"}
      <3>1. excused'
        BY <1>7, <2>2, Zenon DEF CreateCandidate
      <3> QED
        BY <2>1, <3>1 DEF GateInv
    <2>3. CASE s \notin {"OFFER_SENT", "JOINED"}
      <3>1. excused => excused'
        BY <1>7, Zenon DEF CreateCandidate
      <3>2. AnOffer' => AnOffer
        BY <2>1, <2>3 DEF AnOffer, OfferStands, InFlight, Writing
      <3> QED
        BY <2>1, <2>3, <3>1, <3>2, SameChecks
    <2> QED
      BY <2>2, <2>3
  <1>2. CASE \E r \in Requests : RequestNext(r)
    BY <1>2, AskKeeps, GateKeeps, WriteKeeps DEF RequestNext
  <1>3. CASE CheckNext
    <2>1. ASSUME NEW h \in Hooks, HookFind(h) \/ HookCreate(h) \/ HookFails(h) PROVE GateInv'
      <3>1. UNCHANGED <<cand, app, old, excused, req>>
        BY <2>1 DEF HookFind, HookCreate, HookFails, records
      <3>2. checks' = checks \/ checks' = Append(checks, NewCheck(hook[h].ref))
        BY <2>1 DEF HookFind, HookCreate, HookFails
      <3>3. CASE checks' = checks
        BY <3>1, <3>3, SameChecks DEF GateInv, AnOffer, OfferStands, InFlight, Writing
      <3> QED
        BY <3>1, <3>2, <3>3, AppendKeeps
    <2> QED
      BY <1>3, <2>1, DecideKeeps DEF CheckNext
  <1>4. CASE SweepNext \/ SweepFails
    <2>1. UNCHANGED <<cand, app, old, excused, req>>
      BY <1>4 DEF SweepNext, SweepFails, SweepStart, SweepFind, SweepCreate, SweepOffers, SweepEnd,
                  records
    <2>2. checks' = checks \/ checks' = Append(checks, NewCheck(sweep.item))
      BY <1>4 DEF SweepNext, SweepFails, SweepStart, SweepFind, SweepCreate, SweepOffers, SweepEnd
    <2>3. CASE checks' = checks
      BY <2>1, <2>3, SameChecks DEF GateInv, AnOffer, OfferStands, InFlight, Writing
    <2> QED
      BY <2>1, <2>2, <2>3, AppendKeeps
  <1>5. CASE ProcessEnds
    <2>1. \A r \in Requests : ~InFlight(r)'
      BY <1>5 DEF ProcessEnds, InFlight, Writing, IdleReq
    <2> QED
      BY <1>5, <2>1, SameChecks DEF ProcessEnds, records, GateInv, AnOffer, OfferStands
  <1>6. CASE UNCHANGED vars
    BY <1>6, SameChecks DEF vars, GateInv, AnOffer, OfferStands, InFlight, Writing
  <1> QED
    BY <1>1, <1>2, <1>3, <1>4, <1>5, <1>6, <1>7, FeedbackKeeps DEF Next

LEMMA GateInvariant == Spec => []GateInv
  <1>1. TypeInv /\ GateInv /\ [Next]_vars => GateInv'
    BY GateStep
  <1> QED
    BY InitGate, <1>1, TypeInvariant, PTL DEF Spec

\* No interleaving of requests, imports, feedback and the board puts an offer in
\* place that no approval, grandfathering, join or creation with the offer (by an
\* import or by a create request, which pass no gate) stands behind.
THEOREM OffersAreBacked == Spec => []OfferIsBacked
  <1>1. GateInv => OfferIsBacked
    BY DEF GateInv, OfferIsBacked, AnOffer, ApprovedOnce
  <1> QED
    BY <1>1, GateInvariant, PTL

\* A rejection recorded while no offer is past the gate keeps the candidate and the
\* application from OFFER_SENT until a check is approved or the candidate joins.
THEOREM RejectionsHold == Spec => []RejectionHolds
  <1>1. GateInv => RejectionHolds
    BY DEF GateInv, RejectionHolds, AnOffer
  <1> QED
    BY <1>1, GateInvariant, PTL
=============================================================================
