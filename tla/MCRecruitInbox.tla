--------------------------- MODULE MCRecruitInbox ---------------------------
(* The instances of RecruitInbox that TLC checks. *)
EXTENDS RecruitInbox, TLC

CONSTANTS r1, r2, i1, h1, h2, s1, c1

OneResult == {r1}
TwoResults == {r1, r2}
OtherResult == {r2}
OneInterview == {i1}
OneHook == {h1}
TwoHooks == {h1, h2}
OneSync == {s1}
OneClerk == {c1}
Nobody == {}
HooksDated == [h \in TwoHooks |-> {TRUE}]
HookEither == h1 :> BOOLEAN @@ s1 :> {TRUE}
AnyIds == {"version", "result", "call"}
ResultIds == {"result"}
Symmetry == Permutations(TwoHooks)
\* The interview is first reported under way, then finished.
Finishing == <<"OTHER", "COMPLETED">>
=============================================================================
