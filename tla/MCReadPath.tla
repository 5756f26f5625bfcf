---------------------------- MODULE MCReadPath -----------------------------
(* The instances of ReadPath that TLC checks. *)
EXTENDS ReadPath, TLC

CONSTANTS r1, r2, r3, u1, u2

ThreeRequests == {r1, r2, r3}
TwoUsers == {u1, u2}
OneUser == {u1}
BothRoutes == {"list", "download"}
List == {"list"}
Downloads == {"download"}
Symmetry == Permutations(ThreeRequests) \cup Permutations(TwoUsers)
=============================================================================
