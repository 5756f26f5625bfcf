---------------------------- MODULE MCImportUndo ----------------------------
(* The instances of ImportUndo that TLC checks. *)
EXTENDS ImportUndo, TLC

CONSTANTS a, b, u1, u2

TwoJobs == {a, b}
TwoAdmins == {u1, u2}
Symmetry == Permutations(TwoJobs) \cup Permutations(TwoAdmins)
=============================================================================
