------------------------- MODULE MCImportJobManager -------------------------
(* The instances of ImportJobManager that TLC checks. *)
EXTENDS ImportJobManager, TLC

CONSTANTS j1, j2, r1

TwoJobs == {j1, j2}
OneJob == {j1}
OneRetrier == {r1}
JobSymmetry == Permutations(TwoJobs)
=============================================================================
