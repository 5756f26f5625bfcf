-------------------------- MODULE MCImportPipeline --------------------------
(* The instances of ImportPipeline that TLC checks. *)
EXTENDS ImportPipelineInvariant, TLC

CONSTANTS k1, k2

TwoKeys == {k1, k2}
AnyRow == TwoKeys \cup {Anon, Invalid}
GoodRow == {k1, Anon}
CandidateFlow == {"candidates"}
BothFlows == {"candidates", "interviews"}
KeySymmetry == Permutations(TwoKeys)
=============================================================================
