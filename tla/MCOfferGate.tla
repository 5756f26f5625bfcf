---------------------------- MODULE MCOfferGate ----------------------------
(* The instances of OfferGate that TLC checks. *)
EXTENDS OfferGate, TLC

CONSTANTS r1, h1

OneRequest == {r1}
OneHook == {h1}
LastRounds == {"ROUND_2", "FINAL_ROUND"}
=============================================================================
