------------------------- MODULE MCRelicSignatures -------------------------
(* Signatures on small sets: what TLC checks of RelicSignatures.           *)
EXTENDS RelicSignatures, TLC

CONSTANTS c1, c2

(* Contents are interchangeable: no procedure looks into one.              *)
ContentSymmetry == Permutations({c1, c2})
=============================================================================
