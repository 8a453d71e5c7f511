-------------------------- MODULE MCRelicAccounts --------------------------
(* The ledger on small sets: what TLC checks of RelicLedger.               *)
EXTENDS RelicLedger, TLC

CONSTANTS k1, k2

(* The public keys are interchangeable: no procedure looks into one.       *)
KeySymmetry == Permutations({k1, k2})
=============================================================================
