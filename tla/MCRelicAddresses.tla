-------------------------- MODULE MCRelicAddresses --------------------------
(* Addresses on small sets: what TLC checks of RelicAddresses.             *)
EXTENDS RelicAddresses, TLC

CONSTANTS a1, a2

(* Public addresses are interchangeable: no procedure looks into one.      *)
AddressSymmetry == Permutations({a1, a2})
=============================================================================
