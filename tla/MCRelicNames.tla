---------------------------- MODULE MCRelicNames ----------------------------
(* Names on small sets: what TLC checks of RelicNames.                     *)
EXTENDS RelicNames, TLC

CONSTANTS h1, d1, d2

MCDomainOf == [h \in Handle |-> d1]
=============================================================================
