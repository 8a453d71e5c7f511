--------------------------- MODULE MCRelicRequests ---------------------------
(* Requests on small sets: what TLC checks of RelicRequests.               *)
EXTENDS RelicRequests, TLC

(* Nothing tells requests, or contents, apart.                             *)
Symmetry == Permutations(Request) \cup Permutations(Content)
=============================================================================
