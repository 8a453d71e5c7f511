---------------------------- MODULE MCRelicWriter ----------------------------
(* The writer and the cleaner on small bounds.                             *)
EXTENDS RelicCleaner, TLC
=============================================================================
