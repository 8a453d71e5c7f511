----------------------------- MODULE MCRelicFork -----------------------------
(***************************************************************************)
(* RelicFork for model checking: each configuration takes a group of       *)
(* tables that refer to each other, with one row of each.                  *)
(***************************************************************************)
EXTENDS RelicFork
=============================================================================
