----------------------------- MODULE MCTableServer -----------------------------
(***************************************************************************)
(* A room of two or three users for TLC.                                   *)
(***************************************************************************)
EXTENDS TableServer, TLC

Symmetry == Permutations(Users)
===============================================================================
