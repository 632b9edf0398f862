-------------------------------- MODULE MCHand --------------------------------
(***************************************************************************)
(* Small tables for TLC.                                                   *)
(***************************************************************************)
EXTENDS Hand
===============================================================================
