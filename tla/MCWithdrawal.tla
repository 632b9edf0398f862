----------------------------- MODULE MCWithdrawal -----------------------------
(***************************************************************************)
(* A wallet with two withdrawals, reconciled by two processes, for TLC.    *)
(***************************************************************************)
EXTENDS Withdrawal
===============================================================================
