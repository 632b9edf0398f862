---------------------------- MODULE MCChainIndexer ----------------------------
(***************************************************************************)
(* Two indexers on a short chain for TLC.  One deposit is enough, because  *)
(* no two deposits meet in a transaction: each event, its references and   *)
(* its place on the chain are its own.                                     *)
(***************************************************************************)
EXTENDS ChainIndexer
===============================================================================
