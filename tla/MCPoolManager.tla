--------------------------- MODULE MCPoolManager ---------------------------
(* Instances of PoolManager for TLC; the cfg files give the constants.       *)
EXTENDS PoolManager
=============================================================================
