--------------------------- MODULE MCLambdaInvoker ---------------------------
(* Instances of LambdaInvoker for TLC; the cfg files give the constants.      *)
EXTENDS LambdaInvoker
=============================================================================
