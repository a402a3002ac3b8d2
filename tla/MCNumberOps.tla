---------------------------- MODULE MCNumberOps ----------------------------
(***************************************************************************)
(* Words of 2 and 4 bits, and floating point numbers with 1 and 2 bits of  *)
(* significand up to 16: as in the code, the wide format has every number  *)
(* of the narrow integers and not every number of the wide ones.           *)
(***************************************************************************)
EXTENDS NumberOps, TLC

MCPrecision == (FLOAT_32 :> 1) @@ (FLOAT_64 :> 2)
=============================================================================
