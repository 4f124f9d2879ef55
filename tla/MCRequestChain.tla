--------------------------- MODULE MCRequestChain ---------------------------
(***************************************************************************)
(* RequestChain for TLC. It has no constants.                              *)
(***************************************************************************)
EXTENDS RequestChain
=============================================================================
