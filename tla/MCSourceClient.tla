--------------------------- MODULE MCSourceClient ---------------------------
(***************************************************************************)
(* SourceClient for TLC: the configurations give its constants.            *)
(***************************************************************************)
EXTENDS SourceClient
=============================================================================
