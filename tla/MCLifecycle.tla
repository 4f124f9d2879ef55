---------------------------- MODULE MCLifecycle -----------------------------
(***************************************************************************)
(* Lifecycle for TLC: all three programs, two requests at a time, and      *)
(* settings on both sides of every limit. The code's 20 s of the catalog   *)
(* and 5 s of the diagnostic server are scaled down to 4 and 2 ticks.      *)
(***************************************************************************)
EXTENDS Lifecycle
=============================================================================
