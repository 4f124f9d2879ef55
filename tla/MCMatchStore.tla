---------------------------- MODULE MCMatchStore ----------------------------
(***************************************************************************)
(* MatchStore for TLC: two matches, of which one has a version without a   *)
(* destination airport, the last one published.                            *)
(***************************************************************************)
EXTENDS MatchStore

CONSTANTS m1, m2

LastUnresolvable  == {<<m1, MaxVersion>>}
=============================================================================
