---------------------------- MODULE MCMatchPages ----------------------------
(***************************************************************************)
(* MatchPages for TLC: three matches of three clubs, limits of one to      *)
(* three.                                                                  *)
(***************************************************************************)
EXTENDS MatchPages

CONSTANTS m1, m2, m3, x, y, z

Row(k, h, a) == [kickoff |-> k, home |-> h, away |-> a]
SomeRows == {Row(0, x, y), Row(1, y, z), Row(1, x, z), Row(2, z, x)}
=============================================================================
