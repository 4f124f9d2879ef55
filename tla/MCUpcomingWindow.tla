-------------------------- MODULE MCUpcomingWindow --------------------------
(***************************************************************************)
(* UpcomingWindow for TLC: three tournaments, of which two at most are     *)
(* asked, days of two hours and a window from the second to the fourth.    *)
(***************************************************************************)
EXTENDS UpcomingWindow

CONSTANTS a, b

SomeRanges == {<<0, 0>>, <<0, 1>>, <<2, 2>>}
SomeDates  == {[hour |-> 1, zoned |-> FALSE], [hour |-> 3, zoned |-> FALSE],
               [hour |-> 2, zoned |-> TRUE], [hour |-> 4, zoned |-> FALSE]}
=============================================================================
