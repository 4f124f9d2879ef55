-------------------------- MODULE MCMatchSnapshot ---------------------------
(***************************************************************************)
(* MatchSnapshot for TLC: a match whose city the site gives in either      *)
(* spelling, or not at all, or wrongly, and whose kickoff moves.           *)
(***************************************************************************)
EXTENDS MatchSnapshot, TLC

CONSTANTS spartak, stranger, moskva, moscow, nowhere, early, later, MOW

Said(h, c, k) == [home |-> h, city |-> c, rest |-> k]
SomePublications ==
  {Said(spartak, moskva, early), Said(spartak, None, early), Said(spartak, nowhere, later),
   Said(stranger, moskva, later), Said(stranger, nowhere, early)}
KickoffUnreadable == {Said(stranger, moskva, later)}
Spelling == (moskva :> moscow) @@ (nowhere :> nowhere) @@ (None :> None)
CityTable == moscow :> MOW
Clubs == spartak :> [city |-> moskva, airport |-> MOW]
=============================================================================
