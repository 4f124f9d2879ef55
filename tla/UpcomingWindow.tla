--------------------------- MODULE UpcomingWindow ---------------------------
(***************************************************************************)
(* How the match adapter finds the matches to synchronise: it picks the    *)
(* tournaments whose dates touch the window [from, to], asks the site for  *)
(* the matches of each, and returns the earliest ones up to a limit.       *)
(* Time is counted in hours of UTC, days in days of UTC.                   *)
(***************************************************************************)
EXTENDS Integers, Sequences, FiniteSets

CONSTANTS
  Tournaments,   \* tournament ids, positive; a later tournament has a higher id
  Matches,       \* match ids
  Ranges,        \* <<first day, last day>> a tournament can have
  Dates,         \* kickoffs the site can print: an hour, with or without a zone
  Day,           \* hours in a day
  Offset,        \* hours by which local time is ahead of UTC
  From, To,      \* the window
  Limit,         \* the largest number of ids wanted
  MaxSelected,   \* tournaments asked when some overlap the window: 3
  MaxFallback    \* tournaments asked when none does: 2

ASSUME TournamentsAssumption == Tournaments \subseteq Nat \ {0} /\ IsFiniteSet(Tournaments)
ASSUME MatchesAssumption == IsFiniteSet(Matches)
ASSUME RangesAssumption == Ranges \subseteq Int \X Int
ASSUME DatesAssumption == Dates \subseteq [hour : Int, zoned : BOOLEAN]
ASSUME HoursAssumption == Day \in Nat \ {0} /\ Offset \in Nat /\ From \in Int /\ To \in Int
ASSUME LimitsAssumption ==
  Limit \in Nat \ {0} /\ MaxSelected \in Nat \ {0} /\ MaxFallback \in Nat \ {0}

VARIABLES
  range,      \* dates of each tournament; NoDates when unreadable
  published,  \* the tournaments the site lists
  fixtures,   \* the matches it lists for each tournament
  date,       \* the kickoff it prints for each match
  pc,         \* where the call is
  selected,   \* tournaments still to ask
  asked,      \* history: the tournaments it set out to ask
  candidates, \* matches found
  loaded, lastErr,
  ids         \* the answer

siteVars == <<range, published, fixtures, date>>
vars == <<siteVars, pc, selected, asked, candidates, loaded, lastErr, ids>>

NoDates   == <<>>
NoKickoff == [hour |-> 0]

PC == {"tournaments", "matches", "answered", "failed"}

\* The k latest tournaments of S.
Latest(S, k) == {t \in S : Cardinality({u \in S : u > t}) < k}

\* Mutant: the last day ends when it begins.
OverlapsToMidnight(t) ==
  /\ range[t] # NoDates
  /\ range[t][1] * Day <= To
  /\ range[t][2] * Day >= From

\* A tournament lasts until the end of its last day.
Overlaps(t) ==
  /\ range[t] # NoDates
  /\ range[t][1] * Day <= To
  /\ (range[t][2] + 1) * Day - 1 >= From

SelectTournaments ==
  LET overlapping == {t \in published : Overlaps(t)}
  IN  IF overlapping # {} THEN Latest(overlapping, MaxSelected)
                          ELSE Latest(published, MaxFallback)

\* Mutant: local time converted in the wrong direction.
ListedKickoffAhead(m) == IF date[m].zoned THEN date[m].hour ELSE date[m].hour + Offset

\* The kickoff as FetchUpcomingIDs reads it: no zone means UTC.
ListedKickoff(m) == date[m].hour

\* The kickoff as the mapper reads it and the table stores it: no zone means
\* local time.
StoredKickoff(m) == IF date[m].zoned THEN date[m].hour ELSE date[m].hour - Offset

Readable(m) == date[m] # NoKickoff
InWindow(m) == Readable(m) /\ ListedKickoff(m) \in From..To
-----------------------------------------------------------------------------
Init ==
  /\ published \in SUBSET Tournaments
  /\ range \in [Tournaments -> Ranges \cup {NoDates}]
  /\ \A t \in Tournaments \ published : range[t] = NoDates
  /\ fixtures \in [Tournaments -> SUBSET Matches]
  /\ date \in [Matches -> Dates \cup {NoKickoff}]
  /\ pc = "tournaments"
  /\ selected = {} /\ asked = {} /\ candidates = {}
  /\ loaded = FALSE /\ lastErr = FALSE
  /\ ids = <<>>

GetTournaments ==
  /\ pc = "tournaments"
  /\ \/ /\ pc' = "matches"
        /\ selected' = SelectTournaments /\ asked' = SelectTournaments
     \/ /\ pc' = "failed"
        /\ UNCHANGED <<selected, asked>>
  /\ UNCHANGED <<siteVars, candidates, loaded, lastErr, ids>>

\* Mutant: failures are not remembered.
GetMatchesForgets ==
  /\ pc = "matches" /\ selected # {}
  /\ \E t \in Latest(selected, 1) :
        /\ selected' = selected \ {t}
        /\ candidates' \in {candidates,
                            candidates \cup {m \in fixtures[t] : InWindow(m)}}
        /\ loaded' = TRUE
  /\ UNCHANGED <<siteVars, pc, asked, lastErr, ids>>

\* One tournament, the latest first. An unavailable site ends the call, any
\* other error only leaves this tournament out.
GetMatches ==
  /\ pc = "matches" /\ selected # {}
  /\ \E t \in Latest(selected, 1) :
        /\ selected' = selected \ {t}
        /\ \/ /\ candidates' = candidates \cup {m \in fixtures[t] : InWindow(m)}
              /\ loaded' = TRUE
              /\ UNCHANGED <<pc, lastErr>>
           \/ /\ pc' = "failed"
              /\ UNCHANGED <<candidates, loaded, lastErr>>
           \/ /\ lastErr' = TRUE
              /\ UNCHANGED <<pc, candidates, loaded>>
  /\ UNCHANGED <<siteVars, asked, ids>>

\* The outcomes of sorting S by kickoff, ties in any order, and cutting it.
Sorted(S) == {q \in [1..Cardinality(S) -> S] :
                \A k, l \in DOMAIN q : k < l =>
                  q[k] # q[l] /\ ListedKickoff(q[k]) <= ListedKickoff(q[l])}

Cut(q) == SubSeq(q, 1, IF Len(q) > Limit THEN Limit ELSE Len(q))

Answer ==
  /\ pc = "matches" /\ selected = {}
  /\ IF ~loaded /\ lastErr
       THEN pc' = "failed" /\ UNCHANGED ids
       ELSE /\ pc' = "answered"
            /\ \E q \in Sorted(candidates) : ids' = Cut(q)
  /\ UNCHANGED <<siteVars, selected, asked, candidates, loaded, lastErr>>

\* The next call, of the same site.
Again ==
  /\ pc \in {"answered", "failed"}
  /\ pc' = "tournaments"
  /\ selected' = {} /\ asked' = {} /\ candidates' = {}
  /\ loaded' = FALSE /\ lastErr' = FALSE
  /\ ids' = <<>>
  /\ UNCHANGED siteVars

Next == GetTournaments \/ GetMatches \/ Answer \/ Again

Spec == Init /\ [][Next]_vars
-----------------------------------------------------------------------------
TypeOK ==
  /\ range \in [Tournaments -> Ranges \cup {NoDates}]
  /\ published \in SUBSET Tournaments
  /\ fixtures \in [Tournaments -> SUBSET Matches]
  /\ date \in [Matches -> Dates \cup {NoKickoff}]
  /\ pc \in PC
  /\ selected \in SUBSET asked /\ asked \in SUBSET published
  /\ candidates \in SUBSET {m \in Matches : InWindow(m)}
  /\ loaded \in BOOLEAN /\ lastErr \in BOOLEAN
  /\ ids \in Seq(candidates) /\ Len(ids) <= Limit

Listed == {ids[k] : k \in 1..Len(ids)}

\* Matches played within the dates of a published tournament that lists them.
Scheduled(m) ==
  \E t \in published : /\ m \in fixtures[t] /\ range[t] # NoDates
                       /\ ListedKickoff(m) \in
                            (range[t][1] * Day)..((range[t][2] + 1) * Day - 1)

\* When no tournament fails and not too many overlap the window, no match of
\* the window is left out in favour of a later one: either it is listed, or the
\* list is full of matches that are no later.
EarliestFirst ==
  /\ TypeOK
  /\ pc = "answered" /\ ~lastErr /\
       Cardinality({t \in published : Overlaps(t)}) <= MaxSelected =>
     \A m \in Matches : InWindow(m) /\ Scheduled(m) /\ m \notin Listed =>
       /\ Len(ids) = Limit
       /\ \A o \in Listed : ListedKickoff(o) <= ListedKickoff(m)

\* An answer, the empty one included, always stems from a tournament that could
\* be read, unless there was none to ask.
NotFromFailures ==
  pc = "answered" /\ asked # {} => \E t \in asked :
    {m \in fixtures[t] : InWindow(m)} \subseteq candidates

\* The ids may be those of matches that kicked off up to Offset hours before
\* the window, and a match is left out of it for being late only in its last
\* Offset hours: with a horizon longer than that no match is missed for good.
OffByZone ==
  /\ \A m \in Listed : StoredKickoff(m) \in (From - Offset)..To
  /\ \A m \in Matches : Readable(m) /\ StoredKickoff(m) \in From..(To - Offset) =>
        InWindow(m)

\* The mapper's comment: the site prints local time where it prints no zone.
\* The window is of kickoffs, so only matches that kick off in it are listed.
ListsTheWindow == \A m \in Listed : StoredKickoff(m) \in From..To
=============================================================================
