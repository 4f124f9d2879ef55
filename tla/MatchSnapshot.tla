--------------------------- MODULE MatchSnapshot ----------------------------
(***************************************************************************)
(* GET /debug/match: the diagnostic handler reads a match at the site and  *)
(* then its row, and compares them field by field, while the sync and a    *)
(* GetMatch call write the row of the same match. (What every model has is *)
(* named after this one, which is proved about beside UpcomingWindow.)     *)
(***************************************************************************)
EXTENDS Integers

CONSTANTS
  Publications,   \* what the site can say of the match: [home, city, rest]
  None,           \* an empty string, a nil pointer, no row
  Unreadable,     \* publications whose kickoff the mapper cannot parse
  Normal,         \* normalizeCity: the spelling of a city the mapper gives it
  CityAirport,    \* table city_iata
  HomeClub        \* fallbackByHomeClubID: [city, airport] of a club

Cities == {p.city : p \in Publications}

ASSUME PublicationsAssumption ==
  /\ None \notin Publications /\ Unreadable \subseteq Publications
  /\ None \notin DOMAIN CityAirport \cup DOMAIN HomeClub
  /\ Cities \subseteq DOMAIN Normal /\ Normal[None] = None

VARIABLES
  site,        \* what the site says of the match
  row,         \* the stored match
  missed,      \* the call of GetMatch has found no row and goes to the site
  got,         \* what the sync and the call have fetched to write
  stage, ctxDone,  \* the diagnostic request, and its one deadline
  source, db,  \* what it has read: sourceMatch and dbMatch
  http,
  \* History: the publications that source, row and db stand for
  sourceOf, rowOf, dbOf

snapshotVars ==
  <<site, row, missed, got, stage, ctxDone, source, db, http, sourceOf, rowOf, dbOf>>
writers == <<missed, got>>
request == <<stage, ctxDone, source, db, http, sourceOf, dbOf>>

\* ToDomainMatch: there is no destination airport at the site.
Mapped(p) == [home |-> p.home, city |-> Normal[p.city], rest |-> p.rest, airport |-> None]

Resolvable(m) == m.city \in DOMAIN CityAirport \/ m.home \in DOMAIN HomeClub

\* Mutant: the club's city replaces the site's whenever its airport does.
EnrichedFromClub(m) ==
  IF m.city \in DOMAIN CityAirport
    THEN [m EXCEPT !.airport = CityAirport[m.city]]
    ELSE [m EXCEPT !.airport = HomeClub[m.home].airport, !.city = HomeClub[m.home].city]

\* enrichDestinationFromCityOrClub: the airport of the city or else of the home
\* club, whose city fills in for one the site leaves out.
Enriched(m) ==
  IF m.city \in DOMAIN CityAirport
    THEN [m EXCEPT !.airport = CityAirport[m.city]]
    ELSE [m EXCEPT !.airport = HomeClub[m.home].airport,
                   !.city = IF @ = None THEN HomeClub[m.home].city ELSE @]

\* buildComparison: the fields that differ. An airport only one side knows does not.
Diff(s, d) == {f \in DOMAIN s : s[f] # d[f] /\ (f = "airport" => None \notin {s[f], d[f]})}
-----------------------------------------------------------------------------
SnapshotInit ==
  /\ site \in Publications \cup {None} /\ row = None
  /\ missed = FALSE /\ got = [sync |-> None, call |-> None]
  /\ stage = "idle" /\ ctxDone = FALSE /\ source = None /\ db = None /\ http = 0
  /\ sourceOf = None /\ rowOf = None /\ dbOf = None

Publish ==
  /\ site' \in Publications
  /\ UNCHANGED <<row, writers, request, rowOf>>

\* A call of GetMatch goes to the site only for a match that has no row; another
\* writer may have stored one by the time the call fetches the match.
MissRow ==
  /\ row = None /\ ~missed /\ got.call = None
  /\ missed' = TRUE
  /\ UNCHANGED <<site, row, got, request, rowOf>>

\* The sync fetches whatever the table holds. What cannot be mapped or flown to goes
\* no further.
Fetch(w) ==
  /\ got[w] = None /\ (w = "call" => missed)
  /\ site \notin Unreadable \cup {None} /\ Resolvable(Mapped(site))
  /\ got' = [got EXCEPT ![w] = site]
  /\ missed' = (missed /\ w # "call")
  /\ UNCHANGED <<site, row, request, rowOf>>

\* Mutant: the row is only written when there is none.
StoreOnce(w) ==
  /\ got[w] # None
  /\ row' = IF row = None THEN Enriched(Mapped(got[w])) ELSE row
  /\ rowOf' = IF row = None THEN got[w] ELSE rowOf
  /\ got' = [got EXCEPT ![w] = None]
  /\ UNCHANGED <<site, missed, request>>

Store(w) ==
  /\ got[w] # None
  /\ row' = Enriched(Mapped(got[w])) /\ rowOf' = got[w]
  /\ got' = [got EXCEPT ![w] = None]
  /\ UNCHANGED <<site, missed, request>>

\* The run or the call fails or is cut short.
Abandon(w) ==
  /\ got[w] # None \/ (w = "call" /\ missed)
  /\ got' = [got EXCEPT ![w] = None]
  /\ missed' = (missed /\ w # "call")
  /\ UNCHANGED <<site, row, request, rowOf>>
-----------------------------------------------------------------------------
(* The handler *)

\* Another method, or an id that is no positive number, is refused.
Request ==
  /\ stage = "idle"
  /\ \/ stage' = "source" /\ UNCHANGED http
     \/ stage' = "answered" /\ http' \in {400, 405}
  /\ UNCHANGED <<site, row, writers, ctxDone, source, db, sourceOf, rowOf, dbOf>>

\* A failure to read or to map leaves sourceMatch nil, and the handler goes on.
ReadSource ==
  /\ stage = "source" /\ stage' = "row"
  /\ \/ /\ ~ctxDone /\ site \notin Unreadable \cup {None}
        /\ source' = Mapped(site) /\ sourceOf' = site
     \/ UNCHANGED <<source, sourceOf>>
  /\ UNCHANGED <<site, row, writers, ctxDone, db, http, rowOf, dbOf>>

ReadRow ==
  /\ stage = "row" /\ stage' = "answered" /\ http' = 200
  /\ \/ ~ctxDone /\ db' = row /\ dbOf' = rowOf
     \/ UNCHANGED <<db, dbOf>>
  /\ UNCHANGED <<site, row, writers, ctxDone, source, sourceOf, rowOf>>

CtxExpires ==
  /\ stage \in {"source", "row"} /\ ctxDone' = TRUE
  /\ UNCHANGED <<site, row, writers, stage, source, db, http, sourceOf, rowOf, dbOf>>

Return ==
  /\ stage = "answered"
  /\ stage' = "idle" /\ ctxDone' = FALSE /\ source' = None /\ db' = None /\ http' = 0
  /\ sourceOf' = None /\ dbOf' = None
  /\ UNCHANGED <<site, row, writers, rowOf>>

Handler == ReadSource \/ ReadRow \/ Return

SnapshotNext ==
  \/ Publish \/ Request \/ Handler \/ CtxExpires \/ MissRow
  \/ \E w \in {"sync", "call"} : Fetch(w) \/ Store(w) \/ Abandon(w)

SnapshotSpec == SnapshotInit /\ [][SnapshotNext]_snapshotVars

\* The handler has a deadline. The ticker starts a run again and again, and one in a
\* while gets through: of a match, that is, which the runs go on listing.
FairSpec == /\ SnapshotSpec /\ WF_snapshotVars(Handler)
            /\ WF_snapshotVars(Fetch("sync")) /\ SF_snapshotVars(Store("sync"))
-----------------------------------------------------------------------------
SnapshotTypeOK ==
  /\ site \in Publications \cup {None}
  /\ row = None \/ DOMAIN row = {"home", "city", "rest", "airport"}
  /\ stage \in {"idle", "source", "row", "answered"} /\ {ctxDone, missed} \subseteq BOOLEAN
  /\ http \in {0, 200, 400, 405}
  /\ {got.sync, got.call, sourceOf, rowOf, dbOf} \subseteq Publications \cup {None}

Compared == stage = "answered" /\ source # None /\ db # None

\* A difference that is reported is one between two publications, the one compared
\* and the one the row was made of, or the city the adapter filled in; and every
\* such difference is reported, but for airports, which the site does not know.
SnapshotIsTrue ==
  /\ SnapshotTypeOK
  /\ Compared =>
       LET fetched == Mapped(dbOf)
           stored == IF fetched.city = None
                       THEN [fetched EXCEPT !.city = HomeClub[fetched.home].city]
                       ELSE fetched
       IN  Diff(source, db) = {f \in {"home", "city", "rest"} : Mapped(sourceOf)[f] # stored[f]}

\* Once the site stops changing a match that the sync goes on listing, snapshots of
\* it report no difference but, for ever, the city of a match whose city was filled in.
SnapshotsSettle ==
  <>[][FALSE]_site =>
    <>[](Compared /\ Resolvable(source) =>
           Diff(source, db) \subseteq (IF source.city = None THEN {"city"} ELSE {}))
=============================================================================
