----------------------------- MODULE MatchPages -----------------------------
(***************************************************************************)
(* What the gateway serves of the match adapter: the upcoming matches, of  *)
(* one club or of all, one match, a list of matches by id, and the clubs.  *)
(* The limit a client asks for passes through the gateway, the adapter's   *)
(* transport and service and the query of the table, each with bounds of   *)
(* its own, and the filter by club is applied twice; the calls a handler   *)
(* makes share one deadline.                                               *)
(***************************************************************************)
EXTENDS Integers, Sequences, FiniteSets, SequencesExt, FiniteSetsExt

CONSTANTS
  Ids,           \* match ids
  Rows,          \* rows the table can hold
  Clubs,         \* club ids
  None,          \* no row, no club, no limit in the query
  Limits,        \* limits a client asks for
  PageDefault, ClubDefault, PageMax,   \* the gateway's limits: 12, 100, 100
  AdapterDefault, AdapterMax,          \* the adapter's: 10, 500
  MaxNow,        \* bound: the latest time
  MaxIds,        \* bound: ids in one request
  MaxUpserts     \* bound: writes by the sync

ASSUME SetsAssumption == IsFiniteSet(Ids) /\ None \notin Ids \cup Clubs \cup Int
ASSUME RowsAssumption ==
  Rows \subseteq [kickoff : Nat, home : Clubs \cup {None}, away : Clubs \cup {None}]
ASSUME LimitsAssumption ==
  /\ Limits \subseteq Nat \ {0}
  /\ PageMax \in Nat /\ AdapterMax \in Nat
  /\ PageDefault \in 1..PageMax /\ ClubDefault \in 1..PageMax
  /\ AdapterDefault \in Nat \ {0} /\ PageMax <= AdapterMax
ASSUME BoundsAssumption == MaxNow \in Nat /\ MaxIds \in Nat \ {0} /\ MaxUpserts \in Nat

VARIABLES
  db, now, upserts,  \* the table, the time, writes of the sync
  pc,                \* where the request is
  club, limit,       \* of a page of upcoming matches
  page, seen,        \* the page; history: table and time when it was read
  ids, ctxDone,      \* of a match or a list: ids to load; the deadline has passed
  loaded, errors,    \* what it has so far
  asked, late,       \* history: the ids of the request, those reached too late
  http

world  == <<db, now, upserts>>
paging == <<club, limit, page, seen>>
lookup == <<ids, ctxDone, loaded, errors, asked, late>>
vars   == <<world, pc, paging, lookup, http>>

\* The limit of a request, and the one sent to the adapter.
ParseLimit(raw, c) ==
  CASE raw # None -> IF raw > PageMax THEN PageMax ELSE raw
    [] c # None -> ClubDefault
    [] OTHER -> PageDefault

FetchLimit(l, c) == IF c # None /\ l < PageMax THEN PageMax ELSE l

\* normalizeUpcomingLimit of the adapter.
AdapterLimit(l) == CASE l <= 0 -> AdapterDefault
                     [] l > AdapterMax -> AdapterMax
                     [] OTHER -> l

OfClub(row, c) == c = None \/ row.home = c \/ row.away = c

\* The orders in which the table can list S: by kickoff, ties as it likes.
Ordered(S) == {q \in [1..Cardinality(S) -> S] :
                 \A k, l \in DOMAIN q : k < l =>
                   q[k] # q[l] /\ db[q[k]].kickoff <= db[q[l]].kickoff}

First(q, n) == SubSeq(q, 1, IF Len(q) > n THEN n ELSE Len(q))

\* filterMatchesByClubID: the one list of the club's matches of q, in their order.
FilterByClub(q, c) ==
  LET kept == {k \in 1..Len(q) : OfClub(db[q[k]], c)}
  IN  {[k \in DOMAIN p |-> q[p[k]]] :
         p \in {p \in [1..Cardinality(kept) -> kept] :
                  \A k, l \in DOMAIN p : k < l => p[k] < p[l]}}

Upcoming == {i \in Ids : db[i] # None /\ db[i].kickoff >= now}

\* Mutant: the club is only looked at in the rows that are within the limit.
QueryLimitFirst(l, c) ==
  UNION {FilterByClub(First(q, AdapterLimit(l)), c) : q \in Ordered(Upcoming)}

\* The query for upcoming matches.
Query(l, c) ==
  {First(q, AdapterLimit(l)) : q \in Ordered({i \in Upcoming : OfClub(db[i], c)})}
-----------------------------------------------------------------------------
Init ==
  /\ db \in [Ids -> Rows \cup {None}] /\ now = 0 /\ upserts = 0
  /\ pc = "idle" /\ http = 0
  /\ club = None /\ limit = 0 /\ page = <<>> /\ seen = [db |-> db, now |-> now]
  /\ ids = <<>> /\ ctxDone = FALSE /\ loaded = <<>> /\ errors = <<>>
  /\ asked = <<>> /\ late = <<>>

Answer(status) == pc' = "answered" /\ http' = status

\* A parameter that cannot be read, a method other than GET.
Refuse == \E status \in {400, 405} : Answer(status)

(***************************************************************************)
(* GET /v1/matches/upcoming                                                *)
(***************************************************************************)
GetUpcomingMatches ==
  /\ pc = "idle"
  /\ \/ Refuse /\ UNCHANGED <<club, limit>>
     \/ \E c \in Clubs \cup {None}, raw \in Limits \cup {None} :
          /\ pc' = "matches" /\ club' = c /\ limit' = ParseLimit(raw, c)
          /\ UNCHANGED http
  /\ UNCHANGED <<world, page, seen, lookup>>

LoadPage ==
  /\ pc = "matches"
  /\ \/ Answer(502) /\ UNCHANGED <<page, seen>>
     \/ /\ ~ctxDone
        /\ \E q \in Query(FetchLimit(limit, club), club) :
             \E f \in FilterByClub(q, club) : page' = First(f, limit)
        /\ seen' = [db |-> db, now |-> now]
        /\ pc' = "clubs" /\ UNCHANGED http
  /\ UNCHANGED <<world, club, limit, lookup>>

\* The dictionary of clubs only adds names, but without it there is no answer.
LoadClubs ==
  /\ pc = "clubs"
  /\ (~ctxDone /\ Answer(200)) \/ Answer(502)
  /\ UNCHANGED <<world, paging, lookup>>

(***************************************************************************)
(* GET /v1/matches/{match_id} and GET /v1/clubs                            *)
(***************************************************************************)
GetMatch ==
  /\ pc = "idle"
  /\ \/ Refuse /\ UNCHANGED <<ids, asked>>
     \/ /\ pc' = "match" /\ UNCHANGED http
        /\ \E i \in Ids : ids' = <<i>> /\ asked' = <<i>>
  /\ UNCHANGED <<world, paging, ctxDone, loaded, errors, late>>

LoadMatch ==
  /\ pc = "match"
  /\ \/ Answer(502) /\ UNCHANGED loaded
     \/ ~ctxDone /\ loaded' = ids /\ pc' = "clubs" /\ UNCHANGED http
  /\ UNCHANGED <<world, paging, ids, ctxDone, errors, asked, late>>

GetClubs ==
  /\ pc = "idle"
  /\ Answer(405) \/ (pc' = "clubs" /\ UNCHANGED http)
  /\ UNCHANGED <<world, paging, lookup>>

(***************************************************************************)
(* GET /v1/matches?ids=...                                                 *)
(***************************************************************************)
GetMatches ==
  /\ pc = "idle"
  /\ \/ Refuse /\ UNCHANGED <<ids, asked>>
     \/ Answer(502) /\ UNCHANGED <<ids, asked>>   \* the dictionary of clubs fails
     \/ /\ pc' = "lookup" /\ UNCHANGED http
        /\ ids' \in SeqOf(Ids, MaxIds) \ {<<>>} /\ asked' = ids'
  /\ UNCHANGED <<world, paging, ctxDone, loaded, errors, late>>

\* Mutant: the first error ends the list.
LoadNextStops ==
  /\ pc = "lookup" /\ ids # <<>>
  /\ late' = IF ctxDone THEN Append(late, Head(ids)) ELSE late
  /\ \/ ~ctxDone /\ loaded' = Append(loaded, Head(ids)) /\ ids' = Tail(ids) /\ UNCHANGED errors
     \/ errors' = Append(errors, Head(ids)) /\ ids' = <<>> /\ UNCHANGED loaded
  /\ UNCHANGED <<world, paging, pc, ctxDone, asked, http>>

\* One id after the other; a call that fails costs its id, and once the deadline
\* has passed every call fails.
LoadNext ==
  /\ pc = "lookup" /\ ids # <<>>
  /\ ids' = Tail(ids)
  /\ late' = IF ctxDone THEN Append(late, Head(ids)) ELSE late
  /\ \/ ~ctxDone /\ loaded' = Append(loaded, Head(ids)) /\ UNCHANGED errors
     \/ errors' = Append(errors, Head(ids)) /\ UNCHANGED loaded
  /\ UNCHANGED <<world, paging, pc, ctxDone, asked, http>>

AnswerList ==
  /\ pc = "lookup" /\ ids = <<>>
  /\ Answer(IF loaded = <<>> THEN 502 ELSE 200)
  /\ UNCHANGED <<world, paging, lookup>>

CtxExpires ==
  /\ pc \in {"matches", "match", "clubs", "lookup"} /\ ~ctxDone
  /\ ctxDone' = TRUE
  /\ UNCHANGED <<world, paging, pc, ids, loaded, errors, asked, late, http>>

Return ==
  /\ pc = "answered"
  /\ pc' = "idle" /\ http' = 0
  /\ club' = None /\ limit' = 0 /\ page' = <<>> /\ seen' = [db |-> db, now |-> now]
  /\ ids' = <<>> /\ ctxDone' = FALSE /\ loaded' = <<>> /\ errors' = <<>>
  /\ asked' = <<>> /\ late' = <<>>
  /\ UNCHANGED world

(***************************************************************************)
(* Meanwhile the sync writes the table and time passes.                    *)
(***************************************************************************)
Upsert ==
  /\ upserts < MaxUpserts /\ upserts' = upserts + 1
  /\ \E i \in Ids, r \in Rows : db' = [db EXCEPT ![i] = r]
  /\ UNCHANGED <<now, pc, paging, lookup, http>>

TimePasses ==
  /\ now < MaxNow /\ now' = now + 1
  /\ UNCHANGED <<db, upserts, pc, paging, lookup, http>>

Next ==
  \/ GetUpcomingMatches \/ LoadPage \/ LoadClubs
  \/ GetMatch \/ LoadMatch \/ GetClubs \/ GetMatches \/ LoadNext \/ AnswerList \/ CtxExpires
  \/ Return \/ Upsert \/ TimePasses

Spec == Init /\ [][Next]_vars
-----------------------------------------------------------------------------
TypeOK ==
  /\ db \in [Ids -> Rows \cup {None}] /\ now \in 0..MaxNow /\ upserts \in 0..MaxUpserts
  /\ pc \in {"idle", "matches", "match", "clubs", "lookup", "answered"}
  /\ club \in Clubs \cup {None} /\ limit \in 0..PageMax
  /\ page \in Seq(Ids) /\ Len(page) <= limit
  /\ \A q \in {ids, loaded, errors, asked, late} : q \in Seq(Ids)
  /\ ctxDone \in BOOLEAN
  /\ http \in {0, 200, 400, 405, 502}

Kickoff(i) == seen.db[i].kickoff
Wanted == {i \in Ids : seen.db[i] # None /\ Kickoff(i) >= seen.now /\ OfClub(seen.db[i], club)}

\* A page holds the earliest upcoming matches of the club, in order, as many as
\* asked for: none of them is lost to a limit on the way that counts the matches
\* of other clubs too.
EarliestOfTheClub ==
  /\ TypeOK
  /\ limit > 0 /\ (pc = "clubs" \/ (pc = "answered" /\ http = 200)) =>
      /\ ToSet(page) \subseteq Wanted /\ IsInjective(page)
      /\ Len(page) = Min({limit, Cardinality(Wanted)})
      /\ \A k, l \in 1..Len(page) : k < l => Kickoff(page[k]) <= Kickoff(page[l])
      /\ \A i \in Wanted \ ToSet(page) : \A o \in ToSet(page) : Kickoff(o) <= Kickoff(i)

Count(q, i) == Cardinality({k \in 1..Len(q) : q[k] = i})

\* Each id of a list, as often as it was asked for, is loaded or reported as an
\* error; only the ids reached after the deadline are lost to it, and they all are.
\* A single match is shown only if it was loaded, and of all requests only a list
\* succeeds although its deadline passes, with what was loaded before.
EveryIdIsAccounted ==
  /\ pc = "answered" /\ asked # <<>> /\ ids = <<>> =>
    /\ \A i \in Ids : Count(loaded, i) + Count(errors, i) = Count(asked, i)
    /\ late = SubSeq(errors, Len(errors) - Len(late) + 1, Len(errors))
    /\ http = 502 <=> loaded = <<>>
  /\ http = 200 /\ ids # <<>> => loaded = asked
  /\ http = 200 /\ ctxDone => loaded # <<>> /\ ids = <<>>
=============================================================================
