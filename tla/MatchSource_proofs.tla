------------------------- MODULE MatchSource_proofs -------------------------
(***************************************************************************)
(* What the adapter makes of the Premierliga site: which matches           *)
(* FetchUpcomingIDs lists, for any site, window and limits, and what the   *)
(* diagnostic comparison reports of a match, for any publications and      *)
(* tables of airports.                                                     *)
(***************************************************************************)
EXTENDS UpcomingWindow, MatchSnapshot, Functions, FiniteSetTheorems, SequenceTheorems, TLAPS

\* The matches of a tournament that are played in the window.
Found(t) == {m \in fixtures[t] : InWindow(m)}

WindowType ==
  /\ range \in [Tournaments -> Ranges \cup {NoDates}]
  /\ published \in SUBSET Tournaments
  /\ fixtures \in [Tournaments -> SUBSET Matches]
  /\ date \in [Matches -> Dates \cup {NoKickoff}]
  /\ pc \in PC
  /\ selected \in SUBSET asked /\ asked \in SUBSET published
  /\ candidates \in SUBSET {m \in Matches : InWindow(m)}
  /\ loaded \in BOOLEAN /\ lastErr \in BOOLEAN

\* The inductive invariant. EarliestFirst speaks of the answer alone; what makes
\* it true is known while the tournaments are asked: which ones were chosen, that
\* each one done with is either read or remembered as a failure, and that what
\* was read is among the candidates.
WindowInv ==
  /\ WindowType
  /\ pc = "tournaments" => asked = {} /\ ~loaded
  /\ pc \in {"matches", "answered"} => asked = SelectTournaments
  /\ ~lastErr /\ pc \in {"matches", "answered"} =>
       \A t \in asked \ selected : Found(t) \subseteq candidates
  /\ loaded => \E t \in asked : Found(t) \subseteq candidates
  /\ IF pc = "answered"
       THEN /\ selected = {} /\ (loaded \/ ~lastErr)
            /\ \E q \in Sorted(candidates) : ids = Cut(q)
       ELSE ids = <<>>
-----------------------------------------------------------------------------
(* The choice of tournaments. *)

LEMMA LatestIsPart == ASSUME NEW S, NEW k PROVE Latest(S, k) \subseteq S
BY DEF Latest

\* Of k tournaments or fewer the k latest are all of them.
LEMMA LatestOfFew ==
  ASSUME NEW S, IsFiniteSet(S), S \subseteq Nat, NEW k \in Nat, Cardinality(S) <= k
  PROVE  Latest(S, k) = S
<1>1. ASSUME NEW t \in S PROVE Cardinality({u \in S : u > t}) < k
  <2> DEFINE T == {u \in S : u > t}
  <2>1. T \in SUBSET S /\ t \notin T
    OBVIOUS
  <2>2. /\ IsFiniteSet(T) /\ Cardinality(T) <= Cardinality(S)
        /\ Cardinality(S) = Cardinality(T) => S = T
    BY <2>1, FS_Subset
  <2>3. Cardinality(T) \in Nat /\ Cardinality(S) \in Nat
    BY <2>2, FS_CardinalityType
  <2> HIDE DEF T
  <2>4. Cardinality(T) < k
    BY <2>1, <2>2, <2>3
  <2>5. QED
    BY <2>4 DEF T
<1>2. QED
  BY <1>1 DEF Latest

LEMMA SelectionIsPublished == SelectTournaments \subseteq published
BY LatestIsPart DEF SelectTournaments

\* A tournament during which a match of the window is played is asked, unless too
\* many others overlap the window.
LEMMA ScheduledIsSelected ==
  ASSUME WindowType, Cardinality({t \in published : Overlaps(t)}) <= MaxSelected,
         NEW t \in published, Overlaps(t)
  PROVE  t \in SelectTournaments
<1> DEFINE S == {u \in published : Overlaps(u)}
<1>1. t \in S /\ S \in SUBSET Tournaments
  BY DEF WindowType
<1>2. IsFiniteSet(S) /\ S \subseteq Nat
  BY <1>1, TournamentsAssumption, FS_Subset
<1>3. Cardinality(S) <= MaxSelected /\ MaxSelected \in Nat
  BY LimitsAssumption
<1> HIDE DEF S
<1>4. Latest(S, MaxSelected) = S
  BY <1>2, <1>3, LatestOfFew
<1>5. SelectTournaments = Latest(S, MaxSelected)
  BY <1>1 DEF SelectTournaments, S
<1>6. QED
  BY <1>1, <1>4, <1>5

\* A tournament lasts to the end of its last day.
LEMMA PlayedWithin ==
  ASSUME WindowType, NEW t \in published, range[t] # NoDates, NEW k \in From..To,
         k \in (range[t][1] * Day)..((range[t][2] + 1) * Day - 1)
  PROVE  Overlaps(t)
<1>1. range[t] \in Int \X Int
  BY RangesAssumption DEF WindowType
<1>2. PICK b, e \in Int : b = range[t][1] * Day /\ e = (range[t][2] + 1) * Day
  BY <1>1, HoursAssumption
<1>3. k \in Int /\ b <= k /\ k <= e - 1 /\ From <= k /\ k <= To
  BY <1>2, HoursAssumption
<1>4. b <= To /\ e - 1 >= From
  BY <1>2, <1>3, HoursAssumption
<1>5. QED
  BY <1>2, <1>4 DEF Overlaps
-----------------------------------------------------------------------------
(* The list that is returned. *)

LEMMA KickoffsAreNumbers ==
  ASSUME date \in [Matches -> Dates \cup {NoKickoff}], NEW m \in Matches
  PROVE  /\ ListedKickoff(m) \in Int
         /\ Readable(m) => date[m].zoned \in BOOLEAN
         /\ StoredKickoff(m) = IF date[m].zoned THEN ListedKickoff(m) ELSE ListedKickoff(m) - Offset
BY DatesAssumption DEF ListedKickoff, StoredKickoff, Readable, NoKickoff

\* A list of as many places as there are values, none of them twice, has them all.
LEMMA EveryValueOnce ==
  ASSUME NEW S, IsFiniteSet(S), NEW q \in [1..Cardinality(S) -> S],
         \A k, l \in 1..Cardinality(S) : k < l => q[k] # q[l]
  PROVE  \A s \in S : \E k \in 1..Cardinality(S) : q[k] = s
<1> DEFINE n == Cardinality(S)
<1>1. n \in Nat
  BY FS_CardinalityType
<1>2. q \in Injection(1..n, S)
  BY <1>1 DEF Injection, IsInjective
<1>3. Cardinality(1..n) = n
  BY <1>1, FS_Interval
<1> HIDE DEF n
<1>4. q \in Surjection(1..n, S)
  BY <1>2, <1>3, FS_Injection DEF n
<1>5. QED
  BY <1>4 DEF Surjection, n

LEMMA CutIs ==
  ASSUME NEW S, NEW q \in Seq(S)
  PROVE  /\ Cut(q) \in Seq(S) /\ Len(Cut(q)) <= Limit
         /\ Len(Cut(q)) = IF Len(q) > Limit THEN Limit ELSE Len(q)
         /\ \A k \in 1..Len(Cut(q)) : k \in 1..Len(q) /\ Cut(q)[k] = q[k]
<1>1. Len(q) \in Nat /\ Limit \in Nat \ {0}
  BY LimitsAssumption
<1>2. QED
  BY <1>1 DEF Cut

\* What the sorted and cut list of S holds: what it leaves out is no earlier.
LEMMA AnswerIsEarliest ==
  ASSUME NEW S, IsFiniteSet(S), NEW q \in Sorted(S)
  PROVE  /\ Cut(q) \in Seq(S) /\ Len(Cut(q)) <= Limit
         /\ \A m \in S \ {Cut(q)[k] : k \in 1..Len(Cut(q))} :
              /\ Len(Cut(q)) = Limit
              /\ \A k \in 1..Len(Cut(q)) : ListedKickoff(Cut(q)[k]) <= ListedKickoff(m)
<1> DEFINE n == Cardinality(S)
<1>1. n \in Nat
  BY FS_CardinalityType
<1>2. /\ q \in [1..n -> S]
      /\ \A k, l \in 1..n : k < l => q[k] # q[l] /\ ListedKickoff(q[k]) <= ListedKickoff(q[l])
  BY DEF Sorted
<1>3. \A s \in S : \E k \in 1..n : q[k] = s
  BY <1>2, EveryValueOnce
<1> HIDE DEF n
<1>4. q \in Seq(S) /\ Len(q) = n
  BY <1>1, <1>2
<1>5. PICK c : c = Cut(q)
  OBVIOUS
<1>6. /\ c \in Seq(S) /\ Len(c) <= Limit /\ Len(c) = (IF n > Limit THEN Limit ELSE n)
      /\ \A k \in 1..Len(c) : k \in 1..n /\ c[k] = q[k]
  BY <1>4, <1>5, CutIs
<1>7. ASSUME NEW m \in S, m \notin {c[k] : k \in 1..Len(c)}
      PROVE  Len(c) = Limit /\ \A k \in 1..Len(c) : ListedKickoff(c[k]) <= ListedKickoff(m)
  <2>1. PICK l \in 1..n : q[l] = m
    BY <1>3
  <2>2. l \notin 1..Len(c)
    BY <1>6, <1>7, <2>1
  <2>3. Limit \in Nat /\ l > Len(c)
    BY <1>1, <1>6, <2>2, LimitsAssumption
  <2>4. Len(c) = Limit
    BY <1>1, <1>6, <2>1, <2>3
  <2>5. \A k \in 1..Len(c) : k < l /\ k \in 1..n /\ c[k] = q[k]
    BY <1>6, <2>3, <2>4
  <2>6. QED
    BY <1>2, <2>1, <2>4, <2>5
<1>8. QED
  BY <1>5, <1>6, <1>7
-----------------------------------------------------------------------------
(* The steps. *)

LEMMA SiteIsFixed ==
  ASSUME UNCHANGED siteVars
  PROVE  /\ \A t : Found(t)' = Found(t) /\ Overlaps(t)' = Overlaps(t)
         /\ \A m : InWindow(m)' = InWindow(m) /\ ListedKickoff(m)' = ListedKickoff(m)
         /\ SelectTournaments' = SelectTournaments
         /\ \A S : Sorted(S)' = Sorted(S)
BY DEF siteVars, Found, Overlaps, InWindow, Readable, ListedKickoff, SelectTournaments, Sorted

LEMMA InitWindowInv == Init => WindowInv
BY DEF Init, WindowInv, WindowType, PC

LEMMA GetTournamentsKeeps == WindowInv /\ GetTournaments => WindowInv'
<1>1. SUFFICES ASSUME WindowInv, GetTournaments PROVE WindowInv'
  OBVIOUS
<1>2. WindowType /\ UNCHANGED <<siteVars, candidates, loaded, lastErr, ids>> /\ ids = <<>>
      /\ ~loaded /\ asked = {} /\ selected = {}
  BY <1>1 DEF WindowInv, WindowType, GetTournaments
<1>3. SelectTournaments' = SelectTournaments
  BY <1>2, SiteIsFixed
<1>4. WindowType'
  BY <1>1, <1>2, SelectionIsPublished
     DEF GetTournaments, WindowType, PC, siteVars, InWindow, Readable, ListedKickoff
<1>5. QED
  BY <1>1, <1>2, <1>3, <1>4 DEF GetTournaments, WindowInv

LEMMA GetMatchesKeeps == WindowInv /\ GetMatches => WindowInv'
<1>1. SUFFICES ASSUME WindowInv, GetMatches PROVE WindowInv'
  OBVIOUS
<1>2. /\ WindowType /\ pc = "matches" /\ UNCHANGED <<siteVars, asked, ids>> /\ ids = <<>>
      /\ asked = SelectTournaments
  BY <1>1 DEF WindowInv, GetMatches
<1>3. PICK t \in selected :
        /\ selected' = selected \ {t}
        /\ \/ /\ candidates' = candidates \cup Found(t) /\ loaded' = TRUE
              /\ UNCHANGED <<pc, lastErr>>
           \/ pc' = "failed" /\ UNCHANGED <<candidates, loaded, lastErr>>
           \/ lastErr' = TRUE /\ UNCHANGED <<pc, candidates, loaded>>
  <2>1. Latest(selected, 1) \subseteq selected
    BY LatestIsPart
  <2>2. QED
    BY <1>1, <2>1 DEF GetMatches, Found
<1>4. /\ \A u : Found(u)' = Found(u)
      /\ \A m : InWindow(m)' = InWindow(m)
      /\ SelectTournaments' = SelectTournaments
  BY <1>2, SiteIsFixed
<1>5. t \in Tournaments /\ t \in asked /\ Found(t) \subseteq {m \in Matches : InWindow(m)}
  BY <1>2 DEF WindowType, Found
<1>6. WindowType'
  BY <1>2, <1>3, <1>4, <1>5 DEF WindowType, PC, siteVars
<1>7. candidates \subseteq candidates'
  BY <1>3
<1>8. loaded' => \E u \in asked : Found(u) \subseteq candidates'
  <2>1. CASE loaded
    BY <1>1, <1>7, <2>1 DEF WindowInv
  <2>2. CASE ~loaded /\ loaded'
    BY <1>3, <1>5, <2>2
  <2>3. QED
    BY <2>1, <2>2
<1>9. ~lastErr' /\ pc' = "matches" =>
        \A u \in asked \ selected' : Found(u) \subseteq candidates'
  BY <1>1, <1>2, <1>3 DEF WindowInv
<1>10. pc' \in {"matches", "failed"}
  BY <1>2, <1>3
<1>11. QED
  BY <1>2, <1>4, <1>6, <1>8, <1>9, <1>10 DEF WindowInv

LEMMA AnswerKeeps == WindowInv /\ Answer => WindowInv'
<1>1. SUFFICES ASSUME WindowInv, Answer PROVE WindowInv'
  OBVIOUS
<1>2. /\ WindowType /\ pc = "matches" /\ selected = {} /\ asked = SelectTournaments /\ ids = <<>>
      /\ UNCHANGED <<siteVars, selected, asked, candidates, loaded, lastErr>>
  BY <1>1 DEF WindowInv, Answer
<1>3. \/ pc' = "failed" /\ UNCHANGED ids
      \/ /\ pc' = "answered" /\ (loaded \/ ~lastErr)
         /\ \E q \in Sorted(candidates) : ids' = Cut(q)
  BY <1>1 DEF Answer, WindowInv, WindowType
<1>4. /\ \A u : Found(u)' = Found(u)
      /\ \A m : InWindow(m)' = InWindow(m)
      /\ SelectTournaments' = SelectTournaments
      /\ \A S : Sorted(S)' = Sorted(S)
  BY <1>2, SiteIsFixed
<1>5. WindowType'
  BY <1>2, <1>3, <1>4 DEF WindowType, PC, siteVars
<1>6. PICK S : S = candidates /\ S = candidates'
  BY <1>2
<1>7. Sorted(S)' = Sorted(S)
  BY <1>2 DEF Sorted, siteVars, ListedKickoff
<1>8. pc' = "answered" => (\E q \in Sorted(candidates) : ids = Cut(q))'
  BY <1>3, <1>6, <1>7 DEF Cut
<1>9. QED
  BY <1>1, <1>2, <1>3, <1>4, <1>5, <1>8 DEF WindowInv

LEMMA AgainKeeps == WindowInv /\ Again => WindowInv'
BY DEF Again, WindowInv, WindowType, PC, siteVars

LEMMA StutterKeeps == WindowInv /\ UNCHANGED vars => WindowInv'
BY DEF vars, siteVars, WindowInv, WindowType, InWindow, Readable, ListedKickoff, Found,
       SelectTournaments, Overlaps, Sorted

\* What is known of the tournaments and the matches at every step of a call, for
\* any site, window and limits, and any requests that fail.
THEOREM WindowInvariant == Spec => []WindowInv
<1>1. WindowInv /\ [Next]_vars => WindowInv'
  BY GetTournamentsKeeps, GetMatchesKeeps, AnswerKeeps, AgainKeeps, StutterKeeps DEF Next
<1>2. QED
  BY <1>1, InitWindowInv, PTL DEF Spec
-----------------------------------------------------------------------------
LEMMA WindowTypesHold == WindowInv => TypeOK
<1>1. SUFFICES ASSUME WindowInv PROVE TypeOK
  OBVIOUS
<1>2. WindowType
  BY <1>1 DEF WindowInv
<1>3. ids \in Seq(candidates) /\ Len(ids) <= Limit
  <2>1. CASE ids = <<>>
    BY <2>1, LimitsAssumption
  <2>2. CASE \E q \in Sorted(candidates) : ids = Cut(q)
    <3>1. IsFiniteSet(candidates)
      BY <1>2, MatchesAssumption, FS_Subset DEF WindowType
    <3>2. QED
      BY <2>2, <3>1, AnswerIsEarliest
  <2>3. QED
    BY <1>1, <2>1, <2>2 DEF WindowInv
<1>4. QED
  BY <1>2, <1>3 DEF WindowType, TypeOK

\* When no tournament fails and not too many overlap the window, no match of the
\* window is left out in favour of a later one, for any tournaments and matches,
\* any window and any limit.
THEOREM EarliestAreListed == Spec => []EarliestFirst
<1>1. WindowInv => EarliestFirst
  <2>1. SUFFICES ASSUME WindowInv, pc = "answered", ~lastErr,
                        Cardinality({t \in published : Overlaps(t)}) <= MaxSelected,
                        NEW m \in Matches, InWindow(m), Scheduled(m), m \notin Listed
                 PROVE  /\ Len(ids) = Limit
                        /\ \A o \in Listed : ListedKickoff(o) <= ListedKickoff(m)
    BY WindowTypesHold DEF EarliestFirst
  <2>2. WindowType /\ selected = {} /\ asked = SelectTournaments
        /\ \A t \in asked : Found(t) \subseteq candidates
    BY <2>1 DEF WindowInv
  <2>3. PICK t \in published :
          /\ m \in fixtures[t] /\ range[t] # NoDates
          /\ ListedKickoff(m) \in (range[t][1] * Day)..((range[t][2] + 1) * Day - 1)
    BY <2>1 DEF Scheduled
  <2>4. Overlaps(t)
    <3>1. PICK k \in From..To : k = ListedKickoff(m)
      BY <2>1 DEF InWindow
    <3>2. QED
      BY <2>2, <2>3, <3>1, PlayedWithin
  <2>5. t \in asked
    BY <2>1, <2>2, <2>4, ScheduledIsSelected
  <2>6. m \in candidates
    BY <2>1, <2>2, <2>3, <2>5 DEF Found
  <2>7. IsFiniteSet(candidates)
    BY <2>2, MatchesAssumption, FS_Subset DEF WindowType
  <2>8. PICK q \in Sorted(candidates) : ids = Cut(q)
    BY <2>1 DEF WindowInv
  <2>9. m \in candidates \ {Cut(q)[k] : k \in 1..Len(Cut(q))}
    BY <2>1, <2>6, <2>8 DEF Listed
  <2>10. /\ Len(Cut(q)) = Limit
         /\ \A k \in 1..Len(Cut(q)) : ListedKickoff(Cut(q)[k]) <= ListedKickoff(m)
    BY <2>7, <2>9, AnswerIsEarliest
  <2>11. QED
    BY <2>8, <2>10 DEF Listed
<1>2. QED
  BY <1>1, WindowInvariant, PTL

\* An answer, the empty one too, stems from a tournament that could be read unless
\* there was none to ask, whatever fails on the way.
THEOREM AnswersAreRead == Spec => []NotFromFailures
<1>1. WindowInv => NotFromFailures
  BY DEF WindowInv, NotFromFailures, Found
<1>2. QED
  BY <1>1, WindowInvariant, PTL

\* For any window and any distance to UTC, reading a kickoff that has no zone as UTC
\* lists no match that began more than that distance before the window, and leaves
\* out none but those of the window's last hours.
THEOREM ZoneIsOffByOffset == Spec => []OffByZone
<1>1. WindowInv => OffByZone
  <2>1. SUFFICES ASSUME WindowInv PROVE OffByZone
    OBVIOUS
  <2>2. WindowType /\ TypeOK
    BY <2>1, WindowTypesHold DEF WindowInv
  <2>3. ASSUME NEW m \in Listed PROVE StoredKickoff(m) \in (From - Offset)..To
    <3>1. m \in Matches /\ InWindow(m)
      <4>1. PICK k \in 1..Len(ids) : m = ids[k]
        BY DEF Listed
      <4>2. m \in candidates
        BY <2>2, <4>1, ElementOfSeq DEF TypeOK
      <4>3. QED
        BY <2>2, <4>2 DEF WindowType
    <3>2. ListedKickoff(m) \in From..To
      BY <3>1 DEF InWindow
    <3>3. QED
      BY <2>2, <3>1, <3>2, KickoffsAreNumbers, HoursAssumption DEF WindowType
  <2>4. ASSUME NEW m \in Matches, Readable(m), StoredKickoff(m) \in From..(To - Offset)
        PROVE  InWindow(m)
    <3>1. ListedKickoff(m) \in Int
          /\ StoredKickoff(m) = IF date[m].zoned THEN ListedKickoff(m) ELSE ListedKickoff(m) - Offset
      BY <2>2, KickoffsAreNumbers DEF WindowType
    <3>2. ListedKickoff(m) \in From..To
      BY <2>4, <3>1, HoursAssumption
    <3>3. QED
      BY <2>4, <3>2 DEF InWindow
  <2>5. QED
    BY <2>3, <2>4 DEF OffByZone
<1>2. QED
  BY <1>1, WindowInvariant, PTL
-----------------------------------------------------------------------------
(* The diagnostic comparison. *)

\* Publications a writer can turn into a row.
Storable == {p \in Publications : Resolvable(Mapped(p))}

\* The row and what the request has read are made of the publications that the
\* history names. SnapshotIsTrue is not kept by itself: reading the row makes it
\* true only if the row is what Store wrote, whoever the writer was.
SnapshotInv ==
  /\ SnapshotTypeOK
  /\ \A w \in {"sync", "call"} : got[w] # None => got[w] \in Storable
  /\ row # None => rowOf \in Storable /\ row = Enriched(Mapped(rowOf))
  /\ source # None => sourceOf \in Publications /\ source = Mapped(sourceOf)
  /\ db # None => dbOf \in Storable /\ db = Enriched(Mapped(dbOf))

LEMMA RowsAreRecords ==
  ASSUME NEW p
  PROVE  DOMAIN Enriched(Mapped(p)) = {"home", "city", "rest", "airport"}
BY DEF Enriched, Mapped

LEMMA InitSnapshotInv == SnapshotInit => SnapshotInv
<1> SUFFICES ASSUME SnapshotInit PROVE SnapshotInv
  OBVIOUS
<1>1. got["sync"] = None /\ got["call"] = None
  BY DEF SnapshotInit
<1>2. SnapshotTypeOK
  BY <1>1 DEF SnapshotInit, SnapshotTypeOK
<1> QED
  BY <1>1, <1>2 DEF SnapshotInit, SnapshotInv

\* Steps that leave row, source and db alone.
LEMMA PublishKeepsInv == SnapshotInv /\ Publish => SnapshotInv'
BY DEF Publish, SnapshotInv, SnapshotTypeOK, request, writers, Storable, Resolvable, Mapped,
       Enriched

LEMMA MissRowKeepsInv == SnapshotInv /\ MissRow => SnapshotInv'
BY DEF MissRow, SnapshotInv, SnapshotTypeOK, request

LEMMA FetchKeepsInv ==
  ASSUME SnapshotInv, NEW w \in {"sync", "call"}, Fetch(w)
  PROVE  SnapshotInv'
<1>1. site \in Storable /\ site \in Publications
  BY DEF Fetch, SnapshotInv, SnapshotTypeOK, Storable
<1> QED
  BY <1>1 DEF Fetch, SnapshotInv, SnapshotTypeOK, request

LEMMA StoreKeepsInv ==
  ASSUME SnapshotInv, NEW w \in {"sync", "call"}, Store(w)
  PROVE  SnapshotInv'
<1>1. got[w] \in Storable /\ got[w] \in Publications
  BY DEF Store, SnapshotInv, Storable
<1>2. DOMAIN row' = {"home", "city", "rest", "airport"}
  BY RowsAreRecords DEF Store
<1>3. rowOf' \in Storable /\ row' = Enriched(Mapped(rowOf'))
  BY <1>1 DEF Store
<1>4. SnapshotTypeOK'
  BY <1>1, <1>2 DEF Store, SnapshotInv, SnapshotTypeOK, request
<1> QED
  BY <1>3, <1>4 DEF Store, SnapshotInv, request

LEMMA AbandonKeepsInv ==
  ASSUME SnapshotInv, NEW w \in {"sync", "call"}, Abandon(w)
  PROVE  SnapshotInv'
BY DEF Abandon, SnapshotInv, SnapshotTypeOK, request

LEMMA RequestKeepsInv == SnapshotInv /\ Request => SnapshotInv'
BY DEF Request, SnapshotInv, SnapshotTypeOK, writers

LEMMA ReadSourceKeepsInv == SnapshotInv /\ ReadSource => SnapshotInv'
BY DEF ReadSource, SnapshotInv, SnapshotTypeOK, writers

LEMMA ReadRowKeepsInv == SnapshotInv /\ ReadRow => SnapshotInv'
BY DEF ReadRow, SnapshotInv, SnapshotTypeOK, writers

LEMMA CtxExpiresKeepsInv == SnapshotInv /\ CtxExpires => SnapshotInv'
BY DEF CtxExpires, SnapshotInv, SnapshotTypeOK, writers

LEMMA ReturnKeepsInv == SnapshotInv /\ Return => SnapshotInv'
<1> SUFFICES ASSUME SnapshotInv, Return PROVE SnapshotInv'
  OBVIOUS
<1>1. {got.sync, got.call, rowOf} \subseteq Publications \cup {None}
  BY DEF SnapshotInv, SnapshotTypeOK
<1>2. {got.sync, got.call, sourceOf, rowOf, dbOf}' \subseteq Publications \cup {None}
  BY <1>1 DEF Return, writers
<1>3. SnapshotTypeOK'
  BY <1>2 DEF Return, SnapshotInv, SnapshotTypeOK, writers
<1> QED
  BY <1>3 DEF Return, SnapshotInv, writers

LEMMA StutterKeepsSnapshot == SnapshotInv /\ UNCHANGED snapshotVars => SnapshotInv'
BY DEF snapshotVars, SnapshotInv, SnapshotTypeOK

\* Whatever the site, the sync and a GetMatch call do, the row and both sides of a
\* comparison are those of the publications the history names.
THEOREM SnapshotInvariant == SnapshotSpec => []SnapshotInv
<1>1. SnapshotInv /\ [SnapshotNext]_snapshotVars => SnapshotInv'
  BY PublishKeepsInv, MissRowKeepsInv, FetchKeepsInv, StoreKeepsInv, AbandonKeepsInv, RequestKeepsInv,
     ReadSourceKeepsInv, ReadRowKeepsInv, CtxExpiresKeepsInv, ReturnKeepsInv,
     StutterKeepsSnapshot DEF SnapshotNext, Handler
<1> QED
  BY InitSnapshotInv, <1>1, PTL DEF SnapshotSpec
-----------------------------------------------------------------------------
\* What enrichment makes of a storable publication: the city is the fetched one or,
\* if that is missing, the home club's; home and the rest are untouched.
LEMMA EnrichmentFillsIn ==
  ASSUME NEW p \in Storable
  PROVE  LET m == Mapped(p)
             e == Enriched(m)
         IN  /\ e.home = m.home /\ e.rest = m.rest
             /\ e.city = IF m.city = None THEN HomeClub[m.home].city ELSE m.city
BY PublicationsAssumption DEF Storable, Resolvable, Enriched, Mapped

\* getMatchSnapshot reports a difference exactly where the two publications differ
\* or a city was filled in, for any site and any interleaving with the writers.
THEOREM SnapshotsAreTrue == SnapshotSpec => []SnapshotIsTrue
<1>1. SnapshotInv => SnapshotIsTrue
  <2> SUFFICES ASSUME SnapshotInv PROVE SnapshotIsTrue
    OBVIOUS
  <2> DEFINE m == Mapped(dbOf)
             stored == IF m.city = None
                         THEN [m EXCEPT !.city = HomeClub[m.home].city] ELSE m
  <2>1. ASSUME Compared
        PROVE  Diff(source, db) =
                 {f \in {"home", "city", "rest"} : Mapped(sourceOf)[f] # stored[f]}
    <3>1. source = Mapped(sourceOf) /\ dbOf \in Storable /\ db = Enriched(m)
      BY <2>1 DEF Compared, SnapshotInv
    <3>2. DOMAIN source = {"home", "city", "rest", "airport"} /\ source.airport = None
      BY <3>1 DEF Mapped
    <3>3. "airport" \notin Diff(source, db)
      BY <3>2 DEF Diff
    <3>4. db.home = stored.home /\ db.rest = stored.rest /\ db.city = stored.city
      <4>1. /\ db.home = m.home /\ db.rest = m.rest
            /\ db.city = IF m.city = None THEN HomeClub[m.home].city ELSE m.city
        BY <3>1, EnrichmentFillsIn
      <4>2. DOMAIN m = {"home", "city", "rest", "airport"}
        BY DEF Mapped
      <4> QED
        BY <4>1, <4>2
    <3>5. \A f \in {"home", "city", "rest"} : db[f] = stored[f]
      BY <3>4
    <3>6. Diff(source, db) = {f \in {"home", "city", "rest"} : source[f] # db[f]}
      BY <3>2, <3>3 DEF Diff
    <3> QED
      BY <3>1, <3>5, <3>6
  <2>2. SnapshotTypeOK
    BY DEF SnapshotInv
  <2> QED
    BY <2>1, <2>2 DEF SnapshotIsTrue
<1> QED
  BY <1>1, SnapshotInvariant, PTL
=============================================================================
