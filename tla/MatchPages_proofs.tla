------------------------- MODULE MatchPages_proofs --------------------------
(***************************************************************************)
(* For lists of any length and any order of answers and deadline: what     *)
(* becomes of each id of a request for matches; and for any table, clubs   *)
(* and limits: what a page of upcoming matches holds.                      *)
(***************************************************************************)
EXTENDS MatchPages, FiniteSetTheorems, SequenceTheorems, WellFoundedInduction, TLAPS

\* How often i is among the first n of q.
Before(q, n, i) == Cardinality({k \in 1..n : q[k] = i})

\* ids is what is left of the list.
Rest ==
  /\ Len(ids) <= Len(asked)
  /\ \A k \in 1..Len(ids) : ids[k] = asked[Len(asked) - Len(ids) + k]

\* late is the end of the errors, and empty before the deadline.
Overdue ==
  /\ Len(late) <= Len(errors)
  /\ \A k \in 1..Len(late) : late[k] = errors[Len(errors) - Len(late) + k]
  /\ ~ctxDone => late = <<>>

\* Each id up to the one in hand is loaded or an error.
Accounted ==
  \A i \in Ids : Count(loaded, i) + Count(errors, i) = Before(asked, Len(asked) - Len(ids), i)

Untouched == loaded = <<>> /\ errors = <<>> /\ late = <<>>

LookupType ==
  /\ pc \in {"idle", "matches", "match", "clubs", "lookup", "answered"}
  /\ ctxDone \in BOOLEAN
  /\ ids \in Seq(Ids) /\ loaded \in Seq(Ids) /\ errors \in Seq(Ids)
  /\ asked \in Seq(Ids) /\ late \in Seq(Ids)

\* The inductive invariant: EveryIdIsAccounted speaks of the answer only, and
\* holds there because the loop accounts for the ids one by one.
LookupInv ==
  /\ LookupType
  /\ pc # "answered" => http = 0
  /\ pc = "idle" => ids = <<>> /\ asked = <<>> /\ Untouched /\ ~ctxDone
  /\ pc = "matches" => ids = <<>> /\ asked = <<>> /\ Untouched
  /\ pc = "match" => ids = asked /\ ids # <<>> /\ Untouched
  /\ pc = "clubs" => ids = asked /\ loaded = asked
  /\ pc = "lookup" => asked # <<>> /\ Rest /\ Overdue /\ Accounted
  /\ pc = "answered" => EveryIdIsAccounted
-----------------------------------------------------------------------------
(* Counting in sequences. *)

LEMMA PrefixCount ==
  ASSUME NEW q, NEW n \in Nat, NEW i
  PROVE  /\ Before(q, n, i) \in Nat
         /\ Before(q, n + 1, i) = Before(q, n, i) + (IF q[n + 1] = i THEN 1 ELSE 0)
<1> DEFINE P == {k \in 1..n : q[k] = i}
           R == {k \in 1..(n + 1) : q[k] = i}
<1>1. IsFiniteSet(P) /\ Cardinality(P) \in Nat
  <2>1. IsFiniteSet(1..n)
    BY FS_Interval
  <2>2. P \in SUBSET (1..n)
    OBVIOUS
  <2>3. QED
    BY <2>1, <2>2, FS_Subset, FS_CardinalityType
<1>2. CASE q[n + 1] = i
  <2>1. R = P \cup {n + 1} /\ n + 1 \notin P
    BY <1>2
  <2>2. QED
    BY <1>1, <1>2, <2>1, FS_AddElement DEF Before
<1>3. CASE q[n + 1] # i
  <2>1. R = P
    BY <1>3
  <2>2. QED
    BY <1>1, <1>3, <2>1 DEF Before
<1>4. QED
  BY <1>2, <1>3

LEMMA EmptyCount == \A q, i : Before(q, 0, i) = 0 /\ Count(<<>>, i) = 0
<1>1. TAKE q, i
<1>2. {k \in 1..0 : q[k] = i} = {} /\ {k \in 1..Len(<<>>) : <<>>[k] = i} = {}
  OBVIOUS
<1>3. QED
  BY <1>2, FS_EmptySet DEF Before, Count

LEMMA AppendCount ==
  ASSUME NEW q \in Seq(Ids), NEW x \in Ids, NEW i
  PROVE  /\ Count(q, i) \in Nat
         /\ Count(Append(q, x), i) = Count(q, i) + (IF x = i THEN 1 ELSE 0)
<1> DEFINE a == Append(q, x)
<1>1. Len(q) \in Nat /\ Len(a) = Len(q) + 1 /\ a[Len(q) + 1] = x
  OBVIOUS
<1>2. \A k \in 1..Len(q) : a[k] = q[k]
  OBVIOUS
<1>3. Count(q, i) = Before(a, Len(q), i)
  <2>1. {k \in 1..Len(q) : q[k] = i} = {k \in 1..Len(q) : a[k] = i}
    BY <1>2
  <2>2. QED
    BY <2>1 DEF Count, Before
<1>4. Count(a, i) = Before(a, Len(q) + 1, i)
  BY <1>1 DEF Count, Before
<1> HIDE DEF a
<1>5. /\ Before(a, Len(q), i) \in Nat
      /\ Before(a, Len(q) + 1, i) = Before(a, Len(q), i) + (IF a[Len(q) + 1] = i THEN 1 ELSE 0)
  BY <1>1, PrefixCount
<1>6. Count(a, i) = Count(q, i) + (IF x = i THEN 1 ELSE 0) /\ Count(q, i) \in Nat
  BY <1>1, <1>3, <1>4, <1>5
<1>7. QED
  BY <1>6 DEF a
-----------------------------------------------------------------------------
(* The steps of a request. *)

LEMMA InitLookup == Init => LookupInv
BY EmptySeq DEF Init, LookupInv, LookupType, Untouched

\* Nothing is done for a match, a list or the clubs.
LEMMA PagingKeeps ==
  ASSUME LookupInv, UNCHANGED lookup,
         \/ UNCHANGED <<pc, http>>
         \/ pc = "idle" /\ pc' = "matches" /\ UNCHANGED http
         \/ pc \in {"idle", "matches"} /\ pc' = "answered" /\ http' # 200
         \/ pc \in {"idle", "matches"} /\ pc' = "clubs" /\ UNCHANGED http
  PROVE  LookupInv'
<1>1. /\ ids' = ids /\ ctxDone' = ctxDone /\ loaded' = loaded /\ errors' = errors
      /\ asked' = asked /\ late' = late
  BY DEF lookup
<1>2. CASE UNCHANGED <<pc, http>>
  <2>1. /\ Rest' <=> Rest
        /\ Overdue' <=> Overdue
    BY <1>1 DEF Rest, Overdue
  <2>2. Accounted' <=> Accounted
    BY <1>1 DEF Accounted
  <2>3. EveryIdIsAccounted' <=> EveryIdIsAccounted
    BY <1>1, <1>2 DEF EveryIdIsAccounted
  <2>4. QED
    BY <1>1, <1>2, <2>1, <2>2, <2>3 DEF LookupInv, LookupType, Untouched
<1>3. CASE pc' \in {"matches", "answered", "clubs"} /\ pc \in {"idle", "matches"}
  BY <1>1, <1>3 DEF LookupInv, LookupType, Untouched, EveryIdIsAccounted
<1>4. QED
  BY <1>2, <1>3

LEMMA LookupBegins ==
  ASSUME LookupInv, GetMatch \/ GetMatches
  PROVE  LookupInv'
<1>1. pc = "idle" /\ UNCHANGED <<ctxDone, loaded, errors, late>>
  BY DEF GetMatch, GetMatches
<1>2. /\ ids = <<>> /\ asked = <<>> /\ loaded = <<>> /\ errors = <<>> /\ late = <<>>
      /\ ctxDone = FALSE /\ http = 0
  BY <1>1 DEF LookupInv, LookupType, Untouched
<1>3. CASE pc' = "answered" /\ http' \in {400, 405, 502} /\ UNCHANGED <<ids, asked>>
  BY <1>1, <1>2, <1>3 DEF LookupInv, LookupType, EveryIdIsAccounted
<1>4. ASSUME NEW i \in Ids, pc' = "match", UNCHANGED http, ids' = <<i>>, asked' = <<i>>
      PROVE  LookupInv'
  <2>1. ids' \in Seq(Ids) /\ ids' # <<>>
    BY <1>4
  <2>2. QED
    BY <1>1, <1>2, <1>4, <2>1 DEF LookupInv, LookupType, Untouched
<1>5. CASE /\ pc' = "lookup" /\ UNCHANGED http
           /\ ids' \in SeqOf(Ids, MaxIds) \ {<<>>} /\ asked' = ids'
  <2>1. PICK m \in 0..MaxIds : ids' \in [1..m -> Ids]
    BY <1>5 DEF SeqOf
  <2>2. ids' \in Seq(Ids) /\ ids' # <<>>
    BY <1>5, <2>1, BoundsAssumption
  <2>3. Rest'
    BY <1>5, <2>2 DEF Rest
  <2>4. Overdue'
    BY <1>1, <1>2 DEF Overdue
  <2>5. Accounted'
    <3>1. Len(asked') - Len(ids') = 0
      BY <1>5, <2>2
    <3>2. loaded' = <<>> /\ errors' = <<>>
      BY <1>1, <1>2
    <3>3. \A i : Count(loaded', i) = 0 /\ Count(errors', i) = 0 /\ Before(asked', 0, i) = 0
      BY <3>2, EmptyCount
    <3>4. QED
      BY <3>1, <3>3 DEF Accounted
  <2>6. QED
    BY <1>1, <1>2, <1>5, <2>2, <2>3, <2>4, <2>5 DEF LookupInv, LookupType
<1>6. QED
  BY <1>3, <1>4, <1>5 DEF GetMatch, GetMatches, Refuse, Answer

LEMMA LoadMatchKeeps == ASSUME LookupInv, LoadMatch PROVE LookupInv'
<1>1. /\ pc = "match" /\ UNCHANGED <<ids, ctxDone, errors, asked, late>>
      /\ ids = asked /\ ids # <<>> /\ http = 0
  BY DEF LoadMatch, LookupInv
<1>2. CASE pc' = "answered" /\ http' = 502 /\ UNCHANGED loaded
  BY <1>1, <1>2 DEF LookupInv, LookupType, EveryIdIsAccounted
<1>3. CASE loaded' = ids /\ pc' = "clubs" /\ UNCHANGED http
  BY <1>1, <1>3 DEF LookupInv, LookupType
<1>4. QED
  BY <1>2, <1>3 DEF LoadMatch, Answer

\* What is answered after the clubs is a match that was asked for, or no match.
LEMMA LoadClubsKeeps == ASSUME LookupInv, LoadClubs PROVE LookupInv'
<1>1. /\ pc = "clubs" /\ ids = asked /\ loaded = asked
      /\ UNCHANGED <<ids, ctxDone, loaded, errors, asked, late>> /\ pc' = "answered"
  BY DEF LoadClubs, LookupInv, lookup, Answer
<1>2. http' = 200 => ~ctxDone
  BY DEF LoadClubs, Answer
<1>3. QED
  BY <1>1, <1>2 DEF LookupInv, LookupType, EveryIdIsAccounted

LEMMA LoadNextKeeps == ASSUME LookupInv, LoadNext PROVE LookupInv'
<1>1. /\ pc = "lookup" /\ ids # <<>> /\ ids' = Tail(ids) /\ asked # <<>>
      /\ UNCHANGED <<pc, ctxDone, asked, http>>
      /\ late' = IF ctxDone THEN Append(late, Head(ids)) ELSE late
      /\ Rest /\ Overdue /\ Accounted
  BY DEF LoadNext, LookupInv
<1>2. /\ ids \in Seq(Ids) /\ loaded \in Seq(Ids) /\ errors \in Seq(Ids)
      /\ asked \in Seq(Ids) /\ late \in Seq(Ids)
  BY DEF LookupInv, LookupType
<1> DEFINE x == Head(ids)
           n == Len(asked) - Len(ids)
<1>3. /\ x \in Ids /\ ids' \in Seq(Ids) /\ Len(ids') = Len(ids) - 1 /\ Len(ids) \in Nat \ {0}
      /\ x = ids[1] /\ \A k \in 1..Len(ids') : ids'[k] = ids[k + 1]
  BY <1>1, <1>2
<1>4. n \in Nat /\ Len(asked') - Len(ids') = n + 1 /\ asked[n + 1] = x
  BY <1>1, <1>2, <1>3 DEF Rest
<1>5. Rest'
  <2>1. Len(ids') <= Len(asked')
    BY <1>1, <1>2, <1>3 DEF Rest
  <2>2. ASSUME NEW k \in 1..Len(ids') PROVE ids'[k] = asked'[Len(asked') - Len(ids') + k]
    <3>1. k + 1 \in 1..Len(ids) /\ ids'[k] = ids[k + 1]
      BY <1>3
    <3>2. ids[k + 1] = asked[Len(asked) - Len(ids) + (k + 1)]
      BY <1>1, <3>1 DEF Rest
    <3>3. Len(asked) - Len(ids) + (k + 1) = Len(asked') - Len(ids') + k
      BY <1>1, <1>2, <1>3
    <3>4. QED
      BY <1>1, <3>1, <3>2, <3>3
  <2>3. QED
    BY <2>1, <2>2 DEF Rest
<1>6. \A i \in Ids : /\ Count(loaded, i) \in Nat /\ Count(errors, i) \in Nat
                     /\ Count(Append(loaded, x), i) = Count(loaded, i) + (IF x = i THEN 1 ELSE 0)
                     /\ Count(Append(errors, x), i) = Count(errors, i) + (IF x = i THEN 1 ELSE 0)
                     /\ Before(asked, n + 1, i) = Before(asked, n, i) + (IF x = i THEN 1 ELSE 0)
                     /\ Count(loaded, i) + Count(errors, i) = Before(asked, n, i)
  <2>1. TAKE i \in Ids
  <2>2. /\ Count(loaded, i) \in Nat
        /\ Count(Append(loaded, x), i) = Count(loaded, i) + (IF x = i THEN 1 ELSE 0)
    BY <1>2, <1>3, AppendCount
  <2>3. /\ Count(errors, i) \in Nat
        /\ Count(Append(errors, x), i) = Count(errors, i) + (IF x = i THEN 1 ELSE 0)
    BY <1>2, <1>3, AppendCount
  <2>4. Before(asked, n + 1, i) = Before(asked, n, i) + (IF x = i THEN 1 ELSE 0)
    BY <1>4, PrefixCount
  <2>5. Count(loaded, i) + Count(errors, i) = Before(asked, n, i)
    BY <1>1 DEF Accounted
  <2>6. QED
    BY <2>2, <2>3, <2>4, <2>5
<1>7. CASE ~ctxDone /\ loaded' = Append(loaded, x) /\ UNCHANGED errors
  <2>1. Overdue'
    BY <1>1, <1>2, <1>7 DEF Overdue
  <2>2. ASSUME NEW i \in Ids
        PROVE  Count(loaded', i) + Count(errors', i) = Before(asked', Len(asked') - Len(ids'), i)
    <3>1. /\ Count(loaded', i) = Count(loaded, i) + (IF x = i THEN 1 ELSE 0)
          /\ Count(errors', i) = Count(errors, i)
      BY <1>6, <1>7
    <3>2. Before(asked', Len(asked') - Len(ids'), i) = Before(asked, n, i) + (IF x = i THEN 1 ELSE 0)
      BY <1>1, <1>4, <1>6
    <3>3. QED
      BY <1>6, <3>1, <3>2
  <2>3. Accounted'
    BY <2>2 DEF Accounted, Count, Before
  <2>4. loaded' \in Seq(Ids) /\ errors' \in Seq(Ids) /\ late' \in Seq(Ids)
    BY <1>1, <1>2, <1>3, <1>7
  <2>5. QED
    BY <1>1, <1>2, <1>3, <1>5, <2>1, <2>3, <2>4 DEF LookupInv, LookupType
<1>8. CASE errors' = Append(errors, x) /\ UNCHANGED loaded
  <2>1. loaded' \in Seq(Ids) /\ errors' \in Seq(Ids) /\ late' \in Seq(Ids)
    BY <1>1, <1>2, <1>3, <1>8
  <2>2. Overdue'
    <3>1. CASE ~ctxDone
      BY <1>1, <1>2, <1>8, <2>1, <3>1 DEF Overdue
    <3>2. CASE ctxDone
      <4>1. late' = Append(late, x) /\ Len(late') = Len(late) + 1 /\ Len(errors') = Len(errors) + 1
        BY <1>1, <1>2, <1>8, <3>2
      <4>2. Len(late) \in Nat /\ Len(errors) \in Nat /\ Len(late) <= Len(errors)
        BY <1>1, <1>2 DEF Overdue
      <4>3. ASSUME NEW k \in 1..Len(late')
            PROVE  late'[k] = errors'[Len(errors') - Len(late') + k]
        <5>1. CASE k = Len(late')
          BY <1>2, <1>3, <1>8, <4>1, <4>2, <5>1
        <5>2. CASE k # Len(late')
          <6>1. k \in 1..Len(late)
            BY <4>1, <4>2, <5>2
          <6>2. late[k] = errors[Len(errors) - Len(late) + k]
            BY <1>1, <6>1 DEF Overdue
          <6>3. Len(errors) - Len(late) + k \in 1..Len(errors)
            BY <4>2, <6>1
          <6>4. QED
            BY <1>2, <1>3, <1>8, <4>1, <4>2, <6>1, <6>2, <6>3
        <5>3. QED
          BY <5>1, <5>2
      <4>4. QED
        BY <1>1, <3>2, <4>1, <4>2, <4>3 DEF Overdue
    <3>3. QED
      BY <3>1, <3>2
  <2>3. ASSUME NEW i \in Ids
        PROVE  Count(loaded', i) + Count(errors', i) = Before(asked', Len(asked') - Len(ids'), i)
    <3>1. /\ Count(errors', i) = Count(errors, i) + (IF x = i THEN 1 ELSE 0)
          /\ Count(loaded', i) = Count(loaded, i)
      BY <1>6, <1>8
    <3>2. Before(asked', Len(asked') - Len(ids'), i) = Before(asked, n, i) + (IF x = i THEN 1 ELSE 0)
      BY <1>1, <1>4, <1>6
    <3>3. QED
      BY <1>6, <3>1, <3>2
  <2>4. Accounted'
    BY <2>3 DEF Accounted, Count, Before
  <2>5. QED
    BY <1>1, <1>2, <1>3, <1>5, <2>1, <2>2, <2>4 DEF LookupInv, LookupType
<1>9. QED
  BY <1>7, <1>8 DEF LoadNext

LEMMA AnswerListKeeps == ASSUME LookupInv, AnswerList PROVE LookupInv'
<1>1. /\ pc = "lookup" /\ ids = <<>> /\ pc' = "answered"
      /\ http' = (IF loaded = <<>> THEN 502 ELSE 200)
      /\ UNCHANGED <<ids, ctxDone, loaded, errors, asked, late>>
      /\ Rest /\ Overdue /\ Accounted
  BY DEF AnswerList, Answer, LookupInv, lookup
<1>2. errors \in Seq(Ids) /\ late \in Seq(Ids) /\ asked \in Seq(Ids)
  BY DEF LookupInv, LookupType
<1>3. \A i \in Ids : Count(loaded, i) + Count(errors, i) = Count(asked, i)
  <2>1. Len(asked) - Len(ids) = Len(asked)
    BY <1>1, <1>2
  <2>2. QED
    BY <1>1, <2>1 DEF Accounted, Count, Before
<1>4. late = SubSeq(errors, Len(errors) - Len(late) + 1, Len(errors))
  <2> DEFINE s == SubSeq(errors, Len(errors) - Len(late) + 1, Len(errors))
  <2>1. Len(late) \in Nat /\ Len(errors) \in Nat /\ Len(late) <= Len(errors)
    BY <1>1, <1>2 DEF Overdue
  <2>2. s \in Seq(Ids) /\ Len(s) = Len(late)
    BY <1>2, <2>1
  <2>3. \A k \in 1..Len(late) : s[k] = errors[Len(errors) - Len(late) + k]
    BY <1>2, <2>1
  <2>4. \A k \in 1..Len(late) : late[k] = s[k]
    BY <1>1, <2>3 DEF Overdue
  <2>5. QED
    BY <1>2, <2>2, <2>4, SeqEqual
<1>5. EveryIdIsAccounted'
  BY <1>1, <1>3, <1>4 DEF EveryIdIsAccounted, Count
<1>6. QED
  BY <1>1, <1>5 DEF LookupInv, LookupType

LEMMA CtxExpiresKeeps == ASSUME LookupInv, CtxExpires PROVE LookupInv'
<1>1. /\ pc \in {"matches", "match", "clubs", "lookup"} /\ ctxDone' = TRUE
      /\ UNCHANGED <<pc, ids, loaded, errors, asked, late, http>>
  BY DEF CtxExpires
<1>2. QED
  BY <1>1 DEF LookupInv, LookupType, Untouched, Rest, Overdue, Accounted, Count, Before

LEMMA ReturnKeeps == ASSUME LookupInv, Return PROVE LookupInv'
<1>1. /\ pc' = "idle" /\ http' = 0 /\ ids' = <<>> /\ ctxDone' = FALSE /\ loaded' = <<>>
      /\ errors' = <<>> /\ asked' = <<>> /\ late' = <<>>
  BY DEF Return
<1>2. QED
  BY <1>1, EmptySeq DEF LookupInv, LookupType, Untouched

\* The ids of a request, for any number of them, any clubs and limits, and any
\* order in which calls fail and the deadline passes.
THEOREM LookupInvariant == Spec => []LookupInv
<1>1. LookupInv /\ [Next]_vars => LookupInv'
  <2>1. SUFFICES ASSUME LookupInv, [Next]_vars PROVE LookupInv'
    OBVIOUS
  <2>2. CASE GetUpcomingMatches \/ LoadPage \/ GetClubs
    <3>1. UNCHANGED lookup
      BY <2>2 DEF GetUpcomingMatches, LoadPage, GetClubs
    <3>2. \/ pc = "idle" /\ pc' = "matches" /\ UNCHANGED http
          \/ pc \in {"idle", "matches"} /\ pc' = "answered" /\ http' # 200
          \/ pc \in {"idle", "matches"} /\ pc' = "clubs" /\ UNCHANGED http
      BY <2>2 DEF GetUpcomingMatches, LoadPage, GetClubs, Refuse, Answer
    <3>3. QED
      BY <2>1, <3>1, <3>2, PagingKeeps
  <2>3. CASE Upsert \/ TimePasses \/ UNCHANGED vars
    <3>1. UNCHANGED lookup /\ UNCHANGED <<pc, http>>
      BY <2>3 DEF Upsert, TimePasses, vars
    <3>2. QED
      BY <2>1, <3>1, PagingKeeps
  <2>4. QED
    BY <2>1, <2>2, <2>3, LookupBegins, LoadMatchKeeps, LoadClubsKeeps, LoadNextKeeps,
       AnswerListKeeps, CtxExpiresKeeps, ReturnKeeps DEF Next
<1>2. QED
  BY <1>1, InitLookup, PTL DEF Spec

\* Each id of a list is loaded or reported, and only those reached after the
\* deadline are lost to it; a single match is shown only if it was loaded.
THEOREM IdsAreAccounted == Spec => []EveryIdIsAccounted
<1>1. LookupInv => EveryIdIsAccounted
  BY DEF LookupInv, EveryIdIsAccounted
<1>2. QED
  BY <1>1, LookupInvariant, PTL
-----------------------------------------------------------------------------
(* Lists of matches. *)

\* Every set of numbers has a least one: what an induction over the places of a
\* list rests on here.
LEMMA LeastNumber ==
  ASSUME NEW T \in SUBSET Nat, T # {}
  PROVE  \E n \in T : \A m \in T : n <= m
<1> DEFINE R == StrictSubsetOrdering(Nat)
           I == {1..n : n \in T}
<1>1. IsWellFoundedOn(R, FiniteSubsetsOf(Nat))
  BY FS_StrictSubsetOrderingWellFounded
<1>2. I \subseteq FiniteSubsetsOf(Nat) /\ I # {}
  <2>1. \A n \in T : 1..n \in SUBSET Nat /\ IsFiniteSet(1..n)
    BY FS_Interval
  <2>2. QED
    BY <2>1 DEF FiniteSubsetsOf
<1> HIDE DEF R
<1>3. PICK x \in I : \A y \in I : <<y, x>> \notin R
  BY <1>1, <1>2, WFMin
<1>4. PICK n \in T : x = 1..n
  OBVIOUS
<1>5. ASSUME NEW m \in T, m < n PROVE FALSE
  <2>1. 1..m \in I /\ 1..m \subseteq 1..n /\ n \in 1..n /\ n \notin 1..m
    BY <1>5
  <2>2. <<1..m, 1..n>> \in R
    BY <2>1 DEF R, StrictSubsetOrdering
  <2>3. QED
    BY <1>3, <1>4, <2>1, <2>2
<1>6. QED
  BY <1>5

LEMMA FirstIs ==
  ASSUME NEW S, NEW q \in Seq(S), NEW n \in Nat \ {0}
  PROVE  /\ First(q, n) \in Seq(S)
         /\ Len(First(q, n)) = IF Len(q) > n THEN n ELSE Len(q)
         /\ \A k \in 1..Len(First(q, n)) : k \in 1..Len(q) /\ First(q, n)[k] = q[k]
<1>1. Len(q) \in Nat
  OBVIOUS
<1>2. QED
  BY <1>1 DEF First

\* A function of 1..n that takes no value twice takes all of n values.
LEMMA OneToOneIsOnto ==
  ASSUME NEW S, IsFiniteSet(S), NEW q \in [1..Cardinality(S) -> S],
         \A k, l \in 1..Cardinality(S) : k < l => q[k] # q[l]
  PROVE  \A s \in S : \E k \in 1..Cardinality(S) : q[k] = s
<1> DEFINE n == Cardinality(S)
<1>1. n \in Nat
  BY FS_CardinalityType
<1>2. \A k, l \in 1..n : q[k] = q[l] => k = l
  BY <1>1
<1>3. q \in Injection(1..n, S)
  BY <1>2 DEF Injection, IsInjective
<1>4. Cardinality(1..n) = n
  BY <1>1, FS_Interval
<1> HIDE DEF n
<1>5. q \in Surjection(1..n, S)
  BY <1>3, <1>4, FS_Injection DEF n
<1>6. QED
  BY <1>5 DEF Surjection, n

LEMMA OrderedIs ==
  ASSUME NEW S, IsFiniteSet(S), NEW q \in Ordered(S)
  PROVE  /\ q \in Seq(S) /\ Len(q) = Cardinality(S) /\ Len(q) \in Nat
         /\ \A s \in S : \E k \in 1..Len(q) : q[k] = s
         /\ \A k, l \in 1..Len(q) : k < l => q[k] # q[l] /\ db[q[k]].kickoff <= db[q[l]].kickoff
<1> DEFINE n == Cardinality(S)
<1>1. n \in Nat
  BY FS_CardinalityType
<1>2. /\ q \in [1..n -> S]
      /\ \A k, l \in 1..n : k < l => q[k] # q[l] /\ db[q[k]].kickoff <= db[q[l]].kickoff
  BY DEF Ordered
<1>3. \A s \in S : \E k \in 1..n : q[k] = s
  BY <1>2, OneToOneIsOnto
<1> HIDE DEF n
<1>4. q \in Seq(S) /\ Len(q) = n
  BY <1>1, <1>2
<1>5. QED
  BY <1>1, <1>2, <1>3, <1>4 DEF n

\* The only increasing list of the numbers up to n is theirs.
LEMMA IncreasingIsIdentity ==
  ASSUME NEW n \in Nat, NEW p \in [1..n -> 1..n], \A k, l \in 1..n : k < l => p[k] < p[l]
  PROVE  \A k \in 1..n : p[k] = k
<1>1. \A m \in 1..n : \E k \in 1..n : p[k] = m
  <2>1. IsFiniteSet(1..n) /\ Cardinality(1..n) = n
    BY FS_Interval
  <2>2. p \in [1..Cardinality(1..n) -> 1..n]
    BY <2>1
  <2>3. \A k, l \in 1..Cardinality(1..n) : k < l => p[k] # p[l]
    BY <2>1
  <2>4. \A m \in 1..n : \E k \in 1..Cardinality(1..n) : p[k] = m
    BY <2>1, <2>2, <2>3, OneToOneIsOnto
  <2>5. QED
    BY <2>1, <2>4
<1>2. SUFFICES ASSUME NEW i \in 1..n, p[i] # i PROVE FALSE
  OBVIOUS
<1> DEFINE T == {k \in 1..n : p[k] # k}
<1>3. PICK k \in T : \A m \in T : k <= m
  <2>1. T \in SUBSET Nat /\ T # {}
    BY <1>2
  <2> HIDE DEF T
  <2>2. QED
    BY <2>1, LeastNumber
<1>4. k \in 1..n /\ p[k] # k /\ \A j \in 1..n : j < k => p[j] = j
  BY <1>3
<1>5. PICK j \in 1..n : p[j] = k
  BY <1>1, <1>4
<1>6. k < j
  BY <1>4, <1>5
<1>7. p[k] < k
  BY <1>4, <1>5, <1>6
<1>8. p[k] \in 1..n /\ p[p[k]] = p[k]
  BY <1>4, <1>7
<1>9. p[p[k]] < p[k]
  BY <1>4, <1>7, <1>8
<1>10. QED
  BY <1>8, <1>9

\* The gateway's filter leaves a list of the club's matches as it is.
LEMMA FilterIsIdle ==
  ASSUME NEW S, NEW q \in Seq(S), NEW c, \A k \in 1..Len(q) : OfClub(db[q[k]], c),
         NEW f \in FilterByClub(q, c)
  PROVE  f = q
<1> DEFINE n == Len(q)
           kept == {k \in 1..n : OfClub(db[q[k]], c)}
<1>1. n \in Nat /\ kept = 1..n
  OBVIOUS
<1>2. Cardinality(kept) = n
  <2>1. PICK m \in Nat : m = n
    BY <1>1
  <2>2. Cardinality(1..m) = m
    BY FS_Interval
  <2>3. QED
    BY <1>1, <2>1, <2>2
<1>3. PICK p \in [1..Cardinality(kept) -> kept] :
        /\ \A k, l \in DOMAIN p : k < l => p[k] < p[l]
        /\ f = [k \in DOMAIN p |-> q[p[k]]]
  BY DEF FilterByClub
<1> HIDE DEF kept, n
<1>4. p \in [1..n -> 1..n] /\ DOMAIN p = 1..n /\ \A k, l \in 1..n : k < l => p[k] < p[l]
  BY <1>1, <1>2, <1>3
<1>5. \A k \in 1..n : p[k] = k
  BY <1>1, <1>4, IncreasingIsIdentity
<1>6. f = [k \in 1..n |-> q[k]]
  BY <1>3, <1>4, <1>5
<1>7. q = [k \in 1..n |-> q[k]]
  BY DEF n
<1>8. QED
  BY <1>6, <1>7
-----------------------------------------------------------------------------
(* A page of upcoming matches. *)

\* What EarliestOfTheClub says of a page.
Earliest ==
  /\ ToSet(page) \subseteq Wanted /\ IsInjective(page)
  /\ Len(page) = Min({limit, Cardinality(Wanted)})
  /\ \A k, l \in 1..Len(page) : k < l => Kickoff(page[k]) <= Kickoff(page[l])
  /\ \A i \in Wanted \ ToSet(page) : \A o \in ToSet(page) : Kickoff(o) <= Kickoff(i)

PageType ==
  /\ db \in [Ids -> Rows \cup {None}] /\ now \in 0..MaxNow /\ upserts \in 0..MaxUpserts
  /\ club \in Clubs \cup {None} /\ limit \in 0..PageMax
  /\ page \in Seq(Ids) /\ Len(page) <= limit
  /\ seen.db \in [Ids -> Rows \cup {None}]
  /\ http \in {0, 200, 400, 405, 502}

\* The inductive invariant: a limit is only set for a page, and the page is the
\* earliest of what the query saw from the read to the answer.
PageInv ==
  /\ PageType
  /\ pc \in {"idle", "match", "lookup"} => limit = 0
  /\ pc = "matches" => limit \in 1..PageMax
  /\ limit > 0 /\ (pc = "clubs" \/ (pc = "answered" /\ http = 200)) => Earliest

LEMMA MinOfTwo ==
  ASSUME NEW a \in Nat, NEW b \in Nat
  PROVE  Min({a, b}) = IF a > b THEN b ELSE a
BY DEF Min

LEMMA LimitsFit ==
  ASSUME NEW c \in Clubs \cup {None}
  PROVE  /\ \A raw \in Limits \cup {None} : ParseLimit(raw, c) \in 1..PageMax
         /\ \A l \in 1..PageMax : /\ AdapterLimit(FetchLimit(l, c)) \in Nat \ {0}
                                  /\ l <= AdapterLimit(FetchLimit(l, c))
<1>1. PageMax \in Nat
  BY LimitsAssumption
<1>2. \A raw \in Limits \cup {None} : ParseLimit(raw, c) \in 1..PageMax
  BY LimitsAssumption DEF ParseLimit
<1>3. ASSUME NEW l \in 1..PageMax
      PROVE  AdapterLimit(FetchLimit(l, c)) = FetchLimit(l, c) /\ FetchLimit(l, c) \in l..PageMax
  <2>1. FetchLimit(l, c) \in l..PageMax
    BY <1>1 DEF FetchLimit
  <2>2. QED
    BY <1>1, <2>1, LimitsAssumption DEF AdapterLimit
<1>4. QED
  BY <1>1, <1>2, <1>3

\* A page cut from what the query and the filter make of the table.
LEMMA PageIsEarliest ==
  ASSUME NEW c \in Clubs \cup {None}, NEW l \in 1..PageMax,
         db \in [Ids -> Rows \cup {None}],
         NEW q \in Query(FetchLimit(l, c), c), NEW f \in FilterByClub(q, c), NEW pg, pg = First(f, l),
         NEW S, S = {i \in Upcoming : OfClub(db[i], c)}
  PROVE  /\ pg \in Seq(Ids) /\ Len(pg) <= l
         /\ ToSet(pg) \subseteq S /\ IsInjective(pg)
         /\ Len(pg) = Min({l, Cardinality(S)})
         /\ \A k, m \in 1..Len(pg) : k < m => db[pg[k]].kickoff <= db[pg[m]].kickoff
         /\ \A i \in S \ ToSet(pg) : \A o \in ToSet(pg) : db[o].kickoff <= db[i].kickoff
<1> DEFINE L == AdapterLimit(FetchLimit(l, c))
<1>1. L \in Nat \ {0} /\ l <= L /\ l \in Nat \ {0}
  BY LimitsFit
<1>2. S \in SUBSET Ids /\ IsFiniteSet(S) /\ Cardinality(S) \in Nat
  <2>1. S \in SUBSET Ids
    BY DEF Upcoming
  <2>2. QED
    BY <2>1, SetsAssumption, FS_Subset, FS_CardinalityType
<1>3. PICK r \in Ordered(S) : q = First(r, L)
  BY DEF Query
<1>4. /\ r \in Seq(S) /\ Len(r) = Cardinality(S) /\ Len(r) \in Nat
      /\ \A s \in S : \E k \in 1..Len(r) : r[k] = s
      /\ \A k, m \in 1..Len(r) : k < m => r[k] # r[m] /\ db[r[k]].kickoff <= db[r[m]].kickoff
  BY <1>2, <1>3, OrderedIs
<1> HIDE DEF L
<1>5. /\ q \in Seq(S) /\ Len(q) = (IF Len(r) > L THEN L ELSE Len(r))
      /\ \A k \in 1..Len(q) : k \in 1..Len(r) /\ q[k] = r[k]
  BY <1>1, <1>3, <1>4, FirstIs
<1>6. \A k \in 1..Len(q) : q[k] \in S
  BY <1>5, ElementOfSeq
<1>7. f = q
  <2>1. \A k \in 1..Len(q) : OfClub(db[q[k]], c)
    BY <1>6
  <2>2. QED
    BY <1>5, <2>1, FilterIsIdle
<1>8. /\ pg \in Seq(S) /\ Len(pg) = (IF Len(q) > l THEN l ELSE Len(q))
      /\ \A k \in 1..Len(pg) : k \in 1..Len(q) /\ pg[k] = q[k]
  BY <1>1, <1>5, <1>7, FirstIs
<1>9. Len(pg) = (IF l > Len(r) THEN Len(r) ELSE l) /\ Len(pg) \in Nat
  BY <1>1, <1>4, <1>5, <1>8
<1>10. \A k \in 1..Len(pg) : k \in 1..Len(r) /\ pg[k] = r[k]
  BY <1>5, <1>8
<1>11. Len(pg) = Min({l, Cardinality(S)}) /\ Len(pg) <= l
  BY <1>1, <1>2, <1>4, <1>9, MinOfTwo
<1>12. DOMAIN pg = 1..Len(pg)
  BY <1>8
<1>13. ToSet(pg) \subseteq S /\ \A o \in ToSet(pg) : \E k \in 1..Len(pg) : o = pg[k]
  <2>1. \A k \in 1..Len(pg) : pg[k] \in S
    BY <1>8, ElementOfSeq
  <2>2. QED
    BY <1>12, <2>1 DEF ToSet
<1>14. IsInjective(pg)
  <2>1. ASSUME NEW k \in 1..Len(pg), NEW m \in 1..Len(pg), pg[k] = pg[m] PROVE k = m
    <3>1. k \in 1..Len(r) /\ m \in 1..Len(r) /\ r[k] = r[m]
      BY <1>10, <2>1
    <3>2. ~(k < m) /\ ~(m < k)
      BY <1>4, <3>1
    <3>3. QED
      BY <1>4, <3>1, <3>2
  <2>2. QED
    BY <1>12, <2>1 DEF IsInjective
<1>15. \A k, m \in 1..Len(pg) : k < m => db[pg[k]].kickoff <= db[pg[m]].kickoff
  BY <1>4, <1>10
<1>16. ASSUME NEW i \in S, i \notin ToSet(pg), NEW o \in ToSet(pg)
       PROVE  db[o].kickoff <= db[i].kickoff
  <2>1. PICK m \in 1..Len(r) : r[m] = i
    BY <1>4
  <2>2. PICK k \in 1..Len(pg) : o = pg[k]
    BY <1>13
  <2>3. m \notin 1..Len(pg)
    BY <1>10, <1>12, <1>16, <2>1 DEF ToSet
  <2>4. k < m /\ k \in 1..Len(r) /\ o = r[k]
    BY <1>4, <1>9, <1>10, <2>1, <2>2, <2>3
  <2>5. QED
    BY <1>4, <2>1, <2>4
<1>17. pg \in Seq(Ids)
  BY <1>2, <1>8
<1>18. QED
  BY <1>11, <1>13, <1>14, <1>15, <1>16, <1>17

LEMMA LoadPageKeeps == ASSUME LookupInv, PageInv, LoadPage PROVE PageInv'
<1>1. /\ pc = "matches" /\ limit \in 1..PageMax /\ club \in Clubs \cup {None}
      /\ UNCHANGED <<db, now, upserts, club, limit>> /\ http = 0
      /\ db \in [Ids -> Rows \cup {None}]
  BY DEF LoadPage, PageInv, PageType, world, LookupInv
<1>2. CASE pc' = "answered" /\ http' = 502 /\ UNCHANGED <<page, seen>>
  BY <1>1, <1>2 DEF PageInv, PageType
<1>3. CASE /\ \E q \in Query(FetchLimit(limit, club), club) :
                \E f \in FilterByClub(q, club) : page' = First(f, limit)
           /\ seen' = [db |-> db, now |-> now] /\ pc' = "clubs" /\ UNCHANGED http
  <2>1. PICK c, l, S, d : /\ c = club /\ l = limit /\ S = {i \in Upcoming : OfClub(db[i], c)}
                          /\ d = db
    OBVIOUS
  <2>2. PICK q \in Query(FetchLimit(l, c), c) : \E f \in FilterByClub(q, c) : page' = First(f, l)
    BY <1>3, <2>1
  <2>3. PICK f \in FilterByClub(q, c) : page' = First(f, l)
    BY <2>2
  <2>4. PICK pg : pg = page'
    OBVIOUS
  <2>5. /\ pg \in Seq(Ids) /\ Len(pg) <= l
        /\ ToSet(pg) \subseteq S /\ IsInjective(pg)
        /\ Len(pg) = Min({l, Cardinality(S)})
        /\ \A k, m \in 1..Len(pg) : k < m => d[pg[k]].kickoff <= d[pg[m]].kickoff
        /\ \A i \in S \ ToSet(pg) : \A o \in ToSet(pg) : d[o].kickoff <= d[i].kickoff
    <3>1. /\ c \in Clubs \cup {None} /\ l \in 1..PageMax /\ pg = First(f, l)
          /\ db \in [Ids -> Rows \cup {None}]
      BY <1>1, <2>1, <2>3, <2>4
    <3>2. S = {i \in Upcoming : OfClub(db[i], c)}
      BY <2>1
    <3>3. /\ pg \in Seq(Ids) /\ Len(pg) <= l
          /\ ToSet(pg) \subseteq S /\ IsInjective(pg)
          /\ Len(pg) = Min({l, Cardinality(S)})
          /\ \A k, m \in 1..Len(pg) : k < m => db[pg[k]].kickoff <= db[pg[m]].kickoff
          /\ \A i \in S \ ToSet(pg) : \A o \in ToSet(pg) : db[o].kickoff <= db[i].kickoff
      BY <2>2, <2>3, <3>1, <3>2, PageIsEarliest, Zenon
    <3>4. QED
      BY <2>1, <3>3
  <2>6. Wanted' = S /\ \A i : Kickoff(i)' = d[i].kickoff
    BY <1>1, <1>3, <2>1 DEF Wanted, Kickoff, Upcoming
  <2>7. Earliest'
    <3>1. page' = pg /\ limit' = l
      BY <1>1, <2>1, <2>4
    <3>2. (ToSet(page) \subseteq Wanted)' /\ IsInjective(page)'
      BY <2>5, <2>6, <3>1 DEF ToSet, IsInjective
    <3>3. (Len(page) = Min({limit, Cardinality(Wanted)}))'
      BY <2>5, <2>6, <3>1
    <3>4. (\A k, m \in 1..Len(page) : k < m => Kickoff(page[k]) <= Kickoff(page[m]))'
      BY <2>5, <2>6, <3>1
    <3>5. (\A i \in Wanted \ ToSet(page) : \A o \in ToSet(page) : Kickoff(o) <= Kickoff(i))'
      BY <2>5, <2>6, <3>1 DEF ToSet
    <3>6. QED
      BY <3>2, <3>3, <3>4, <3>5 DEF Earliest
  <2>8. PageType'
    BY <1>1, <1>3, <2>1, <2>4, <2>5 DEF PageInv, PageType
  <2>9. QED
    BY <1>1, <1>3, <2>7, <2>8 DEF PageInv
<1>4. QED
  BY <1>1, <1>2, <1>3 DEF LoadPage, Answer

\* Steps that leave the page alone.
LEMMA OtherStepsKeep ==
  ASSUME LookupInv, PageInv, UNCHANGED paging,
         db' \in [Ids -> Rows \cup {None}], now' \in 0..MaxNow, upserts' \in 0..MaxUpserts,
         http' \in {0, 200, 400, 405, 502},
         pc' \in {"idle", "match", "lookup"} => limit = 0,
         pc' = "matches" => pc = "matches",
         pc' = "clubs" => pc = "clubs" \/ limit = 0,
         pc' = "answered" /\ http' = 200 => \/ pc = "clubs" \/ limit = 0
                                            \/ pc = "answered" /\ http = 200
  PROVE  PageInv'
<1>1. club' = club /\ limit' = limit /\ page' = page /\ seen' = seen
  BY DEF paging
<1>2. Earliest' <=> Earliest
  BY <1>1 DEF Earliest, Wanted, Kickoff, ToSet, IsInjective
<1>3. PageType'
  BY <1>1 DEF PageInv, PageType
<1>4. QED
  BY <1>1, <1>2, <1>3 DEF PageInv

\* What every page holds, for any number of matches and clubs and any limits that
\* the adapter does not cut below the gateway's.
THEOREM PageInvariant == Spec => []PageInv
<1>1. Init => PageInv
  <2>1. SUFFICES ASSUME Init PROVE PageInv
    OBVIOUS
  <2>2. page \in Seq(Ids) /\ Len(page) = 0
    BY <2>1, EmptySeq DEF Init
  <2>3. 0 \in 0..PageMax /\ 0 \in 0..MaxNow /\ 0 \in 0..MaxUpserts
    BY LimitsAssumption, BoundsAssumption
  <2>4. QED
    BY <2>1, <2>2, <2>3 DEF Init, PageInv, PageType
<1>2. LookupInv /\ PageInv /\ [Next]_vars => PageInv'
  <2>1. SUFFICES ASSUME LookupInv, PageInv, [Next]_vars PROVE PageInv'
    OBVIOUS
  <2>2. /\ PageType /\ pc \in {"idle", "matches", "match", "clubs", "lookup", "answered"}
        /\ pc # "answered" => http = 0
        /\ pc \in {"idle", "match", "lookup"} => limit = 0
    BY <2>1 DEF PageInv, LookupInv, LookupType
  <2>3. CASE GetUpcomingMatches
    <3>1. pc = "idle" /\ UNCHANGED <<db, now, upserts, page, seen>> /\ limit = 0 /\ Len(page) = 0
      BY <2>2, <2>3 DEF GetUpcomingMatches, world, PageType
    <3>2. CASE Refuse /\ UNCHANGED <<club, limit>>
      BY <2>1, <2>2, <3>1, <3>2 DEF Refuse, Answer, PageInv, PageType
    <3>3. CASE \E c \in Clubs \cup {None}, raw \in Limits \cup {None} :
                 pc' = "matches" /\ club' = c /\ limit' = ParseLimit(raw, c) /\ UNCHANGED http
      <4>1. PICK c \in Clubs \cup {None}, raw \in Limits \cup {None} :
              pc' = "matches" /\ club' = c /\ limit' = ParseLimit(raw, c) /\ UNCHANGED http
        BY <3>3
      <4>2. limit' \in 1..PageMax
        BY <4>1, LimitsFit
      <4>3. PageType'
        BY <2>2, <3>1, <4>1, <4>2 DEF PageType
      <4>4. QED
        BY <4>1, <4>2, <4>3 DEF PageInv
    <3>4. QED
      BY <2>3, <3>2, <3>3 DEF GetUpcomingMatches
  <2>4. CASE LoadPage
    BY <2>1, <2>4, LoadPageKeeps
  <2>5. CASE LoadClubs \/ GetClubs
    <3>1. /\ UNCHANGED paging /\ UNCHANGED <<db, now, upserts>> /\ pc \in {"idle", "clubs"}
          /\ \/ pc' = "answered" /\ http' \in {200, 405, 502} /\ (http' = 200 => pc = "clubs")
             \/ pc' = "clubs" /\ pc = "idle" /\ UNCHANGED http
      BY <2>5 DEF LoadClubs, GetClubs, Answer, world
    <3>2. QED
      BY <2>1, <2>2, <3>1, OtherStepsKeep DEF PageType
  <2>6. CASE GetMatch \/ GetMatches \/ LoadMatch \/ LoadNext \/ AnswerList
    <3>1. /\ UNCHANGED paging /\ UNCHANGED <<db, now, upserts>> /\ pc \in {"idle", "match", "lookup"}
          /\ pc' \in {"match", "lookup", "clubs", "answered"}
          /\ http' \in {http, 200, 400, 405, 502}
      BY <2>6 DEF GetMatch, GetMatches, LoadMatch, LoadNext, AnswerList, Refuse, Answer, world
    <3>2. QED
      BY <2>1, <2>2, <3>1, OtherStepsKeep DEF PageType
  <2>7. CASE CtxExpires \/ UNCHANGED vars
    <3>1. UNCHANGED paging /\ UNCHANGED <<db, now, upserts, pc, http>>
      BY <2>7 DEF CtxExpires, vars, world
    <3>2. QED
      BY <2>1, <2>2, <3>1, OtherStepsKeep DEF PageType
  <2>8. CASE Upsert \/ TimePasses
    <3>1. UNCHANGED paging /\ UNCHANGED <<pc, http>>
      BY <2>8 DEF Upsert, TimePasses
    <3>2. db' \in [Ids -> Rows \cup {None}] /\ now' \in 0..MaxNow /\ upserts' \in 0..MaxUpserts
      BY <2>2, <2>8, BoundsAssumption DEF Upsert, TimePasses, PageType
    <3>3. QED
      BY <2>1, <2>2, <3>1, <3>2, OtherStepsKeep DEF PageType
  <2>9. CASE Return
    <3>1. /\ pc' = "idle" /\ http' = 0 /\ club' = None /\ limit' = 0 /\ page' = <<>>
          /\ seen' = [db |-> db, now |-> now] /\ UNCHANGED <<db, now, upserts>>
      BY <2>9 DEF Return, world
    <3>2. page' \in Seq(Ids) /\ Len(page') = 0 /\ 0 \in 0..PageMax
      BY <3>1, EmptySeq, LimitsAssumption
    <3>3. QED
      BY <2>2, <3>1, <3>2 DEF PageInv, PageType
  <2>10. QED
    BY <2>1, <2>3, <2>4, <2>5, <2>6, <2>7, <2>8, <2>9 DEF Next
<1>3. QED
  BY <1>1, <1>2, LookupInvariant, PTL DEF Spec

\* A page holds the earliest matches of the club, as many as asked for, for any
\* table, clubs and limits; none is lost to a limit that counts the matches of
\* other clubs too.
THEOREM PagesAreEarliest == Spec => []EarliestOfTheClub
<1>1. LookupInv /\ PageInv => EarliestOfTheClub
  <2>1. SUFFICES ASSUME LookupInv, PageInv PROVE EarliestOfTheClub
    OBVIOUS
  <2>2. TypeOK
    BY <2>1 DEF LookupInv, LookupType, PageInv, PageType, TypeOK
  <2>3. QED
    BY <2>1, <2>2 DEF EarliestOfTheClub, PageInv, Earliest
<1>2. QED
  BY <1>1, LookupInvariant, PageInvariant, PTL
=============================================================================
