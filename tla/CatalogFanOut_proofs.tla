------------------------ MODULE CatalogFanOut_proofs ------------------------
(***************************************************************************)
(* Proofs about CatalogFanOut for every page length and semaphore size.    *)
(***************************************************************************)
EXTENDS CatalogFanOut, FiniteSetTheorems, TLAPS

USE MaxItemsAssumption, MaxCallsAssumption

-----------------------------------------------------------------------------
(* Counting sets of items. *)

\* Sets of items are finite, and one more or one less item is one more or one
\* less in number.
LEMMA ItemSets ==
  /\ \A S \in SUBSET Items : IsFiniteSet(S) /\ Cardinality(S) \in Nat
  /\ \A S \in SUBSET Items : \A x : x \notin S =>
        Cardinality(S \cup {x}) = Cardinality(S) + 1
  /\ \A S \in SUBSET Items : \A x \in S :
        Cardinality(S \ {x}) = Cardinality(S) - 1
  /\ Cardinality({}) = 0
  /\ \A S \in SUBSET Items : Cardinality(S) = 0 => S = {}
<1>1. IsFiniteSet(Items)
  BY FS_Interval DEF Items
<1>2. \A S \in SUBSET Items : IsFiniteSet(S)
  BY <1>1, FS_Subset
<1>3. \A S \in SUBSET Items : Cardinality(S) \in Nat
  BY <1>2, FS_CardinalityType
<1>4. \A S \in SUBSET Items : \A x : x \notin S =>
        Cardinality(S \cup {x}) = Cardinality(S) + 1
  BY <1>2, FS_AddElement
<1>5. \A S \in SUBSET Items : \A x \in S :
        Cardinality(S \ {x}) = Cardinality(S) - 1
  BY <1>2, FS_RemoveElement
<1>6. QED
  BY <1>2, <1>3, <1>4, <1>5, FS_EmptySet

\* A set of listed items that misses one of them has fewer than n members.
LEMMA FewerThanListed ==
  ASSUME NEW k \in Nat, NEW S \in SUBSET (1..k), NEW x \in 1..k, x \notin S
  PROVE  Cardinality(S) < k
<1>1. IsFiniteSet(1..k) /\ Cardinality(1..k) = k
  BY FS_Interval
<1>2. S # 1..k
  OBVIOUS
<1>3. IsFiniteSet(S) /\ Cardinality(S) <= k /\ Cardinality(S) # k
  BY <1>1, <1>2, FS_Subset
<1>4. Cardinality(S) \in Nat
  BY <1>3, FS_CardinalityType
<1>5. QED
  BY <1>3, <1>4

-----------------------------------------------------------------------------
(* The invariant is inductive. *)

LEMMA InitInv == Init => FanOutInv
<1> SUFFICES ASSUME Init PROVE FanOutInv
  OBVIOUS
<1>1. TypeOK
  <2>1. next \in 1..(MaxItems + 1) /\ sem \in 0..MaxCalls /\ n \in 0..MaxItems
    BY MaxItemsAssumption, MaxCallsAssumption DEF Init
  <2>2. /\ g \in [Items -> GState] /\ result \in [Items -> Outcome]
        /\ items \in [Items -> Outcome \cup {"pending"}]
    BY DEF Init, Outcome, Failed, GState
  <2>3. /\ resultsCh \in Seq([index : Items, outcome : Outcome])
        /\ errors \in Seq(Items)
    BY DEF Init
  <2>4. QED
    BY <2>1, <2>2, <2>3 DEF Init, TypeOK, PC
<1>2. Holding = {} /\ Outstanding = {} /\ Buffered = {}
  BY DEF Init, Holding, Outstanding, Buffered, Items
<1>3. Counts
  BY <1>2, FS_EmptySet DEF Counts, Init
<1>4. ChannelHolds
  BY <1>2, FS_EmptySet DEF ChannelHolds, Init
<1>5. Launching
  BY DEF Launching, Init
<1>6. ClosesLast
  BY DEF ClosesLast, Quiet, Init, closed
<1>7. QED
  BY <1>1, <1>3, <1>4, <1>5, <1>6 DEF FanOutInv

\* Before the launch loop nothing has been started.
LEMMA ReceiveInv == FanOutInv /\ Receive => FanOutInv'
<1> SUFFICES ASSUME FanOutInv, Receive PROVE FanOutInv'
  OBVIOUS
<1> USE DEF FanOutInv, Receive, Answered, callVars, respVars
<1>1. TypeOK'
  BY DEF TypeOK, PC
<1>2. Counts'
  BY DEF Counts, Holding, Outstanding
<1>3. ChannelHolds'
  BY DEF ChannelHolds, Buffered
<1>4. Launching'
  BY DEF Launching
<1>5. ClosesLast'
  BY DEF ClosesLast, Quiet, closed, Outstanding
<1>6. QED
  BY <1>1, <1>2, <1>3, <1>4, <1>5

LEMMA LoadMatchesInv == FanOutInv /\ LoadMatches => FanOutInv'
<1> SUFFICES ASSUME FanOutInv, LoadMatches PROVE FanOutInv'
  OBVIOUS
<1>0. /\ Quiet /\ status = 0 /\ pc = "upcoming" /\ n = 0 /\ same = {}
      /\ UNCHANGED <<ctxDone, next, g, result, sem, wg, closer, resultsCh, items, errors>>
  BY DEF FanOutInv, ClosesLast, LoadMatches, callVars, respVars
<1>p. n' \in 0..MaxItems /\ same' \subseteq 1..n'
  BY <1>0 DEF LoadMatches
<1>q. \/ pc' = "clubs" /\ status' = 0
      \/ pc' = "answered" /\ status' = 502
  BY <1>0 DEF LoadMatches, Answered
<1>1. TypeOK'
  <2>1. \A x \in same' : x \in Items
    BY <1>p DEF Items
  <2>2. QED
    BY <1>0, <1>p, <1>q, <2>1 DEF FanOutInv, TypeOK, PC
<1>2. Counts'
  BY <1>0, <1>q DEF FanOutInv, Counts, Holding, Outstanding
<1>3. Buffered' = {} /\ Buffered = {}
  BY <1>0, <1>p DEF Buffered, Quiet, Items
<1>4. ChannelHolds'
  BY <1>0, <1>3 DEF FanOutInv, ChannelHolds, Quiet
<1>5. Launching'
  <2>1. next' = 1 /\ \A i \in Items : g'[i] = "none" /\ items'[i] = "pending"
    BY <1>0 DEF Quiet
  <2>2. 1 <= n' + 1
    <3>1. \A k \in Nat : 1 <= k + 1
      OBVIOUS
    <3>2. n' \in Nat
      BY <1>p
    <3>3. QED
      BY <3>1, <3>2
  <2>3. \A i \in Items : ~(i < 1)
    BY DEF Items
  <2>4. \A i \in Items : result'[i] # "same_airport"
    BY <1>0 DEF FanOutInv, Launching
  <2>5. QED
    BY <1>p, <2>1, <2>2, <2>3, <2>4 DEF Launching
<1>6. ClosesLast'
  <2>1. Quiet' /\ ~closed'
    BY <1>0 DEF Quiet, closed
  <2>2. QED
    BY <1>q, <2>1 DEF ClosesLast
<1>7. QED
  BY <1>1, <1>2, <1>4, <1>5, <1>6 DEF FanOutInv

LEMMA LoadClubsInv == FanOutInv /\ LoadClubs => FanOutInv'
<1> SUFFICES ASSUME FanOutInv, LoadClubs PROVE FanOutInv'
  OBVIOUS
<1> USE DEF FanOutInv, LoadClubs, Answered, callVars, respVars
<1>1. TypeOK'
  BY DEF TypeOK, PC
<1>2. Counts'
  BY DEF Counts, Holding, Outstanding
<1>3. ChannelHolds'
  <2>1. Buffered' = Buffered
    BY DEF Buffered
  <2>2. QED
    BY <2>1 DEF ChannelHolds
<1>4. Launching'
  BY DEF Launching
<1>5. ClosesLast'
  BY DEF ClosesLast, Quiet, closed, Outstanding
<1>6. QED
  BY <1>1, <1>2, <1>3, <1>4, <1>5

\* Appending the result of an item that is not buffered keeps the channel in
\* step with the set of buffered items.
LEMMA AppendResult ==
  ASSUME FanOutInv,
         NEW i \in Items, NEW o \in Outcome, o = "same_airport" <=> i \in same,
         resultsCh' = Append(resultsCh, [index |-> i, outcome |-> o]),
         i \notin Buffered, Buffered' = Buffered \cup {i}, same' = same
  PROVE  /\ ChannelHolds'
         /\ resultsCh' \in Seq([index : Items, outcome : Outcome])
<1> DEFINE r == [index |-> i, outcome |-> o]
<1>1. resultsCh \in Seq([index : Items, outcome : Outcome]) /\ ChannelHolds
  BY DEF FanOutInv, TypeOK
<1>2. r \in [index : Items, outcome : Outcome]
  OBVIOUS
<1>3. resultsCh' \in Seq([index : Items, outcome : Outcome])
  BY <1>1, <1>2
<1>4. Len(resultsCh') = Len(resultsCh) + 1 /\ Len(resultsCh) \in Nat
  BY <1>1, <1>2
<1>5. \A k \in 1..Len(resultsCh') :
        resultsCh'[k] = IF k \in 1..Len(resultsCh) THEN resultsCh[k] ELSE r
  BY <1>1, <1>2
<1>6. Buffered \in SUBSET Items
  BY DEF FanOutInv, TypeOK, Buffered, Items
<1>7. Len(resultsCh') = Cardinality(Buffered')
  <2>1. Cardinality(Buffered') = Cardinality(Buffered) + 1
    BY <1>6, ItemSets
  <2>2. QED
    BY <2>1, <1>1, <1>4 DEF ChannelHolds
<1>8. \A k \in 1..Len(resultsCh) :
        /\ resultsCh[k].index \in Buffered /\ resultsCh[k].index # i
        /\ resultsCh[k].outcome = "same_airport" <=> resultsCh[k].index \in same
  BY <1>1 DEF ChannelHolds
<1>9. \A k \in 1..Len(resultsCh') :
        /\ resultsCh'[k].index \in Buffered'
        /\ resultsCh'[k].outcome = "same_airport" <=> resultsCh'[k].index \in same'
  BY <1>5, <1>8
<1>10. ASSUME NEW k \in 1..Len(resultsCh'), NEW l \in 1..Len(resultsCh'),
              resultsCh'[k].index = resultsCh'[l].index
       PROVE  k = l
  <2>1. CASE k \in 1..Len(resultsCh) /\ l \in 1..Len(resultsCh)
    BY <2>1, <1>1, <1>5, <1>10 DEF ChannelHolds
  <2>2. CASE k \notin 1..Len(resultsCh) /\ l \notin 1..Len(resultsCh)
    BY <2>2, <1>4
  <2>3. CASE k \in 1..Len(resultsCh) /\ l \notin 1..Len(resultsCh)
    BY <2>3, <1>5, <1>8, <1>10
  <2>4. CASE k \notin 1..Len(resultsCh) /\ l \in 1..Len(resultsCh)
    BY <2>4, <1>5, <1>8, <1>10
  <2>5. QED
    BY <2>1, <2>2, <2>3, <2>4
<1>11. QED
  BY <1>3, <1>7, <1>9, <1>10 DEF ChannelHolds

\* The launch loop, item by item.
LEMMA LaunchSameAirportInv == FanOutInv /\ LaunchSameAirport => FanOutInv'
<1> SUFFICES ASSUME FanOutInv, LaunchSameAirport PROVE FanOutInv'
  OBVIOUS
<1>0. /\ pc = "launch" /\ next \in 1..n /\ next \in same /\ next \in Items
      /\ n \in Nat /\ n <= MaxItems
      /\ resultsCh' = Append(resultsCh, [index |-> next, outcome |-> "same_airport"])
      /\ next' = next + 1
      /\ UNCHANGED <<pc, status, ctxDone, n, same, g, result, sem, wg, closer, items, errors>>
  BY DEF FanOutInv, TypeOK, LaunchSameAirport, callVars, respVars, Items
<1>a. /\ \A i \in Items : g[i] # "none" <=> i < next /\ i \notin same
      /\ \A i \in Items : items[i] = "pending"
      /\ closer = "none"
  BY <1>0 DEF FanOutInv, Launching, ClosesLast
<1>b. next \notin Buffered /\ Buffered' = Buffered \cup {next}
  <2>1. next \notin Buffered
    BY <1>0, <1>a DEF Buffered
  <2>2. Buffered' = Buffered \cup {next}
    BY <1>0, <1>a DEF Buffered, Items
  <2>3. QED
    BY <2>1, <2>2
<1>1. ChannelHolds' /\ resultsCh' \in Seq([index : Items, outcome : Outcome])
  BY <1>0, <1>b, AppendResult DEF Outcome, Failed
<1>2. TypeOK'
  <2>1. next' \in 1..(MaxItems + 1)
    BY <1>0
  <2>2. QED
    BY <1>0, <1>1, <2>1 DEF FanOutInv, TypeOK
<1>3. Counts'
  BY <1>0 DEF FanOutInv, Counts, Holding, Outstanding
<1>4. Launching'
  <2>1. \A i \in Items : i < next + 1 <=> i < next \/ i = next
    BY <1>0 DEF Items
  <2>2. next + 1 <= n + 1
    BY <1>0
  <2>3. QED
    BY <1>0, <1>a, <2>1, <2>2 DEF FanOutInv, Launching
<1>5. ClosesLast'
  BY <1>0, <1>a DEF FanOutInv, ClosesLast, closed, Outstanding
<1>6. QED
  BY <1>1, <1>2, <1>3, <1>4, <1>5 DEF FanOutInv

LEMMA LaunchAddInv == FanOutInv /\ LaunchAdd => FanOutInv'
<1> SUFFICES ASSUME FanOutInv, LaunchAdd PROVE FanOutInv'
  OBVIOUS
<1>0. /\ pc = "launch" /\ next <= n /\ next \notin same
      /\ wg' = wg + 1 /\ pc' = "acquire"
      /\ UNCHANGED <<status, ctxDone, n, same, next, g, result, sem, closer,
                     resultsCh, items, errors>>
  BY DEF LaunchAdd, respVars
<1>1. TypeOK'
  BY <1>0 DEF FanOutInv, TypeOK, PC
<1>2. Counts'
  BY <1>0, ItemSets DEF FanOutInv, Counts, Holding, Outstanding
<1>3. ChannelHolds'
  <2>1. Buffered' = Buffered
    BY <1>0 DEF Buffered
  <2>2. QED
    BY <1>0, <2>1 DEF FanOutInv, ChannelHolds
<1>4. Launching'
  BY <1>0 DEF FanOutInv, Launching
<1>5. ClosesLast'
  BY <1>0 DEF FanOutInv, ClosesLast, closed, Outstanding
<1>6. QED
  BY <1>1, <1>2, <1>3, <1>4, <1>5 DEF FanOutInv

LEMMA LaunchGoInv == FanOutInv /\ LaunchGo => FanOutInv'
<1> SUFFICES ASSUME FanOutInv, LaunchGo PROVE FanOutInv'
  OBVIOUS
<1>0. /\ pc = "acquire" /\ sem < MaxCalls /\ sem \in Nat
      /\ sem' = sem + 1 /\ g' = [g EXCEPT ![next] = "calling"]
      /\ next' = next + 1 /\ pc' = "launch"
      /\ UNCHANGED <<status, ctxDone, n, same, result, wg, closer, resultsCh, items, errors>>
      /\ next \in 1..n /\ next \in Items /\ next \notin same /\ n \in Nat /\ n <= MaxItems
      /\ g \in [Items -> GState]
  BY DEF FanOutInv, TypeOK, ClosesLast, LaunchGo, respVars, Items
<1>a. /\ g[next] = "none" /\ closer = "none"
      /\ \A i \in Items : items[i] = "pending"
  BY <1>0 DEF FanOutInv, Launching, ClosesLast
<1>g. \A i \in Items : g'[i] = IF i = next THEN "calling" ELSE g[i]
  BY <1>0
<1>1. TypeOK'
  <2>1. next' \in 1..(MaxItems + 1) /\ sem' \in 0..MaxCalls
    BY <1>0
  <2>2. g' \in [Items -> GState]
    BY <1>0 DEF GState
  <2>3. QED
    BY <1>0, <2>1, <2>2 DEF FanOutInv, TypeOK, PC
<1>2. Counts'
  <2>1. /\ Holding' = Holding \cup {next} /\ next \notin Holding
        /\ Outstanding' = Outstanding \cup {next} /\ next \notin Outstanding
    BY <1>0, <1>a, <1>g DEF Holding, Outstanding
  <2>2. /\ Cardinality(Holding') = Cardinality(Holding) + 1
        /\ Cardinality(Outstanding') = Cardinality(Outstanding) + 1
    <3>1. Holding \in SUBSET Items /\ Outstanding \in SUBSET Items
      BY DEF Holding, Outstanding
    <3>2. QED
      BY <2>1, <3>1, ItemSets
  <2>3. Cardinality(Outstanding) \in Nat
    BY ItemSets DEF Outstanding
  <2>4. QED
    BY <1>0, <2>2, <2>3 DEF FanOutInv, Counts
<1>3. ChannelHolds'
  <2>1. Buffered' = Buffered
    BY <1>0, <1>a, <1>g DEF Buffered, Items
  <2>2. QED
    BY <1>0, <2>1 DEF FanOutInv, ChannelHolds
<1>4. Launching'
  <2>1. \A i \in Items : i < next + 1 <=> i < next \/ i = next
    BY <1>0 DEF Items
  <2>2. next + 1 <= n + 1
    BY <1>0
  <2>3. QED
    BY <1>0, <1>a, <1>g, <2>1, <2>2 DEF FanOutInv, Launching
<1>5. ClosesLast'
  BY <1>0, <1>a DEF FanOutInv, ClosesLast, closed
<1>6. QED
  BY <1>1, <1>2, <1>3, <1>4, <1>5 DEF FanOutInv

LEMMA LaunchEndInv == FanOutInv /\ LaunchEnd => FanOutInv'
<1> SUFFICES ASSUME FanOutInv, LaunchEnd PROVE FanOutInv'
  OBVIOUS
<1>0. /\ pc = "launch" /\ next = n + 1
      /\ closer' = "waiting" /\ pc' = "collect"
      /\ UNCHANGED <<status, ctxDone, n, same, next, g, result, sem, wg, resultsCh,
                     items, errors>>
  BY DEF FanOutInv, TypeOK, Launching, LaunchEnd, respVars
<1>1. TypeOK'
  BY <1>0 DEF FanOutInv, TypeOK, PC
<1>2. Counts'
  BY <1>0 DEF FanOutInv, Counts, Holding, Outstanding
<1>3. ChannelHolds'
  <2>1. Buffered' = Buffered
    BY <1>0 DEF Buffered
  <2>2. QED
    BY <1>0, <2>1 DEF FanOutInv, ChannelHolds
<1>4. Launching'
  BY <1>0 DEF FanOutInv, Launching
<1>5. ClosesLast'
  BY <1>0 DEF FanOutInv, ClosesLast, closed
<1>6. QED
  BY <1>1, <1>2, <1>3, <1>4, <1>5 DEF FanOutInv

\* The goroutine of one item.
LEMMA CallReturnsInv == ASSUME FanOutInv, NEW i \in Items, CallReturns(i) PROVE FanOutInv'
<1>0. /\ g[i] = "calling" /\ g' = [g EXCEPT ![i] = "sending"]
      /\ \E o \in {"priced", "no_offers", "call_failed"} : result' = [result EXCEPT ![i] = o]
      /\ UNCHANGED <<pc, status, ctxDone, n, same, next, sem, wg, closer, resultsCh, items, errors>>
      /\ g \in [Items -> GState] /\ result \in [Items -> Outcome]
  BY DEF FanOutInv, TypeOK, CallReturns, reqVars, respVars
<1>g. \A j \in Items : g'[j] = IF j = i THEN "sending" ELSE g[j]
  BY <1>0
<1>1. TypeOK'
  <2>1. g' \in [Items -> GState] /\ result' \in [Items -> Outcome]
    BY <1>0 DEF GState, Outcome, Failed
  <2>2. QED
    BY <1>0, <2>1 DEF FanOutInv, TypeOK
<1>2. Counts'
  <2>1. Holding' = Holding /\ Outstanding' = Outstanding
    BY <1>0, <1>g DEF Holding, Outstanding
  <2>2. QED
    BY <1>0, <2>1 DEF FanOutInv, Counts
<1>3. ChannelHolds'
  <2>1. \A j \in 1..n : j \in Items
    BY DEF FanOutInv, TypeOK, Items
  <2>2. Buffered' = Buffered
    BY <1>0, <1>g, <2>1 DEF Buffered
  <2>3. QED
    BY <1>0, <2>2 DEF FanOutInv, ChannelHolds
<1>4. Launching'
  <2>1. \A j \in Items : result'[j] # "same_airport"
    BY <1>0 DEF FanOutInv, Launching
  <2>2. QED
    BY <1>0, <1>g, <2>1 DEF FanOutInv, Launching
<1>5. ClosesLast'
  BY <1>0, <1>g DEF FanOutInv, ClosesLast, Quiet, closed, Outstanding
<1>6. QED
  BY <1>1, <1>2, <1>3, <1>4, <1>5 DEF FanOutInv

LEMMA SendResultInv == ASSUME FanOutInv, NEW i \in Items, SendResult(i) PROVE FanOutInv'
<1>0. /\ g[i] = "sending" /\ g' = [g EXCEPT ![i] = "releasing"]
      /\ resultsCh' = Append(resultsCh, [index |-> i, outcome |-> result[i]])
      /\ UNCHANGED <<pc, status, ctxDone, n, same, next, result, sem, wg, closer, items, errors>>
      /\ g \in [Items -> GState] /\ result[i] \in Outcome /\ n \in Nat
  BY DEF FanOutInv, TypeOK, SendResult, reqVars, respVars
<1>g. \A j \in Items : g'[j] = IF j = i THEN "releasing" ELSE g[j]
  BY <1>0
<1>a. i \in 1..n /\ i \notin same /\ items[i] = "pending" /\ result[i] # "same_airport"
  <2>1. i < next /\ i \notin same /\ next <= n + 1 /\ next \in Nat
    BY <1>0 DEF FanOutInv, TypeOK, Launching
  <2>2. QED
    BY <1>0, <2>1 DEF FanOutInv, Launching, Items
<1>b. i \notin Buffered /\ Buffered' = Buffered \cup {i}
  <2>1. \A j \in 1..n : j \in Items
    BY DEF FanOutInv, TypeOK, Items
  <2>2. i \notin Buffered
    BY <1>0, <1>a DEF Buffered
  <2>3. Buffered' = Buffered \cup {i}
    BY <1>0, <1>a, <1>g, <2>1 DEF Buffered
  <2>4. QED
    BY <2>2, <2>3
<1>1. ChannelHolds' /\ resultsCh' \in Seq([index : Items, outcome : Outcome])
  BY <1>0, <1>a, <1>b, AppendResult
<1>2. TypeOK'
  <2>1. g' \in [Items -> GState]
    BY <1>0 DEF GState
  <2>2. QED
    BY <1>0, <1>1, <2>1 DEF FanOutInv, TypeOK
<1>3. Counts'
  <2>1. Holding' = Holding /\ Outstanding' = Outstanding
    BY <1>0, <1>g DEF Holding, Outstanding
  <2>2. QED
    BY <1>0, <2>1 DEF FanOutInv, Counts
<1>4. Launching'
  BY <1>0, <1>g DEF FanOutInv, Launching
<1>5. ClosesLast'
  BY <1>0, <1>g DEF FanOutInv, ClosesLast, Quiet, closed, Outstanding
<1>6. QED
  BY <1>1, <1>2, <1>3, <1>4, <1>5 DEF FanOutInv

LEMMA ReleaseTokenInv == ASSUME FanOutInv, NEW i \in Items, ReleaseToken(i) PROVE FanOutInv'
<1>0. /\ g[i] = "releasing" /\ g' = [g EXCEPT ![i] = "finishing"]
      /\ sem \in 1..MaxCalls /\ sem' = sem - 1
      /\ UNCHANGED <<pc, status, ctxDone, n, same, next, result, wg, closer, resultsCh, items, errors>>
      /\ g \in [Items -> GState]
  BY DEF FanOutInv, TypeOK, ReleaseToken, reqVars, respVars
<1>g. \A j \in Items : g'[j] = IF j = i THEN "finishing" ELSE g[j]
  BY <1>0
<1>1. TypeOK'
  <2>1. g' \in [Items -> GState] /\ sem' \in 0..MaxCalls
    BY <1>0 DEF GState
  <2>2. QED
    BY <1>0, <2>1 DEF FanOutInv, TypeOK
<1>2. Counts'
  <2>1. Holding' = Holding \ {i} /\ i \in Holding /\ Outstanding' = Outstanding
    BY <1>0, <1>g DEF Holding, Outstanding
  <2>2. Cardinality(Holding') = Cardinality(Holding) - 1
    <3>1. Holding \in SUBSET Items
      BY DEF Holding
    <3>2. QED
      BY <2>1, <3>1, ItemSets
  <2>3. QED
    BY <1>0, <2>1, <2>2 DEF FanOutInv, Counts
<1>3. ChannelHolds'
  <2>1. \A j \in 1..n : j \in Items
    BY DEF FanOutInv, TypeOK, Items
  <2>2. Buffered' = Buffered
    BY <1>0, <1>g, <2>1 DEF Buffered
  <2>3. QED
    BY <1>0, <2>2 DEF FanOutInv, ChannelHolds
<1>4. Launching'
  BY <1>0, <1>g DEF FanOutInv, Launching
<1>5. ClosesLast'
  BY <1>0, <1>g DEF FanOutInv, ClosesLast, Quiet, closed, Outstanding
<1>6. QED
  BY <1>1, <1>2, <1>3, <1>4, <1>5 DEF FanOutInv

LEMMA WaitGroupDoneInv == ASSUME FanOutInv, NEW i \in Items, WaitGroupDone(i) PROVE FanOutInv'
<1>0. /\ g[i] = "finishing" /\ g' = [g EXCEPT ![i] = "exited"]
      /\ wg' = wg - 1 /\ wg \in Nat
      /\ UNCHANGED <<pc, status, ctxDone, n, same, next, result, sem, closer, resultsCh, items, errors>>
      /\ g \in [Items -> GState]
  BY DEF FanOutInv, TypeOK, WaitGroupDone, reqVars, respVars
<1>g. \A j \in Items : g'[j] = IF j = i THEN "exited" ELSE g[j]
  BY <1>0
<1>a. /\ Cardinality(Outstanding') = Cardinality(Outstanding) - 1
      /\ Outstanding' = Outstanding \ {i}
      /\ Holding' = Holding
      /\ Cardinality(Outstanding') \in Nat /\ Cardinality(Outstanding) \in Nat
  <2>1. Holding' = Holding /\ Outstanding' = Outstanding \ {i} /\ i \in Outstanding
    BY <1>0, <1>g DEF Holding, Outstanding
  <2>2. Outstanding \in SUBSET Items /\ Outstanding' \in SUBSET Items
    BY <2>1 DEF Outstanding
  <2>3. QED
    BY <2>1, <2>2, ItemSets
<1>1. Counts' /\ wg' \in Nat
  BY <1>0, <1>a DEF FanOutInv, Counts
<1>2. TypeOK'
  <2>1. g' \in [Items -> GState]
    BY <1>0 DEF GState
  <2>2. QED
    BY <1>0, <1>1, <2>1 DEF FanOutInv, TypeOK
<1>3. ChannelHolds'
  <2>1. \A j \in 1..n : j \in Items
    BY DEF FanOutInv, TypeOK, Items
  <2>2. Buffered' = Buffered
    BY <1>0, <1>g, <2>1 DEF Buffered
  <2>3. QED
    BY <1>0, <2>2 DEF FanOutInv, ChannelHolds
<1>4. Launching'
  BY <1>0, <1>g DEF FanOutInv, Launching
<1>5. ClosesLast'
  BY <1>0, <1>g DEF FanOutInv, ClosesLast, Quiet, closed, Outstanding
<1>6. QED
  BY <1>1, <1>2, <1>3, <1>4, <1>5 DEF FanOutInv

LEMMA CloseResultsInv == FanOutInv /\ CloseResults => FanOutInv'
<1> SUFFICES ASSUME FanOutInv, CloseResults PROVE FanOutInv'
  OBVIOUS
<1>0. /\ closer = "waiting" /\ wg = 0 /\ closer' = "exited"
      /\ UNCHANGED <<pc, status, ctxDone, n, same, next, g, result, sem, wg,
                     resultsCh, items, errors>>
  BY DEF CloseResults, reqVars, respVars
<1>a. Outstanding = {}
  <2>1. Outstanding \in SUBSET Items
    BY DEF Outstanding
  <2>2. Cardinality(Outstanding) = 0
    BY <1>0, <2>1, ItemSets DEF FanOutInv, Counts
  <2>3. QED
    BY <2>1, <2>2, ItemSets
<1>1. TypeOK'
  BY <1>0 DEF FanOutInv, TypeOK
<1>2. Counts'
  BY <1>0 DEF FanOutInv, Counts, Holding, Outstanding
<1>3. ChannelHolds'
  <2>1. Buffered' = Buffered
    BY <1>0 DEF Buffered
  <2>2. QED
    BY <1>0, <2>1 DEF FanOutInv, ChannelHolds
<1>4. Launching'
  BY <1>0 DEF FanOutInv, Launching
<1>5. ClosesLast'
  BY <1>0, <1>a DEF FanOutInv, ClosesLast, Quiet, closed, Outstanding
<1>6. QED
  BY <1>1, <1>2, <1>3, <1>4, <1>5 DEF FanOutInv

\* The reader of the channel.
LEMMA CollectInv == FanOutInv /\ Collect => FanOutInv'
<1> SUFFICES ASSUME FanOutInv, Collect PROVE FanOutInv'
  OBVIOUS
<1> DEFINE r == Head(resultsCh)
<1>0. /\ pc = "collect" /\ resultsCh # <<>>
      /\ items' = [items EXCEPT ![r.index] = r.outcome]
      /\ errors' = IF r.outcome \in Failed THEN Append(errors, r.index) ELSE errors
      /\ resultsCh' = Tail(resultsCh)
      /\ UNCHANGED <<pc, status, ctxDone, n, same, next, g, result, sem, wg, closer>>
      /\ resultsCh \in Seq([index : Items, outcome : Outcome])
      /\ items \in [Items -> Outcome \cup {"pending"}]
      /\ errors \in Seq(Items)
  BY DEF FanOutInv, TypeOK, Collect, reqVars, callVars
<1>1. /\ r = resultsCh[1] /\ r \in [index : Items, outcome : Outcome]
      /\ Len(resultsCh) \in Nat \ {0}
      /\ Len(resultsCh') = Len(resultsCh) - 1
      /\ resultsCh' \in Seq([index : Items, outcome : Outcome])
      /\ \A k \in 1..Len(resultsCh') : k + 1 \in 1..Len(resultsCh) /\ resultsCh'[k] = resultsCh[k + 1]
  <2>1. Len(resultsCh) \in Nat \ {0} /\ r = resultsCh[1]
    BY <1>0
  <2>2. r \in [index : Items, outcome : Outcome]
    <3>1. ASSUME NEW T, NEW q \in Seq(T), Len(q) \in Nat \ {0} PROVE q[1] \in T
      BY <3>1
    <3>2. resultsCh \in Seq([index : Items, outcome : Outcome])
      BY <1>0
    <3>3. resultsCh[1] \in [index : Items, outcome : Outcome]
      BY <2>1, <3>1, <3>2
    <3>4. QED
      BY <2>1, <3>3
  <2>3. Len(resultsCh') = Len(resultsCh) - 1
    BY <1>0
  <2>4. resultsCh' \in Seq([index : Items, outcome : Outcome])
    BY <1>0
  <2>5. ASSUME NEW k \in 1..Len(resultsCh')
        PROVE  k + 1 \in 1..Len(resultsCh) /\ resultsCh'[k] = resultsCh[k + 1]
    BY <1>0, <2>1, <2>3
  <2>6. QED
    BY <2>1, <2>2, <2>3, <2>4, <2>5
<1>2. r.index \in Items /\ r.outcome \in Outcome /\ r.outcome # "pending"
  BY <1>1 DEF Outcome, Failed
<1>3. \A i \in Items : items'[i] = IF i = r.index THEN r.outcome ELSE items[i]
  BY <1>0, <1>2
<1>4. /\ r.index \in Buffered
      /\ Len(resultsCh) = Cardinality(Buffered)
      /\ \A k \in 1..Len(resultsCh) :
            /\ resultsCh[k].index \in Buffered
            /\ resultsCh[k].outcome = "same_airport" <=> resultsCh[k].index \in same
      /\ \A k, l \in 1..Len(resultsCh) :
            resultsCh[k].index = resultsCh[l].index => k = l
  BY <1>1 DEF FanOutInv, ChannelHolds
<1>5. Buffered' = Buffered \ {r.index}
  <2>1. \A j \in 1..n : j \in Items
    BY DEF FanOutInv, TypeOK, Items
  <2>2. QED
    BY <1>0, <1>2, <1>3, <1>4, <2>1 DEF Buffered
<1>6. TypeOK'
  <2>1. items' \in [Items -> Outcome \cup {"pending"}]
    BY <1>0, <1>2
  <2>2. errors' \in Seq(Items)
    BY <1>0, <1>2
  <2>3. QED
    BY <1>0, <1>1, <2>1, <2>2 DEF FanOutInv, TypeOK
<1>7. Counts'
  BY <1>0 DEF FanOutInv, Counts, Holding, Outstanding
<1>8. ChannelHolds'
  <2>1. Cardinality(Buffered') = Cardinality(Buffered) - 1
    <3>1. Buffered \in SUBSET Items
      BY DEF FanOutInv, TypeOK, Buffered, Items
    <3>2. QED
      BY <1>4, <1>5, <3>1, ItemSets
  <2>2. Len(resultsCh') = Cardinality(Buffered')
    BY <1>1, <1>4, <2>1
  <2>3. ASSUME NEW k \in 1..Len(resultsCh')
        PROVE  /\ resultsCh'[k].index \in Buffered'
               /\ resultsCh'[k].outcome = "same_airport" <=> resultsCh'[k].index \in same'
    <3>1. k + 1 \in 1..Len(resultsCh) /\ resultsCh'[k] = resultsCh[k + 1] /\ k + 1 # 1
      BY <1>1
    <3>2. 1 \in 1..Len(resultsCh)
      BY <1>1
    <3>3. resultsCh[k + 1].index # r.index
      BY <1>1, <1>4, <3>1, <3>2
    <3>4. QED
      BY <1>0, <1>4, <1>5, <3>1, <3>3
  <2>4. ASSUME NEW k \in 1..Len(resultsCh'), NEW l \in 1..Len(resultsCh'),
               resultsCh'[k].index = resultsCh'[l].index
        PROVE  k = l
    <3>1. /\ k + 1 \in 1..Len(resultsCh) /\ resultsCh'[k] = resultsCh[k + 1]
          /\ l + 1 \in 1..Len(resultsCh) /\ resultsCh'[l] = resultsCh[l + 1]
      BY <1>1
    <3>2. k + 1 = l + 1
      BY <1>4, <2>4, <3>1
    <3>3. QED
      BY <3>2
  <2>5. QED
    BY <2>2, <2>3, <2>4 DEF ChannelHolds
<1>9. Launching'
  <2>1. r.index \in same \/ g[r.index] \in {"releasing", "finishing", "exited"}
    BY <1>4 DEF Buffered
  <2>2. QED
    BY <1>0, <1>2, <1>3, <2>1 DEF FanOutInv, Launching
<1>10. ClosesLast'
  BY <1>0 DEF FanOutInv, ClosesLast, closed, Outstanding
<1>11. QED
  BY <1>6, <1>7, <1>8, <1>9, <1>10 DEF FanOutInv

LEMMA RespondInv == FanOutInv /\ Respond => FanOutInv'
<1> SUFFICES ASSUME FanOutInv, Respond PROVE FanOutInv'
  OBVIOUS
<1>0. /\ pc = "collect" /\ resultsCh = <<>> /\ closed
      /\ pc' = "answered" /\ status' = 200
      /\ UNCHANGED <<ctxDone, n, same, next, g, result, sem, wg, closer, resultsCh, items, errors>>
  BY DEF Respond, Answered, callVars, respVars
<1>1. TypeOK'
  BY <1>0 DEF FanOutInv, TypeOK, PC
<1>2. Counts'
  BY <1>0 DEF FanOutInv, Counts, Holding, Outstanding
<1>3. ChannelHolds'
  <2>1. Buffered' = Buffered
    BY <1>0 DEF Buffered
  <2>2. QED
    BY <1>0, <2>1 DEF FanOutInv, ChannelHolds
<1>4. Launching'
  BY <1>0 DEF FanOutInv, Launching
<1>5. ClosesLast'
  BY <1>0 DEF FanOutInv, ClosesLast, closed, Outstanding
<1>6. QED
  BY <1>1, <1>2, <1>3, <1>4, <1>5 DEF FanOutInv

LEMMA CtxExpiresInv == FanOutInv /\ CtxExpires => FanOutInv'
<1> SUFFICES ASSUME FanOutInv, CtxExpires PROVE FanOutInv'
  OBVIOUS
<1>0. /\ ctxDone' = TRUE
      /\ UNCHANGED <<pc, status, n, same, next, g, result, sem, wg, closer, resultsCh, items, errors>>
  BY DEF CtxExpires, callVars, respVars
<1>1. TypeOK'
  BY <1>0 DEF FanOutInv, TypeOK
<1>2. Counts' /\ Launching'
  BY <1>0 DEF FanOutInv, Counts, Launching, Holding, Outstanding
<1>3. ChannelHolds'
  <2>1. Buffered' = Buffered
    BY <1>0 DEF Buffered
  <2>2. QED
    BY <1>0, <2>1 DEF FanOutInv, ChannelHolds
<1>4. ClosesLast'
  BY <1>0 DEF FanOutInv, ClosesLast, Quiet, closed, Outstanding
<1>5. QED
  BY <1>1, <1>2, <1>3, <1>4 DEF FanOutInv

LEMMA ReturnInv == Return => Init'
BY DEF Return, Init

LEMMA StutterInv == FanOutInv /\ UNCHANGED vars => FanOutInv'
<1> SUFFICES ASSUME FanOutInv, UNCHANGED vars PROVE FanOutInv'
  OBVIOUS
<1>0. UNCHANGED <<pc, status, ctxDone, n, same, next, g, result, sem, wg, closer,
                  resultsCh, items, errors>>
  BY DEF vars, reqVars, callVars, respVars
<1>1. Buffered' = Buffered
  BY <1>0 DEF Buffered
<1>2. QED
  BY <1>0, <1>1 DEF FanOutInv, TypeOK, Counts, ChannelHolds, Launching, ClosesLast,
                    Quiet, closed, Holding, Outstanding

LEMMA NextInv == FanOutInv /\ [Next]_vars => FanOutInv'
<1> SUFFICES ASSUME FanOutInv, [Next]_vars PROVE FanOutInv'
  OBVIOUS
<1>1. CASE Receive
  BY <1>1, ReceiveInv
<1>2. CASE Handler
  BY <1>2, LoadMatchesInv, LoadClubsInv, LaunchSameAirportInv, LaunchAddInv,
     LaunchGoInv, LaunchEndInv, CollectInv, RespondInv DEF Handler
<1>3. CASE CloseResults
  BY <1>3, CloseResultsInv
<1>4. CASE CtxExpires
  BY <1>4, CtxExpiresInv
<1>5. CASE Return
  <2>1. Init'
    BY <1>5, ReturnInv
  <2>2. Init' => FanOutInv'
    BY InitInv, PTL
  <2>3. QED
    BY <2>1, <2>2
<1>6. ASSUME NEW i \in Items, Caller(i) PROVE FanOutInv'
  BY <1>6, CallReturnsInv, SendResultInv, ReleaseTokenInv, WaitGroupDoneInv DEF Caller
<1>7. CASE UNCHANGED vars
  BY <1>7, StutterInv
<1>8. QED
  BY <1>1, <1>2, <1>3, <1>4, <1>5, <1>6, <1>7 DEF Next

-----------------------------------------------------------------------------
(* What the invariant gives. *)

\* The counters, the channel and the goroutines stay in step for every page
\* length and every semaphore size.
THEOREM FanOutInvariant == Spec => []FanOutInv
BY InitInv, NextInv, PTL DEF Spec

\* Every variable of the handler keeps its type: in particular the WaitGroup's
\* counter is never negative and the semaphore never holds more than MaxCalls.
THEOREM TypeCorrect == Spec => []TypeOK
<1>1. FanOutInv => TypeOK
  BY DEF FanOutInv
<1>2. QED
  BY <1>1, FanOutInvariant, PTL

\* At most MaxCalls requests to the airfare provider are in flight.
THEOREM CallsAreBounded == Spec => []BoundedCalls
<1>1. FanOutInv => BoundedCalls
  <2> SUFFICES ASSUME FanOutInv PROVE BoundedCalls
    OBVIOUS
  <2>1. Calling \in SUBSET Holding /\ Holding \in SUBSET Items
    BY DEF Calling, Holding
  <2>2. Cardinality(Calling) <= Cardinality(Holding)
    BY <2>1, ItemSets, FS_Subset
  <2>3. Cardinality(Calling) \in Nat /\ Cardinality(Holding) \in Nat
    BY <2>1, ItemSets
  <2>4. Cardinality(Holding) <= MaxCalls
    BY MaxCallsAssumption DEF FanOutInv, Counts, TypeOK
  <2>5. QED
    BY <2>2, <2>3, <2>4, MaxCallsAssumption DEF BoundedCalls
<1>2. QED
  BY <1>1, FanOutInvariant, PTL

\* close(resultsCh) never overtakes a send.
THEOREM ClosedAfterSends == Spec => []NoSendOnClosed
<1>1. FanOutInv => NoSendOnClosed
  BY DEF FanOutInv, ClosesLast, Outstanding, NoSendOnClosed
<1>2. QED
  BY <1>1, FanOutInvariant, PTL

\* A channel of len(matches) slots never makes a sender wait.
THEOREM ChannelIsLargeEnough == Spec => []SendsNeverBlock
<1>1. FanOutInv => SendsNeverBlock
  <2> SUFFICES ASSUME FanOutInv PROVE SendsNeverBlock
    OBVIOUS
  <2>1. /\ n \in Nat /\ Buffered \in SUBSET (1..n) /\ next \in Nat \ {0}
        /\ Len(resultsCh) = Cardinality(Buffered)
    BY DEF FanOutInv, TypeOK, ChannelHolds, Buffered
  <2>2. ASSUME pc = "launch", next <= n, next \in same PROVE Len(resultsCh) < n
    <3>1. next \in 1..n /\ next \in Items
      BY <2>1, <2>2 DEF FanOutInv, TypeOK, Items
    <3>2. next \notin Buffered
      BY <2>1, <2>2, <3>1 DEF Buffered, FanOutInv, Launching
    <3>3. QED
      BY <2>1, <3>1, <3>2, FewerThanListed
  <2>3. ASSUME NEW i \in Items, g[i] = "sending" PROVE Len(resultsCh) < n
    <3>1. i < next /\ i \notin same /\ next <= n + 1
      BY <2>3 DEF FanOutInv, Launching
    <3>2. i \in 1..n
      BY <2>1, <3>1 DEF Items
    <3>3. i \notin Buffered
      BY <2>3, <3>1 DEF Buffered
    <3>4. QED
      BY <2>1, <3>2, <3>3, FewerThanListed
  <2>4. QED
    BY <2>2, <2>3 DEF SendsNeverBlock
<1>2. QED
  BY <1>1, FanOutInvariant, PTL

\* The handler leaves no goroutine, token or unread result behind.
THEOREM LeavesNothingBehind == Spec => []NothingLeftBehind
<1>1. FanOutInv => NothingLeftBehind
  <2> SUFFICES ASSUME FanOutInv, pc = "answered" PROVE NothingLeftBehind
    BY DEF NothingLeftBehind
  <2>1. resultsCh = <<>> /\ Outstanding = {}
    BY DEF FanOutInv, ClosesLast, Quiet, Outstanding
  <2>2. Holding = {}
    BY <2>1 DEF Holding, Outstanding
  <2>3. sem = 0 /\ wg = 0
    BY <2>1, <2>2, FS_EmptySet DEF FanOutInv, Counts
  <2>4. \A i \in Items : g[i] \in {"none", "exited"}
    BY <2>1 DEF FanOutInv, TypeOK, GState, Outstanding
  <2>5. QED
    BY <2>1, <2>3, <2>4 DEF NothingLeftBehind
<1>2. QED
  BY <1>1, FanOutInvariant, PTL

-----------------------------------------------------------------------------
(* The page of an answered request. *)

\* Places of item i in a list of errors.
Places(e, i) == {k \in DOMAIN e : e[k] = i}

\* What PageComplete says of the page holds item by item while the page is built,
\* before every item has its result.
PageInv ==
  /\ status = 200 => \A i \in 1..n : items[i] # "pending"
  /\ \A i \in Items : items[i] # "pending" => (items[i] = "same_airport" <=> i \in same)
  /\ \A i \in Items :
       Cardinality(Places(errors, i)) = IF items[i] \in Failed THEN 1 ELSE 0

LEMMA NoPlaces == ASSUME NEW i PROVE Cardinality(Places(<<>>, i)) = 0
<1>1. Places(<<>>, i) = {}
  BY DEF Places
<1>2. QED
  BY <1>1, FS_EmptySet

\* An item that is appended has one place more, every other item its old places.
LEMMA AppendedPlaces ==
  ASSUME NEW e \in Seq(Items), NEW j \in Items, NEW i \in Items,
         Cardinality(Places(e, i)) \in Nat
  PROVE  Cardinality(Places(Append(e, j), i)) =
           Cardinality(Places(e, i)) + IF i = j THEN 1 ELSE 0
<1> DEFINE l == Len(e) + 1
<1>1. /\ DOMAIN e = 1..Len(e) /\ Len(e) \in Nat
      /\ DOMAIN Append(e, j) = 1..l
      /\ Append(e, j)[l] = j
      /\ \A k \in 1..Len(e) : Append(e, j)[k] = e[k]
  OBVIOUS
<1>2. \A k : k \in 1..l <=> k \in 1..Len(e) \/ k = l
  BY <1>1
<1>3. l \notin Places(e, i)
  BY <1>1 DEF Places
<1>4. CASE i = j
  <2>1. Places(Append(e, j), i) = Places(e, i) \cup {l}
    BY <1>1, <1>2, <1>4 DEF Places
  <2>2. IsFiniteSet(Places(e, i))
    <3>1. Places(e, i) \in SUBSET (1..Len(e)) /\ IsFiniteSet(1..Len(e))
      BY <1>1, FS_Interval DEF Places
    <3>2. QED
      BY <3>1, FS_Subset
  <2>3. Cardinality(Places(e, i) \cup {l}) = Cardinality(Places(e, i)) + 1
    BY <1>3, <2>2, FS_AddElement
  <2>4. QED
    BY <1>4, <2>1, <2>3
<1>5. CASE i # j
  <2>1. Places(Append(e, j), i) = Places(e, i)
    BY <1>1, <1>2, <1>5 DEF Places
  <2>2. QED
    BY <1>5, <2>1
<1>6. QED
  BY <1>4, <1>5

\* When the reading loop ends every listed item has its result.
LEMMA AllResolved ==
  ASSUME FanOutInv, Respond
  PROVE  \A i \in 1..n : items[i] # "pending"
<1>1. resultsCh = <<>> /\ closed /\ next = n + 1 /\ n \in 0..MaxItems
  BY DEF FanOutInv, TypeOK, ClosesLast, Respond
<1>2. Buffered = {}
  <2>1. Buffered \in SUBSET Items
    BY DEF FanOutInv, TypeOK, Buffered, Items
  <2>2. Cardinality(Buffered) = 0
    BY <1>1 DEF FanOutInv, ChannelHolds
  <2>3. QED
    BY <2>1, <2>2, ItemSets
<1>3. ASSUME NEW i \in 1..n PROVE items[i] # "pending"
  <2>1. i \in Items /\ i < next
    BY <1>1 DEF Items
  <2>2. i \in same \/ g[i] # "none"
    BY <2>1 DEF FanOutInv, Launching
  <2>3. g[i] \in {"none", "exited"}
    BY <1>1, <2>1 DEF FanOutInv, TypeOK, GState, ClosesLast, Outstanding
  <2>4. QED
    BY <1>2, <2>1, <2>2, <2>3 DEF Buffered
<1>4. QED
  BY <1>3

\* While nothing is resolved there is nothing to say of the page.
LEMMA QuietPage ==
  ASSUME status # 200, errors = <<>>, \A i \in Items : items[i] = "pending"
  PROVE  PageInv
<1>1. "pending" \notin Failed
  BY DEF Failed
<1>2. QED
  BY <1>1, NoPlaces DEF PageInv

LEMMA CollectPage ==
  ASSUME FanOutInv, PageInv, Collect
  PROVE  PageInv'
<1> DEFINE r == Head(resultsCh)
<1>1. /\ resultsCh # <<>> /\ resultsCh \in Seq([index : Items, outcome : Outcome])
      /\ items \in [Items -> Outcome \cup {"pending"}] /\ errors \in Seq(Items)
      /\ UNCHANGED <<status, n, same>> /\ status = 0
      /\ items' = [items EXCEPT ![r.index] = r.outcome]
      /\ errors' = IF r.outcome \in Failed THEN Append(errors, r.index) ELSE errors
  BY DEF FanOutInv, TypeOK, ClosesLast, Collect, reqVars
<1>2. Len(resultsCh) \in Nat \ {0} /\ r = resultsCh[1]
  BY <1>1
<1>3. /\ r.index \in Buffered
      /\ r.outcome = "same_airport" <=> r.index \in same
  BY <1>2 DEF FanOutInv, ChannelHolds
<1>4. r.index \in Items /\ items[r.index] = "pending"
  BY <1>3 DEF Buffered, FanOutInv, TypeOK, Items
<1>5. \A i \in Items : items'[i] = IF i = r.index THEN r.outcome ELSE items[i]
  BY <1>1, <1>4
<1>6. \A i \in Items : items'[i] # "pending" => (items'[i] = "same_airport" <=> i \in same')
  BY <1>1, <1>3, <1>5 DEF PageInv
<1>7. ASSUME NEW i \in Items
      PROVE  Cardinality(Places(errors', i)) = IF items'[i] \in Failed THEN 1 ELSE 0
  <2>1. Cardinality(Places(errors, i)) = IF items[i] \in Failed THEN 1 ELSE 0
    BY DEF PageInv
  <2>2. i = r.index => Cardinality(Places(errors, i)) = 0
    BY <1>4, <2>1 DEF Failed
  <2>3. CASE r.outcome \in Failed
    <3>1. Cardinality(Places(errors', i)) =
            Cardinality(Places(errors, i)) + IF i = r.index THEN 1 ELSE 0
      BY <1>1, <1>4, <2>1, <2>3, AppendedPlaces
    <3>2. QED
      BY <1>5, <2>1, <2>2, <2>3, <3>1
  <2>4. CASE r.outcome \notin Failed
    BY <1>1, <1>5, <2>1, <2>2, <2>4
  <2>5. QED
    BY <2>3, <2>4
<1>8. QED
  BY <1>1, <1>6, <1>7 DEF PageInv

LEMMA NextPage == FanOutInv /\ PageInv /\ [Next]_vars => PageInv'
<1> SUFFICES ASSUME FanOutInv, PageInv, [Next]_vars PROVE PageInv'
  OBVIOUS
<1>1. CASE Receive \/ LoadMatches \/ LoadClubs
  <2>1. Quiet /\ status' # 200 /\ UNCHANGED respVars
    BY <1>1 DEF FanOutInv, ClosesLast, Receive, LoadMatches, LoadClubs, Answered
  <2>2. errors' = <<>> /\ \A i \in Items : items'[i] = "pending"
    BY <2>1 DEF Quiet, respVars
  <2>3. QED
    BY <2>1, <2>2, QuietPage, NoPlaces DEF PageInv, Failed
<1>2. CASE Collect
  BY <1>2, CollectPage
<1>3. CASE Respond
  <2>1. \A i \in 1..n : items[i] # "pending"
    BY <1>3, AllResolved
  <2>2. UNCHANGED <<n, same, items, errors>>
    BY <1>3 DEF Respond, Answered, respVars
  <2>3. QED
    BY <2>1, <2>2 DEF PageInv
<1>4. CASE Return
  <2>1. status' = 0 /\ errors' = <<>> /\ \A i \in Items : items'[i] = "pending"
    BY <1>4 DEF Return
  <2>2. QED
    BY <2>1, NoPlaces DEF PageInv, Failed
<1>5. CASE UNCHANGED <<status, n, same, items, errors>>
  BY <1>5 DEF PageInv
<1>6. QED
  BY <1>1, <1>2, <1>3, <1>4, <1>5
  DEF Next, Handler, Caller, LaunchSameAirport, LaunchAdd, LaunchGo, LaunchEnd,
      CloseResults, CtxExpires, CallReturns, SendResult, ReleaseToken, WaitGroupDone,
      vars, reqVars, callVars, respVars

\* A 200 page of GetUpcomingWithAirfare answers every listed match once, for any
\* number of matches: priced, or with an error that is listed once.
THEOREM PagesAreComplete == Spec => []PageComplete
<1>1. Init => PageInv
  BY QuietPage DEF Init
<1>2. FanOutInv /\ PageInv => PageComplete
  <2> SUFFICES ASSUME FanOutInv, PageInv, status = 200 PROVE PageComplete
    BY DEF PageComplete
  <2>1. \A i \in 1..n : i \in Items
    BY DEF FanOutInv, TypeOK, Items
  <2>2. \A i \in same : i \in Items /\ g[i] = "none"
    BY DEF FanOutInv, TypeOK, Launching
  <2>3. QED
    BY <2>1, <2>2 DEF PageInv, PageComplete, Places
<1>3. QED
  BY <1>1, <1>2, NextPage, FanOutInvariant, NextInv, PTL DEF Spec

-----------------------------------------------------------------------------
(* The fan-out implements the promise of the endpoint. *)

\* A step that changes neither the handler's phase nor the page is a stutter.
LEMMA HiddenStep ==
  ASSUME Phase' = Phase, UNCHANGED <<status, n, same, items, errors>>
  PROVE  UNCHANGED Promise!vars
BY DEF Promise!vars

LEMMA LoadImplements ==
  ASSUME FanOutInv, Receive \/ LoadMatches \/ LoadClubs
  PROVE  [Promise!Next]_Promise!vars
<1>0. Quiet /\ status = 0 /\ pc \in {"idle", "upcoming", "clubs"}
  BY DEF FanOutInv, ClosesLast, Receive, LoadMatches, LoadClubs
<1>1. \A i \in Promise!Items : items[i] = "pending"
  BY <1>0 DEF Quiet, Items, Promise!Items
<1>2. CASE Receive
  <2>1. Phase = "idle" /\ UNCHANGED <<n, same, items, errors>>
    BY <1>2 DEF Receive, Phase, respVars
  <2>2. \/ Phase' = "answered" /\ status' \in {400, 405}
        \/ Phase' = "working" /\ status' = status
    BY <1>2 DEF Receive, Answered, Phase
  <2>3. Promise!Refuse \/ Promise!Accept
    BY <1>1, <2>1, <2>2 DEF Promise!Refuse, Promise!Accept
  <2>4. QED
    BY <2>3 DEF Promise!Next
<1>3. CASE LoadMatches
  <2>1. Phase = "working" /\ n = 0 /\ UNCHANGED <<items, errors>>
    BY <1>3 DEF LoadMatches, Phase, FanOutInv, ClosesLast, respVars
  <2>2. \/ /\ Phase' = "answered" /\ status' = 502
           /\ UNCHANGED <<n, same>>
        \/ /\ Phase' = "working" /\ status' = status
           /\ n' \in 0..MaxItems /\ same' \in SUBSET (1..n')
    BY <1>3 DEF LoadMatches, Answered, Phase
  <2>3. Promise!Refuse \/ Promise!List
    BY <1>1, <2>1, <2>2 DEF Promise!Refuse, Promise!List
  <2>4. QED
    BY <2>3 DEF Promise!Next
<1>4. CASE LoadClubs
  <2>1. Phase = "working" /\ UNCHANGED <<n, same, items, errors>>
    BY <1>4 DEF LoadClubs, Phase, respVars
  <2>2. \/ Phase' = "answered" /\ status' = 502
        \/ Phase' = "working" /\ status' = status
    BY <1>4 DEF LoadClubs, Answered, Phase
  <2>3. Promise!Refuse \/ UNCHANGED Promise!vars
    BY <1>1, <2>1, <2>2, HiddenStep DEF Promise!Refuse
  <2>4. QED
    BY <2>3 DEF Promise!Next
<1>5. QED
  BY <1>2, <1>3, <1>4

LEMMA CollectImplements ==
  ASSUME FanOutInv, Collect
  PROVE  Promise!Next
<1> DEFINE r == Head(resultsCh)
<1>1. /\ resultsCh # <<>> /\ resultsCh \in Seq([index : Items, outcome : Outcome])
      /\ UNCHANGED <<status, n, same>> /\ Phase = "working" /\ Phase' = "working"
      /\ items' = [items EXCEPT ![r.index] = r.outcome]
      /\ errors' = IF r.outcome \in Failed THEN Append(errors, r.index) ELSE errors
  BY DEF FanOutInv, TypeOK, Collect, reqVars, Phase
<1>2. Len(resultsCh) \in Nat \ {0} /\ r = resultsCh[1]
  BY <1>1
<1>3. r.index \in Items /\ r.outcome \in Outcome
  <2>1. ASSUME NEW T, NEW q \in Seq(T), Len(q) \in Nat \ {0} PROVE q[1] \in T
    BY <2>1
  <2>2. resultsCh \in Seq([index : Items, outcome : Outcome])
    BY <1>1
  <2>3. resultsCh[1] \in [index : Items, outcome : Outcome]
    BY <1>2, <2>1, <2>2
  <2>4. QED
    BY <1>2, <2>3
<1>4. /\ r.index \in Buffered
      /\ r.outcome = "same_airport" <=> r.index \in same
  BY <1>2 DEF FanOutInv, ChannelHolds
<1>5. r.index \in 1..n /\ items[r.index] = "pending"
  BY <1>4 DEF Buffered
<1>6. Promise!Resolve(r.index)
  BY <1>1, <1>3, <1>4, <1>5
  DEF Promise!Resolve, Promise!Listed, Promise!Outcome, Promise!Failed, Outcome, Failed
<1>7. QED
  BY <1>3, <1>6 DEF Promise!Next, Promise!Items, Items

LEMMA RespondImplements ==
  ASSUME FanOutInv, Respond
  PROVE  Promise!Next
<1>1. /\ Phase = "working" /\ Phase' = "answered" /\ status' = 200
      /\ UNCHANGED <<n, same, items, errors>>
  BY DEF Respond, Answered, Phase, respVars
<1>2. Promise!Answer
  BY <1>1, AllResolved DEF Promise!Answer, Promise!Listed
<1>3. QED
  BY <1>2 DEF Promise!Next

\* Every behaviour of the handler, its goroutines and its channels is, seen
\* through the request's phase and its page, a behaviour of CatalogPromise.
THEOREM FanOutImplementsPromise == Spec => ImplementsPromise
<1>1. Init => Promise!Init
  BY DEF Init, Promise!Init, Phase, Items, Promise!Items
<1>2. FanOutInv /\ [Next]_vars => [Promise!Next]_Promise!vars
  <2> SUFFICES ASSUME FanOutInv, [Next]_vars PROVE [Promise!Next]_Promise!vars
    OBVIOUS
  <2>1. CASE Receive \/ LoadMatches \/ LoadClubs
    BY <2>1, LoadImplements
  <2>2. CASE LaunchSameAirport \/ LaunchAdd \/ LaunchGo \/ LaunchEnd
    <3>1. Phase' = Phase /\ UNCHANGED <<status, n, same, items, errors>>
      BY <2>2 DEF LaunchSameAirport, LaunchAdd, LaunchGo, LaunchEnd, Phase, respVars
    <3>2. QED
      BY <3>1, HiddenStep
  <2>3. CASE Collect
    BY <2>3, CollectImplements
  <2>4. CASE Respond
    BY <2>4, RespondImplements
  <2>5. CASE CloseResults \/ CtxExpires \/ UNCHANGED vars
    <3>1. pc' = pc /\ UNCHANGED <<status, n, same, items, errors>>
      BY <2>5 DEF CloseResults, CtxExpires, vars, reqVars, respVars
    <3>2. QED
      BY <3>1, HiddenStep DEF Phase
  <2>6. ASSUME NEW i \in Items, Caller(i) PROVE UNCHANGED Promise!vars
    <3>1. pc' = pc /\ UNCHANGED <<status, n, same, items, errors>>
      BY <2>6 DEF Caller, CallReturns, SendResult, ReleaseToken, WaitGroupDone,
                  reqVars, respVars
    <3>2. QED
      BY <3>1, HiddenStep DEF Phase
  <2>7. CASE Return
    <3>1. Promise!Forget
      BY <2>7 DEF Return, Promise!Forget, Phase, Items, Promise!Items
    <3>2. QED
      BY <3>1 DEF Promise!Next
  <2>8. QED
    BY <2>1, <2>2, <2>3, <2>4, <2>5, <2>6, <2>7 DEF Next, Handler
<1>3. QED
  BY <1>1, <1>2, FanOutInvariant, PTL DEF Spec, Promise!Spec, ImplementsPromise
=============================================================================
