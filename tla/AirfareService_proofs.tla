------------------------ MODULE AirfareService_proofs ------------------------
(***************************************************************************)
(* Proofs about AirfareService for any number of concurrent calls and any  *)
(* list of slots, the code's <<1, 1, 3, 3, 1, 1>> among them.              *)
(***************************************************************************)
EXTENDS AirfareService, TLAPS

-----------------------------------------------------------------------------
(* The invariant, one call and the cache at a time. *)

ClientInv(c) ==
  /\ Progress(c)
  /\ answer[c] = "ok" => Complete(slots[c], tried[c]) /\ Succeeded(tried[c])
  /\ answer[c] = "unavailable" => ~Succeeded(tried[c])

CacheInv ==
  cache # NoEntry =>
    /\ Complete(cache.slots, cache.tried) /\ Succeeded(cache.tried)
    /\ cache.version \notin SameCity
    /\ \A s \in Slots : \A k \in 1..Len(cache.tried[s]) : cache.tried[s][k] # "expired"

LEMMA InvSplits ==
  AirfareInv <=> TypeOK /\ CacheInv /\ \A c \in Clients : ClientInv(c)
BY DEF AirfareInv, ClientInv, CacheInv, SlotsAreBest, AllOrNothing, NoLateEntries

LEMMA InvSplitsNext ==
  ASSUME TypeOK', CacheInv', \A c \in Clients : ClientInv(c)'
  PROVE  AirfareInv'
BY DEF AirfareInv, ClientInv, CacheInv, SlotsAreBest, AllOrNothing, NoLateEntries

\* A call none of whose variables a step changes.
LEMMA Untouched ==
  ASSUME NEW d \in Clients, ClientInv(d),
         pc'[d] = pc[d], ctxDone'[d] = ctxDone[d], ver'[d] = ver[d], slot'[d] = slot[d],
         slots'[d] = slots[d], calls'[d] = calls[d], failures'[d] = failures[d],
         answer'[d] = answer[d], tried'[d] = tried[d]
  PROVE  ClientInv(d)'
BY DEF ClientInv, Progress, Complete, Succeeded, Reports, Finished

LEMMA SlotsFacts ==
  /\ Len(Attempts) \in Nat \ {0}
  /\ \A s \in Slots : Attempts[s] \in Nat \ {0}
  /\ 1 \in Slots
<1>1. Len(Attempts) \in Nat
  BY AttemptsAssumption
<1>2. Len(Attempts) # 0
  BY AttemptsAssumption
<1>3. \A s \in Slots : Attempts[s] \in Nat \ {0}
  BY AttemptsAssumption DEF Slots
<1>4. QED
  BY <1>1, <1>2, <1>3 DEF Slots

\* Before its first attempt a slot reports nothing, and is not finished.
LEMMA DefaultReports ==
  /\ DefaultSlots \in [Slots -> SlotView] /\ Untried \in [Slots -> Seq(Result)]
  /\ \A s \in Slots : Reports(DefaultSlots[s], <<>>) /\ ~Finished(s, DefaultSlots[s], <<>>)
  /\ \A s \in Slots : Untried[s] = <<>>
  /\ ~Succeeded(Untried)
<1>1. DefaultSlots \in [Slots -> SlotView]
  BY DEF DefaultSlots, SlotView, Levels
<1>2. Untried \in [Slots -> Seq(Result)] /\ \A s \in Slots : Untried[s] = <<>>
  BY DEF Untried
<1>3. \A s \in Slots : DefaultSlots[s].level = 1 /\ DefaultSlots[s].found = FALSE
  BY DEF DefaultSlots
<1>4. ASSUME NEW s \in Slots
      PROVE  Reports(DefaultSlots[s], <<>>) /\ ~Finished(s, DefaultSlots[s], <<>>)
  BY <1>3, SlotsFacts DEF Reports, Finished
<1>5. ~Succeeded(Untried)
  BY <1>2 DEF Succeeded
<1>6. QED
  BY <1>1, <1>2, <1>4, <1>5

-----------------------------------------------------------------------------
(* One attempt. *)

\* What an attempt with outcome o makes of a slot.
After(v, t, o) == IF o \in Bad THEN v ELSE [level |-> Len(t) + 1, found |-> o = "found"]

LEMMA AttemptReports ==
  ASSUME NEW t \in Seq(Result), NEW v \in SlotView, Reports(v, t), ~v.found,
         NEW o \in Result
  PROVE  /\ After(v, t, o) \in SlotView
         /\ Append(t, o) \in Seq(Result) /\ Len(Append(t, o)) = Len(t) + 1
         /\ Reports(After(v, t, o), Append(t, o))
         /\ After(v, t, o).found <=> o = "found"
<1> DEFINE u == Append(t, o)
           w == After(v, t, o)
<1>1. /\ Len(t) \in Nat /\ u \in Seq(Result) /\ Len(u) = Len(t) + 1
      /\ u[Len(u)] = o /\ \A k \in 1..Len(t) : u[k] = t[k]
  OBVIOUS
<1>2. v.level \in Nat \ {0} /\ v.found = FALSE
  BY DEF SlotView, Levels
<1>3. \A k \in 1..Len(t) : t[k] # "found" /\ (k > v.level => t[k] \in Bad)
  BY DEF Reports
<1>4. CASE o \in Bad
  <2>1. w = v /\ w \in SlotView /\ o # "found"
    BY <1>4 DEF After, Bad
  <2>2. \A k \in 1..(Len(u) - 1) : u[k] # "found"
    BY <1>1, <1>3
  <2>3. \A k \in 1..Len(u) : u[k] # "found" /\ (k > v.level => u[k] \in Bad)
    BY <1>1, <1>2, <1>3, <1>4, <2>1
  <2>4. v.level \in 1..Len(u) => u[v.level] = "none" \/ v.level = 1
    BY <1>1, <1>2 DEF Reports
  <2>5. v.level \notin 1..Len(u) => v.level = 1
    BY <1>1, <1>2 DEF Reports
  <2>6. QED
    BY <1>1, <1>2, <2>1, <2>2, <2>3, <2>4, <2>5 DEF Reports
<1>5. CASE o \notin Bad
  <2>1. w = [level |-> Len(t) + 1, found |-> o = "found"]
    BY <1>5 DEF After
  <2>2. w \in SlotView
    BY <1>1, <2>1 DEF SlotView, Levels
  <2>3. w.level = Len(u) /\ (w.found <=> o = "found")
    <3>1. w.level = Len(t) + 1
      BY <2>1
    <3>2. w.found = (o = "found")
      BY <2>1
    <3>3. QED
      BY <1>1, <3>1, <3>2
  <2>4. o \in {"found", "none"}
    BY <1>5 DEF Result
  <2>5. \A k \in 1..(Len(u) - 1) : u[k] # "found"
    BY <1>1, <1>3
  <2>6. u # <<>>
    BY <1>1
  <2>7. CASE o = "found"
    BY <1>1, <2>2, <2>3, <2>5, <2>6, <2>7 DEF Reports
  <2>8. CASE o = "none"
    <3>1. \A k \in 1..Len(u) : u[k] # "found" /\ ~(k > w.level)
      BY <1>1, <1>3, <2>3, <2>8
    <3>2. u[w.level] = "none" /\ w.level \in 1..Len(u)
      BY <1>1, <2>3, <2>8
    <3>3. QED
      BY <1>1, <2>2, <2>3, <2>5, <2>8, <3>1, <3>2 DEF Reports
  <2>9. QED
    BY <2>4, <2>7, <2>8
<1>6. QED
  BY <1>4, <1>5

LEMMA AppendLast ==
  ASSUME NEW t \in Seq(Result), NEW o \in Result
  PROVE  Append(t, o)[Len(t) + 1] = o
OBVIOUS

\* A search has succeeded after an attempt when it had before, or the attempt
\* did.
LEMMA AttemptSucceeds ==
  ASSUME NEW t \in [Slots -> Seq(Result)], NEW s \in Slots, NEW o \in Result,
         NEW u, u = [t EXCEPT ![s] = Append(t[s], o)]
  PROVE  Succeeded(u) <=> Succeeded(t) \/ o \notin Bad
<1>1. /\ u[s] = Append(t[s], o) /\ Len(u[s]) = Len(t[s]) + 1 /\ Len(t[s]) \in Nat
      /\ u[s][Len(u[s])] = o /\ \A k \in 1..Len(t[s]) : u[s][k] = t[s][k]
  OBVIOUS
<1>2. \A r \in Slots : r # s => u[r] = t[r]
  OBVIOUS
<1>3. ASSUME Succeeded(u), o \in Bad PROVE Succeeded(t)
  <2>1. PICK r \in Slots : \E k \in 1..Len(u[r]) : u[r][k] \notin Bad
    BY <1>3 DEF Succeeded
  <2>2. PICK k \in 1..Len(u[r]) : u[r][k] \notin Bad
    BY <2>1
  <2>3. CASE r = s
    <3>1. k \in 1..Len(t[s])
      BY <1>1, <1>3, <2>2, <2>3
    <3>2. QED
      BY <1>1, <2>2, <2>3, <3>1 DEF Succeeded
  <2>4. CASE r # s
    BY <1>2, <2>2, <2>4 DEF Succeeded
  <2>5. QED
    BY <2>3, <2>4
<1>4. ASSUME Succeeded(t) PROVE Succeeded(u)
  <2>1. PICK r \in Slots : \E k \in 1..Len(t[r]) : t[r][k] \notin Bad
    BY <1>4 DEF Succeeded
  <2>2. PICK k \in 1..Len(t[r]) : t[r][k] \notin Bad
    BY <2>1
  <2>3. k \in 1..Len(u[r]) /\ u[r][k] = t[r][k]
    BY <1>1, <1>2, <2>2
  <2>4. QED
    BY <2>2, <2>3 DEF Succeeded
<1>5. ASSUME o \notin Bad PROVE Succeeded(u)
  <2>1. Len(u[s]) \in 1..Len(u[s])
    BY <1>1
  <2>2. QED
    BY <1>1, <1>5, <2>1 DEF Succeeded
<1>6. QED
  BY <1>3, <1>4, <1>5

-----------------------------------------------------------------------------
(* The steps of a call. *)

\* A step of call c leaves the others alone.
Others(c) ==
  \A d \in Clients \ {c} :
    /\ pc'[d] = pc[d] /\ ctxDone'[d] = ctxDone[d] /\ ver'[d] = ver[d]
    /\ slot'[d] = slot[d] /\ slots'[d] = slots[d] /\ calls'[d] = calls[d]
    /\ failures'[d] = failures[d] /\ answer'[d] = answer[d] /\ tried'[d] = tried[d]

LEMMA OneMoves ==
  ASSUME AirfareInv, NEW c \in Clients, Others(c), TypeOK', CacheInv', ClientInv(c)'
  PROVE  AirfareInv'
<1>1. ASSUME NEW d \in Clients PROVE ClientInv(d)'
  <2>1. CASE d = c
    BY <2>1
  <2>2. CASE d # c
    BY <2>2, InvSplits, Untouched DEF Others
  <2>3. QED
    BY <2>1, <2>2
<1>2. QED
  BY <1>1, InvSplitsNext

\* What a step of call c may use.
LEMMA CallFacts ==
  ASSUME AirfareInv, NEW c \in Clients
  PROVE  /\ TypeOK /\ CacheInv /\ ClientInv(c) /\ Progress(c)
         /\ ver[c] \in Versions /\ slots[c] \in [Slots -> SlotView]
         /\ tried[c] \in [Slots -> Seq(Result)]
         /\ calls[c] \in Nat /\ failures[c] \in Nat
BY InvSplits DEF ClientInv, TypeOK

LEMMA SameCache ==
  ASSUME AirfareInv, cache' = cache
  PROVE  CacheInv'
BY InvSplits DEF CacheInv, Complete, Succeeded, Reports, Finished

LEMMA StartInv == ASSUME AirfareInv, NEW c \in Clients, Start(c) PROVE AirfareInv'
<1>1. /\ pc[c] = "idle" /\ UNCHANGED <<match, cache, ctxDone, ver, slot, slots, calls, failures, tried>>
      /\ \/ pc' = [pc EXCEPT ![c] = "cache"] /\ answer' = answer
         \/ /\ pc' = [pc EXCEPT ![c] = "answered"]
            /\ answer' = [answer EXCEPT ![c] = "invalid_argument"]
  BY DEF Start, Goto, Answer, localVars
<1>2. TypeOK'
  BY <1>1, CallFacts DEF TypeOK, PC, Codes
<1>3. Others(c)
  BY <1>1, CallFacts DEF Others, TypeOK
<1>4. ClientInv(c)'
  <2>1. /\ slots[c] = DefaultSlots /\ tried[c] = Untried /\ slot[c] = 1
        /\ calls[c] = 0 /\ failures[c] = 0 /\ answer[c] = "none"
    BY <1>1, CallFacts DEF Progress
  <2>2. \/ pc'[c] = "cache" /\ answer'[c] = "none"
        \/ pc'[c] = "answered" /\ answer'[c] = "invalid_argument"
    BY <1>1, <2>1, CallFacts DEF TypeOK
  <2>3. QED
    BY <1>1, <2>1, <2>2 DEF ClientInv, Progress
<1>5. QED
  BY <1>1, <1>2, <1>3, <1>4, SameCache, OneMoves

LEMMA ReadCacheInv == ASSUME AirfareInv, NEW c \in Clients, ReadCache(c) PROVE AirfareInv'
<1>1. pc[c] = "cache" /\ UNCHANGED <<match, cache, ctxDone, slot, calls, failures>>
  BY DEF ReadCache
<1>2. CASE /\ cache # NoEntry
           /\ ver' = [ver EXCEPT ![c] = cache.version]
           /\ slots' = [slots EXCEPT ![c] = cache.slots]
           /\ tried' = [tried EXCEPT ![c] = cache.tried]
           /\ Answer(c, "ok")
  <2>1. cache \in Entry
    BY <1>2, CallFacts DEF TypeOK
  <2>2. /\ cache.version \in Versions /\ cache.slots \in [Slots -> SlotView]
        /\ cache.tried \in [Slots -> Seq(Result)]
    BY <2>1 DEF Entry
  <2>3. pc' = [pc EXCEPT ![c] = "answered"] /\ answer' = [answer EXCEPT ![c] = "ok"]
    BY <1>2 DEF Answer, Goto
  <2>4. TypeOK'
    <3>1. pc' \in [Clients -> PC] /\ answer' \in [Clients -> Codes]
      BY <2>3, CallFacts DEF TypeOK, PC, Codes
    <3>2. /\ ver' \in [Clients -> Versions] /\ slots' \in [Clients -> [Slots -> SlotView]]
          /\ tried' \in [Clients -> [Slots -> Seq(Result)]]
      BY <1>2, <2>2, CallFacts DEF TypeOK
    <3>3. QED
      BY <1>1, <3>1, <3>2, CallFacts DEF TypeOK
  <2>5. Others(c)
    BY <1>1, <1>2, <2>3, CallFacts DEF Others, TypeOK
  <2>6. /\ pc'[c] = "answered" /\ answer'[c] = "ok"
        /\ slots'[c] = cache.slots /\ tried'[c] = cache.tried
    BY <1>2, <2>3, CallFacts DEF TypeOK
  <2>7. Complete(cache.slots, cache.tried) /\ Succeeded(cache.tried)
    BY <1>2, CallFacts DEF CacheInv
  <2>8. ClientInv(c)'
    <3>1. Progress(c)'
      BY <2>6 DEF Progress
    <3>2. Complete(slots'[c], tried'[c]) /\ Succeeded(tried'[c])
      BY <2>6, <2>7
    <3>3. QED
      BY <2>6, <3>1, <3>2 DEF ClientInv, Complete, Succeeded, Reports, Finished
  <2>9. QED
    BY <1>1, <2>4, <2>5, <2>8, SameCache, OneMoves
<1>3. CASE Goto(c, "match") /\ UNCHANGED <<ver, slots, tried, answer>>
  <2>1. pc' = [pc EXCEPT ![c] = "match"]
    BY <1>3 DEF Goto
  <2>2. TypeOK'
    BY <1>1, <1>3, <2>1, CallFacts DEF TypeOK, PC
  <2>3. Others(c)
    BY <1>1, <1>3, <2>1, CallFacts DEF Others, TypeOK
  <2>4. pc'[c] = "match"
    BY <2>1, CallFacts DEF TypeOK
  <2>5. ClientInv(c)'
    BY <1>1, <1>3, <2>4, CallFacts DEF ClientInv, Progress
  <2>6. QED
    BY <1>1, <2>2, <2>3, <2>5, SameCache, OneMoves
<1>4. QED
  BY <1>2, <1>3 DEF ReadCache

LEMMA LoadMatchInv == ASSUME AirfareInv, NEW c \in Clients, LoadMatch(c) PROVE AirfareInv'
<1>1. /\ pc[c] = "match"
      /\ UNCHANGED <<match, cache, ctxDone, slot, slots, calls, failures, tried>>
  BY DEF LoadMatch
<1>2. /\ slots[c] = DefaultSlots /\ tried[c] = Untried /\ slot[c] = 1
      /\ calls[c] = 0 /\ failures[c] = 0 /\ answer[c] = "none"
  BY <1>1, CallFacts DEF Progress
<1>3. PICK v \in Versions : ver' = [ver EXCEPT ![c] = v] /\
        \/ v # 0 /\ v \notin SameCity /\ Goto(c, "search") /\ UNCHANGED answer
        \/ \E code \in {"invalid_argument", "not_found", "unavailable", "internal"} :
             Answer(c, code)
  <2>1. match \in Versions /\ ver[c] \in Versions /\ ver = [ver EXCEPT ![c] = ver[c]]
    BY CallFacts DEF TypeOK
  <2>2. CASE match # 0 /\ ver' = [ver EXCEPT ![c] = match] /\ match \in SameCity
               /\ Answer(c, "invalid_argument")
    BY <2>1, <2>2
  <2>3. CASE match # 0 /\ ver' = [ver EXCEPT ![c] = match] /\ match \notin SameCity
               /\ Goto(c, "search") /\ UNCHANGED answer
    BY <2>1, <2>3
  <2>4. CASE UNCHANGED ver /\ \E code \in {"not_found", "unavailable", "internal"} : Answer(c, code)
    BY <2>1, <2>4
  <2>5. QED
    BY <2>2, <2>3, <2>4 DEF LoadMatch
<1>4. ver' \in [Clients -> Versions] /\ ver'[c] = v
  BY <1>3, CallFacts DEF TypeOK
<1>5. CASE v # 0 /\ v \notin SameCity /\ Goto(c, "search") /\ UNCHANGED answer
  <2>1. pc' = [pc EXCEPT ![c] = "search"]
    BY <1>5 DEF Goto
  <2>2. TypeOK'
    BY <1>1, <1>4, <1>5, <2>1, CallFacts DEF TypeOK, PC
  <2>3. Others(c)
    BY <1>1, <1>3, <1>5, <2>1, CallFacts DEF Others, TypeOK
  <2>4. pc'[c] = "search" /\ slots'[c] = DefaultSlots /\ tried'[c] = Untried /\ slot'[c] = 1
          /\ calls'[c] = 0 /\ failures'[c] = 0 /\ answer'[c] = "none"
    BY <1>1, <1>2, <1>5, <2>1, CallFacts DEF TypeOK
  <2>5. /\ \A s \in Slots : Reports(slots'[c][s], tried'[c][s])
        /\ ~Finished(1, slots'[c][1], tried'[c][1])
        /\ \A s \in Slots : slots'[c][s] = DefaultSlots[s] /\ tried'[c][s] = <<>>
        /\ ~Succeeded(tried'[c])
    BY <2>4, DefaultReports, SlotsFacts
  <2>6. 0 < Attempts[1] /\ Len(tried'[c][1]) = 0
    BY <2>5, SlotsFacts
  <2>7. Progress(c)'
    <3>1. \A s \in Slots : ~(s < 1)
      BY SlotsFacts DEF Slots
    <3>2. \A s \in Slots : \A k \in 1..Len(tried'[c][s]) : tried'[c][s][k] # "expired"
      BY <2>5
    <3>3. QED
      BY <1>4, <1>5, <2>4, <2>5, <2>6, <3>1, <3>2, SlotsFacts
      DEF Progress, Reports, Finished, Succeeded
  <2>8. ClientInv(c)'
    BY <2>4, <2>7 DEF ClientInv
  <2>9. QED
    BY <1>1, <2>2, <2>3, <2>8, SameCache, OneMoves
<1>6. CASE \E code \in {"invalid_argument", "not_found", "unavailable", "internal"} :
             Answer(c, code)
  <2>1. PICK code \in {"invalid_argument", "not_found", "unavailable", "internal"} :
          pc' = [pc EXCEPT ![c] = "answered"] /\ answer' = [answer EXCEPT ![c] = code]
    BY <1>6 DEF Answer, Goto
  <2>2. TypeOK'
    <3>1. code \in Codes
      BY <2>1 DEF Codes
    <3>2. QED
      BY <1>1, <1>4, <2>1, <3>1, CallFacts DEF TypeOK, PC
  <2>3. Others(c)
    BY <1>1, <1>3, <2>1, CallFacts DEF Others, TypeOK
  <2>4. pc'[c] = "answered" /\ answer'[c] = code /\ code # "ok" /\ tried'[c] = Untried
    BY <1>1, <1>2, <2>1, CallFacts DEF TypeOK
  <2>5. ClientInv(c)'
    BY <2>4, DefaultReports DEF ClientInv, Progress, Succeeded
  <2>6. QED
    BY <1>1, <2>2, <2>3, <2>5, SameCache, OneMoves
<1>7. QED
  BY <1>3, <1>5, <1>6

LEMMA TryPricesInv == ASSUME AirfareInv, NEW c \in Clients, TryPrices(c) PROVE AirfareInv'
<1> DEFINE s == slot[c]
           t == tried[c][s]
           v == slots[c][s]
<1>1. pc[c] = "search" /\ UNCHANGED <<match, cache, ctxDone, ver, answer>>
  BY DEF TryPrices
<1>2. /\ s \in Slots /\ t \in Seq(Result) /\ v \in SlotView /\ Reports(v, t)
      /\ ~v.found /\ Len(t) < Attempts[s] /\ Len(t) \in Nat
      /\ Attempts[s] \in Nat \ {0} /\ Len(Attempts) \in Nat \ {0}
      /\ ver[c] # 0 /\ ver[c] \notin SameCity /\ answer[c] = "none"
      /\ calls[c] \in Nat /\ failures[c] \in Nat /\ failures[c] <= calls[c]
      /\ failures[c] = calls[c] <=> ~Succeeded(tried[c])
  BY <1>1, CallFacts, SlotsFacts DEF Progress, Finished
<1>3. \A r \in Slots : /\ Reports(slots[c][r], tried[c][r])
                       /\ r < s => Finished(r, slots[c][r], tried[c][r])
                       /\ r > s => slots[c][r] = DefaultSlots[r] /\ tried[c][r] = <<>>
  BY <1>1, CallFacts DEF Progress
<1>4. PICK o \in {"found", "none", "failed"} :
        /\ ctxDone[c] => o = "failed"
        /\ tried' = [tried EXCEPT ![c][slot[c]] =
                       Append(@, IF o = "failed" /\ ctxDone[c] THEN "expired" ELSE o)]
        /\ calls' = [calls EXCEPT ![c] = @ + 1]
        /\ IF o = "failed"
             THEN /\ failures' = [failures EXCEPT ![c] = @ + 1]
                  /\ UNCHANGED slots
             ELSE /\ slots' = [slots EXCEPT ![c][slot[c]] =
                                 [level |-> Attempt(c), found |-> o = "found"]]
                  /\ UNCHANGED failures
        /\ IF o = "found" \/ Attempt(c) = Attempts[slot[c]]
             THEN NextSlot(c)
             ELSE UNCHANGED <<pc, slot>>
  BY DEF TryPrices
<1> DEFINE x == IF o = "failed" /\ ctxDone[c] THEN "expired" ELSE o
           w == After(v, t, x)
<1>5. /\ x \in Result /\ (x \in Bad <=> o = "failed") /\ (x = "found" <=> o = "found")
      /\ x = "expired" => ctxDone[c]
      /\ o # "failed" => x = o
  BY <1>4 DEF Result, Bad
<1>6. /\ w \in SlotView /\ Append(t, x) \in Seq(Result) /\ Len(Append(t, x)) = Len(t) + 1
      /\ Reports(w, Append(t, x)) /\ (w.found <=> o = "found")
  BY <1>2, <1>5, AttemptReports
<1>7. /\ tried'[c] = [tried[c] EXCEPT ![s] = Append(t, x)]
      /\ tried' \in [Clients -> [Slots -> Seq(Result)]]
      /\ \A d \in Clients \ {c} : tried'[d] = tried[d]
  <2>1. tried' = [tried EXCEPT ![c] = [tried[c] EXCEPT ![s] = Append(t, x)]]
    BY <1>4, CallFacts DEF TypeOK
  <2>2. [tried[c] EXCEPT ![s] = Append(t, x)] \in [Slots -> Seq(Result)]
    BY <1>2, <1>6, CallFacts
  <2>3. QED
    BY <2>1, <2>2, CallFacts DEF TypeOK
<1> HIDE DEF x
<1>8. /\ slots'[c] = [slots[c] EXCEPT ![s] = w]
      /\ slots' \in [Clients -> [Slots -> SlotView]]
      /\ \A d \in Clients \ {c} : slots'[d] = slots[d]
  <2>1. slots' = [slots EXCEPT ![c] = [slots[c] EXCEPT ![s] = w]]
    <3>1. CASE o = "failed"
      <4>1. w = v /\ slots' = slots
        BY <1>4, <1>5, <3>1 DEF After
      <4>2. slots[c] = [slots[c] EXCEPT ![s] = v]
        BY <1>2, CallFacts
      <4>3. QED
        BY <4>1, <4>2, CallFacts DEF TypeOK
    <3>2. CASE o # "failed"
      <4>1. w = [level |-> Len(t) + 1, found |-> x = "found"] /\ x = o
        BY <1>5, <3>2 DEF After
      <4>2. slots' = [slots EXCEPT ![c][slot[c]] = w]
        BY <1>4, <3>2, <4>1 DEF Attempt
      <4>3. QED
        BY <4>2, CallFacts DEF TypeOK
    <3>3. QED
      BY <3>1, <3>2
  <2>2. [slots[c] EXCEPT ![s] = w] \in [Slots -> SlotView]
    BY <1>2, <1>6, CallFacts
  <2>3. QED
    BY <2>1, <2>2, CallFacts DEF TypeOK
<1>9. /\ slots'[c][s] = w /\ tried'[c][s] = Append(t, x)
      /\ \A r \in Slots : r # s => slots'[c][r] = slots[c][r] /\ tried'[c][r] = tried[c][r]
  BY <1>2, <1>7, <1>8, CallFacts
<1>10. /\ calls'[c] = calls[c] + 1 /\ calls' \in [Clients -> Nat]
       /\ \A d \in Clients \ {c} : calls'[d] = calls[d]
  BY <1>4, CallFacts DEF TypeOK
<1>11. /\ failures'[c] = (IF o = "failed" THEN failures[c] + 1 ELSE failures[c])
       /\ failures' \in [Clients -> Nat]
       /\ \A d \in Clients \ {c} : failures'[d] = failures[d]
  BY <1>4, CallFacts DEF TypeOK
<1>12. /\ failures'[c] <= calls'[c] /\ calls'[c] > 0
       /\ failures'[c] = calls'[c] <=> ~Succeeded(tried'[c])
  <2>1. Succeeded(tried'[c]) <=> Succeeded(tried[c]) \/ x \notin Bad
    <3>1. tried[c] \in [Slots -> Seq(Result)]
      BY CallFacts
    <3>2. \A u : u = [tried[c] EXCEPT ![s] = Append(t, x)] =>
            (Succeeded(u) <=> Succeeded(tried[c]) \/ x \notin Bad)
      BY <1>2, <1>5, <3>1, AttemptSucceeds
    <3>3. QED
      BY <1>7, <3>2, Zenon
  <2>2. QED
    BY <1>2, <1>5, <1>10, <1>11, <2>1
<1>13. \A r \in Slots : Reports(slots'[c][r], tried'[c][r])
  BY <1>3, <1>6, <1>9
<1>14. \A r \in Slots : r < s => Finished(r, slots'[c][r], tried'[c][r])
  BY <1>2, <1>3, <1>9 DEF Slots
<1>15. \A r \in Slots : r > s => slots'[c][r] = DefaultSlots[r] /\ tried'[c][r] = <<>>
  BY <1>2, <1>3, <1>9 DEF Slots
<1>16. ~ctxDone[c] =>
         \A r \in Slots : \A k \in 1..Len(tried'[c][r]) : tried'[c][r][k] # "expired"
  <2>1. SUFFICES ASSUME ~ctxDone[c], NEW r \in Slots, NEW k \in 1..Len(tried'[c][r])
                 PROVE  tried'[c][r][k] # "expired"
    OBVIOUS
  <2>2. \A j \in 1..Len(tried[c][r]) : tried[c][r][j] # "expired"
    BY <1>1, <2>1, CallFacts DEF Progress
  <2>3. CASE r = s
    <3>1. x # "expired"
      BY <1>5, <2>1
    <3>2. k \in 1..Len(t) => Append(t, x)[k] = t[k]
      BY <1>2, <1>5
    <3>3. k \notin 1..Len(t) => Append(t, x)[k] = x
      <4>1. tried'[c][r] = Append(t, x)
        BY <1>9, <2>3
      <4>2. k \in 1..(Len(t) + 1)
        BY <1>6, <2>1, <4>1
      <4>3. Append(t, x)[Len(t) + 1] = x
        BY <1>2, <1>5, AppendLast
      <4>4. QED
        BY <1>2, <4>2, <4>3
    <3>4. QED
      BY <1>9, <2>2, <2>3, <3>1, <3>2, <3>3
  <2>4. CASE r # s
    BY <1>9, <2>1, <2>2, <2>4
  <2>5. QED
    BY <2>3, <2>4
<1>17. CASE o # "found" /\ Len(t) + 1 # Attempts[s]
  <2>1. UNCHANGED <<pc, slot>>
    BY <1>4, <1>17 DEF Attempt
  <2>2. TypeOK'
    BY <1>1, <1>7, <1>8, <1>10, <1>11, <2>1, CallFacts DEF TypeOK
  <2>3. Others(c)
    BY <1>1, <1>7, <1>8, <1>10, <1>11, <2>1 DEF Others
  <2>4. /\ Len(tried'[c][s]) < Attempts[s]
        /\ ~Finished(s, slots'[c][s], tried'[c][s])
    BY <1>2, <1>6, <1>9, <1>17 DEF Finished
  <2>5. Progress(c)'
    BY <1>1, <1>2, <1>12, <1>13, <1>14, <1>15, <1>16, <2>1, <2>4
    DEF Progress, Finished, Reports, Succeeded
  <2>6. ClientInv(c)'
    BY <1>1, <1>2, <2>5 DEF ClientInv
  <2>7. QED
    BY <1>1, <2>2, <2>3, <2>6, SameCache, OneMoves
<1>18. CASE o = "found" \/ Len(t) + 1 = Attempts[s]
  <2>1. /\ slot' = [slot EXCEPT ![c] = s + 1]
        /\ pc' = [pc EXCEPT ![c] = IF s = Len(Attempts) THEN "judge" ELSE "search"]
    <3>1. NextSlot(c)
      BY <1>4, <1>18 DEF Attempt
    <3>2. pc = [pc EXCEPT ![c] = "search"]
      BY <1>1, CallFacts DEF TypeOK
    <3>3. QED
      BY <3>1, <3>2 DEF NextSlot, Goto
  <2>2. /\ slot'[c] = s + 1 /\ s + 1 \in 1..(Len(Attempts) + 1)
        /\ pc'[c] = IF s = Len(Attempts) THEN "judge" ELSE "search"
    BY <1>2, <2>1, CallFacts DEF TypeOK, Slots
  <2>3. TypeOK'
    <3>1. slot' \in [Clients -> 1..(Len(Attempts) + 1)]
      BY <2>1, <2>2, CallFacts DEF TypeOK
    <3>2. pc' \in [Clients -> PC]
      BY <2>1, CallFacts DEF TypeOK, PC
    <3>3. QED
      BY <1>1, <1>7, <1>8, <1>10, <1>11, <3>1, <3>2, CallFacts DEF TypeOK
  <2>4. Others(c)
    <3>1. \A d \in Clients \ {c} : pc'[d] = pc[d] /\ slot'[d] = slot[d]
      BY <2>1, CallFacts DEF TypeOK
    <3>2. QED
      BY <1>1, <1>7, <1>8, <1>10, <1>11, <3>1 DEF Others
  <2>5. Finished(s, slots'[c][s], tried'[c][s])
    BY <1>2, <1>6, <1>9, <1>18 DEF Finished
  <2>6. CASE s = Len(Attempts)
    <3>1. Complete(slots'[c], tried'[c])
      <4>1. \A r \in Slots : r < s \/ r = s
        BY <1>2, <2>6 DEF Slots
      <4>2. QED
        BY <1>13, <1>14, <2>5, <4>1 DEF Complete
    <3>2. Progress(c)'
      BY <1>1, <1>2, <1>12, <1>16, <2>2, <2>6, <3>1
      DEF Progress, Complete, Finished, Reports, Succeeded
    <3>3. ClientInv(c)'
      BY <1>1, <1>2, <3>2 DEF ClientInv
    <3>4. QED
      BY <1>1, <2>3, <2>4, <3>3, SameCache, OneMoves
  <2>7. CASE s # Len(Attempts)
    <3>1. s + 1 \in Slots /\ pc'[c] = "search"
      BY <1>2, <2>2, <2>7 DEF Slots
    <3>2. slots'[c][s + 1] = DefaultSlots[s + 1] /\ tried'[c][s + 1] = <<>>
      BY <1>2, <1>15, <3>1 DEF Slots
    <3>3. /\ ~Finished(s + 1, slots'[c][s + 1], tried'[c][s + 1])
          /\ Len(tried'[c][s + 1]) < Attempts[s + 1]
      BY <3>1, <3>2, DefaultReports, SlotsFacts
    <3>4. \A r \in Slots : r < s + 1 => Finished(r, slots'[c][r], tried'[c][r])
      <4>1. \A r \in Slots : r < s + 1 => r < s \/ r = s
        BY <1>2 DEF Slots
      <4>2. QED
        BY <1>14, <2>5, <4>1
    <3>5. \A r \in Slots : r > s + 1 => slots'[c][r] = DefaultSlots[r] /\ tried'[c][r] = <<>>
      <4>1. \A r \in Slots : r > s + 1 => r > s
        BY <1>2 DEF Slots
      <4>2. QED
        BY <1>15, <4>1
    <3>6. Progress(c)'
      BY <1>1, <1>2, <1>12, <1>13, <1>16, <2>2, <3>1, <3>3, <3>4, <3>5
      DEF Progress, Finished, Reports, Succeeded
    <3>7. ClientInv(c)'
      BY <1>1, <1>2, <3>1, <3>6 DEF ClientInv
    <3>8. QED
      BY <1>1, <2>3, <2>4, <3>7, SameCache, OneMoves
  <2>8. QED
    BY <2>6, <2>7
<1>19. QED
  BY <1>17, <1>18

LEMMA JudgeInv == ASSUME AirfareInv, NEW c \in Clients, Judge(c) PROVE AirfareInv'
<1>1. pc[c] = "judge" /\ UNCHANGED <<match, cache, ctxDone, ver, slot, slots, calls, failures, tried>>
  BY DEF Judge, localVars
<1>2. /\ ver[c] # 0 /\ ver[c] \notin SameCity /\ Complete(slots[c], tried[c]) /\ calls[c] > 0
      /\ failures[c] = calls[c] <=> ~Succeeded(tried[c])
      /\ answer[c] = "none"
      /\ ~ctxDone[c] =>
           \A s \in Slots : \A k \in 1..Len(tried[c][s]) : tried[c][s][k] # "expired"
  BY <1>1, CallFacts DEF Progress
<1>3. CASE failures[c] = calls[c] /\ Answer(c, "unavailable")
  <2>1. pc' = [pc EXCEPT ![c] = "answered"] /\ answer' = [answer EXCEPT ![c] = "unavailable"]
    BY <1>3 DEF Answer, Goto
  <2>2. TypeOK'
    BY <1>1, <2>1, CallFacts DEF TypeOK, PC, Codes
  <2>3. Others(c)
    BY <1>1, <2>1, CallFacts DEF Others, TypeOK
  <2>4. pc'[c] = "answered" /\ answer'[c] = "unavailable"
    BY <2>1, CallFacts DEF TypeOK
  <2>5. ClientInv(c)'
    BY <1>1, <1>2, <1>3, <2>4 DEF ClientInv, Progress, Succeeded
  <2>6. QED
    BY <1>1, <2>2, <2>3, <2>5, SameCache, OneMoves
<1>4. CASE failures[c] # calls[c] /\ Goto(c, "store") /\ UNCHANGED answer
  <2>1. pc' = [pc EXCEPT ![c] = "store"]
    BY <1>4 DEF Goto
  <2>2. TypeOK'
    BY <1>1, <1>4, <2>1, CallFacts DEF TypeOK, PC
  <2>3. Others(c)
    BY <1>1, <1>4, <2>1, CallFacts DEF Others, TypeOK
  <2>4. pc'[c] = "store"
    BY <2>1, CallFacts DEF TypeOK
  <2>5. ClientInv(c)'
    BY <1>1, <1>2, <1>4, <2>4
    DEF ClientInv, Progress, Succeeded, Complete, Reports, Finished
  <2>6. QED
    BY <1>1, <2>2, <2>3, <2>5, SameCache, OneMoves
<1>5. QED
  BY <1>2, <1>3, <1>4 DEF Judge

LEMMA StoreInv == ASSUME AirfareInv, NEW c \in Clients, Store(c) PROVE AirfareInv'
<1>1. /\ pc[c] = "store" /\ UNCHANGED <<match, ctxDone, ver, slot, slots, calls, failures, tried>>
      /\ pc' = [pc EXCEPT ![c] = "answered"] /\ answer' = [answer EXCEPT ![c] = "ok"]
      /\ cache' = cache \/ (~ctxDone[c] /\ cache' = EntryOf(c))
  BY DEF Store, localVars, Answer, Goto
<1>2. /\ ver[c] # 0 /\ ver[c] \notin SameCity
      /\ Complete(slots[c], tried[c]) /\ Succeeded(tried[c])
      /\ ~ctxDone[c] =>
           \A s \in Slots : \A k \in 1..Len(tried[c][s]) : tried[c][s][k] # "expired"
  BY <1>1, CallFacts DEF Progress
<1>3. EntryOf(c) \in Entry
  BY <1>2, CallFacts DEF EntryOf, Entry
<1>4. TypeOK'
  <2>1. cache' \in Entry \cup {NoEntry}
    BY <1>1, <1>3, CallFacts DEF TypeOK
  <2>2. QED
    BY <1>1, <2>1, CallFacts DEF TypeOK, PC, Codes
<1>5. Others(c)
  BY <1>1, CallFacts DEF Others, TypeOK
<1>6. CacheInv'
  <2>1. CASE cache' = cache
    BY <2>1, SameCache
  <2>2. CASE ~ctxDone[c] /\ cache' = EntryOf(c)
    <3>1. /\ cache'.version = ver[c] /\ cache'.slots = slots[c] /\ cache'.tried = tried[c]
      BY <2>2 DEF EntryOf
    <3>2. /\ Complete(cache'.slots, cache'.tried) /\ Succeeded(cache'.tried)
          /\ cache'.version \notin SameCity
      BY <1>2, <3>1
    <3>3. \A s \in Slots : \A k \in 1..Len(cache'.tried[s]) : cache'.tried[s][k] # "expired"
      BY <1>2, <2>2, <3>1
    <3>4. QED
      BY <3>2, <3>3 DEF CacheInv, Complete, Succeeded, Reports, Finished
  <2>3. QED
    BY <1>1, <2>1, <2>2
<1>7. ClientInv(c)'
  <2>1. pc'[c] = "answered" /\ answer'[c] = "ok"
    BY <1>1, CallFacts DEF TypeOK
  <2>2. QED
    BY <1>1, <1>2, <2>1 DEF ClientInv, Progress, Succeeded, Complete, Reports, Finished
<1>8. QED
  BY <1>4, <1>5, <1>6, <1>7, OneMoves

LEMMA ReturnInv == ASSUME AirfareInv, NEW c \in Clients, Return(c) PROVE AirfareInv'
<1>1. /\ UNCHANGED <<match, cache>> /\ pc' = [pc EXCEPT ![c] = "idle"]
      /\ answer' = [answer EXCEPT ![c] = "none"] /\ ctxDone' = [ctxDone EXCEPT ![c] = FALSE]
      /\ ver' = [ver EXCEPT ![c] = 0] /\ slot' = [slot EXCEPT ![c] = 1]
      /\ slots' = [slots EXCEPT ![c] = DefaultSlots]
      /\ calls' = [calls EXCEPT ![c] = 0] /\ failures' = [failures EXCEPT ![c] = 0]
      /\ tried' = [tried EXCEPT ![c] = Untried]
  BY DEF Return, Goto
<1>2. TypeOK'
  <2>1. 0 \in Versions /\ 1 \in 1..(Len(Attempts) + 1)
    BY VersionsAssumption, SlotsFacts DEF Versions
  <2>2. /\ ver' \in [Clients -> Versions] /\ slot' \in [Clients -> 1..(Len(Attempts) + 1)]
        /\ slots' \in [Clients -> [Slots -> SlotView]]
        /\ tried' \in [Clients -> [Slots -> Seq(Result)]]
    BY <1>1, <2>1, DefaultReports, CallFacts DEF TypeOK
  <2>3. QED
    BY <1>1, <2>2, CallFacts DEF TypeOK, PC, Codes
<1>3. Others(c)
  BY <1>1, CallFacts DEF Others, TypeOK
<1>4. /\ pc'[c] = "idle" /\ answer'[c] = "none" /\ slot'[c] = 1 /\ slots'[c] = DefaultSlots
      /\ calls'[c] = 0 /\ failures'[c] = 0 /\ tried'[c] = Untried
  BY <1>1, CallFacts DEF TypeOK
<1>5. ClientInv(c)'
  BY <1>4 DEF ClientInv, Progress, DefaultSlots, Untried
<1>6. QED
  BY <1>1, <1>2, <1>3, <1>5, SameCache, OneMoves

-----------------------------------------------------------------------------
(* The environment, and the invariant. *)

LEMMA InitInv == ASSUME Init PROVE AirfareInv
<1>1. TypeOK
  <2>1. 0 \in Versions /\ 1 \in 1..(Len(Attempts) + 1)
    BY VersionsAssumption, SlotsFacts DEF Versions
  <2>2. /\ ver \in [Clients -> Versions] /\ slot \in [Clients -> 1..(Len(Attempts) + 1)]
        /\ slots \in [Clients -> [Slots -> SlotView]]
        /\ tried \in [Clients -> [Slots -> Seq(Result)]]
    BY <2>1, DefaultReports DEF Init
  <2>3. QED
    BY <2>1, <2>2 DEF Init, TypeOK, PC, Codes
<1>2. CacheInv
  BY DEF Init, CacheInv
<1>3. ASSUME NEW c \in Clients PROVE ClientInv(c)
  BY DEF Init, ClientInv, Progress
<1>4. QED
  BY <1>1, <1>2, <1>3, InvSplits

LEMMA EnvironmentInv ==
  ASSUME AirfareInv, MatchChanges \/ Expire \/ UNCHANGED vars
  PROVE  AirfareInv'
<1>1. /\ UNCHANGED <<pc, ctxDone, answer, ver, slot, slots, calls, failures, tried>>
      /\ match' \in Versions /\ cache' \in {cache, NoEntry}
  BY VersionsAssumption DEF MatchChanges, Expire, vars, localVars, AirfareInv, TypeOK, Versions
<1>2. TypeOK'
  BY <1>1 DEF AirfareInv, TypeOK
<1>3. CacheInv'
  BY <1>1, SameCache DEF CacheInv
<1>4. \A c \in Clients : ClientInv(c)'
  BY <1>1, InvSplits, Untouched
<1>5. QED
  BY <1>2, <1>3, <1>4, InvSplitsNext

LEMMA CtxExpiresInv == ASSUME AirfareInv, NEW c \in Clients, CtxExpires(c) PROVE AirfareInv'
<1>1. /\ UNCHANGED <<match, cache, pc, answer, ver, slot, slots, calls, failures, tried>>
      /\ ctxDone' = [ctxDone EXCEPT ![c] = TRUE]
  BY DEF CtxExpires, localVars
<1>2. TypeOK'
  BY <1>1, CallFacts DEF TypeOK
<1>3. Others(c)
  BY <1>1, CallFacts DEF Others, TypeOK
<1>4. ctxDone'[c] = TRUE
  BY <1>1, CallFacts DEF TypeOK
<1>5. ClientInv(c)'
  BY <1>1, <1>4, CallFacts DEF ClientInv, Progress, Complete, Succeeded, Reports, Finished
<1>6. QED
  BY <1>1, <1>2, <1>3, <1>5, SameCache, OneMoves

\* The invariant holds for any number of concurrent calls and any slots.
THEOREM AirfareInvariant == Spec => []AirfareInv
<1>1. Init => AirfareInv
  BY InitInv
<1>2. AirfareInv /\ [Next]_vars => AirfareInv'
  <2>1. SUFFICES ASSUME AirfareInv, [Next]_vars PROVE AirfareInv'
    OBVIOUS
  <2>2. ASSUME NEW c \in Clients, Start(c) \/ Call(c) \/ CtxExpires(c) PROVE AirfareInv'
    BY <2>1, <2>2, StartInv, ReadCacheInv, LoadMatchInv, TryPricesInv, JudgeInv, StoreInv,
       ReturnInv, CtxExpiresInv DEF Call
  <2>3. CASE MatchChanges \/ Expire \/ UNCHANGED vars
    BY <2>1, <2>3, EnvironmentInv
  <2>4. QED
    BY <2>1, <2>2, <2>3 DEF Next
<1>3. QED
  BY <1>1, <1>2, PTL DEF Spec

\* Every variable keeps its type.
THEOREM TypeCorrect == Spec => []TypeOK
<1>1. AirfareInv => TypeOK
  BY DEF AirfareInv
<1>2. QED
  BY <1>1, AirfareInvariant, PTL

\* Served and cached slots name the narrowest window that had prices.
THEOREM ServesBestWindows == Spec => []SlotsAreBest
<1>1. AirfareInv => SlotsAreBest
  BY DEF AirfareInv
<1>2. QED
  BY <1>1, AirfareInvariant, PTL

\* A search fails exactly when every call of it failed.
THEOREM FailsOnlyWithoutSuccess == Spec => []AllOrNothing
<1>1. AirfareInv => AllOrNothing
  BY DEF AirfareInv
<1>2. QED
  BY <1>1, AirfareInvariant, PTL

\* A search cut short by its deadline never reaches the cache.
THEOREM CachesNothingLate == Spec => []NoLateEntries
<1>1. AirfareInv => NoLateEntries
  BY DEF AirfareInv
<1>2. QED
  BY <1>1, AirfareInvariant, PTL
=============================================================================
