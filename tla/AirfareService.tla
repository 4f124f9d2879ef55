--------------------------- MODULE AirfareService ---------------------------
(***************************************************************************)
(* The airfare provider's GetAirfareByMatch for one match and one origin:  *)
(* concurrent calls share a Redis entry; a call that misses it loads the   *)
(* match, asks the fare source for each slot, widening the time window of  *)
(* a slot until it finds a price, and caches what it built.                *)
(* Prices are abstracted to whether a call returned any.  Window level k   *)
(* is the k-th attempt of a slot: STRICT, SOFT_1, SOFT_2.                  *)
(***************************************************************************)
EXTENDS Integers, Sequences

CONSTANTS
  Clients,    \* concurrent calls
  Attempts,   \* attempts of each slot; the code's is <<1, 1, 3, 3, 1, 1>>
  MaxVersion, \* bound on the versions of the match (kickoff, destination)
  SameCity    \* versions whose destination airport is the origin itself

ASSUME AttemptsAssumption == Attempts \in Seq(Nat \ {0}) /\ Attempts # <<>>
ASSUME VersionsAssumption == MaxVersion \in Nat

VARIABLES
  match,    \* version the match adapter serves, 0 while it knows no such match
  cache,    \* the entry airfare:<match>:<origin>, NoEntry when absent
  pc,       \* where each call is
  ctxDone,  \* its context has expired or was cancelled
  ver,      \* version of the match it works with
  slot,     \* the slot its loop is at
  slots,    \* result.Slots: window level and whether there are prices
  calls,    \* sourceCalls
  failures, \* sourceFailures
  answer,   \* gRPC code answered
  tried     \* history: outcomes of the attempts made for each slot

localVars == <<ver, slot, slots, calls, failures, tried>>
vars == <<match, cache, pc, ctxDone, answer, localVars>>

Slots    == 1..Len(Attempts)
Versions == 0..MaxVersion
Levels   == Nat \ {0}
Bad      == {"failed", "expired"}
Result   == {"found", "none"} \cup Bad
SlotView == [level : Levels, found : BOOLEAN]

NoEntry == [version |-> 0]
Entry   == [version : Versions \ {0}, slots : [Slots -> SlotView],
            tried : [Slots -> Seq(Result)]]

PC    == {"idle", "cache", "match", "search", "judge", "store", "answered"}
Codes == {"none", "ok", "invalid_argument", "not_found", "unavailable", "internal"}

\* buildDefaultSlots: every slot starts without prices at the STRICT level.
DefaultSlots == [s \in Slots |-> [level |-> 1, found |-> FALSE]]
Untried      == [s \in Slots |-> <<>>]

Goto(c, place) == pc' = [pc EXCEPT ![c] = place]
Answer(c, code) == Goto(c, "answered") /\ answer' = [answer EXCEPT ![c] = code]
-----------------------------------------------------------------------------
Init ==
  /\ match = 0 /\ cache = NoEntry
  /\ pc = [c \in Clients |-> "idle"]
  /\ ctxDone = [c \in Clients |-> FALSE]
  /\ ver = [c \in Clients |-> 0]
  /\ slot = [c \in Clients |-> 1]
  /\ slots = [c \in Clients |-> DefaultSlots]
  /\ calls = [c \in Clients |-> 0] /\ failures = [c \in Clients |-> 0]
  /\ answer = [c \in Clients |-> "none"]
  /\ tried = [c \in Clients |-> Untried]

\* The match id and the origin are checked first.
Start(c) ==
  /\ pc[c] = "idle"
  /\ \/ Goto(c, "cache") /\ UNCHANGED answer
     \/ Answer(c, "invalid_argument")
  /\ UNCHANGED <<match, cache, ctxDone, localVars>>

\* Mutant: a hit is written back to renew its TTL.
ReadCacheSliding(c) ==
  /\ pc[c] = "cache"
  /\ \/ /\ cache # NoEntry /\ ~ctxDone[c]
        /\ ver' = [ver EXCEPT ![c] = cache.version]
        /\ slots' = [slots EXCEPT ![c] = cache.slots]
        /\ tried' = [tried EXCEPT ![c] = cache.tried]
        /\ Goto(c, "store")
     \/ Goto(c, "match") /\ UNCHANGED <<ver, slots, tried>>
  /\ UNCHANGED <<match, cache, ctxDone, slot, calls, failures, answer>>

\* A hit is the answer; a miss and a Redis error both lead to a search.
ReadCache(c) ==
  /\ pc[c] = "cache"
  /\ \/ /\ cache # NoEntry /\ ~ctxDone[c]
        /\ ver' = [ver EXCEPT ![c] = cache.version]
        /\ slots' = [slots EXCEPT ![c] = cache.slots]
        /\ tried' = [tried EXCEPT ![c] = cache.tried]
        /\ Answer(c, "ok")
     \/ Goto(c, "match") /\ UNCHANGED <<ver, slots, tried, answer>>
  /\ UNCHANGED <<match, cache, ctxDone, slot, calls, failures>>

\* Mutant: the route is not checked.
LoadMatchAnyRoute(c) ==
  /\ pc[c] = "match"
  /\ \/ /\ match # 0 /\ ~ctxDone[c]
        /\ ver' = [ver EXCEPT ![c] = match]
        /\ Goto(c, "search") /\ UNCHANGED answer
     \/ match = 0 /\ ~ctxDone[c] /\ Answer(c, "not_found") /\ UNCHANGED ver
     \/ Answer(c, "unavailable") /\ UNCHANGED ver
  /\ UNCHANGED <<match, cache, ctxDone, slot, slots, calls, failures, tried>>

\* matchReader.GetMatch: an unavailable or late match adapter is answered
\* "unavailable", any other failure "internal".
LoadMatch(c) ==
  /\ pc[c] = "match"
  /\ \/ /\ match # 0 /\ ~ctxDone[c]
        /\ ver' = [ver EXCEPT ![c] = match]
        /\ IF match \in SameCity
             THEN Answer(c, "invalid_argument")
             ELSE Goto(c, "search") /\ UNCHANGED answer
     \/ match = 0 /\ ~ctxDone[c] /\ Answer(c, "not_found") /\ UNCHANGED ver
     \/ \E code \in {"unavailable", "internal"} : Answer(c, code) /\ UNCHANGED ver
  /\ UNCHANGED <<match, cache, ctxDone, slot, slots, calls, failures, tried>>

Attempt(c) == Len(tried[c][slot[c]]) + 1

\* The loop over the slots goes on, or ends.
NextSlot(c) ==
  /\ slot' = [slot EXCEPT ![c] = @ + 1]
  /\ IF slot[c] = Len(Attempts) THEN Goto(c, "judge") ELSE UNCHANGED pc

\* Mutant: a failed call overwrites what the windows before it had answered.
TryPricesLast(c) ==
  /\ pc[c] = "search"
  /\ \E o \in {"found", "none", "failed"} :
        /\ ctxDone[c] => o = "failed"
        /\ tried' = [tried EXCEPT ![c][slot[c]] =
                       Append(@, IF o = "failed" /\ ctxDone[c] THEN "expired" ELSE o)]
        /\ calls' = [calls EXCEPT ![c] = @ + 1]
        /\ failures' = [failures EXCEPT ![c] = IF o = "failed" THEN @ + 1 ELSE @]
        /\ slots' = [slots EXCEPT ![c][slot[c]] =
                       [level |-> Attempt(c), found |-> o = "found"]]
        /\ IF o = "found" \/ Attempt(c) = Attempts[slot[c]]
             THEN NextSlot(c)
             ELSE UNCHANGED <<pc, slot>>
  /\ UNCHANGED <<match, cache, ctxDone, ver, answer>>

\* One fareSource.GetPrices call. A failure leaves the slot as the attempts
\* before it did; the first window with prices ends the slot, and so does the
\* last window whatever it returns.
TryPrices(c) ==
  /\ pc[c] = "search"
  /\ \E o \in {"found", "none", "failed"} :
        /\ ctxDone[c] => o = "failed"
        /\ tried' = [tried EXCEPT ![c][slot[c]] =
                       Append(@, IF o = "failed" /\ ctxDone[c] THEN "expired" ELSE o)]
        /\ calls' = [calls EXCEPT ![c] = @ + 1]
        /\ IF o = "failed"
             THEN /\ failures' = [failures EXCEPT ![c] = @ + 1]
                  /\ UNCHANGED slots
             ELSE /\ slots' = [slots EXCEPT ![c][slot[c]] =
                                 [level |-> Attempt(c), found |-> o = "found"]]
                  /\ UNCHANGED failures
        /\ IF o = "found" \/ Attempt(c) = Attempts[slot[c]]
             THEN NextSlot(c)
             ELSE UNCHANGED <<pc, slot>>
  /\ UNCHANGED <<match, cache, ctxDone, ver, answer>>

\* Mutant: one failed call is enough to give up.
JudgeAnyFailure(c) ==
  /\ pc[c] = "judge"
  /\ IF calls[c] > 0 /\ failures[c] > 0
       THEN Answer(c, "unavailable")
       ELSE Goto(c, "store") /\ UNCHANGED answer
  /\ UNCHANGED <<match, cache, ctxDone, localVars>>

\* Only when every call failed is the search itself a failure.
Judge(c) ==
  /\ pc[c] = "judge"
  /\ IF calls[c] > 0 /\ failures[c] = calls[c]
       THEN Answer(c, "unavailable")
       ELSE Goto(c, "store") /\ UNCHANGED answer
  /\ UNCHANGED <<match, cache, ctxDone, localVars>>

EntryOf(c) == [version |-> ver[c], slots |-> slots[c], tried |-> tried[c]]

\* Mutant: the write is detached from the context of the call.
StoreDetached(c) ==
  /\ pc[c] = "store"
  /\ cache' \in {cache, EntryOf(c)}
  /\ Answer(c, "ok")
  /\ UNCHANGED <<match, ctxDone, localVars>>

\* redis SET fails when the context is done; its failure is only logged.
Store(c) ==
  /\ pc[c] = "store"
  /\ cache' \in {cache} \cup (IF ctxDone[c] THEN {} ELSE {EntryOf(c)})
  /\ Answer(c, "ok")
  /\ UNCHANGED <<match, ctxDone, localVars>>

Return(c) ==
  /\ pc[c] = "answered"
  /\ Goto(c, "idle")
  /\ answer' = [answer EXCEPT ![c] = "none"]
  /\ ctxDone' = [ctxDone EXCEPT ![c] = FALSE]
  /\ ver' = [ver EXCEPT ![c] = 0]
  /\ slot' = [slot EXCEPT ![c] = 1]
  /\ slots' = [slots EXCEPT ![c] = DefaultSlots]
  /\ calls' = [calls EXCEPT ![c] = 0]
  /\ failures' = [failures EXCEPT ![c] = 0]
  /\ tried' = [tried EXCEPT ![c] = Untried]
  /\ UNCHANGED <<match, cache>>

Call(c) ==
  \/ ReadCache(c) \/ LoadMatch(c) \/ TryPrices(c) \/ Judge(c) \/ Store(c) \/ Return(c)
-----------------------------------------------------------------------------
(* Environment *)

\* The match adapter learns of the match, or of a change of it.
MatchChanges ==
  /\ match < MaxVersion
  /\ match' = match + 1
  /\ UNCHANGED <<cache, pc, ctxDone, answer, localVars>>

\* The TTL of the entry passes.
Expire ==
  /\ cache # NoEntry
  /\ cache' = NoEntry
  /\ UNCHANGED <<match, pc, ctxDone, answer, localVars>>

\* The caller's deadline passes or it goes away.
CtxExpires(c) ==
  /\ pc[c] \notin {"idle", "answered"} /\ ~ctxDone[c]
  /\ ctxDone' = [ctxDone EXCEPT ![c] = TRUE]
  /\ UNCHANGED <<match, cache, pc, answer, localVars>>

Next ==
  \/ \E c \in Clients : Start(c) \/ Call(c) \/ CtxExpires(c)
  \/ MatchChanges \/ Expire

Spec == Init /\ [][Next]_vars

\* A started call goes on: each call it makes has a timeout of its own. Redis
\* expires the entry: nothing renews the TTL of an entry that is only read.
FairSpec == Spec /\ WF_vars(Expire) /\ \A c \in Clients : WF_vars(Call(c))
-----------------------------------------------------------------------------
TypeOK ==
  /\ match \in Versions
  /\ cache \in Entry \cup {NoEntry}
  /\ pc \in [Clients -> PC]
  /\ ctxDone \in [Clients -> BOOLEAN]
  /\ ver \in [Clients -> Versions]
  /\ slot \in [Clients -> 1..(Len(Attempts) + 1)]
  /\ slots \in [Clients -> [Slots -> SlotView]]
  /\ calls \in [Clients -> Nat] /\ failures \in [Clients -> Nat]
  /\ answer \in [Clients -> Codes]
  /\ tried \in [Clients -> [Slots -> Seq(Result)]]

\* What a slot may say after the attempts t: the first window that had prices,
\* or no prices and the last window that answered at all, STRICT if none did.
Reports(view, t) ==
  /\ \A k \in 1..(Len(t) - 1) : t[k] # "found"
  /\ view.found => t # <<>> /\ t[Len(t)] = "found" /\ view.level = Len(t)
  /\ ~view.found =>
       /\ \A k \in 1..Len(t) : t[k] # "found" /\ (k > view.level => t[k] \in Bad)
       /\ view.level \in 1..Len(t) => t[view.level] = "none" \/ view.level = 1
       /\ view.level \notin 1..Len(t) => view.level = 1

Finished(s, view, t) == view.found \/ Len(t) = Attempts[s]

Complete(v, t) == \A s \in Slots : Reports(v[s], t[s]) /\ Finished(s, v[s], t[s])

\* Every page served, from a search or from the cache, names for each slot the
\* narrowest window that had prices, and no slot without prices was given up
\* before its last window was tried.
SlotsAreBest ==
  /\ cache # NoEntry => Complete(cache.slots, cache.tried)
  /\ \A c \in Clients : answer[c] = "ok" => Complete(slots[c], tried[c])

Succeeded(t) == \E s \in Slots : \E k \in 1..Len(t[s]) : t[s][k] \notin Bad

\* A search is a failure exactly when no call of it succeeded: nothing is
\* served or cached out of failures only, and one success is always served.
AllOrNothing ==
  /\ cache # NoEntry => Succeeded(cache.tried)
  /\ \A c \in Clients :
        /\ answer[c] = "ok" => Succeeded(tried[c])
        /\ answer[c] = "unavailable" => ~Succeeded(tried[c])

\* The cache holds only what a caller still waiting was given, of a match that
\* is flown to: a deadline that cuts a search short leaves no trace in it.
NoLateEntries ==
  cache # NoEntry =>
    /\ cache.version \notin SameCity
    /\ \A s \in Slots : \A k \in 1..Len(cache.tried[s]) : cache.tried[s][k] # "expired"

\* What the loop has done so far.
Progress(c) ==
  /\ pc[c] \in {"idle", "cache", "match"} =>
        slots[c] = DefaultSlots /\ tried[c] = Untried /\ slot[c] = 1
          /\ calls[c] = 0 /\ failures[c] = 0
  /\ pc[c] \in {"search", "judge", "store"} =>
        ver[c] # 0 /\ ver[c] \notin SameCity
  /\ pc[c] = "search" =>
        /\ slot[c] \in Slots
        /\ ~Finished(slot[c], slots[c][slot[c]], tried[c][slot[c]])
        /\ Len(tried[c][slot[c]]) < Attempts[slot[c]]
        /\ \A s \in Slots : s > slot[c] => slots[c][s] = DefaultSlots[s] /\ tried[c][s] = <<>>
        /\ \A s \in Slots : Reports(slots[c][s], tried[c][s])
        /\ \A s \in Slots : s < slot[c] => Finished(s, slots[c][s], tried[c][s])
  /\ pc[c] \in {"judge", "store"} => Complete(slots[c], tried[c])
  /\ pc[c] \in {"search", "judge"} =>
        /\ failures[c] <= calls[c]
        /\ failures[c] = calls[c] <=> ~Succeeded(tried[c])
  /\ pc[c] = "judge" => calls[c] > 0
  /\ pc[c] = "store" => Succeeded(tried[c])
  /\ pc[c] # "answered" => answer[c] = "none"
  /\ pc[c] \in {"search", "judge", "store"} /\ ~ctxDone[c] =>
        \A s \in Slots : \A k \in 1..Len(tried[c][s]) : tried[c][s][k] # "expired"

\* The inductive invariant behind the safety properties.
AirfareInv ==
  /\ TypeOK /\ SlotsAreBest /\ AllOrNothing /\ NoLateEntries
  /\ \A c \in Clients : Progress(c)

\* Once the match stops changing, no fare of an older kickoff or destination
\* stays in the cache.
EventuallyFresh == <>[](cache # NoEntry => cache.version = match)
=============================================================================
