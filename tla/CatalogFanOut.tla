---------------------------- MODULE CatalogFanOut ----------------------------
(***************************************************************************)
(* The handler of GET /v1/matches/upcoming-with-airfare: it loads a page   *)
(* of matches, starts one goroutine per match to ask the airfare provider, *)
(* at most MaxCalls at a time, and collects one result per match from a    *)
(* buffered channel that a further goroutine closes.                       *)
(* Items are numbered from 1; the code's index i is item i+1.              *)
(***************************************************************************)
EXTENDS Integers, Sequences, FiniteSets

CONSTANTS
  MaxItems,   \* bound on len(matches); the code's is maxUpcomingWithAirfareLimit
  MaxCalls    \* maxConcurrentAirfareCalls

ASSUME MaxItemsAssumption == MaxItems \in Nat
ASSUME MaxCallsAssumption == MaxCalls \in Nat \ {0}

VARIABLES
  pc,         \* where the handler's own goroutine is
  status,     \* HTTP status written, 0 while there is none
  ctxDone,    \* the request context has expired or was cancelled
  n,          \* len(matches)
  same,       \* items whose destination airport equals the origin
  next,       \* the launch loop's item
  g,          \* where the goroutine of each item is
  result,     \* the result that goroutine is about to send
  sem,        \* tokens in the semaphore channel
  wg,         \* the WaitGroup's counter
  resultsCh,  \* contents of the results channel, capacity n
  closer,     \* the goroutine that waits and closes the channel
  items,      \* resp.Items
  errors      \* resp.Errors, as item numbers

reqVars  == <<pc, status, ctxDone, n, same, next>>
callVars == <<g, result, sem, wg, closer>>
respVars == <<items, errors>>
vars     == <<reqVars, callVars, resultsCh, respVars>>

Items   == 1..MaxItems
Failed  == {"same_airport", "no_offers", "call_failed"}
Outcome == {"priced"} \cup Failed

PC == {"idle", "upcoming", "clubs", "launch", "acquire", "collect", "answered"}
GState == {"none", "calling", "sending", "releasing", "finishing", "exited"}

closed == closer = "exited"
-----------------------------------------------------------------------------
Init ==
  /\ pc = "idle" /\ status = 0 /\ ctxDone = FALSE
  /\ n = 0 /\ same = {} /\ next = 1
  /\ g = [i \in Items |-> "none"]
  /\ result = [i \in Items |-> "call_failed"]
  /\ sem = 0 /\ wg = 0
  /\ resultsCh = <<>> /\ closer = "none"
  /\ items = [i \in Items |-> "pending"]
  /\ errors = <<>>

Answered(code) == pc' = "answered" /\ status' = code

\* Method, club_id, limit and origin_iata are checked before anything else.
Receive ==
  /\ pc = "idle"
  /\ \/ \E code \in {400, 405} : Answered(code)
     \/ pc' = "upcoming" /\ UNCHANGED status
  /\ UNCHANGED <<ctxDone, n, same, next, callVars, resultsCh, respVars>>

\* matchClient.GetUpcomingMatches, then the filter and the cut to the limit.
\* The page is fixed here; it is read only after GetClubs has succeeded.
LoadMatches ==
  /\ pc = "upcoming"
  /\ \/ /\ ~ctxDone
        /\ n' \in 0..MaxItems
        /\ same' \in SUBSET (1..n')
        /\ pc' = "clubs" /\ UNCHANGED status
     \/ Answered(502) /\ UNCHANGED <<n, same>>
  /\ UNCHANGED <<ctxDone, next, callVars, resultsCh, respVars>>

LoadClubs ==
  /\ pc = "clubs"
  /\ \/ ~ctxDone /\ pc' = "launch" /\ UNCHANGED status
     \/ Answered(502)
  /\ UNCHANGED <<ctxDone, n, same, next, callVars, resultsCh, respVars>>

\* A match in the origin city is answered by the loop itself, which blocks
\* while the channel is full.
LaunchSameAirport ==
  /\ pc = "launch" /\ next <= n /\ next \in same
  /\ Len(resultsCh) < n
  /\ resultsCh' = Append(resultsCh, [index |-> next, outcome |-> "same_airport"])
  /\ next' = next + 1
  /\ UNCHANGED <<pc, status, ctxDone, n, same, callVars, respVars>>

\* Mutant: the loop forgets wg.Add(1).
LaunchNoAdd ==
  /\ pc = "launch" /\ next <= n /\ next \notin same
  /\ pc' = "acquire"
  /\ UNCHANGED <<status, ctxDone, n, same, next, callVars, resultsCh, respVars>>

\* wg.Add(1), before the semaphore is asked for.
LaunchAdd ==
  /\ pc = "launch" /\ next <= n /\ next \notin same
  /\ wg' = wg + 1
  /\ pc' = "acquire"
  /\ UNCHANGED <<status, ctxDone, n, same, next, g, result, sem, closer,
                 resultsCh, respVars>>

\* sem <- struct{}{} blocks while MaxCalls tokens are held; then go func.
LaunchGo ==
  /\ pc = "acquire" /\ sem < MaxCalls
  /\ sem' = sem + 1
  /\ g' = [g EXCEPT ![next] = "calling"]
  /\ next' = next + 1
  /\ pc' = "launch"
  /\ UNCHANGED <<status, ctxDone, n, same, result, wg, closer, resultsCh, respVars>>

LaunchEnd ==
  /\ pc = "launch" /\ next > n
  /\ closer' = "waiting"
  /\ pc' = "collect"
  /\ UNCHANGED <<status, ctxDone, n, same, next, g, result, sem, wg, resultsCh,
                 respVars>>

\* Mutant: a failed call is repeated for as long as it fails.
CallRetriesForever(i) ==
  /\ g[i] = "calling"
  /\ \/ /\ ~ctxDone
        /\ g' = [g EXCEPT ![i] = "sending"]
        /\ result' = [result EXCEPT ![i] = "priced"]
     \/ UNCHANGED <<g, result>>
  /\ UNCHANGED <<reqVars, sem, wg, closer, resultsCh, respVars>>

\* airfareClient.GetAirfareByMatch: a fare or none while the context is live;
\* an error at any time (the call's own deadline, the provider, the context).
CallReturns(i) ==
  /\ g[i] = "calling"
  /\ \E o \in {"priced", "no_offers", "call_failed"} :
        /\ ctxDone => o = "call_failed"
        /\ result' = [result EXCEPT ![i] = o]
  /\ g' = [g EXCEPT ![i] = "sending"]
  /\ UNCHANGED <<reqVars, sem, wg, closer, resultsCh, respVars>>

\* Mutant: no return after the error is sent, so "no offers" is sent as well.
SendTwice(i) ==
  /\ g[i] = "sending"
  /\ Len(resultsCh) < n
  /\ resultsCh' = Append(resultsCh, [index |-> i, outcome |-> result[i]])
  /\ IF result[i] = "call_failed"
       THEN /\ result' = [result EXCEPT ![i] = "no_offers"]
            /\ UNCHANGED g
       ELSE /\ g' = [g EXCEPT ![i] = "releasing"]
            /\ UNCHANGED result
  /\ UNCHANGED <<reqVars, sem, wg, closer, respVars>>

\* Blocks while the channel is full. A send on a closed channel would panic:
\* NoSendOnClosed below.
SendResult(i) ==
  /\ g[i] = "sending"
  /\ Len(resultsCh) < n
  /\ resultsCh' = Append(resultsCh, [index |-> i, outcome |-> result[i]])
  /\ g' = [g EXCEPT ![i] = "releasing"]
  /\ UNCHANGED <<reqVars, result, sem, wg, closer, respVars>>

\* Deferred calls run last-in first-out: the token, then the WaitGroup.
ReleaseToken(i) ==
  /\ g[i] = "releasing" /\ sem > 0
  /\ sem' = sem - 1
  /\ g' = [g EXCEPT ![i] = "finishing"]
  /\ UNCHANGED <<reqVars, result, wg, closer, resultsCh, respVars>>

\* Mutant: the goroutine may finish without giving its token back.
DoneKeepsToken(i) ==
  /\ g[i] \in {"releasing", "finishing"}
  /\ wg' = wg - 1
  /\ g' = [g EXCEPT ![i] = "exited"]
  /\ UNCHANGED <<reqVars, result, sem, closer, resultsCh, respVars>>

WaitGroupDone(i) ==
  /\ g[i] = "finishing"
  /\ wg' = wg - 1
  /\ g' = [g EXCEPT ![i] = "exited"]
  /\ UNCHANGED <<reqVars, result, sem, closer, resultsCh, respVars>>

\* Mutant: the channel is closed without waiting.
CloseAtOnce ==
  /\ closer = "waiting"
  /\ closer' = "exited"
  /\ UNCHANGED <<reqVars, g, result, sem, wg, resultsCh, respVars>>

\* wg.Wait(); close(resultsCh)
CloseResults ==
  /\ closer = "waiting" /\ wg = 0
  /\ closer' = "exited"
  /\ UNCHANGED <<reqVars, g, result, sem, wg, resultsCh, respVars>>

\* Mutant: an item without offers is not listed among the errors.
CollectCallErrorsOnly ==
  /\ pc = "collect" /\ resultsCh # <<>>
  /\ LET r == Head(resultsCh) IN
        /\ items' = [items EXCEPT ![r.index] = r.outcome]
        /\ errors' = IF r.outcome = "call_failed" THEN Append(errors, r.index)
                                                  ELSE errors
  /\ resultsCh' = Tail(resultsCh)
  /\ UNCHANGED <<reqVars, callVars>>

Collect ==
  /\ pc = "collect" /\ resultsCh # <<>>
  /\ LET r == Head(resultsCh) IN
        /\ items' = [items EXCEPT ![r.index] = r.outcome]
        /\ errors' = IF r.outcome \in Failed THEN Append(errors, r.index)
                                             ELSE errors
  /\ resultsCh' = Tail(resultsCh)
  /\ UNCHANGED <<reqVars, callVars>>

\* Mutant: the handler stops at the first moment the channel is empty.
RespondWhenDrained ==
  /\ pc = "collect" /\ resultsCh = <<>>
  /\ Answered(200)
  /\ UNCHANGED <<ctxDone, n, same, next, callVars, resultsCh, respVars>>

\* The range loop ends when the channel is closed and drained.
Respond ==
  /\ pc = "collect" /\ resultsCh = <<>> /\ closed
  /\ Answered(200)
  /\ UNCHANGED <<ctxDone, n, same, next, callVars, resultsCh, respVars>>

\* The handler's deadline passes or the client goes away.
CtxExpires ==
  /\ pc \notin {"idle", "answered"} /\ ~ctxDone
  /\ ctxDone' = TRUE
  /\ UNCHANGED <<pc, status, n, same, next, callVars, resultsCh, respVars>>

\* The handler returns; the next request starts with fresh locals.
Return ==
  /\ pc = "answered"
  /\ pc' = "idle" /\ status' = 0 /\ ctxDone' = FALSE
  /\ n' = 0 /\ same' = {} /\ next' = 1
  /\ g' = [i \in Items |-> "none"]
  /\ result' = [i \in Items |-> "call_failed"]
  /\ sem' = 0 /\ wg' = 0
  /\ resultsCh' = <<>> /\ closer' = "none"
  /\ items' = [i \in Items |-> "pending"]
  /\ errors' = <<>>

Handler ==
  \/ LoadMatches \/ LoadClubs
  \/ LaunchSameAirport \/ LaunchAdd \/ LaunchGo \/ LaunchEnd
  \/ Collect \/ Respond

Caller(i) == CallReturns(i) \/ SendResult(i) \/ ReleaseToken(i) \/ WaitGroupDone(i)

Next ==
  \/ Receive \/ Handler \/ CloseResults \/ CtxExpires \/ Return
  \/ \E i \in Items : Caller(i)

Spec == Init /\ [][Next]_vars

\* The Go scheduler runs every runnable goroutine, and a gRPC call returns at
\* the latest when its own deadline passes. Nothing is assumed of the arrival
\* of requests, of the context expiring or of calls succeeding.
Fairness ==
  /\ WF_vars(Handler)
  /\ WF_vars(CloseResults)
  /\ \A i \in Items : WF_vars(Caller(i))

FairSpec == Spec /\ Fairness
-----------------------------------------------------------------------------
Holding     == {i \in Items : g[i] \in {"calling", "sending", "releasing"}}
Outstanding == {i \in Items : g[i] \in {"calling", "sending", "releasing", "finishing"}}
Calling     == {i \in Items : g[i] = "calling"}

TypeOK ==
  /\ pc \in PC
  /\ status \in {0, 200, 400, 405, 502}
  /\ ctxDone \in BOOLEAN
  /\ n \in 0..MaxItems
  /\ same \in SUBSET Items
  /\ next \in 1..(MaxItems + 1)
  /\ g \in [Items -> GState]
  /\ result \in [Items -> Outcome]
  /\ sem \in 0..MaxCalls
  /\ wg \in Nat
  /\ resultsCh \in Seq([index : Items, outcome : Outcome])
  /\ closer \in {"none", "waiting", "exited"}
  /\ items \in [Items -> Outcome \cup {"pending"}]
  /\ errors \in Seq(Items)

\* No more than maxConcurrentAirfareCalls requests to the airfare provider are
\* in flight at once, whatever the order of launches and returns.
BoundedCalls == Cardinality(Calling) <= MaxCalls

\* A goroutine that still has its result to send never finds the channel
\* closed: close(resultsCh) cannot overtake a send, which would panic.
NoSendOnClosed ==
  closed => \A i \in Items : g[i] \notin {"calling", "sending"}

\* len(matches) slots are enough: neither the launch loop, which sends before
\* anyone receives, nor a goroutine holding a token ever waits for room.
SendsNeverBlock ==
  /\ pc = "launch" /\ next <= n /\ next \in same => Len(resultsCh) < n
  /\ \A i \in Items : g[i] = "sending" => Len(resultsCh) < n

\* When the handler answers nothing is left behind: every goroutine has
\* finished, every token is back and no result is unread.
NothingLeftBehind ==
  pc = "answered" =>
    /\ \A i \in Items : g[i] \in {"none", "exited"}
    /\ sem = 0 /\ wg = 0 /\ resultsCh = <<>>

\* A 200 page answers every listed match exactly once: the match is priced, or
\* it has an error and is listed once among the errors; a match in the origin
\* city never reaches the provider.
PageComplete ==
  status = 200 =>
    /\ \A i \in 1..n : items[i] # "pending"
    /\ \A i \in 1..n : items[i] = "same_airport" <=> i \in same
    /\ \A i \in Items :
         Cardinality({k \in DOMAIN errors : errors[k] = i}) =
           IF items[i] \in Failed THEN 1 ELSE 0
    /\ \A i \in same : g[i] = "none"

\* The counters count: a token for every goroutine that has not given its own
\* back, a unit of the WaitGroup for every goroutine that is not done (and for
\* the one about to be started).
Counts ==
  /\ sem = Cardinality(Holding)
  /\ wg = Cardinality(Outstanding) + (IF pc = "acquire" THEN 1 ELSE 0)

\* Items whose result is in the channel: sent and not yet collected.
Buffered ==
  {i \in 1..n : /\ \/ i \in same /\ i < next
                   \/ g[i] \in {"releasing", "finishing", "exited"}
                /\ items[i] = "pending"}

\* The channel holds exactly one result per buffered item.
ChannelHolds ==
  /\ Len(resultsCh) = Cardinality(Buffered)
  /\ \A k \in 1..Len(resultsCh) :
        /\ resultsCh[k].index \in Buffered
        /\ resultsCh[k].outcome = "same_airport" <=> resultsCh[k].index \in same
  /\ \A k, l \in 1..Len(resultsCh) :
        resultsCh[k].index = resultsCh[l].index => k = l

\* Which goroutines exist at each place of the handler.
Quiet ==
  /\ \A i \in Items : g[i] = "none" /\ items[i] = "pending"
  /\ resultsCh = <<>> /\ closer = "none" /\ next = 1 /\ errors = <<>>

Launching ==
  /\ same \subseteq 1..n /\ next <= n + 1
  /\ \A i \in Items : g[i] # "none" <=> i < next /\ i \notin same
  /\ \A i \in Items : result[i] # "same_airport"
  /\ \A i \in Items : items[i] # "pending" =>
        i \in same \/ g[i] \in {"releasing", "finishing", "exited"}

ClosesLast ==
  /\ pc \in {"idle", "upcoming"} => n = 0 /\ same = {}
  /\ pc \in {"idle", "upcoming", "clubs"} => Quiet /\ status = 0
  /\ pc \in {"launch", "acquire"} =>
        closer = "none" /\ \A i \in Items : items[i] = "pending"
  /\ pc = "acquire" => next <= n /\ next \notin same
  /\ pc = "collect" => closer # "none" /\ next = n + 1
  /\ closed => Outstanding = {}
  /\ pc = "answered" => Quiet \/ (closed /\ resultsCh = <<>>)
  /\ pc \notin {"idle", "answered"} => status = 0

\* The inductive invariant behind the properties above.
FanOutInv == TypeOK /\ Counts /\ ChannelHolds /\ Launching /\ ClosesLast

Phase == CASE pc = "idle" -> "idle"
           [] pc = "answered" -> "answered"
           [] OTHER -> "working"

Promise == INSTANCE CatalogPromise WITH phase <- Phase

\* The fan-out implements the promise of the endpoint.
ImplementsPromise == Promise!Spec

\* Every accepted request is answered, even when providers never answer and
\* the client's context expires half-way.
EveryRequestAnswered == pc = "upcoming" ~> pc = "answered"
=============================================================================
