# fan-avia: a TLA+ verification project

fan-avia helps football fans plan a trip: three Go services list the upcoming
matches of the Premierliga, find air fares to the city of a match for six
travel slots around the kickoff, and join the two.

    browser --HTTP--> api-gateway --gRPC--> airfare-provider --gRPC--> match-adapter
                           \------------------gRPC------------------------^   |
                                      airfare-provider --HTTP--> Travelpayouts |
                                      airfare-provider <-> Redis               |
                    match-adapter <-> Postgres, Redis; --HTTP--> Premierliga site

This directory holds the models of the parts where the services can go wrong in
ways a unit test hardly reaches, the TLC runs that check them, and the theorems
TLAPS proves about them. All definitions are translated from the Go code; the
file `PROJECT.json` names, for each of them, the lines it stands for.


## 1. Inventory

Paths are relative to `cmd/`. H = hard behaviour, P = what makes it correct.

### api-gateway

| component | state | operations | interaction |
|---|---|---|---|
| catalog handler `api/http/handlers/catalog_handler.go` | per request: semaphore, results channel, WaitGroup, page | GET upcoming-with-airfare | two calls to match-adapter, one goroutine per match to airfare-provider |
| match, club, airfare handlers | none | GET matches, upcoming, clubs, airfare | one or more gRPC calls, errors mapped to HTTP |
| gRPC clients | none | each call under its own timeout | match-adapter, airfare-provider |
| `cmd/main.go` | HTTP server, connections, signals | start, graceful shutdown | deadline arithmetic for the catalog |

H: launch loop, up to 100 goroutines, closer and collector share one channel;
the request's context may end at any point; the server's write timeout, the
shutdown timeout and the handlers' deadlines are set one by one. P: every request
is answered; each match resolved once; bounded calls; no send on the closed
channel; nothing leaked; answers are written in time; a shutdown cuts no request
that it could have waited for.

### match-adapter

| component | state | operations | interaction |
|---|---|---|---|
| match service `application/service/match_service.go` | none of its own | GetMatch, GetUpcomingMatches, GetClubs, SyncUpcomingMatches | cache, repository, source, city resolver |
| sync loop `cmd/main.go` | ticker | run at startup and every interval | one service call under a run timeout |
| Postgres repository | tables matches, club_dictionary, city_iata | GetByID, GetUpcoming, Upsert, ResolveDestinationIATA, GetClubs | |
| Redis match cache | `match:<id>` with TTL | GetByID, Set | |
| Premierliga source | none | FetchByID, FetchUpcomingIDs | HTTP client with retries |
| Redis refresh-token repository | two keys per token, blacklist | save, look up, delete, blacklist | constructed by no program |
| diagnostic handler `transport/handler/diagnostic.go` | none | compare source and table of one match | source, repository |
| gRPC transport, `grpcapp` | server | errors to gRPC codes, run, stop | match service |
| `cmd/main.go` | tracer, pool, Redis client, two servers, sync goroutine | start, shutdown | signals, error channels of the servers |

H: GetMatch calls and the sync write the same rows and cache entries without
locks or versions; failures and restarts between two writes; a run that ends in
the middle. P: only stored matches are served; no match without a destination;
a row regresses only in a race; the sync repairs what races and failures left of
the matches it goes on listing; a snapshot for diagnosis tells real differences; stores outlive the work on them.
H also: main waits for neither the sync nor, after a failure, for requests.

### airfare-provider

| component | state | operations | interaction |
|---|---|---|---|
| airfare service `application/service/airfare_service.go` | none of its own | GetAirfareByMatch | cache, match-adapter, fare source |
| Redis airfare cache | `airfare:<match>:<origin>` with TTL | get, set | |
| Travelpayouts client, price mapper | none | GetPrices, ExtractPrices | one HTTP call per window |
| match client | none | GetMatch | match-adapter; errors mapped |
| gRPC transport, `grpcapp`, `cmd/main.go` | server, connections | errors to gRPC codes, run, stop | |

H: up to ten source calls per request that fail one by one; a deadline in the
middle; two calls sharing the cache entry while the match moves. A call
asks for the 30 cheapest offers of a day and cuts them to the window afterwards. P:
each slot reports the narrowest window that showed prices; failure only when everything
failed; nothing mutilated is cached; stale fares leave the cache.

Not part of the models at all: configuration, logging, tracing, generated
protobuf code, migrations, deployment files. `PROJECT.json` lists every
component with its status, and every hazard with its line and the properties
that watch it.


## 2. Modules

| module | role |
|---|---|
| `CatalogPromise` | abstract contract of GET /v1/matches/upcoming-with-airfare |
| `CatalogFanOut` | the handler and its goroutines; refines `CatalogPromise` |
| `CatalogFanOut_proofs` | theorems about it |
| `MatchStore` | GetMatch calls and the sync over Postgres and Redis |
| `MatchStore_proofs` | theorems about it |
| `AirfareService` | concurrent GetAirfareByMatch calls over one cache entry |
| `AirfareService_proofs` | theorems about it |
| `RequestChain` | one airfare request through all three services: deadlines and error codes |
| `SourceClient` | a sync run over the HTTP client of the site, with its retries |
| `CallFailures_proofs` | theorems about `RequestChain` and `SourceClient`: what failing calls come to |
| `UpcomingWindow` | which matches a sync run is about: tournaments, window, limit |
| `MatchSource_proofs` | theorems about `UpcomingWindow` and `MatchSnapshot`: what is made of the site |
| `TripFares` | slots, time windows, filtering of offers, and findBestFare |
| `TripFares_proofs` | theorems about it |
| `MatchPages` | pages of upcoming matches, lists by id, single matches, clubs |
| `MatchPages_proofs` | theorems about it |
| `MatchSnapshot` | the diagnostic comparison of site and table while the row is written |
| `Lifecycle` | each of the three programs from start to end: signals, servers, shutdown |
| `Lifecycle_proofs` | theorems about it |
| `MC...` | the instance of each module for TLC |

In each module the operators marked `Mutant:` are variants of the definition
that follows them with a plausible bug. They are not part of the
specification; each property has one that breaks it, so that a property that
holds is known to depend on the code.

### CatalogFanOut

One request at a time, repeated for ever (`Return`). `pc` is the place of the
handler's own goroutine, `g[i]` of the goroutine of match `i`, `closer` of the
goroutine that waits and closes. `sem` counts tokens, `resultsCh` is the
buffered channel, `wg` the WaitGroup's counter, `items` and `errors` the page.

* `Receive`, `LoadMatches`, `LoadClubs`: validation and the two calls, each with
  its early return 400/405/502. `LoadMatches` chooses the page (how many matches,
  which have the origin as destination) that the code computes from both answers.
* `LaunchSameAirport`, `LaunchAdd`, `LaunchGo`, `LaunchEnd`: the loop. `wg.Add`,
  the blocking acquire and the blocking send are separate steps.
* `CallReturns`, `SendResult`, `ReleaseToken`, `WaitGroupDone`: a goroutine. The
  deferred calls run in reverse order: token first, WaitGroup last.
* `CloseResults`, `Collect`, `Respond`: the closer and the collecting loop.
* `CtxExpires` at any time: calls can then only fail.

Prices are abstracted: a goroutine sends "priced", "no_offers" or "call_failed".
The code tells a failed item by a non-empty message; messages of gRPC errors are
taken to be non-empty, as all messages of the airfare provider are.

`ImplementsPromise` is the refinement: `CatalogPromise` knows a request only as
idle, working or answered, and resolves listed matches once each in any order.

### MatchStore

A match is the version of it the site has published; 0 is none. `source`, `db`
and `cache` hold the version at the site, in the table and under `match:<id>`.
Each process (GetMatch calls, the sync) has a place `pc`, an id `job` and its
local variable `val`. Each call to a store or the site is one step, and any may
fail (`Fault`); an upsert that fails may have been committed.

* `StartGet` ... `Return`: GetMatch, branch by branch.
* `Tick`, `SyncList`, `SyncFetch`, `SyncEnrich`, `SyncUpsert`, `SyncFill`: one run.
  `NextId` and `EndRun` are the loop's continue and its returns; a context error
  ends a run at once, any other failure counts an id as failed. Which of the
  published matches a run lists depends on the hour, the tournaments and the limit,
  which are `UpcomingWindow`'s: here it lists any of them, in any order. So a match
  may never be listed again, as one that is over never is; what the last write left
  of it then stays in the table, and `EventuallyConsistent` speaks of the others.
* `HasDestination`: the city resolver and the fallback by home club, as a set of
  versions for which both fail.
* `Publish`, `Expire`, `Crash`: the site, the TTL, a restart of the adapter.

`stored`, `overtaken` and `written` are history the properties read: no action's
guard depends on them. A missing cache (`nil`) and a TTL of zero behave as a
cache whose calls fail. A write whose caller gave up is not delayed past that
moment; a restart abandons calls between two steps, not inside one.

### AirfareService

One match and one origin, hence one cache entry; `match` is the version the
match adapter serves, and `SameCity` are the versions whose destination is the
origin. Per call: the loop's `slot`, the `slots` built so far, the two counters,
the code answered. `tried` is history: the outcome of each attempt of each slot,
kept in the cache entry too so that a served entry can be judged.

* `Start`, `ReadCache`, `LoadMatch`: validation, hit or miss, match lookup with
  its four ways to fail.
* `TryPrices`: one call to the fare source and what the loop does with it.
* `Judge`, `Store`: failure only if every call failed; the cache write, whose
  failure is only logged. go-redis refuses a command whose context is done.
* `MatchChanges`, `Expire`, `CtxExpires`: the match moves, the TTL passes, the
  caller gives up.

`Attempts` gives the number of windows of each slot; the code's is
<<1, 1, 3, 3, 1, 1>>. Window levels are the position of the attempt.


### RequestChain

`gw`, `pv` and `ad` are the places of one request in the gateway, the provider
and the adapter, each with the state of its context; `toGw` and `toPv` are
answers on their way back; `callExpired` is the provider's own timeout around
its call to the adapter. The five tables of errors are operators: `AdapterCode`
and `ProviderCode` (the two gRPC transports), `MatchClientErr` (the provider's
client), `HTTPStatus` (the gateway), `CtxCode` (gRPC itself).

* A context ends by its own timer or because its caller's did (`ProviderCtxEnds`,
  `AdapterCtxEnds`), in any order with the answers: a caller may take an answer
  or give up, and a request given up goes on behind it until it notices.
* `LoseProvider`, `LoseAdapter`, `Disconnect`: broken connections and a client
  that hangs up. An adapter whose connection is lost may or may not go on.
* `facts` is history: what went wrong where. The properties compare it with the
  status; no guard reads it.
* `FetchSource`: the site client's timeout is a deadline for errors.Is and
  becomes DeadlineExceeded, which the provider's client makes a temporary
  failure and the gateway a 503.

### SourceClient

`tried[i]` are the outcomes of the requests made for match `i` in this run.
`Request` is postOnce and everything postWithRetry and the sync loop do with its
result; `Backoff` the pause, which ends with its timer or the context; when both
are due either may win, as in a Go `select`. What follows a fetch is
`MatchStore`'s subject and takes no step here; the length of a pause is left out.

### UpcomingWindow

`Init` chooses the site: dates of tournaments, their fixtures, a kickoff of each
match. `GetTournaments` selects, `GetMatches` asks one tournament and keeps the
candidates, `Answer` sorts and cuts. The code asks the selected tournaments in
an order of its own; the model in any order, which contains it. A kickoff
without a zone is `ListedKickoff` here and `StoredKickoff` for the mapper, which
differ by `Offset`.

### TripFares

Hours are counted from the beginning of the day of the match. `Slots` are the
six slots; `OutWindow`, `RetWindow` the normalised policy; `Fits` is
passesTimeConstraints and `ExtractPrices` the loop around it. `CallFails` and
`GetPrices` are a call and its consequence for the slot; `LookAtSlot` is one turn
of findBestFare's loop, which compares the slot's least price with the fares in
hand (`BestStep`), and `FindBestFare` what follows the loop. The site is external:
it has the offers of a direction and a local date of departure (`Listed`). What it
answers is what the client asks for (`Answers`): buildURL sends `sorting=price` and a
limit of `AskedFor` offers, not the window, so that the cheapest are cut out first and
`ExtractPrices` drops those outside the window afterwards. An offer with as many
others of the day that are no dearer is `Hidden`: the code may miss it, and with it
the slot or the narrower window.

### MatchPages

The table holds rows of a kickoff and two clubs. `ParseLimit`, `FetchLimit` and
`AdapterLimit` are the bounds a limit passes; `Query` is the SQL query with its
order, ties in any; `FilterByClub` the gateway's filter, after which the page is
cut (`First`). A list by id loads one
match after the other under one deadline (`LoadNext`, `CtxExpires`); a single
match and the clubs are one call each, and a page and a match then need the
dictionary of clubs, without which they are a 502 (`LoadClubs`). The sync writes
(`Upsert`) and time passes between the steps; `seen`, `asked` and `late` are
history: the table at the time the page was read, the ids asked for, and those
reached after the deadline.

### MatchSnapshot

One match. The site says of it a publication of a home club, a city and a rest
that stands for the fields compared alike. `Mapped` is ToDomainMatch, which
spells the city its own way and knows no airport; `Enriched` is what the
repository adds before a write. The handler reads the site (`ReadSource`) and
then the row (`ReadRow`) under one deadline; either may fail, and the answer is
200 all the same. Between any two steps the site may publish and the sync and a
GetMatch call may fetch and write; the call looks for the row first (`MissRow`) and
may find that the sync has written it when it comes to write its own. `sourceOf`, `rowOf` and `dbOf` are history: the
publications behind what was read. Fetched matches without a destination are
dropped before a write, as `MatchStore` has it. The sync keeps asking for the
match: matches that are over are not compared here.

### Lifecycle

`svc` chooses the program and `conf` its settings. `GatewayStartup`,
`ProviderStartup` and `AdapterStartup` are what each main opens, in order; `step`
says how far it is, and `Close` runs the deferred functions backwards. `End` is
the end of the process, with everything that is still going on in it.

* `Open`, `OpenFails`: the startup; a fatal error runs no deferred function.
* `OnSignal`, `OnServerError`, `OnDebugError`: the select of main. The adapter
  calls `stop()` in the last two; only `OnServerError` skips the stop of the server.
* `MainStopped`: GracefulStop waits for calls and streams without a timeout,
  Shutdown of the gateway for at most `conf.shutdown`. `DebugStopped`: five
  seconds at most.
* `Listen`, `ServeFails`, `Arrive`, `Answer`, `Leave`: servers and their requests.
  A kind of request has a deadline (`Limit`), or is a gRPC call or a health watch,
  which have those of their callers, or none.
* `SyncStep`: the sync goroutine, which nobody waits for.
* `Signal`: caught or fatal. `Tick`: half a second, which passes only while a
  timed request or a shutdown runs; both end when their time is over.

`way`, `killed`, `lost` and `late` are history. The adapter's sync is always
enabled here, which is the case with more to go wrong; its settings are limits
of a run and are left to `SourceClient`. That Close of the Postgres pool waits
for connections in use only takes time and is left out, as is the order in which
parts without an effect on others (logger, tracer's flush) are closed.


## 3. Runs

| run | instance | states | shows |
|---|---|---|---|
| `fanout` | 3 matches, 2 calls at a time, fair | 47 thousand | the fan-out keeps its channel discipline, implements the promise of the endpoint, and answers with a complete page |
| `store` | 2 matches, 1 reader, sync, 2 versions, 1 fault, 1 restart, fair | 1.1 million | what is stored, cached, served and counted; the sync repairs what it goes on listing |
| `airfare` | 2 calls, one slot of 2 windows, 3 versions of which the second is in the origin city, fair | 266 thousand | safety of the search and its cache; stale fares leave the cache |
| `chain` | one request at a time, fair | 2 thousand | a status says what happened; nobody waits for ever |
| `sync_run` | 3 matches, 3 attempts, fair | 3 thousand | what is retried and counted, what ends a run, and that it ends |
| `source_timeout` | the same | violation | one slow request ends a run |
| `upcoming` | 3 tournaments, 2 matches, limit 1 | 2 million | no early match is dropped for a later one |
| `upcoming_zone` | the same | violation | a match before the window is listed |
| `trip_fares` | up to 4 of 13 offers, of which a call asks for 2, 2 kickoffs, 1 failing call | 296 thousand | offers that reach a slot let a fan see the match; what is missing is hidden by the limit; the summary names the cheapest |
| `pages` | 3 matches of 3 clubs, lists of 2 ids, 1 write | 1.8 million | a page holds the earliest matches of a club; each id of a request is accounted for |
| `lifecycle` | 3 programs, 2 requests at a time, 20 settings of the gateway and 3 of the adapter, fair | 54 thousand | which work meets a closed store, is cut or answered late, and why; a program told to stop ends |
| `snapshot` | 5 publications of a match, fair | 15 thousand | reported differences are real, and go away when the site settles |

Each module has one type invariant, `TypeOK` but for the two prefixes that section 4
explains, which is a conjunct of one of the
invariants its run checks: `FanOutInv`, `StoreInv`, `AirfareInv`, `CountsFinals`,
`StatusHasItsCause`, `EarliestFirst`, `NothingInTimeIsLost`, `EarliestOfTheClub`,
`SnapshotIsTrue` and `StoresOutliveWork`.

### Bounds and why they are enough

* `MaxItems = 3`, `MaxCalls = 2`: a match can wait for a token while two hold
  one, and the channel can be full while another send is due. The code's 100
  and 4 are covered by the theorems.
* `MaxVersion = 2`: an older and a newer version of a match are all that a
  regression or a stale entry needs.
* `MaxFaults = 1`, `MaxCrashes = 1`: each failure branch and each place of a
  restart is reached, also one after the other. Both are bounds on the
  environment; the safety theorems hold for every value of them.
* `Unresolvable`: the last version of one match has no destination, so that the
  case `EventuallyConsistent` excludes occurs beside the one it promises. That some
  match is never listed again occurs too: without its premise the property is violated.
* One reader beside the sync, two airfare calls: races need two. The theorems
  cover any number. No symmetry is declared, as liveness is checked too.
* `Attempts` of one slot with two windows: a failed or empty attempt before
  another one needs two. `MaxVersion = 3` with the second in the origin city has the
  match move there and away again. The theorems cover the code's six slots.
* `SourceClient`: three matches have a first, a middle and a last; three attempts
  have a retry that is not the last. `MaxAttempts` is a setting in the code.
* `UpcomingWindow`: days of two hours and an offset of one keep hours few while
  every kickoff still can fall on either side of each end of the window in either
  reading. `MaxSelected = 2` of three tournaments and `Limit = 1` of two matches
  are both exceeded by some sites.
* `TripFares`: the real hours and the service's default windows, one of them
  configured the wrong way round; offers lie around each end of a window.
  `Limit = 2` stands for the code's 30 and `MaxOffers = 4` exceeds it by two, so that
  two cheaper offers outside a window hide one or two inside it, ties included:
  without `Hidden` both `NothingInTimeIsLost` and `NarrowestWins` are violated, and
  without the order by price `NarrowestWins` is. The theorems hold for any limit.
* `MatchPages`: page limits of 1 and 2 stand for the code's 12 and 100 and 3 for
  the adapter's 500, so that three matches exceed all but the last; `MaxIds = 2`
  gives an id after a failed one and an id asked for twice; `MaxUpserts = 1` and
  `MaxNow = 1` put a write and a kickoff between the steps of a request.
* `MatchSnapshot`: publications whose city is in another spelling than the table's,
  missing, unknown, and unreadable ones; a home club with and without an entry;
  nothing else is bounded.
* `Lifecycle`: two requests, so that one can be waited for while another is cut.
  Ticks are half a second, the unit of the deadline arithmetic. `CatalogMax = 4`
  stands for the code's 40 ticks and `DebugGrace = 2` for its 10. Write timeouts of
  0 to 6 ticks are none, below, at and above the least deadline of a second, and
  above `CatalogMax`; shutdown, client and debug timeouts lie on both sides of what
  they compete with. The theorems hold for all settings.

Deadlock is checked in every run.

### Fairness

* `CatalogFanOut!Fairness`: weak fairness of the handler's goroutine, of the
  closer and of each call goroutine. The Go scheduler runs runnable goroutines
  and each gRPC call has a timeout (`clients/airfare/client.go`). Nothing is
  assumed of requests, of the context or of calls succeeding.
* `MatchStore!FairSpec`: weak fairness of the sync only. The ticker keeps firing
  and every call of a run is under the run's context. Calls fail finitely often,
  because `faults` is bounded: without that no repair can be promised. GetMatch
  calls may stop anywhere, and expiry is not assumed. Nor is it that a match is
  listed: that is the premise of `EventuallyConsistent`, match by match.
* `AirfareService!FairSpec`: a started call goes on, because each of its calls
  has a timeout, and an entry expires: the code never renews a TTL by reading.
* `SourceClient!FairSpec`: a request returns, since the HTTP client has a timeout,
  and a pause has a timer. The deadline of the run is not assumed to pass.
* `RequestChain!FairSpec`: the gateway's timer fires and the gateway acts on it and
  on answers; nothing is assumed of the provider, which may hang for ever.
  `ProviderEnds` is stated under `ProviderFairness`: its timer for the adapter
  fires and its calls to Redis and to the fare site have timeouts; nothing is
  assumed of the adapter.
* `MatchSnapshot!FairSpec`: the handler goes on, because it has a deadline; the
  ticker starts runs again and again, which fetch the match (weak fairness) and,
  one in a while, get as far as the write (strong fairness, as runs may fail). This
  is so of a match the runs go on listing, the only kind `SnapshotsSettle` is about.
* `Lifecycle!FairSpec`: main goes on and handlers return, since the calls they make
  have timeouts. Nothing is assumed of signals, of streams or of the sync;
  `ProcessEnds` says itself that it needs the streams to end.

`UpcomingWindow`, `TripFares` and `MatchPages` are checked for safety only; their
runs need no fairness.

### Findings

Two runs state what a comment or a test of the repository says and find it
violated by what the code does.

`source_timeout`: the test of a partial failure (`match_service_test.go:290`)
expects that a match that cannot be fetched leaves the others to be synced. One
that fails by the HTTP client's own timeout does not: the error satisfies
`errors.Is(err, context.DeadlineExceeded)`, is not retried, and ends the run
(`match_service.go:160`). Ids are visited in order of kickoff, so a match whose
page is always slow keeps all later ones from being synced.

`upcoming_zone`: the mapper's comment (`match_mapper.go:48`) says that the site
prints local time where it prints no zone, and converts it from Moscow time;
`source.go:203` reads the same string as UTC. The window is therefore off by
three hours at both ends; `OffByZone` bounds the damage.

What the models show of the shutdown, without a document that says otherwise:
a run of the sync may begin after the context has ended and before the process
does, on stores that are closed already; a failing gRPC server takes the calls
in progress with it; a health watch delays the end for as long as its client
likes; and a gateway whose handlers' timeout exceeds its write timeout loses
their late answers (`StoresOutliveWork`, `LossHasACause`, `ProcessEnds` and
`AnswersArrive` name these cases and no others).

One divergence was seen while modelling and has no run, as the names of levels
are not modelled: `openapi.yaml:577-580` lists STRICT, SOFT_2 and SOFT_4 as the
values of windowLevel, while the transport names the second window of a slot
SOFT_1 (`server.go:207-208`) and never a SOFT_4.


## 4. Proofs

Each proof module proves an inductive invariant and derives the properties from
it. The only assumptions are the named ones on constants: bounds are naturals,
`MaxCalls` is positive, `Ids` is finite and not empty, the sync is not a reader,
`Attempts` is a nonempty sequence of positive naturals, timeouts are naturals, each
direction has at least one window on the day of the match, offers are finitely
many, the gateway's limits on a page lie within the adapter's, tournaments and
matches are finitely many. One theorem, `WideWindowsLoseNothing`, has a
hypothesis of its own, explained below.
`CallFailures_proofs` and `MatchSource_proofs` are about two models each; to be
extended together, `RequestChain` and `MatchSnapshot` put their own name before what
every model has (`ChainInit`, `ChainNext`, `ChainSpec`, `ChainTypeOK`; `SnapshotInit`
and so on).

* **CatalogFanOut** (`FanOutInv`). None of the safety properties is inductive:
  that the channel has room follows only from knowing what is in it. `Counts`
  says that `sem` and `wg` are cardinalities of sets of goroutines, `ChannelHolds`
  that the channel holds one result for each item sent and not yet collected
  (`Buffered`), `Launching` and `ClosesLast` which goroutines exist in each
  phase. A goroutine about to send is not in `Buffered`, a subset of 1..n, so the
  channel is not full (`ChannelIsLargeEnough`). The channel is closed when the
  WaitGroup is zero, hence when no goroutine is outstanding (`ClosedAfterSends`).
  `FanOutImplementsPromise` maps each step to a step of `CatalogPromise` or a
  stutter, for every value of both constants. `PagesAreComplete` needs `PageInv` on
  top: an item that has left "pending" stands in the list of failures once if it
  failed and not at all if it did not, and no answer 200 leaves one pending.
* **MatchStore** (`StoreInv`). `NeverAhead`: no version in hand is newer than
  the site's, and a process that nobody overtook holds a version at least as new
  as the row it is about to write; this gives `RegressionsAreRaces`.
  `RowsAreStored`: what a process is about to put into the cache has been written
  to the table; this gives `ServesOnlyStored`. `StoresDestinations` follows from
  what `NeverAhead` says about a process that is about to write. `RunsAreCounted`
  needs `AccountsInv` on top: the ids still to visit are distinct, none of them has
  been written, and `saved` is the number of ids written, without the one in hand,
  which is among them just while its cache entry is being filled.
* **AirfareService** (`AirfareInv`). `Progress` says, at each place of the loop,
  what the finished slots report, that the current one is unfinished and that
  the two counters agree with the outcomes. It gives `ServesBestWindows`,
  `FailsOnlyWithoutSuccess` and `CachesNothingLate`.

* **SourceClient** (`RunInv`). Neither property is inductive. `Sequenced` says that
  the match in hand has only met an unavailable site and has an attempt left, that
  those before it are concluded and those after it untouched: hence
  `AttemptsAreBounded`. `Counted` and `Explained` say of every moment of a run what
  `CountsFinals` says of its end: hence `RunsAreAccounted`.
* **RequestChain** (`ChainInv`). The module has no constants, so the theorems add no
  case to the run's; they add the reason. The properties speak of the status, but
  the cause must be known of each answer on its way (`AdapterAnswers`,
  `ProviderAnswers`) and is passed on only because a call that ended with its
  caller's context is answered to nobody: `Contexts` says which context ended before
  which. A late 404 of the site is the hard case: an adapter still at work behind a
  provider that has answered was given up, which is one of the excuses
  `NotFoundIsGenuine` names (`Excused`).
* **Lifecycle** (`LifecycleInv`). `PhaseInv`, `ServersInv` and `SignalsInv` say what
  is open, running and caught at each place of main. The heart is what it says of a
  request: while a shutdown waits, the shutdown's timer is no larger than the
  request's age, because the server takes no new requests, and the age is no
  larger than the request's limit. So a request left when the timer runs out has a
  limit no smaller than the shutdown's: it is one that may outlast it. This gives
  `WorkFindsItsStores` and `NothingIsLostWithoutCause`; `CatalogAnswersInTime` is
  arithmetic on the same bound.
* **UpcomingWindow** (`WindowInv`). `EarliestFirst` is about the answer, but what
  makes it true is known while the tournaments are asked: which were chosen, that
  each one done with is read or remembered as a failure, and that what was read is
  among the candidates. A match played in the window makes its tournament overlap
  it (`PlayedWithin`), and the latest k of at most k tournaments are all
  (`LatestOfFew`), so its tournament was asked; a sorted list of all candidates has
  it at some place (`EveryValueOnce`), which is behind the cut only if the list is
  full of matches that are no later (`AnswerIsEarliest`). `AnswersAreRead` and
  `ZoneIsOffByOffset` rest on the same invariant.
* **MatchSnapshot** (`SnapshotInv`). The row and what was read of it are the
  enriched form of a publication that could be stored, what was read of the site
  the mapped form of one; `SnapshotsAreTrue` then compares the two forms field by
  field.
* **MatchPages** (`LookupInv`, `PageInv`). The loop over a list of ids: what is left of
  the list is its end (`Rest`), the errors made after the deadline are the end of the
  errors (`Overdue`), and each id up to the one in hand has been counted
  (`Accounted`). `IdsAreAccounted` is what remains of it at the answer. `PageInv` says
  of a page, from the query to the answer, that it is the earliest of what the query
  saw: the adapter's limit is no smaller than the page's (`LimitsFit`), the gateway's
  filter finds nothing to drop in a list of the club's matches (`FilterIsIdle`), and
  what is cut off the ordered list is no earlier (`PageIsEarliest`). An increasing
  list of the numbers up to n is shown to be theirs with `LeastNumber`, the least
  element of a set of naturals, which stands in for an induction.
* **TripFares** (`SlotsInv`, `BestInv`). A slot that is decided has the prices that fit
  the window it names and nothing fitted the narrower windows whose calls succeeded,
  but for hidden offers in both cases (`Shown`); the slot in hand has tried the windows
  before. An offer that the limit cuts is hidden (`CutIsHidden`): a cut answer is full,
  and all of it is no dearer than what is cut. `FaresAreInTime` also needs that a
  configured window, normalised, never ends after the kickoff (`Windows`). `BestInv`
  is about findBestFare: after n slots the fare in hand is the least of their prices,
  in all and in each direction, and is dated by a slot that has it (`SumsUp`); one
  step of the loop keeps that (`BestStepSumsUp`). `WideWindowsLoseNothing` has
  `WideWindows` as hypothesis: the widest window out reaches from the kickoff over all
  hours since local midnight before it, and the widest window back begins at the
  kickoff. The service's defaults do so (24 hours and 0; the instance for TLC
  asserts it), but not every policy that can be configured, and without it the
  property is false.

Every invariant and action property of the passing runs is the statement of a
theorem. Only model-checked are the liveness properties (`EveryRequestAnswered`,
`EventuallyConsistent`, `EventuallyFresh`, `GatewayAnswers`, `ProviderEnds`,
`RunEnds`, `SnapshotsSettle`, `ProcessEnds`), which are out of the prover's reach.


## 5. Not modelled

* The refresh-token repository: `NewTokenRepository` is called by no program and
  no test of the repository, so there is no sequence of calls to be faithful to.
* `GetPricesForRules` of the airfare provider answers a constant page; no program
  calls it.
* A panic in the sync goroutine, which nothing recovers, ends the process: it is
  the restart of `MatchStore`, but no code path that panics is known.
* Field-by-field mapping of matches, formats of dates, currency and token of a request,
  the views of the gateway: wording, but for the parts named above.
* Configuration, logging, tracing, generated protobuf code, migrations and
  deployment: there is nothing a model could say.


## 6. What could follow

1. `Trip`: `MatchStore` and `AirfareService` composed, with the staleness of a fare
   bounded by both caches.
2. An abstract specification of the match store (a register per match that only
   races set back), implemented by `MatchStore`.
