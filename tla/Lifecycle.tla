----------------------------- MODULE Lifecycle ------------------------------
(***************************************************************************)
(* One of the three programs from its start to its end: what main opens    *)
(* and closes and in which order, signals, the servers and their requests, *)
(* the sync goroutine, and the timers that end a shutdown.  Time passes in *)
(* ticks of half a second.                                                 *)
(***************************************************************************)
EXTENDS Integers, Sequences

CONSTANTS
  Requests,          \* requests and streams served at a time
  WriteTimeouts,     \* settings, in ticks: of the gateway's answers (0: none),
  ShutdownTimeouts,  \* of its shutdown,
  ClientTimeouts,    \* of the handlers that make one or a few calls,
  DebugTimeouts,     \* of the diagnostic requests (0: that server is off)
  CatalogMax,        \* 20 s in the code: the catalog handler's longest deadline
  DebugGrace         \* 5 s in the code: for the shutdown of the diagnostic server

Second == 2

ASSUME SettingsAssumption ==
  /\ WriteTimeouts \subseteq Nat /\ DebugTimeouts \subseteq Nat
  /\ ShutdownTimeouts \subseteq Nat /\ ClientTimeouts \subseteq Nat \ {0}
ASSUME TimersAssumption == CatalogMax \in Nat /\ CatalogMax >= Second /\ DebugGrace \in Nat

VARIABLES
  svc, conf,   \* the program and its settings
  pc,          \* where main is
  step,        \* what is open: the first step entries of the program's startup
  notified,    \* signals are caught
  ctxDone,     \* the context that signals end
  srv,         \* the program's own server and the diagnostic one
  req,         \* requests in flight
  sync,        \* the sync goroutine
  timer,       \* time spent in the shutdown of a server
  \* History, read by the properties only:
  way,         \* what made main stop serving
  killed,      \* a signal nobody caught ended the process
  lost, late   \* kinds of request cut by the end of the process, answered too late

vars == <<svc, conf, pc, step, notified, ctxDone, srv, req, sync, timer, way, killed, lost, late>>

Services == {"gateway", "provider", "adapter"}
Servers  == {"main", "debug"}

\* What each program reads from its configuration, 0 for what it does not know.
Settings(s) ==
  CASE s = "gateway" -> [write : WriteTimeouts, shutdown : ShutdownTimeouts,
                         client : ClientTimeouts, debug : {0}]
    [] s = "provider" -> [write : {0}, shutdown : {0}, client : {0}, debug : {0}]
    [] s = "adapter" -> [write : {0}, shutdown : {0}, client : {0}, debug : DebugTimeouts]

\* What each main opens, in order. "main", "debug" and "sync" are goroutines and
\* have no deferred function; the others are closed in reverse order.
GatewayStartup  == <<"airfare_conn", "match_conn", "main", "signals">>
ProviderStartup == <<"tracer", "match_conn", "redis", "main", "signals">>
AdapterStartup  == <<"tracer", "signals", "postgres", "redis", "debug", "main", "sync">>

Startup ==
  CASE svc = "gateway" -> GatewayStartup
    [] svc = "provider" -> ProviderStartup
    [] svc = "adapter" -> AdapterStartup

Opened == {Startup[i] : i \in 1..step}

\* Steps whose failure is fatal.
Fallible == {"tracer", "airfare_conn", "match_conn", "postgres"}

HasDebug == svc = "adapter" /\ conf.debug > 0

\* Kinds of request by server: "catalog" is the upcoming matches with airfare,
\* "plain" any other of the gateway; "watch" a stream of the health service.
Kinds(s) ==
  IF s = "debug" THEN {"debug"}
  ELSE IF svc = "gateway" THEN {"catalog", "plain"} ELSE {"rpc", "watch"}

\* Mutant: the catalog takes all the time there is to write an answer.
CatalogTimeoutFull ==
  LET w == IF conf.write < Second THEN Second ELSE conf.write
  IN  IF conf.write > 0 /\ w < CatalogMax THEN w ELSE CatalogMax

\* Half a second less than the server has to write an answer, at least a second.
CatalogTimeout ==
  LET w == IF conf.write - 1 < Second THEN Second ELSE conf.write - 1
  IN  IF conf.write > 0 /\ w < CatalogMax THEN w ELSE CatalogMax

\* A handler answers within its own deadline; an RPC has its caller's.
Timed == {"catalog", "plain", "debug"}
Limit(kind) ==
  CASE kind = "catalog" -> CatalogTimeout
    [] kind = "plain" -> conf.client
    [] kind = "debug" -> conf.debug

NoRequest == [kind |-> "none", age |-> 0]
InFlight(kinds) == {r \in Requests : req[r].kind \in kinds}

Ended == pc \in {"exited", "dead"}
-----------------------------------------------------------------------------
Init ==
  /\ svc \in Services /\ conf \in Settings(svc)
  /\ pc = "starting" /\ step = 0
  /\ notified = FALSE /\ ctxDone = FALSE
  /\ srv = [s \in Servers |-> "off"]
  /\ req = [r \in Requests |-> NoRequest]
  /\ sync = "off" /\ timer = 0
  /\ way = "none" /\ killed = FALSE /\ lost = {} /\ late = {}

\* The process ends: with it its servers, goroutines and requests.
End(how) ==
  /\ pc' = how
  /\ lost' = {req[r].kind : r \in Requests} \ {"none"}
  /\ req' = [r \in Requests |-> NoRequest]
  /\ srv' = [s \in Servers |-> "off"] /\ sync' = "off"
  /\ UNCHANGED <<svc, conf, step, notified, ctxDone, timer, way, late>>
-----------------------------------------------------------------------------
(* main *)

\* log.Fatal: no deferred function runs. Postgres is reached under the context.
OpenFails ==
  /\ pc = "starting" /\ Startup[step + 1] \in Fallible
  /\ End("dead") /\ UNCHANGED killed

Open ==
  /\ pc = "starting"
  /\ LET new == Startup[step + 1] IN
     /\ ~(new = "postgres" /\ ctxDone)
     /\ step' = step + 1
     /\ pc' = IF step' = Len(Startup) THEN "select" ELSE pc
     /\ notified' = (notified \/ new = "signals")
     /\ srv' = [s \in Servers |->
                  IF s = new /\ (s = "debug" => HasDebug) THEN "starting" ELSE srv[s]]
     /\ sync' = IF new = "sync" THEN "run" ELSE sync
  /\ UNCHANGED <<svc, conf, ctxDone, req, timer, way, killed, lost, late>>

\* Mutant: the adapter does not call stop() when a server fails.
CancelLate == UNCHANGED <<notified, ctxDone>>

\* stop() of signal.NotifyContext ends the context and lets signals through.
\* Only the adapter calls it before its deferred functions run.
Cancel ==
  IF svc = "adapter" THEN notified' = FALSE /\ ctxDone' = TRUE
                     ELSE UNCHANGED <<notified, ctxDone>>

\* On to the diagnostic server, if there is one, or to the deferred functions.
StopDebugOrClose(servers) ==
  /\ pc' = IF HasDebug THEN "debug_stop" ELSE "closing"
  /\ srv' = IF HasDebug THEN [servers EXCEPT !["debug"] = "stopped"] ELSE servers
  /\ timer' = 0

Failed == {"down", "broken"}

\* The select of main; of several ready cases any may be taken.
OnSignal ==
  /\ pc = "select" /\ ctxDone
  /\ pc' = "stopping" /\ way' = "signal"
  /\ srv' = [srv EXCEPT !["main"] = "stopped"]
  /\ timer' = 0
  /\ UNCHANGED <<svc, conf, step, notified, ctxDone, req, sync, killed, lost, late>>

\* Mutant: errCh is not selected on.
OnServerErrorNever == FALSE /\ UNCHANGED vars

OnServerError ==
  /\ pc = "select" /\ srv["main"] \in Failed
  /\ way' = "server"
  /\ Cancel
  /\ StopDebugOrClose(srv)
  /\ UNCHANGED <<svc, conf, step, req, sync, killed, lost, late>>

OnDebugError ==
  /\ pc = "select" /\ srv["debug"] \in Failed
  /\ pc' = "stopping" /\ way' = "debug"
  /\ Cancel
  /\ srv' = [srv EXCEPT !["main"] = "stopped"]
  /\ timer' = 0
  /\ UNCHANGED <<svc, conf, step, req, sync, killed, lost, late>>

\* Mutant: Stop instead of GracefulStop.
MainStoppedAtOnce ==
  /\ pc = "stopping"
  /\ StopDebugOrClose(srv)
  /\ UNCHANGED <<svc, conf, step, notified, ctxDone, req, sync, way, killed, lost, late>>

\* GracefulStop waits for every call and stream, Shutdown of the gateway for every
\* request but not longer than its timeout.
MainStopped ==
  /\ pc = "stopping"
  /\ \/ InFlight(Kinds("main")) = {}
     \/ svc = "gateway" /\ timer >= conf.shutdown
  /\ StopDebugOrClose(srv)
  /\ UNCHANGED <<svc, conf, step, notified, ctxDone, req, sync, way, killed, lost, late>>

DebugStopped ==
  /\ pc = "debug_stop"
  /\ InFlight({"debug"}) = {} \/ timer >= DebugGrace
  /\ pc' = "closing"
  /\ UNCHANGED <<svc, conf, step, notified, ctxDone, srv, req, sync, timer, way, killed, lost, late>>

\* The deferred functions, the latest first; then main returns.
Close ==
  /\ pc = "closing" /\ step > 0
  /\ step' = step - 1
  /\ IF Startup[step] = "signals"
       THEN notified' = FALSE /\ ctxDone' = TRUE
       ELSE UNCHANGED <<notified, ctxDone>>
  /\ UNCHANGED <<svc, conf, pc, srv, req, sync, timer, way, killed, lost, late>>

Return ==
  /\ pc = "closing" /\ step = 0
  /\ End("exited") /\ UNCHANGED killed

Main == \/ Open \/ OpenFails \/ OnSignal \/ OnServerError \/ OnDebugError
        \/ MainStopped \/ DebugStopped \/ Close \/ Return
-----------------------------------------------------------------------------
(* The goroutines of the servers and of the sync *)

\* The port is taken, or the server serves.
Listen(s) ==
  /\ srv[s] = "starting"
  /\ \E r \in {"up", "down"} : srv' = [srv EXCEPT ![s] = r]
  /\ UNCHANGED <<svc, conf, pc, step, notified, ctxDone, req, sync, timer, way, killed, lost, late>>

\* Accepting fails: connections that are open are still served.
ServeFails(s) ==
  /\ srv[s] = "up"
  /\ srv' = [srv EXCEPT ![s] = "broken"]
  /\ UNCHANGED <<svc, conf, pc, step, notified, ctxDone, req, sync, timer, way, killed, lost, late>>

Arrive(r, s, kind) ==
  /\ req[r] = NoRequest /\ srv[s] \in {"up", "broken"}
  /\ kind \in Kinds(s)
  /\ req' = [req EXCEPT ![r] = [kind |-> kind, age |-> 0]]
  /\ UNCHANGED <<svc, conf, pc, step, notified, ctxDone, srv, sync, timer, way, killed, lost, late>>

\* The handler returns, or panics: that is recovered by an interceptor in the gRPC
\* services, by net/http elsewhere. The gateway's connections have a deadline for
\* writing the answer.
Answer(r) ==
  /\ req[r].kind \in Timed \cup {"rpc"}
  /\ req' = [req EXCEPT ![r] = NoRequest]
  /\ late' = IF svc = "gateway" /\ conf.write > 0 /\ req[r].age >= conf.write
               THEN late \cup {req[r].kind} ELSE late
  /\ UNCHANGED <<svc, conf, pc, step, notified, ctxDone, srv, sync, timer, way, killed, lost>>

\* The client of a stream goes.
Leave(r) ==
  /\ req[r].kind = "watch"
  /\ req' = [req EXCEPT ![r] = NoRequest]
  /\ UNCHANGED <<svc, conf, pc, step, notified, ctxDone, srv, sync, timer, way, killed, lost, late>>

\* A run ends; the ticker starts the next one, or the context ends the loop. When
\* both are due either may win, so a run may begin with its context over.
SyncStep ==
  /\ \/ sync = "run" /\ sync' = "wait"
     \/ sync = "wait" /\ sync' = "run"
     \/ sync = "wait" /\ ctxDone /\ sync' = "off"
  /\ UNCHANGED <<svc, conf, pc, step, notified, ctxDone, srv, req, timer, way, killed, lost, late>>
-----------------------------------------------------------------------------
(* Environment *)

\* A signal that is caught ends the context, and a second one does nothing; one that
\* is not caught ends the process.
Signal ==
  /\ ~Ended
  /\ \/ /\ notified /\ ctxDone' = TRUE
        /\ UNCHANGED <<svc, conf, pc, step, notified, srv, req, sync, timer, way, killed, lost, late>>
     \/ ~notified /\ End("dead") /\ killed' = TRUE

Stopping == pc = "debug_stop" \/ (pc = "stopping" /\ svc = "gateway")
Patience == IF pc = "debug_stop" THEN DebugGrace ELSE conf.shutdown

\* Handlers answer, and shutdowns end, when their time is over at the latest.
Tick ==
  /\ Stopping \/ InFlight(Timed) # {}
  /\ \A r \in InFlight(Timed) : req[r].age < Limit(req[r].kind)
  /\ Stopping => timer < Patience
  /\ req' = [r \in Requests |-> IF req[r].kind \in Timed
                                  THEN [req[r] EXCEPT !.age = @ + 1] ELSE req[r]]
  /\ timer' = IF Stopping THEN timer + 1 ELSE timer
  /\ UNCHANGED <<svc, conf, pc, step, notified, ctxDone, srv, sync, way, killed, lost, late>>

\* Nothing follows the end of the process.
Gone == Ended /\ UNCHANGED vars

Next ==
  \/ Main \/ SyncStep \/ Signal \/ Tick \/ Gone
  \/ \E s \in Servers : Listen(s) \/ ServeFails(s)
  \/ \E r \in Requests, s \in Servers : \E kind \in Kinds(s) : Arrive(r, s, kind)
  \/ \E r \in Requests : Answer(r) \/ Leave(r)

Spec == Init /\ [][Next]_vars

\* main goes on and handlers return: the calls they make have timeouts. Nothing is
\* assumed of signals, of streams or of the sync.
FairSpec == Spec /\ WF_vars(Main) /\ \A r \in Requests : WF_vars(Answer(r))
-----------------------------------------------------------------------------
AllKinds == Timed \cup {"rpc", "watch"}

TypeOK ==
  /\ svc \in Services /\ conf \in Settings(svc)
  /\ pc \in {"starting", "select", "stopping", "debug_stop", "closing", "exited", "dead"}
  /\ step \in 0..Len(Startup)
  /\ notified \in BOOLEAN /\ ctxDone \in BOOLEAN /\ killed \in BOOLEAN
  /\ srv \in [Servers -> {"off", "starting", "up", "down", "broken", "stopped"}]
  /\ req \in [Requests -> [kind : AllKinds \cup {"none"}, age : Nat]]
  /\ sync \in {"off", "run", "wait"} /\ timer \in Nat
  /\ way \in {"none", "signal", "server", "debug"}
  /\ lost \subseteq AllKinds /\ late \subseteq AllKinds

\* What a request of a kind works with.
Uses(kind) ==
  IF kind = "watch" THEN {}
  ELSE IF kind = "debug" THEN {"postgres"}
  ELSE CASE svc = "gateway" -> {"airfare_conn", "match_conn"}
         [] svc = "provider" -> {"match_conn", "redis"}
         [] svc = "adapter" -> {"postgres", "redis"}

\* Kinds of request that may need longer than a shutdown waits for them.
Outlasts(kind) ==
  \/ kind \in {"catalog", "plain"} /\ Limit(kind) >= conf.shutdown
  \/ kind = "debug" /\ Limit(kind) >= DebugGrace

\* A request never meets a connection or store that is not open yet or closed
\* already, unless the server broke down, which skips the wait for its requests, or
\* the request may take longer than the shutdown waits. The sync is not waited for,
\* but told to stop before the stores it writes to are closed.
StoresOutliveWork ==
  /\ TypeOK
  /\ \A r \in InFlight(AllKinds) :
       \/ Uses(req[r].kind) \subseteq Opened
       \/ Outlasts(req[r].kind)
       \/ way = "server" /\ req[r].kind # "debug"
  /\ sync = "run" /\ ~({"postgres", "redis"} \subseteq Opened) => ctxDone

\* The end of the process cuts a request only for these reasons, or when a signal
\* comes while nobody catches it: before the gateway and the provider do, who
\* serve first, and after the adapter has stopped to because a server failed.
LossHasACause ==
  \A kind \in lost :
    \/ Outlasts(kind)
    \/ way = "server" /\ kind # "debug"
    \/ killed /\ way = "none" /\ svc # "adapter"
    \/ killed /\ svc = "adapter" /\ way \in {"server", "debug"}

\* An answer of the gateway is late only if the setting leaves less than a second to
\* write it, or less than the calls' own timeout for the handlers that ignore it.
AnswersArrive ==
  /\ "catalog" \in late => conf.write <= Second
  /\ "plain" \in late => conf.write <= conf.client

\* A program that is told to stop, or whose server fails, ends: with no streams to
\* wait for, nothing holds it back.
ProcessEnds ==
  <>[](InFlight({"watch"}) = {}) =>
    (ctxDone \/ srv["main"] \in Failed \/ srv["debug"] \in Failed ~> Ended)
=============================================================================
