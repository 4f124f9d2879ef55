-------------------------- MODULE Lifecycle_proofs --------------------------
(***************************************************************************)
(* Proofs about Lifecycle, for any number of requests and any settings.    *)
(***************************************************************************)
EXTENDS Lifecycle, TLAPS

\* The step at which a program starts its own server.
MainAt == CASE svc = "gateway" -> 3 [] svc = "provider" -> 4 [] svc = "adapter" -> 6

Length == CASE svc = "gateway" -> 4 [] svc = "provider" -> 5 [] svc = "adapter" -> 7

Serving == pc \in {"starting", "select"}
Leaving == pc \in {"stopping", "debug_stop", "closing"}

PhaseInv ==
  /\ pc = "starting" => step < Length
  /\ pc \in {"select", "stopping", "debug_stop"} => step = Length
  /\ Serving => way = "none"
  /\ Leaving => way # "none"
  /\ pc = "stopping" => way # "server"
  /\ pc = "debug_stop" => HasDebug
  /\ way = "debug" => svc = "adapter"

ServersInv ==
  /\ srv["debug"] # "off" => HasDebug
  /\ Serving /\ srv["main"] # "off" => step >= MainAt
  /\ Serving /\ srv["debug"] # "off" => step >= 5
  /\ Serving => srv["main"] # "stopped" /\ srv["debug"] # "stopped"
  /\ Leaving => srv["main"] = "stopped" \/ way = "server"
  /\ pc \in {"debug_stop", "closing"} /\ HasDebug => srv["debug"] = "stopped"
  /\ Ended => srv["main"] = "off" /\ srv["debug"] = "off"

ServerOf(k) == IF k = "debug" THEN "debug" ELSE "main"

\* What holds of a request r of kind k.
RequestInv(r, k) ==
  req[r].kind = k =>
    /\ ~Ended
    /\ IF k = "debug" THEN HasDebug ELSE k \in Kinds("main")
    /\ Serving => srv[ServerOf(k)] # "off"
    /\ k \in Timed => req[r].age <= Limit(k)
    /\ pc = "stopping" /\ k \in {"catalog", "plain"} => timer <= req[r].age
    /\ pc = "debug_stop" => IF k = "debug" THEN timer <= req[r].age ELSE way = "server"
    /\ pc = "closing" => Outlasts(k) \/ (way = "server" /\ k # "debug")

SignalsInv ==
  /\ svc = "adapter" /\ Leaving => ctxDone
  /\ svc = "adapter" /\ Serving /\ step >= 2 => notified
  /\ pc \in {"stopping", "debug_stop"} /\ way = "signal" => notified
  /\ svc # "adapter" /\ pc = "select" => notified
  /\ sync # "off" => svc = "adapter" /\ pc # "starting" /\ ~Ended

EndInv ==
  /\ lost # {} => Ended
  /\ LossHasACause
  /\ AnswersArrive

LifecycleInv ==
  /\ TypeOK /\ PhaseInv /\ ServersInv
  /\ \A r \in Requests, k \in AllKinds : RequestInv(r, k)
  /\ SignalsInv /\ EndInv
-----------------------------------------------------------------------------
(* Facts about the settings and the startup of a program. *)

LEMMA StartupIs ==
  ASSUME svc \in Services
  PROVE  /\ Len(Startup) = Length /\ Length \in Nat /\ MainAt \in 3..6
         /\ svc = "gateway" =>
              /\ Startup[1] = "airfare_conn" /\ Startup[2] = "match_conn"
              /\ Startup[3] = "main" /\ Startup[4] = "signals"
         /\ svc = "provider" =>
              /\ Startup[1] = "tracer" /\ Startup[2] = "match_conn" /\ Startup[3] = "redis"
              /\ Startup[4] = "main" /\ Startup[5] = "signals"
         /\ svc = "adapter" =>
              /\ Startup[1] = "tracer" /\ Startup[2] = "signals" /\ Startup[3] = "postgres"
              /\ Startup[4] = "redis" /\ Startup[5] = "debug" /\ Startup[6] = "main"
              /\ Startup[7] = "sync"
<1>1. CASE svc = "gateway"
  BY <1>1 DEF Startup, GatewayStartup, Length, MainAt
<1>2. CASE svc = "provider"
  BY <1>2 DEF Startup, ProviderStartup, Length, MainAt
<1>3. CASE svc = "adapter"
  BY <1>3 DEF Startup, AdapterStartup, Length, MainAt
<1> QED BY <1>1, <1>2, <1>3 DEF Services

LEMMA SettingsAre ==
  ASSUME svc \in Services, conf \in Settings(svc)
  PROVE  /\ conf.write \in Nat /\ conf.shutdown \in Nat /\ conf.client \in Nat
         /\ conf.debug \in Nat
         /\ HasDebug => svc = "adapter"
<1>1. CASE svc = "gateway"
  BY <1>1, SettingsAssumption DEF Settings, HasDebug
<1>2. CASE svc = "provider"
  BY <1>2 DEF Settings, HasDebug
<1>3. CASE svc = "adapter"
  BY <1>3, SettingsAssumption DEF Settings, HasDebug
<1> QED BY <1>1, <1>2, <1>3 DEF Services

\* A catalog that has half a second to write its answer has a shorter deadline.
LEMMA LimitsAre ==
  ASSUME svc \in Services, conf \in Settings(svc)
  PROVE  /\ \A k \in Timed : Limit(k) \in Nat
         /\ conf.write > Second => Limit("catalog") < conf.write
         /\ Limit("plain") = conf.client
<1>1. CatalogTimeout \in Nat /\ (conf.write > Second => CatalogTimeout < conf.write)
  BY SettingsAre, TimersAssumption DEF CatalogTimeout, Second
<1> QED BY <1>1, SettingsAre DEF Timed, Limit

-----------------------------------------------------------------------------
(* The invariant implies the properties. *)

LEMMA StoresOpen ==
  ASSUME LifecycleInv
  PROVE  StoresOutliveWork
<1>1. svc \in Services /\ conf \in Settings(svc) /\ step \in 0..Len(Startup)
  BY DEF LifecycleInv, TypeOK
<1>2. Opened = {Startup[i] : i \in 1..step} /\ step \in 0..Length /\ Length \in Nat
  BY <1>1, StartupIs DEF Opened
<1>3. ASSUME NEW r \in Requests, req[r].kind # "none"
      PROVE  \/ Uses(req[r].kind) \subseteq Opened
             \/ Outlasts(req[r].kind)
             \/ way = "server" /\ req[r].kind # "debug"
  <2>1. RequestInv(r, req[r].kind)
    BY <1>3 DEF LifecycleInv, TypeOK
  <2>2. ~Ended
    BY <2>1 DEF RequestInv
  <2>3. CASE pc = "closing"
    BY <2>1, <2>3 DEF RequestInv
  <2>4. CASE pc # "closing"
    <3>1. pc \in {"stopping", "debug_stop"} => step = Length
      BY DEF LifecycleInv, PhaseInv
    <3>2. req[r].kind # "debug" => step >= MainAt
      <4>1. CASE Serving
        BY <2>1, <4>1 DEF RequestInv, ServerOf, LifecycleInv, ServersInv
      <4>2. CASE ~Serving
        BY <1>1, <2>2, <2>4, <3>1, <4>2 DEF LifecycleInv, TypeOK, Serving, Ended, Length, MainAt, Services
      <4> QED BY <4>1, <4>2
    <3>3. req[r].kind = "debug" => svc = "adapter" /\ step >= 5
      <4>1. req[r].kind = "debug" => svc = "adapter"
        BY <1>1, <2>1, SettingsAre DEF RequestInv
      <4>2. CASE Serving
        BY <2>1, <4>1, <4>2 DEF RequestInv, ServerOf, LifecycleInv, ServersInv
      <4>3. CASE ~Serving
        BY <1>1, <2>2, <2>4, <3>1, <4>1, <4>3 DEF LifecycleInv, TypeOK, Serving, Ended, Length
      <4> QED BY <4>1, <4>2, <4>3
    <3>4. CASE req[r].kind = "debug"
      <4>1. Startup[3] = "postgres" /\ 3 \in 1..step
        BY <1>1, <1>2, <3>3, <3>4, StartupIs
      <4> QED BY <1>2, <3>4, <4>1 DEF Uses
    <3>5. CASE req[r].kind = "watch"
      BY <3>5 DEF Uses
    <3>6. CASE req[r].kind \notin {"debug", "watch"}
      <4>1. CASE svc = "gateway"
        <5>1. Startup[1] = "airfare_conn" /\ Startup[2] = "match_conn" /\ {1, 2} \subseteq 1..step
          BY <1>1, <1>2, <3>2, <3>6, <4>1, StartupIs DEF MainAt
        <5> QED BY <1>2, <3>6, <4>1, <5>1 DEF Uses
      <4>2. CASE svc = "provider"
        <5>1. Startup[2] = "match_conn" /\ Startup[3] = "redis" /\ {2, 3} \subseteq 1..step
          BY <1>1, <1>2, <3>2, <3>6, <4>2, StartupIs DEF MainAt
        <5> QED BY <1>2, <3>6, <4>2, <5>1 DEF Uses
      <4>3. CASE svc = "adapter"
        <5>1. Startup[3] = "postgres" /\ Startup[4] = "redis" /\ {3, 4} \subseteq 1..step
          BY <1>1, <1>2, <3>2, <3>6, <4>3, StartupIs DEF MainAt
        <5> QED BY <1>2, <3>6, <4>3, <5>1 DEF Uses
      <4> QED BY <1>1, <4>1, <4>2, <4>3 DEF Services
    <3> QED BY <3>4, <3>5, <3>6
  <2> QED BY <2>3, <2>4
<1>4. sync = "run" /\ ~({"postgres", "redis"} \subseteq Opened) => ctxDone
  <2> SUFFICES ASSUME sync = "run" PROVE {"postgres", "redis"} \subseteq Opened \/ ctxDone
    OBVIOUS
  <2>1. svc = "adapter" /\ pc # "starting" /\ ~Ended
    BY DEF LifecycleInv, SignalsInv
  <2>2. CASE Leaving
    BY <2>1, <2>2 DEF LifecycleInv, SignalsInv
  <2>3. CASE pc = "select"
    <3>1. step = 7
      BY <2>1, <2>3 DEF LifecycleInv, PhaseInv, Length
    <3>2. Startup[3] = "postgres" /\ Startup[4] = "redis" /\ {3, 4} \subseteq 1..step
      BY <1>1, <2>1, <3>1, StartupIs
    <3> QED BY <1>2, <3>2
  <2> QED BY <2>1, <2>2, <2>3 DEF LifecycleInv, TypeOK, Leaving, Ended
<1> QED
  <2>1. \A r \in InFlight(AllKinds) : r \in Requests /\ req[r].kind # "none"
    BY DEF InFlight, AllKinds, Timed
  <2> QED BY <1>3, <1>4, <2>1 DEF StoresOutliveWork, LifecycleInv

LEMMA InitImplies == Init => LifecycleInv
<1> SUFFICES ASSUME Init PROVE LifecycleInv
  OBVIOUS
<1>1. svc \in Services /\ conf \in Settings(svc)
  BY DEF Init
<1>2. TypeOK
  <2>1. step \in 0..Len(Startup)
    BY <1>1, StartupIs DEF Init
  <2>2. req \in [Requests -> [kind : AllKinds \cup {"none"}, age : Nat]]
    BY DEF Init, NoRequest
  <2> QED BY <1>1, <2>1, <2>2 DEF TypeOK, Init, Servers
<1>3. PhaseInv
  BY <1>1 DEF Init, PhaseInv, Length, Services, Serving, Leaving
<1>4. ServersInv
  BY DEF Init, ServersInv, Serving, Leaving, Ended, Servers
<1>5. ASSUME NEW r \in Requests, NEW k \in AllKinds PROVE RequestInv(r, k)
  BY DEF Init, RequestInv, NoRequest, AllKinds, Timed
<1>6. SignalsInv
  BY DEF Init, SignalsInv, Leaving
<1>7. EndInv
  BY DEF Init, EndInv, LossHasACause, AnswersArrive
<1> QED BY <1>2, <1>3, <1>4, <1>5, <1>6, <1>7 DEF LifecycleInv

-----------------------------------------------------------------------------
(* Every step preserves the invariant. *)

\* What depends on the program and its settings only.
LEMMA Unchanging ==
  ASSUME svc' = svc, conf' = conf
  PROVE  /\ HasDebug' <=> HasDebug
         /\ Length' = Length /\ MainAt' = MainAt /\ Startup' = Startup
         /\ \A s : Kinds(s)' = Kinds(s)
         /\ \A k : Limit(k)' = Limit(k)
         /\ \A k : Outlasts(k)' <=> Outlasts(k)
<1>1. HasDebug' <=> HasDebug
  BY DEF HasDebug
<1>2. Length' = Length /\ MainAt' = MainAt /\ Startup' = Startup
  BY DEF Length, MainAt, Startup
<1>3. ASSUME NEW s PROVE Kinds(s)' = Kinds(s)
  BY DEF Kinds
<1>4. ASSUME NEW k PROVE Limit(k)' = Limit(k)
  <2>1. CatalogTimeout' = CatalogTimeout
    BY DEF CatalogTimeout
  <2> QED BY <2>1 DEF Limit
<1>5. ASSUME NEW k PROVE Outlasts(k)' <=> Outlasts(k)
  BY <1>4 DEF Outlasts
<1> QED BY <1>1, <1>2, <1>3, <1>4, <1>5

LEMMA ServeStep ==
  ASSUME LifecycleInv, NEW s \in Servers, Listen(s) \/ ServeFails(s)
  PROVE  LifecycleInv'
<1> DEFINE new == srv'[s]
<1>1. /\ UNCHANGED <<svc, conf, pc, step, notified, ctxDone, req, sync, timer, way, killed, lost, late>>
      /\ srv[s] \in {"starting", "up"} /\ new \in {"up", "down", "broken"}
      /\ srv' = [srv EXCEPT ![s] = new]
  BY DEF Listen, ServeFails, LifecycleInv, TypeOK
<1>2. TypeOK /\ PhaseInv /\ ServersInv /\ SignalsInv /\ EndInv
  BY DEF LifecycleInv
<1>3. TypeOK'
  BY <1>1, <1>2, Unchanging DEF TypeOK
<1>4. PhaseInv'
  BY <1>1, <1>2, Unchanging DEF PhaseInv, Serving, Leaving
<1>5. ServersInv'
  BY <1>1, <1>2, Unchanging DEF ServersInv, TypeOK, Serving, Leaving, Ended, Servers
<1>6. ASSUME NEW r \in Requests, NEW k \in AllKinds PROVE RequestInv(r, k)'
  <2>1. RequestInv(r, k)
    BY DEF LifecycleInv
  <2> QED BY <1>1, <1>2, <2>1, Unchanging DEF RequestInv, TypeOK, Serving, Ended, ServerOf, Servers
<1>7. SignalsInv'
  BY <1>1, <1>2 DEF SignalsInv, Serving, Leaving, Ended
<1>8. EndInv'
  BY <1>1, <1>2, Unchanging DEF EndInv, LossHasACause, AnswersArrive, Ended
<1> QED BY <1>3, <1>4, <1>5, <1>6, <1>7, <1>8 DEF LifecycleInv

\* A request comes, is answered, or leaves.
LEMMA RequestStep ==
  ASSUME LifecycleInv, NEW q \in Requests,
         \/ Answer(q) \/ Leave(q)
         \/ \E s \in Servers : \E kind \in Kinds(s) : Arrive(q, s, kind)
  PROVE  LifecycleInv'
<1>1. TypeOK /\ PhaseInv /\ ServersInv /\ SignalsInv /\ EndInv
  BY DEF LifecycleInv
<1>2. UNCHANGED <<svc, conf, pc, step, notified, ctxDone, srv, sync, timer, way, killed, lost>>
  BY DEF Answer, Leave, Arrive
<1>3. late' = late \/ (Answer(q) /\ late' = late \cup {req[q].kind} /\ svc = "gateway"
                       /\ conf.write > 0 /\ req[q].age >= conf.write)
  BY DEF Answer, Leave, Arrive
<1>4. \/ req' = [req EXCEPT ![q] = NoRequest] /\ req[q].kind \in AllKinds
      \/ \E s \in Servers : \E kind \in Kinds(s) :
           /\ srv[s] \in {"up", "broken"}
           /\ req' = [req EXCEPT ![q] = [kind |-> kind, age |-> 0]]
  BY DEF Answer, Leave, Arrive, AllKinds, Timed
<1>5. ASSUME NEW s \in Servers, NEW kind \in Kinds(s), srv[s] \in {"up", "broken"}
      PROVE  /\ kind \in AllKinds /\ s = ServerOf(kind) /\ ~Ended
             /\ IF kind = "debug" THEN HasDebug ELSE kind \in Kinds("main")
             /\ kind \in Timed => Limit(kind) \in Nat
             /\ pc \in {"debug_stop", "closing"} => way = "server" /\ kind # "debug"
             /\ pc = "stopping" => kind = "debug"
  <2>1. kind \in AllKinds /\ s = ServerOf(kind)
    BY DEF Kinds, Servers, ServerOf, AllKinds, Timed
  <2>2. ~Ended /\ (IF kind = "debug" THEN HasDebug ELSE kind \in Kinds("main"))
    BY <1>1, <1>5, <2>1 DEF ServersInv, Kinds, Servers, ServerOf
  <2>3. pc \in {"debug_stop", "closing"} => way = "server" /\ kind # "debug"
    BY <1>1, <1>5, <2>1, <2>2 DEF ServersInv, Leaving, ServerOf
  <2>4. pc = "stopping" => kind = "debug"
    BY <1>1, <1>5, <2>1 DEF ServersInv, PhaseInv, Leaving, ServerOf
  <2> QED BY <1>1, <2>1, <2>2, <2>3, <2>4, LimitsAre DEF TypeOK
<1>6. req' \in [Requests -> [kind : AllKinds \cup {"none"}, age : Nat]]
  <2> DEFINE T == [kind : AllKinds \cup {"none"}, age : Nat]
  <2>1. req \in [Requests -> T] /\ NoRequest \in T
    BY <1>1 DEF TypeOK, NoRequest
  <2>2. ASSUME NEW kind \in AllKinds PROVE [kind |-> kind, age |-> 0] \in T
    OBVIOUS
  <2> HIDE DEF T
  <2>3. \E x \in T : req' = [req EXCEPT ![q] = x]
    BY <1>4, <1>5, <2>1, <2>2
  <2>4. req' \in [Requests -> T]
    BY <2>1, <2>3
  <2> QED BY <2>4 DEF T
<1>7. TypeOK'
  <2>1. late' \subseteq AllKinds
    <3>1. Answer(q) => req[q].kind \in AllKinds
      BY DEF Answer, AllKinds
    <3> QED BY <1>1, <1>3, <3>1 DEF TypeOK
  <2> QED BY <1>1, <1>2, <1>6, <2>1, Unchanging DEF TypeOK
<1>8. PhaseInv' /\ SignalsInv'
  BY <1>1, <1>2, Unchanging DEF PhaseInv, SignalsInv, Serving, Leaving, Ended
<1>9. ServersInv'
  BY <1>1, <1>2, Unchanging DEF ServersInv, Serving, Leaving, Ended
<1>10. ASSUME NEW r \in Requests, NEW k \in AllKinds PROVE RequestInv(r, k)'
  <2>1. RequestInv(r, k)
    BY DEF LifecycleInv
  <2>2. CASE req'[r] = req[r]
    BY <1>2, <2>1, <2>2, Unchanging DEF RequestInv, Serving, Ended, ServerOf
  <2>3. CASE req'[r] = NoRequest
    BY <2>3 DEF RequestInv, NoRequest, AllKinds, Timed
  <2>4. CASE \E s \in Servers : \E kind \in Kinds(s) :
               srv[s] \in {"up", "broken"} /\ req'[r] = [kind |-> kind, age |-> 0]
    <3>0. PICK s \in Servers : \E kind \in Kinds(s) :
            srv[s] \in {"up", "broken"} /\ req'[r] = [kind |-> kind, age |-> 0]
      BY <2>4
    <3>1. PICK kind \in Kinds(s) :
            srv[s] \in {"up", "broken"} /\ req'[r] = [kind |-> kind, age |-> 0]
      BY <3>0
    <3> SUFFICES ASSUME kind = k PROVE RequestInv(r, k)'
      BY <3>1 DEF RequestInv
    <3> QED BY <1>1, <1>2, <1>5, <3>1, Unchanging DEF RequestInv, Serving, Ended, ServerOf
  <2> QED BY <1>1, <1>4, <2>2, <2>3, <2>4 DEF TypeOK
<1>11. AnswersArrive'
  <2>1. CASE late' = late
    BY <1>1, <1>2, <2>1 DEF EndInv, AnswersArrive
  <2>2. CASE late' = late \cup {req[q].kind} /\ conf.write > 0 /\ req[q].age >= conf.write
    <3>1. ASSUME req[q].kind \in Timed PROVE req[q].age <= Limit(req[q].kind)
      BY <3>1 DEF LifecycleInv, RequestInv, AllKinds
    <3>2. conf.write \in Nat /\ conf.client \in Nat /\ req[q].age \in Nat /\ Second \in Nat
      BY <1>1, SettingsAre DEF TypeOK, Second
    <3>3. req[q].kind = "catalog" => conf.write <= Second
      BY <1>1, <2>2, <3>1, <3>2, LimitsAre DEF TypeOK, Timed
    <3>4. req[q].kind = "plain" => conf.write <= conf.client
      BY <1>1, <2>2, <3>1, <3>2, LimitsAre DEF TypeOK, Timed
    <3> QED BY <1>1, <1>2, <2>2, <3>3, <3>4 DEF EndInv, AnswersArrive
  <2> QED BY <1>3, <2>1, <2>2
<1>12. EndInv'
  BY <1>1, <1>2, <1>11, Unchanging DEF EndInv, LossHasACause, Ended
<1> QED BY <1>7, <1>8, <1>9, <1>10, <1>12 DEF LifecycleInv

LEMMA SyncPreserves ==
  ASSUME LifecycleInv, SyncStep
  PROVE  LifecycleInv'
<1>1. TypeOK /\ PhaseInv /\ ServersInv /\ SignalsInv /\ EndInv
  BY DEF LifecycleInv
<1>2. /\ UNCHANGED <<svc, conf, pc, step, notified, ctxDone, srv, req, timer, way, killed, lost, late>>
      /\ sync # "off" /\ sync' \in {"off", "run", "wait"}
  BY DEF SyncStep
<1>3. TypeOK'
  BY <1>1, <1>2, Unchanging DEF TypeOK
<1>4. PhaseInv' /\ ServersInv'
  BY <1>1, <1>2, Unchanging DEF PhaseInv, ServersInv, Serving, Leaving, Ended
<1>5. ASSUME NEW r \in Requests, NEW k \in AllKinds PROVE RequestInv(r, k)'
  <2>1. RequestInv(r, k)
    BY DEF LifecycleInv
  <2> QED BY <1>2, <2>1, Unchanging DEF RequestInv, Serving, Ended, ServerOf
<1>6. SignalsInv' /\ EndInv'
  BY <1>1, <1>2, Unchanging DEF SignalsInv, EndInv, LossHasACause, AnswersArrive,
                               Serving, Leaving, Ended
<1> QED BY <1>3, <1>4, <1>5, <1>6 DEF LifecycleInv

\* Time passes: a request grows as old as the shutdown that waits for it.
LEMMA TickStep ==
  ASSUME LifecycleInv, Tick
  PROVE  LifecycleInv'
<1>1. TypeOK /\ PhaseInv /\ ServersInv /\ SignalsInv /\ EndInv
  BY DEF LifecycleInv
<1>2. /\ UNCHANGED <<svc, conf, pc, step, notified, ctxDone, srv, sync, way, killed, lost, late>>
      /\ timer' = IF Stopping THEN timer + 1 ELSE timer
      /\ \A r \in InFlight(Timed) : req[r].age < Limit(req[r].kind)
      /\ req' = [r \in Requests |-> IF req[r].kind \in Timed
                                      THEN [req[r] EXCEPT !.age = @ + 1] ELSE req[r]]
  BY DEF Tick
<1>3. ASSUME NEW r \in Requests
      PROVE  /\ req'[r].kind = req[r].kind /\ req[r].kind \in AllKinds \cup {"none"}
             /\ req[r].age \in Nat /\ req'[r].age \in Nat
             /\ req'[r] \in [kind : AllKinds \cup {"none"}, age : Nat]
             /\ req[r].kind \in Timed =>
                  req'[r].age = req[r].age + 1 /\ req[r].age < Limit(req[r].kind)
  <2>1. req[r] \in [kind : AllKinds \cup {"none"}, age : Nat]
    BY <1>1 DEF TypeOK
  <2>2. req'[r] = IF req[r].kind \in Timed THEN [req[r] EXCEPT !.age = @ + 1] ELSE req[r]
    BY <1>2
  <2>3. CASE req[r].kind \in Timed
    <3>1. req[r].age < Limit(req[r].kind)
      BY <1>2, <2>3 DEF InFlight
    <3> QED BY <2>1, <2>2, <2>3, <3>1
  <2>4. CASE req[r].kind \notin Timed
    BY <2>1, <2>2, <2>4
  <2> QED BY <2>3, <2>4
<1>4. TypeOK'
  <2>1. req' \in [Requests -> [kind : AllKinds \cup {"none"}, age : Nat]]
    BY <1>2, <1>3
  <2>2. timer' \in Nat
    BY <1>1, <1>2 DEF TypeOK
  <2> QED BY <1>1, <1>2, <2>1, <2>2, Unchanging DEF TypeOK
<1>5. PhaseInv' /\ ServersInv' /\ SignalsInv'
  BY <1>1, <1>2, Unchanging DEF PhaseInv, ServersInv, SignalsInv, Serving, Leaving, Ended
<1>6. ASSUME NEW r \in Requests, NEW k \in AllKinds PROVE RequestInv(r, k)'
  <2> SUFFICES ASSUME req[r].kind = k PROVE RequestInv(r, k)'
    BY <1>3 DEF RequestInv
  <2>1. RequestInv(r, k)
    BY DEF LifecycleInv
  <2>2. timer' \in {timer, timer + 1} /\ timer \in Nat
    BY <1>1, <1>2 DEF TypeOK
  <2>3. CASE k \in Timed
    <3>1. /\ req'[r].age = req[r].age + 1 /\ req[r].age < Limit(k) /\ req[r].age \in Nat
          /\ Limit(k) \in Nat
      BY <1>1, <1>3, <2>3, LimitsAre DEF TypeOK
    <3>2. req'[r].age <= Limit(k)
      BY <3>1
    <3>3. timer <= req[r].age => timer' <= req'[r].age
      BY <2>2, <3>1
    <3> QED BY <1>2, <2>1, <3>2, <3>3, Unchanging DEF RequestInv, Serving, Ended, ServerOf
  <2>4. CASE k \notin Timed
    BY <1>2, <2>1, <2>4, Unchanging DEF RequestInv, Serving, Ended, ServerOf, Timed
  <2> QED BY <2>3, <2>4
<1>7. EndInv'
  BY <1>1, <1>2, Unchanging DEF EndInv, LossHasACause, AnswersArrive, Ended
<1> QED BY <1>4, <1>5, <1>6, <1>7 DEF LifecycleInv

\* The end of the process cuts what is in flight.
LEMMA EndStep ==
  ASSUME LifecycleInv, OpenFails \/ Return \/ (Signal /\ ~notified)
  PROVE  LifecycleInv'
<1>1. TypeOK /\ PhaseInv /\ ServersInv /\ SignalsInv /\ EndInv
  BY DEF LifecycleInv
<1>2. /\ UNCHANGED <<svc, conf, step, notified, ctxDone, timer, way, late>>
      /\ pc' \in {"exited", "dead"} /\ ~Ended
      /\ lost' = {req[r].kind : r \in Requests} \ {"none"}
      /\ req' = [r \in Requests |-> NoRequest]
      /\ srv' = [s \in Servers |-> "off"] /\ sync' = "off"
      /\ \/ killed' = killed /\ (pc = "closing" \/ OpenFails)
         \/ killed' = TRUE /\ ~notified
  BY DEF OpenFails, Return, Signal, End, Ended
<1>3. lost' \subseteq AllKinds
  BY <1>1, <1>2 DEF TypeOK
<1>4. TypeOK'
  <2>1. req' \in [Requests -> [kind : AllKinds \cup {"none"}, age : Nat]]
    BY <1>2 DEF NoRequest
  <2>2. killed' \in BOOLEAN
    BY <1>1, <1>2 DEF TypeOK
  <2> QED BY <1>1, <1>2, <1>3, <2>1, <2>2, Unchanging DEF TypeOK, Servers
<1>5. PhaseInv' /\ ServersInv'
  BY <1>1, <1>2 DEF PhaseInv, ServersInv, Serving, Leaving, Ended, Servers
<1>6. ASSUME NEW r \in Requests, NEW k \in AllKinds PROVE RequestInv(r, k)'
  BY <1>2 DEF RequestInv, NoRequest, AllKinds, Timed
<1>7. SignalsInv'
  BY <1>2 DEF SignalsInv, Serving, Leaving, Ended
<1>8. LossHasACause'
  <2> SUFFICES ASSUME NEW k \in lost'
               PROVE  \/ Outlasts(k)
                      \/ way = "server" /\ k # "debug"
                      \/ killed' /\ way = "none" /\ svc # "adapter"
                      \/ killed' /\ svc = "adapter" /\ way \in {"server", "debug"}
    BY <1>2, Unchanging DEF LossHasACause
  <2>1. PICK r \in Requests : req[r].kind = k
    BY <1>2
  <2>2. k \in AllKinds /\ RequestInv(r, k)
    BY <1>3 DEF LifecycleInv
  <2>3. CASE pc = "closing"
    BY <2>1, <2>2, <2>3 DEF RequestInv
  <2>4. CASE OpenFails
    <3>1. pc = "starting" /\ Startup[step + 1] \in Fallible
      BY <2>4 DEF OpenFails
    <3>2. srv[ServerOf(k)] # "off"
      BY <2>1, <2>2, <3>1 DEF RequestInv, Serving
    <3>3. IF k = "debug" THEN svc = "adapter" /\ step >= 5 ELSE step >= MainAt
      BY <1>1, <3>1, <3>2, SettingsAre DEF ServersInv, ServerOf, Serving, TypeOK
    <3>4. step \in Nat /\ step < Length /\ svc \in Services
      BY <1>1, <3>1, StartupIs DEF TypeOK, PhaseInv
    <3>5. CASE svc = "gateway"
      BY <3>1, <3>3, <3>4, <3>5, StartupIs DEF MainAt, Length, Fallible
    <3>6. CASE svc = "provider"
      BY <3>1, <3>3, <3>4, <3>6, StartupIs DEF MainAt, Length, Fallible
    <3>7. CASE svc = "adapter"
      BY <3>1, <3>3, <3>4, <3>7, StartupIs DEF MainAt, Length, Fallible
    <3> QED BY <3>4, <3>5, <3>6, <3>7 DEF Services
  <2>5. CASE killed' = TRUE /\ ~notified /\ pc # "closing"
    <3>1. CASE Serving
      <4>1. way = "none"
        BY <1>1, <3>1 DEF PhaseInv
      <4>2. svc # "adapter"
        <5> SUFFICES ASSUME svc = "adapter" PROVE FALSE
          OBVIOUS
        <5>1. srv[ServerOf(k)] # "off"
          BY <2>1, <2>2, <3>1 DEF RequestInv
        <5>2. step >= 5
          BY <1>1, <3>1, <5>1, StartupIs DEF ServersInv, ServerOf, TypeOK, MainAt
        <5>3. step \in Nat
          BY <1>1, StartupIs DEF TypeOK
        <5> QED BY <1>1, <2>5, <3>1, <5>2, <5>3 DEF SignalsInv
      <4> QED BY <2>5, <4>1, <4>2
    <3>2. CASE pc \in {"stopping", "debug_stop"}
      <4>1. way \in {"server", "debug"}
        BY <1>1, <2>5, <3>2 DEF SignalsInv, PhaseInv, TypeOK, Leaving
      <4>2. svc = "adapter"
        <5>1. way = "debug" => svc = "adapter"
          BY <1>1 DEF PhaseInv
        <5>2. pc = "debug_stop" => svc = "adapter"
          BY <1>1, SettingsAre DEF PhaseInv, TypeOK
        <5> QED BY <1>1, <3>2, <4>1, <5>1, <5>2 DEF PhaseInv
      <4> QED BY <2>5, <4>1, <4>2
    <3> QED BY <1>1, <1>2, <2>5, <3>1, <3>2 DEF TypeOK, Serving, Ended
  <2> QED BY <1>2, <2>3, <2>4, <2>5
<1>9. EndInv'
  BY <1>1, <1>2, <1>8 DEF EndInv, AnswersArrive, Ended
<1> QED BY <1>4, <1>5, <1>6, <1>7, <1>9 DEF LifecycleInv

\* A signal that is caught.
LEMMA SignalStep ==
  ASSUME LifecycleInv, Signal, notified
  PROVE  LifecycleInv'
<1>1. TypeOK /\ PhaseInv /\ ServersInv /\ SignalsInv /\ EndInv
  BY DEF LifecycleInv
<1>2. /\ ctxDone' = TRUE
      /\ UNCHANGED <<svc, conf, pc, step, notified, srv, req, sync, timer, way, killed, lost, late>>
  BY DEF Signal
<1>3. TypeOK'
  BY <1>1, <1>2, Unchanging DEF TypeOK
<1>4. PhaseInv' /\ ServersInv' /\ SignalsInv'
  BY <1>1, <1>2, Unchanging DEF PhaseInv, ServersInv, SignalsInv, Serving, Leaving, Ended
<1>5. ASSUME NEW r \in Requests, NEW k \in AllKinds PROVE RequestInv(r, k)'
  <2>1. RequestInv(r, k)
    BY DEF LifecycleInv
  <2> QED BY <1>2, <2>1, Unchanging DEF RequestInv, Serving, Ended, ServerOf
<1>6. EndInv'
  BY <1>1, <1>2, Unchanging DEF EndInv, LossHasACause, AnswersArrive, Ended
<1> QED BY <1>3, <1>4, <1>5, <1>6 DEF LifecycleInv

LEMMA OpenStep ==
  ASSUME LifecycleInv, Open
  PROVE  LifecycleInv'
<1> DEFINE new == Startup[step + 1]
<1>1. TypeOK /\ PhaseInv /\ ServersInv /\ SignalsInv /\ EndInv
  BY DEF LifecycleInv
<1>2. /\ pc = "starting" /\ step' = step + 1
      /\ pc' = IF step' = Len(Startup) THEN "select" ELSE pc
      /\ notified' = (notified \/ new = "signals")
      /\ srv' = [s \in Servers |->
                   IF s = new /\ (s = "debug" => HasDebug) THEN "starting" ELSE srv[s]]
      /\ sync' = IF new = "sync" THEN "run" ELSE sync
      /\ UNCHANGED <<svc, conf, ctxDone, req, timer, way, killed, lost, late>>
  BY DEF Open
<1>3. /\ svc \in Services /\ step \in Nat /\ step < Length /\ Len(Startup) = Length
      /\ Length \in Nat /\ MainAt \in Nat
  BY <1>1, <1>2, StartupIs DEF TypeOK, PhaseInv
<1>4. pc' = (IF step' = Length THEN "select" ELSE "starting") /\ step' \in 1..Length
  BY <1>2, <1>3
<1>5. /\ new = "main" => step' = MainAt
      /\ new = "debug" => step' = 5
      /\ new = "signals" /\ svc = "adapter" => step' = 2
      /\ svc = "adapter" /\ step' = 2 => new = "signals"
      /\ svc # "adapter" /\ step' = Length => new = "signals"
      /\ new = "sync" => svc = "adapter" /\ step' = Length
  <2>1. CASE svc = "gateway"
    <3>1. step \in {0, 1, 2, 3}
      BY <1>3, <2>1 DEF Length
    <3> QED BY <1>2, <1>3, <2>1, <3>1, StartupIs DEF Length, MainAt
  <2>2. CASE svc = "provider"
    <3>1. step \in {0, 1, 2, 3, 4}
      BY <1>3, <2>2 DEF Length
    <3> QED BY <1>2, <1>3, <2>2, <3>1, StartupIs DEF Length, MainAt
  <2>3. CASE svc = "adapter"
    <3>1. step \in {0, 1, 2, 3, 4, 5, 6}
      BY <1>3, <2>3 DEF Length
    <3> QED BY <1>2, <1>3, <2>3, <3>1, StartupIs DEF Length, MainAt
  <2> QED BY <1>3, <2>1, <2>2, <2>3 DEF Services
<1> HIDE DEF new
<1>6. TypeOK'
  <2>1. srv' \in [Servers -> {"off", "starting", "up", "down", "broken", "stopped"}]
    BY <1>1, <1>2 DEF TypeOK
  <2>2. notified' \in BOOLEAN
    BY <1>1, <1>2 DEF TypeOK
  <2> QED BY <1>1, <1>2, <1>3, <1>4, <2>1, <2>2, Unchanging DEF TypeOK
<1>7. PhaseInv'
  BY <1>1, <1>2, <1>3, <1>4, Unchanging DEF PhaseInv, Serving, Leaving
<1>8. ServersInv'
  <2>1. /\ srv'["main"] = (IF new = "main" THEN "starting" ELSE srv["main"])
        /\ srv'["debug"] = (IF new = "debug" /\ HasDebug THEN "starting" ELSE srv["debug"])
    BY <1>2 DEF Servers
  <2> QED BY <1>1, <1>2, <1>3, <1>4, <1>5, <2>1, Unchanging
          DEF ServersInv, Serving, Leaving, Ended
<1>9. ASSUME NEW r \in Requests, NEW k \in AllKinds PROVE RequestInv(r, k)'
  <2>1. RequestInv(r, k)
    BY DEF LifecycleInv
  <2>2. srv[ServerOf(k)] # "off" => srv'[ServerOf(k)] # "off"
    BY <1>2 DEF ServerOf, Servers
  <2> QED BY <1>2, <1>4, <2>1, <2>2, Unchanging DEF RequestInv, Serving, Ended, ServerOf
<1>10. SignalsInv'
  <2>1. svc = "adapter" /\ step' >= 2 => notified'
    <3>1. svc = "adapter" /\ step >= 2 => notified
      BY <1>1, <1>2 DEF SignalsInv, Serving
    <3>2. step' >= 2 => step >= 2 \/ step' = 2
      BY <1>2, <1>3
    <3>3. notified \/ new = "signals" => notified'
      BY <1>2
    <3> QED BY <1>5, <3>1, <3>2, <3>3
  <2>2. svc # "adapter" /\ step' = Length => notified'
    BY <1>2, <1>5
  <2>3. sync' # "off" => svc = "adapter" /\ step' = Length
    BY <1>1, <1>2, <1>5 DEF SignalsInv
  <2> QED BY <1>1, <1>2, <1>4, <2>1, <2>2, <2>3 DEF SignalsInv, Serving, Leaving, Ended
<1>11. EndInv'
  BY <1>1, <1>2, <1>4, Unchanging DEF EndInv, LossHasACause, AnswersArrive, Ended
<1> QED BY <1>6, <1>7, <1>8, <1>9, <1>10, <1>11 DEF LifecycleInv

LEMMA CloseStep ==
  ASSUME LifecycleInv, Close
  PROVE  LifecycleInv'
<1>1. TypeOK /\ PhaseInv /\ ServersInv /\ SignalsInv /\ EndInv
  BY DEF LifecycleInv
<1>2. /\ pc = "closing" /\ step > 0 /\ step' = step - 1
      /\ ctxDone' \in {ctxDone, TRUE} /\ notified' \in {notified, FALSE}
      /\ ctxDone => ctxDone'
      /\ UNCHANGED <<svc, conf, pc, srv, req, sync, timer, way, killed, lost, late>>
  BY DEF Close
<1>3. TypeOK'
  <2>1. step' \in 0..Len(Startup)
    BY <1>1, <1>2, StartupIs DEF TypeOK
  <2> QED BY <1>1, <1>2, <2>1, Unchanging DEF TypeOK
<1>4. PhaseInv' /\ ServersInv'
  BY <1>1, <1>2, Unchanging DEF PhaseInv, ServersInv, Serving, Leaving, Ended
<1>5. SignalsInv'
  BY <1>1, <1>2 DEF SignalsInv, Serving, Leaving, Ended
<1>6. ASSUME NEW r \in Requests, NEW k \in AllKinds PROVE RequestInv(r, k)'
  <2>1. RequestInv(r, k)
    BY DEF LifecycleInv
  <2> QED BY <1>2, <2>1, Unchanging DEF RequestInv, Serving, Ended, ServerOf
<1>7. EndInv'
  BY <1>1, <1>2, Unchanging DEF EndInv, LossHasACause, AnswersArrive, Ended
<1> QED BY <1>3, <1>4, <1>5, <1>6, <1>7 DEF LifecycleInv

\* A signal, or the end of the diagnostic server: the program's server is stopped.
LEMMA StopStep ==
  ASSUME LifecycleInv, OnSignal \/ OnDebugError
  PROVE  LifecycleInv'
<1>1. TypeOK /\ PhaseInv /\ ServersInv /\ SignalsInv /\ EndInv
  BY DEF LifecycleInv
<1>2. /\ pc = "select" /\ pc' = "stopping" /\ timer' = 0
      /\ srv' = [srv EXCEPT !["main"] = "stopped"]
      /\ UNCHANGED <<svc, conf, step, req, sync, killed, lost, late>>
  BY DEF OnSignal, OnDebugError
<1>3. \/ way' = "signal" /\ ctxDone /\ ctxDone' = ctxDone /\ notified' = notified
      \/ /\ way' = "debug" /\ srv["debug"] # "off"
         /\ svc = "adapter" => ctxDone' = TRUE /\ notified' = FALSE
         /\ svc # "adapter" => ctxDone' = ctxDone /\ notified' = notified
  BY DEF OnSignal, OnDebugError, Cancel, Failed
<1>4. step = Length /\ (svc = "adapter" => Length = 7) /\ way = "none"
  BY <1>1, <1>2 DEF PhaseInv, Length, Serving
<1>5. /\ notified' \in BOOLEAN /\ ctxDone' \in BOOLEAN
      /\ svc = "adapter" => ctxDone'
      /\ way' = "debug" => svc = "adapter"
      /\ way' = "signal" => notified'
  <2>1. svc = "adapter" => step >= 2
    BY <1>4
  <2>2. notified
    BY <1>1, <1>2, <2>1 DEF SignalsInv, Serving
  <2>3. srv["debug"] # "off" => svc = "adapter"
    BY <1>1, SettingsAre DEF ServersInv, TypeOK
  <2> QED BY <1>1, <1>3, <2>2, <2>3 DEF TypeOK
<1>6. TypeOK'
  BY <1>1, <1>2, <1>3, <1>5, Unchanging DEF TypeOK, Servers
<1>7. PhaseInv'
  BY <1>2, <1>3, <1>4, <1>5, Unchanging DEF PhaseInv, Serving, Leaving
<1>8. ServersInv'
  BY <1>1, <1>2, Unchanging DEF ServersInv, TypeOK, Serving, Leaving, Ended, Servers
<1>9. ASSUME NEW r \in Requests, NEW k \in AllKinds PROVE RequestInv(r, k)'
  <2>1. RequestInv(r, k)
    BY DEF LifecycleInv
  <2>2. req[r].age \in Nat
    BY <1>1 DEF TypeOK
  <2> QED BY <1>2, <2>1, <2>2, Unchanging DEF RequestInv, Serving, Ended
<1>10. SignalsInv'
  BY <1>1, <1>2, <1>5 DEF SignalsInv, Serving, Leaving, Ended
<1>11. EndInv'
  <2>1. lost = {}
    BY <1>1, <1>2 DEF EndInv, Ended
  <2> QED BY <1>1, <1>2, <2>1, Unchanging DEF EndInv, LossHasACause, AnswersArrive, Ended
<1> QED BY <1>6, <1>7, <1>8, <1>9, <1>10, <1>11 DEF LifecycleInv

\* The server is stopped, or it failed and is not waited for.
LEMMA StoppedStep ==
  ASSUME LifecycleInv, MainStopped \/ OnServerError
  PROVE  LifecycleInv'
<1>1. TypeOK /\ PhaseInv /\ ServersInv /\ SignalsInv /\ EndInv
  BY DEF LifecycleInv
<1>2. /\ pc \in {"select", "stopping"}
      /\ pc' = (IF HasDebug THEN "debug_stop" ELSE "closing") /\ timer' = 0
      /\ srv' = (IF HasDebug THEN [srv EXCEPT !["debug"] = "stopped"] ELSE srv)
      /\ UNCHANGED <<svc, conf, step, req, sync, killed, lost, late>>
  BY DEF MainStopped, OnServerError, StopDebugOrClose
<1>3. \/ /\ pc = "select" /\ way' = "server"
         /\ IF svc = "adapter" THEN ctxDone' = TRUE /\ notified' = FALSE
                               ELSE ctxDone' = ctxDone /\ notified' = notified
      \/ /\ pc = "stopping" /\ UNCHANGED <<way, ctxDone, notified>>
         /\ InFlight(Kinds("main")) = {} \/ (svc = "gateway" /\ timer >= conf.shutdown)
  BY DEF MainStopped, OnServerError, Cancel
<1>4. /\ notified' \in BOOLEAN /\ ctxDone' \in BOOLEAN
      /\ svc = "adapter" => ctxDone'
      /\ way' \in {"server", "signal", "debug"}
      /\ way' = "debug" => svc = "adapter"
      /\ way' = "signal" => notified'
  BY <1>1, <1>3 DEF TypeOK, SignalsInv, PhaseInv, Leaving
<1>5. step = Length
  BY <1>1, <1>2 DEF PhaseInv
<1>6. TypeOK'
  <2>1. srv' \in [Servers -> {"off", "starting", "up", "down", "broken", "stopped"}]
    BY <1>1, <1>2 DEF TypeOK
  <2> QED BY <1>1, <1>2, <1>4, <2>1, Unchanging DEF TypeOK
<1>7. PhaseInv'
  BY <1>2, <1>4, <1>5, Unchanging DEF PhaseInv, Serving, Leaving
<1>8. ServersInv'
  <2>1. srv["main"] = "stopped" \/ way' = "server"
    BY <1>1, <1>3 DEF ServersInv, PhaseInv, Leaving
  <2> QED BY <1>1, <1>2, <2>1, Unchanging DEF ServersInv, TypeOK, Serving, Leaving, Ended, Servers
<1>9. ASSUME NEW r \in Requests, NEW k \in AllKinds PROVE RequestInv(r, k)'
  <2> SUFFICES ASSUME req[r].kind = k PROVE RequestInv(r, k)'
    BY <1>2 DEF RequestInv
  <2>1. RequestInv(r, k)
    BY DEF LifecycleInv
  <2>2. req[r].age \in Nat /\ timer \in Nat /\ conf.shutdown \in Nat
    BY <1>1, SettingsAre DEF TypeOK
  <2>3. k # "debug" => way' = "server" \/ (Outlasts(k) /\ svc = "gateway")
    <3> SUFFICES ASSUME k # "debug", pc = "stopping", way' = way PROVE Outlasts(k) /\ svc = "gateway"
      BY <1>3
    <3>1. k \in Kinds("main") /\ r \in InFlight(Kinds("main"))
      BY <2>1 DEF RequestInv, InFlight
    <3>2. svc = "gateway" /\ timer >= conf.shutdown
      BY <1>3, <3>1
    <3>3. k \in {"catalog", "plain"}
      BY <3>1, <3>2 DEF Kinds
    <3>4. timer <= req[r].age /\ req[r].age <= Limit(k) /\ Limit(k) \in Nat
      BY <1>1, <2>1, <3>3, LimitsAre DEF RequestInv, TypeOK, Timed
    <3> QED BY <2>2, <3>2, <3>3, <3>4 DEF Outlasts
  <2>4. HasDebug => svc # "gateway"
    BY <1>1, SettingsAre DEF TypeOK
  <2> QED BY <1>2, <2>1, <2>2, <2>3, <2>4, Unchanging DEF RequestInv, Serving, Ended
<1>10. SignalsInv'
  BY <1>1, <1>2, <1>4 DEF SignalsInv, Serving, Leaving, Ended
<1>11. EndInv'
  <2>1. lost = {}
    BY <1>1, <1>2 DEF EndInv, Ended
  <2> QED BY <1>1, <1>2, <2>1, Unchanging DEF EndInv, LossHasACause, AnswersArrive, Ended
<1> QED BY <1>6, <1>7, <1>8, <1>9, <1>10, <1>11 DEF LifecycleInv

LEMMA DebugStoppedStep ==
  ASSUME LifecycleInv, DebugStopped
  PROVE  LifecycleInv'
<1>1. TypeOK /\ PhaseInv /\ ServersInv /\ SignalsInv /\ EndInv
  BY DEF LifecycleInv
<1>2. /\ pc = "debug_stop" /\ pc' = "closing"
      /\ InFlight({"debug"}) = {} \/ timer >= DebugGrace
      /\ UNCHANGED <<svc, conf, step, notified, ctxDone, srv, req, sync, timer, way, killed, lost, late>>
  BY DEF DebugStopped
<1>3. TypeOK'
  BY <1>1, <1>2, Unchanging DEF TypeOK
<1>4. PhaseInv' /\ ServersInv' /\ SignalsInv'
  BY <1>1, <1>2, Unchanging DEF PhaseInv, ServersInv, SignalsInv, Serving, Leaving, Ended
<1>5. ASSUME NEW r \in Requests, NEW k \in AllKinds PROVE RequestInv(r, k)'
  <2> SUFFICES ASSUME req[r].kind = k PROVE RequestInv(r, k)'
    BY <1>2 DEF RequestInv
  <2>1. RequestInv(r, k)
    BY DEF LifecycleInv
  <2>2. k = "debug" => Outlasts(k)
    <3> SUFFICES ASSUME k = "debug" PROVE Outlasts(k)
      OBVIOUS
    <3>1. timer >= DebugGrace
      BY <1>2 DEF InFlight
    <3>2. timer <= req[r].age /\ req[r].age <= Limit(k) /\ Limit(k) \in Nat
      BY <1>1, <1>2, <2>1, LimitsAre DEF RequestInv, TypeOK, Timed
    <3>3. req[r].age \in Nat /\ timer \in Nat /\ DebugGrace \in Nat
      BY <1>1, TimersAssumption DEF TypeOK
    <3> QED BY <3>1, <3>2, <3>3 DEF Outlasts
  <2> QED BY <1>2, <2>1, <2>2, Unchanging DEF RequestInv, Serving, Ended
<1>6. EndInv'
  BY <1>1, <1>2, Unchanging DEF EndInv, LossHasACause, AnswersArrive, Ended
<1> QED BY <1>3, <1>4, <1>5, <1>6 DEF LifecycleInv

LEMMA StutterStep ==
  ASSUME LifecycleInv, UNCHANGED vars
  PROVE  LifecycleInv'
<1>1. TypeOK' /\ PhaseInv' /\ ServersInv' /\ SignalsInv' /\ EndInv'
  BY Unchanging DEF LifecycleInv, vars, TypeOK, PhaseInv, ServersInv, SignalsInv, EndInv,
     LossHasACause, AnswersArrive, Serving, Leaving, Ended
<1>2. ASSUME NEW r \in Requests, NEW k \in AllKinds PROVE RequestInv(r, k)'
  <2>1. RequestInv(r, k)
    BY DEF LifecycleInv
  <2> QED BY <2>1, Unchanging DEF vars, RequestInv, Serving, Ended, ServerOf
<1> QED BY <1>1, <1>2 DEF LifecycleInv

-----------------------------------------------------------------------------
\* For every program, any number of requests and any settings: what is open, which
\* servers run and how old a request is agree with where main is.
THEOREM LifecycleInvariant == Spec => []LifecycleInv
<1>1. Init => LifecycleInv
  BY InitImplies
<1>2. LifecycleInv /\ [Next]_vars => LifecycleInv'
  <2> SUFFICES ASSUME LifecycleInv, [Next]_vars PROVE LifecycleInv'
    OBVIOUS
  <2>1. CASE Main
    <3>1. CASE Open
      BY <3>1, OpenStep
    <3>2. CASE OpenFails \/ Return
      BY <3>2, EndStep
    <3>3. CASE OnSignal \/ OnDebugError
      BY <3>3, StopStep
    <3>4. CASE OnServerError \/ MainStopped
      BY <3>4, StoppedStep
    <3>5. CASE DebugStopped
      BY <3>5, DebugStoppedStep
    <3>6. CASE Close
      BY <3>6, CloseStep
    <3> QED BY <2>1, <3>1, <3>2, <3>3, <3>4, <3>5, <3>6 DEF Main
  <2>2. CASE SyncStep
    BY <2>2, SyncPreserves
  <2>3. CASE Signal
    BY <2>3, SignalStep, EndStep
  <2>4. CASE Tick
    BY <2>4, TickStep
  <2>5. CASE \E s \in Servers : Listen(s) \/ ServeFails(s)
    BY <2>5, ServeStep
  <2>6. CASE \E r \in Requests, s \in Servers : \E kind \in Kinds(s) : Arrive(r, s, kind)
    BY <2>6, RequestStep
  <2>7. CASE \E r \in Requests : Answer(r) \/ Leave(r)
    BY <2>7, RequestStep
  <2>8. CASE UNCHANGED vars
    BY <2>8, StutterStep
  <2> QED BY <2>1, <2>2, <2>3, <2>4, <2>5, <2>6, <2>7, <2>8 DEF Next, Gone
<1> QED BY <1>1, <1>2, PTL DEF Spec

\* No request meets a connection or store before it is opened or after it is closed,
\* but for the three reasons StoresOutliveWork names; and a sync whose stores are
\* closed was told to stop: the order of main's startup and of its deferred functions.
THEOREM WorkFindsItsStores == Spec => []StoresOutliveWork
BY LifecycleInvariant, StoresOpen, PTL

\* The end of a process cuts a request only for the reasons LossHasACause names:
\* what graceful shutdown leaves over.
THEOREM NothingIsLostWithoutCause == Spec => []LossHasACause
<1>1. LifecycleInv => LossHasACause
  BY DEF LifecycleInv, EndInv
<1> QED BY <1>1, LifecycleInvariant, PTL

\* Whatever the settings, the gateway's catalog answers in time if it has more than
\* a second to, and the other handlers if they have more than their calls.
THEOREM CatalogAnswersInTime == Spec => []AnswersArrive
<1>1. LifecycleInv => AnswersArrive
  BY DEF LifecycleInv, EndInv
<1> QED BY <1>1, LifecycleInvariant, PTL

=============================================================================
