----------------------------- MODULE MatchStore -----------------------------
(***************************************************************************)
(* The match adapter's data path: GetMatch calls and the periodic sync     *)
(* write matches of the Premierliga site to Postgres and to a Redis cache, *)
(* concurrently and without locks.  A match is abstracted to the version   *)
(* of it the site published; version 0 stands for "no such match".         *)
(***************************************************************************)
EXTENDS Integers, Sequences, FiniteSets

CONSTANTS
  Ids,           \* match ids
  Readers,       \* concurrent GetMatch calls
  Sync,          \* the sync goroutine
  MaxVersion,    \* bound on the versions the site publishes of a match
  Unresolvable,  \* <<id, version>> whose destination airport cannot be found
  MaxFaults,     \* bound on failing calls to the site, Postgres and Redis
  MaxCrashes     \* bound on restarts of the adapter

ASSUME IdsAssumption == IsFiniteSet(Ids) /\ Ids # {}
ASSUME SyncAssumption == Sync \notin Readers
ASSUME BoundsAssumption ==
  MaxVersion \in Nat /\ MaxFaults \in Nat /\ MaxCrashes \in Nat

VARIABLES
  source,     \* latest published version of each match
  db,         \* version stored in table matches
  cache,      \* version cached under match:<id>
  pc,         \* where each GetMatch call and the sync are
  job,        \* the id each of them works on
  val,        \* the local variable match of each of them
  answer,     \* what a GetMatch call answered
  rest,       \* ids the sync has still to visit after the current one
  listed, saved, failed,   \* the sync's len(ids) and counters
  outcome,    \* how the latest sync run ended
  faults, crashes,
  \* History, read by the properties only:
  stored,     \* versions of each match ever written to the table
  overtaken,  \* another process has written this id since the process read it
  written     \* ids whose upsert was acknowledged in this sync run

envVars   == <<source, faults, crashes>>
storeVars == <<db, cache, stored>>
procVars  == <<pc, job, val, overtaken>>
syncVars  == <<rest, listed, saved, failed, outcome, written>>
vars      == <<envVars, storeVars, procVars, answer, syncVars>>

Procs    == Readers \cup {Sync}
Versions == 0..MaxVersion
Published == {i \in Ids : source[i] # 0}
HasDestination(i, v) == <<i, v>> \notin Unresolvable

\* The orders in which the ids of S can be listed.
Orders(S) == {q \in [1..Cardinality(S) -> S] : \A k, l \in DOMAIN q : q[k] = q[l] => k = l}

ReaderPC == {"idle", "cache", "repo", "fetch", "enrich", "upsert", "fill", "answered"}
SyncPC   == {"idle", "list", "fetch", "enrich", "upsert", "fill"}

Ok    == UNCHANGED faults
Fault == faults < MaxFaults /\ faults' = faults + 1

Goto(p, place) == pc' = [pc EXCEPT ![p] = place]
-----------------------------------------------------------------------------
Init ==
  /\ source = [i \in Ids |-> 0]
  /\ db = [i \in Ids |-> 0]
  /\ cache = [i \in Ids |-> 0]
  /\ pc = [p \in Procs |-> "idle"]
  /\ job \in [Procs -> Ids] /\ \A p, q \in Procs : job[p] = job[q]
  /\ val = [p \in Procs |-> 0]
  /\ answer = [r \in Readers |-> "none"]
  /\ rest = <<>> /\ listed = 0 /\ saved = 0 /\ failed = 0
  /\ outcome = "none"
  /\ faults = 0 /\ crashes = 0
  /\ stored = [i \in Ids |-> {}]
  /\ overtaken = [p \in Procs |-> FALSE]
  /\ written = {}
-----------------------------------------------------------------------------
(* The operations of the ports. *)

\* Mutant: INSERT ... ON CONFLICT DO NOTHING.
WriteOnce(p) ==
  /\ db' = [db EXCEPT ![job[p]] = IF @ = 0 THEN val[p] ELSE @]
  /\ stored' = [stored EXCEPT ![job[p]] = @ \cup {val[p]}]
  /\ overtaken' = [q \in Procs |->
                     overtaken[q] \/ (q # p /\ job[q] = job[p])]

\* The row is overwritten whatever it held; every other process that works on
\* the same match has been overtaken.
Write(p) ==
  /\ db' = [db EXCEPT ![job[p]] = val[p]]
  /\ stored' = [stored EXCEPT ![job[p]] = @ \cup {val[p]}]
  /\ overtaken' = [q \in Procs |->
                     overtaken[q] \/ (q # p /\ job[q] = job[p])]

\* redis SET of the match with its TTL
SetCache(p) == cache' = [cache EXCEPT ![job[p]] = val[p]]

\* The process reads the match into its local variable.
Load(p, v) ==
  /\ val' = [val EXCEPT ![p] = v]
  /\ overtaken' = [overtaken EXCEPT ![p] = FALSE]
-----------------------------------------------------------------------------
(* GetMatch *)

Answer(r, a) == Goto(r, "answered") /\ answer' = [answer EXCEPT ![r] = a]

StartGet(r) ==
  /\ pc[r] = "idle"
  /\ \E i \in Ids : job' = [job EXCEPT ![r] = i]
  /\ Goto(r, "cache")
  /\ UNCHANGED <<envVars, storeVars, val, overtaken, answer, syncVars>>

\* Mutant: a cached match is saved to the table before it is served.
ReadCacheThrough(r) ==
  /\ pc[r] = "cache"
  /\ \/ /\ cache[job[r]] # 0 /\ Ok
        /\ Load(r, cache[job[r]])
        /\ Goto(r, "upsert")
     \/ /\ \/ cache[job[r]] = 0 /\ Ok
           \/ Fault
        /\ Goto(r, "repo")
        /\ UNCHANGED <<val, overtaken>>
  /\ UNCHANGED <<source, crashes, storeVars, job, answer, syncVars>>

\* A hit is the answer; a miss and an error both fall through to the table.
ReadCache(r) ==
  /\ pc[r] = "cache"
  /\ \/ /\ cache[job[r]] # 0 /\ Ok
        /\ Load(r, cache[job[r]])
        /\ Answer(r, "ok")
     \/ /\ \/ cache[job[r]] = 0 /\ Ok
           \/ Fault
        /\ Goto(r, "repo")
        /\ UNCHANGED <<val, overtaken, answer>>
  /\ UNCHANGED <<source, crashes, storeVars, job, syncVars>>

ReadRepo(r) ==
  /\ pc[r] = "repo"
  /\ \/ /\ db[job[r]] # 0 /\ Ok
        /\ Load(r, db[job[r]])
        /\ Goto(r, "fill")
        /\ UNCHANGED answer
     \/ /\ db[job[r]] = 0 /\ Ok
        /\ Goto(r, "fetch")
        /\ UNCHANGED <<val, overtaken, answer>>
     \/ /\ Fault
        /\ Answer(r, "error")
        /\ UNCHANGED <<val, overtaken>>
  /\ UNCHANGED <<source, crashes, storeVars, job, syncVars>>

FetchSource(r) ==
  /\ pc[r] = "fetch"
  /\ \/ /\ source[job[r]] # 0 /\ Ok
        /\ Load(r, source[job[r]])
        /\ Goto(r, "enrich")
        /\ UNCHANGED answer
     \/ /\ source[job[r]] = 0 /\ Ok
        /\ Answer(r, "not_found")
        /\ UNCHANGED <<val, overtaken>>
     \/ /\ Fault
        /\ Answer(r, "error")
        /\ UNCHANGED <<val, overtaken>>
  /\ UNCHANGED <<source, crashes, storeVars, job, syncVars>>

\* Mutant: an unresolved destination is only logged.
EnrichLogsOnly(r) ==
  /\ pc[r] = "enrich" /\ Ok
  /\ Goto(r, "upsert")
  /\ UNCHANGED <<source, crashes, storeVars, job, val, overtaken, answer, syncVars>>

\* enrichDestinationFromCityOrClub: a destination, or the call fails.
Enrich(r) ==
  /\ pc[r] = "enrich"
  /\ \/ /\ HasDestination(job[r], val[r]) /\ Ok
        /\ Goto(r, "upsert")
        /\ UNCHANGED answer
     \/ /\ ~HasDestination(job[r], val[r]) /\ Ok
        /\ Answer(r, "error")
     \/ /\ Fault
        /\ Answer(r, "error")
  /\ UNCHANGED <<source, crashes, storeVars, job, val, overtaken, syncVars>>

\* An upsert that reports an error may have been committed all the same.
Upsert(r) ==
  /\ pc[r] = "upsert"
  /\ \/ /\ Write(r) /\ Ok
        /\ Goto(r, "fill")
        /\ UNCHANGED answer
     \/ /\ Write(r) \/ UNCHANGED <<db, stored, overtaken>>
        /\ Fault
        /\ Answer(r, "error")
  /\ UNCHANGED <<source, crashes, cache, job, val, syncVars>>

\* The cache is set after a row was read and after one was written; its
\* failure is only logged.
FillCache(r) ==
  /\ pc[r] = "fill"
  /\ \/ SetCache(r) /\ Ok
     \/ Fault /\ UNCHANGED cache
  /\ Answer(r, "ok")
  /\ UNCHANGED <<source, crashes, db, stored, job, val, overtaken, syncVars>>

Return(r) ==
  /\ pc[r] = "answered"
  /\ Goto(r, "idle")
  /\ answer' = [answer EXCEPT ![r] = "none"]
  /\ val' = [val EXCEPT ![r] = 0]
  /\ UNCHANGED <<envVars, storeVars, job, overtaken, syncVars>>

GetMatch(r) ==
  \/ ReadCache(r) \/ ReadRepo(r) \/ FetchSource(r) \/ Enrich(r)
  \/ Upsert(r) \/ FillCache(r) \/ Return(r)
-----------------------------------------------------------------------------
(* SyncUpcomingMatches, called at startup and by a ticker *)

EndRun(o) == Goto(Sync, "idle") /\ outcome' = o /\ rest' = <<>>

\* Mutant: the counters are kept from run to run.
TickKeepsCounters ==
  /\ pc[Sync] = "idle"
  /\ Goto(Sync, "list")
  /\ outcome' = "none" /\ written' = {}
  /\ UNCHANGED <<envVars, storeVars, job, val, overtaken, answer, rest,
                 listed, saved, failed>>

Tick ==
  /\ pc[Sync] = "idle"
  /\ Goto(Sync, "list")
  /\ saved' = 0 /\ failed' = 0 /\ listed' = 0 /\ written' = {}
  /\ outcome' = "none"
  /\ UNCHANGED <<envVars, storeVars, job, val, overtaken, answer, rest>>

\* FetchUpcomingIDs: the published matches that begin within the horizon, of the
\* tournaments it selects and can read, cut to the limit. That changes with the
\* hour of the run and is UpcomingWindow's subject: here a run lists any of them,
\* and no match is sure to be listed again.
SyncList ==
  /\ pc[Sync] = "list"
  /\ \/ /\ Ok
        /\ \E S \in SUBSET Published : S # {} /\ \E q \in Orders(S) :
             /\ Goto(Sync, "fetch")
             /\ job' = [job EXCEPT ![Sync] = Head(q)]
             /\ rest' = Tail(q)
             /\ listed' = Len(q)
             /\ UNCHANGED outcome
     \/ Ok /\ EndRun("ok") /\ UNCHANGED <<job, listed>>
     \/ Fault /\ EndRun("error") /\ UNCHANGED <<job, listed>>
  /\ UNCHANGED <<source, crashes, storeVars, val, overtaken, answer,
                 saved, failed, written>>

\* The loop goes on to the next id, or the run ends: in an error when nothing
\* was saved.
NextId(s, f) ==
  /\ saved' = s /\ failed' = f
  /\ IF rest = <<>>
       THEN EndRun(IF s = 0 THEN "error" ELSE "ok") /\ UNCHANGED job
       ELSE /\ Goto(Sync, "fetch")
            /\ job' = [job EXCEPT ![Sync] = Head(rest)]
            /\ rest' = Tail(rest)
            /\ UNCHANGED outcome

\* A context error ends the run at once; any other counts as a failed id.
FailId ==
  \/ EndRun("ctx_error") /\ UNCHANGED <<job, saved, failed>>
  \/ NextId(saved, failed + 1)

SyncFetch ==
  /\ pc[Sync] = "fetch"
  /\ \/ /\ Ok
        /\ Load(Sync, source[job[Sync]])
        /\ Goto(Sync, "enrich")
        /\ UNCHANGED <<job, rest, saved, failed, outcome>>
     \/ Fault /\ FailId /\ UNCHANGED <<val, overtaken>>
  /\ UNCHANGED <<source, crashes, storeVars, answer, listed, written>>

SyncEnrich ==
  /\ pc[Sync] = "enrich"
  /\ \/ /\ HasDestination(job[Sync], val[Sync]) /\ Ok
        /\ Goto(Sync, "upsert")
        /\ UNCHANGED <<job, rest, saved, failed, outcome>>
     \/ /\ ~HasDestination(job[Sync], val[Sync]) /\ Ok
        /\ NextId(saved, failed + 1)
     \/ Fault /\ FailId
  /\ UNCHANGED <<source, crashes, storeVars, val, overtaken, answer, listed, written>>

\* Mutant: no continue after a failed upsert.
SyncUpsertGoesOn ==
  /\ pc[Sync] = "upsert"
  /\ \/ Write(Sync) /\ Ok
     \/ UNCHANGED <<db, stored, overtaken>> /\ Fault
  /\ Goto(Sync, "fill")
  /\ written' = written \cup {job[Sync]}
  /\ UNCHANGED <<source, crashes, cache, job, val, answer,
                 rest, listed, saved, failed, outcome>>

\* The row read before the upsert only feeds the log of differences.
SyncUpsert ==
  /\ pc[Sync] = "upsert"
  /\ \/ /\ Write(Sync) /\ Ok
        /\ Goto(Sync, "fill")
        /\ written' = written \cup {job[Sync]}
        /\ UNCHANGED <<job, rest, saved, failed, outcome>>
     \/ /\ Write(Sync) \/ UNCHANGED <<db, stored, overtaken>>
        /\ Fault /\ FailId
        /\ UNCHANGED written
  /\ UNCHANGED <<source, crashes, cache, val, answer, listed>>

\* Mutant: a failed cache write counts as a failed match.
SyncFillCountsFailure ==
  /\ pc[Sync] = "fill"
  /\ \/ SetCache(Sync) /\ Ok /\ NextId(saved + 1, failed)
     \/ Fault /\ UNCHANGED cache /\ NextId(saved, failed + 1)
  /\ UNCHANGED <<source, crashes, db, stored, val, overtaken, answer, listed, written>>

SyncFill ==
  /\ pc[Sync] = "fill"
  /\ \/ SetCache(Sync) /\ Ok
     \/ Fault /\ UNCHANGED cache
  /\ NextId(saved + 1, failed)
  /\ UNCHANGED <<source, crashes, db, stored, val, overtaken, answer, listed, written>>

SyncStep == Tick \/ SyncList \/ SyncFetch \/ SyncEnrich \/ SyncUpsert \/ SyncFill
-----------------------------------------------------------------------------
(* Environment *)

\* The site publishes a match or a new version of it.
Publish(i) ==
  /\ source[i] < MaxVersion
  /\ source' = [source EXCEPT ![i] = @ + 1]
  /\ UNCHANGED <<faults, crashes, storeVars, procVars, answer, syncVars>>

\* The TTL of a cached match passes.
Expire(i) ==
  /\ cache[i] # 0
  /\ cache' = [cache EXCEPT ![i] = 0]
  /\ UNCHANGED <<envVars, db, stored, procVars, answer, syncVars>>

\* The adapter stops and is started again: Postgres and Redis keep their data,
\* every call and the sync run under way are gone.
Crash ==
  /\ crashes < MaxCrashes /\ crashes' = crashes + 1
  /\ pc' = [p \in Procs |-> "idle"]
  /\ val' = [p \in Procs |-> 0]
  /\ answer' = [r \in Readers |-> "none"]
  /\ rest' = <<>> /\ listed' = 0 /\ saved' = 0 /\ failed' = 0
  /\ outcome' = "none" /\ written' = {}
  /\ UNCHANGED <<source, faults, storeVars, job, overtaken>>

Next ==
  \/ \E r \in Readers : StartGet(r) \/ GetMatch(r)
  \/ SyncStep
  \/ \E i \in Ids : Publish(i) \/ Expire(i)
  \/ Crash

Spec == Init /\ [][Next]_vars

\* The ticker keeps starting runs and a run keeps going: every call it makes
\* is bounded by the run's context. Calls fail finitely often (MaxFaults).
\* Nothing is assumed of GetMatch calls, of the site, of what a run lists, or of
\* expiry, which the sync postpones whenever it sets the cache again.
FairSpec == Spec /\ WF_vars(SyncStep)
-----------------------------------------------------------------------------
TypeOK ==
  /\ source \in [Ids -> Versions] /\ db \in [Ids -> Versions]
  /\ cache \in [Ids -> Versions]
  /\ pc \in [Procs -> ReaderPC \cup SyncPC]
  /\ job \in [Procs -> Ids] /\ val \in [Procs -> Versions]
  /\ answer \in [Readers -> {"none", "ok", "not_found", "error"}]
  /\ rest \in Seq(Ids)
  /\ listed \in 0..Cardinality(Ids)
  /\ saved \in 0..Cardinality(Ids) /\ failed \in 0..Cardinality(Ids)
  /\ outcome \in {"none", "ok", "error", "ctx_error"}
  /\ faults \in 0..MaxFaults /\ crashes \in 0..MaxCrashes
  /\ stored \in [Ids -> SUBSET Versions]
  /\ overtaken \in [Procs -> BOOLEAN]
  /\ written \in SUBSET Ids

\* The cache and the answers of GetMatch never hold a match that was never in
\* the table, whatever fails or crashes between an upsert and a cache write.
OnlyStoredIsServed ==
  /\ \A i \in Ids : cache[i] # 0 => cache[i] \in stored[i]
  /\ \A r \in Readers : answer[r] = "ok" => val[r] \in stored[job[r]]

\* No match without a destination airport is ever stored, hence none is cached or
\* served: the airfare provider checks only that a match has a kickoff, and would
\* search for fares to nowhere.
StoredHasDestination ==
  \A i \in Ids : \A v \in stored[i] : v # 0 /\ HasDestination(i, v)

\* A stored match goes back to an older version only in a race: the process
\* that writes it fetched before another process wrote the same match.
RegressionNeedsRace ==
  [][\A i \in Ids : db'[i] < db[i] =>
        \E p \in Procs : /\ pc[p] = "upsert" /\ job[p] = i
                         /\ db'[i] = val[p] /\ overtaken[p]]_vars

\* The counters of a sync run account for every listed id, and the number it
\* reports is the number of rows whose write was acknowledged.
SyncAccounts ==
  /\ pc[Sync] \in {"fetch", "enrich", "upsert", "fill"} =>
        /\ saved + failed + 1 + Len(rest) = listed
        /\ saved = Cardinality(written \ (IF pc[Sync] = "fill" THEN {job[Sync]} ELSE {}))
  /\ outcome \in {"ok", "error"} =>
        /\ saved = Cardinality(written)
        /\ saved + failed = listed
        /\ outcome = "ok" /\ listed > 0 => saved > 0

\* What the processes may rely on: nothing stored, cached or in hand is newer
\* than the site's version, and a process that has not been overtaken holds a
\* version at least as new as the row it is about to write.
NeverAhead ==
  /\ \A i \in Ids : db[i] <= source[i]
  /\ \A p \in Procs : pc[p] \in {"enrich", "upsert"} =>
        /\ val[p] # 0 /\ val[p] <= source[job[p]]
        /\ ~overtaken[p] => db[job[p]] <= val[p]
  /\ \A p \in Procs : pc[p] = "upsert" => HasDestination(job[p], val[p])

RowsAreStored ==
  /\ \A i \in Ids : db[i] # 0 => db[i] \in stored[i]
  /\ \A p \in Procs : pc[p] = "fill" => val[p] \in stored[job[p]]

\* The sync visits published matches only, and a reader has answered exactly
\* when it is about to return.
Visits ==
  /\ pc[Sync] \in SyncPC
  /\ pc[Sync] \in {"fetch", "enrich", "upsert", "fill"} =>
        /\ source[job[Sync]] # 0
        /\ \A k \in 1..Len(rest) : source[rest[k]] # 0
        /\ saved + failed + 1 + Len(rest) = listed
  /\ pc[Sync] \in {"idle", "list"} => rest = <<>>
  /\ pc[Sync] = "list" => saved = 0 /\ failed = 0
  /\ \A r \in Readers : answer[r] # "none" <=> pc[r] = "answered"

\* The inductive invariant behind the safety properties.
StoreInv ==
  TypeOK /\ NeverAhead /\ RowsAreStored /\ Visits
    /\ OnlyStoredIsServed /\ StoredHasDestination

Fresh(i) == HasDestination(i, source[i]) =>
              db[i] = source[i] /\ cache[i] \in {0, source[i]}

\* The step by which a run lists match i.
Lists(i) ==
  /\ pc[Sync] = "list" /\ pc'[Sync] = "fetch"
  /\ job'[Sync] = i \/ \E k \in 1..Len(rest') : rest'[k] = i

\* A match that runs list again and again, and whose destination can be found, is
\* stored in its latest version in the end, and no older one stays in the cache,
\* whatever calls race with the sync: once calls stop failing and the site stops
\* publishing. Of a match that is over, or falls out of the list, nothing is
\* promised: what its last write left stays.
EventuallyConsistent ==
  \A i \in Ids : []<><<Lists(i)>>_vars => <>[]Fresh(i)
=============================================================================
