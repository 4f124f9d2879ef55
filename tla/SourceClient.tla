---------------------------- MODULE SourceClient ----------------------------
(***************************************************************************)
(* A sync run of the match adapter and the HTTP client below it: the run   *)
(* fetches the listed matches one after the other under one deadline, and  *)
(* each fetch is retried with a growing pause while the site is            *)
(* unavailable.  What follows a fetch (enrichment, table, cache) is        *)
(* MatchStore's subject and takes no step here.                            *)
(***************************************************************************)
EXTENDS Integers, Sequences

CONSTANTS
  N,            \* number of matches listed for the run
  MaxAttempts   \* RetryMaxAttempts

ASSUME NAssumption == N \in Nat \ {0}
ASSUME MaxAttemptsAssumption == MaxAttempts \in Nat \ {0}

VARIABLES
  pc,        \* where the run is
  id,        \* the match it is at
  tried,     \* outcomes of the requests made for each match
  ctxDone,   \* the deadline of the run has passed
  saved, failed,
  outcome    \* how the latest run ended

vars == <<pc, id, tried, ctxDone, saved, failed, outcome>>

Ids == 1..N

\* What one request comes to: "unavailable" is a network error, a 5xx or a 429;
\* "rejected" any other status or a body that cannot be read; "timeout" the HTTP
\* client's own timeout, an error that errors.Is calls DeadlineExceeded too.
Replies == {"ok", "not_found", "unavailable", "rejected", "timeout"}
Result  == Replies \cup {"ctx"}

\* Errors the client returns at once and the service takes for the end of its
\* own context.
ContextErr == {"timeout", "ctx"}

PC == {"idle", "request", "backoff"}

Attempt == Len(tried[id])

Init ==
  /\ pc = "idle" /\ id = 1
  /\ tried = [i \in Ids |-> <<>>]
  /\ ctxDone = FALSE
  /\ saved = 0 /\ failed = 0
  /\ outcome = "none"

StartRun ==
  /\ pc = "idle"
  /\ pc' = "request" /\ id' = 1
  /\ tried' = [i \in Ids |-> <<>>]
  /\ ctxDone' = FALSE
  /\ saved' = 0 /\ failed' = 0
  /\ outcome' = "none"

EndRun(o) ==
  /\ pc' = "idle" /\ outcome' = o
  /\ UNCHANGED id

\* Mutant: one failed match makes the run an error.
NextMatchStrict(s, f) ==
  /\ saved' = s /\ failed' = f
  /\ IF id < N
       THEN pc' = "request" /\ id' = id + 1 /\ UNCHANGED outcome
       ELSE EndRun(IF f > 0 THEN "error" ELSE "ok")

\* The loop goes on to the next match, or the run ends: in an error when nothing
\* was saved.
NextMatch(s, f) ==
  /\ saved' = s /\ failed' = f
  /\ IF id < N
       THEN pc' = "request" /\ id' = id + 1 /\ UNCHANGED outcome
       ELSE EndRun(IF s = 0 THEN "error" ELSE "ok")

\* Mutant: every failure is worth another attempt.
RetryAll(r) == r \in {"unavailable", "rejected", "not_found"}

\* Only an unavailable site is asked again.
Retry(r) == r = "unavailable"

\* postOnce, and what postWithRetry and the sync do with its result.
Request ==
  /\ pc = "request"
  /\ \E r \in IF ctxDone THEN {"ctx"} ELSE Replies :
        /\ tried' = [tried EXCEPT ![id] = Append(@, r)]
        /\ \/ /\ r = "ok"
              /\ NextMatch(saved + 1, failed)
           \/ /\ r \in ContextErr
              /\ EndRun("ctx_error") /\ UNCHANGED <<saved, failed>>
           \/ /\ Retry(r) /\ Attempt + 1 < MaxAttempts
              /\ pc' = "backoff"
              /\ UNCHANGED <<id, saved, failed, outcome>>
           \/ /\ r \notin ContextErr \cup {"ok"}
              /\ ~(Retry(r) /\ Attempt + 1 < MaxAttempts)
              /\ NextMatch(saved, failed + 1)
  /\ UNCHANGED ctxDone

\* Mutant: the end of the context stops the timer but not the pause.
BackoffForever ==
  /\ pc = "backoff"
  /\ \/ ~ctxDone /\ pc' = "request"
     \/ ctxDone /\ UNCHANGED pc
  /\ UNCHANGED <<id, tried, ctxDone, saved, failed, outcome>>

\* The pause before the next attempt ends with its timer or with the context;
\* when both are due either may win.
Backoff ==
  /\ pc = "backoff"
  /\ \/ /\ pc' = "request" /\ UNCHANGED <<id, outcome>>
     \/ /\ ctxDone /\ EndRun("ctx_error")
  /\ UNCHANGED <<tried, ctxDone, saved, failed>>

\* The run's request_timeout passes, or the process is told to stop.
CtxExpires ==
  /\ pc # "idle" /\ ~ctxDone
  /\ ctxDone' = TRUE
  /\ UNCHANGED <<pc, id, tried, saved, failed, outcome>>

Next == StartRun \/ Request \/ Backoff \/ CtxExpires

Spec == Init /\ [][Next]_vars

\* The HTTP client has a timeout and the pause a timer.
FairSpec == Spec /\ WF_vars(Request \/ Backoff)
-----------------------------------------------------------------------------
Final(i) == tried[i][Len(tried[i])]

TypeOK ==
  /\ pc \in PC /\ id \in Ids
  /\ tried \in [Ids -> Seq(Result)]
  /\ ctxDone \in BOOLEAN
  /\ saved \in 0..N /\ failed \in 0..N
  /\ outcome \in {"none", "ok", "error", "ctx_error"}

\* No match is asked for more often than allowed, and again only after the site
\* was unavailable: a match that does not exist costs one request per run.
RetriesAreDue ==
  \A i \in Ids :
    /\ Len(tried[i]) <= MaxAttempts
    /\ \A k \in 1..(Len(tried[i]) - 1) : tried[i][k] = "unavailable"

\* A run that ends by itself has a final result for every match and has counted
\* it; one that is cut has counted every match before the one it was cut at, and was
\* cut by its own deadline or by a request that met the HTTP client's timeout.
Visited == IF outcome \in {"ok", "error"} THEN Ids ELSE 1..(id - 1)

CountsFinals ==
  /\ TypeOK
  /\ \A i \in Visited : tried[i] # <<>>
  /\ \A i \in Ids \ Visited : i # id => tried[i] = <<>>
  /\ saved + failed = IF outcome \in {"ok", "error"} THEN N ELSE id - 1
  /\ outcome = "ok" => \E i \in Ids : Final(i) = "ok"
  /\ outcome = "ctx_error" => ctxDone \/ (tried[id] # <<>> /\ Final(id) = "timeout")
  /\ outcome = "error" => \A i \in Ids : Final(i) \notin {"ok", "ctx", "timeout"}

\* match_service_test.go: a match that cannot be fetched is counted and the run
\* goes on. So a run whose own context lives is not cut short.
OneFailureSparesTheRest == outcome = "ctx_error" => ctxDone

\* A run that was started ends, however the site behaves.
RunEnds == pc = "request" ~> pc = "idle"
=============================================================================
