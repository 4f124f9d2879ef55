------------------------- MODULE CallFailures_proofs ------------------------
(***************************************************************************)
(* What becomes of calls that fail: in a sync run over the HTTP client of  *)
(* the site, for any number of listed matches and of allowed attempts, and *)
(* in an airfare request on its way through the three services.            *)
(***************************************************************************)
EXTENDS SourceClient, RequestChain, TLAPS

\* What the requests for a match look like while the run is at it: the site
\* was unavailable every time, and another attempt is allowed.
Pending(s) ==
  /\ Len(s) < MaxAttempts
  /\ \A k \in 1..Len(s) : s[k] = "unavailable"

\* What they look like once the run has gone on: a reply that is final.
Concluded(s) == s # <<>> /\ s[Len(s)] \in Replies \ ContextErr

\* The inductive invariant.  RetriesAreDue bounds the attempts, but is kept
\* only because a run that is about to ask has attempts left; CountsFinals
\* speaks of the counters at the end of a run, and is kept only because
\* they count the matches left behind all along.
Sequenced ==
  /\ \A i \in Visited : Concluded(tried[i])
  /\ \A i \in Ids \ Visited : i # id => tried[i] = <<>>
  /\ pc # "idle" => Pending(tried[id])

Counted ==
  /\ saved + failed = IF outcome \in {"ok", "error"} THEN N ELSE id - 1
  /\ saved > 0 <=> \E i \in Visited : Final(i) = "ok"
  /\ outcome = "ok" => saved > 0
  /\ outcome = "error" => saved = 0

Explained ==
  /\ pc # "idle" => outcome = "none"
  /\ outcome = "ctx_error" =>
       ctxDone \/ (tried[id] # <<>> /\ Final(id) = "timeout")

RunInv == TypeOK /\ RetriesAreDue /\ Sequenced /\ Counted /\ Explained
-----------------------------------------------------------------------------
\* Retries only follow an unavailable site, in a list of outcomes s.
Due(s) ==
  /\ Len(s) <= MaxAttempts
  /\ \A k \in 1..(Len(s) - 1) : s[k] = "unavailable"

\* One more outcome after a pending list: only the last one may be final.
LEMMA AppendToPending ==
  ASSUME NEW s \in Seq(Result), NEW r \in Result, Pending(s)
  PROVE  /\ Append(s, r) \in Seq(Result)
         /\ Append(s, r) # <<>>
         /\ Len(Append(s, r)) = Len(s) + 1
         /\ Append(s, r)[Len(Append(s, r))] = r
         /\ Due(Append(s, r))
         /\ r = "unavailable" /\ Len(s) + 1 < MaxAttempts => Pending(Append(s, r))
<1> DEFINE t == Append(s, r)
<1>1. /\ t \in Seq(Result) /\ Len(t) = Len(s) + 1 /\ Len(s) \in Nat
      /\ t[Len(t)] = r
      /\ \A k \in 1..Len(s) : t[k] = s[k]
  OBVIOUS
<1>2. t # <<>>
  BY <1>1
<1>3. Due(t)
  BY <1>1, MaxAttemptsAssumption DEF Due, Pending
<1>4. ASSUME r = "unavailable", Len(s) + 1 < MaxAttempts PROVE Pending(t)
  BY <1>1, <1>4 DEF Pending
<1> QED
  BY <1>1, <1>2, <1>3, <1>4

\* The same, for the match the run is at.
LEMMA AppendAtId ==
  ASSUME RunInv, pc = "request", NEW r \in Result,
         tried' = [tried EXCEPT ![id] = Append(@, r)]
  PROVE  /\ tried' \in [Ids -> Seq(Result)]
         /\ \A i \in Ids : i # id => tried'[i] = tried[i]
         /\ tried'[id] # <<>>
         /\ tried'[id][Len(tried'[id])] = r
         /\ \A i \in Ids : Due(tried'[i])
         /\ r = "unavailable" /\ Attempt + 1 < MaxAttempts => Pending(tried'[id])
<1>1. tried \in [Ids -> Seq(Result)] /\ id \in Ids
  BY DEF RunInv, TypeOK
<1>2. Pending(tried[id])
  BY DEF RunInv, Sequenced
<1>3. tried[id] \in Seq(Result)
  BY <1>1
<1>4. tried'[id] = Append(tried[id], r)
  BY <1>1
<1>5. \A i \in Ids : i # id => tried'[i] = tried[i]
  BY <1>1
<1>6. Due(Append(tried[id], r)) /\ Append(tried[id], r) \in Seq(Result)
  BY <1>2, <1>3, AppendToPending
<1>7. \A i \in Ids : Due(tried[i])
  BY DEF RunInv, RetriesAreDue, Due
<1>8. tried' \in [Ids -> Seq(Result)]
  BY <1>1, <1>6
<1>9. \A i \in Ids : Due(tried'[i])
  BY <1>4, <1>5, <1>6, <1>7
<1> QED
  BY <1>2, <1>3, <1>4, <1>5, <1>8, <1>9, AppendToPending DEF Attempt

LEMMA DueEverywhere == RetriesAreDue <=> \A i \in Ids : Due(tried[i])
BY DEF RetriesAreDue, Due
-----------------------------------------------------------------------------
LEMMA InitRunInv == Init => RunInv
<1> SUFFICES ASSUME Init PROVE RunInv
  OBVIOUS
<1> USE NAssumption, MaxAttemptsAssumption DEF Init, Ids
<1>1. \A i \in Ids : tried[i] = <<>> /\ Len(tried[i]) = 0
  OBVIOUS
<1>2. TypeOK
  <2>1. <<>> \in Seq(Result)
    OBVIOUS
  <2>2. tried \in [Ids -> Seq(Result)]
    BY <2>1
  <2>3. saved \in 0..N /\ failed \in 0..N /\ id \in Ids
    OBVIOUS
  <2> QED
    BY <2>2, <2>3 DEF TypeOK, PC
<1>3. RetriesAreDue
  BY <1>1 DEF RetriesAreDue
<1>4. Visited = {}
  BY DEF Visited
<1>5. Sequenced /\ Explained
  BY <1>1, <1>4 DEF Sequenced, Explained
<1>6. Counted
  BY <1>4 DEF Counted
<1> QED
  BY <1>2, <1>3, <1>5, <1>6 DEF RunInv

LEMMA StartRunKeepsRunInv == RunInv /\ StartRun => RunInv'
<1> SUFFICES ASSUME RunInv, StartRun PROVE RunInv'
  OBVIOUS
<1> USE NAssumption, MaxAttemptsAssumption DEF StartRun, Ids
<1>1. \A i \in Ids : tried'[i] = <<>> /\ Len(tried'[i]) = 0
  OBVIOUS
<1>2. TypeOK'
  <2>1. <<>> \in Seq(Result)
    OBVIOUS
  <2>2. tried' \in [Ids -> Seq(Result)]
    BY <2>1
  <2>3. saved' \in 0..N /\ failed' \in 0..N /\ id' \in Ids
    OBVIOUS
  <2> QED
    BY <2>2, <2>3 DEF TypeOK, PC
<1>3. RetriesAreDue'
  BY <1>1 DEF RetriesAreDue
<1>4. Visited' = {}
  BY DEF Visited
<1>5. Pending(tried'[id'])
  BY <1>1 DEF Pending
<1>6. Sequenced' /\ Explained'
  BY <1>1, <1>4, <1>5 DEF Sequenced, Explained
<1>7. Counted'
  BY <1>4 DEF Counted
<1> QED
  BY <1>2, <1>3, <1>6, <1>7 DEF RunInv

\* A final reply that is not the end of the context: the run goes on or ends.
LEMMA NextMatchKeepsRunInv ==
  ASSUME RunInv, pc = "request", NEW r \in Replies \ ContextErr,
         tried' = [tried EXCEPT ![id] = Append(@, r)], ctxDone' = ctxDone,
         NEW s \in Nat, NEW f \in Nat, NextMatch(s, f),
         s + f = id,
         s > 0 <=> (saved > 0 \/ r = "ok")
  PROVE  RunInv'
<1> USE NAssumption DEF Ids
<1>1. r \in Result
  BY DEF Result
<1>2. /\ tried' \in [Ids -> Seq(Result)]
      /\ \A i \in Ids : i # id => tried'[i] = tried[i]
      /\ tried'[id] # <<>>
      /\ tried'[id][Len(tried'[id])] = r
      /\ \A i \in Ids : Due(tried'[i])
  BY <1>1, AppendAtId DEF Ids
<1>3. id \in Ids /\ outcome = "none" /\ ctxDone \in BOOLEAN
  BY DEF RunInv, TypeOK, Explained
<1>4. Visited = 1..(id - 1)
  BY <1>3 DEF Visited
<1>5. Visited' = 1..id
  <2>1. CASE id < N
    BY <1>3, <2>1 DEF NextMatch, Visited
  <2>2. CASE ~(id < N)
    BY <1>3, <2>2 DEF NextMatch, EndRun, Visited
  <2> QED
    BY <2>1, <2>2
<1>6. \A i \in Visited' : Concluded(tried'[i])
  <2>1. Concluded(tried'[id])
    BY <1>2 DEF Concluded
  <2>2. \A i \in Visited : Concluded(tried[i])
    BY DEF RunInv, Sequenced
  <2>3. \A i \in 1..id : i = id \/ i \in 1..(id - 1)
    BY <1>3
  <2>4. \A i \in 1..(id - 1) : i \in Ids /\ i # id
    BY <1>3
  <2> QED
    BY <1>2, <1>4, <1>5, <2>1, <2>2, <2>3, <2>4
<1>7. s > 0 <=> \E i \in 1..id : tried'[i][Len(tried'[i])] = "ok"
  <2>1. saved > 0 <=> \E i \in 1..(id - 1) : tried[i][Len(tried[i])] = "ok"
    BY <1>4 DEF RunInv, Counted, Final
  <2>2. \A i \in 1..(id - 1) : i \in Ids /\ i # id
    BY <1>3
  <2>3. \A i \in 1..id : i = id \/ i \in 1..(id - 1)
    BY <1>3
  <2>4. \A i \in 1..(id - 1) : i \in 1..id
    BY <1>3
  <2>5. id \in 1..id
    BY <1>3
  <2> QED
    BY <1>2, <2>1, <2>2, <2>3, <2>4, <2>5
<1>8. saved' = s /\ failed' = f /\ s \in 0..N /\ f \in 0..N
  BY <1>3 DEF NextMatch
<1>9. RetriesAreDue'
  BY <1>2 DEF RetriesAreDue, Due
<1>10. CASE id < N
  <2>1. pc' = "request" /\ id' = id + 1 /\ outcome' = "none"
    BY <1>3, <1>10 DEF NextMatch
  <2>2. TypeOK'
    BY <1>2, <1>3, <1>8, <1>10, <2>1 DEF TypeOK, PC
  <2>3. \A i \in Ids \ Visited : i # id => tried[i] = <<>>
    BY DEF RunInv, Sequenced
  <2>4. \A i \in Ids \ Visited' : tried'[i] = <<>>
    BY <1>2, <1>3, <1>4, <1>5, <2>3
  <2>5. id + 1 \in Ids \ Visited'
    BY <1>3, <1>5, <1>10
  <2>6. Pending(tried'[id'])
    BY <2>1, <2>4, <2>5, MaxAttemptsAssumption DEF Pending
  <2>7. Sequenced'
    BY <1>6, <2>1, <2>4, <2>6 DEF Sequenced
  <2>8. Counted'
    BY <1>3, <1>5, <1>7, <1>8, <2>1 DEF Counted, Final
  <2>9. Explained'
    BY <2>1 DEF Explained
  <2> QED
    BY <1>9, <2>2, <2>7, <2>8, <2>9 DEF RunInv
<1>11. CASE ~(id < N)
  <2>1. /\ pc' = "idle" /\ id' = id /\ id = N
        /\ outcome' = IF s = 0 THEN "error" ELSE "ok"
    BY <1>3, <1>11 DEF NextMatch, EndRun
  <2>2. TypeOK'
    BY <1>2, <1>3, <1>8, <2>1 DEF TypeOK, PC
  <2>3. Visited' = Ids
    BY <1>5, <2>1
  <2>4. Sequenced'
    BY <1>6, <2>1, <2>3 DEF Sequenced
  <2>5. Counted'
    BY <1>5, <1>7, <1>8, <2>1 DEF Counted, Final
  <2>6. Explained'
    BY <2>1 DEF Explained
  <2> QED
    BY <1>9, <2>2, <2>4, <2>5, <2>6 DEF RunInv
<1> QED
  BY <1>10, <1>11

\* The pause before another attempt.
LEMMA RetryKeepsRunInv ==
  ASSUME RunInv, pc = "request",
         tried' = [tried EXCEPT ![id] = Append(@, "unavailable")],
         Attempt + 1 < MaxAttempts, pc' = "backoff",
         UNCHANGED <<id, saved, failed, outcome, ctxDone>>
  PROVE  RunInv'
<1>1. "unavailable" \in Result
  BY DEF Result, Replies
<1>2. /\ tried' \in [Ids -> Seq(Result)]
      /\ \A i \in Ids : i # id => tried'[i] = tried[i]
      /\ \A i \in Ids : Due(tried'[i])
      /\ Pending(tried'[id])
  BY <1>1, AppendAtId
<1>3. id \in Ids /\ outcome = "none"
  BY DEF RunInv, TypeOK, Explained
<1>4. Visited = 1..(id - 1) /\ Visited' = Visited
  BY <1>3 DEF Visited
<1>5. \A i \in Visited : i \in Ids /\ i # id
  BY <1>3, <1>4, NAssumption DEF Ids
<1>6. TypeOK'
  BY <1>2 DEF RunInv, TypeOK, PC
<1>7. RetriesAreDue'
  BY <1>2 DEF RetriesAreDue, Due, Ids
<1>8. Sequenced'
  BY <1>2, <1>4, <1>5 DEF RunInv, Sequenced, Ids
<1>9. Counted'
  <2>1. (\E i \in Visited : Final(i) = "ok") <=> (\E i \in Visited' : Final(i)' = "ok")
    BY <1>2, <1>4, <1>5 DEF Final
  <2> QED
    BY <2>1 DEF RunInv, Counted
<1>10. Explained'
  BY <1>3 DEF Explained
<1> QED
  BY <1>6, <1>7, <1>8, <1>9, <1>10 DEF RunInv

\* The run is cut at the match it is at.
LEMMA CutKeepsRunInv ==
  ASSUME RunInv, pc = "request", NEW r \in ContextErr,
         r = "ctx" => ctxDone,
         tried' = [tried EXCEPT ![id] = Append(@, r)],
         EndRun("ctx_error"), UNCHANGED <<saved, failed, ctxDone>>
  PROVE  RunInv'
<1>1. r \in Result
  BY DEF Result, Replies, ContextErr
<1>2. /\ tried' \in [Ids -> Seq(Result)]
      /\ \A i \in Ids : i # id => tried'[i] = tried[i]
      /\ tried'[id] # <<>>
      /\ tried'[id][Len(tried'[id])] = r
      /\ \A i \in Ids : Due(tried'[i])
  BY <1>1, AppendAtId
<1>3. id \in Ids /\ outcome = "none" /\ id' = id /\ pc' = "idle" /\ outcome' = "ctx_error"
  BY DEF RunInv, TypeOK, Explained, EndRun
<1>4. Visited = 1..(id - 1) /\ Visited' = Visited
  BY <1>3 DEF Visited
<1>5. \A i \in Visited : i \in Ids /\ i # id
  BY <1>3, <1>4, NAssumption DEF Ids
<1>6. TypeOK'
  BY <1>2, <1>3 DEF RunInv, TypeOK, PC
<1>7. RetriesAreDue'
  BY <1>2 DEF RetriesAreDue, Due, Ids
<1>8. Sequenced'
  BY <1>2, <1>3, <1>4, <1>5 DEF RunInv, Sequenced, Ids
<1>9. Counted'
  <2>1. (\E i \in Visited : Final(i) = "ok") <=> (\E i \in Visited' : Final(i)' = "ok")
    BY <1>2, <1>4, <1>5 DEF Final
  <2> QED
    BY <1>3, <2>1 DEF RunInv, Counted
<1>10. Explained'
  BY <1>2, <1>3 DEF Explained, Final, ContextErr
<1> QED
  BY <1>6, <1>7, <1>8, <1>9, <1>10 DEF RunInv

LEMMA RequestKeepsRunInv == RunInv /\ Request => RunInv'
<1> SUFFICES ASSUME RunInv, Request PROVE RunInv'
  OBVIOUS
<1>1. pc = "request" /\ ctxDone' = ctxDone /\ ctxDone \in BOOLEAN
  BY DEF Request, RunInv, TypeOK
<1>2. PICK r \in IF ctxDone THEN {"ctx"} ELSE Replies :
        /\ tried' = [tried EXCEPT ![id] = Append(@, r)]
        /\ \/ /\ r = "ok"
              /\ NextMatch(saved + 1, failed)
           \/ /\ r \in ContextErr
              /\ EndRun("ctx_error") /\ UNCHANGED <<saved, failed>>
           \/ /\ Retry(r) /\ Attempt + 1 < MaxAttempts
              /\ pc' = "backoff"
              /\ UNCHANGED <<id, saved, failed, outcome>>
           \/ /\ r \notin ContextErr \cup {"ok"}
              /\ ~(Retry(r) /\ Attempt + 1 < MaxAttempts)
              /\ NextMatch(saved, failed + 1)
  BY DEF Request
<1>3. saved \in Nat /\ failed \in Nat /\ id \in Nat /\ saved + failed = id - 1
  BY <1>1, NAssumption DEF RunInv, TypeOK, Counted, Explained, Ids
<1>4. CASE r = "ok" /\ NextMatch(saved + 1, failed)
  <2>1. r \in Replies \ ContextErr
    BY <1>4 DEF Replies, ContextErr
  <2>2. saved + 1 \in Nat /\ (saved + 1) + failed = id /\ saved + 1 > 0
    BY <1>3
  <2> QED
    BY <1>1, <1>2, <1>3, <1>4, <2>1, <2>2, NextMatchKeepsRunInv
<1>5. CASE r \in ContextErr /\ EndRun("ctx_error") /\ UNCHANGED <<saved, failed>>
  <2>1. r = "ctx" => ctxDone
    BY <1>2 DEF Replies
  <2> QED
    BY <1>1, <1>2, <1>5, <2>1, CutKeepsRunInv
<1>6. CASE Retry(r) /\ Attempt + 1 < MaxAttempts /\ pc' = "backoff"
           /\ UNCHANGED <<id, saved, failed, outcome>>
  <2>1. r = "unavailable"
    BY <1>6 DEF Retry
  <2> QED
    BY <1>1, <1>2, <1>6, <2>1, RetryKeepsRunInv
<1>7. CASE r \notin ContextErr \cup {"ok"} /\ NextMatch(saved, failed + 1)
  <2>1. r \in Replies \ ContextErr /\ r # "ok"
    BY <1>2, <1>7 DEF ContextErr
  <2>2. failed + 1 \in Nat /\ saved + (failed + 1) = id
    BY <1>3
  <2> QED
    BY <1>1, <1>2, <1>3, <1>7, <2>1, <2>2, NextMatchKeepsRunInv
<1> QED
  BY <1>2, <1>4, <1>5, <1>6, <1>7

LEMMA BackoffKeepsRunInv == RunInv /\ Backoff => RunInv'
<1> SUFFICES ASSUME RunInv, Backoff PROVE RunInv'
  OBVIOUS
<1>1. /\ pc = "backoff" /\ id' = id /\ outcome = "none" /\ Pending(tried[id])
      /\ UNCHANGED <<tried, ctxDone, saved, failed>>
  BY DEF Backoff, EndRun, RunInv, Sequenced, Explained
<1>2. \/ pc' = "request" /\ outcome' = outcome
      \/ ctxDone /\ pc' = "idle" /\ outcome' = "ctx_error"
  BY DEF Backoff, EndRun
<1>3. Visited' = Visited
  BY <1>1, <1>2 DEF Visited
<1>4. TypeOK' /\ RetriesAreDue'
  BY <1>1, <1>2 DEF RunInv, TypeOK, RetriesAreDue, PC, Ids
<1>5. Sequenced'
  BY <1>1, <1>3 DEF RunInv, Sequenced, Ids
<1>6. Counted'
  BY <1>1, <1>2, <1>3 DEF RunInv, Counted, Final
<1>7. Explained'
  BY <1>1, <1>2 DEF Explained
<1> QED
  BY <1>4, <1>5, <1>6, <1>7 DEF RunInv

LEMMA CtxExpiresKeepsRunInv == RunInv /\ CtxExpires => RunInv'
BY DEF CtxExpires, RunInv, TypeOK, RetriesAreDue, Sequenced, Counted, Explained,
       Visited, Final, Ids, PC

LEMMA StutterKeepsRunInv == RunInv /\ UNCHANGED vars => RunInv'
BY DEF vars, RunInv, TypeOK, RetriesAreDue, Sequenced, Counted, Explained,
       Visited, Final, Ids, PC

\* Every reachable state of a sync run satisfies the inductive invariant, for
\* any number of matches and attempts (SyncUpcomingMatches and postWithRetry).
THEOREM RunInvariant == Spec => []RunInv
<1>1. RunInv /\ [Next]_vars => RunInv'
  BY StartRunKeepsRunInv, RequestKeepsRunInv, BackoffKeepsRunInv,
     CtxExpiresKeepsRunInv, StutterKeepsRunInv DEF Next
<1> QED
  BY InitRunInv, <1>1, PTL DEF Spec

\* postWithRetry asks again only after the site was unavailable, and never more
\* often than configured, whatever the site answers and whenever the run is cut.
THEOREM AttemptsAreBounded == Spec => []RetriesAreDue
<1>1. RunInv => RetriesAreDue
  BY DEF RunInv
<1> QED
  BY <1>1, RunInvariant, PTL

\* However a run of SyncUpcomingMatches ends, it has counted every match it left
\* behind, once, and its outcome names its cause.
THEOREM RunsAreAccounted == Spec => []CountsFinals
<1>1. RunInv => CountsFinals
  <2> SUFFICES ASSUME RunInv PROVE CountsFinals
    OBVIOUS
  <2>1. TypeOK
    BY DEF RunInv
  <2>2. \A i \in Visited : tried[i] # <<>>
    BY DEF RunInv, Sequenced, Concluded
  <2>3. \A i \in Ids \ Visited : i # id => tried[i] = <<>>
    BY DEF RunInv, Sequenced
  <2>4. saved + failed = IF outcome \in {"ok", "error"} THEN N ELSE id - 1
    BY DEF RunInv, Counted
  <2>5. outcome \in {"ok", "error"} => Visited = Ids
    BY DEF Visited
  <2>6. outcome = "ok" => \E i \in Ids : Final(i) = "ok"
    BY <2>5 DEF RunInv, Counted
  <2>7. outcome = "ctx_error" =>
          ctxDone \/ (tried[id] # <<>> /\ Final(id) = "timeout")
    BY DEF RunInv, Explained
  <2>8. ASSUME outcome = "error", NEW i \in Ids
        PROVE  Final(i) \notin {"ok", "ctx", "timeout"}
    <3>1. saved = 0 /\ Visited = Ids
      BY <2>5, <2>8 DEF RunInv, Counted
    <3>2. Final(i) # "ok"
      BY <3>1 DEF RunInv, Counted
    <3>3. Final(i) \in Replies \ ContextErr
      BY <3>1 DEF RunInv, Sequenced, Concluded, Final
    <3> QED
      BY <3>2, <3>3 DEF Replies, ContextErr
  <2> QED
    BY <2>1, <2>2, <2>3, <2>4, <2>6, <2>7, <2>8 DEF CountsFinals
<1> QED
  BY <1>1, RunInvariant, PTL
-----------------------------------------------------------------------------
(* The airfare request. *)

\* What excuses a request whose 404 does not arrive.
Excused == gwCtx # "live" \/ callExpired \/ "unreachable" \in facts

\* What stands behind a 503 and a 502.
Temporary == gwCtx = "deadline" \/ callExpired
               \/ facts \cap {"unreachable", "site_down", "site_slow", "no_fares"} # {}
AtFault   == facts \cap {"db", "no_city", "site_broken"} # {}
Missing   == {"no_row", "not_at_site"} \subseteq facts

\* Where the three services can be at the same time.
Places ==
  /\ gw # "answered" => http = 0
  /\ gw = "idle" => /\ gwCtx = "live" /\ pvCtx = "live" /\ adCtx = "live"
                    /\ ~callExpired
  /\ pv = "called" => ad = "idle" /\ adCtx = "live" /\ toPv = None /\ ~callExpired
  /\ pv # "idle" => toGw = None
  /\ pv = "search" => toPv = "OK"
  /\ ad # "idle" => toPv = None
  /\ "bad_request" \in facts =>
       gw = "answered" /\ pv = "idle" /\ ad = "idle" /\ toGw = None /\ facts = {"bad_request"}

\* Whose context has ended, and why.
Contexts ==
  /\ adCtx = "deadline" => callExpired \/ gwCtx = "deadline"
  /\ adCtx = "canceled" => pv \notin {"called", "match"}
  /\ pvCtx = "deadline" => gwCtx = "deadline"
  /\ pvCtx = "canceled" => gw # "waiting"
  /\ pvCtx # "live" => gwCtx # "live" \/ "unreachable" \in facts

\* What stands behind the adapter's answer.
AdapterAnswers ==
  /\ ad \in {"source", "save"} => "no_row" \in facts
  /\ toPv = "NotFound" => Missing
  /\ "not_at_site" \in facts => toPv = "NotFound"
  /\ toPv = "Unavailable" => "site_down" \in facts
  /\ toPv = "DeadlineExceeded" => callExpired \/ gwCtx = "deadline" \/ "site_slow" \in facts
  /\ toPv = "Internal" => AtFault
  /\ toPv = "Canceled" => pv # "match"
  /\ toPv # "InvalidArgument"

\* What stands behind the provider's; an adapter still at work, or with an answer
\* the provider has not passed on, was given up.
ProviderAnswers ==
  /\ toGw \notin {"DeadlineExceeded", "Canceled"}
  /\ toGw = "NotFound" => Missing
  /\ toGw = "InvalidArgument" => "same_city" \in facts
  /\ gw = "waiting" => /\ toGw = "Unavailable" => Temporary
                       /\ toGw = "Internal" => AtFault
  /\ toGw # None /\ ad # "idle" => Excused
  /\ toGw # None /\ "not_at_site" \in facts => toGw = "NotFound" \/ Excused

\* What stands behind the gateway's.
GatewayAnswered ==
  /\ gw = "answered" => \/ "bad_request" \in facts
                        \/ gwCtx # "live" \/ "unreachable" \in facts
                        \/ toGw # None /\ http = HTTPStatus(toGw)
  /\ http = 404 => Missing
  /\ http = 504 => gwCtx = "deadline"
  /\ http = 502 => gwCtx = "canceled" \/ AtFault
  /\ http = 503 => Temporary
  /\ http = 400 => facts \cap {"bad_request", "same_city"} # {}

\* The inductive invariant. The two properties speak of the gateway's answer, but
\* what they say of it must be known of each answer on its way, and is only passed
\* on because a caller that gave up, or whose context ended, takes no answer.
ChainInv ==
  ChainTypeOK /\ Places /\ Contexts /\ AdapterAnswers /\ ProviderAnswers /\ GatewayAnswered

USE DEF ChainInv, ChainTypeOK, Places, Contexts, AdapterAnswers, ProviderAnswers,
        GatewayAnswered, Excused, Temporary, AtFault, Missing, Ctx, Codes, None,
        CtxCode, HTTPStatus, gwVars, pvVars, adVars

LEMMA InitChainInv == ChainInit => ChainInv
<1>1. SUFFICES ASSUME ChainInit PROVE ChainInv
  OBVIOUS
<1>2. ChainTypeOK /\ Places /\ Contexts
  BY <1>1 DEF ChainInit
<1>3. AdapterAnswers /\ ProviderAnswers /\ GatewayAnswered
  BY <1>1 DEF ChainInit
<1>4. QED
  BY <1>2, <1>3

LEMMA ReceiveKeeps == ChainInv /\ Receive => ChainInv'
BY DEF Receive

LEMMA TakeReplyKeeps == ChainInv /\ TakeReply => ChainInv'
BY DEF TakeReply, AnswerWith

LEMMA GiveUpKeeps == ChainInv /\ GiveUp => ChainInv'
BY DEF GiveUp, AnswerWith

LEMMA LoseProviderKeeps == ChainInv /\ LoseProvider => ChainInv'
BY DEF LoseProvider, AnswerWith

LEMMA GatewayDeadlineKeeps == ChainInv /\ GatewayDeadline => ChainInv'
BY DEF GatewayDeadline

LEMMA DisconnectKeeps == ChainInv /\ Disconnect => ChainInv'
BY DEF Disconnect

LEMMA ReturnKeeps == ChainInv /\ Return => ChainInv'
<1>1. SUFFICES ASSUME ChainInv, Return PROVE ChainInv'
  OBVIOUS
<1>2. (ChainTypeOK /\ Places /\ Contexts)'
  BY <1>1 DEF Return
<1>3. (AdapterAnswers /\ ProviderAnswers /\ GatewayAnswered)'
  BY <1>1 DEF Return
<1>4. QED
  BY <1>2, <1>3

LEMMA ProviderCtxEndsKeeps == ChainInv /\ ProviderCtxEnds => ChainInv'
BY DEF ProviderCtxEnds

LEMMA ReadAirfareCacheKeeps == ChainInv /\ ReadAirfareCache => ChainInv'
BY DEF ReadAirfareCache, ProviderReplies

LEMMA CallDeadlineKeeps == ChainInv /\ CallDeadline => ChainInv'
BY DEF CallDeadline

LEMMA LoadMatchKeeps == ChainInv /\ LoadMatch => ChainInv'
BY DEF LoadMatch, TakeMatch, TakeError, FailMatch,
       ProviderReplies, ProviderCode, MatchClientErr, CallCtx

LEMMA LoseAdapterKeeps == ChainInv /\ LoseAdapter => ChainInv'
BY DEF LoseAdapter, FailMatch, ProviderReplies, ProviderCode, MatchClientErr

LEMMA SearchFaresKeeps == ChainInv /\ SearchFares => ChainInv'
BY DEF SearchFares, ProviderReplies, ProviderCode

LEMMA AdapterCtxEndsKeeps == ChainInv /\ AdapterCtxEnds => ChainInv'
BY DEF AdapterCtxEnds

LEMMA ReadMatchCacheKeeps == ChainInv /\ ReadMatchCache => ChainInv'
BY DEF ReadMatchCache, AdapterReplies

LEMMA ReadRepoKeeps == ChainInv /\ ReadRepo => ChainInv'
BY DEF ReadRepo, AdapterReplies, FailGet, FailCtx, AdapterCode

LEMMA FetchSourceKeeps == ChainInv /\ FetchSource => ChainInv'
BY DEF FetchSource, AdapterReplies, FailGet, FailCtx, AdapterCode

LEMMA EnrichAndUpsertKeeps == ChainInv /\ EnrichAndUpsert => ChainInv'
BY DEF EnrichAndUpsert, AdapterReplies, FailGet, FailCtx, AdapterCode

LEMMA ChainStutterKeeps == ChainInv /\ UNCHANGED chainVars => ChainInv'
BY DEF chainVars

HIDE DEF ChainInv

\* What stands behind every answer of the three services, wherever the request and
\* its answers are.
THEOREM ChainInvariant == ChainSpec => []ChainInv
<1>1. ChainInv /\ [ChainNext]_chainVars => ChainInv'
  BY ReceiveKeeps, TakeReplyKeeps, GiveUpKeeps, LoseProviderKeeps, GatewayDeadlineKeeps,
     DisconnectKeeps, ReturnKeeps, ProviderCtxEndsKeeps, ReadAirfareCacheKeeps,
     CallDeadlineKeeps, LoadMatchKeeps, LoseAdapterKeeps, SearchFaresKeeps,
     AdapterCtxEndsKeeps, ReadMatchCacheKeeps, ReadRepoKeeps, FetchSourceKeeps,
     EnrichAndUpsertKeeps, ChainStutterKeeps
     DEF ChainNext, Gateway, Provider, Adapter, Timers, Faults
<1>2. QED
  BY <1>1, InitChainInv, PTL DEF ChainSpec

\* The client is told that a match does not exist only when neither the table nor
\* the site has it, and only a deadline or a lost connection keeps that from it.
THEOREM MissingMatchesAreMissing == ChainSpec => []NotFoundIsGenuine
<1>1. ChainInv => NotFoundIsGenuine
  BY DEF ChainInv, NotFoundIsGenuine
<1>2. QED
  BY <1>1, ChainInvariant, PTL

\* Each status the gateway answers has its cause at the place the status names.
THEOREM StatusesHaveCauses == ChainSpec => []StatusHasItsCause
<1>1. ChainInv => StatusHasItsCause
  BY DEF ChainInv, StatusHasItsCause
<1>2. QED
  BY <1>1, ChainInvariant, PTL
=============================================================================
