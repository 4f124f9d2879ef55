--------------------------- MODULE CatalogPromise ---------------------------
(***************************************************************************)
(* What GET /v1/matches/upcoming-with-airfare promises its caller, without *)
(* goroutines, channels or semaphores: one request at a time is either     *)
(* refused, or fails because the match adapter failed, or is answered with *)
(* every listed match resolved exactly once.  CatalogFanOut implements it. *)
(***************************************************************************)
EXTENDS Integers, Sequences

CONSTANT MaxItems       \* the largest number of matches one page can list

VARIABLES
  phase,     \* "idle", "working" or "answered"
  status,    \* HTTP status of the answer, 0 before there is one
  n,         \* number of matches on the page
  same,      \* the matches whose destination is the origin itself
  items,     \* what the page says of each match
  errors     \* the "errors" list of the page

vars == <<phase, status, n, same, items, errors>>

Items   == 1..MaxItems
Listed  == 1..n
Failed  == {"same_airport", "no_offers", "call_failed"}
Outcome == {"priced"} \cup Failed

Init ==
  /\ phase = "idle" /\ status = 0
  /\ n = 0 /\ same = {}
  /\ items = [i \in Items |-> "pending"]
  /\ errors = <<>>

Accept ==
  /\ phase = "idle"
  /\ phase' = "working"
  /\ UNCHANGED <<status, n, same, items, errors>>

Refuse ==
  /\ phase \in {"idle", "working"}
  /\ \A i \in Items : items[i] = "pending"
  /\ status' \in IF phase = "idle" THEN {400, 405} ELSE {502}
  /\ phase' = "answered"
  /\ UNCHANGED <<n, same, items, errors>>

\* The page is fixed once, before any of its matches is resolved.
List ==
  /\ phase = "working" /\ n = 0
  /\ n' \in 0..MaxItems
  /\ same' \in SUBSET (1..n')
  /\ UNCHANGED <<phase, status, items, errors>>

\* One match is resolved, once, in any order; only a match with the origin as
\* its destination is answered "same_airport".
Resolve(i) ==
  /\ phase = "working" /\ i \in Listed
  /\ items[i] = "pending"
  /\ \E o \in Outcome :
        /\ o = "same_airport" <=> i \in same
        /\ items' = [items EXCEPT ![i] = o]
        /\ errors' = IF o \in Failed THEN Append(errors, i) ELSE errors
  /\ UNCHANGED <<phase, status, n, same>>

Answer ==
  /\ phase = "working"
  /\ \A i \in Listed : items[i] # "pending"
  /\ phase' = "answered" /\ status' = 200
  /\ UNCHANGED <<n, same, items, errors>>

Forget ==
  /\ phase = "answered"
  /\ phase' = "idle" /\ status' = 0
  /\ n' = 0 /\ same' = {}
  /\ items' = [i \in Items |-> "pending"]
  /\ errors' = <<>>

Next ==
  \/ Accept \/ Refuse \/ List \/ Answer \/ Forget
  \/ \E i \in Items : Resolve(i)

Spec == Init /\ [][Next]_vars
=============================================================================
