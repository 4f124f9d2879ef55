-------------------------- MODULE MatchStore_proofs --------------------------
(***************************************************************************)
(* Proofs about MatchStore for any number of matches, readers, versions,   *)
(* faults and crashes.                                                     *)
(***************************************************************************)
EXTENDS MatchStore, FiniteSetTheorems, SequenceTheorems, TLAPS

-----------------------------------------------------------------------------
(* Orders of a set of ids. *)

LEMMA IdsCount == Cardinality(Ids) \in Nat
BY IdsAssumption, FS_CardinalityType

\* An order of a nonempty set of ids is a nonempty sequence of members of the
\* set that is not longer than the set of all ids.
LEMMA OrderIsSequence ==
  ASSUME NEW S \in SUBSET Ids, S # {}, NEW q \in Orders(S)
  PROVE  /\ q \in Seq(S) /\ Len(q) \in 1..Cardinality(Ids)
         /\ Head(q) \in S /\ Tail(q) \in Seq(S)
         /\ 1 + Len(Tail(q)) = Len(q)
<1>1. /\ IsFiniteSet(S) /\ Cardinality(S) <= Cardinality(Ids)
      /\ Cardinality(S) \in Nat /\ Cardinality(S) # 0
  BY IdsAssumption, FS_Subset, FS_CardinalityType, FS_EmptySet
<1>2. q \in [1..Cardinality(S) -> S]
  BY DEF Orders
<1>3. q \in Seq(S) /\ Len(q) = Cardinality(S)
  BY <1>1, <1>2
<1>4. Len(q) \in 1..Cardinality(Ids)
  BY <1>1, <1>3, IdsCount
<1>5. q # <<>>
  BY <1>3, <1>4
<1>6. QED
  BY <1>3, <1>4, <1>5

-----------------------------------------------------------------------------
(* The pieces several actions share. *)

\* Overwriting a row with a version in hand.
LEMMA WriteKeeps ==
  ASSUME StoreInv, NEW p \in Procs, pc[p] = "upsert", Write(p)
  PROVE  /\ db' \in [Ids -> Versions] /\ stored' \in [Ids -> SUBSET Versions]
         /\ overtaken' \in [Procs -> BOOLEAN]
         /\ \A i \in Ids : db'[i] <= source[i]
         /\ \A q \in Procs \ {p} : pc[q] \in {"enrich", "upsert"} /\ ~overtaken'[q] =>
               db'[job[q]] <= val[q]
         /\ \A i \in Ids : stored[i] \subseteq stored'[i]
         /\ val[p] \in stored'[job[p]]
         /\ \A i \in Ids : db'[i] # 0 => db'[i] \in stored'[i]
         /\ \A i \in Ids : \A v \in stored'[i] : v # 0 /\ HasDestination(i, v)
<1>0. /\ job \in [Procs -> Ids] /\ val \in [Procs -> Versions]
      /\ db \in [Ids -> Versions] /\ source \in [Ids -> Versions]
      /\ stored \in [Ids -> SUBSET Versions]
      /\ overtaken \in [Procs -> BOOLEAN]
      /\ val[p] # 0 /\ val[p] <= source[job[p]] /\ HasDestination(job[p], val[p])
  BY DEF StoreInv, TypeOK, NeverAhead
<1>1. \A i \in Ids : db'[i] = IF i = job[p] THEN val[p] ELSE db[i]
  BY <1>0 DEF Write
<1>2. \A i \in Ids : stored'[i] = IF i = job[p] THEN stored[i] \cup {val[p]} ELSE stored[i]
  BY <1>0 DEF Write
<1>3. \A q \in Procs : overtaken'[q] = (overtaken[q] \/ (q # p /\ job[q] = job[p]))
  BY DEF Write
<1>4. db' \in [Ids -> Versions] /\ stored' \in [Ids -> SUBSET Versions]
  BY <1>0 DEF Write
<1>5. overtaken' \in [Procs -> BOOLEAN]
  <2>1. \A q \in Procs : (overtaken[q] \/ (q # p /\ job[q] = job[p])) \in BOOLEAN
    OBVIOUS
  <2>2. QED
    BY <2>1 DEF Write
<1>6. \A i \in Ids : db'[i] <= source[i]
  BY <1>0, <1>1 DEF StoreInv, NeverAhead
<1>7. ASSUME NEW q \in Procs \ {p}, pc[q] \in {"enrich", "upsert"}, ~overtaken'[q]
      PROVE  db'[job[q]] <= val[q]
  <2>1. ~overtaken[q] /\ job[q] # job[p]
    BY <1>3, <1>7
  <2>2. db'[job[q]] = db[job[q]]
    BY <1>0, <1>1, <2>1
  <2>3. db[job[q]] <= val[q]
    BY <1>7, <2>1 DEF StoreInv, NeverAhead
  <2>4. QED
    BY <2>2, <2>3
<1>8. \A i \in Ids : db'[i] # 0 => db'[i] \in stored'[i]
  BY <1>0, <1>1, <1>2 DEF StoreInv, RowsAreStored
<1>9. \A i \in Ids : \A v \in stored'[i] : v # 0 /\ HasDestination(i, v)
  BY <1>0, <1>2 DEF StoreInv, StoredHasDestination
<1>10. (\A i \in Ids : stored[i] \subseteq stored'[i]) /\ val[p] \in stored'[job[p]]
  BY <1>0, <1>2
<1>11. QED
  BY <1>4, <1>5, <1>6, <1>7, <1>8, <1>9, <1>10

\* The bookkeeping of the sync loop when it leaves the current id.
LEMMA NextIdKeeps ==
  ASSUME StoreInv, pc[Sync] \in {"fetch", "enrich", "upsert", "fill"},
         NEW s \in Nat, NEW f \in Nat, s + f = saved + failed + 1,
         NextId(s, f)
  PROVE  /\ \E x \in {"idle", "fetch"} : pc' = [pc EXCEPT ![Sync] = x]
         /\ \E j \in Ids : job' = [job EXCEPT ![Sync] = j]
         /\ rest' \in Seq(Ids)
         /\ saved' \in 0..Cardinality(Ids) /\ failed' \in 0..Cardinality(Ids)
         /\ outcome' \in {"none", "ok", "error", "ctx_error"}
         /\ pc'[Sync] = "idle" => rest' = <<>>
         /\ pc'[Sync] = "fetch" =>
               /\ source[job'[Sync]] # 0
               /\ \A k \in 1..Len(rest') : source[rest'[k]] # 0
               /\ saved' + failed' + 1 + Len(rest') = listed
<1>0. /\ Sync \in Procs /\ pc \in [Procs -> ReaderPC \cup SyncPC] /\ job \in [Procs -> Ids]
      /\ rest \in Seq(Ids) /\ listed \in 0..Cardinality(Ids) /\ Cardinality(Ids) \in Nat
      /\ saved \in Nat /\ failed \in Nat
      /\ outcome \in {"none", "ok", "error", "ctx_error"}
      /\ saved + failed + 1 + Len(rest) = listed
      /\ \A k \in 1..Len(rest) : source[rest[k]] # 0
  BY IdsCount DEF StoreInv, TypeOK, Visits, Procs
<1>1. saved' = s /\ failed' = f /\ Len(rest) \in Nat
  BY <1>0 DEF NextId
<1>2. s \in 0..Cardinality(Ids) /\ f \in 0..Cardinality(Ids)
  BY <1>0, <1>1
<1>3. CASE rest = <<>>
  <2>1. pc' = [pc EXCEPT ![Sync] = "idle"] /\ job' = job /\ rest' = <<>>
    BY <1>3 DEF NextId, EndRun, Goto
  <2>2. job' = [job EXCEPT ![Sync] = job[Sync]] /\ job[Sync] \in Ids
    BY <1>0, <2>1
  <2>3. outcome' \in {"none", "ok", "error", "ctx_error"}
    BY <1>3 DEF NextId, EndRun
  <2>4. pc'[Sync] = "idle"
    BY <1>0, <2>1
  <2>5. \E x \in {"idle", "fetch"} : pc' = [pc EXCEPT ![Sync] = x]
    BY <2>1
  <2>6. \E j \in Ids : job' = [job EXCEPT ![Sync] = j]
    BY <2>2
  <2>7. rest' \in Seq(Ids)
    BY <2>1
  <2>8. QED
    BY <1>1, <1>2, <2>1, <2>3, <2>4, <2>5, <2>6, <2>7
<1>4. CASE rest # <<>>
  <2>1. /\ pc' = [pc EXCEPT ![Sync] = "fetch"]
        /\ job' = [job EXCEPT ![Sync] = Head(rest)]
        /\ rest' = Tail(rest) /\ outcome' = outcome
    BY <1>4 DEF NextId, Goto
  <2>2. Len(rest) \in Nat \ {0} /\ Head(rest) = rest[1] /\ Head(rest) \in Ids
    BY <1>0, <1>4
  <2>3. /\ rest' \in Seq(Ids) /\ Len(rest') = Len(rest) - 1
        /\ \A k \in 1..Len(rest') : k + 1 \in 1..Len(rest) /\ rest'[k] = rest[k + 1]
    <3>1. rest' \in Seq(Ids) /\ Len(rest') = Len(rest) - 1
      BY <1>0, <1>4, <2>1
    <3>2. ASSUME NEW k \in 1..Len(rest')
          PROVE  k + 1 \in 1..Len(rest) /\ rest'[k] = rest[k + 1]
      BY <1>0, <1>4, <2>1, <2>2, <3>1
    <3>3. QED
      BY <3>1, <3>2
  <2>4. pc'[Sync] = "fetch" /\ job'[Sync] = rest[1]
    BY <1>0, <2>1, <2>2
  <2>5. source[job'[Sync]] # 0
    BY <1>0, <2>2, <2>4
  <2>6. \A k \in 1..Len(rest') : source[rest'[k]] # 0
    BY <1>0, <2>3
  <2>7. saved' + failed' + 1 + Len(rest') = listed
    <3>1. s + f + 1 + (Len(rest) - 1) = listed
      BY <1>0, <1>1
    <3>2. QED
      BY <3>1, <1>1, <2>3
  <2>8. \E x \in {"idle", "fetch"} : pc' = [pc EXCEPT ![Sync] = x]
    BY <2>1
  <2>9. \E j \in Ids : job' = [job EXCEPT ![Sync] = j]
    BY <2>1, <2>2
  <2>10. QED
    BY <1>0, <1>1, <1>2, <2>1, <2>3, <2>4, <2>5, <2>6, <2>7, <2>8, <2>9
<1>5. QED
  BY <1>3, <1>4

\* What a step of process p may do to the stores.
StoresMove(p) ==
  /\ source' = source
  /\ db' \in [Ids -> Versions] /\ cache' \in [Ids -> Versions]
  /\ stored' \in [Ids -> SUBSET Versions] /\ overtaken' \in [Procs -> BOOLEAN]
  /\ \A i \in Ids : db'[i] <= source[i]
  /\ \A i \in Ids : stored[i] \subseteq stored'[i]
  /\ \A i \in Ids : db'[i] # 0 => db'[i] \in stored'[i]
  /\ \A i \in Ids : cache'[i] # 0 => cache'[i] \in stored'[i]
  /\ \A i \in Ids : \A v \in stored'[i] : v # 0 /\ HasDestination(i, v)
  /\ \A q \in Procs \ {p} : pc[q] \in {"enrich", "upsert"} /\ ~overtaken'[q] =>
        db'[job[q]] <= val[q]

\* Process p goes to place x with version v of match j in hand; the rest is
\* what p must then have.
ProcMove(p, x, v, j) ==
  /\ pc' = [pc EXCEPT ![p] = x]
  /\ val' = [val EXCEPT ![p] = v]
  /\ job' = [job EXCEPT ![p] = j]
  /\ x \in {"enrich", "upsert"} =>
        v # 0 /\ v <= source[j] /\ (~overtaken'[p] => db'[j] <= v)
  /\ x = "upsert" => HasDestination(j, v)
  /\ x = "fill" => v \in stored'[j]

LEMMA SameStores ==
  ASSUME StoreInv, NEW p \in Procs,
         UNCHANGED <<source, db, cache, stored>>,
         overtaken' \in [Procs -> BOOLEAN],
         \A q \in Procs \ {p} : overtaken'[q] = overtaken[q]
  PROVE  StoresMove(p)
BY DEF StoreInv, TypeOK, NeverAhead, RowsAreStored, OnlyStoredIsServed,
       StoredHasDestination, StoresMove

LEMMA WriteMoves ==
  ASSUME StoreInv, NEW p \in Procs, pc[p] = "upsert",
         Write(p) \/ UNCHANGED <<db, stored, overtaken>>,
         UNCHANGED <<source, cache>>
  PROVE  StoresMove(p) /\ (Write(p) => val[p] \in stored'[job[p]])
<1>1. CASE Write(p)
  <2>1. \A i \in Ids : cache'[i] # 0 => cache'[i] \in stored'[i]
    BY <1>1, WriteKeeps DEF StoreInv, OnlyStoredIsServed
  <2>2. cache' \in [Ids -> Versions]
    BY DEF StoreInv, TypeOK
  <2>3. QED
    BY <1>1, <2>1, <2>2, WriteKeeps DEF StoresMove
<1>2. CASE UNCHANGED <<db, stored, overtaken>> /\ ~Write(p)
  <2>1. overtaken' \in [Procs -> BOOLEAN]
    BY <1>2 DEF StoreInv, TypeOK
  <2>2. QED
    BY <1>2, <2>1, SameStores
<1>3. QED
  BY <1>1, <1>2

LEMMA FillMoves ==
  ASSUME StoreInv, NEW p \in Procs, pc[p] = "fill",
         SetCache(p) \/ UNCHANGED cache,
         UNCHANGED <<source, db, stored, overtaken>>
  PROVE  StoresMove(p)
<1>1. /\ job \in [Procs -> Ids] /\ val \in [Procs -> Versions]
      /\ cache \in [Ids -> Versions] /\ val[p] \in stored[job[p]]
  BY DEF StoreInv, TypeOK, RowsAreStored
<1>2. CASE SetCache(p)
  <2>1. cache' \in [Ids -> Versions]
    BY <1>1, <1>2 DEF SetCache
  <2>2. \A i \in Ids : cache'[i] # 0 => cache'[i] \in stored'[i]
    BY <1>1, <1>2 DEF SetCache, StoreInv, OnlyStoredIsServed
  <2>3. QED
    BY <2>1, <2>2
    DEF StoreInv, TypeOK, NeverAhead, RowsAreStored, StoredHasDestination, StoresMove
<1>3. CASE UNCHANGED cache
  <2>1. overtaken' \in [Procs -> BOOLEAN]
    BY DEF StoreInv, TypeOK
  <2>2. QED
    BY <1>3, <2>1, SameStores
<1>4. QED
  BY <1>2, <1>3

LEMMA ProcMoves ==
  ASSUME StoreInv, NEW p \in Procs, StoresMove(p),
         NEW x \in ReaderPC \cup SyncPC, NEW v \in Versions, NEW j \in Ids,
         ProcMove(p, x, v, j)
  PROVE  /\ NeverAhead' /\ RowsAreStored' /\ StoredHasDestination'
         /\ pc' \in [Procs -> ReaderPC \cup SyncPC]
         /\ job' \in [Procs -> Ids] /\ val' \in [Procs -> Versions]
<1>1. /\ pc \in [Procs -> ReaderPC \cup SyncPC] /\ job \in [Procs -> Ids]
      /\ val \in [Procs -> Versions]
  BY DEF StoreInv, TypeOK
<1>2. \A q \in Procs : /\ pc'[q] = IF q = p THEN x ELSE pc[q]
                       /\ val'[q] = IF q = p THEN v ELSE val[q]
                       /\ job'[q] = IF q = p THEN j ELSE job[q]
  BY <1>1 DEF ProcMove
<1>3. /\ pc' \in [Procs -> ReaderPC \cup SyncPC]
      /\ job' \in [Procs -> Ids] /\ val' \in [Procs -> Versions]
  BY <1>1 DEF ProcMove
<1>4. NeverAhead'
  <2>1. \A i \in Ids : db'[i] <= source'[i]
    BY DEF StoresMove
  <2>2. ASSUME NEW q \in Procs, pc'[q] \in {"enrich", "upsert"}
        PROVE  /\ val'[q] # 0 /\ val'[q] <= source'[job'[q]]
               /\ ~overtaken'[q] => db'[job'[q]] <= val'[q]
    <3>1. CASE q = p
      BY <1>2, <2>2, <3>1 DEF ProcMove, StoresMove
    <3>2. CASE q # p
      BY <1>2, <2>2, <3>2 DEF StoreInv, NeverAhead, StoresMove
    <3>3. QED
      BY <3>1, <3>2
  <2>3. ASSUME NEW q \in Procs, pc'[q] = "upsert"
        PROVE  HasDestination(job'[q], val'[q])
    <3>1. CASE q = p
      BY <1>2, <2>3, <3>1 DEF ProcMove
    <3>2. CASE q # p
      BY <1>2, <2>3, <3>2 DEF StoreInv, NeverAhead
    <3>3. QED
      BY <3>1, <3>2
  <2>4. QED
    BY <2>1, <2>2, <2>3 DEF NeverAhead, HasDestination
<1>5. RowsAreStored'
  <2>1. ASSUME NEW q \in Procs, pc'[q] = "fill" PROVE val'[q] \in stored'[job'[q]]
    <3>1. CASE q = p
      BY <1>2, <2>1, <3>1 DEF ProcMove
    <3>2. CASE q # p
      BY <1>1, <1>2, <2>1, <3>2 DEF StoreInv, RowsAreStored, StoresMove
    <3>3. QED
      BY <3>1, <3>2
  <2>2. QED
    BY <2>1 DEF RowsAreStored, StoresMove
<1>6. StoredHasDestination'
  BY DEF StoresMove, StoredHasDestination, HasDestination
<1>7. QED
  BY <1>3, <1>4, <1>5, <1>6

\* A step of a GetMatch call.
LEMMA ReaderMoves ==
  ASSUME StoreInv, NEW r \in Readers, StoresMove(r),
         NEW x \in ReaderPC, NEW v \in Versions, NEW j \in Ids, ProcMove(r, x, v, j),
         NEW a \in {"none", "ok", "not_found", "error"},
         answer' = [answer EXCEPT ![r] = a],
         a # "none" <=> x = "answered",
         a = "ok" => v \in stored'[j],
         faults' \in 0..MaxFaults, crashes' = crashes, UNCHANGED syncVars
  PROVE  StoreInv'
<1>1. r \in Procs /\ Sync \in Procs /\ r # Sync
  BY SyncAssumption DEF Procs
<1>2. /\ NeverAhead' /\ RowsAreStored' /\ StoredHasDestination'
      /\ pc' \in [Procs -> ReaderPC \cup SyncPC]
      /\ job' \in [Procs -> Ids] /\ val' \in [Procs -> Versions]
  BY <1>1, ProcMoves
<1>3. /\ pc \in [Procs -> ReaderPC \cup SyncPC] /\ job \in [Procs -> Ids]
      /\ val \in [Procs -> Versions] /\ Readers \subseteq Procs
      /\ answer \in [Readers -> {"none", "ok", "not_found", "error"}]
  BY DEF StoreInv, TypeOK, Procs
<1>4. \A q \in Procs : /\ pc'[q] = IF q = r THEN x ELSE pc[q]
                       /\ val'[q] = IF q = r THEN v ELSE val[q]
                       /\ job'[q] = IF q = r THEN j ELSE job[q]
  BY <1>3 DEF ProcMove
<1>5. \A q \in Readers : answer'[q] = IF q = r THEN a ELSE answer[q]
  BY <1>3
<1>6. TypeOK'
  <2>1. answer' \in [Readers -> {"none", "ok", "not_found", "error"}]
    BY <1>3
  <2>2. QED
    BY <1>2, <2>1 DEF StoreInv, TypeOK, StoresMove, syncVars
<1>7. Visits'
  <2>1. pc'[Sync] = pc[Sync] /\ job'[Sync] = job[Sync]
    BY <1>1, <1>4
  <2>2. \A q \in Readers : answer'[q] # "none" <=> pc'[q] = "answered"
    BY <1>3, <1>4, <1>5 DEF StoreInv, Visits
  <2>3. QED
    BY <2>1, <2>2 DEF StoreInv, Visits, StoresMove, syncVars
<1>8. OnlyStoredIsServed'
  <2>1. ASSUME NEW q \in Readers, answer'[q] = "ok" PROVE val'[q] \in stored'[job'[q]]
    <3>1. CASE q = r
      BY <1>1, <1>4, <1>5, <2>1, <3>1
    <3>2. CASE q # r
      BY <1>3, <1>4, <1>5, <2>1, <3>2 DEF StoreInv, OnlyStoredIsServed, StoresMove
    <3>3. QED
      BY <3>1, <3>2
  <2>2. QED
    BY <2>1 DEF OnlyStoredIsServed, StoresMove
<1>9. QED
  BY <1>2, <1>6, <1>7, <1>8 DEF StoreInv

\* A step of the sync.
LEMMA SyncMoves ==
  ASSUME StoreInv, StoresMove(Sync),
         NEW x \in SyncPC, NEW v \in Versions, NEW j \in Ids, ProcMove(Sync, x, v, j),
         rest' \in Seq(Ids), listed' \in 0..Cardinality(Ids),
         saved' \in 0..Cardinality(Ids), failed' \in 0..Cardinality(Ids),
         outcome' \in {"none", "ok", "error", "ctx_error"},
         written' \in SUBSET Ids,
         x \in {"idle", "list"} => rest' = <<>>,
         x = "list" => saved' = 0 /\ failed' = 0,
         x \in {"fetch", "enrich", "upsert", "fill"} =>
           /\ source[j] # 0
           /\ \A k \in 1..Len(rest') : source[rest'[k]] # 0
           /\ saved' + failed' + 1 + Len(rest') = listed',
         faults' \in 0..MaxFaults, crashes' = crashes, answer' = answer
  PROVE  StoreInv'
<1>1. Sync \in Procs /\ Sync \notin Readers /\ Readers \subseteq Procs
  BY SyncAssumption DEF Procs
<1>2. /\ NeverAhead' /\ RowsAreStored' /\ StoredHasDestination'
      /\ pc' \in [Procs -> ReaderPC \cup SyncPC]
      /\ job' \in [Procs -> Ids] /\ val' \in [Procs -> Versions]
  BY <1>1, ProcMoves
<1>3. /\ pc \in [Procs -> ReaderPC \cup SyncPC] /\ job \in [Procs -> Ids]
      /\ val \in [Procs -> Versions]
  BY DEF StoreInv, TypeOK
<1>4. \A q \in Procs : /\ pc'[q] = IF q = Sync THEN x ELSE pc[q]
                       /\ val'[q] = IF q = Sync THEN v ELSE val[q]
                       /\ job'[q] = IF q = Sync THEN j ELSE job[q]
  BY <1>3 DEF ProcMove
<1>5. TypeOK'
  BY <1>2 DEF StoreInv, TypeOK, StoresMove
<1>6. Visits'
  <2>1. \A q \in Readers : answer'[q] # "none" <=> pc'[q] = "answered"
    BY <1>1, <1>4 DEF StoreInv, Visits
  <2>2. pc'[Sync] = x /\ job'[Sync] = j /\ source' = source
    BY <1>1, <1>4 DEF StoresMove
  <2>3. QED
    BY <2>1, <2>2 DEF Visits
<1>7. OnlyStoredIsServed'
  BY <1>1, <1>3, <1>4 DEF StoreInv, OnlyStoredIsServed, StoresMove
<1>8. QED
  BY <1>2, <1>5, <1>6, <1>7 DEF StoreInv

-----------------------------------------------------------------------------
(* The steps of GetMatch. *)

LEMMA FaultBound ==
  ASSUME StoreInv, Ok \/ Fault
  PROVE  faults' \in 0..MaxFaults
BY BoundsAssumption DEF StoreInv, TypeOK, Ok, Fault

\* What every step of a call relies on.
LEMMA ProcFacts ==
  ASSUME StoreInv, NEW p \in Procs
  PROVE  /\ pc \in [Procs -> ReaderPC \cup SyncPC] /\ job \in [Procs -> Ids]
         /\ val \in [Procs -> Versions] /\ overtaken \in [Procs -> BOOLEAN]
         /\ job[p] \in Ids /\ val[p] \in Versions /\ source[job[p]] \in Versions
         /\ db[job[p]] \in Versions /\ cache[job[p]] \in Versions
         /\ db[job[p]] <= source[job[p]]
         /\ val = [val EXCEPT ![p] = val[p]] /\ job = [job EXCEPT ![p] = job[p]]
BY DEF StoreInv, TypeOK, NeverAhead

LEMMA LoadFacts ==
  ASSUME StoreInv, NEW p \in Procs, NEW v, Load(p, v)
  PROVE  /\ overtaken' \in [Procs -> BOOLEAN] /\ overtaken'[p] = FALSE
         /\ \A q \in Procs \ {p} : overtaken'[q] = overtaken[q]
         /\ val' = [val EXCEPT ![p] = v]
BY DEF Load, StoreInv, TypeOK

LEMMA StartGetInv == ASSUME StoreInv, NEW r \in Readers, StartGet(r) PROVE StoreInv'
<1>1. r \in Procs
  BY DEF Procs
<1>2. PICK i \in Ids : job' = [job EXCEPT ![r] = i]
  BY DEF StartGet
<1>3. /\ pc[r] = "idle" /\ pc' = [pc EXCEPT ![r] = "cache"]
      /\ UNCHANGED <<source, faults, crashes, db, cache, stored, val, overtaken, answer>>
      /\ UNCHANGED syncVars
  BY DEF StartGet, Goto, envVars, storeVars
<1>4. StoresMove(r)
  BY <1>1, <1>3, SameStores DEF StoreInv, TypeOK
<1>5. ProcMove(r, "cache", val[r], i)
  BY <1>1, <1>2, <1>3, ProcFacts DEF ProcMove
<1>6. answer' = [answer EXCEPT ![r] = "none"]
  <2>1. answer[r] = "none"
    BY <1>3 DEF StoreInv, Visits, TypeOK
  <2>2. QED
    BY <1>3, <2>1 DEF StoreInv, TypeOK
<1>7. faults' \in 0..MaxFaults
  BY <1>3 DEF StoreInv, TypeOK
<1>8. QED
  BY <1>1, <1>3, <1>4, <1>5, <1>6, <1>7, ProcFacts, ReaderMoves DEF ReaderPC

LEMMA ReadCacheInv == ASSUME StoreInv, NEW r \in Readers, ReadCache(r) PROVE StoreInv'
<1>1. r \in Procs
  BY DEF Procs
<1>2. /\ pc[r] = "cache" /\ job' = job
      /\ UNCHANGED <<source, crashes, db, cache, stored>> /\ UNCHANGED syncVars
  BY DEF ReadCache, storeVars
<1>3. faults' \in 0..MaxFaults
  BY FaultBound DEF ReadCache
<1>4. CASE cache[job[r]] # 0 /\ Load(r, cache[job[r]]) /\ Answer(r, "ok")
  <2>1. StoresMove(r)
    BY <1>1, <1>2, <1>4, LoadFacts, SameStores
  <2>2. ProcMove(r, "answered", cache[job[r]], job[r])
    BY <1>1, <1>2, <1>4, LoadFacts, ProcFacts DEF ProcMove, Answer, Goto
  <2>3. cache[job[r]] \in stored'[job[r]]
    BY <1>1, <1>2, <1>4, ProcFacts DEF StoreInv, OnlyStoredIsServed
  <2>4. answer' = [answer EXCEPT ![r] = "ok"]
    BY <1>4 DEF Answer
  <2>5. QED
    BY <1>1, <1>2, <1>3, <2>1, <2>2, <2>3, <2>4, ProcFacts, ReaderMoves DEF ReaderPC
<1>5. CASE Goto(r, "repo") /\ UNCHANGED <<val, overtaken, answer>>
  <2>1. StoresMove(r)
    BY <1>1, <1>2, <1>5, SameStores DEF StoreInv, TypeOK
  <2>2. ProcMove(r, "repo", val[r], job[r])
    BY <1>1, <1>2, <1>5, ProcFacts DEF ProcMove, Goto
  <2>3. answer' = [answer EXCEPT ![r] = "none"]
    <3>1. answer[r] = "none"
      BY <1>2 DEF StoreInv, Visits, TypeOK
    <3>2. QED
      BY <1>5, <3>1 DEF StoreInv, TypeOK
  <2>4. QED
    BY <1>1, <1>2, <1>3, <2>1, <2>2, <2>3, ProcFacts, ReaderMoves DEF ReaderPC
<1>6. QED
  BY <1>4, <1>5 DEF ReadCache

\* A reader that answers an error with nothing read or written.
LEMMA ErrorAnswer ==
  ASSUME StoreInv, NEW r \in Readers, NEW a \in {"not_found", "error"}, Answer(r, a),
         UNCHANGED <<source, crashes, db, cache, stored, val, job, overtaken>>,
         UNCHANGED syncVars, Ok \/ Fault
  PROVE  StoreInv'
<1>1. r \in Procs
  BY DEF Procs
<1>2. StoresMove(r)
  BY <1>1, SameStores DEF StoreInv, TypeOK
<1>3. ProcMove(r, "answered", val[r], job[r])
  BY <1>1, ProcFacts DEF ProcMove, Answer, Goto
<1>4. answer' = [answer EXCEPT ![r] = a]
  BY DEF Answer
<1>5. QED
  BY <1>1, <1>2, <1>3, <1>4, ProcFacts, FaultBound, ReaderMoves DEF ReaderPC

\* A reader that goes on to its next call.
LEMMA Proceeds ==
  ASSUME StoreInv, NEW r \in Readers, NEW x \in ReaderPC, NEW v \in Versions,
         pc[r] # "answered", x # "answered",
         StoresMove(r), ProcMove(r, x, v, job[r]),
         UNCHANGED <<answer, crashes>>, UNCHANGED syncVars, Ok \/ Fault
  PROVE  StoreInv'
<1>1. answer' = [answer EXCEPT ![r] = "none"]
  <2>1. answer[r] = "none"
    BY DEF StoreInv, Visits, TypeOK
  <2>2. QED
    BY <2>1 DEF StoreInv, TypeOK
<1>2. r \in Procs
  BY DEF Procs
<1>3. QED
  BY <1>1, <1>2, ProcFacts, FaultBound, ReaderMoves

LEMMA ReadRepoInv == ASSUME StoreInv, NEW r \in Readers, ReadRepo(r) PROVE StoreInv'
<1>1. r \in Procs
  BY DEF Procs
<1>2. /\ pc[r] = "repo" /\ job' = job /\ crashes' = crashes
      /\ UNCHANGED <<source, db, cache, stored>> /\ UNCHANGED syncVars
      /\ Ok \/ Fault
  BY DEF ReadRepo, storeVars
<1>3. CASE db[job[r]] # 0 /\ Load(r, db[job[r]]) /\ Goto(r, "fill") /\ UNCHANGED answer
  <2>1. StoresMove(r)
    BY <1>1, <1>2, <1>3, LoadFacts, SameStores
  <2>2. db[job[r]] \in stored'[job[r]]
    BY <1>1, <1>2, <1>3, ProcFacts DEF StoreInv, RowsAreStored
  <2>3. ProcMove(r, "fill", db[job[r]], job[r])
    BY <1>1, <1>2, <1>3, <2>2, LoadFacts, ProcFacts DEF ProcMove, Goto
  <2>4. QED
    BY <1>1, <1>2, <1>3, <2>1, <2>3, ProcFacts, Proceeds DEF ReaderPC
<1>4. CASE Goto(r, "fetch") /\ UNCHANGED <<val, overtaken, answer>>
  <2>1. StoresMove(r)
    BY <1>1, <1>2, <1>4, SameStores DEF StoreInv, TypeOK
  <2>2. ProcMove(r, "fetch", val[r], job[r])
    BY <1>1, <1>2, <1>4, ProcFacts DEF ProcMove, Goto
  <2>3. QED
    BY <1>1, <1>2, <1>4, <2>1, <2>2, ProcFacts, Proceeds DEF ReaderPC
<1>5. CASE Answer(r, "error") /\ UNCHANGED <<val, overtaken>>
  BY <1>2, <1>5, ErrorAnswer
<1>6. QED
  BY <1>3, <1>4, <1>5 DEF ReadRepo

LEMMA FetchSourceInv == ASSUME StoreInv, NEW r \in Readers, FetchSource(r) PROVE StoreInv'
<1>1. r \in Procs
  BY DEF Procs
<1>2. /\ pc[r] = "fetch" /\ job' = job /\ crashes' = crashes
      /\ UNCHANGED <<source, db, cache, stored>> /\ UNCHANGED syncVars
      /\ Ok \/ Fault
  BY DEF FetchSource, storeVars
<1>3. CASE source[job[r]] # 0 /\ Load(r, source[job[r]]) /\ Goto(r, "enrich") /\ UNCHANGED answer
  <2>1. StoresMove(r)
    BY <1>1, <1>2, <1>3, LoadFacts, SameStores
  <2>2. source[job[r]] <= source[job[r]]
    BY <1>1, ProcFacts DEF Versions
  <2>3. ProcMove(r, "enrich", source[job[r]], job[r])
    BY <1>1, <1>2, <1>3, <2>2, LoadFacts, ProcFacts DEF ProcMove, Goto
  <2>4. QED
    BY <1>1, <1>2, <1>3, <2>1, <2>3, ProcFacts, Proceeds DEF ReaderPC
<1>4. CASE (Answer(r, "not_found") \/ Answer(r, "error")) /\ UNCHANGED <<val, overtaken>>
  BY <1>2, <1>4, ErrorAnswer
<1>5. QED
  BY <1>3, <1>4 DEF FetchSource

LEMMA EnrichInv == ASSUME StoreInv, NEW r \in Readers, Enrich(r) PROVE StoreInv'
<1>1. r \in Procs
  BY DEF Procs
<1>2. /\ pc[r] = "enrich" /\ crashes' = crashes
      /\ UNCHANGED <<source, db, cache, stored, job, val, overtaken>> /\ UNCHANGED syncVars
      /\ Ok \/ Fault
  BY DEF Enrich, storeVars
<1>3. CASE HasDestination(job[r], val[r]) /\ Goto(r, "upsert") /\ UNCHANGED answer
  <2>1. StoresMove(r)
    BY <1>1, <1>2, SameStores DEF StoreInv, TypeOK
  <2>2. /\ val[r] # 0 /\ val[r] <= source[job[r]]
        /\ ~overtaken[r] => db[job[r]] <= val[r]
    BY <1>1, <1>2 DEF StoreInv, NeverAhead
  <2>3. ProcMove(r, "upsert", val[r], job[r])
    BY <1>1, <1>2, <1>3, <2>2, ProcFacts DEF ProcMove, Goto
  <2>4. QED
    BY <1>1, <1>2, <1>3, <2>1, <2>3, ProcFacts, Proceeds DEF ReaderPC
<1>4. CASE Answer(r, "error")
  BY <1>2, <1>4, ErrorAnswer
<1>5. QED
  BY <1>3, <1>4 DEF Enrich

LEMMA UpsertInv == ASSUME StoreInv, NEW r \in Readers, Upsert(r) PROVE StoreInv'
<1>1. r \in Procs
  BY DEF Procs
<1>2. /\ pc[r] = "upsert" /\ crashes' = crashes
      /\ UNCHANGED <<source, cache, job, val>> /\ UNCHANGED syncVars
      /\ Ok \/ Fault
  BY DEF Upsert
<1>3. StoresMove(r) /\ (Write(r) => val[r] \in stored'[job[r]])
  <2>1. Write(r) \/ UNCHANGED <<db, stored, overtaken>>
    BY DEF Upsert
  <2>2. QED
    BY <1>1, <1>2, <2>1, WriteMoves
<1>4. CASE Write(r) /\ Goto(r, "fill") /\ UNCHANGED answer
  <2>1. ProcMove(r, "fill", val[r], job[r])
    BY <1>1, <1>2, <1>3, <1>4, ProcFacts DEF ProcMove, Goto
  <2>2. QED
    BY <1>1, <1>2, <1>3, <1>4, <2>1, ProcFacts, Proceeds DEF ReaderPC
<1>5. CASE Answer(r, "error")
  <2>1. ProcMove(r, "answered", val[r], job[r])
    BY <1>1, <1>2, <1>5, ProcFacts DEF ProcMove, Answer, Goto
  <2>2. answer' = [answer EXCEPT ![r] = "error"]
    BY <1>5 DEF Answer
  <2>3. QED
    BY <1>1, <1>2, <1>3, <2>1, <2>2, ProcFacts, FaultBound, ReaderMoves DEF ReaderPC
<1>6. QED
  BY <1>4, <1>5 DEF Upsert

LEMMA FillCacheInv == ASSUME StoreInv, NEW r \in Readers, FillCache(r) PROVE StoreInv'
<1>1. r \in Procs
  BY DEF Procs
<1>2. /\ pc[r] = "fill" /\ crashes' = crashes /\ Answer(r, "ok")
      /\ SetCache(r) \/ UNCHANGED cache
      /\ UNCHANGED <<source, db, stored, job, val, overtaken>> /\ UNCHANGED syncVars
      /\ Ok \/ Fault
  BY DEF FillCache
<1>3. StoresMove(r)
  BY <1>1, <1>2, FillMoves
<1>4. val[r] \in stored'[job[r]]
  BY <1>1, <1>2 DEF StoreInv, RowsAreStored
<1>5. ProcMove(r, "answered", val[r], job[r])
  BY <1>1, <1>2, ProcFacts DEF ProcMove, Answer, Goto
<1>6. answer' = [answer EXCEPT ![r] = "ok"]
  BY <1>2 DEF Answer
<1>7. QED
  BY <1>1, <1>2, <1>3, <1>4, <1>5, <1>6, ProcFacts, FaultBound, ReaderMoves DEF ReaderPC

LEMMA ReturnInv == ASSUME StoreInv, NEW r \in Readers, Return(r) PROVE StoreInv'
<1>1. r \in Procs
  BY DEF Procs
<1>2. /\ pc' = [pc EXCEPT ![r] = "idle"] /\ answer' = [answer EXCEPT ![r] = "none"]
      /\ val' = [val EXCEPT ![r] = 0]
      /\ UNCHANGED <<source, faults, crashes, db, cache, stored, job, overtaken>>
      /\ UNCHANGED syncVars
  BY DEF Return, Goto, envVars, storeVars
<1>3. StoresMove(r)
  BY <1>1, <1>2, SameStores DEF StoreInv, TypeOK
<1>4. ProcMove(r, "idle", 0, job[r])
  BY <1>1, <1>2, ProcFacts DEF ProcMove
<1>5. 0 \in Versions /\ faults' \in 0..MaxFaults
  BY <1>2, BoundsAssumption DEF Versions, StoreInv, TypeOK
<1>6. QED
  BY <1>1, <1>2, <1>3, <1>4, <1>5, ProcFacts, ReaderMoves DEF ReaderPC

-----------------------------------------------------------------------------
(* The steps of the sync. *)

SyncAtId == pc[Sync] \in {"fetch", "enrich", "upsert", "fill"}

\* What a step of the sync never touches.
SyncFrame == answer' = answer /\ crashes' = crashes /\ (Ok \/ Fault)

LEMMA SyncFacts ==
  ASSUME StoreInv
  PROVE  /\ Sync \in Procs
         /\ rest \in Seq(Ids) /\ listed \in 0..Cardinality(Ids)
         /\ saved \in 0..Cardinality(Ids) /\ failed \in 0..Cardinality(Ids)
         /\ saved \in Nat /\ failed \in Nat /\ Cardinality(Ids) \in Nat
         /\ outcome \in {"none", "ok", "error", "ctx_error"}
         /\ written \in SUBSET Ids
         /\ SyncAtId =>
              /\ source[job[Sync]] # 0
              /\ \A k \in 1..Len(rest) : source[rest[k]] # 0
              /\ saved + failed + 1 + Len(rest) = listed
BY IdsCount DEF StoreInv, TypeOK, Visits, Procs, SyncAtId

\* The sync leaves the current id, saved or failed, for the next one.
LEMMA LeavesId ==
  ASSUME StoreInv, SyncAtId, StoresMove(Sync),
         NEW s \in Nat, NEW f \in Nat, s + f = saved + failed + 1, NextId(s, f),
         val' = val, listed' = listed, written' \in SUBSET Ids, SyncFrame
  PROVE  StoreInv'
<1>1. PICK x \in {"idle", "fetch"} : pc' = [pc EXCEPT ![Sync] = x]
  BY NextIdKeeps DEF SyncAtId
<1>2. PICK j \in Ids : job' = [job EXCEPT ![Sync] = j]
  BY NextIdKeeps DEF SyncAtId
<1>3. pc'[Sync] = x /\ job'[Sync] = j
  BY <1>1, <1>2, SyncFacts, ProcFacts
<1>4. /\ rest' \in Seq(Ids)
      /\ saved' \in 0..Cardinality(Ids) /\ failed' \in 0..Cardinality(Ids)
      /\ outcome' \in {"none", "ok", "error", "ctx_error"}
      /\ x = "idle" => rest' = <<>>
      /\ x = "fetch" =>
            /\ source[j] # 0
            /\ \A k \in 1..Len(rest') : source[rest'[k]] # 0
            /\ saved' + failed' + 1 + Len(rest') = listed'
  BY <1>3, NextIdKeeps DEF SyncAtId
<1>5. ProcMove(Sync, x, val[Sync], j)
  BY <1>1, <1>2, SyncFacts, ProcFacts DEF ProcMove
<1>6. x \in SyncPC /\ val[Sync] \in Versions
  BY SyncFacts, ProcFacts DEF SyncPC
<1>7. faults' \in 0..MaxFaults /\ listed' \in 0..Cardinality(Ids)
  BY SyncFacts, FaultBound DEF SyncFrame
<1>8. QED
  BY <1>4, <1>5, <1>6, <1>7, SyncMoves DEF SyncFrame

\* The run ends at once.
LEMMA EndsRun ==
  ASSUME StoreInv, StoresMove(Sync), NEW o \in {"ok", "error", "ctx_error"}, EndRun(o),
         UNCHANGED <<val, job, saved, failed, listed>>,
         written' \in SUBSET Ids, SyncFrame
  PROVE  StoreInv'
<1>1. ProcMove(Sync, "idle", val[Sync], job[Sync])
  BY SyncFacts, ProcFacts DEF ProcMove, EndRun, Goto
<1>2. /\ rest' = <<>> /\ rest' \in Seq(Ids) /\ outcome' \in {"none", "ok", "error", "ctx_error"}
  BY DEF EndRun
<1>3. /\ listed' \in 0..Cardinality(Ids)
      /\ saved' \in 0..Cardinality(Ids) /\ failed' \in 0..Cardinality(Ids)
  BY SyncFacts
<1>4. "idle" \in SyncPC /\ val[Sync] \in Versions /\ job[Sync] \in Ids
  BY SyncFacts, ProcFacts DEF SyncPC
<1>5. faults' \in 0..MaxFaults
  BY FaultBound DEF SyncFrame
<1>6. QED
  BY <1>1, <1>2, <1>3, <1>4, <1>5, SyncMoves DEF SyncFrame

\* A call of the sync failed.
LEMMA FailsId ==
  ASSUME StoreInv, SyncAtId, StoresMove(Sync), FailId,
         val' = val, listed' = listed, written' = written, SyncFrame
  PROVE  StoreInv'
<1>1. written' \in SUBSET Ids
  BY SyncFacts
<1>2. CASE EndRun("ctx_error") /\ UNCHANGED <<job, saved, failed>>
  BY <1>1, <1>2, EndsRun
<1>3. CASE NextId(saved, failed + 1)
  <2>1. /\ saved \in Nat /\ failed + 1 \in Nat
        /\ saved + (failed + 1) = saved + failed + 1
    BY SyncFacts
  <2>2. QED
    BY <1>1, <1>3, <2>1, LeavesId
<1>4. QED
  BY <1>2, <1>3 DEF FailId

\* The sync goes on with the same id.
LEMMA StaysOnId ==
  ASSUME StoreInv, SyncAtId, StoresMove(Sync),
         NEW x \in {"enrich", "upsert", "fill"}, NEW v \in Versions,
         ProcMove(Sync, x, v, job[Sync]),
         UNCHANGED <<rest, saved, failed, outcome, listed>>,
         written' \in SUBSET Ids, SyncFrame
  PROVE  StoreInv'
<1>1. x \in SyncPC /\ job[Sync] \in Ids /\ faults' \in 0..MaxFaults
  BY SyncFacts, ProcFacts, FaultBound DEF SyncPC, SyncFrame
<1>2. /\ rest' \in Seq(Ids) /\ listed' \in 0..Cardinality(Ids)
      /\ saved' \in 0..Cardinality(Ids) /\ failed' \in 0..Cardinality(Ids)
      /\ outcome' \in {"none", "ok", "error", "ctx_error"}
  BY SyncFacts
<1>3. /\ source[job[Sync]] # 0
      /\ \A k \in 1..Len(rest') : source[rest'[k]] # 0
      /\ saved' + failed' + 1 + Len(rest') = listed'
  BY SyncFacts
<1>4. QED
  BY <1>1, <1>2, <1>3, SyncMoves DEF SyncFrame

LEMMA TickInv == ASSUME StoreInv, Tick PROVE StoreInv'
<1>1. /\ pc[Sync] = "idle" /\ pc' = [pc EXCEPT ![Sync] = "list"]
      /\ saved' = 0 /\ failed' = 0 /\ listed' = 0 /\ written' = {} /\ outcome' = "none"
      /\ UNCHANGED <<source, faults, crashes, db, cache, stored, job, val, overtaken,
                     answer, rest>>
  BY DEF Tick, Goto, envVars, storeVars
<1>2. StoresMove(Sync)
  BY <1>1, SyncFacts, SameStores DEF StoreInv, TypeOK
<1>3. ProcMove(Sync, "list", val[Sync], job[Sync])
  BY <1>1, SyncFacts, ProcFacts DEF ProcMove
<1>4. rest' = <<>> /\ rest' \in Seq(Ids)
  BY <1>1 DEF StoreInv, Visits
<1>5. /\ listed' \in 0..Cardinality(Ids)
      /\ saved' \in 0..Cardinality(Ids) /\ failed' \in 0..Cardinality(Ids)
  BY <1>1, SyncFacts
<1>6. /\ "list" \in SyncPC /\ val[Sync] \in Versions /\ job[Sync] \in Ids
      /\ faults' \in 0..MaxFaults
  BY <1>1, SyncFacts, ProcFacts DEF SyncPC, StoreInv, TypeOK
<1>7. QED
  BY <1>1, <1>2, <1>3, <1>4, <1>5, <1>6, SyncMoves

LEMMA SyncListInv == ASSUME StoreInv, SyncList PROVE StoreInv'
<1>1. /\ pc[Sync] = "list"
      /\ UNCHANGED <<source, crashes, db, cache, stored, val, overtaken, answer,
                     saved, failed, written>>
      /\ Ok \/ Fault
  BY DEF SyncList, storeVars
<1>2. StoresMove(Sync)
  BY <1>1, SyncFacts, SameStores DEF StoreInv, TypeOK
<1>3. written' \in SUBSET Ids /\ SyncFrame
  BY <1>1, SyncFacts DEF SyncFrame
<1>4. CASE (EndRun("error") \/ EndRun("ok")) /\ UNCHANGED <<job, listed>>
  BY <1>1, <1>2, <1>3, <1>4, EndsRun
<1>5. CASE \E S \in SUBSET Published : S # {} /\ \E q \in Orders(S) :
             /\ Goto(Sync, "fetch")
             /\ job' = [job EXCEPT ![Sync] = Head(q)]
             /\ rest' = Tail(q) /\ listed' = Len(q) /\ UNCHANGED outcome
  <2>0. PICK S \in SUBSET Published : S # {} /\ \E q \in Orders(S) :
          /\ Goto(Sync, "fetch")
          /\ job' = [job EXCEPT ![Sync] = Head(q)]
          /\ rest' = Tail(q) /\ listed' = Len(q) /\ UNCHANGED outcome
    BY <1>5
  <2>1. PICK q \in Orders(S) :
          /\ Goto(Sync, "fetch")
          /\ job' = [job EXCEPT ![Sync] = Head(q)]
          /\ rest' = Tail(q) /\ listed' = Len(q) /\ UNCHANGED outcome
    BY <2>0
  <2>2. S \in SUBSET Ids /\ \A i \in S : source[i] # 0
    BY DEF Published
  <2>3. /\ Len(q) \in 1..Cardinality(Ids)
        /\ Head(q) \in S /\ Tail(q) \in Seq(S)
        /\ 1 + Len(Tail(q)) = Len(q)
    BY <2>0, <2>2, OrderIsSequence
  <2>4. ProcMove(Sync, "fetch", val[Sync], Head(q))
    BY <1>1, <2>1, SyncFacts, ProcFacts DEF ProcMove, Goto
  <2>5. source[Head(q)] # 0 /\ \A k \in 1..Len(rest') : source[rest'[k]] # 0
    <3>1. \A k \in 1..Len(Tail(q)) : Tail(q)[k] \in S
      BY <2>3
    <3>2. QED
      BY <2>1, <2>2, <2>3, <3>1
  <2>6. saved' + failed' + 1 + Len(rest') = listed'
    <3>1. saved' = 0 /\ failed' = 0
      BY <1>1 DEF StoreInv, Visits
    <3>2. Len(rest') \in Nat
      BY <2>1, <2>3
    <3>3. QED
      BY <2>1, <2>3, <3>1, <3>2
  <2>7. rest' \in Seq(Ids) /\ listed' \in 0..Cardinality(Ids)
    <3>1. Tail(q) \in Seq(Ids)
      BY <2>2, <2>3
    <3>2. QED
      BY <2>1, <2>3, <3>1, SyncFacts
  <2>8. /\ saved' \in 0..Cardinality(Ids) /\ failed' \in 0..Cardinality(Ids)
        /\ outcome' \in {"none", "ok", "error", "ctx_error"}
    BY <1>1, <2>1, SyncFacts
  <2>9. /\ "fetch" \in SyncPC /\ val[Sync] \in Versions /\ Head(q) \in Ids
        /\ faults' \in 0..MaxFaults
    BY <1>1, <2>2, <2>3, SyncFacts, ProcFacts, FaultBound DEF SyncPC
  <2>10. QED
    BY <1>1, <1>2, <1>3, <2>4, <2>5, <2>6, <2>7, <2>8, <2>9, SyncMoves
<1>6. QED
  BY <1>4, <1>5 DEF SyncList

LEMMA SyncFetchInv == ASSUME StoreInv, SyncFetch PROVE StoreInv'
<1>1. /\ pc[Sync] = "fetch" /\ SyncAtId /\ SyncFrame
      /\ UNCHANGED <<source, db, cache, stored, listed, written>>
  BY DEF SyncFetch, SyncFrame, SyncAtId, storeVars
<1>2. written' \in SUBSET Ids
  BY <1>1, SyncFacts
<1>3. CASE /\ Load(Sync, source[job[Sync]]) /\ Goto(Sync, "enrich")
           /\ UNCHANGED <<job, rest, saved, failed, outcome>>
  <2>1. StoresMove(Sync)
    BY <1>1, <1>3, SyncFacts, LoadFacts, SameStores
  <2>2. source[job[Sync]] # 0 /\ source[job[Sync]] <= source[job[Sync]]
    BY <1>1, SyncFacts, ProcFacts DEF Versions
  <2>3. ProcMove(Sync, "enrich", source[job[Sync]], job[Sync])
    BY <1>1, <1>3, <2>2, SyncFacts, LoadFacts, ProcFacts DEF ProcMove, Goto
  <2>4. QED
    BY <1>1, <1>2, <1>3, <2>1, <2>3, SyncFacts, ProcFacts, StaysOnId
<1>4. CASE FailId /\ UNCHANGED <<val, overtaken>>
  <2>1. StoresMove(Sync)
    BY <1>1, <1>4, SyncFacts, SameStores DEF StoreInv, TypeOK
  <2>2. QED
    BY <1>1, <1>4, <2>1, FailsId
<1>5. QED
  BY <1>3, <1>4 DEF SyncFetch

LEMMA SyncEnrichInv == ASSUME StoreInv, SyncEnrich PROVE StoreInv'
<1>1. /\ pc[Sync] = "enrich" /\ SyncAtId /\ SyncFrame
      /\ UNCHANGED <<source, db, cache, stored, val, overtaken, listed, written>>
  BY DEF SyncEnrich, SyncFrame, SyncAtId, storeVars
<1>2. written' \in SUBSET Ids
  BY <1>1, SyncFacts
<1>3. StoresMove(Sync)
  BY <1>1, SyncFacts, SameStores DEF StoreInv, TypeOK
<1>4. CASE /\ HasDestination(job[Sync], val[Sync]) /\ Goto(Sync, "upsert")
           /\ UNCHANGED <<job, rest, saved, failed, outcome>>
  <2>1. /\ val[Sync] # 0 /\ val[Sync] <= source[job[Sync]]
        /\ ~overtaken[Sync] => db[job[Sync]] <= val[Sync]
    BY <1>1, SyncFacts DEF StoreInv, NeverAhead
  <2>2. ProcMove(Sync, "upsert", val[Sync], job[Sync])
    BY <1>1, <1>4, <2>1, SyncFacts, ProcFacts DEF ProcMove, Goto
  <2>3. QED
    BY <1>1, <1>2, <1>3, <1>4, <2>2, SyncFacts, ProcFacts, StaysOnId
<1>5. CASE NextId(saved, failed + 1)
  <2>1. /\ saved \in Nat /\ failed + 1 \in Nat
        /\ saved + (failed + 1) = saved + failed + 1
    BY SyncFacts
  <2>2. QED
    BY <1>1, <1>2, <1>3, <1>5, <2>1, LeavesId
<1>6. CASE FailId
  BY <1>1, <1>3, <1>6, FailsId
<1>7. QED
  BY <1>4, <1>5, <1>6 DEF SyncEnrich

LEMMA SyncUpsertInv == ASSUME StoreInv, SyncUpsert PROVE StoreInv'
<1>1. /\ pc[Sync] = "upsert" /\ SyncAtId /\ SyncFrame
      /\ UNCHANGED <<source, cache, val, listed>>
  BY DEF SyncUpsert, SyncFrame, SyncAtId
<1>2. StoresMove(Sync) /\ (Write(Sync) => val[Sync] \in stored'[job[Sync]])
  <2>1. Write(Sync) \/ UNCHANGED <<db, stored, overtaken>>
    BY DEF SyncUpsert
  <2>2. QED
    BY <1>1, <2>1, SyncFacts, WriteMoves
<1>3. CASE /\ Write(Sync) /\ Goto(Sync, "fill") /\ written' = written \cup {job[Sync]}
           /\ UNCHANGED <<job, rest, saved, failed, outcome>>
  <2>1. ProcMove(Sync, "fill", val[Sync], job[Sync])
    BY <1>1, <1>2, <1>3, SyncFacts, ProcFacts DEF ProcMove, Goto
  <2>2. written' \in SUBSET Ids
    BY <1>3, SyncFacts, ProcFacts
  <2>3. QED
    BY <1>1, <1>2, <1>3, <2>1, <2>2, SyncFacts, ProcFacts, StaysOnId
<1>4. CASE FailId /\ UNCHANGED written
  BY <1>1, <1>2, <1>4, FailsId
<1>5. QED
  BY <1>3, <1>4 DEF SyncUpsert

LEMMA SyncFillInv == ASSUME StoreInv, SyncFill PROVE StoreInv'
<1>1. /\ pc[Sync] = "fill" /\ SyncAtId /\ SyncFrame
      /\ SetCache(Sync) \/ UNCHANGED cache
      /\ NextId(saved + 1, failed)
      /\ UNCHANGED <<source, db, stored, val, overtaken, listed, written>>
  BY DEF SyncFill, SyncFrame, SyncAtId
<1>2. StoresMove(Sync)
  BY <1>1, SyncFacts, FillMoves
<1>3. /\ saved + 1 \in Nat /\ failed \in Nat
      /\ (saved + 1) + failed = saved + failed + 1
  BY SyncFacts
<1>4. written' \in SUBSET Ids
  BY <1>1, SyncFacts
<1>5. QED
  BY <1>1, <1>2, <1>3, <1>4, LeavesId

-----------------------------------------------------------------------------
(* The environment, and the invariant. *)

LEMMA InitInv == ASSUME Init PROVE StoreInv
<1>1. 0 \in Versions /\ Cardinality(Ids) \in Nat /\ Sync \in Procs /\ Readers \subseteq Procs
  BY BoundsAssumption, IdsCount DEF Versions, Procs
<1>2. TypeOK
  <2>1. /\ source \in [Ids -> Versions] /\ db \in [Ids -> Versions]
        /\ cache \in [Ids -> Versions] /\ val \in [Procs -> Versions]
        /\ job \in [Procs -> Ids]
    BY <1>1 DEF Init
  <2>2. pc \in [Procs -> ReaderPC \cup SyncPC]
    BY DEF Init, ReaderPC
  <2>3. answer \in [Readers -> {"none", "ok", "not_found", "error"}]
    BY DEF Init
  <2>4. /\ rest \in Seq(Ids) /\ listed \in 0..Cardinality(Ids)
        /\ saved \in 0..Cardinality(Ids) /\ failed \in 0..Cardinality(Ids)
        /\ faults \in 0..MaxFaults /\ crashes \in 0..MaxCrashes
    BY <1>1, BoundsAssumption DEF Init
  <2>5. stored \in [Ids -> SUBSET Versions] /\ overtaken \in [Procs -> BOOLEAN]
    BY DEF Init
  <2>6. QED
    BY <2>1, <2>2, <2>3, <2>4, <2>5 DEF Init, TypeOK
<1>3. \A p \in Procs : pc[p] = "idle"
  BY DEF Init
<1>4. NeverAhead
  BY <1>3 DEF Init, NeverAhead
<1>5. RowsAreStored
  BY <1>3 DEF Init, RowsAreStored
<1>6. Visits
  BY <1>1, <1>3 DEF Init, Visits, SyncPC
<1>7. OnlyStoredIsServed /\ StoredHasDestination
  BY DEF Init, OnlyStoredIsServed, StoredHasDestination
<1>8. QED
  BY <1>2, <1>4, <1>5, <1>6, <1>7 DEF StoreInv

\* A newer version at the site leaves every version in hand behind or equal.
LEMMA PublishInv == ASSUME StoreInv, NEW i \in Ids, Publish(i) PROVE StoreInv'
<1>1. /\ UNCHANGED <<faults, crashes, db, cache, stored, pc, job, val, overtaken, answer>>
      /\ UNCHANGED syncVars /\ source' = [source EXCEPT ![i] = @ + 1]
      /\ source[i] < MaxVersion
  BY DEF Publish, storeVars, procVars
<1>2. /\ source \in [Ids -> Versions] /\ db \in [Ids -> Versions]
      /\ val \in [Procs -> Versions] /\ job \in [Procs -> Ids]
      /\ rest \in Seq(Ids) /\ Sync \in Procs
  BY SyncFacts DEF StoreInv, TypeOK
<1>3. source[i] + 1 \in Versions
  BY <1>1, <1>2, BoundsAssumption DEF Versions
<1>4. source' \in [Ids -> Versions]
  BY <1>1, <1>2, <1>3
<1>5. \A j \in Ids : source[j] <= source'[j]
  BY <1>1, <1>2 DEF Versions
<1>6. TypeOK'
  BY <1>1, <1>4 DEF StoreInv, TypeOK, syncVars
<1>7. NeverAhead'
  <2>1. \A j \in Ids : db[j] <= source'[j]
    BY <1>2, <1>4, <1>5 DEF StoreInv, NeverAhead, Versions
  <2>2. ASSUME NEW p \in Procs, pc[p] \in {"enrich", "upsert"}
        PROVE  val[p] # 0 /\ val[p] <= source'[job[p]] /\ (~overtaken[p] => db[job[p]] <= val[p])
    <3>1. /\ val[p] # 0 /\ val[p] <= source[job[p]]
          /\ ~overtaken[p] => db[job[p]] <= val[p]
      BY <2>2 DEF StoreInv, NeverAhead
    <3>2. /\ job[p] \in Ids /\ val[p] \in Int
          /\ source[job[p]] \in Int /\ source'[job[p]] \in Int
      BY <1>2, <1>4, BoundsAssumption DEF Versions
    <3>3. QED
      BY <1>5, <3>1, <3>2
  <2>3. QED
    BY <1>1, <2>1, <2>2 DEF StoreInv, NeverAhead, HasDestination
<1>8. RowsAreStored' /\ OnlyStoredIsServed' /\ StoredHasDestination'
  BY <1>1 DEF StoreInv, RowsAreStored, OnlyStoredIsServed, StoredHasDestination, HasDestination
<1>9. Visits'
  <2>1. ASSUME NEW j \in Ids, source[j] # 0 PROVE source'[j] # 0
    BY <1>2, <1>4, <1>5, <2>1 DEF Versions
  <2>2. \A k \in 1..Len(rest) : rest[k] \in Ids
    BY <1>2
  <2>3. QED
    BY <1>1, <1>2, <2>1, <2>2 DEF StoreInv, Visits, syncVars
<1>10. QED
  BY <1>6, <1>7, <1>8, <1>9 DEF StoreInv

LEMMA ExpireInv == ASSUME StoreInv, NEW i \in Ids, Expire(i) PROVE StoreInv'
<1>1. /\ UNCHANGED <<source, faults, crashes, db, stored, pc, job, val, overtaken, answer>>
      /\ UNCHANGED syncVars /\ cache' = [cache EXCEPT ![i] = 0]
  BY DEF Expire, envVars, procVars
<1>2. cache \in [Ids -> Versions] /\ 0 \in Versions
  BY BoundsAssumption DEF StoreInv, TypeOK, Versions
<1>3. cache' \in [Ids -> Versions]
  BY <1>1, <1>2
<1>4. TypeOK'
  BY <1>1, <1>3 DEF StoreInv, TypeOK, syncVars
<1>5. NeverAhead' /\ RowsAreStored' /\ StoredHasDestination'
  BY <1>1 DEF StoreInv, NeverAhead, RowsAreStored, StoredHasDestination, HasDestination
<1>6. Visits'
  BY <1>1 DEF StoreInv, Visits, syncVars
<1>7. OnlyStoredIsServed'
  BY <1>1, <1>2 DEF StoreInv, OnlyStoredIsServed
<1>8. QED
  BY <1>4, <1>5, <1>6, <1>7 DEF StoreInv

LEMMA CrashInv == ASSUME StoreInv, Crash PROVE StoreInv'
<1>1. /\ crashes < MaxCrashes /\ crashes' = crashes + 1
      /\ UNCHANGED <<source, faults, db, cache, stored, job, overtaken>>
      /\ rest' = <<>> /\ listed' = 0 /\ saved' = 0 /\ failed' = 0
      /\ outcome' = "none" /\ written' = {}
      /\ answer' = [r \in Readers |-> "none"] /\ val' = [p \in Procs |-> 0]
      /\ pc' = [p \in Procs |-> "idle"]
  BY DEF Crash, storeVars
<1>2. 0 \in Versions /\ Cardinality(Ids) \in Nat /\ Sync \in Procs /\ Readers \subseteq Procs
  BY BoundsAssumption, IdsCount DEF Versions, Procs
<1>3. \A p \in Procs : pc'[p] = "idle"
  BY <1>1
<1>4. crashes' \in 0..MaxCrashes
  BY <1>1, BoundsAssumption DEF StoreInv, TypeOK
<1>5. TypeOK'
  <2>1. pc' \in [Procs -> ReaderPC \cup SyncPC]
    BY <1>1 DEF ReaderPC
  <2>2. /\ val' \in [Procs -> Versions]
        /\ answer' \in [Readers -> {"none", "ok", "not_found", "error"}]
    BY <1>1, <1>2
  <2>3. /\ rest' \in Seq(Ids) /\ listed' \in 0..Cardinality(Ids)
        /\ saved' \in 0..Cardinality(Ids) /\ failed' \in 0..Cardinality(Ids)
    BY <1>1, <1>2
  <2>4. QED
    BY <1>1, <1>4, <2>1, <2>2, <2>3 DEF StoreInv, TypeOK
<1>6. NeverAhead' /\ RowsAreStored' /\ StoredHasDestination'
  BY <1>1, <1>3 DEF StoreInv, NeverAhead, RowsAreStored, StoredHasDestination, HasDestination
<1>7. Visits'
  BY <1>1, <1>2, <1>3 DEF Visits, SyncPC
<1>8. OnlyStoredIsServed'
  BY <1>1 DEF StoreInv, OnlyStoredIsServed
<1>9. QED
  BY <1>5, <1>6, <1>7, <1>8 DEF StoreInv

LEMMA StutterInv == ASSUME StoreInv, UNCHANGED vars PROVE StoreInv'
<1>1. TypeOK' /\ NeverAhead' /\ RowsAreStored'
  BY DEF StoreInv, TypeOK, NeverAhead, RowsAreStored, HasDestination,
         vars, envVars, storeVars, procVars, syncVars
<1>2. Visits' /\ OnlyStoredIsServed' /\ StoredHasDestination'
  BY DEF StoreInv, Visits, OnlyStoredIsServed, StoredHasDestination, HasDestination,
         vars, envVars, storeVars, procVars, syncVars
<1>3. QED
  BY <1>1, <1>2 DEF StoreInv

LEMMA StoreStep == StoreInv /\ [Next]_vars => StoreInv'
<1>1. SUFFICES ASSUME StoreInv, [Next]_vars PROVE StoreInv'
  OBVIOUS
<1>2. ASSUME NEW r \in Readers, StartGet(r) \/ GetMatch(r) PROVE StoreInv'
  BY <1>1, <1>2, StartGetInv, ReadCacheInv, ReadRepoInv, FetchSourceInv, EnrichInv,
     UpsertInv, FillCacheInv, ReturnInv DEF GetMatch
<1>3. CASE SyncStep
  BY <1>1, <1>3, TickInv, SyncListInv, SyncFetchInv, SyncEnrichInv, SyncUpsertInv,
     SyncFillInv DEF SyncStep
<1>4. ASSUME NEW i \in Ids, Publish(i) \/ Expire(i) PROVE StoreInv'
  BY <1>1, <1>4, PublishInv, ExpireInv
<1>5. CASE Crash
  BY <1>1, <1>5, CrashInv
<1>6. CASE UNCHANGED vars
  BY <1>1, <1>6, StutterInv
<1>7. QED
  BY <1>1, <1>2, <1>3, <1>4, <1>5, <1>6 DEF Next

\* The invariant holds whatever the calls, the sync, the site and the restarts
\* do, for any number of matches and of concurrent calls.
THEOREM StoreInvariant == Spec => []StoreInv
<1>1. Init => StoreInv
  BY InitInv
<1>2. QED
  BY <1>1, StoreStep, PTL DEF Spec

-----------------------------------------------------------------------------
(* The properties. *)

\* Every variable keeps its type.
THEOREM TypeCorrect == Spec => []TypeOK
<1>1. StoreInv => TypeOK
  BY DEF StoreInv
<1>2. QED
  BY <1>1, StoreInvariant, PTL

\* The cache and GetMatch serve only versions that were in the table.
THEOREM ServesOnlyStored == Spec => []OnlyStoredIsServed
<1>1. StoreInv => OnlyStoredIsServed
  BY DEF StoreInv
<1>2. QED
  BY <1>1, StoreInvariant, PTL

\* Nothing without a destination airport is ever stored.
THEOREM StoresDestinations == Spec => []StoredHasDestination
<1>1. StoreInv => StoredHasDestination
  BY DEF StoreInv
<1>2. QED
  BY <1>1, StoreInvariant, PTL

\* A write that takes a row back to an older version was overtaken.
LEMMA OlderWriteWasOvertaken ==
  ASSUME StoreInv, NEW p \in Procs, pc[p] = "upsert",
         Write(p) \/ UNCHANGED db,
         NEW i \in Ids, db'[i] < db[i]
  PROVE  job[p] = i /\ db'[i] = val[p] /\ overtaken[p]
<1>1. db \in [Ids -> Versions] /\ job[p] \in Ids /\ val[p] \in Versions
  BY DEF StoreInv, TypeOK
<1>2. db[i] \in Int /\ db[job[p]] \in Int /\ val[p] \in Int
  BY <1>1, BoundsAssumption DEF Versions
<1>3. ~UNCHANGED db
  BY <1>2
<1>4. db' = [db EXCEPT ![job[p]] = val[p]]
  BY <1>3 DEF Write
<1>5. job[p] = i /\ db'[i] = val[p]
  BY <1>1, <1>2, <1>4
<1>6. ~overtaken[p] => db[job[p]] <= val[p]
  BY DEF StoreInv, NeverAhead
<1>7. QED
  BY <1>2, <1>5, <1>6

\* Only an overtaken process takes a stored match back to an older version.
THEOREM RegressionsAreRaces == Spec => RegressionNeedsRace
<1> DEFINE OnlyOvertaken ==
      \A i \in Ids : db'[i] < db[i] =>
        \E p \in Procs : /\ pc[p] = "upsert" /\ job[p] = i
                         /\ db'[i] = val[p] /\ overtaken[p]
<1>1. StoreInv /\ [Next]_vars => [OnlyOvertaken]_vars
  <2>1. SUFFICES ASSUME StoreInv, [Next]_vars, NEW i \in Ids, db'[i] < db[i]
                 PROVE  \E p \in Procs : /\ pc[p] = "upsert" /\ job[p] = i
                                         /\ db'[i] = val[p] /\ overtaken[p]
    OBVIOUS
  <2>2. db' # db
    <3>1. db[i] \in Int
      BY <2>1, BoundsAssumption DEF StoreInv, TypeOK, Versions
    <3>2. QED
      BY <2>1, <3>1
  <2>3. \E p \in Procs : pc[p] = "upsert" /\ Write(p)
    <3>1. ASSUME NEW r \in Readers, StartGet(r) \/ GetMatch(r)
          PROVE  r \in Procs /\ pc[r] = "upsert" /\ Write(r)
      BY <2>2, <3>1 DEF GetMatch, StartGet, ReadCache, ReadRepo, FetchSource, Enrich,
                        Upsert, FillCache, Return, storeVars, Procs
    <3>2. CASE SyncStep
      BY <2>2, <3>2 DEF SyncStep, Tick, SyncList, SyncFetch, SyncEnrich, SyncUpsert,
                        SyncFill, storeVars, Procs
    <3>3. ASSUME NEW j \in Ids, Publish(j) \/ Expire(j) PROVE FALSE
      BY <2>2, <3>3 DEF Publish, Expire, storeVars
    <3>4. ~Crash /\ ~UNCHANGED vars
      BY <2>2 DEF Crash, vars, storeVars
    <3>5. QED
      BY <2>1, <3>1, <3>2, <3>3, <3>4 DEF Next
  <2>4. QED
    BY <2>1, <2>3, OlderWriteWasOvertaken
<1>2. QED
  BY <1>1, StoreInvariant, PTL DEF Spec, RegressionNeedsRace

-----------------------------------------------------------------------------
(* The counters of a sync run. *)

\* SyncAccounts is kept because no id is visited twice in a run: what the run has
\* written, the id it is at and the ids it has still to visit are apart.
AccountsInv ==
  /\ pc[Sync] = "list" => written = {} /\ listed = 0 /\ outcome = "none"
  /\ SyncAtId =>
        /\ outcome = "none"
        /\ \A k, l \in 1..Len(rest) : rest[k] = rest[l] => k = l
        /\ \A k \in 1..Len(rest) : rest[k] # job[Sync] /\ rest[k] \notin written
        /\ job[Sync] \in written <=> pc[Sync] = "fill"
        /\ saved = Cardinality(written \ {job[Sync]})
  /\ outcome \in {"ok", "error"} =>
        /\ saved = Cardinality(written)
        /\ saved + failed = listed
        /\ outcome = "ok" /\ listed > 0 => saved > 0

\* The first of a sequence without repetition, and the others.
LEMMA HeadIsApart ==
  ASSUME NEW q \in Seq(Ids), q # <<>>,
         \A k, l \in 1..Len(q) : q[k] = q[l] => k = l
  PROVE  /\ Head(q) = q[1] /\ 1 \in 1..Len(q)
         /\ \A k \in 1..Len(Tail(q)) : k + 1 \in 1..Len(q) /\ Tail(q)[k] = q[k + 1]
         /\ \A k, l \in 1..Len(Tail(q)) : Tail(q)[k] = Tail(q)[l] => k = l
         /\ \A k \in 1..Len(Tail(q)) : Tail(q)[k] # Head(q)
<1>1. Len(q) \in Nat \ {0} /\ Head(q) = q[1] /\ Len(Tail(q)) = Len(q) - 1
  OBVIOUS
<1>2. \A k \in 1..Len(Tail(q)) : k + 1 \in 1..Len(q) /\ Tail(q)[k] = q[k + 1]
  BY <1>1
<1>3. ASSUME NEW k \in 1..Len(Tail(q)), NEW l \in 1..Len(Tail(q)), Tail(q)[k] = Tail(q)[l]
      PROVE  k = l
  <2>1. k + 1 = l + 1
    BY <1>2, <1>3
  <2>2. QED
    BY <2>1
<1>4. ASSUME NEW k \in 1..Len(Tail(q)) PROVE Tail(q)[k] # Head(q)
  <2>1. k + 1 # 1 /\ 1 \in 1..Len(q) /\ k + 1 \in 1..Len(q)
    BY <1>1, <1>2
  <2>2. QED
    BY <1>1, <1>2, <2>1
<1>5. QED
  BY <1>1, <1>2, <1>3, <1>4

LEMMA WrittenCount ==
  ASSUME StoreInv, NEW i
  PROVE  /\ Cardinality(written) \in Nat
         /\ i \in written => Cardinality(written \ {i}) = Cardinality(written) - 1
<1>1. IsFiniteSet(written)
  BY IdsAssumption, FS_Subset DEF StoreInv, TypeOK
<1>2. QED
  BY <1>1, FS_CardinalityType, FS_RemoveElement

\* Steps that do not concern the run.
LEMMA OthersAccounts ==
  ASSUME AccountsInv, UNCHANGED syncVars, pc'[Sync] = pc[Sync], job'[Sync] = job[Sync]
  PROVE  AccountsInv'
BY DEF AccountsInv, SyncAtId, syncVars

LEMMA ReaderAccounts ==
  ASSUME StoreInv, AccountsInv, NEW r \in Readers, StartGet(r) \/ GetMatch(r)
  PROVE  AccountsInv'
<1>1. r # Sync /\ Sync \in Procs
  BY SyncAssumption DEF Procs
<1>2. pc \in [Procs -> ReaderPC \cup SyncPC] /\ job \in [Procs -> Ids]
  BY DEF StoreInv, TypeOK
<1>3. UNCHANGED syncVars
  BY DEF StartGet, GetMatch, ReadCache, ReadRepo, FetchSource, Enrich, Upsert, FillCache,
         Return
<1>4. pc'[Sync] = pc[Sync]
  BY <1>1, <1>2 DEF StartGet, GetMatch, ReadCache, ReadRepo, FetchSource, Enrich, Upsert,
                    FillCache, Return, Goto, Answer
<1>5. job'[Sync] = job[Sync]
  BY <1>1, <1>2 DEF StartGet, GetMatch, ReadCache, ReadRepo, FetchSource, Enrich, Upsert,
                    FillCache, Return
<1>6. QED
  BY <1>3, <1>4, <1>5, OthersAccounts

\* The run leaves an id it has counted.
LEMMA NextIdAccounts ==
  ASSUME StoreInv, AccountsInv, SyncAtId,
         NEW s \in Nat, NEW f \in Nat, s + f = saved + failed + 1, NextId(s, f),
         s = Cardinality(written), UNCHANGED <<listed, written>>
  PROVE  AccountsInv'
<1>0. /\ Sync \in Procs /\ pc \in [Procs -> ReaderPC \cup SyncPC] /\ job \in [Procs -> Ids]
      /\ rest \in Seq(Ids) /\ outcome = "none"
      /\ saved + failed + 1 + Len(rest) = listed
      /\ saved' = s /\ failed' = f /\ saved \in Nat /\ failed \in Nat
  BY SyncFacts, ProcFacts DEF StoreInv, TypeOK, AccountsInv, NextId
<1>1. CASE rest = <<>>
  <2>1. pc'[Sync] = "idle" /\ outcome' = IF s = 0 THEN "error" ELSE "ok"
    BY <1>0, <1>1 DEF NextId, EndRun, Goto
  <2>2. saved' + failed' = listed'
    BY <1>0, <1>1
  <2>3. outcome' = "ok" => saved' > 0
    BY <1>0, <2>1
  <2>4. QED
    BY <1>0, <2>1, <2>2, <2>3 DEF AccountsInv, SyncAtId
<1>2. CASE rest # <<>>
  <2>1. /\ pc'[Sync] = "fetch" /\ job'[Sync] = Head(rest) /\ rest' = Tail(rest)
        /\ outcome' = "none"
    BY <1>0, <1>2 DEF NextId, Goto
  <2>2. /\ \A k, l \in 1..Len(rest) : rest[k] = rest[l] => k = l
        /\ \A k \in 1..Len(rest) : rest[k] \notin written
    BY DEF AccountsInv
  <2>3. /\ Head(rest) = rest[1] /\ 1 \in 1..Len(rest)
        /\ \A k \in 1..Len(Tail(rest)) : k + 1 \in 1..Len(rest) /\ Tail(rest)[k] = rest[k + 1]
        /\ \A k, l \in 1..Len(Tail(rest)) : Tail(rest)[k] = Tail(rest)[l] => k = l
        /\ \A k \in 1..Len(Tail(rest)) : Tail(rest)[k] # Head(rest)
    BY <1>0, <1>2, <2>2, HeadIsApart
  <2>4. Head(rest) \notin written /\ written \ {Head(rest)} = written
    BY <2>2, <2>3
  <2>5. \A k \in 1..Len(rest') : rest'[k] # job'[Sync] /\ rest'[k] \notin written
    BY <2>1, <2>2, <2>3
  <2>6. QED
    BY <1>0, <2>1, <2>3, <2>4, <2>5 DEF AccountsInv, SyncAtId
<1>3. QED
  BY <1>1, <1>2

\* A call of the run failed, before the id was written.
LEMMA FailIdAccounts ==
  ASSUME StoreInv, AccountsInv, SyncAtId, pc[Sync] # "fill", FailId,
         UNCHANGED <<listed, written>>
  PROVE  AccountsInv'
<1>1. CASE EndRun("ctx_error")
  <2>1. pc'[Sync] = "idle" /\ outcome' = "ctx_error"
    BY <1>1, SyncFacts, ProcFacts DEF EndRun, Goto
  <2>2. QED
    BY <2>1 DEF AccountsInv, SyncAtId
<1>2. CASE NextId(saved, failed + 1)
  <2>1. written \ {job[Sync]} = written /\ saved = Cardinality(written)
    BY DEF AccountsInv
  <2>2. saved \in Nat /\ failed + 1 \in Nat /\ saved + (failed + 1) = saved + failed + 1
    BY SyncFacts
  <2>3. QED
    BY <1>2, <2>1, <2>2, NextIdAccounts
<1>3. QED
  BY <1>1, <1>2 DEF FailId

\* The run goes on with the id it is at.
LEMMA SameIdAccounts ==
  ASSUME AccountsInv, SyncAtId, pc[Sync] # "fill", pc'[Sync] \in {"enrich", "upsert"},
         job'[Sync] = job[Sync], UNCHANGED syncVars
  PROVE  AccountsInv'
BY DEF AccountsInv, SyncAtId, syncVars

LEMMA TickAccounts == ASSUME StoreInv, AccountsInv, Tick PROVE AccountsInv'
<1>1. pc'[Sync] = "list" /\ written' = {} /\ listed' = 0 /\ outcome' = "none"
  BY SyncFacts, ProcFacts DEF Tick, Goto
<1>2. QED
  BY <1>1 DEF AccountsInv, SyncAtId

LEMMA SyncListAccounts == ASSUME StoreInv, AccountsInv, SyncList PROVE AccountsInv'
<1>1. /\ pc[Sync] = "list" /\ written = {} /\ listed = 0 /\ saved = 0 /\ failed = 0
      /\ UNCHANGED <<saved, failed, written>>
  BY DEF SyncList, AccountsInv, StoreInv, Visits
<1>2. Cardinality(written') = 0
  BY <1>1, FS_EmptySet
<1>3. CASE (EndRun("error") \/ EndRun("ok")) /\ UNCHANGED listed
  <2>1. pc'[Sync] = "idle"
    BY <1>3, SyncFacts, ProcFacts DEF EndRun, Goto
  <2>2. QED
    BY <1>1, <1>2, <1>3, <2>1 DEF AccountsInv, SyncAtId
<1>4. CASE \E S \in SUBSET Published : S # {} /\ \E q \in Orders(S) :
             /\ Goto(Sync, "fetch")
             /\ job' = [job EXCEPT ![Sync] = Head(q)]
             /\ rest' = Tail(q) /\ UNCHANGED outcome
  <2>1. PICK S \in SUBSET Published : S # {} /\ \E q \in Orders(S) :
          /\ Goto(Sync, "fetch")
          /\ job' = [job EXCEPT ![Sync] = Head(q)]
          /\ rest' = Tail(q) /\ UNCHANGED outcome
    BY <1>4
  <2>2. PICK q \in Orders(S) :
          /\ Goto(Sync, "fetch")
          /\ job' = [job EXCEPT ![Sync] = Head(q)]
          /\ rest' = Tail(q) /\ UNCHANGED outcome
    BY <2>1
  <2>3. S \in SUBSET Ids
    BY DEF Published
  <2>4. q \in Seq(S) /\ Len(q) \in 1..Cardinality(Ids)
    BY <2>1, <2>3, OrderIsSequence
  <2>5. q \in Seq(Ids) /\ q # <<>>
    BY <2>3, <2>4
  <2>6. DOMAIN q = 1..Len(q)
    BY <2>5
  <2>7. \A k, l \in 1..Len(q) : q[k] = q[l] => k = l
    BY <2>6 DEF Orders
  <2>8. /\ \A k, l \in 1..Len(Tail(q)) : Tail(q)[k] = Tail(q)[l] => k = l
        /\ \A k \in 1..Len(Tail(q)) : Tail(q)[k] # Head(q)
    BY <2>5, <2>7, HeadIsApart
  <2>9. pc'[Sync] = "fetch" /\ job'[Sync] = Head(q)
    BY <2>2, SyncFacts, ProcFacts DEF Goto
  <2>10. outcome' = "none"
    BY <1>1, <2>2 DEF AccountsInv
  <2>11. written' \ {job'[Sync]} = {} /\ written' = {}
    BY <1>1
  <2>12. saved' = Cardinality(written' \ {job'[Sync]})
    BY <1>1, <1>2, <2>11
  <2>13. QED
    BY <2>2, <2>8, <2>9, <2>10, <2>11, <2>12 DEF AccountsInv, SyncAtId
<1>5. QED
  BY <1>3, <1>4 DEF SyncList

LEMMA SyncUpsertAccounts == ASSUME StoreInv, AccountsInv, SyncUpsert PROVE AccountsInv'
<1>1. pc[Sync] = "upsert" /\ SyncAtId /\ listed' = listed
  BY DEF SyncUpsert, SyncAtId
<1>2. CASE /\ Goto(Sync, "fill") /\ written' = written \cup {job[Sync]}
           /\ UNCHANGED <<job, rest, saved, failed, outcome>>
  <2>1. pc'[Sync] = "fill"
    BY <1>2, SyncFacts, ProcFacts DEF Goto
  <2>2. written' \ {job'[Sync]} = written \ {job[Sync]}
    BY <1>2
  <2>3. job'[Sync] = job[Sync] /\ job[Sync] \in written' /\ rest' = rest
    BY <1>2
  <2>4. outcome' = "none" /\ saved' = Cardinality(written' \ {job'[Sync]})
    BY <1>1, <1>2, <2>2 DEF AccountsInv
  <2>5. /\ \A k, l \in 1..Len(rest) : rest[k] = rest[l] => k = l
        /\ \A k \in 1..Len(rest) : rest[k] # job[Sync] /\ rest[k] \notin written
    BY <1>1 DEF AccountsInv
  <2>6. \A k \in 1..Len(rest') : rest'[k] # job'[Sync] /\ rest'[k] \notin written'
    BY <1>2, <2>3, <2>5
  <2>7. \A k, l \in 1..Len(rest') : rest'[k] = rest'[l] => k = l
    BY <2>3, <2>5
  <2>8. QED
    BY <2>1, <2>3, <2>4, <2>6, <2>7 DEF AccountsInv
<1>3. CASE FailId /\ UNCHANGED written
  BY <1>1, <1>3, FailIdAccounts
<1>4. QED
  BY <1>2, <1>3 DEF SyncUpsert

LEMMA SyncFillAccounts == ASSUME StoreInv, AccountsInv, SyncFill PROVE AccountsInv'
<1>1. pc[Sync] = "fill" /\ SyncAtId /\ NextId(saved + 1, failed) /\ UNCHANGED <<listed, written>>
  BY DEF SyncFill, SyncAtId
<1>2. job[Sync] \in written /\ saved = Cardinality(written \ {job[Sync]})
  BY <1>1 DEF AccountsInv
<1>3. saved + 1 = Cardinality(written)
  BY <1>2, WrittenCount, SyncFacts
<1>4. saved + 1 \in Nat /\ failed \in Nat /\ (saved + 1) + failed = saved + failed + 1
  BY SyncFacts
<1>5. QED
  BY <1>1, <1>3, <1>4, NextIdAccounts

LEMMA SyncAccountsKept == ASSUME StoreInv, AccountsInv, SyncStep PROVE AccountsInv'
<1>1. CASE SyncFetch
  <2>1. pc[Sync] = "fetch" /\ SyncAtId /\ UNCHANGED <<listed, written>>
    BY <1>1 DEF SyncFetch, SyncAtId
  <2>2. CASE Goto(Sync, "enrich") /\ UNCHANGED <<job, rest, saved, failed, outcome>>
    BY <2>1, <2>2, SyncFacts, ProcFacts, SameIdAccounts DEF Goto, syncVars
  <2>3. CASE FailId
    BY <2>1, <2>3, FailIdAccounts
  <2>4. QED
    BY <1>1, <2>2, <2>3 DEF SyncFetch
<1>2. CASE SyncEnrich
  <2>1. pc[Sync] = "enrich" /\ SyncAtId /\ UNCHANGED <<listed, written>>
    BY <1>2 DEF SyncEnrich, SyncAtId
  <2>2. CASE Goto(Sync, "upsert") /\ UNCHANGED <<job, rest, saved, failed, outcome>>
    BY <2>1, <2>2, SyncFacts, ProcFacts, SameIdAccounts DEF Goto, syncVars
  <2>3. CASE FailId
    BY <2>1, <2>3, FailIdAccounts
  <2>4. CASE NextId(saved, failed + 1)
    BY <2>1, <2>4, FailIdAccounts DEF FailId
  <2>5. QED
    BY <1>2, <2>2, <2>3, <2>4 DEF SyncEnrich
<1>3. QED
  BY <1>1, <1>2, TickAccounts, SyncListAccounts, SyncUpsertAccounts, SyncFillAccounts
  DEF SyncStep

\* What a run of SyncUpcomingMatches reports: each listed id is counted once, as
\* saved exactly if its write was acknowledged, whatever failed and in whichever
\* order calls and restarts came, for any number of matches.
THEOREM RunsAreCounted == Spec => []SyncAccounts
<1>1. Init => AccountsInv
  BY DEF Init, AccountsInv, SyncAtId, Procs
<1>2. StoreInv /\ AccountsInv /\ [Next]_vars => AccountsInv'
  <2>1. SUFFICES ASSUME StoreInv, AccountsInv, [Next]_vars PROVE AccountsInv'
    OBVIOUS
  <2>2. ASSUME NEW i \in Ids, Publish(i) \/ Expire(i) PROVE AccountsInv'
    BY <2>1, <2>2, OthersAccounts DEF Publish, Expire, procVars
  <2>3. CASE Crash
    <3>1. pc'[Sync] = "idle" /\ outcome' = "none"
      BY <2>3, SyncFacts DEF Crash, Procs
    <3>2. QED
      BY <3>1 DEF AccountsInv, SyncAtId
  <2>4. CASE UNCHANGED vars
    BY <2>1, <2>4, OthersAccounts DEF vars, procVars
  <2>5. QED
    BY <2>1, <2>2, <2>3, <2>4, ReaderAccounts, SyncAccountsKept DEF Next
<1>3. StoreInv /\ AccountsInv => SyncAccounts
  <2>1. SUFFICES ASSUME StoreInv, AccountsInv PROVE SyncAccounts
    OBVIOUS
  <2>2. ASSUME SyncAtId
        PROVE  /\ saved + failed + 1 + Len(rest) = listed
               /\ saved = Cardinality(written \ (IF pc[Sync] = "fill" THEN {job[Sync]} ELSE {}))
    <3>1. saved + failed + 1 + Len(rest) = listed
      BY <2>1, <2>2, SyncFacts
    <3>2. saved = Cardinality(written \ {job[Sync]})
      BY <2>1, <2>2 DEF AccountsInv
    <3>3. pc[Sync] # "fill" => written \ {job[Sync]} = written \ {}
      BY <2>1, <2>2 DEF AccountsInv
    <3>4. QED
      BY <3>1, <3>2, <3>3
  <2>3. QED
    BY <2>1, <2>2 DEF SyncAccounts, AccountsInv, SyncAtId
<1>4. QED
  BY <1>1, <1>2, <1>3, StoreInvariant, StoreStep, PTL DEF Spec
=============================================================================
