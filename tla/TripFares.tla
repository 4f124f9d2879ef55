----------------------------- MODULE TripFares ------------------------------
(***************************************************************************)
(* From the offers of the fare site to the summary a fan sees: the six     *)
(* slots around a match with their dates and, on the day of the match,     *)
(* their widening time windows; which offers of an answer pass a window;   *)
(* and the best fares the gateway picks from the slots.  Whether a whole   *)
(* search fails, and its cache, are AirfareService's subject.              *)
(* Hours are hours of UTC; hour 0 begins the day of the match.             *)
(***************************************************************************)
EXTENDS Integers, Sequences, FiniteSets

CONSTANTS
  Day,         \* hours in a day
  Offset,      \* hours by which the local time of the site is ahead of UTC
  Kickoffs,    \* hours at which the match can begin
  Offers,      \* offers the site can have
  MaxOffers,   \* bound: offers it has at a time
  MaxFaults,   \* bound: calls to it that fail
  Limit,       \* as configured: offers a call asks the site for
  OutPolicy,   \* as configured: <<earliest, latest>> hours of arrival before kickoff
  RetPolicy,   \* as configured: hours of departure after kickoff
  OutDefaults, RetDefaults,  \* used where a configured value is negative
  None         \* not an hour and not a price

ASSUME DayAssumption == Day \in Nat \ {0} /\ Offset \in Nat /\ Kickoffs \subseteq 0..(Day - 1)
\* The site files an offer under the local date of its departure.
ASSUME OffersAssumption ==
  /\ None \notin Int /\ IsFiniteSet(Offers)
  /\ Offers \subseteq [dir : {"out", "ret"}, date : Int, departs : Int \cup {None},
                      returns : Int \cup {None}, duration : Int, price : Int]
  /\ \A o \in Offers : o.departs # None => o.date = (o.departs + Offset) \div Day
ASSUME BoundsAssumption == MaxOffers \in Nat /\ MaxFaults \in Nat /\ Limit \in Int
ASSUME PolicyAssumption ==
  /\ OutPolicy \in Seq(Int \X Int) /\ OutDefaults \in Seq(Nat \X Nat)
  /\ RetPolicy \in Seq(Int) /\ RetDefaults \in Seq(Nat)
  /\ Len(OutPolicy) = Len(OutDefaults) /\ Len(OutPolicy) > 0
  /\ Len(RetPolicy) = Len(RetDefaults) /\ Len(RetPolicy) > 0

VARIABLES
  kickoff, offers,   \* the match and what the site has
  pc,                \* where the search is
  slot, attempt,     \* the slot and the window it is at
  slots,             \* the slots built so far
  faults,            \* calls that failed
  failedAt,          \* history: attempts that failed
  seen, best         \* slots findBestFare has looked at; what it found in them

vars == <<kickoff, offers, pc, slot, attempt, slots, faults, failedAt, seen, best>>

\* The six slots: direction and day counted from the day of the match.
Slots == << [dir |-> "out", day |-> -2], [dir |-> "out", day |-> -1],
            [dir |-> "out", day |->  0], [dir |-> "ret", day |->  0],
            [dir |-> "ret", day |->  1], [dir |-> "ret", day |->  2] >>
ArriveBy    == 3
DepartAfter == 4

NormalizeDuration(v, d) == IF v < 0 THEN d ELSE v

\* Mutant: a window configured the wrong way round stays so.
NormalizeAsIs(w, d) == << NormalizeDuration(w[1], d[1]), NormalizeDuration(w[2], d[2]) >>

Normalize(w, d) ==
  LET e == NormalizeDuration(w[1], d[1])
      l == NormalizeDuration(w[2], d[2])
  IN  IF e < l THEN <<l, e>> ELSE <<e, l>>

OutWindow(l) == Normalize(OutPolicy[l], OutDefaults[l])
RetWindow(l) == NormalizeDuration(RetPolicy[l], RetDefaults[l])

Attempts(k) == CASE k = ArriveBy    -> Len(OutPolicy)
                 [] k = DepartAfter -> Len(RetPolicy)
                 [] OTHER           -> 1

\* What the site has for the direction and the date of slot k.
Listed(k) == {o \in offers : o.dir = Slots[k].dir /\ o.date = Slots[k].day}

AskedFor == IF Limit <= 0 THEN 30 ELSE Limit

\* The answers to buildURL's request, sorted by price and limited: no dearer offer
\* comes before a cheaper one, of offers of the same price any are cut. The window
\* is not part of the request.
Answers(k) ==
  {A \in SUBSET Listed(k) :
     /\ Cardinality(A) <= AskedFor
     /\ A # Listed(k) => Cardinality(A) = AskedFor
     /\ \A o \in A, x \in Listed(k) \ A : o.price <= x.price}

Arrival(o) ==
  IF o.departs # None /\ o.duration > 0 THEN o.departs + o.duration ELSE None

\* Departure, or the return date of an offer that tells no departure.
Base(o) == IF o.departs # None THEN o.departs ELSE o.returns

\* Mutant: an offer that departs in time arrives in time.
FitsByDeparture(o, k, l) ==
  CASE k = ArriveBy    -> Base(o) # None
                          /\ Base(o) \in (kickoff - OutWindow(l)[1])..(kickoff - OutWindow(l)[2])
    [] k = DepartAfter -> Base(o) # None /\ Base(o) >= kickoff + RetWindow(l)
    [] OTHER           -> TRUE

\* passesTimeConstraints under the window of attempt l of slot k.
Fits(o, k, l) ==
  CASE k = ArriveBy    -> Arrival(o) # None
                          /\ Arrival(o) \in (kickoff - OutWindow(l)[1])..(kickoff - OutWindow(l)[2])
    [] k = DepartAfter -> Base(o) # None /\ Base(o) >= kickoff + RetWindow(l)
    [] OTHER           -> TRUE

\* The prices of an answer, sorted and without duplicates: a set.
ExtractPrices(answer, k, l) ==
  {o.price : o \in {o \in answer : o.price > 0 /\ Fits(o, k, l)}}
-----------------------------------------------------------------------------
(***************************************************************************)
(* findBestFare.  Prices of a slot come in ascending order, so that its    *)
(* loop looks at each slot for its cheapest price p.                       *)
(***************************************************************************)
NoFare == [min |-> None, slot |-> None, out |-> None, ret |-> None, retDate |-> None,
           roundTrip |-> None]

\* Mutant: a later slot of the same price wins.
CheaperOrSame(p, q) == q = None \/ p <= q

Cheaper(p, q) == q = None \/ p < q

BestStep(b, k, p) ==
  LET out == Slots[k].dir = "out"
  IN  [ min  |-> IF Cheaper(p, b.min) THEN p ELSE b.min,
        slot |-> IF Cheaper(p, b.min) THEN k ELSE b.slot,
        out  |-> IF out /\ Cheaper(p, b.out) THEN p ELSE b.out,
        ret  |-> IF ~out /\ Cheaper(p, b.ret) THEN p ELSE b.ret,
        retDate   |-> IF ~out /\ Cheaper(p, b.ret) THEN Slots[k].day ELSE b.retDate,
        roundTrip |-> None ]

RoundTrip(b) == IF b.out = None \/ b.ret = None THEN None ELSE b.out + b.ret
-----------------------------------------------------------------------------
NoSlot == [level |-> 1, prices |-> {}]

Init ==
  /\ kickoff \in Kickoffs
  /\ offers \in {S \in SUBSET Offers : Cardinality(S) <= MaxOffers}
  /\ pc = "search" /\ slot = 1 /\ attempt = 1
  /\ slots = <<NoSlot>>
  /\ faults = 0 /\ failedAt = {}
  /\ seen = 0 /\ best = NoFare

\* The slot is finished with s; the search goes on to the next one.
CloseSlot(s) ==
  IF slot < Len(Slots)
    THEN /\ slots' = Append([slots EXCEPT ![slot] = s], NoSlot)
         /\ slot' = slot + 1 /\ attempt' = 1
         /\ UNCHANGED pc
    ELSE /\ slots' = [slots EXCEPT ![slot] = s]
         /\ pc' = "found"
         /\ UNCHANGED <<slot, attempt>>

TryNext(s) ==
  IF attempt < Attempts(slot)
    THEN /\ slots' = [slots EXCEPT ![slot] = s]
         /\ attempt' = attempt + 1
         /\ UNCHANGED <<slot, pc>>
    ELSE CloseSlot(s)

\* A call that fails leaves what an earlier attempt found.
CallFails ==
  /\ pc = "search" /\ faults < MaxFaults
  /\ faults' = faults + 1
  /\ failedAt' = failedAt \cup {<<slot, attempt>>}
  /\ TryNext(slots[slot])
  /\ UNCHANGED <<kickoff, offers, seen, best>>

\* Mutant: the windows are tried to the last one.
GetPricesToTheEnd ==
  /\ pc = "search"
  /\ \E A \in Answers(slot) :
       TryNext([level |-> attempt, prices |-> ExtractPrices(A, slot, attempt)])
  /\ UNCHANGED <<kickoff, offers, faults, failedAt, seen, best>>

\* A call that succeeds decides the slot if prices of its answer pass the window.
GetPrices ==
  /\ pc = "search"
  /\ \E A \in Answers(slot) :
       LET prices == ExtractPrices(A, slot, attempt)
           s      == [level |-> attempt, prices |-> prices]
       IN  IF prices # {} THEN CloseSlot(s) ELSE TryNext(s)
  /\ UNCHANGED <<kickoff, offers, faults, failedAt, seen, best>>

\* The next slot of findBestFare's loop.
LookAtSlot ==
  /\ pc = "found" /\ seen < Len(slots)
  /\ LET k == seen + 1
         P == slots[k].prices
     IN  /\ seen' = k
         /\ \/ P = {} /\ UNCHANGED best
            \/ \E p \in P : (\A q \in P : p <= q) /\ best' = BestStep(best, k, p)
  /\ UNCHANGED <<kickoff, offers, pc, slot, attempt, slots, faults, failedAt>>

FindBestFare ==
  /\ pc = "found" /\ seen = Len(slots)
  /\ pc' = "done" /\ best' = [best EXCEPT !.roundTrip = RoundTrip(best)]
  /\ UNCHANGED <<kickoff, offers, slot, attempt, slots, faults, failedAt, seen>>

\* The next search, for the same match and the same offers.
Again ==
  /\ pc = "done"
  /\ pc' = "search" /\ slot' = 1 /\ attempt' = 1
  /\ slots' = <<NoSlot>>
  /\ faults' = 0 /\ failedAt' = {}
  /\ seen' = 0 /\ best' = NoFare
  /\ UNCHANGED <<kickoff, offers>>

Next == CallFails \/ GetPrices \/ LookAtSlot \/ FindBestFare \/ Again

Spec == Init /\ [][Next]_vars
-----------------------------------------------------------------------------
TypeOK ==
  /\ kickoff \in Kickoffs /\ offers \in SUBSET Offers
  /\ pc \in {"search", "found", "done"}
  /\ slot \in 1..Len(Slots) /\ attempt \in 1..Attempts(slot)
  /\ Len(slots) = slot
  /\ \A k \in 1..slot : slots[k].level \in 1..Attempts(k) /\ slots[k].prices \in SUBSET Nat
  /\ faults \in 0..MaxFaults
  /\ seen \in 0..slot /\ (pc = "done" => seen = slot)
  /\ DOMAIN best = DOMAIN NoFare
  /\ best.slot \in (1..seen) \cup {None}
  /\ {best.min, best.out, best.ret, best.roundTrip} \subseteq Nat \cup {None}

\* Offers on sale for slot k.
OnSale(k) == {o \in Listed(k) : o.price > 0}

InTime(o, k) ==
  CASE k = ArriveBy    -> Arrival(o) # None /\ Arrival(o) <= kickoff
    [] k = DepartAfter -> o.departs # None /\ o.departs >= kickoff
    [] OTHER           -> TRUE

\* Whatever window a slot of the day of the match had to widen to, a fan who takes
\* one of its fares is there by the kickoff and leaves after it.
FansSeeTheKickoff ==
  \A k \in 1..Len(slots) : \A p \in slots[k].prices :
    \E o \in OnSale(k) : o.price = p /\ (InTime(o, k) \/ o.departs = None)

\* What the defaults give for a match of the day: the last window of arrivals is
\* open from the first hour of the local day to the kickoff, the last window of
\* departures from the kickoff on.
WideWindows ==
  LET n    == Len(OutPolicy)
      ends == {NormalizeDuration(OutPolicy[n][i], OutDefaults[n][i]) : i \in 1..2}
  IN  /\ 0 \in ends
      /\ \A t \in Kickoffs : \E e \in ends : e >= t + Offset
      /\ RetWindow(Len(RetPolicy)) = 0

\* As many other offers of the day as a call asks for are no dearer: the answer
\* need not show this one, whatever the window.
Hidden(o, k) == Cardinality({x \in Listed(k) \ {o} : x.price <= o.price}) >= AskedFor

\* Windows that wide lose nothing but to the limit of the request: a slot none of
\* whose calls failed is empty only if every offer of its day that is in time is
\* hidden behind as many others as are asked for.
NothingInTimeIsLost ==
  /\ TypeOK
  /\ pc # "search" => \A k \in 1..Len(slots) :
       (\A l \in 1..Attempts(k) : <<k, l>> \notin failedAt) /\ slots[k].prices = {}
         => \A o \in OnSale(k) : InTime(o, k) => Hidden(o, k)

\* A wider window is reported only when the narrower ones whose calls succeeded had
\* no offer but hidden ones; and then with prices of offers that fit it, among them
\* that of every one that is not hidden.
NarrowestWins ==
  pc # "search" => \A k \in 1..Len(slots) : slots[k].prices # {} =>
    LET fitting(l) == {o \in OnSale(k) : Fits(o, k, l)}
        level      == slots[k].level
    IN  /\ slots[k].prices \subseteq {o.price : o \in fitting(level)}
        /\ \A o \in fitting(level) : o.price \in slots[k].prices \/ Hidden(o, k)
        /\ \A l \in 1..(level - 1) : <<k, l>> \notin failedAt =>
             \A o \in fitting(l) : Hidden(o, k)

Prices(dir) == UNION {slots[k].prices : k \in {k \in 1..Len(slots) : Slots[k].dir = dir}}

\* The summary names the cheapest fare and the earliest slot that has it. Its
\* round trip is the cheapest pair of an outbound and a return fare, and there is
\* one whenever both are on offer; the return is sold on the date named.
SummaryIsCheapest ==
  pc = "done" =>
    /\ IF Prices("out") \cup Prices("ret") = {} THEN best.min = None /\ best.slot = None
       ELSE /\ \A p \in Prices("out") \cup Prices("ret") : best.min <= p
            /\ best.min \in slots[best.slot].prices
            /\ \A k \in 1..(best.slot - 1) : best.min \notin slots[k].prices
    /\ IF Prices("out") = {} \/ Prices("ret") = {} THEN best.roundTrip = None
       ELSE /\ \A p \in Prices("out"), q \in Prices("ret") : best.roundTrip <= p + q
            /\ best.out \in Prices("out") /\ best.roundTrip = best.out + best.ret
            /\ \E k \in DepartAfter..Len(slots) :
                 best.ret \in slots[k].prices /\ best.retDate = Slots[k].day
=============================================================================
