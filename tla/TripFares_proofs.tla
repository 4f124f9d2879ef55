-------------------------- MODULE TripFares_proofs --------------------------
(***************************************************************************)
(* For any offers, kickoffs, failures and configured windows, of any       *)
(* number: what the fares of a slot are, and that a fan who takes one sees *)
(* the match.                                                              *)
(***************************************************************************)
EXTENDS TripFares, SequenceTheorems, FiniteSetTheorems, TLAPS

Found == [level : Nat, prices : SUBSET Nat]

SlotType ==
  /\ kickoff \in Kickoffs /\ offers \in SUBSET Offers
  /\ pc \in {"search", "found", "done"}
  /\ slot \in 1..6 /\ attempt \in 1..Attempts(slot)
  /\ slots \in Seq(Found) /\ Len(slots) = slot
  /\ faults \in 0..MaxFaults

\* What is on sale for slot k and passes the window of its attempt l.
Fitting(k, l) == {o.price : o \in {o \in OnSale(k) : Fits(o, k, l)}}

\* P is what a call shows of them: nothing is left out but what is hidden behind as
\* many other offers as were asked for.
Shown(P, k, l) ==
  /\ P \subseteq Fitting(k, l)
  /\ \A o \in OnSale(k) : Fits(o, k, l) => o.price \in P \/ Hidden(o, k)

\* Attempt l of slot k, unless it failed, had nothing to find but what is hidden.
Nothing(k, l) == <<k, l>> \notin failedAt => Shown({}, k, l)

\* s is what slot k may end with: what is shown of one of its windows, and none of
\* the windows before, or else nothing in any of them.
Final(s, k) ==
  /\ s.prices = {} => \A l \in 1..Attempts(k) : Nothing(k, l)
  /\ s.prices # {} => \A a \in 1..Attempts(k) : s.level = a =>
       Shown(s.prices, k, a) /\ \A l \in 1..(a - 1) : Nothing(k, l)

\* Slot k has ended that way.
Decided(k) == Final(slots[k], k)

\* The windows before the one in hand found nothing for slot k.
Tried(k) == \A l \in 1..(attempt - 1) : Nothing(k, l)

InHand(k) == pc = "search" /\ k = slot

\* The inductive invariant: the slot in hand has nothing yet, and its narrower
\* windows have been tried; the slots before it are decided.
SlotsInv ==
  /\ SlotType
  /\ \A k \in 1..slot : slots[k].level \in 1..Attempts(k)
  /\ \A k \in 1..slot : ~InHand(k) => Decided(k)
  /\ \A k \in 1..slot : InHand(k) => slots[k].prices = {} /\ Tried(k)
-----------------------------------------------------------------------------
(* Windows *)

LEMMA SixSlots ==
  /\ Len(Slots) = 6 /\ ArriveBy = 3 /\ DepartAfter = 4
  /\ \A k \in 1..6 : Attempts(k) \in Nat \ {0}
BY PolicyAssumption DEF Slots, ArriveBy, DepartAfter, Attempts

LEMMA Windows ==
  /\ \A l \in 1..Attempts(ArriveBy) : OutWindow(l)[1] \in Nat /\ OutWindow(l)[2] \in Nat
  /\ \A l \in 1..Attempts(DepartAfter) : RetWindow(l) \in Nat
<1>1. ASSUME NEW l \in 1..Attempts(ArriveBy)
      PROVE  OutWindow(l)[1] \in Nat /\ OutWindow(l)[2] \in Nat
  <2>1. l \in 1..Len(OutPolicy) /\ l \in 1..Len(OutDefaults)
    BY PolicyAssumption, SixSlots DEF Attempts
  <2>2. OutPolicy[l] \in Int \X Int /\ OutDefaults[l] \in Nat \X Nat
    BY <2>1, PolicyAssumption, ElementOfSeq
  <2>3. /\ OutPolicy[l][1] \in Int /\ OutPolicy[l][2] \in Int
        /\ OutDefaults[l][1] \in Nat /\ OutDefaults[l][2] \in Nat
    BY <2>2
  <2>4. QED
    BY <2>3 DEF OutWindow, Normalize, NormalizeDuration
<1>2. ASSUME NEW l \in 1..Attempts(DepartAfter) PROVE RetWindow(l) \in Nat
  <2>1. l \in 1..Len(RetPolicy) /\ l \in 1..Len(RetDefaults)
    BY PolicyAssumption, SixSlots DEF Attempts
  <2>2. RetPolicy[l] \in Int /\ RetDefaults[l] \in Nat
    BY <2>1, PolicyAssumption, ElementOfSeq
  <2>3. QED
    BY <2>2 DEF RetWindow, NormalizeDuration
<1>3. QED
  BY <1>1, <1>2

\* A window, however it was configured, ends at the kickoff or before it, and
\* begins there or after it on the way back.
LEMMA FittingIsInTime ==
  ASSUME SlotType, NEW k \in 1..6, NEW l \in 1..Attempts(k), NEW o \in OnSale(k), Fits(o, k, l)
  PROVE  InTime(o, k) \/ o.departs = None
<1>1. o \in Offers /\ kickoff \in Int
  BY DayAssumption DEF SlotType, OnSale, Listed
<1>2. /\ o.departs \in Int \cup {None} /\ o.duration \in Int
      /\ None \notin Int
  BY <1>1, OffersAssumption
<1>3. CASE k = ArriveBy
  <2>1. /\ Arrival(o) # None
        /\ Arrival(o) \in (kickoff - OutWindow(l)[1])..(kickoff - OutWindow(l)[2])
    BY <1>3, SixSlots DEF Fits
  <2>2. OutWindow(l)[1] \in Nat /\ OutWindow(l)[2] \in Nat
    BY <1>3, Windows
  <2>3. Arrival(o) \in Int
    BY <1>2, <2>1 DEF Arrival
  <2>4. Arrival(o) <= kickoff
    BY <1>1, <2>1, <2>2, <2>3
  <2>5. QED
    BY <1>3, <2>1, <2>4, SixSlots DEF InTime
<1>4. CASE k = DepartAfter
  <2>1. Base(o) # None /\ Base(o) >= kickoff + RetWindow(l)
    BY <1>4, SixSlots DEF Fits
  <2>2. RetWindow(l) \in Nat
    BY <1>4, Windows
  <2>3. o.departs # None => o.departs >= kickoff
    BY <1>1, <1>2, <2>1, <2>2 DEF Base
  <2>4. QED
    BY <1>4, <2>3, SixSlots DEF InTime
<1>5. CASE k # ArriveBy /\ k # DepartAfter
  BY <1>5 DEF InTime
<1>6. QED
  BY <1>3, <1>4, <1>5
-----------------------------------------------------------------------------
(* Steps of the search *)

\* What is hidden depends on the offers only.
LEMMA HiddenStays ==
  ASSUME UNCHANGED offers, NEW k, NEW o
  PROVE  Hidden(o, k)' <=> Hidden(o, k)
<1>1. Listed(k)' = Listed(k)
  BY DEF Listed
<1>2. QED
  BY <1>1 DEF Hidden, AskedFor

\* Nothing but failures is added to what the attempts have shown.
LEMMA ShownStays ==
  ASSUME UNCHANGED <<kickoff, offers>>, failedAt \subseteq failedAt', NEW k, NEW l
  PROVE  /\ \A P : Shown(P, k, l)' <=> Shown(P, k, l)
         /\ Nothing(k, l) => Nothing(k, l)'
<1>1. OnSale(k)' = OnSale(k)
  BY DEF OnSale, Listed
<1>2. \A o : Fits(o, k, l)' <=> Fits(o, k, l)
  BY DEF Fits
<1>3. \A o : Hidden(o, k)' <=> Hidden(o, k)
  BY HiddenStays
<1>4. Fitting(k, l)' = Fitting(k, l)
  BY <1>1, <1>2 DEF Fitting
<1>5. ASSUME NEW P PROVE Shown(P, k, l)' <=> Shown(P, k, l)
  BY <1>1, <1>2, <1>3, <1>4 DEF Shown
<1>6. QED
  BY <1>5 DEF Nothing

LEMMA FinalStays ==
  ASSUME UNCHANGED <<kickoff, offers>>, failedAt \subseteq failedAt', NEW k, NEW s, Final(s, k)
  PROVE  Final(s, k)'
<1>1. \A P, l : Shown(P, k, l)' <=> Shown(P, k, l)
  BY ShownStays
<1>2. \A l : Nothing(k, l) => Nothing(k, l)'
  BY ShownStays
<1>3. CASE s.prices = {}
  BY <1>2, <1>3 DEF Final
<1>4. CASE s.prices # {}
  <2>1. ASSUME NEW a \in 1..Attempts(k), s.level = a
        PROVE  Shown(s.prices, k, a)' /\ \A l \in 1..(a - 1) : Nothing(k, l)'
    BY <1>1, <1>2, <1>4, <2>1 DEF Final
  <2>2. QED
    BY <1>4, <2>1 DEF Final
<1>5. QED
  BY <1>3, <1>4

LEMMA FinalDecides ==
  ASSUME NEW k, NEW s, slots'[k] = s, Final(s, k)'
  PROVE  Decided(k)'
BY DEF Decided, Final

LEMMA DecidedStays ==
  ASSUME UNCHANGED <<kickoff, offers>>, failedAt \subseteq failedAt', NEW k,
         slots'[k] = slots[k], Decided(k)
  PROVE  Decided(k)'
<1>1. PICK s : s = slots[k]
  OBVIOUS
<1>2. Final(s, k)
  BY <1>1 DEF Decided
<1>3. QED
  BY <1>1, <1>2, FinalStays, FinalDecides

\* What the facts of a search say of the slot in hand.
LEMMA SlotInHand ==
  ASSUME SlotsInv, pc = "search", NEW k, k = slot
  PROVE  /\ k \in 1..6 /\ k \in Nat /\ slots \in Seq(Found) /\ Len(slots) = k
         /\ slots[k] \in Found /\ attempt \in 1..Attempts(k) /\ Attempts(k) \in Nat
         /\ slots[k].prices = {} /\ Tried(k)
         /\ \A i \in 1..k : slots[i].level \in 1..Attempts(i)
         /\ \A i \in 1..(k - 1) : Decided(i)
<1>1. SlotType /\ k \in 1..6 /\ slots \in Seq(Found) /\ Len(slots) = k
  BY DEF SlotsInv, SlotType
<1>2. slots[k] \in Found
  BY <1>1
<1>3. attempt \in 1..Attempts(k) /\ Attempts(k) \in Nat
  BY <1>1, SixSlots DEF SlotType
<1>4. slots[k].prices = {} /\ Tried(k)
  BY <1>1 DEF SlotsInv, InHand
<1>5. \A i \in 1..(k - 1) : Decided(i)
  BY <1>1 DEF SlotsInv, InHand
<1>6. \A i \in 1..k : slots[i].level \in 1..Attempts(i)
  BY DEF SlotsInv
<1>7. QED
  BY <1>1, <1>2, <1>3, <1>4, <1>5, <1>6

\* The search goes on to the next slot, or is over, with s for slot k.
LEMMA CloseSlotKeeps ==
  ASSUME SlotsInv, pc = "search", NEW k, k = slot, NEW s \in Found, s.level \in 1..Attempts(k),
         Final(s, k)', CloseSlot(s), faults' \in 0..MaxFaults,
         UNCHANGED <<kickoff, offers>>, failedAt \subseteq failedAt'
  PROVE  SlotsInv'
<1>1. /\ k \in 1..6 /\ k \in Nat /\ slots \in Seq(Found) /\ Len(slots) = k
      /\ attempt \in 1..Attempts(k) /\ \A i \in 1..(k - 1) : Decided(i)
      /\ \A i \in 1..k : slots[i].level \in 1..Attempts(i)
  BY SlotInHand
<1>2. /\ [slots EXCEPT ![k] = s] \in Seq(Found) /\ Len([slots EXCEPT ![k] = s]) = k
      /\ \A i \in 1..k : [slots EXCEPT ![k] = s][i] = IF i = k THEN s ELSE slots[i]
  BY <1>1
<1>3. kickoff' \in Kickoffs /\ offers' \in SUBSET Offers
  BY DEF SlotsInv, SlotType
<1>4. ASSUME NEW i \in 1..k, slots'[i] = IF i = k THEN s ELSE slots[i]
      PROVE  Decided(i)' /\ slots'[i].level \in 1..Attempts(i)
  <2>1. CASE i = k
    BY <1>4, <2>1, FinalDecides
  <2>2. CASE i # k
    BY <1>1, <1>4, <2>2, DecidedStays
  <2>3. QED
    BY <2>1, <2>2
<1>5. CASE /\ k < 6 /\ slots' = Append([slots EXCEPT ![k] = s], NoSlot)
           /\ slot' = k + 1 /\ attempt' = 1 /\ UNCHANGED pc
  <2>1. NoSlot \in Found /\ NoSlot.prices = {} /\ NoSlot.level = 1
    BY DEF NoSlot, Found
  <2>2. /\ slots' \in Seq(Found) /\ Len(slots') = k + 1 /\ slots'[k + 1] = NoSlot
        /\ \A i \in 1..k : slots'[i] = IF i = k THEN s ELSE slots[i]
    BY <1>1, <1>2, <1>5, <2>1
  <2>3. k + 1 \in 1..6 /\ slot' \in 1..6 /\ 1 \in 1..Attempts(k + 1)
    <3>1. k + 1 \in 1..6
      BY <1>1, <1>5
    <3>2. QED
      BY <1>5, <3>1, SixSlots
  <2>4. SlotType'
    BY <1>3, <1>5, <2>2, <2>3 DEF SlotType
  <2>5. \A i \in 1..(k + 1) : i \in 1..k \/ i = k + 1
    BY <1>1
  <2>6. \A i \in 1..slot' : slots'[i].level \in 1..Attempts(i)
    BY <1>4, <1>5, <2>1, <2>2, <2>3, <2>5
  <2>7. \A i \in 1..slot' : i # slot' => Decided(i)'
    BY <1>4, <1>5, <2>2, <2>5
  <2>8. slots'[slot'].prices = {} /\ \A i : Tried(i)'
    BY <1>5, <2>1, <2>2 DEF Tried
  <2>9. QED
    BY <1>5, <2>4, <2>6, <2>7, <2>8 DEF SlotsInv, InHand
<1>6. CASE slots' = [slots EXCEPT ![k] = s] /\ pc' = "found" /\ UNCHANGED <<slot, attempt>>
  <2>1. SlotType'
    BY <1>1, <1>2, <1>3, <1>6 DEF SlotType
  <2>2. \A i \in 1..slot' : Decided(i)' /\ slots'[i].level \in 1..Attempts(i)
    BY <1>2, <1>4, <1>6
  <2>3. QED
    BY <1>6, <2>1, <2>2 DEF SlotsInv, InHand
<1>7. QED
  BY <1>5, <1>6, SixSlots DEF CloseSlot

\* An attempt that leaves the slot without prices.
LEMMA TryNextKeeps ==
  ASSUME SlotsInv, pc = "search", NEW k, k = slot, NEW a, a = attempt, NEW s \in Found,
         s.level \in 1..Attempts(k), s.prices = {}, TryNext(s), faults' \in 0..MaxFaults,
         UNCHANGED <<kickoff, offers>>, failedAt \subseteq failedAt', Nothing(k, a)'
  PROVE  SlotsInv'
<1>1. /\ k \in 1..6 /\ k \in Nat /\ slots \in Seq(Found) /\ Len(slots) = k
      /\ a \in 1..Attempts(k) /\ Attempts(k) \in Nat
      /\ Tried(k) /\ \A i \in 1..(k - 1) : Decided(i)
      /\ \A i \in 1..k : slots[i].level \in 1..Attempts(i)
  BY SlotInHand
<1>2. ASSUME NEW l \in 1..a PROVE Nothing(k, l)'
  <2>1. CASE l = a
    BY <2>1
  <2>2. CASE l # a
    <3>1. Nothing(k, l)
      BY <1>1, <2>2 DEF Tried
    <3>2. QED
      BY <3>1, ShownStays
  <2>3. QED
    BY <2>1, <2>2
<1>3. CASE /\ a < Attempts(k) /\ slots' = [slots EXCEPT ![k] = s]
           /\ attempt' = a + 1 /\ UNCHANGED <<slot, pc>>
  <2>1. /\ slots' \in Seq(Found) /\ Len(slots') = k
        /\ \A i \in 1..k : slots'[i] = IF i = k THEN s ELSE slots[i]
    BY <1>1, <1>3
  <2>2. a + 1 \in 1..Attempts(k)
    BY <1>1, <1>3
  <2>3. kickoff' \in Kickoffs /\ offers' \in SUBSET Offers
    BY DEF SlotsInv, SlotType
  <2>4. SlotType'
    BY <1>1, <1>3, <2>1, <2>2, <2>3 DEF SlotType
  <2>5. ASSUME NEW i \in 1..k, i # k PROVE Decided(i)'
    BY <1>1, <2>1, <2>5, DecidedStays
  <2>6. \A i \in 1..k : slots'[i].level \in 1..Attempts(i)
    BY <1>1, <2>1
  <2>7. Tried(k)'
    BY <1>1, <1>2, <1>3 DEF Tried
  <2>8. slots'[k].prices = {} /\ slot' = k
    BY <1>1, <1>3, <2>1
  <2>9. QED
    BY <1>3, <2>4, <2>5, <2>6, <2>7, <2>8 DEF SlotsInv, InHand
<1>4. CASE a >= Attempts(k) /\ CloseSlot(s)
  <2>1. a = Attempts(k)
    BY <1>1, <1>4
  <2>2. Final(s, k)'
    BY <1>2, <2>1 DEF Final
  <2>3. QED
    BY <1>4, <2>2, CloseSlotKeeps
<1>5. QED
  BY <1>1, <1>3, <1>4 DEF TryNext

LEMMA CallFailsKeeps == ASSUME SlotsInv, CallFails PROVE SlotsInv'
<1>1. PICK k, a, s : k = slot /\ a = attempt /\ s = slots[k]
  OBVIOUS
<1>2. /\ pc = "search" /\ failedAt' = failedAt \cup {<<k, a>>}
      /\ TryNext(s) /\ UNCHANGED <<kickoff, offers>>
  BY <1>1 DEF CallFails
<1>3. s \in Found /\ s.prices = {} /\ s.level \in 1..Attempts(k)
  BY <1>1, <1>2, SlotInHand
<1>4. Nothing(k, a)'
  BY <1>2 DEF Nothing
<1>5. faults' \in 0..MaxFaults
  BY BoundsAssumption DEF CallFails, SlotsInv, SlotType
<1>6. QED
  BY <1>1, <1>2, <1>3, <1>4, <1>5, TryNextKeeps

\* An offer that is cut is hidden by those that are not.
LEMMA CutIsHidden ==
  ASSUME offers \in SUBSET Offers, NEW k, NEW A \in Answers(k), NEW o \in Listed(k) \ A
  PROVE  Hidden(o, k)
<1> DEFINE S == {x \in Listed(k) \ {o} : x.price <= o.price}
<1>1. A \subseteq Listed(k) /\ Cardinality(A) = AskedFor /\ \A x \in A : x.price <= o.price
  BY DEF Answers
<1>2. A \in SUBSET S
  BY <1>1
<1>3. IsFiniteSet(S)
  <2>1. S \in SUBSET Offers
    BY DEF Listed
  <2>2. QED
    BY <2>1, OffersAssumption, FS_Subset
<1>4. Cardinality(A) <= Cardinality(S) /\ Cardinality(S) \in Nat
  BY <1>2, <1>3, FS_Subset, FS_CardinalityType
<1>5. AskedFor \in Nat
  BY BoundsAssumption DEF AskedFor
<1>6. Cardinality(S) >= AskedFor
  BY <1>1, <1>4, <1>5
<1>7. QED
  BY <1>6 DEF Hidden

\* What the window passes of an answer is shown.
LEMMA AnswerShows ==
  ASSUME offers \in SUBSET Offers, NEW k, NEW l, NEW A \in Answers(k)
  PROVE  Shown(ExtractPrices(A, k, l), k, l)
<1>1. A \subseteq Listed(k)
  BY DEF Answers
<1>2. ExtractPrices(A, k, l) \subseteq Fitting(k, l)
  BY <1>1 DEF ExtractPrices, Fitting, OnSale
<1>3. ASSUME NEW o \in OnSale(k), Fits(o, k, l)
      PROVE  o.price \in ExtractPrices(A, k, l) \/ Hidden(o, k)
  <2>1. o \in Listed(k) /\ o.price > 0
    BY DEF OnSale
  <2>2. CASE o \in A
    BY <1>3, <2>1, <2>2 DEF ExtractPrices
  <2>3. CASE o \notin A
    BY <2>1, <2>3, CutIsHidden
  <2>4. QED
    BY <2>2, <2>3
<1>4. QED
  BY <1>2, <1>3 DEF Shown

LEMMA GetPricesKeeps == ASSUME SlotsInv, GetPrices PROVE SlotsInv'
<1>0. PICK A \in Answers(slot) :
        LET s == [level |-> attempt, prices |-> ExtractPrices(A, slot, attempt)]
        IN  IF ExtractPrices(A, slot, attempt) # {} THEN CloseSlot(s) ELSE TryNext(s)
  BY DEF GetPrices
<1>1. PICK k, a, P, s : /\ k = slot /\ a = attempt /\ P = ExtractPrices(A, k, a)
                        /\ s = [level |-> a, prices |-> P]
  OBVIOUS
<1>2. /\ pc = "search" /\ UNCHANGED <<kickoff, offers, failedAt>> /\ faults' \in 0..MaxFaults
      /\ IF P # {} THEN CloseSlot(s) ELSE TryNext(s)
  BY <1>0, <1>1 DEF GetPrices, SlotsInv, SlotType
<1>3. /\ k \in 1..6 /\ a \in 1..Attempts(k) /\ Attempts(k) \in Nat /\ Tried(k)
      /\ offers \in SUBSET Offers
  BY <1>1, <1>2, SlotInHand DEF SlotsInv, SlotType
<1>4. Shown(P, k, a)
  BY <1>1, <1>3, AnswerShows
<1>5. P \in SUBSET Nat
  <2>1. \A o \in A : o.price \in Int
    BY <1>3, OffersAssumption DEF Answers, Listed
  <2>2. QED
    BY <1>1, <2>1 DEF ExtractPrices
<1>6. s \in Found /\ s.level = a /\ s.prices = P
  BY <1>1, <1>3, <1>5 DEF Found
<1>7. CASE P # {}
  <2>1. \A l \in 1..(a - 1) : Nothing(k, l)
    BY <1>1, <1>3 DEF Tried
  <2>2. Final(s, k)
    BY <1>3, <1>4, <1>6, <1>7, <2>1 DEF Final
  <2>3. Final(s, k)'
    BY <1>2, <2>2, FinalStays
  <2>4. QED
    BY <1>1, <1>2, <1>3, <1>6, <1>7, <2>3, CloseSlotKeeps
<1>8. CASE P = {}
  <2>1. Nothing(k, a)
    BY <1>4, <1>8 DEF Nothing
  <2>2. Nothing(k, a)'
    BY <1>2, <2>1, ShownStays
  <2>3. QED
    BY <1>1, <1>2, <1>3, <1>6, <1>8, <2>2, TryNextKeeps
<1>9. QED
  BY <1>7, <1>8

LEMMA NoSlotFacts ==
  /\ <<NoSlot>> \in Seq(Found) /\ Len(<<NoSlot>>) = 1 /\ <<NoSlot>>[1] = NoSlot
  /\ NoSlot.prices = {} /\ NoSlot.level = 1 /\ 1 \in 1..Attempts(1)
BY SixSlots DEF NoSlot, Found

LEMMA AgainKeeps == ASSUME SlotsInv, Again PROVE SlotsInv'
<1>1. /\ kickoff' \in Kickoffs /\ offers' \in SUBSET Offers /\ pc' = "search"
      /\ slot' = 1 /\ attempt' = 1 /\ slots' = <<NoSlot>> /\ faults' \in 0..MaxFaults
  BY BoundsAssumption DEF Again, SlotsInv, SlotType
<1>2. SlotType'
  BY <1>1, NoSlotFacts DEF SlotType
<1>3. \A k \in 1..slot' : k = 1
  BY <1>1
<1>4. \A k : Tried(k)'
  BY <1>1 DEF Tried
<1>5. QED
  BY <1>1, <1>2, <1>3, <1>4, NoSlotFacts DEF SlotsInv, InHand

LEMMA InitSlots == Init => SlotsInv
<1>1. SUFFICES ASSUME Init PROVE SlotsInv
  OBVIOUS
<1>2. /\ kickoff \in Kickoffs /\ offers \in SUBSET Offers /\ pc = "search"
      /\ slot = 1 /\ attempt = 1 /\ slots = <<NoSlot>> /\ faults \in 0..MaxFaults
  BY <1>1, BoundsAssumption DEF Init
<1>3. SlotType
  BY <1>2, NoSlotFacts DEF SlotType
<1>4. \A k \in 1..slot : k = 1
  BY <1>2
<1>5. \A k : Tried(k)
  BY <1>2 DEF Tried
<1>6. QED
  BY <1>2, <1>3, <1>4, <1>5, NoSlotFacts DEF SlotsInv, InHand

\* For any number of windows, any offers and failures.
THEOREM SlotsInvariant == Spec => []SlotsInv
<1>1. SlotsInv /\ [Next]_vars => SlotsInv'
  <2>1. SUFFICES ASSUME SlotsInv, [Next]_vars PROVE SlotsInv'
    OBVIOUS
  <2>2. CASE LookAtSlot \/ FindBestFare \/ UNCHANGED vars
    <3>1. /\ UNCHANGED <<kickoff, offers, slot, attempt, slots, faults, failedAt>>
          /\ pc' \in {"search", "found", "done"} /\ (pc' = "search" <=> pc = "search")
      BY <2>1, <2>2 DEF LookAtSlot, FindBestFare, vars, SlotsInv, SlotType
    <3>2. SlotType'
      BY <2>1, <3>1 DEF SlotsInv, SlotType
    <3>3. ASSUME NEW k \in 1..slot, Decided(k) PROVE Decided(k)'
      BY <3>1, <3>3, DecidedStays
    <3>4. ASSUME NEW k, Tried(k) PROVE Tried(k)'
      <4>1. ASSUME NEW l, Nothing(k, l) PROVE Nothing(k, l)'
        BY <3>1, <4>1, ShownStays
      <4>2. QED
        BY <3>1, <3>4, <4>1 DEF Tried
    <3>5. QED
      BY <2>1, <3>1, <3>2, <3>3, <3>4 DEF SlotsInv, InHand
  <2>3. QED
    BY <2>1, <2>2, CallFailsKeeps, GetPricesKeeps, AgainKeeps DEF Next
<1>2. QED
  BY <1>1, InitSlots, PTL DEF Spec

\* A slot with prices is decided.
LEMMA PricedSlot ==
  ASSUME SlotsInv, NEW k \in 1..slot, slots[k].prices # {}
  PROVE  /\ slots[k].level \in 1..Attempts(k)
         /\ Shown(slots[k].prices, k, slots[k].level)
         /\ \A l \in 1..(slots[k].level - 1) : Nothing(k, l)
<1>1. slots[k].level \in 1..Attempts(k) /\ Decided(k)
  BY DEF SlotsInv
<1>2. QED
  BY <1>1 DEF Decided, Final

\* Whatever windows are configured, none is so wide that a fan who takes one of
\* its fares misses the kickoff.
THEOREM FaresAreInTime == Spec => []FansSeeTheKickoff
<1>1. SlotsInv => FansSeeTheKickoff
  <2>1. SUFFICES ASSUME SlotsInv, NEW k \in 1..Len(slots), NEW p \in slots[k].prices
                 PROVE  \E o \in OnSale(k) : o.price = p /\ (InTime(o, k) \/ o.departs = None)
    BY DEF FansSeeTheKickoff
  <2>2. SlotType /\ k \in 1..slot /\ k \in 1..6
    BY <2>1 DEF SlotsInv, SlotType
  <2>3. slots[k].level \in 1..Attempts(k) /\ p \in Fitting(k, slots[k].level)
    BY <2>1, <2>2, PricedSlot DEF Shown
  <2>4. PICK o \in OnSale(k) : o.price = p /\ Fits(o, k, slots[k].level)
    BY <2>3 DEF Fitting
  <2>5. QED
    BY <2>2, <2>3, <2>4, FittingIsInTime
<1>2. QED
  BY <1>1, SlotsInvariant, PTL

\* A wider window is reported only when the narrower ones that could be asked had
\* no offer but hidden ones, and with nothing left out but those, for any number of
\* windows and any limit.
THEOREM NarrowestWindowWins == Spec => []NarrowestWins
<1>1. SlotsInv => NarrowestWins
  <2>1. SUFFICES ASSUME SlotsInv, NEW k \in 1..Len(slots), slots[k].prices # {}
        PROVE  /\ Shown(slots[k].prices, k, slots[k].level)
               /\ \A l \in 1..(slots[k].level - 1) : Nothing(k, l)
    BY DEF NarrowestWins, Shown, Fitting, Nothing
  <2>2. k \in 1..slot
    BY <2>1 DEF SlotsInv, SlotType
  <2>3. QED
    BY <2>1, <2>2, PricedSlot
<1>2. QED
  BY <1>1, SlotsInvariant, PTL
-----------------------------------------------------------------------------
(* The summary *)

Both == {"out", "ret"}

\* The prices that the first n slots have in the directions D.
PricesOf(n, D) ==
  {p \in Nat : \E k \in 1..n : Slots[k].dir \in D /\ p \in slots[k].prices}

IsLeast(b, S) == IF S = {} THEN b = None ELSE b \in S /\ \A p \in S : b <= p

\* b sums up the first n slots.
SumsUp(b, n) ==
  /\ IsLeast(b.min, PricesOf(n, Both))
  /\ IF b.min = None THEN b.slot = None
     ELSE /\ b.slot \in 1..n /\ b.min \in slots[b.slot].prices
          /\ \A k \in 1..n : k < b.slot => b.min \notin slots[k].prices
  /\ IsLeast(b.out, PricesOf(n, {"out"}))
  /\ IsLeast(b.ret, PricesOf(n, {"ret"}))
  /\ b.ret # None =>
       \E k \in 1..n : /\ Slots[k].dir = "ret" /\ b.ret \in slots[k].prices
                       /\ b.retDate = Slots[k].day

Fares == [min : Nat \cup {None}, slot : (1..6) \cup {None}, out : Nat \cup {None},
          ret : Nat \cup {None}, retDate : Int \cup {None}, roundTrip : Nat \cup {None}]

\* The inductive invariant of findBestFare's loop.
BestInv ==
  /\ best \in Fares
  /\ pc # "search" => slot = 6
  /\ pc = "search" => seen = 0 /\ best = NoFare
  /\ seen \in 0..slot /\ SumsUp(best, seen)
  /\ pc = "found" => best.roundTrip = None
  /\ pc = "done" => seen = slot /\ best.roundTrip = RoundTrip(best)

LEMMA Directions ==
  \A k \in 1..6 : Slots[k].dir = (IF k < 4 THEN "out" ELSE "ret") /\ Slots[k].day \in Int
BY DEF Slots

LEMMA LeastOfMore ==
  ASSUME NEW S \in SUBSET Nat, NEW P \in SUBSET Nat, NEW p \in P, \A q \in P : p <= q,
         NEW b, IsLeast(b, S)
  PROVE  IsLeast(IF Cheaper(p, b) THEN p ELSE b, S \cup P)
<1>1. None \notin Nat
  BY OffersAssumption
<1>2. CASE S = {}
  BY <1>1, <1>2 DEF IsLeast, Cheaper
<1>3. CASE S # {}
  <2>1. b \in S /\ b \in Nat /\ p \in Nat /\ b # None /\ \A q \in S : b <= q
    BY <1>1, <1>3 DEF IsLeast
  <2>2. CASE p < b
    <3>1. \A q \in S \cup P : p <= q
      BY <2>1, <2>2
    <3>2. QED
      BY <1>3, <2>1, <2>2, <3>1 DEF IsLeast, Cheaper
  <2>3. CASE ~(p < b)
    <3>1. \A q \in S \cup P : b <= q
      BY <2>1, <2>3
    <3>2. QED
      BY <1>3, <2>1, <2>3, <3>1 DEF IsLeast, Cheaper
  <2>4. QED
    BY <2>2, <2>3
<1>4. QED
  BY <1>2, <1>3

LEMMA PricesOfOneMore ==
  ASSUME NEW n \in Nat, NEW D, slots[n + 1].prices \in SUBSET Nat
  PROVE  PricesOf(n + 1, D) = IF Slots[n + 1].dir \in D
                                THEN PricesOf(n, D) \cup slots[n + 1].prices ELSE PricesOf(n, D)
<1>1. \A k : k \in 1..(n + 1) <=> k \in 1..n \/ k = n + 1
  OBVIOUS
<1>2. QED
  BY <1>1 DEF PricesOf

LEMMA NoFareSumsUp == SumsUp(NoFare, 0) /\ SumsUp(NoFare, 0)' /\ NoFare \in Fares
<1>1. \A D : PricesOf(0, D) = {}
  BY DEF PricesOf
<1>2. \A D : PricesOf(0, D)' = {}
  BY DEF PricesOf
<1>3. NoFare \in Fares
  BY DEF NoFare, Fares
<1>4. QED
  BY <1>1, <1>2, <1>3 DEF SumsUp, IsLeast, NoFare

\* One more slot, with the cheapest of its prices.
LEMMA BestStepSumsUp ==
  ASSUME NEW n \in 0..5, NEW b \in Fares, SumsUp(b, n), \A k \in 1..6 : k <= n + 1 =>
           slots[k].prices \in SUBSET Nat,
         NEW p \in slots[n + 1].prices, \A q \in slots[n + 1].prices : p <= q
  PROVE  LET c == BestStep(b, n + 1, p)
         IN  SumsUp(c, n + 1) /\ c \in Fares /\ c.roundTrip = None
<1> DEFINE k == n + 1
           P == slots[k].prices
           c == BestStep(b, k, p)
           out == Slots[k].dir = "out"
<1>1. /\ k \in 1..6 /\ P \in SUBSET Nat /\ p \in Nat /\ None \notin Int
      /\ Slots[k].day \in Int /\ Slots[k].dir \in Both
  BY OffersAssumption, Directions DEF Both
<1>2. /\ c.min = (IF Cheaper(p, b.min) THEN p ELSE b.min)
      /\ c.slot = (IF Cheaper(p, b.min) THEN k ELSE b.slot)
      /\ c.out = (IF out /\ Cheaper(p, b.out) THEN p ELSE b.out)
      /\ c.ret = (IF ~out /\ Cheaper(p, b.ret) THEN p ELSE b.ret)
      /\ c.retDate = (IF ~out /\ Cheaper(p, b.ret) THEN Slots[k].day ELSE b.retDate)
      /\ c.roundTrip = None
  BY DEF BestStep, Fares
<1>3. c \in Fares
  BY <1>1 DEF BestStep, Fares
<1>4. ASSUME NEW D
      PROVE  PricesOf(k, D) = IF Slots[k].dir \in D THEN PricesOf(n, D) \cup P ELSE PricesOf(n, D)
  <2>1. n \in Nat
    OBVIOUS
  <2>2. QED
    BY <1>1, <2>1, PricesOfOneMore
<1>5. \A D : PricesOf(n, D) \in SUBSET Nat
  BY DEF PricesOf
<1> HIDE DEF c
<1>6. IsLeast(c.min, PricesOf(k, Both))
  <2>1. IsLeast(b.min, PricesOf(n, Both))
    BY DEF SumsUp
  <2>2. IsLeast(IF Cheaper(p, b.min) THEN p ELSE b.min, PricesOf(n, Both) \cup P)
    BY <1>1, <1>5, <2>1, LeastOfMore
  <2>3. PricesOf(k, Both) = PricesOf(n, Both) \cup P
    BY <1>1, <1>4
  <2>4. QED
    BY <1>2, <2>2, <2>3
<1>7. IsLeast(c.out, PricesOf(k, {"out"}))
  <2>1. IsLeast(b.out, PricesOf(n, {"out"}))
    BY DEF SumsUp
  <2>2. CASE out
    <3>1. IsLeast(IF Cheaper(p, b.out) THEN p ELSE b.out, PricesOf(n, {"out"}) \cup P)
      BY <1>1, <1>5, <2>1, LeastOfMore
    <3>2. PricesOf(k, {"out"}) = PricesOf(n, {"out"}) \cup P
      BY <1>4, <2>2
    <3>3. QED
      BY <1>2, <2>2, <3>1, <3>2
  <2>3. CASE ~out
    BY <1>2, <1>4, <2>1, <2>3
  <2>4. QED
    BY <2>2, <2>3
<1>8. IsLeast(c.ret, PricesOf(k, {"ret"}))
  <2>1. IsLeast(b.ret, PricesOf(n, {"ret"}))
    BY DEF SumsUp
  <2>2. CASE ~out
    <3>1. Slots[k].dir = "ret"
      BY <1>1, <2>2 DEF Both
    <3>2. IsLeast(IF Cheaper(p, b.ret) THEN p ELSE b.ret, PricesOf(n, {"ret"}) \cup P)
      BY <1>1, <1>5, <2>1, LeastOfMore
    <3>3. PricesOf(k, {"ret"}) = PricesOf(n, {"ret"}) \cup P
      BY <1>4, <3>1
    <3>4. QED
      BY <1>2, <2>2, <3>2, <3>3
  <2>3. CASE out
    BY <1>2, <1>4, <2>1, <2>3
  <2>4. QED
    BY <2>2, <2>3
<1>9. IF c.min = None THEN c.slot = None
      ELSE /\ c.slot \in 1..k /\ c.min \in slots[c.slot].prices
           /\ \A i \in 1..k : i < c.slot => c.min \notin slots[i].prices
  <2>1. CASE Cheaper(p, b.min)
    <3>1. c.min = p /\ c.slot = k /\ p # None
      BY <1>1, <1>2, <2>1
    <3>2. ASSUME NEW i \in 1..k, i < k PROVE p \notin slots[i].prices
      <4>1. i \in 1..n
        BY <3>2
      <4>2. Slots[i].dir \in Both
        BY <1>1, <4>1, Directions DEF Both
      <4>3. p \in slots[i].prices => p \in PricesOf(n, Both)
        BY <1>1, <4>1, <4>2 DEF PricesOf
      <4>4. p \in PricesOf(n, Both) => b.min <= p /\ b.min # None
        <5>1. IsLeast(b.min, PricesOf(n, Both))
          BY DEF SumsUp
        <5>2. QED
          BY <1>1, <1>5, <5>1 DEF IsLeast
      <4>5. b.min # None => b.min \in Nat /\ p < b.min
        BY <2>1 DEF Fares, Cheaper
      <4>6. QED
        BY <1>1, <4>3, <4>4, <4>5
    <3>3. QED
      BY <1>1, <3>1, <3>2
  <2>2. CASE ~Cheaper(p, b.min)
    <3>1. c.min = b.min /\ c.slot = b.slot /\ b.min # None
      BY <1>2, <2>2 DEF Cheaper
    <3>2. /\ b.slot \in 1..n /\ b.min \in slots[b.slot].prices
          /\ \A i \in 1..n : i < b.slot => b.min \notin slots[i].prices
      BY <3>1 DEF SumsUp
    <3>3. QED
      BY <3>1, <3>2
  <2>3. QED
    BY <2>1, <2>2
<1>10. c.ret # None => \E i \in 1..k : /\ Slots[i].dir = "ret" /\ c.ret \in slots[i].prices
                                       /\ c.retDate = Slots[i].day
  <2>1. CASE ~out /\ Cheaper(p, b.ret)
    <3>1. c.ret = p /\ c.retDate = Slots[k].day /\ Slots[k].dir = "ret" /\ k \in 1..k
      BY <1>1, <1>2, <2>1 DEF Both
    <3>2. QED
      BY <3>1
  <2>2. CASE ~(~out /\ Cheaper(p, b.ret))
    <3>1. c.ret = b.ret /\ c.retDate = b.retDate
      BY <1>2, <2>2
    <3>2. QED
      BY <3>1 DEF SumsUp
  <2>3. QED
    BY <2>1, <2>2
<1>11. SumsUp(c, k)
  BY <1>6, <1>7, <1>8, <1>9, <1>10 DEF SumsUp
<1>12. QED
  BY <1>2, <1>3, <1>11 DEF c

\* A slot without prices changes nothing.
LEMMA EmptySlotSumsUp ==
  ASSUME NEW n \in 0..5, NEW b \in Fares, SumsUp(b, n), slots[n + 1].prices = {}
  PROVE  SumsUp(b, n + 1)
<1>1. ASSUME NEW D PROVE PricesOf(n + 1, D) = PricesOf(n, D)
  <2>1. n \in Nat /\ slots[n + 1].prices \in SUBSET Nat
    OBVIOUS
  <2>2. QED
    BY <2>1, PricesOfOneMore
<1>2. \A k : k \in 1..(n + 1) <=> k \in 1..n \/ k = n + 1
  OBVIOUS
<1>3. b.min # None => b.min \notin slots[n + 1].prices
  OBVIOUS
<1>4. QED
  BY <1>1, <1>2, <1>3 DEF SumsUp

LEMMA SumsUpStays ==
  ASSUME UNCHANGED slots, NEW b, NEW n, SumsUp(b, n)
  PROVE  SumsUp(b, n)'
<1>1. \A D : PricesOf(n, D)' = PricesOf(n, D)
  BY DEF PricesOf
<1>2. QED
  BY <1>1 DEF SumsUp, IsLeast

LEMMA LookAtSlotKeeps == ASSUME SlotsInv, BestInv, LookAtSlot PROVE BestInv'
<1>1. PICK b, n : b = best /\ n = seen
  OBVIOUS
<1>2. /\ pc = "found" /\ slot = 6 /\ n \in 0..5 /\ b \in Fares /\ SumsUp(b, n)
      /\ b.roundTrip = None
      /\ UNCHANGED <<pc, slot, slots>> /\ seen' = n + 1
  BY <1>1 DEF LookAtSlot, BestInv, SlotsInv, SlotType
<1>3. \A k \in 1..6 : slots[k].prices \in SUBSET Nat
  <2>1. \A k \in 1..6 : slots[k] \in Found
    <3>1. slots \in Seq(Found) /\ Len(slots) = 6
      BY <1>2 DEF SlotsInv, SlotType
    <3>2. QED
      BY <3>1, ElementOfSeq
  <2>2. QED
    BY <2>1 DEF Found
<1>4. PICK c : c = best'
  OBVIOUS
<1>5. c \in Fares /\ SumsUp(c, n + 1) /\ c.roundTrip = None
  <2>1. CASE slots[n + 1].prices = {} /\ UNCHANGED best
    BY <1>1, <1>2, <1>4, <2>1, EmptySlotSumsUp
  <2>2. CASE \E p \in slots[n + 1].prices :
                (\A q \in slots[n + 1].prices : p <= q) /\ best' = BestStep(best, n + 1, p)
    BY <1>1, <1>2, <1>3, <1>4, <2>2, BestStepSumsUp
  <2>3. QED
    BY <1>1, <2>1, <2>2 DEF LookAtSlot
<1>6. SumsUp(c, n + 1)'
  BY <1>2, <1>5, SumsUpStays
<1>7. SumsUp(best, seen)'
  BY <1>2, <1>4, <1>6 DEF SumsUp, PricesOf, IsLeast
<1>8. QED
  BY <1>2, <1>4, <1>5, <1>7 DEF BestInv

LEMMA FindBestFareKeeps == ASSUME SlotsInv, BestInv, FindBestFare PROVE BestInv'
<1>1. PICK b, n, c : b = best /\ n = seen /\ c = best'
  OBVIOUS
<1>2. /\ pc = "found" /\ pc' = "done" /\ n = slot /\ slot = 6 /\ UNCHANGED <<slot, slots, seen>>
      /\ b \in Fares /\ SumsUp(b, n) /\ n \in 0..slot
  <2>1. pc = "found" /\ slot = 6 /\ seen = Len(slots) /\ UNCHANGED <<slot, slots, seen>>
    BY DEF FindBestFare, BestInv
  <2>2. Len(slots) = slot
    BY DEF SlotsInv, SlotType
  <2>3. QED
    BY <1>1, <2>1, <2>2 DEF FindBestFare, BestInv
<1>3. c = [b EXCEPT !.roundTrip = RoundTrip(b)]
  BY <1>1 DEF FindBestFare
<1>4. /\ c.min = b.min /\ c.slot = b.slot /\ c.out = b.out /\ c.ret = b.ret
      /\ c.retDate = b.retDate /\ c.roundTrip = RoundTrip(b) /\ RoundTrip(c) = RoundTrip(b)
  BY <1>2, <1>3 DEF Fares, RoundTrip
<1>5. RoundTrip(b) \in Nat \cup {None}
  BY <1>2 DEF Fares, RoundTrip
<1>6. c \in Fares
  BY <1>2, <1>3, <1>5 DEF Fares
<1>7. SumsUp(c, n)
  BY <1>2, <1>4 DEF SumsUp
<1>8. SumsUp(c, n)'
  BY <1>2, <1>7, SumsUpStays
<1>9. SumsUp(best, seen)'
  <2>1. best' = c /\ seen' = n
    BY <1>1, <1>2
  <2>2. QED
    BY <1>8, <2>1 DEF SumsUp, PricesOf, IsLeast
<1>10. best' \in Fares /\ best'.roundTrip = RoundTrip(best')
  BY <1>1, <1>4, <1>6
<1>11. QED
  BY <1>1, <1>2, <1>9, <1>10 DEF BestInv

\* While the slots are searched nothing is summed up.
LEMMA SearchKeeps ==
  ASSUME SlotsInv, SlotsInv', seen' = 0, best' = NoFare, pc' \in {"search", "found"},
         pc' # "search" => slot' = 6
  PROVE  BestInv'
<1>1. SumsUp(best, seen)'
  BY NoFareSumsUp DEF SumsUp, PricesOf, IsLeast
<1>2. slot' \in 1..6
  BY DEF SlotsInv, SlotType
<1>3. NoFare.roundTrip = None
  BY DEF NoFare
<1>4. QED
  BY <1>1, <1>2, <1>3, NoFareSumsUp DEF BestInv

\* What findBestFare has found is, at every slot, the best of the slots before.
THEOREM BestInvariant == Spec => []BestInv
<1>1. Init => BestInv
  <2>1. SUFFICES ASSUME Init PROVE BestInv
    OBVIOUS
  <2>2. pc = "search" /\ slot = 1 /\ seen = 0 /\ best = NoFare
    BY <2>1 DEF Init
  <2>3. SumsUp(best, seen)
    BY <2>2, NoFareSumsUp
  <2>4. QED
    BY <2>2, <2>3, NoFareSumsUp DEF BestInv
<1>2. SlotsInv /\ SlotsInv' /\ BestInv /\ [Next]_vars => BestInv'
  <2>1. SUFFICES ASSUME SlotsInv, SlotsInv', BestInv, [Next]_vars PROVE BestInv'
    OBVIOUS
  <2>2. CASE CallFails \/ GetPrices
    <3>1. pc = "search" /\ UNCHANGED <<seen, best>>
      BY <2>2 DEF CallFails, GetPrices
    <3>2. seen' = 0 /\ best' = NoFare
      BY <2>1, <3>1 DEF BestInv
    <3>3. PICK s : TryNext(s) \/ CloseSlot(s)
      BY <2>2 DEF CallFails, GetPrices
    <3>4. slot \in 1..6
      BY <2>1 DEF SlotsInv, SlotType
    <3>5. pc' \in {"search", "found"} /\ (pc' # "search" => slot' = 6)
      BY <3>1, <3>3, <3>4, SixSlots DEF TryNext, CloseSlot
    <3>6. QED
      BY <2>1, <3>2, <3>5, SearchKeeps
  <2>3. CASE LookAtSlot
    BY <2>1, <2>3, LookAtSlotKeeps
  <2>4. CASE FindBestFare
    BY <2>1, <2>4, FindBestFareKeeps
  <2>5. CASE Again
    <3>1. seen' = 0 /\ best' = NoFare /\ pc' = "search"
      BY <2>5 DEF Again
    <3>2. QED
      BY <2>1, <3>1, SearchKeeps
  <2>6. CASE UNCHANGED vars
    <3>1. PICK b, n : b = best /\ n = seen
      OBVIOUS
    <3>2. SumsUp(b, n)'
      BY <2>1, <2>6, <3>1, SumsUpStays DEF BestInv, vars
    <3>3. SumsUp(best, seen)'
      BY <2>6, <3>1, <3>2 DEF SumsUp, PricesOf, IsLeast, vars
    <3>4. QED
      BY <2>1, <2>6, <3>3 DEF BestInv, vars
  <2>7. QED
    BY <2>1, <2>2, <2>3, <2>4, <2>5, <2>6 DEF Next
<1>3. QED
  BY <1>1, <1>2, SlotsInvariant, PTL DEF Spec

\* The summary of any six slots names their cheapest fare, the first slot that has
\* it and the cheapest pair of an outbound and a return fare.
THEOREM SummaryNamesTheCheapest == Spec => []SummaryIsCheapest
<1>1. SlotsInv /\ BestInv => SummaryIsCheapest
  <2>1. SUFFICES ASSUME SlotsInv, BestInv, pc = "done" PROVE SummaryIsCheapest
    BY DEF SummaryIsCheapest
  <2>2. /\ slot = 6 /\ Len(slots) = 6 /\ SumsUp(best, 6) /\ best \in Fares
        /\ best.roundTrip = RoundTrip(best)
    BY <2>1 DEF SlotsInv, SlotType, BestInv
  <2>3. \A k \in 1..6 : slots[k].prices \in SUBSET Nat
    <3>1. \A k \in 1..6 : slots[k] \in Found
      <4>1. slots \in Seq(Found) /\ Len(slots) = 6
        BY <2>1, <2>2 DEF SlotsInv, SlotType
      <4>2. QED
        BY <4>1, ElementOfSeq
    <3>2. QED
      BY <3>1 DEF Found
  <2>4. ASSUME NEW dir \in Both PROVE Prices(dir) = PricesOf(6, {dir})
    BY <2>2, <2>3 DEF Prices, PricesOf
  <2>5. Prices("out") \cup Prices("ret") = PricesOf(6, Both)
    BY <2>4 DEF PricesOf, Both
  <2>6. /\ IsLeast(best.min, Prices("out") \cup Prices("ret"))
        /\ IsLeast(best.out, Prices("out")) /\ IsLeast(best.ret, Prices("ret"))
    BY <2>2, <2>4, <2>5 DEF SumsUp, Both
  <2>7. \A dir \in Both : Prices(dir) \in SUBSET Nat
    BY <2>4 DEF PricesOf
  <2>8. None \notin Nat
    BY OffersAssumption
  <2>9. IF Prices("out") \cup Prices("ret") = {} THEN best.min = None /\ best.slot = None
        ELSE /\ \A p \in Prices("out") \cup Prices("ret") : best.min <= p
             /\ best.min \in slots[best.slot].prices
             /\ \A k \in 1..(best.slot - 1) : best.min \notin slots[k].prices
    <3>1. CASE Prices("out") \cup Prices("ret") = {}
      BY <2>2, <2>6, <3>1 DEF SumsUp, IsLeast
    <3>2. CASE Prices("out") \cup Prices("ret") # {}
      <4>1. /\ best.min # None /\ \A p \in Prices("out") \cup Prices("ret") : best.min <= p
        BY <2>6, <2>7, <2>8, <3>2 DEF IsLeast, Both
      <4>2. /\ best.slot \in 1..6 /\ best.min \in slots[best.slot].prices
            /\ \A k \in 1..6 : k < best.slot => best.min \notin slots[k].prices
        BY <2>2, <4>1 DEF SumsUp
      <4>3. \A k \in 1..(best.slot - 1) : k \in 1..6 /\ k < best.slot
        BY <4>2
      <4>4. QED
        BY <3>2, <4>1, <4>2, <4>3
    <3>3. QED
      BY <3>1, <3>2
  <2>10. IF Prices("out") = {} \/ Prices("ret") = {} THEN best.roundTrip = None
         ELSE /\ \A p \in Prices("out"), q \in Prices("ret") : best.roundTrip <= p + q
              /\ best.out \in Prices("out") /\ best.roundTrip = best.out + best.ret
              /\ \E k \in DepartAfter..Len(slots) :
                   best.ret \in slots[k].prices /\ best.retDate = Slots[k].day
    <3>1. CASE Prices("out") = {} \/ Prices("ret") = {}
      BY <2>2, <2>6, <3>1 DEF IsLeast, RoundTrip
    <3>2. CASE Prices("out") # {} /\ Prices("ret") # {}
      <4>1. /\ best.out \in Prices("out") /\ best.ret \in Prices("ret")
            /\ \A p \in Prices("out") : best.out <= p
            /\ \A q \in Prices("ret") : best.ret <= q
        BY <2>6, <3>2 DEF IsLeast
      <4>2. /\ best.out \in Nat /\ best.ret \in Nat /\ best.out # None /\ best.ret # None
            /\ Prices("out") \in SUBSET Nat /\ Prices("ret") \in SUBSET Nat
        BY <2>7, <2>8, <4>1 DEF Both
      <4>3. best.roundTrip = best.out + best.ret
        BY <2>2, <4>2 DEF RoundTrip
      <4>4. \A p \in Prices("out"), q \in Prices("ret") : best.roundTrip <= p + q
        BY <4>1, <4>2, <4>3
      <4>5. PICK k \in 1..6 : /\ Slots[k].dir = "ret" /\ best.ret \in slots[k].prices
                              /\ best.retDate = Slots[k].day
        BY <2>2, <4>2 DEF SumsUp
      <4>6. k \in DepartAfter..Len(slots)
        BY <2>2, <4>5, Directions, SixSlots
      <4>7. QED
        BY <3>2, <4>1, <4>3, <4>4, <4>5, <4>6
    <3>3. QED
      BY <3>1, <3>2
  <2>11. QED
    BY <2>9, <2>10 DEF SummaryIsCheapest
<1>2. QED
  BY <1>1, SlotsInvariant, BestInvariant, PTL
-----------------------------------------------------------------------------
(* The widest windows *)

LEMMA WidestWindow ==
  ASSUME WideWindows
  PROVE  /\ OutWindow(Attempts(ArriveBy))[2] = 0 /\ RetWindow(Attempts(DepartAfter)) = 0
         /\ \A t \in Kickoffs : OutWindow(Attempts(ArriveBy))[1] >= t + Offset
<1> DEFINE n == Len(OutPolicy)
           e == NormalizeDuration(OutPolicy[n][1], OutDefaults[n][1])
           l == NormalizeDuration(OutPolicy[n][2], OutDefaults[n][2])
<1>1. Attempts(ArriveBy) = n /\ Attempts(DepartAfter) = Len(RetPolicy)
  BY SixSlots DEF Attempts
<1>2. e \in Nat /\ l \in Nat
  <2>1. n \in 1..Len(OutPolicy) /\ n \in 1..Len(OutDefaults)
    BY PolicyAssumption
  <2>2. OutPolicy[n] \in Int \X Int /\ OutDefaults[n] \in Nat \X Nat
    BY <2>1, PolicyAssumption, ElementOfSeq
  <2>3. /\ OutPolicy[n][1] \in Int /\ OutPolicy[n][2] \in Int
        /\ OutDefaults[n][1] \in Nat /\ OutDefaults[n][2] \in Nat
    BY <2>2
  <2>4. QED
    BY <2>3 DEF NormalizeDuration
<1>3. OutWindow(n) = IF e < l THEN <<l, e>> ELSE <<e, l>>
  BY DEF OutWindow, Normalize
<1>4. {NormalizeDuration(OutPolicy[n][i], OutDefaults[n][i]) : i \in 1..2} = {e, l}
  <2>1. 1..2 = {1, 2}
    OBVIOUS
  <2>2. QED
    BY <2>1
<1> HIDE DEF e, l
<1>5. /\ 0 \in {e, l} /\ RetWindow(Len(RetPolicy)) = 0
      /\ \A t \in Kickoffs : \E i \in {e, l} : i >= t + Offset
  BY <1>4 DEF WideWindows
<1>6. \A t \in Kickoffs : t + Offset \in Int
  BY DayAssumption
<1>7. OutWindow(n)[2] = 0 /\ \A t \in Kickoffs : OutWindow(n)[1] >= t + Offset
  BY <1>2, <1>3, <1>5, <1>6
<1>8. QED
  BY <1>1, <1>5, <1>7

\* The last window takes every offer of the day that is in time.
LEMMA InTimeFits ==
  ASSUME WideWindows, SlotType, NEW k \in 1..6, NEW o \in OnSale(k), InTime(o, k)
  PROVE  Fits(o, k, Attempts(k))
<1>1. /\ o \in Offers /\ kickoff \in Kickoffs /\ kickoff \in Int /\ Offset \in Nat
      /\ o.date = Slots[k].day
  BY DayAssumption DEF SlotType, OnSale, Listed
<1>2. /\ o.departs \in Int \cup {None} /\ o.duration \in Int /\ None \notin Int
      /\ o.departs # None => o.date = (o.departs + Offset) \div Day
  BY <1>1, OffersAssumption
<1>3. CASE k = ArriveBy
  <2>1. /\ Arrival(o) # None /\ Arrival(o) <= kickoff /\ o.departs \in Int /\ o.duration \in Nat
        /\ Arrival(o) = o.departs + o.duration
    BY <1>2, <1>3, SixSlots DEF InTime, Arrival
  <2>2. (o.departs + Offset) \div Day = 0
    BY <1>1, <1>2, <1>3, <2>1, SixSlots DEF Slots
  <2>3. o.departs + Offset >= 0
    BY <1>1, <2>1, <2>2, DayAssumption
  <2> DEFINE w == OutWindow(Attempts(ArriveBy))
  <2>4. w[2] = 0 /\ w[1] >= kickoff + Offset /\ w[1] \in Nat
    BY <1>1, WidestWindow, Windows, SixSlots
  <2> HIDE DEF w
  <2>5. Arrival(o) \in (kickoff - w[1])..(kickoff - w[2])
    BY <1>1, <2>1, <2>3, <2>4
  <2>6. QED
    BY <1>3, <2>1, <2>5, SixSlots DEF Fits, w
<1>4. CASE k = DepartAfter
  <2>1. o.departs # None /\ o.departs >= kickoff /\ Base(o) = o.departs
    BY <1>4, SixSlots DEF InTime, Base
  <2>2. RetWindow(Attempts(DepartAfter)) = 0
    BY WidestWindow
  <2>3. QED
    BY <1>1, <1>4, <2>1, <2>2, SixSlots DEF Fits
<1>5. CASE k # ArriveBy /\ k # DepartAfter
  BY <1>5 DEF Fits
<1>6. QED
  BY <1>3, <1>4, <1>5

\* The variables have their types, for any constants.
LEMMA TypesHold == SlotsInv /\ BestInv => TypeOK
<1>1. SUFFICES ASSUME SlotsInv, BestInv PROVE TypeOK
  OBVIOUS
<1>2. SlotType /\ Len(Slots) = 6
  BY <1>1, SixSlots DEF SlotsInv
<1>3. \A k \in 1..slot : slots[k].level \in 1..Attempts(k) /\ slots[k].prices \in SUBSET Nat
  <2>1. \A k \in 1..slot : slots[k] \in Found
    BY <1>2, ElementOfSeq DEF SlotType
  <2>2. QED
    BY <1>1, <2>1 DEF SlotsInv, Found
<1>4. /\ DOMAIN best = DOMAIN NoFare
      /\ {best.min, best.out, best.ret, best.roundTrip} \subseteq Nat \cup {None}
  BY <1>1 DEF BestInv, Fares, NoFare
<1>5. seen \in 0..slot /\ (pc = "done" => seen = slot) /\ best.slot \in (1..seen) \cup {None}
  BY <1>1 DEF BestInv, SumsUp
<1>6. QED
  BY <1>2, <1>3, <1>4, <1>5 DEF TypeOK, SlotType

\* No offer in time is lost to the windows, however many of them there are, as long
\* as the last one is as wide as the service's defaults make it: what is missing is
\* hidden behind as many other offers of the day as the limit of the request.
THEOREM WideWindowsLoseNothing == ASSUME WideWindows PROVE Spec => []NothingInTimeIsLost
<1>1. SlotsInv /\ BestInv => NothingInTimeIsLost
  <2>1. SUFFICES ASSUME SlotsInv, BestInv, pc # "search", NEW k \in 1..Len(slots),
                        \A l \in 1..Attempts(k) : <<k, l>> \notin failedAt,
                        slots[k].prices = {}, NEW o \in OnSale(k), InTime(o, k)
                 PROVE  Hidden(o, k)
    BY TypesHold DEF NothingInTimeIsLost
  <2>2. SlotType /\ k \in 1..slot /\ k \in 1..6
    BY <2>1 DEF SlotsInv, SlotType
  <2>3. Decided(k)
    BY <2>1, <2>2 DEF SlotsInv, InHand
  <2>4. Attempts(k) \in 1..Attempts(k)
    BY <2>2, SixSlots
  <2>5. Nothing(k, Attempts(k))
    BY <2>1, <2>3, <2>4 DEF Decided, Final
  <2>6. Shown({}, k, Attempts(k))
    BY <2>1, <2>4, <2>5 DEF Nothing
  <2>7. Fits(o, k, Attempts(k))
    BY <2>1, <2>2, InTimeFits
  <2>8. QED
    BY <2>1, <2>6, <2>7 DEF Shown
<1>2. QED
  BY <1>1, SlotsInvariant, BestInvariant, PTL
=============================================================================
