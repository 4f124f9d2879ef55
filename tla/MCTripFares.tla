---------------------------- MODULE MCTripFares -----------------------------
(***************************************************************************)
(* TripFares for TLC: the windows of the service's defaults, the last one  *)
(* of the outbound windows configured the wrong way round, and offers      *)
(* around each of their ends.                                              *)
(***************************************************************************)
EXTENDS TripFares

Offer(dir, departs, duration, price) ==
  [dir |-> dir, date |-> (departs + Offset) \div Day, departs |-> departs,
   returns |-> None, duration |-> duration, price |-> price]

\* An offer that tells its return date only.
ReturnOnly(date, returns, price) ==
  [dir |-> "ret", date |-> date, departs |-> None, returns |-> returns,
   duration |-> 0, price |-> price]

SomeOffers ==
  { Offer("out", -47, 2, 2), Offer("out", -20, 2, 3), Offer("out", -2, 2, 1),
    Offer("out", 4, 2, 2), Offer("out", 12, 3, 1), Offer("out", 8, 0, 1),
    Offer("out", 10, 12, 2), Offer("out", 5, 4, 0),
    Offer("ret", 13, 2, 2), Offer("ret", 18, 2, 1), ReturnOnly(0, 14, 1),
    Offer("ret", 22, 2, 2), Offer("ret", 46, 3, 3) }

DefaultOut == << <<4, 2>>, <<8, 0>>, <<24, 0>> >>
DefaultRet == << 4, 2, 0 >>
SomeOut    == << <<4, -1>>, <<8, 0>>, <<0, 24>> >>
SomeRet    == << 4, 2, -1 >>

ASSUME WindowsAssumption == WideWindows
=============================================================================
