CONSTANTS
  Clients = {c1, c2}
  Attempts <- JustTwo
  MaxVersion = 3
  SameCity = {2}
SPECIFICATION FairSpec
INVARIANTS SlotsAreBest AllOrNothing NoLateEntries AirfareInv
PROPERTY EventuallyFresh
