CONSTANTS
  None = None
  Day = 24
  Offset = 3
  Kickoffs = {9, 17}
  Offers <- SomeOffers
  MaxOffers = 4
  MaxFaults = 1
  Limit = 2
  OutPolicy <- SomeOut
  RetPolicy <- SomeRet
  OutDefaults <- DefaultOut
  RetDefaults <- DefaultRet
SPECIFICATION Spec
INVARIANTS FansSeeTheKickoff NothingInTimeIsLost NarrowestWins SummaryIsCheapest
