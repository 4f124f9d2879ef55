CONSTANTS
  a = a
  b = b
  Tournaments = {1, 2, 3}
  Matches = {a, b}
  Ranges <- SomeRanges
  Dates <- SomeDates
  Day = 2
  Offset = 1
  From = 1
  To = 3
  Limit = 1
  MaxSelected = 2
  MaxFallback = 1
SPECIFICATION Spec
INVARIANTS EarliestFirst NotFromFailures OffByZone
