CONSTANTS
  m1 = m1
  m2 = m2
  m3 = m3
  x = x
  y = y
  z = z
  None = None
  Ids = {m1, m2, m3}
  Rows <- SomeRows
  Clubs = {x, y, z}
  Limits = {1, 4}
  PageDefault = 1
  ClubDefault = 2
  PageMax = 2
  AdapterDefault = 1
  AdapterMax = 3
  MaxNow = 1
  MaxIds = 2
  MaxUpserts = 1
SPECIFICATION Spec
INVARIANTS EarliestOfTheClub EveryIdIsAccounted
