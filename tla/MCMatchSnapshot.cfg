CONSTANTS
  spartak = spartak
  stranger = stranger
  moskva = moskva
  moscow = moscow
  nowhere = nowhere
  early = early
  later = later
  MOW = MOW
  None = None
  Publications <- SomePublications
  Unreadable <- KickoffUnreadable
  Normal <- Spelling
  CityAirport <- CityTable
  HomeClub <- Clubs
SPECIFICATION FairSpec
INVARIANT SnapshotIsTrue
PROPERTY SnapshotsSettle
