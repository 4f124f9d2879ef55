CONSTANTS
  m1 = m1
  m2 = m2
  Sync = Sync
  Ids = {m1, m2}
  Readers = {r1}
  MaxVersion = 2
  Unresolvable <- LastUnresolvable
  MaxFaults = 1
  MaxCrashes = 1
SPECIFICATION FairSpec
INVARIANTS OnlyStoredIsServed StoredHasDestination SyncAccounts StoreInv
PROPERTIES RegressionNeedsRace EventuallyConsistent
