CONSTANTS
  Requests = {r1, r2}
  WriteTimeouts = {0, 1, 2, 3, 6}
  ShutdownTimeouts = {1, 4}
  ClientTimeouts = {2, 3}
  DebugTimeouts = {0, 1, 2}
  CatalogMax = 4
  DebugGrace = 2
SPECIFICATION FairSpec
INVARIANTS StoresOutliveWork LossHasACause AnswersArrive
PROPERTY ProcessEnds
