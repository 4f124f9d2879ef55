CONSTANTS
  MaxItems = 3
  MaxCalls = 2
SPECIFICATION FairSpec
INVARIANTS NoSendOnClosed SendsNeverBlock NothingLeftBehind PageComplete FanOutInv
PROPERTIES ImplementsPromise EveryRequestAnswered
