SPECIFICATION FairSpec
CONSTANTS
  CatchUp = CatchUp
  Nobody = Nobody
  MaxMessages = 2
  History = 2
  Limit = 2
  MaxAgain = 1
  MaxFaults = 1
INVARIANTS OneOrder NoEcho HistoryQuiet

PROPERTY LastStored
