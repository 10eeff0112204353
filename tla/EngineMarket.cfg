SPECIFICATION FairSpec
CONSTANTS
  a = a
  b = b
  c = c
  d = d
  r1 = r1
  r2 = r2
  Signals = {a, b}
  Requests = {r1}
  Monitor = Monitor
  Nobody = Nobody
  MaxTicket = 4
  MaxFaults = 1
  SymOf <- Gold
  SideOf <- AllBuy
  EntryOf <- OwnPrice
  KindOf <- AllMarket
  ModeOf <- AManual
  LegsOf <- ATwoLegs
  LongAge = {}
  MaxPositions = 3
  MaxPerSymbol = 1
  MaxDailyRisk = 9
  SingleWriter = TRUE
INVARIANTS OneAtATime ExposureCap NoFalseClosure NoOrphan
PROPERTIES ExpiredStaysOut EveryTaskEnds MonitorKeepsCycling
