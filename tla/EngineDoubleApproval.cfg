SPECIFICATION Spec
CONSTANTS
  a = a
  b = b
  c = c
  d = d
  r1 = r1
  r2 = r2
  Signals = {a}
  Requests = {r1, r2}
  Monitor = Monitor
  Nobody = Nobody
  MaxTicket = 2
  MaxFaults = 0
  SymOf <- Gold
  SideOf <- AllBuy
  EntryOf <- OwnPrice
  KindOf <- AllMarket
  ModeOf <- AManual
  LegsOf <- OneLeg
  LongAge = {}
  MaxPositions = 3
  MaxPerSymbol = 2
  MaxDailyRisk = 9
  SingleWriter = TRUE
INVARIANTS OneExecution
