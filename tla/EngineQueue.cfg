SPECIFICATION Spec
SYMMETRY Alike
CONSTANTS
  a = a
  b = b
  c = c
  d = d
  r1 = r1
  r2 = r2
  Signals = {a, b, c, d}
  Requests = {}
  Monitor = Monitor
  Nobody = Nobody
  MaxTicket = 3
  MaxFaults = 0
  SymOf <- Gold
  SideOf <- CSells
  EntryOf <- SameZone
  KindOf <- AllPending
  ModeOf <- DObserve
  LegsOf <- OneLeg
  LongAge = {}
  MaxPositions = 3
  MaxPerSymbol = 2
  MaxDailyRisk = 2
  SingleWriter = TRUE
INVARIANTS NoTwinPending DailyRiskCap
