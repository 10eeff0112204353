SPECIFICATION Spec
CONSTANTS
  p = p
  q = q
  c1 = c1
  Positions = {p, q}
  Closers = {c1}
  Monitor = Monitor
  Nobody = Nobody
  Untouched = Untouched
  Null = Null
  KindOf <- AllEmergency
  PartialOf <- AllWhole
  GainOf <- TwoLosses
  Fee = 0
  Start = 100
  Deposit = 50
  MaxLosses = 2
  MaxLate = 1
  MaxMoves = 0
  MaxDays = 0
  MaxResumes = 1
  MaxUnread = 1
  MaxAborts = 1
INVARIANTS CountedOnce ClosedIsGone ResultTrue
PROPERTIES LossesPause BaselineKept
