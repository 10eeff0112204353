SPECIFICATION Spec
CONSTANTS
  p = p
  q = q
  c1 = c1
  Positions = {p}
  Closers = {c1}
  Monitor = Monitor
  Nobody = Nobody
  Untouched = Untouched
  Null = Null
  KindOf <- AllFollow
  PartialOf <- AllWhole
  GainOf <- LossAndGain
  Fee = 0
  Start = 100
  Deposit = 50
  MaxLosses = 1
  MaxLate = 0
  MaxMoves = 0
  MaxDays = 0
  MaxResumes = 0
  MaxUnread = 0
  MaxAborts = 0
INVARIANT ClosuresCountedOnce
