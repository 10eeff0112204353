SPECIFICATION FairSpec
CONSTANTS
  p = p
  q = q
  c1 = c1
  Positions = {p}
  Closers = {c1}
  Monitor = Monitor
  Nobody = Nobody
  Untouched = Untouched
  Null = Null
  KindOf <- AllFollow
  PartialOf <- AllHalf
  GainOf <- LossAndGain
  Fee = 0
  Start = 100
  Deposit = 50
  MaxLosses = 1
  MaxLate = 0
  MaxMoves = 1
  MaxDays = 1
  MaxResumes = 0
  MaxUnread = 1
  MaxAborts = 1
PROPERTY BaselineSettles
