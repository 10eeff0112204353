SPECIFICATION FairSpec
CONSTANTS
  c1 = c1
  c2 = c2
  Calls = {c1, c2}
  Reconnect = Reconnect
  Stop = Stop
  Nobody = Nobody
  MaxStarts = 3
  MaxFaults = 1
  MaxOrders = 1
INVARIANTS AnswerIsMine OneChild AlwaysAvailable
PROPERTIES NoLateHandover EveryCallEnds
CHECK_DEADLOCK FALSE
