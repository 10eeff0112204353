SPECIFICATION Spec
CONSTANTS
  Subjects = {"watch", "cycle", "notify", "ai", "replay", "rules", "gate", "tuning"}
  Sessions = {"loop", "request"}
  MaxAnalyses = 3
  Watchlist <- GoldEuro
  MaxClicks = 4
  MaxRounds = 2
  Callers = {"round", "engine"}
  Alerts = {"risk", "news"}
  CriticalAlerts = {"risk"}
  DedupWindow <- Windows
  Hour = 1
  MaxPushPerHour = 1
  MaxClock = 2
  MaxRows = 2
  MaxTokens = 2
  Models = {"m1", "m2"}
  Slots = {"s1", "s2"}
  FailureThreshold = 2
  Tested = 3
  MaxCalls = 2
  MaxOffers = 1
  Directions = {"SELL"}
  MaxBars = 1
  MaxAge = 1
  MaxPerRound = 1
  MaxMinutes = 3
  MaxImagined = 2
  OpenPrice = 2
  FirstStop = 1
  Objectives <- FourFive
  Offset = 0
  Distance = 1
  StepPoints = 1
  StopsLevel = 1
  MaxMoves = 2
  MaxMessages = 1
  RiskPercent = 4
  QualityFloor = 3
  MaxDailyRisk = 12
  MaxDailyLoss = 8
  MaxLosses = 3
  MaxPositions = 2
  MaxExposure = 5
  VolumeMin = 1
  MaxLot = 4
  Costs = {1, 2, 3, 5}
  MaxSignals = 3
  Dials = {"confidence", "score", "weight"}
  MinSample = 2
  Low = 1
  High = 4
  Factory = 2
  Settable = {0, 4}
  NoReference = NoReference
  MaxOutcomes = 4
  MaxSettings = 1
INVARIANTS WatchTold  Quiet NamedFree Spared NotBetterThanTicks SizedRight
PROPERTIES NewTokenKept StopForward StepPaid
CHECK_DEADLOCK FALSE
