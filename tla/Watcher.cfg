SPECIFICATION FairSpec
CONSTANTS
  gold = gold
  euro = euro
  Order <- GoldEuro
  Sides = {"BUY"}
  Asked = {gold}
  Loop = Loop
  Requests = {ask}
  Followers = {follow}
  Nobody = Nobody
  MaxActive = 2
  MaxSignals = 2
  MaxFaults = 1
INVARIANTS TwinsWereBlind ToldOnce
PROPERTY EveryInstrumentRead
