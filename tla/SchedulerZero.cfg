CONSTANTS
  Tickers = {t1}
  Jobs = {j1}
  Schedules <- Zero
  None = None
  MaxTime = 2
  MaxDrops = 0
SPECIFICATION FairSpec
PROPERTY
  TickReturns
