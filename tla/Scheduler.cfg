CONSTANTS
  Tickers = {t1, t2}
  Jobs = {j1, j2}
  Schedules <- Mixed
  None = None
  MaxTime = 2
  MaxDrops = 1
SPECIFICATION FairSpec
INVARIANTS OnceEach
PROPERTIES GoneForGood DueIsRun
