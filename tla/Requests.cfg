SPECIFICATION RequestsSpec
CONSTANTS
  a = a
  b = b
  v1 = v1
  v2 = v2
  None = None
  Routes <- MCRoutes
  MaxRoutes = 4
  Letters = {a, b}
  Variables = {"x", "y", "*", "rest"}
  MaxPath = 3
  RequestMethods = {"GET", "POST"}
  Versions = {v1, v2}
  c1 = c1
  c2 = c2
  public = public
  private = private
  Conns = {c1, c2}
  Threads = 1
  Paths = {public, private}
  Setups <- MCSetups
INVARIANTS RightRoute ServerAgrees RefusalsAreTrue NoneRefused HandlerGuarded ChartTellsOutcome FilterPrecedence
PROPERTY TimeoutsHold
