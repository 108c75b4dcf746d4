SPECIFICATION Spec
CONSTANTS
  c1 = c1
  c2 = c2
  public = public
  private = private
  Conns = {c1, c2}
  Threads = 1
  Paths = {public, private}
  Setups <- MCSetups
INVARIANT FailuresReachDone
