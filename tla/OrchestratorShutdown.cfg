CONSTANTS
  A = A
  B = B
  C = C
  T = T
  U = U
  Missing = Missing
  Names <- BAC
  Types = {T, U}
  Graphs <- SomeGraphs
  MaxRegistered = 4
SPECIFICATION OrchestratorSpec
INVARIANT
  NoneLeftActive
