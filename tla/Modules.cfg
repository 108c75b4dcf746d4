SPECIFICATION ModulesSpec
CONSTANTS
  A = A
  B = B
  C = C
  T = T
  U = U
  Missing = Missing
  Names <- BAC
  Types = {T, U}
  Graphs <- SomeGraphs
  MaxRegistered = 4
  Tasks = {t1, t2}
  Scopes = {root, child}
  Shared = Shared
  None = None
  MaxVersion = 2
  MaxBuilds = 2
  Exclusive = TRUE
  NoId = NoId
  ChartIds <- MCChartIds
  InitialAttrs <- MCInitialAttrs
  TransitionElements <- MCTransitionElements
  WellNamed <- MCWellNamed
  MaxTransitions = 2
  MaxRecent = 2
INVARIANTS HooksInOrder SharedAlongImports CoherentArcs DocumentKept EngineOnCourse
PROPERTIES ShutDownClean CellSpec
CHECK_DEADLOCK FALSE
