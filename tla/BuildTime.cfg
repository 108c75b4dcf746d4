SPECIFICATION BuildSpec
CONSTANTS
  Ids = {a, b, c}
  MaxDeps = 2
  m1 = m1
  m2 = m2
  m3 = m3
  T = T
  Names <- MCNames
  Metadata <- MCMetadata
  ControllerPaths <- MCControllerPaths
  ClassAttributes <- MCClassAttributes
  MethodTexts <- MCMethodTexts
  MaxPieces = 3
  TwoTo32 = 4
  GlobalPrefixes <- MCGlobalPrefixes
  MaxBuilds = 2
  EnvFiles <- MCEnvFiles
  Environments <- MCEnvironments
  Schemas <- MCSchemas
  NameStart <- MCNameStart
  NameContinue <- MCNameContinue
  Bytes <- MCBytes
  DepthCap = 2
  MaxSets = 1
  Kinds = {"module", "controller", "guard"}
  GivenNames <- MCGivenNames
  Lower <- MCLower
  Letters = {"a", "b", "0"}
  Targets <- MCTargets
  Cwd <- MCCwd
  HandWritten <- MCHandWritten
  MaxCommands = 2
INVARIANTS WalkSound OrderSound VisibilitySound NoAttributeLost ServedOrExplained ConfigHolds RegistrationsStand
PROPERTIES Terminates FailuresLeaveNoFile
CHECK_DEADLOCK FALSE
