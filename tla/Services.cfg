SPECIFICATION ServicesSpec
CONSTANTS
  n1 = n1
  n2 = n2
  Namespaces = {n1, n2}
  RoomNames = {r1, r2}
  Clients = {c1, c2}
  Events = {e1, e2}
  OwnNamespace = n1
  MaxInbox = 2
  alice = alice
  admin = admin
  guest = guest
  Absent = Absent
  Malformed = Malformed
  GuardRequests <- MCGuardRequests
  Chains <- MCChains
  Word = 4
  GuardTime = 3
  MaxAdmitted = 4
  Callers = {t1, t2}
  Unnamed = Unnamed
  Arrivals <- MCArrivals
  Fields = {"id", "name", "secret"}
  ChainSetups <- MCChainSetups
  Forever = Forever
  ChainTime = 2
  Emitters = {t1, t2}
  EventNames <- MCEventNames
  Patterns <- MCPatterns
  MaxListeners = 3
  MaxEmits = 2
  Handles = {h1, h2, h3}
  Getters = {t1, t2}
  NoValue = NoValue
  MaxResolved = 2
  Calls = {p, q}
  Stacks <- MCStacks
  Terminals <- MCTerminals
  SentRequests <- MCSentRequests
  HandlerAnswers <- MCHandlerAnswers
  Features = {"gzip", "deflate"}
  Wires <- MCWires
  JsonOf <- MCJsonOf
  Sendings <- MCSendings
  Puts <- MCPuts
  Insertions <- MCInsertions
  Actions <- MCActions
  Answers <- MCAnswers
  Metadata <- MCMetadata
  JsonTypes <- MCJsonTypes
  Readings <- MCReadings
  PipeLists <- MCPipeLists
  Bodies <- MCBodies
  Values <- MCValues
  HeaderSets <- MCHeaderSets
  StatusCodes = {201}
  EventPieces <- MCEventPieces
  MaxEdits = 4
  Inner <- MCInner
  Declarations <- MCDeclarations
  FieldValues <- MCFieldValues
  Contexts <- MCContexts
  Mantissa = 8
  MaxFields = 2
  Parts <- MCParts
  Limits <- MCLimits
  Unlimited = 99
  Wanted <- MCWanted
  MaxParts = 2
INVARIANTS ThrottleJust AnswersTruthful HeardInOrder LazyOnce AnswersIntact ReadingsAgree PipesTransparent RepliesArrive UploadsIntact ErrorsAreFaults
PROPERTIES RoomsKept EveryCallEnds
CHECK_DEADLOCK FALSE
