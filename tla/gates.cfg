SPECIFICATION GatesSpec
CONSTANTS
  Routes <- AnyRoute
  Verticals = {0, 1, 2, 3}
  OtherGraphs <- SmallGraphs
  MaxNodes = 20
  MaxDepth = 5
  AgentOutputs <- MCAgentOutputs
  MaxOutputs = 3
  Sites <- MCSites
  Start = 1
  MaxUrls = 2
  CrawlDepth = 2
  Packages <- MCPackages
  LiveProfile <- MCProfile
  ProducerJobs <- MCJobs
  Documented <- MCDocumented
  Required <- MCRequired
  PreparedAt = 1
  CheckedAt = 7
  ObservationTtl = 6
  Skew = 0
  MaxAmendments = 1
  NoSeal = NoSeal
  c1 = c1
  c2 = c2
  Conn = {c1, c2}
  MaxId = 3
  MaxTime = 1
  Url <- Spellings
  Canonical <- Canonicalize
  Keep = 1
  MaxLegacy = 2
  MaxFaults = 1
  Invalid = Invalid
  NoConn = NoConn
  NoRow = NoRow
  NoHash = NoHash
  Node <- Pair
  DependsOn <- PairDependsOn
  Agent <- TwoAgents
  RiskTarget = "scrum"
  OutputId = {"a", "b"}
  MaxRuns = 2
  Risk = Risk
  Legacy = Legacy
  Foreign = Foreign
  NoNode = NoNode
  NoOutput = NoOutput
  NoReceipt = NoReceipt
  Requests <- MCRequests
  Answers <- MCAnswers
  DecisionAgents = {"local"}
  PartOf <- TokenParts
  BaseName <- FileNames
  MaxAttempts = 2
  MaxCalls = 2
  Questions <- MCQuestions
  MaxRetries = 1
  NoValue = NoValue
  CallCommands <- MCCallCommands
  UrlLimit = 2
  RetryLimit = 2
  UnitLimit = 2
  NoNumber = NoNumber
  SiteEvidence <- MCRuleEvidence
  AgentTokens <- AllTokens
  OwnTokens <- OwnNames
  MaxHops = 3
  ShownUrls = 4
  ShownActions = 2
  BudgetScale = 2
  ConsentRequired <- ConsentCountries
  Capturers = {"first", "second"}
  CaptureCalls <- MCCaptureCalls
  NoCall = NoCall
  NoInode = NoInode
CHECK_DEADLOCK FALSE
INVARIANTS
  GraphsAreRunnable
  AcceptedIsSupported
  AvailableIsComplete
  AcceptedIsSealed
  OkIsWhole
  WriteIsConfirmed
  StoreIsTruthful
  PassIsDelivery
  VerdictIsHonest
  AcceptedIsGrounded
  RulesSayWhatTheyMean
  CapturesAreWhole
PROPERTIES
  FailuresStay
