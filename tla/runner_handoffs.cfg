SPECIFICATION FairSpec
CONSTANTS
  Node <- ChainNode
  DependsOn <- ChainDependsOn
  Level <- ChainLevel
  Rank <- InOrder
  Required <- AllButLast
  Deliverable = 5
  LastLevel = 4
  MaxDepth = 5
  MaxParallel = 1
  MaxNodes = 20
  MaxCalls = 6
  MaxCorrections = 1
  CostCeiling = NoCeiling
  Quotes <- UnknownQuote
  CapacityExcluded = FALSE
  LeadEscalates = TRUE
  RiskTarget = 4
  NoCeiling = NoCeiling
  Unknown = Unknown
  Invalid = Invalid
  Risk = Risk
  NoNode = NoNode
INVARIANTS
  DependencyOrder
  ReturnedHandoffsSettled
  CompleteIsEarned
PROPERTIES
  BudgetSpec
  RunEnds
