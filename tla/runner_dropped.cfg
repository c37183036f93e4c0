SPECIFICATION Spec
CONSTANTS
  Node <- SplitNode
  DependsOn <- SplitDependsOn
  Level <- SplitLevel
  Rank <- InOrder
  Required <- AllButLast
  Deliverable = 4
  LastLevel = 3
  MaxDepth = 5
  MaxParallel = 1
  MaxNodes = 20
  MaxCalls = 6
  MaxCorrections = 1
  CostCeiling = NoCeiling
  Quotes <- UnknownQuote
  CapacityExcluded = FALSE
  LeadEscalates = TRUE
  RiskTarget = 3
  NoCeiling = NoCeiling
  Unknown = Unknown
  Invalid = Invalid
  Risk = Risk
  NoNode = NoNode
INVARIANTS
  EveryHandoffSettled
