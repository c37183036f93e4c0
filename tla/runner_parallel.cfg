SPECIFICATION Spec
CONSTANTS
  Node <- FanNode
  DependsOn <- FanDependsOn
  Level <- FanLevel
  Rank <- InOrder
  Required <- FanNode
  Deliverable = 5
  LastLevel = 2
  MaxDepth = 5
  MaxParallel = 2
  MaxNodes = 20
  MaxCalls = 3
  MaxCorrections = 1
  CostCeiling = 4
  Quotes <- MixedQuotes
  CapacityExcluded = FALSE
  LeadEscalates = TRUE
  RiskTarget = NoNode
  NoCeiling = NoCeiling
  Unknown = Unknown
  Invalid = Invalid
  Risk = Risk
  NoNode = NoNode
INVARIANTS
  EveryCeilingHolds
  SnapshotIsEarlierLevels
