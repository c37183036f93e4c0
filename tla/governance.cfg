SPECIFICATION GovernanceSpec
CONSTANTS
  Phases = 2
  Registries <- TwoRegistries
  MaxCommits = 6
  MaxEdits = 2
  LastStage = 3
  ApprovalModels = {"FOUNDER_CONTROLLED", "INDEPENDENT_REVIEW"}
  MaxLog = 4
  MaxActs = 4
  MaxSlips = 1
  MatrixLegs = 2
  MaxAttempts = 2
  MaxTrouble = 2
  RatchetFiles = {"f"}
  DefaultCeiling = 1
  MaxDebt = 3
  MinimumFloor = 1
  MaxCoverage = 2
  MaxMerged = 3
  MaxPull = 2
  SourceFile = {"contract", "commands", "client"}
  SourceText = {1, 2}
  ContractOf <- ContractTexts
  CommandsOf <- CommandTexts
  AgentRow <- AgentRows
  Catalog = {"read", "write", "talk", "other"}
  ReceiptFile = {"r1", "r2"}
  ReceiptId = {"i1"}
  LastDay = 1
  MaxRevisions = 2
  MaxFileEdits = 1
  MaxIssues = 1
  MaxReceiptSlips = 1
  NoReceiptFile = NoReceiptFile
CHECK_DEADLOCK FALSE
INVARIANTS
  CompleteStaysApproved
  CertifiedIsApproved
  CertifiedIsProven
  DebtNeverGrows
  CheckedIsCurrent
