SPECIFICATION Spec
CONSTANTS
  Sessions <- MCSessions
  MaxEvents = 4
  MaxRounds = 3
  Connections = 4
  Slots = 3
  MaxRequests = 2
  MaxBytes = 1
  ChunkSizes <- MCChunkSizes
  Processes = {"leader", "child", "grandchild"}
  Leader = "leader"
  Body = 1
  OutputLimit = 1
  MaxOutput = 2
  PipeSize = 1
  MaxAttempts = 2
  MaxCi = 2
  LastTime = 2
  PreparedTtl = 1
  EvidenceTtl = 2
  Retention = 1
  Issues <- MCIssues
  Transitional = {"issue26"}
  Baseline <- MCWatchedBaseline
  Contract <- MCContract
  MaxMeddling = 2
INVARIANTS
  NoSilentLoss
  InterruptedIsTimeout
  BudgetNeverPassed
  ReturnIsFinal
  AcceptedIsCurrent
  ReceiptIsTruthful
PROPERTIES
  ServicesEnd
CHECK_DEADLOCK FALSE
