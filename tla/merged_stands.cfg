SPECIFICATION ExpansionSpec
CONSTANTS
  LastStage = 3
  ApprovalModels = {"FOUNDER_CONTROLLED", "INDEPENDENT_REVIEW"}
  MaxLog = 4
  MaxActs = 4
  MaxSlips = 1
CHECK_DEADLOCK FALSE
INVARIANT MergedStands
