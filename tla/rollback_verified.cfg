SPECIFICATION ControlsSpec
CONSTANTS
  Issues <- MCIssues
  Transitional = {"issue26"}
  Baseline <- MCBaseline
  Contract <- MCContract
  MaxMeddling = 2
INVARIANTS
  UndisturbedRollbackPasses
CHECK_DEADLOCK FALSE
