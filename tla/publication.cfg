SPECIFICATION Spec
CONSTANTS
  Name = {wheel, manifest}
  Stray = stray
  MaxAttempts = 2
  MaxMeddling = 2
  NoTag = NoTag
  NoRelease = NoRelease
  NoReceipt = NoReceipt
CHECK_DEADLOCK FALSE
INVARIANTS
  OneAttemptWrites
  OneLateWrite
  ApprovalsAreCurrent
PROPERTIES
  PublishesWhatItRead
  UndisturbedRunsEnd
