SPECIFICATION Spec
CONSTANTS
  Requests <- MCRequests
  Calls <- MCCalls
  Jobs <- MCJobs
  Profiles <- MCProfiles
  Adapters <- MCAdapters
  PoolSize = 2
  MaxAttempts = 3
  MaxEvents = 2
  NoAnswer = NoAnswer
CHECK_DEADLOCK FALSE
INVARIANTS
  NoHiddenWork
PROPERTIES
  DispatchKeepsContract
  SessionWindsUp
