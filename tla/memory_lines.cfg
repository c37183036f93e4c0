SPECIFICATION MemorySpec
CONSTANTS
    Sessions = {"a", "b"}
    MaxEvents = 4
INVARIANT CompletedAppendsLoad
CHECK_DEADLOCK FALSE
