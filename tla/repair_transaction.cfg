SPECIFICATION StoreSpec
CONSTANTS
  c1 = c1
  c2 = c2
  Conn = {c1, c2}
  MaxId = 3
  MaxTime = 1
  Url <- Spellings
  Canonical <- Canonicalize
  Keep = 1
  MaxLegacy = 2
  MaxFaults = 2
  Invalid = Invalid
  NoConn = NoConn
  NoRow = NoRow
  NoHash = NoHash
CHECK_DEADLOCK FALSE
PROPERTY OneTransactionPerWrite
