CONSTANTS
  Keys = {k1, k2}
  Values = {v1, v2}
  Tombstone = Tombstone
  None = None
  Clients = {c1}
  TTLs <- MCTTLs
  SmartCompression = FALSE
  MaxFileSize = 2
  MaxTime = 3
  MaxLog = 3
  MaxFileID = 3
  MaxExpirers = 0
SPECIFICATION SerialSpec
INVARIANT AllInOrder
PROPERTY ImplementsKV
