CONSTANTS
  Keys = {k1, k2}
  Values = {v1}
  Tombstone = Tombstone
  None = None
  Clients = {c1}
  TTLs <- MCTTLs
  SmartCompression = FALSE
  MaxFileSize = 2
  MaxTime = 2
  MaxLog = 3
  MaxFileID = 2
  MaxExpirers = 1
SPECIFICATION Spec
SYMMETRY Symmetry
INVARIANTS TypeOK IndexExact RecoveryExact
PROPERTY CompactKeepsReads
