CONSTANTS
  Keys = {k1, k2}
  Values = {v1}
  Tombstone = Tombstone
  None = None
  Clients = {c1}
  TTLs = {0}
  SmartCompression = FALSE
  MaxFileSize = 1
  MaxTime = 2
  MaxLog = 2
  MaxFileID = 2
  MaxExpirers = 0
  MaxSnaps = 1
SPECIFICATION SnapSpec
SYMMETRY Symmetry
INVARIANTS IndexExact RecoveryExact
PROPERTY RestoreExact
