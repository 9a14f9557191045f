CONSTANTS
  Keys = {k1, k2}
  Values = {v1}
  Tombstone = Tombstone
  None = None
  Clients = {c1}
  TTLs = {0, 1}
  SmartCompression = TRUE
  MaxFileSize = 2
  MaxTime = 3
  MaxLog = 3
  MaxFileID = 3
  MaxExpirers = 1
SPECIFICATION Spec
PROPERTY DeletedStaysDeleted
