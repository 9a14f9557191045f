CONSTANTS
  Keys = {k1, k2}
  Values = {v1, v2}
  Tombstone = Tombstone
  None = None
  Unsure = Unsure
  Clients = {c1}
  TTLs = {0}
  SmartCompression = FALSE
  MaxFileSize = 2
  MaxTime = 2
  MaxLog = 3
  MaxFileID = 3
  MaxExpirers = 0
  MaxFaults = 2
SPECIFICATION FaultsSpec
SYMMETRY Symmetry
INVARIANTS AckedKept AckedDurable
