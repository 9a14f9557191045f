CONSTANTS
  Keys = {k1, k2}
  Values = {v1, v2}
  Header = Header
  Tombstone = Tombstone
  Zero = Zero
  None = None
  Readers = {r1}
  HeaderLen = 1
  ValueLen = 1
  BlockSize = 4
  KeyCacheSize = 2
  BlockCacheSize = 2
  MaxFileSize = 9
  MaxLog = 3
SPECIFICATION Spec
PROPERTY GetsReliable
