CONSTANTS
  Keys = {k1, k2}
  Values = {v1}
  Header = Header
  Tombstone = Tombstone
  Zero = Zero
  None = None
  Readers = {r1, r2}
  HeaderLen = 1
  ValueLen = 2
  BlockSize = 4
  KeyCacheSize = 1
  BlockCacheSize = 2
  MaxFileSize = 9
  MaxLog = 4
SPECIFICATION Spec
SYMMETRY Symmetry
INVARIANTS TypeOK BlocksExact
PROPERTY GetsCurrent
