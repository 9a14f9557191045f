CONSTANTS
  k1 = k1
  k2 = k2
  Keys = {k1, k2}
  EmptyKey = EmptyKey
  Txs = {t1}
  Direct = Direct
  None = None
  TxOps <- MCTxOps
  MaxOps = 2
  MaxCommits = 1
  MaxWrites = 1
  MaxCrashes = 1
SPECIFICATION Spec
PROPERTY ReplayKeepsNewer
