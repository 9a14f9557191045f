CONSTANTS
  k1 = k1
  k2 = k2
  Keys = {k1, k2}
  EmptyKey = EmptyKey
  Txs = {t1, t2}
  Direct = Direct
  None = None
  TxOps <- MCTxOps
  MaxOps = 2
  MaxCommits = 1
  MaxWrites = 1
  MaxCrashes = 2
SPECIFICATION Spec
INVARIANTS TypeOK LoggedFirst
PROPERTIES ReplayedWhole RecoveryEnds
