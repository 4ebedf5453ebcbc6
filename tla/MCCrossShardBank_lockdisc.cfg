CONSTANTS
  s1 = s1  s2 = s2  a = a  b = b  c = c  d = d  e = e  g = g
  T1 = T1  T2 = T2  T3 = T3  T4 = T4
  ShardIDList <- MCShardIDList
  Keys = {a, b, c}
  Owner <- MCOwner
  TxIds = {T1, T2, T3}
  Tx <- MCTx
  Dataset <- MCDataset
  InitBalance = 1
  UintBound = 4
  RelayDelay = 2
  Nil = Nil
  NoSet = NoSet
SPECIFICATION Spec
PROPERTY LockDiscipline
