CONSTANTS
  s1 = s1  s2 = s2  a = a  b = b  c = c  d = d  e = e  g = g
  T1 = T1  T2 = T2  T3 = T3  T4 = T4
  ShardIDList <- MCShardIDList
  Keys = {a, b, c, d, e, g}
  Owner <- MCGenOwner
  TxIds = {T1, T2, T3, T4}
  Tx <- MCGenTx
  Dataset <- MCGenDataset
  InitBalance = 1
  UintBound = 4
  RelayDelay = 2
  Nil = Nil
  NoSet = NoSet
SPECIFICATION Spec
INVARIANT TypeOK
INVARIANT LockedOnlyWhileOwnRelayAhead
INVARIANT AppliedOnlyIfAllLocked
