CONSTANTS
  r0 = r0
  r1 = r1
  r2 = r2
  t1 = t1
  t2 = t2
  Nil = Nil
  Replicas <- MCReplicas
  Leader = r0
  NumParts = 2
  ViewLimit = 2
  StartRace = TRUE
  Txs <- MCTxs
  Size <- MCSize
  Dataset <- MCDataset
  MaxBytes = 3
  Pipeline = TRUE
SPECIFICATION Spec
CHECK_DEADLOCK FALSE
INVARIANT ProposalBackedByQuorum
INVARIANT PartsAccountedFor
PROPERTY StartedValidatorCatchesUp
