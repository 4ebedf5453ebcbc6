CONSTANTS
  Validators <- MCValidators
  Weight <- MCWeight
  Hashes = {h1, h2}
  NoHash = NoHash
  MaxView = 2
SPECIFICATION Spec
CHECK_DEADLOCK FALSE
INVARIANT AggregateMatchesBitmap
