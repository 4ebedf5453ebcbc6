CONSTANTS
  Validators <- MCValidators
  Weight <- MCWeight
  Hashes = {h1, h2}
  NoHash = NoHash
  MaxView = 2
SPECIFICATION Spec
INVARIANT TypeOK
INVARIANT CountersMatchVotes
INVARIANT AggVoteBacked
CHECK_DEADLOCK FALSE
