CONSTANTS
  s1 = s1
  s2 = s2
  s3 = s3
  Nil = Nil
  Shards <- MCShards
  ViewLimit = 5
  MaxLoss = 1
  StartRace = FALSE
SPECIFICATION Spec
CHECK_DEADLOCK FALSE
INVARIANT TypeOK
INVARIANT NoCrash
INVARIANT ProposalCarriesPreviousQCs
INVARIANT ProposalsPassValidation
INVARIANT CertificatesAgree
PROPERTY LastHashAdvancesByOne
PROPERTY AllLeadersEventuallyStop
