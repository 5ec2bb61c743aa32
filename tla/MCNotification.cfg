SPECIFICATION FairSpec
CONSTANTS
  o1 = o1
  a1 = a1
  a2 = a2
  c1 = c1
  c2 = c2
  NoJob = NoJob
  Operations <- OneOp
  Approvals <- OneApproval
  Consumers <- TwoConsumers
  BatchSize = 2
  MaxRetries = 1
  MaxJobs = 3
  MaxFaults = 2
CHECK_DEADLOCK FALSE
INVARIANT NoSilentLoss
INVARIANT ClaimsDisjoint
INVARIANT PostsBounded
 
