SPECIFICATION FairSpec
CONSTANTS
  i1 = i1
  i2 = i2
  w1 = w1
  w2 = w2
  n1 = n1
  n2 = n2
  v1 = v1
  v2 = v2
  Versions = {v1, v2}
  Wants <- Requested
  Instances = {i1, i2}
  Workloads = {w1, w2}
  Place <- Dedicated
  Names = {n1, n2}
  NoName = NoName
  Malformed = Malformed
  NoEntry = NoEntry
  Lists <- MCLists
  NotReady = NotReady
  NoOne = NoOne
  Idle = Idle
  MaxEdits = 2
  MaxFaults = 1
INVARIANT TypeOK
INVARIANT ReadyHasPullSecrets
PROPERTY CopiesFollow
