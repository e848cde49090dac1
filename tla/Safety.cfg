SPECIFICATION Spec
CONSTANTS
  v1 = v1
  v2 = v2
  c1 = c1
  c2 = c2
  Versions = {v1, v2}
  NoVersion = NoVersion
  NoKro = NoKro
  Charts = {c1, c2}
  NoChart = NoChart
  Private = {c2}
  NoConfig = NoConfig
  Offers <- MCSingleOffer
  PollInterval = 1
  MaxEdits = 3
  MaxFaults = 1
  MaxRGDs = 1
  AccessMayLapse = TRUE
  LateRGDs = TRUE
CHECK_DEADLOCK FALSE
INVARIANT TypeOK
INVARIANT NoOrphans
INVARIANT AccessOutlivesReleases
INVARIANT NoLeakedAccess
INVARIANT SecretsPrecedeReleases
INVARIANT ReadyMeansInstalled
INVARIANT NoLostWakeup
PROPERTY OnlyUsersCreate
