SPECIFICATION FairSpec
CONSTANTS
  v1 = v1
  v2 = v2
  c1 = c1
  c2 = c2
  Versions = {v1, v2}
  NoVersion = NoVersion
  NoKro = NoKro
  Charts = {c1, c2}
  NoChart = NoChart
  Private = {c2}
  NoConfig = NoConfig
  Offers <- MCOffers
  PollInterval = 1
  MaxEdits = 3
  MaxFaults = 0
  MaxRGDs = 1
  AccessMayLapse = FALSE
  LateRGDs = FALSE
CHECK_DEADLOCK FALSE
PROPERTY Settles
