SPECIFICATION Spec
CONSTANTS
  v1 = v1
  v2 = v2
  c1 = c1
  c2 = c2
  Versions = {v1}
  NoVersion = NoVersion
  NoKro = NoKro
  Charts = {c1}
  NoChart = NoChart
  Private = {c1}
  NoConfig = NoConfig
  Offers <- MCMinimalOffer
  PollInterval = 1
  MaxEdits = 4
  MaxFaults = 1
  MaxRGDs = 1
  AccessMayLapse = FALSE
  LateRGDs = FALSE
CHECK_DEADLOCK FALSE
INVARIANT InstallationOutlivesRGDs
PROPERTY LifecycleSpec
