SPECIFICATION FairSpec
CONSTANTS
  Workers = {w1}
  Cap = 1
  Encrypted = TRUE
  Faults = TRUE
  Late = FALSE
  Database = FALSE
  maxRetries = 2
  Stops = TRUE
  MaxPolls = 1
  MaxReports = 3
INVARIANTS
  TypeOK
  OneOwner
  StoppedMeansIdle
PROPERTIES
  ShutdownTerminates
  ReportsAreTried
CHECK_DEADLOCK FALSE
