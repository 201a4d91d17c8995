SPECIFICATION Spec
CONSTANTS
  Workers = {w1}
  Cap = 1
  Encrypted = FALSE
  Faults = TRUE
  Late = TRUE
  Database = TRUE
  maxRetries = 4
  Stops = FALSE
  MaxPolls = 1
  MaxReports = 2
INVARIANTS
  AtMostOnce
  BatchSentIsSettled
PROPERTY GaugesMoveForward
CHECK_DEADLOCK FALSE
