SPECIFICATION Spec
CONSTANTS
  Workers = {w1, w2}
  Cap = 1
  Encrypted = FALSE
  Faults = FALSE
  Late = FALSE
  Database = FALSE
  maxRetries = 2
  Stops = TRUE
  MaxPolls = 1
  MaxReports = 2
SYMMETRY Symmetry
INVARIANT NoPanic
CHECK_DEADLOCK FALSE
