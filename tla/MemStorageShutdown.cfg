SPECIFICATION FairSpec
CONSTANTS
  a = a
  b = b
  x = x
  nan = nan
  Names = {a, b}
  Finite = {x}
  NonFinite = {nan}
  Absent = Absent
  Nil = Nil
  IntMin <- MCIntMin
  IntMax <- MCIntMax
  Precision = 1
  Handlers = {h1, h2}
  Main = Main
  Saver = Saver
  Nobody = Nobody
  Calls <- ShutdownCalls
  Periodic = TRUE
  Restore = TRUE
  HasFile = TRUE
  Faults = TRUE
  NoFile = NoFile
  Broken = Broken
INVARIANT ShutdownKeepsAcked
PROPERTIES
  RequestsAnswered
  ShutdownTerminates
