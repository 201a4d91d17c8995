SPECIFICATION FairSpec
CONSTANTS
  alloc = alloc
  polls = polls
  Handlers = {h1, h2}
  Gauges = {alloc}
  Counters = {polls}
  MaxBigint = 3
  Calls <- AllCalls
  maxRetries = 2
  Recognised = FALSE
  Faults = TRUE
  Free = Free
  Absent = Absent
  Nil = Nil
INVARIANTS
  TypeOK
  BatchOutcome
  SavedMeansApplied
PROPERTIES
  ChangesAreWhole
  RequestsAnswered
