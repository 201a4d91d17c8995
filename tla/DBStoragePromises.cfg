SPECIFICATION Spec
CONSTANTS
  alloc = alloc
  polls = polls
  Handlers = {h1, h2, h3}
  Gauges = {alloc}
  Counters = {polls}
  MaxBigint = 3
  Calls <- WriteCalls
  maxRetries = 2
  Recognised = FALSE
  Faults = TRUE
  Free = Free
  Absent = Absent
  Nil = Nil
INVARIANT SomePromiseKept
