SPECIFICATION Spec
CONSTANTS
  Runtime = {alloc, frees}
  System = {total}
  Pollers = {poller}
  SystemPollers = {sysPoller}
  Reporters = {reporter}
  Storers = {storer}
  Free = Free
  MaxPolls = 3
SYMMETRY Symmetry
INVARIANTS
  TypeOK
  ReportIsOnePoll
  StoredAtMostPolled
  StoredExactly
