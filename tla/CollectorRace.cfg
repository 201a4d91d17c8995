SPECIFICATION Spec
CONSTANTS
  Runtime = {alloc}
  System = {total}
  Pollers = {poller}
  SystemPollers = {sysPoller}
  Reporters = {reporter}
  Storers = {}
  Free = Free
  MaxPolls = 2
INVARIANT NoDataRace
