\* One channel at its caps: the queue, the running slots and the suite's slot.
CONSTANTS
  j1 = j1  j2 = j2  j3 = j3
  r1 = r1  r2 = r2
  web = web  api = api  qa = qa  ch1 = ch1
  NULL = NULL
  JobId = {j1, j2, j3}
  Runner = {r1, r2}
  Product = {web, api}
  Server = {qa}
  Channel = {ch1}
  Job <- OneChannel
  MaxActivePerJob = 1
  MaxQueuedPerChannel = 1
  MaxRunningPerChannel = 1
  MaxAttempts = 2
  LeaseTicks = 2
  Stamp = {0, 1}
SYMMETRY Symmetry
SPECIFICATION Spec
INVARIANTS TypeOK Custody AttemptsBounded JobCap RunningCap
PROPERTIES LiveLeaseIsSafe OldestFirst KeepsLifecycle
