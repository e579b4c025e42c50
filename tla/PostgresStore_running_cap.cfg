\* A dispatch and a claim of one channel, each under its own lock.
CONSTANTS
  j1 = j1  j2 = j2  j3 = j3  j4 = j4
  r1 = r1  r2 = r2
  s1 = s1  s2 = s2
  web = web  qa = qa  ch1 = ch1
  NULL = NULL
  JobId = {j1, j2, j3}
  Runner = {r1}
  Session = {s1, s2}
  Product = {web}
  Server = {qa}
  Channel = {ch1}
  Job <- OneSuite
  MaxActivePerJob = 0
  MaxQueuedPerChannel = 1
  MaxRunningPerChannel = 1
  MaxAttempts = 2
  LeaseTicks = 1
  Stamp = {0}
SPECIFICATION Spec
SYMMETRY Symmetry
INVARIANTS RunningCap
