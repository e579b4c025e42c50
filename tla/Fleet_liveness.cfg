\* Two runs, one at a time, and test servers that die for good.
CONSTANTS
  j1 = j1  j2 = j2
  r1 = r1  r2 = r2
  web = web  qa = qa  ch1 = ch1
  NULL = NULL
  JobId = {j1, j2}
  Runner = {r1, r2}
  Product = {web}
  Server = {qa}
  Channel = {ch1}
  Job <- TwoRuns
  Labels <- AnyServer
  MaxActivePerJob = 0
  MaxQueuedPerChannel = 0
  MaxRunningPerChannel = 1
  MaxAttempts = 2
  LeaseTicks = 2
  Stamp = {0, 1}
  MaxGone = 0
  Faults = {"dies", "result reply lost", "store busy"}
SPECIFICATION FairSpec
PROPERTIES EveryRunEnds UsesStore
