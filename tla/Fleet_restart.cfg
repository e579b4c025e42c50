\* A test server that crashes and comes back under its id.
CONSTANTS
  j1 = j1  j2 = j2
  r1 = r1  r2 = r2
  web = web  qa = qa  ch1 = ch1
  NULL = NULL
  JobId = {j1}
  Runner = {r1, r2}
  Product = {web}
  Server = {qa}
  Channel = {ch1}
  Job <- OneRun
  Labels <- AnyServer
  MaxActivePerJob = 0
  MaxQueuedPerChannel = 0
  MaxRunningPerChannel = 0
  MaxAttempts = 2
  LeaseTicks = 2
  Stamp = {0}
  MaxGone = 0
  Faults = {"crash mid-run"}
SPECIFICATION FairSpec
PROPERTIES HeldIsReleased
