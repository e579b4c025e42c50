\* One run, two test servers, replies and requests lost or late, crashes and restarts.
CONSTANTS
  j1 = j1  j2 = j2
  r1 = r1  r2 = r2
  web = web  qa = qa  ch1 = ch1
  NULL = NULL
  JobId = {j1}
  Runner = {r1, r2}
  Product = {web}
  Server = {qa}
  Channel = {ch1}
  Job <- OneRun
  Labels <- AnyServer
  MaxActivePerJob = 0
  MaxQueuedPerChannel = 0
  MaxRunningPerChannel = 0
  MaxAttempts = 2
  LeaseTicks = 3
  Stamp = {0}
  MaxGone = 1
  Faults = {"crash", "crash mid-run", "hangs up", "claim reply lost", "result lost", "result late", "result reply lost", "started lost", "heartbeat lost"}
SYMMETRY Symmetry
SPECIFICATION Spec
INVARIANTS TypeOK ExecutionsBounded RecordedIsReal
PROPERTIES BusyIsNotDead
