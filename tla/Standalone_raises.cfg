\* A connection to Slack that ends before the answer is complete.
CONSTANTS
  j1 = j1  j2 = j2
  web = web  qa = qa  ch1 = ch1
  NULL = NULL
  NONE = NONE
  JobId = {j1, j2}
  Runner = {}
  Product = {web}
  Server = {qa}
  Channel = {ch1}
  Job <- TwoCommands
  MaxActivePerJob = 1
  MaxQueuedPerChannel = 0
  MaxRunningPerChannel = 1
  MaxAttempts = 1
  LeaseTicks = 1
  Stamp = {0}
  THROTTLE = 2
  MaxDeliveries = 2
  MaxTicks = 4
  Faults = {"crash", "store busy", "slack fails", "slack breaks off",
            "github answer lost"}
SYMMETRY Symmetry
SPECIFICATION Spec
INVARIANTS ReportingNeverFailsRun
