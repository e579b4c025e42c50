\* Two commands for one suite, each delivered twice, to an edge that may crash.
CONSTANTS
  j1 = j1  j2 = j2
  r1 = r1
  web = web  qa = qa  ch1 = ch1
  acme = acme  ann = ann  bob = bob
  smoke = smoke
  NULL = NULL
  JobId = {j1, j2}
  Runner = {r1}
  Product = {web}
  Server = {qa}
  Channel = {ch1}
  Job <- TwoCommands
  Team = {acme}
  User = {ann, bob}
  Scope = {smoke}
  Command <- AnnAndBob
  Deployments <- Environments
  MaxActivePerJob = 0
  MaxQueuedPerChannel = 1
  MaxRunningPerChannel = 1
  MaxAttempts = 2
  LeaseTicks = 1
  Stamp = {0}
  MaxDeliveries = 2
  Faults = {"crash", "store busy", "commit unheard", "github call raises",
            "github answer lost"}
SPECIFICATION Spec
INVARIANTS TypeOK OneRunPerCommand AnswersAreTrue NeverStartedIsTrue
PROPERTIES OnlyEntitledRuns EveryDispatchSettles UsesStore
