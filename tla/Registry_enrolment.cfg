\* Two hosts under one name, two edges on one store, files that come and go.
CONSTANTS
  h1 = h1  h2 = h2
  e1 = e1  e2 = e2
  qa1 = qa1
  NULL = NULL
  Host = {h1, h2}
  RunnerId = {qa1}
  Name <- SharedName
  Edge = {e1, e2}
  Token = TRUE
  OfflineAfter = 2
  MaxKeys = 2
  Faults = {"host crash", "key lost", "edge crash", "store lost", "enrolment reply lost", "heartbeat lost"}
SPECIFICATION FairSpec
INVARIANTS TypeOK StaysKnown ContactIsOnline
PROPERTIES EveryServerGetsIn
