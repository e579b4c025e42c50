\* Three requests in flight over two definitions and two triggers.
CONSTANTS
  d1 = d1  d2 = d2
  s1 = s1  s2 = s2  s3 = s3
  NULL = NULL
  DefId = {d1, d2}
  Session = {s1, s2, s3}
  Product = {"web"}
  Scope = {"smoke"}
  Server = {"qa", "staging"}
  Asked <- Named
  Body <- Bodies
SPECIFICATION Spec
INVARIANTS TypeOK OneJobPerTrigger AnswersAreTrue
PROPERTIES EveryRequestEnds
