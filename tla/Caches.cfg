\* Three overlapping calls, in the server and with every method in use.
SPECIFICATION FairSpec
CONSTANTS
  Calls = {c1, c2, c3}
  MaxVersion = 1
  Deployments = {TRUE, FALSE}
  None = None
INVARIANTS ModelSingleFlight WaitersHaveABuild ModelFailureIsFresh
PROPERTIES ServedIsStable EveryCallIsAnswered
\* The calls may all have been made and answered.
CHECK_DEADLOCK FALSE
