\* One client that awaits each answer; the data source refuses a runtime at
\* first and grants one later.
SPECIFICATION Spec
CONSTANTS
  Requests = {r1, r2, r3}
  Elements <- MCElements
  Sources <- MCSources
  Depths = {1}
  SourcesAt <- SameAtEveryDepth
  Adapters <- Sometimes
  PortFailures = FALSE
  Serial = TRUE
  None = None
  tank = tank  pump = pump  level = level  flow = flow
SYMMETRY RequestSymmetry
INVARIANT RegisteredIsMonitored
\* The client may stop calling and the sources may stop changing.
CHECK_DEADLOCK FALSE
