\* One client that awaits each answer, four calls.
SPECIFICATION Spec
CONSTANTS
  Requests = {r1, r2, r3, r4}
  Elements <- MCElements
  Sources <- MCSources
  Depths = {1}
  SourcesAt <- SameAtEveryDepth
  Adapters <- AlwaysOrNever
  PortFailures = FALSE
  Serial = TRUE
  None = None
  tank = tank  pump = pump  level = level  flow = flow
SYMMETRY RequestSymmetry
INVARIANTS RegisteredIsMonitored 
\* The client may stop calling and the sources may stop changing.
CHECK_DEADLOCK FALSE
