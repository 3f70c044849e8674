\* Three calls that overlap, and a data source that may fail at every call.
SPECIFICATION Spec
CONSTANTS
  Requests = {r1, r2, r3}
  Elements <- MCElements
  Sources = {flow}
  Depths = {1, 2}
  SourcesAt <- SharedAtDepth2
  Adapters <- Sometimes
  PortFailures = TRUE
  Serial = FALSE
  None = None
  tank = tank  pump = pump  level = level
 flow = flow
SYMMETRY RequestSymmetry
INVARIANTS TypeOK BooksAgree DirtyIsScheduled FallbackPolls
  OnlyReplacedLinger
\* The client may stop calling and the sources may stop changing.
CHECK_DEADLOCK FALSE
