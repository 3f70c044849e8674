SPECIFICATION Spec
CONSTANTS
  None = None
  Nodes <- MCNodes
  Properties <- MCProperties
  Parent <- MCParent
  Unknown <- MCUnknown
  Type <- MCType
  FirstData <- MCFirstData
  Past <- MCPast
  Data <- MCData
  Requests <- MCRequests
  MaxChanges = 1
INVARIANTS
  ReadsWhatIsWatched
  AnswersAreOwn
CHECK_DEADLOCK FALSE
