SPECIFICATION Spec
CONSTANTS
  s1 = s1
  s2 = s2
  Sources = {s1, s2}
  Shared = {s1}
  Values <- MCValues
  Initial <- MCInitial
  None = None
  Impls <- MCImpls
  MaxCalls = 3
  MaxChanges = 1
  MaxReads = 2
  MaxErrors = 1
INVARIANTS
  ItemsMatch
PROPERTIES
  PortSafe
  PortLive
CHECK_DEADLOCK FALSE
