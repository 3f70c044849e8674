\* Every address space with some of ten references, one change during the
\* browse, three depth limits, with and without a filter, and with results that
\* are Bad.
SPECIFICATION FairSpec
CONSTANTS
  a = a
  b = b
  h = h
  m = m
  Root = Root
  None = None
  Nodes <- MCNodes
  Branches <- MCBranches
  Links <- MCLinks
  Depths <- MCDepths
  Filters <- MCFilters
  Losses <- MCLosses
  MaxChanges = 1
INVARIANTS TypeOK MappedOnce NoParentCycle ParentIsKnown Complete ShortestPath
PROPERTIES Terminates
