\* Safety: two interchangeable SSE requests, three updates, a cap of two
\* sliced to one.
SPECIFICATION Spec
CONSTANTS
  Streams = {s1, s2}
  MaxQueue = 2
  SliceQueue = 1
  MaxSeq = 3
  HonestClients = FALSE
  None = None
SYMMETRY StreamSymmetry
INVARIANTS TypeOK NoLostWakeup WaitersAreBlocked SingleStream
  ReplacedAreWoken Accounted HungOnlyAfterDelete AtMostOnce
\* Clients may stop sending requests and the assets may stop changing.
CHECK_DEADLOCK FALSE
