\* The doc comment of acknowledge(), checked against the stream route.
SPECIFICATION Spec
CONSTANTS
  Streams = {s1, s2}
  MaxQueue = 2
  SliceQueue = 1
  MaxSeq = 3
  HonestClients = TRUE
  None = None
SYMMETRY StreamSymmetry
INVARIANT TrimmedWereDelivered
\* Clients may stop sending requests and the assets may stop changing.
CHECK_DEADLOCK FALSE
