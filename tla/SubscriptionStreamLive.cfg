\* Liveness: two SSE requests, two updates, a cap of one.
SPECIFICATION FairSpec
CONSTANTS
  Streams = {s1, s2}
  MaxQueue = 1
  SliceQueue = 1
  MaxSeq = 2
  HonestClients = TRUE
  None = None
PROPERTIES StreamDelivers ClosedStreamsEnd
\* Clients may stop sending requests and the assets may stop changing.
CHECK_DEADLOCK FALSE
