SPECIFICATION Spec
CONSTANTS
  SIGINT = SIGINT
  SIGTERM = SIGTERM
  Signals = {SIGINT, SIGTERM}
  None = None
  ConfigFiles <- MCConfigFiles
  Environments <- MCEnvironments
  CommandLines <- MCCommandLines
  Offers <- MCOffers
INVARIANTS
  NoDowngrade
  CleanExit
PROPERTIES
  ShutdownEnds
CHECK_DEADLOCK FALSE
