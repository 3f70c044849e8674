\* All catalogs of three types; all spaces of up to three nodes; four larger
\* ones explored, one element a
\* batch, two batches at a time, with two connects meanwhile.
SPECIFICATION ServedSpec
CONSTANTS
  A = A
  B = B
  token = token
  None = None
  Lost = Lost
  Words <- MCWords
  Lower <- MCLower
  Servers = {A, B}
  Secured = {B}
  First <- MCFirst
  Spaces <- MCSpaces
  Walked <- MCWalked
  Calls <- MCCalls
  Connects <- MCConnects
  BatchSize = 1
  Concurrency = 2
  MaxConnects = 2
  Catalogs <- MCCatalogs
  NoTypes <- MCNoTypes
INVARIANTS ModelMirrorsSpace TypesAreSound WalkShowsTheModel
CHECK_DEADLOCK FALSE
