SPECIFICATION FairSpec
CONSTANTS
  HTTP_MAX_CLIENTS = 2
  RequestedClients = 1
  TxSize = 2
  HeaderLens <- MCHeaderLens
  ErrHeaderLen = 1
  ErrBodyLen = 1
  BodyLens <- FewBodyLens
  FaultyReads = TRUE
  Conns = {c1, c2}
  NoConn = NoConn
  Handles = {h1}
  NoHandle = NoHandle
  HasOnDrain = TRUE
  SndBuf = 2
  SplitSends = TRUE
  ExtraData = TRUE
  MaxSegments = 2
INVARIANTS
  TypeOK
  SlotsFollowConnections
PROPERTIES
  ImplementsEngine
  GoneIsReleased
