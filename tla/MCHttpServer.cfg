SPECIFICATION FairSpec
CONSTANTS
  HTTP_MAX_CLIENTS = 2
  RequestedClients = 0
  TxSize = 2
  HeaderLens <- OneLen
  ErrHeaderLen = 1
  ErrBodyLen = 1
  BodyLens <- OneLen
  FaultyReads = FALSE
  Conns = {c1, c2}
  NoConn = NoConn
  Handles = {h1}
  NoHandle = NoHandle
  HasOnDrain = TRUE
  SndBuf = 2
  SplitSends = FALSE
  ExtraData = FALSE
  MaxSegments = 1
  Servers = {v1}
  NoServer = NoServer
INVARIANTS
  CallbacksHaveEngine
  SlotsFollowWhileListening
  ListensIffStarted
  NoFileLost
PROPERTIES
  ImplementsEngine
  StopReturns
