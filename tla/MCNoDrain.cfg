SPECIFICATION FairSpec
CONSTANTS
  HTTP_MAX_CLIENTS = 1
  RequestedClients = 0
  TxSize = 2
  HeaderLens <- OneHeaderLen
  ErrHeaderLen = 1
  ErrBodyLen = 1
  BodyLens <- OneBodyLen
  FaultyReads = FALSE
  Conns = {c1}
  NoConn = NoConn
  Handles = {h1}
  NoHandle = NoHandle
  HasOnDrain = FALSE
  SndBuf = 2
  SplitSends = FALSE
  ExtraData = FALSE
  MaxSegments = 2
PROPERTIES
  AnsweredIsReleased
