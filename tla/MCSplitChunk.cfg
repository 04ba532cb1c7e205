SPECIFICATION Spec
CONSTANTS
  HTTP_MAX_CLIENTS = 1
  RequestedClients = 0
  TxSize = 2
  HeaderLens <- OneHeaderLen
  ErrHeaderLen = 1
  ErrBodyLen = 1
  BodyLens <- OneBodyLen
  FaultyReads = TRUE
  Conns = {c1}
  NoConn = NoConn
  Handles = {h1}
  NoHandle = NoHandle
  HasOnDrain = TRUE
  SndBuf = 2
  SplitSends = TRUE
  ExtraData = FALSE
  MaxSegments = 2
INVARIANTS
  BodyIsStreamed
