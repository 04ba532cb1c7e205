SPECIFICATION FairSpec
CONSTANTS
  HTTP_MAX_CLIENTS = 2
  RequestedClients = 0
  TxSize = 2
  HeaderLens <- OneHeaderLen
  ErrHeaderLen = 1
  ErrBodyLen = 1
  BodyLens <- ShortBodyLen
  FaultyReads = TRUE
  Conns = {c1, c2}
  NoConn = NoConn
  Handles = {h1}
  NoHandle = NoHandle
  HasOnDrain = TRUE
  SndBuf = 2
  SplitSends = FALSE
  ExtraData = FALSE
  MaxSegments = 1
INVARIANTS
  NoLostWakeup
  DrainsOnlyComplete
PROPERTIES
  ImplementsExchange
  ReleasedUnlessFailed
