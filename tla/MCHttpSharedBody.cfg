SPECIFICATION SharedSpec
CONSTANTS
  HTTP_MAX_CLIENTS = 2
  RequestedClients = 0
  TxSize = 2
  HeaderLens <- OneHeaderLen
  ErrHeaderLen = 1
  ErrBodyLen = 1
  BodyLens <- OneBodyLen
  FaultyReads = FALSE
  Conns = {c1, c2}
  NoConn = NoConn
  Handles = {h1}
  NoHandle = NoHandle
INVARIANTS
  SentAsBuilt
