SPECIFICATION Spec
CONSTANTS
  HTTP_MAX_CLIENTS = 2
  RequestedClients = 0
  TxSize = 3
  HeaderLens <- MCHeaderLens
  ErrHeaderLen = 1
  ErrBodyLen = 1
  BodyLens <- MCBodyLens
  FaultyReads = TRUE
  Conns = {c1, c2}
  NoConn = NoConn
  Handles = {h1, h2}
  NoHandle = NoHandle
INVARIANTS
  TypeOK
  RemainingNeverUnderflows
  StreamInOrder
  ClosesAtAnnouncedLength
  HandlesAccounted
  AnsweredWhenParsed
  StreamsInvariant
