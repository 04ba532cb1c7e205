SPECIFICATION Spec
CONSTANTS
  Methods = {GET, POST}
  GET = GET
  Paths = {p1, p2}
  Matches <- EachOrAll
  FilePaths = {p1}
  HTTP_MAX_ROUTES = 3
  Mounts <- SomeMounts
  HTTP_MAX_STATIC_ROUTES = 2
  HTTP_STATIC_PATH_MAX = 7
  Extensions <- OneExtension
  MaxPath = 8
  Words = {"content-type", "a"}
  ContentType = "content-type"
  LongNames = TRUE
  HTTP_RESP_HEADER_MAX = 2
  HTTP_RESP_HEADER_VALUE_MAX = 2
  ValueLens = {0, 3}
  BodyLens = {0, 1}
  TxSize = 8
  NameLen = 2
  StatusLen = 1
  TailLen = 1
  MaxCalls = 3
  Digits = {"1", "f"}
  Letters = {}
  ParamNames <- ShortNames
  OutLens = {0, 2, 3}
  MaxText = 4
CHECK_DEADLOCK FALSE
INVARIANTS
  ResolvedStaysValid
  StaysBelowRoot
  PathFits
  OneMountPerPath
  OrdinaryPathsMapped
  TypeOfFileName
  HeadersAsSet
  BodyHasSource
  EncodesWhatFits
  OneContentType
  FindsAndDecodes
  RoomForZero
PROPERTIES
  AnswersAsDocumented
  SentIsFinal
  CallReturns
