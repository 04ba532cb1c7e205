SPECIFICATION Spec
CONSTANTS
  HTTP_LINE_MAX = 4
  HTTP_HEADER_MAX_SIZE = 8
  HTTP_HEADER_MAX_COUNT = 2
  HTTP_BODY_MAX_SIZE = 2
  RequestMin = 1
  Headers <- MCHeaders
  MaxInput = 12
INVARIANTS
  TypeOK
  BodyComplete
  ParsesAsReference
PROPERTIES
  ParserContract
